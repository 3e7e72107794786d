----------------------------- MODULE MCGlobalOps -----------------------------
(* Model-checking instances of the collective operations.                  *)
EXTENDS GlobalOps

CONSTANTS
    a, b, c,    \* threads
    W, X        \* communicators: everyone; a and b

MCMembers == [x \in {W, X} |-> IF x = W THEN {a, b, c} ELSE {a, b}]
MCMachine == [t \in {a, b, c} |-> IF t = c THEN "m2" ELSE "m1"]

Sync(x) == [op |-> "SYNC", comm |-> x]
Asyn(x) == [op |-> "ASYN", comm |-> x]
Waits == [op |-> "WAIT"]
Burst == [op |-> "CPU"]

\* The part of a trace that concerns thread t: c takes no part in X.
Part(t, s) ==
    IF t = c THEN SelectSeq(s, LAMBDA x : x \notin {Sync(X), Asyn(X)}) ELSE s

\* Everyone makes the same calls, non-blocking ones on W only.
SameCalls ==
    {[t \in {a, b, c} |-> Part(t, s)] : s \in {
        <<Sync(W), Burst, Sync(X), Sync(W)>>,
        <<Asyn(W), Sync(X), Waits, Sync(W)>>,
        <<Asyn(W), Burst, Asyn(W), Waits, Waits>>,
        <<Asyn(W), Asyn(W), Sync(W), Waits, Waits>>}}

\* The hypothesis of the theorem about CallsMatch.
ASSUME IndexesMatchAssumption == IndexesMatch
==============================================================================
