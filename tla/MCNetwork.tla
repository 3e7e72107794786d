------------------------------ MODULE MCNetwork ------------------------------
(* Model-checking instances of the links and buses of a machine.           *)
EXTENDS Network

CONSTANTS
    a, b, c,     \* nodes
    NMessages    \* messages sent, at most

MCMsgs == 1 .. NMessages

\* Messages differ only in their routes, so one order of them is enough.
Path == <<[src |-> a, dst |-> b], [src |-> a, dst |-> c], [src |-> b, dst |-> a],
          [src |-> b, dst |-> c], [src |-> c, dst |-> a], [src |-> c, dst |-> b]>>
MCRoutes == {[m \in MCMsgs |-> Path[k[m]]] :
               k \in {f \in [MCMsgs -> DOMAIN Path] :
                        \A i, j \in MCMsgs : i < j => f[i] <= f[j]}}

FullDuplex == [n \in {a, b, c} |-> [in |-> 1, out |-> 1]]
HalfAndFull == [n \in {a, b, c} |-> IF n = c THEN [in |-> 1, out |-> 1]
                                             ELSE [in |-> 0, out |-> 1]]
Both == {FullDuplex, HalfAndFull}

ASSUME UniformConfigs == Uniform
==============================================================================
