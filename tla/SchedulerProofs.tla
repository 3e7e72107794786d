--------------------------- MODULE SchedulerProofs ---------------------------
(***************************************************************************)
(* Proofs about Scheduler: no thread and none of its time is lost or       *)
(* counted twice, nobody that could run is forgotten, and CPUs are given   *)
(* in the order of the policy, for every number of threads and CPUs and    *)
(* every scheduler, trace, startup and flight time.                        *)
(*                                                                         *)
(* The invariant says where every thread is in the middle of a handler and *)
(* what it will do next there; it has the properties as conjuncts or at    *)
(* once gives them between events.  The lemmas go from the helpers (the    *)
(* orders of ready and of Event_queue, bursts, priorities and quanta) over *)
(* what several handlers do alike (a thread goes to ready, to a CPU, or    *)
(* leaves its CPU) to one lemma per action.                                *)
(***************************************************************************)
EXTENDS Scheduler, QueueLemmas, SequenceTheorems

-----------------------------------------------------------------------------
(* The invariant                                                           *)

OnCpu(t) == \E c \in Cpus : on[c] = t

\* The threads that the running handler holds, when its next phase is p.
InHand(p) == IF p[1] = "op" THEN {p[2]}
             ELSE IF p[1] \in {"wake", "run"} THEN ToSet(p[2]) ELSE {}

Places == {"cpu", "ready", "gathered", "receiving", "finished", "hand"}

\* Every thread is in one place.
AtPlace(t, p) ==
    /\ OnCpu(t) <=> p = "cpu"
    /\ t \in ToSet(ready) <=> p = "ready"
    /\ t \in ToSet(gathered) <=> p = "gathered"
    /\ t \in receivers <=> p = "receiving"
    /\ finished[t] = One(p = "finished")
    /\ t \in InHand(phase) <=> p = "hand"
PlaceInv == \A t \in Threads : \E p \in Places : AtPlace(t, p)

\* And it is there once.
OnceInv ==
    /\ Once(ready) /\ Once(gathered)
    /\ phase[1] \in {"wake", "run"} => phase[2] # <<>> /\ Once(phase[2])

\* A thread knows its CPU, also while it does its operations, and that it is
\* the last one that ran there.
CpuInv ==
    /\ \A c \in Cpus : on[c] # None => context[c] = on[c]
    /\ \A c \in Cpus : context[c] # None => cpuOf[context[c]] = c
    /\ phase[1] = "op" => /\ cpuOf[phase[2]] \in Cpus /\ on[cpuOf[phase[2]]] = None
                          /\ context[cpuOf[phase[2]]] = phase[2]

\* Context switches and busy waits are of threads on CPUs; a thread preempted at
\* the end of a context switch does another one before it runs.
FlagsOf(t) ==
    /\ switching[t] => conf.switch # 0 /\ (OnCpu(t) \/ t \in ToSet(ready))
    /\ spinning[t] => conf.busy /\ OnCpu(t) /\ ~switching[t]
FlagInv == \A t \in Threads : FlagsOf(t)

\* The next operation of a thread.
NextCall(s) == IF s = <<>> THEN "END" ELSE Head(s).op

\* What a thread does next fits where it is.
CallsOf(t) ==
    /\ t \in ToSet(ready) => NextCall(rest[t]) = "WORK"
    /\ t \in ToSet(gathered) => NextCall(rest[t]) = "GLOBAL"
    /\ t \in receivers => NextCall(rest[t]) = "RECV"
    /\ finished[t] # 0 => NextCall(rest[t]) = "END"
    /\ switching[t] => NextCall(rest[t]) = "WORK"
    /\ spinning[t] => NextCall(rest[t]) = "RECV"
    /\ t \in InHand(phase) /\ phase[1] \in {"wake", "run"} => NextCall(rest[t]) # "END"
CallInv ==
    /\ \A t \in Threads : CallsOf(t)
    /\ phase[1] = "run" => NextCall(rest[Head(phase[2])]) = "WORK"

\* Which timer an event is: there is one for each thread, and one for the
\* collective.
TimerKey(e) == IF e.module = "SCH" THEN e.th ELSE IF e.module = "GOP" THEN None ELSE -1
TimerOnce(q) == \A i, j \in DOMAIN q :
                    TimerKey(q[i]) = TimerKey(q[j]) /\ TimerKey(q[i]) # -1 => i = j
TimerKeys(q) == {TimerKey(q[i]) : i \in DOMAIN q} \ {-1}

\* The threads on CPUs have timers, and the collective has one when all are in it.
TimerInv ==
    /\ TimerOnce(events)
    /\ \A t \in Threads : t \in TimerKeys(events) <=> OnCpu(t)
    /\ None \in TimerKeys(events) <=> gathered # <<>> /\ Len(gathered) = NThreads

\* Nobody waits for a message that is there, busy waiters aside.
MailInv == ~conf.busy => \A t \in receivers : mail[t] = 0

\* When no thread of ready can have a CPU unless reload_events looks for one.
FreeAtMostOne == \A c, d \in Free : c = d
DispatchInv ==
    /\ phase[1] = "boot" => reloadDone
    /\ phase[1] = "reload" => reloadDone \/ ready = <<>> \/ Free = {}
    /\ phase[1] \in {"newjob", "dispatch", "op"} => reloadDone \/ ready = <<>> \/ FreeAtMostOne
    /\ phase[1] = "newjob" => ready # <<>> \/ Free = {}
    /\ phase[1] = "run" => Free # {} /\ FreeAtMostOne

\* The inputs are those of a setup.
InputInv ==
    /\ conf \in ConfigSet /\ (conf.preempt => conf.policy = "SVR4")
    /\ prog \in [Threads -> Seq(Actions)]

\* SVR4 has a quantum for the priorities 0 .. 59 only.
ThreadParams == [prio : Int, full : BOOLEAN, forces : BOOLEAN, task : Nat]
ParamsFit(pr) ==
    /\ pr \in [Threads -> ThreadParams]
    /\ conf.policy = "SVR4" => \A t \in Threads : pr[t].prio \in 0 .. BestPrio
ParamsInv == ParamsFit(params)

\* A queue in the order of a key; Order as one.
InOrder(q, key) == \A i, j \in DOMAIN q : i <= j => key[q[i]] <= key[q[j]]
OrderKey(pr) == [t \in Threads |-> Order(pr, t)]

\* t was the last one on its CPU, which is free.
HasItsCpu(t) == cpuOf[t] \in Free /\ context[cpuOf[t]] = t

\* With FIFO and RR only a thread that has just left its CPU is to keep it, and
\* it is the first; with the others ready is in its order.
TurnInv ==
    IF conf.policy \in {"FIFO", "RR"}
      THEN \A i \in DOMAIN ready :
               loose[ready[i]] \/ (phase[1] = "dispatch" /\ i = 1 /\ HasItsCpu(ready[i]))
      ELSE InOrder(ready, OrderKey(params))

IInv ==
    /\ TypeOK /\ InputInv /\ ParamsInv /\ PlaceInv /\ OnceInv /\ CpuInv /\ FlagInv
    /\ CallInv /\ TimerInv /\ TimeForward /\ MailInv /\ DispatchInv /\ TurnInv
    /\ CpuTimeConserved /\ NoIdleCpu /\ NeverPanics
-----------------------------------------------------------------------------
(* Queues                                                                  *)

LEMMA MinIs ==
    ASSUME NEW S \in SUBSET Nat, S # {}
    PROVE  Min(S) \in S /\ \A m \in S : Min(S) <= m
  BY LeastElement DEF Min

LEMMA MaxIs ==
    ASSUME NEW n \in Nat, NEW S \in SUBSET (0 .. n), S # {}
    PROVE  Max(S) \in S /\ \A m \in S : m <= Max(S)
<1> DEFINE R == {n - m : m \in S}
<1>1. R \in SUBSET Nat /\ R # {}
  <2>1. \A m \in S : n - m \in Nat
    OBVIOUS
  <2> QED BY <2>1
<1>2. PICK r \in R : \A m \in R : r <= m
  BY <1>1, LeastElement
<1>3. PICK s \in S : r = n - s
  BY <1>2
<1>4. \A m \in S : s >= m
  <2> SUFFICES ASSUME NEW m \in S PROVE s >= m
    OBVIOUS
  <2>1. n - s <= n - m
    BY <1>2, <1>3
  <2> QED BY <2>1
<1>5. \E x \in S : \A y \in S : x >= y
  BY <1>4
<1>6. Max(S) \in S /\ \A y \in S : Max(S) >= y
  BY <1>5 DEF Max
<1>7. \A y \in S : y \in Int
  OBVIOUS
<1> QED BY <1>6, <1>7

LEMMA AppendInserts ==
    ASSUME NEW S, NEW q \in Seq(S), NEW x \in S
    PROVE  Append(q, x) = InsertAt(q, Len(q) + 1, x)
<1> DEFINE p == InsertAt(q, Len(q) + 1, x)
<1>1. Len(q) \in Nat /\ Len(q) + 1 \in 1 .. Len(q) + 1
  OBVIOUS
<1>2. /\ p \in Seq(S) /\ DOMAIN p = 1 .. Len(q) + 1 /\ p[Len(q) + 1] = x
      /\ \A i \in 1 .. Len(q) : p[i] = q[i] /\ Len(p) = Len(q) + 1
  BY <1>1, InsertElements
<1>3. /\ Append(q, x) \in Seq(S) /\ DOMAIN Append(q, x) = 1 .. Len(q) + 1
      /\ Append(q, x)[Len(q) + 1] = x /\ Len(Append(q, x)) = Len(q) + 1
      /\ \A i \in 1 .. Len(q) : Append(q, x)[i] = q[i]
  BY AppendPositions
<1> HIDE DEF p
<1>4. \A i \in 1 .. Len(q) + 1 : p[i] = Append(q, x)[i]
  BY <1>1, <1>2, <1>3
<1>5. p = Append(q, x)
  BY <1>1, <1>2, <1>3, <1>4
<1> QED BY <1>5 DEF p

LEMMA PrependInserts ==
    ASSUME NEW S, NEW q \in Seq(S), NEW x \in S
    PROVE  <<x>> \o q = InsertAt(q, 1, x)
<1> DEFINE p == InsertAt(q, 1, x)
           r == <<x>> \o q
<1>1. Len(q) \in Nat /\ 1 \in 1 .. Len(q) + 1
  OBVIOUS
<1>2. /\ p \in Seq(S) /\ DOMAIN p = 1 .. Len(q) + 1 /\ p[1] = x /\ Len(p) = Len(q) + 1
      /\ \A i \in 2 .. Len(q) + 1 : p[i] = q[i - 1]
  BY <1>1, InsertElements
<1>3. /\ r \in Seq(S) /\ DOMAIN r = 1 .. Len(q) + 1 /\ r[1] = x /\ Len(r) = Len(q) + 1
      /\ \A i \in 2 .. Len(q) + 1 : r[i] = q[i - 1]
  OBVIOUS
<1> HIDE DEF p, r
<1>4. \A i \in 1 .. Len(q) + 1 : p[i] = r[i]
  <2>1. \A i \in 1 .. Len(q) + 1 : i = 1 \/ i \in 2 .. Len(q) + 1
    BY <1>1
  <2> QED BY <1>2, <1>3, <2>1
<1>5. p = r
  BY <1>1, <1>2, <1>3, <1>4
<1> QED BY <1>5 DEF p, r

LEMMA InsertBeforeIs ==
    ASSUME NEW S, NEW q \in Seq(S), NEW x \in S, NEW P \in SUBSET DOMAIN q
    PROVE  \E k \in 1 .. Len(q) + 1 :
              /\ InsertBefore(q, x, P) = InsertAt(q, k, x)
              /\ \A i \in 1 .. k - 1 : i \notin P
              /\ k <= Len(q) => k \in P
<1>1. Len(q) \in Nat /\ DOMAIN q = 1 .. Len(q)
  OBVIOUS
<1>2. CASE P = {}
  <2>1. InsertBefore(q, x, P) = InsertAt(q, Len(q) + 1, x)
    BY <1>2, AppendInserts DEF InsertBefore
  <2>2. Len(q) + 1 \in 1 .. Len(q) + 1 /\ ~(Len(q) + 1 <= Len(q))
    BY <1>1
  <2> QED BY <1>2, <2>1, <2>2
<1>3. CASE P # {}
  <2>1. P \in SUBSET Nat
    BY <1>1
  <2>2. Min(P) \in P /\ \A m \in P : Min(P) <= m
    BY <1>3, <2>1, MinIs
  <2>3. Min(P) \in 1 .. Len(q) + 1
    BY <1>1, <2>2
  <2>4. \A i \in 1 .. Min(P) - 1 : i \notin P
    BY <2>2, <2>3
  <2>5. InsertBefore(q, x, P) = InsertAt(q, Min(P), x)
    BY <1>3 DEF InsertBefore
  <2> QED BY <2>2, <2>3, <2>4, <2>5
<1> QED BY <1>2, <1>3

LEMMA InsertInOrder ==
    ASSUME NEW S, NEW q \in Seq(S), NEW x \in S, NEW key \in [S -> Int], InOrder(q, key),
           NEW k \in 1 .. Len(q) + 1,
           \A i \in 1 .. k - 1 : key[q[i]] <= key[x],
           \A i \in k .. Len(q) : key[x] <= key[q[i]]
    PROVE  InOrder(InsertAt(q, k, x), key)
<1> DEFINE p == InsertAt(q, k, x)
<1>0. Inserted(p, q, k, x)
  BY InsertIs
<1>1. /\ DOMAIN p = 1 .. Len(q) + 1 /\ DOMAIN q = 1 .. Len(q) /\ Len(q) \in Nat
      /\ p[k] = x /\ k \in Nat /\ 1 <= k /\ k <= Len(q) + 1
      /\ \A i \in 1 .. k - 1 : p[i] = q[i]
      /\ \A i \in k + 1 .. Len(q) + 1 : p[i] = q[i - 1]
  <2> HIDE DEF p
  <2>1. /\ DOMAIN p = 1 .. Len(q) + 1 /\ p[k] = x
        /\ \A i \in 1 .. k - 1 : p[i] = q[i]
        /\ \A i \in k + 1 .. Len(q) + 1 : p[i] = q[i - 1]
    BY <1>0 DEF Inserted
  <2>2. /\ DOMAIN q = 1 .. Len(q) /\ Len(q) \in Nat
        /\ k \in Nat /\ 1 <= k /\ k <= Len(q) + 1
    OBVIOUS
  <2> QED BY <2>1, <2>2
<1>2. \A i \in 1 .. Len(q) : q[i] \in S /\ key[q[i]] \in Int
  OBVIOUS
<1> HIDE DEF p
<1> SUFFICES ASSUME NEW i \in DOMAIN p, NEW j \in DOMAIN p, i <= j
             PROVE  key[p[i]] <= key[p[j]]
  BY DEF InOrder, p
<1>3. CASE i < k /\ j < k
  BY <1>1, <1>3 DEF InOrder
<1>4. CASE i < k /\ j = k
  BY <1>1, <1>4
<1>5. CASE i < k /\ j > k
  <2>1. i \in DOMAIN q /\ j - 1 \in DOMAIN q /\ i <= j - 1 /\ p[i] = q[i] /\ p[j] = q[j - 1]
    BY <1>1, <1>5
  <2> QED BY <2>1 DEF InOrder
<1>6. CASE i = k /\ j = k
  BY <1>1, <1>6
<1>7. CASE i = k /\ j > k
  <2>1. j - 1 \in k .. Len(q) /\ p[i] = x /\ p[j] = q[j - 1]
    BY <1>1, <1>7
  <2> QED BY <2>1
<1>8. CASE i > k
  <2>1. i - 1 \in DOMAIN q /\ j - 1 \in DOMAIN q /\ i - 1 <= j - 1
        /\ p[i] = q[i - 1] /\ p[j] = q[j - 1]
    BY <1>1, <1>8
  <2> QED BY <2>1 DEF InOrder
<1> QED BY <1>1, <1>3, <1>4, <1>5, <1>6, <1>7, <1>8

LEMMA TailInOrder ==
    ASSUME NEW S, NEW q \in Seq(S), q # <<>>, NEW key, InOrder(q, key)
    PROVE  InOrder(Tail(q), key) /\ \A i \in DOMAIN q : key[Head(q)] <= key[q[i]]
<1>1. /\ DOMAIN q = 1 .. Len(q) /\ Len(q) \in Nat \ {0} /\ Head(q) = q[1]
      /\ DOMAIN Tail(q) = 1 .. Len(q) - 1 /\ \A i \in DOMAIN Tail(q) : Tail(q)[i] = q[i + 1]
  BY TailPositions
<1>2. \A i, j \in 1 .. Len(q) - 1 : i <= j => i + 1 \in DOMAIN q /\ j + 1 \in DOMAIN q /\ i + 1 <= j + 1
  BY <1>1
<1>3. 1 \in DOMAIN q /\ \A i \in DOMAIN q : 1 <= i
  BY <1>1
<1> QED BY <1>1, <1>2, <1>3 DEF InOrder

LEMMA RemoveInOrder ==
    ASSUME NEW S, NEW q \in Seq(S), NEW k \in DOMAIN q, NEW key, InOrder(q, key)
    PROVE  InOrder(RemoveAt(q, k), key)
<1> DEFINE p == RemoveAt(q, k)
           from(i) == IF i < k THEN i ELSE i + 1
<1>1. /\ DOMAIN p = 1 .. Len(q) - 1 /\ DOMAIN q = 1 .. Len(q) /\ Len(q) \in Nat
      /\ k \in Nat /\ 1 <= k /\ k <= Len(q)
      /\ \A i \in 1 .. k - 1 : p[i] = q[i]
      /\ \A i \in k .. Len(q) - 1 : p[i] = q[i + 1]
  BY RemoveElements
<1> HIDE DEF p
<1>2. \A i \in DOMAIN p : from(i) \in DOMAIN q /\ p[i] = q[from(i)]
  BY <1>1
<1>3. \A i, j \in DOMAIN p : i <= j => from(i) <= from(j)
  BY <1>1
<1> HIDE DEF from
<1>4. InOrder(p, key)
  BY <1>2, <1>3 DEF InOrder
<1> QED BY <1>4 DEF p

-----------------------------------------------------------------------------
(* The order of ready                                                      *)

LEMMA ConfIs ==
    ASSUME conf \in ConfigSet
    PROVE  /\ conf.policy \in {"FIFO", "RR", "SVR4", "PRIO", "BOOST", "SS"}
           /\ conf.quantum \in Nat \ {0} /\ conf.switch \in Nat
           /\ conf.busy \in BOOLEAN /\ conf.preempt \in BOOLEAN
<1>1. CASE conf \in [policy : {"FIFO", "RR", "SVR4"}, quantum : Nat \ {0}, switch : Nat,
                     busy : BOOLEAN, preempt : BOOLEAN]
  BY <1>1
<1>2. CASE conf \in [policy : {"PRIO", "BOOST", "SS"}, quantum : Nat \ {0}, switch : {0},
                     busy : {FALSE}, preempt : {FALSE}]
  <2>1. /\ conf.policy \in {"PRIO", "BOOST", "SS"} /\ conf.quantum \in Nat \ {0}
        /\ conf.switch \in {0} /\ conf.busy \in {FALSE} /\ conf.preempt \in {FALSE}
    BY <1>2
  <2>2. {FALSE} \subseteq BOOLEAN
    OBVIOUS
  <2>3. conf.busy \in BOOLEAN
    BY <2>1, <2>2
  <2>4. conf.preempt \in BOOLEAN
    BY <2>1, <2>2
  <2>5. conf.switch \in Nat
    BY <2>1
  <2> QED BY <2>1, <2>3, <2>4, <2>5
<1> QED BY <1>1, <1>2 DEF ConfigSet

LEMMA OrderKeyIs ==
    ASSUME NEW pr \in [Threads -> ThreadParams]
    PROVE  OrderKey(pr) \in [Threads -> Int]
  BY DEF OrderKey, Order, BestPrio, ThreadParams

InTurns == conf.policy \in {"FIFO", "RR"}

\* t can be at k in a queue that is in the order of key.
FitsAt(q, t, k, key) == /\ \A i \in 1 .. k - 1 : key[q[i]] <= key[t]
                        /\ \A i \in k .. Len(q) : key[t] <= key[q[i]]

LEMMA InsertQueueIs ==
    ASSUME NEW q \in Seq(Threads), NEW t \in Threads, NEW pr \in [Threads -> ThreadParams]
    PROVE  \E k \in 1 .. Len(q) + 1 :
              /\ InsertQueue(q, t, pr) = InsertAt(q, k, t)
              /\ InOrder(q, OrderKey(pr)) => FitsAt(q, t, k, OrderKey(pr))
<1> DEFINE P == {i \in DOMAIN q : Order(pr, q[i]) > Order(pr, t)}
           key == OrderKey(pr)
<1>1. PICK k \in 1 .. Len(q) + 1 : /\ InsertBefore(q, t, P) = InsertAt(q, k, t)
                                   /\ \A i \in 1 .. k - 1 : i \notin P
                                   /\ k <= Len(q) => k \in P
  <2>1. P \in SUBSET DOMAIN q
    OBVIOUS
  <2> HIDE DEF P
  <2> QED BY <2>1, InsertBeforeIs
<1>2. /\ Len(q) \in Nat /\ DOMAIN q = 1 .. Len(q) /\ key \in [Threads -> Int]
      /\ \A i \in 1 .. Len(q) : q[i] \in Threads /\ key[q[i]] \in Int /\ key[t] \in Int
      /\ \A i \in 1 .. Len(q) : i \in P <=> key[q[i]] > key[t]
  <2>1. \A i \in 1 .. Len(q) : q[i] \in Threads
    OBVIOUS
  <2>2. key \in [Threads -> Int]
    BY OrderKeyIs
  <2>3. \A i \in 1 .. Len(q) : i \in P <=> key[q[i]] > key[t]
    BY <2>1 DEF OrderKey
  <2> HIDE DEF P, key
  <2> QED BY <2>1, <2>2, <2>3
<1>3. InsertQueue(q, t, pr) = InsertAt(q, k, t)
  BY <1>1 DEF InsertQueue
<1> HIDE DEF P, key
<1>4. ASSUME InOrder(q, key) PROVE FitsAt(q, t, k, key)
  <2>1. \A i \in 1 .. k - 1 : key[q[i]] <= key[t]
    BY <1>1, <1>2
  <2>2. ASSUME NEW i \in k .. Len(q) PROVE key[t] <= key[q[i]]
    <3>1. k \in 1 .. Len(q) /\ i \in 1 .. Len(q) /\ k <= i
      BY <1>2
    <3>2. key[q[k]] > key[t]
      BY <1>1, <1>2, <3>1
    <3>3. key[q[k]] <= key[q[i]]
      BY <1>2, <1>4, <3>1 DEF InOrder
    <3> QED BY <1>2, <3>1, <3>2, <3>3
  <2> QED BY <2>1, <2>2 DEF FitsAt
<1> QED BY <1>3, <1>4 DEF key

LEMMA InsertFirstQueueIs ==
    ASSUME NEW q \in Seq(Threads), NEW t \in Threads, NEW pr \in [Threads -> ThreadParams]
    PROVE  \E k \in 1 .. Len(q) + 1 :
              /\ InsertFirstQueue(q, t, pr) = InsertAt(q, k, t)
              /\ InOrder(q, OrderKey(pr)) => FitsAt(q, t, k, OrderKey(pr))
<1> DEFINE P == {i \in DOMAIN q : Order(pr, q[i]) >= Order(pr, t)}
           key == OrderKey(pr)
<1>1. PICK k \in 1 .. Len(q) + 1 : /\ InsertBefore(q, t, P) = InsertAt(q, k, t)
                                   /\ \A i \in 1 .. k - 1 : i \notin P
                                   /\ k <= Len(q) => k \in P
  <2>1. P \in SUBSET DOMAIN q
    OBVIOUS
  <2> HIDE DEF P
  <2> QED BY <2>1, InsertBeforeIs
<1>2. /\ Len(q) \in Nat /\ DOMAIN q = 1 .. Len(q) /\ key \in [Threads -> Int]
      /\ \A i \in 1 .. Len(q) : q[i] \in Threads /\ key[q[i]] \in Int /\ key[t] \in Int
      /\ \A i \in 1 .. Len(q) : i \in P <=> key[q[i]] >= key[t]
  <2>1. \A i \in 1 .. Len(q) : q[i] \in Threads
    OBVIOUS
  <2>2. key \in [Threads -> Int]
    BY OrderKeyIs
  <2>3. \A i \in 1 .. Len(q) : i \in P <=> key[q[i]] >= key[t]
    BY <2>1 DEF OrderKey
  <2> HIDE DEF P, key
  <2> QED BY <2>1, <2>2, <2>3
<1>3. InsertFirstQueue(q, t, pr) = InsertAt(q, k, t)
  BY <1>1 DEF InsertFirstQueue
<1> HIDE DEF P, key
<1>4. ASSUME InOrder(q, key) PROVE FitsAt(q, t, k, key)
  <2>1. \A i \in 1 .. k - 1 : key[q[i]] <= key[t]
    BY <1>1, <1>2
  <2>2. ASSUME NEW i \in k .. Len(q) PROVE key[t] <= key[q[i]]
    <3>1. k \in 1 .. Len(q) /\ i \in 1 .. Len(q) /\ k <= i
      BY <1>2
    <3>2. key[q[k]] >= key[t]
      BY <1>1, <1>2, <3>1
    <3>3. key[q[k]] <= key[q[i]]
      BY <1>2, <1>4, <3>1 DEF InOrder
    <3> QED BY <1>2, <3>1, <3>2, <3>3
  <2> QED BY <2>1, <2>2 DEF FitsAt
<1> QED BY <1>3, <1>4 DEF key

LEMMA InsertQueueFromBackIs ==
    ASSUME NEW q \in Seq(Threads), NEW t \in Threads, NEW pr \in [Threads -> ThreadParams]
    PROVE  \E k \in 1 .. Len(q) + 1 :
              /\ InsertQueueFromBack(q, t, pr) = InsertAt(q, k, t)
              /\ InOrder(q, OrderKey(pr)) => FitsAt(q, t, k, OrderKey(pr))
<1> DEFINE P == {0} \cup {i \in DOMAIN q : Order(pr, q[i]) <= Order(pr, t)}
           key == OrderKey(pr)
           m == Max(P)
<1>1. /\ Len(q) \in Nat /\ DOMAIN q = 1 .. Len(q) /\ key \in [Threads -> Int]
      /\ \A i \in 1 .. Len(q) : q[i] \in Threads /\ key[q[i]] \in Int /\ key[t] \in Int
      /\ \A i \in 1 .. Len(q) : i \in P <=> key[q[i]] <= key[t]
  <2>1. Len(q) \in Nat /\ DOMAIN q = 1 .. Len(q) /\ \A i \in 1 .. Len(q) : q[i] \in Threads
    OBVIOUS
  <2>2. key \in [Threads -> Int]
    BY OrderKeyIs
  <2>3. \A i \in 1 .. Len(q) : i \in P <=> key[q[i]] <= key[t]
    BY <2>1 DEF OrderKey
  <2> HIDE DEF P, key
  <2> QED BY <2>1, <2>2, <2>3
<1>2. m \in P /\ m \in 0 .. Len(q) /\ \A i \in P : i <= m
  <2>1. P \in SUBSET (0 .. Len(q)) /\ P # {}
    BY <1>1
  <2> HIDE DEF P
  <2> QED BY <1>1, <2>1, MaxIs
<1>3. InsertQueueFromBack(q, t, pr) = InsertAt(q, m + 1, t)
  <2>1. m + 1 = 1 + m
    BY <1>1, <1>2
  <2>2. InsertQueueFromBack(q, t, pr) = InsertAt(q, 1 + m, t)
    BY DEF InsertQueueFromBack
  <2> HIDE DEF m
  <2> QED BY <2>1, <2>2
<1>4. m # 0 => m \in 1 .. Len(q)
  <2> HIDE DEF m
  <2> QED BY <1>1, <1>2
<1> HIDE DEF P, key, m
<1>5. ASSUME InOrder(q, key) PROVE FitsAt(q, t, m + 1, key)
  <2>1. ASSUME NEW i \in 1 .. (m + 1) - 1 PROVE key[q[i]] <= key[t]
    <3>1. m \in 1 .. Len(q) /\ i \in 1 .. Len(q) /\ i <= m
      BY <1>1, <1>2, <1>4
    <3>2. key[q[i]] <= key[q[m]] /\ key[q[m]] <= key[t]
      BY <1>1, <1>2, <1>5, <3>1 DEF InOrder
    <3> QED BY <1>1, <3>1, <3>2
  <2>2. ASSUME NEW i \in m + 1 .. Len(q) PROVE key[t] <= key[q[i]]
    <3>1. i \in 1 .. Len(q) /\ ~(i <= m)
      BY <1>1, <1>2
    <3> QED BY <1>1, <1>2, <3>1
  <2> QED BY <2>1, <2>2 DEF FitsAt
<1>6. m + 1 \in 1 .. Len(q) + 1
  BY <1>1, <1>2
<1> QED BY <1>3, <1>5, <1>6 DEF key

\* Where a policy puts a thread.
LEMMA EnqueueIs ==
    ASSUME conf \in ConfigSet, NEW q \in Seq(Threads), NEW t \in Threads, NEW how,
           NEW pr \in [Threads -> ThreadParams]
    PROVE  \E k \in 1 .. Len(q) + 1 :
              /\ Enqueue(q, t, how, pr) = InsertAt(q, k, t)
              /\ InTurns => k = IF how = "keep" THEN 1 ELSE Len(q) + 1
              /\ ~InTurns /\ InOrder(q, OrderKey(pr)) => FitsAt(q, t, k, OrderKey(pr))
<1>0. Len(q) \in Nat /\ 1 \in 1 .. Len(q) + 1 /\ Len(q) + 1 \in 1 .. Len(q) + 1
  OBVIOUS
<1>1. CASE InTurns
  <2>1. Enqueue(q, t, how, pr) = FifoToReady(q, t, how)
    BY <1>1 DEF InTurns, Enqueue
  <2>2. CASE how = "keep"
    BY <1>0, <1>1, <2>1, <2>2, PrependInserts DEF FifoToReady
  <2>3. CASE how # "keep"
    BY <1>0, <1>1, <2>1, <2>3, AppendInserts DEF FifoToReady
  <2> QED BY <2>2, <2>3
<1>2. CASE ~InTurns
  <2>1. Enqueue(q, t, how, pr) \in {InsertQueue(q, t, pr), InsertFirstQueue(q, t, pr),
                                    InsertQueueFromBack(q, t, pr)}
    <3>1. CASE conf.policy \in {"PRIO", "BOOST", "SVR4"}
      <4>1. Enqueue(q, t, how, pr) = PrioToReady(q, t, how, pr)
        BY <3>1 DEF Enqueue
      <4> QED BY <4>1 DEF PrioToReady
    <3>2. CASE conf.policy = "SS"
      <4>1. Enqueue(q, t, how, pr) = SsToReady(q, t, how, pr)
        BY <3>2 DEF Enqueue
      <4> QED BY <4>1 DEF SsToReady
    <3> QED BY <1>2, <3>1, <3>2, ConfIs DEF InTurns
  <2> QED BY <1>2, <2>1, InsertQueueIs, InsertFirstQueueIs, InsertQueueFromBackIs
<1> QED BY <1>1, <1>2

LEMMA EnqueueElements ==
    ASSUME conf \in ConfigSet, NEW q \in Seq(Threads), NEW t \in Threads, NEW how,
           NEW pr \in [Threads -> ThreadParams]
    PROVE  LET p == Enqueue(q, t, how, pr)
           IN  /\ p \in Seq(Threads) /\ p # <<>>
               /\ ToSet(p) = ToSet(q) \cup {t}
               /\ Once(q) /\ t \notin ToSet(q) => Once(p)
               /\ ~InTurns /\ InOrder(q, OrderKey(pr)) => InOrder(p, OrderKey(pr))
               /\ InTurns /\ how = "keep" => p[1] = t
<1>1. PICK k \in 1 .. Len(q) + 1 :
              /\ Enqueue(q, t, how, pr) = InsertAt(q, k, t)
              /\ InTurns => k = IF how = "keep" THEN 1 ELSE Len(q) + 1
              /\ ~InTurns /\ InOrder(q, OrderKey(pr)) => FitsAt(q, t, k, OrderKey(pr))
  BY EnqueueIs
<1> DEFINE p == InsertAt(q, k, t)
<1>0. Inserted(p, q, k, t)
  BY InsertIs
<1>2. p \in Seq(Threads) /\ Len(p) = Len(q) + 1
  BY InsertElements
<1>3. ToSet(p) = ToSet(q) \cup {t} /\ (Once(q) /\ t \notin ToSet(q) => Once(p))
  BY InsertSets
<1>4. ASSUME ~InTurns, InOrder(q, OrderKey(pr)) PROVE InOrder(p, OrderKey(pr))
  <2>1. FitsAt(q, t, k, OrderKey(pr)) /\ OrderKey(pr) \in [Threads -> Int]
    BY <1>1, <1>4, OrderKeyIs
  <2> QED BY <1>4, <2>1, InsertInOrder DEF FitsAt
<1> HIDE DEF p
<1>5. p # <<>>
  BY <1>2
<1>6. InTurns /\ how = "keep" => p[1] = t
  BY <1>0, <1>1 DEF Inserted
<1> QED BY <1>1, <1>2, <1>3, <1>4, <1>5, <1>6 DEF p

-----------------------------------------------------------------------------
(* The event queue                                                         *)

EventSet == [at : Nat, module : {"SCH", "COM", "GOP"}, th : Threads]
AtKey == [e \in EventSet |-> e.at]

\* The events are in the order of their times and none is before n.
OnTime(q, n) == InOrder(q, AtKey) /\ \A i \in DOMAIN q : n <= q[i].at

LEMMA TimeForwardIs ==
    ASSUME events \in Seq(EventSet), now \in Nat
    PROVE  TimeForward <=> OnTime(events, now)
<1>1. /\ DOMAIN events = 1 .. Len(events) /\ Len(events) \in Nat
      /\ \A i \in DOMAIN events : events[i] \in EventSet /\ AtKey[events[i]] = events[i].at
                                  /\ events[i].at \in Nat
  <2>1. \A e \in EventSet : AtKey[e] = e.at /\ e.at \in Nat
    BY DEF AtKey, EventSet
  <2> QED BY <2>1
<1>2. ASSUME TimeForward PROVE OnTime(events, now)
  <2>1. \A i \in DOMAIN events : now <= events[i].at
    BY <1>1, <1>2 DEF TimeForward
  <2>2. ASSUME NEW i \in DOMAIN events, NEW j \in DOMAIN events, i <= j
        PROVE  AtKey[events[i]] <= AtKey[events[j]]
    <3>1. i \in 1 .. j
      BY <1>1, <2>2
    <3>2. events[i].at <= events[j].at
      BY <1>2, <3>1 DEF TimeForward
    <3> QED BY <1>1, <3>2
  <2> QED BY <2>1, <2>2 DEF OnTime, InOrder
<1>3. ASSUME OnTime(events, now) PROVE TimeForward
  <2>1. \A i \in DOMAIN events : events[i].at >= now
    BY <1>1, <1>3 DEF OnTime
  <2>2. ASSUME NEW i \in DOMAIN events, NEW j \in 1 .. i PROVE events[j].at <= events[i].at
    <3>1. j \in DOMAIN events /\ j <= i
      BY <1>1
    <3>2. AtKey[events[j]] <= AtKey[events[i]]
      BY <1>3, <3>1 DEF OnTime, InOrder
    <3> QED BY <1>1, <3>1, <3>2
  <2> QED BY <2>1, <2>2 DEF TimeForward
<1> QED BY <1>2, <1>3

LEMMA EventIs ==
    /\ AtKey \in [EventSet -> Int]
    /\ \A e \in EventSet : /\ AtKey[e] = e.at /\ e.at \in Nat /\ e.th \in Threads
                           /\ e.module \in {"SCH", "COM", "GOP"}
                           /\ TimerKey(e) = IF e.module = "SCH" THEN e.th
                                            ELSE IF e.module = "GOP" THEN 0 ELSE -1
<1>1. \A e \in EventSet : AtKey[e] = e.at /\ e.at \in Nat /\ e.th \in Threads
                          /\ e.module \in {"SCH", "COM", "GOP"}
  BY DEF AtKey, EventSet
<1>2. AtKey \in [EventSet -> Int]
  BY <1>1 DEF AtKey
<1> QED BY <1>1, <1>2 DEF TimerKey, None

LEMMA InsertEventIs ==
    ASSUME NEW q \in Seq(EventSet), NEW e \in EventSet, NEW n
    PROVE  LET p == InsertEvent(q, e)
           IN  /\ p \in Seq(EventSet) /\ p # <<>>
               /\ OnTime(q, n) /\ n <= e.at => OnTime(p, n)
               /\ TimerKeys(p) = TimerKeys(q) \cup ({TimerKey(e)} \ {-1})
               /\ TimerOnce(q) /\ TimerKey(e) \notin TimerKeys(q) => TimerOnce(p)
<1> DEFINE P == {i \in DOMAIN q : q[i].at > e.at}
<1>1. PICK k \in 1 .. Len(q) + 1 : /\ InsertBefore(q, e, P) = InsertAt(q, k, e)
                                   /\ \A i \in 1 .. k - 1 : i \notin P
                                   /\ k <= Len(q) => k \in P
  <2>1. P \in SUBSET DOMAIN q
    OBVIOUS
  <2> HIDE DEF P
  <2> QED BY <2>1, InsertBeforeIs
<1> DEFINE p == InsertAt(q, k, e)
           key == AtKey
<1>2. InsertEvent(q, e) = p
  BY <1>1 DEF InsertEvent
<1>3. /\ p \in Seq(EventSet) /\ Len(p) = Len(q) + 1 /\ Inserted(p, q, k, e)
  BY InsertElements, InsertIs
<1>4. /\ Len(q) \in Nat /\ DOMAIN q = 1 .. Len(q) /\ key \in [EventSet -> Int]
      /\ \A i \in 1 .. Len(q) : /\ q[i] \in EventSet /\ key[q[i]] = q[i].at /\ q[i].at \in Nat
                                /\ i \in P <=> q[i].at > e.at
      /\ key[e] = e.at /\ e.at \in Nat
  BY EventIs
<1>5. k \in Nat /\ 1 <= k /\ k <= Len(q) + 1
  BY <1>4
<1> HIDE DEF P, p, key
<1>6. /\ DOMAIN p = 1 .. Len(q) + 1 /\ p[k] = e
      /\ \A i \in 1 .. k - 1 : p[i] = q[i]
      /\ \A i \in k + 1 .. Len(q) + 1 : p[i] = q[i - 1]
  BY <1>3 DEF Inserted
<1> DEFINE from(i) == IF i < k THEN i ELSE i - 1
           to(i) == IF i < k THEN i ELSE i + 1
<1>7. \A i \in DOMAIN p : i = k \/ (i # k /\ from(i) \in DOMAIN q /\ p[i] = q[from(i)])
  BY <1>4, <1>5, <1>6
<1>8. ASSUME NEW i \in DOMAIN q PROVE to(i) \in DOMAIN p /\ p[to(i)] = q[i]
  <2>1. CASE i < k
    BY <1>4, <1>5, <1>6, <2>1
  <2>2. CASE ~(i < k)
    <3>1. to(i) = i + 1 /\ i + 1 \in k + 1 .. Len(q) + 1 /\ (i + 1) - 1 = i
      BY <1>4, <1>5, <2>2
    <3> QED BY <1>4, <1>5, <1>6, <3>1
  <2> QED BY <2>1, <2>2
<1>9. \A i, j \in DOMAIN p : i # k /\ j # k /\ from(i) = from(j) => i = j
  BY <1>4, <1>5, <1>6
<1>10. k \in DOMAIN p
  BY <1>4, <1>5, <1>6
<1> HIDE DEF from, to
<1>11. TimerKeys(p) = TimerKeys(q) \cup ({TimerKey(e)} \ {-1})
  BY <1>6, <1>7, <1>8, <1>10 DEF TimerKeys
<1>12. ASSUME TimerOnce(q), TimerKey(e) \notin TimerKeys(q) PROVE TimerOnce(p)
  <2> SUFFICES ASSUME NEW i \in DOMAIN p, NEW j \in DOMAIN p,
                      TimerKey(p[i]) = TimerKey(p[j]), TimerKey(p[i]) # -1
               PROVE  i = j
    BY DEF TimerOnce
  <2>1. \A m \in DOMAIN q : TimerKey(q[m]) # -1 => TimerKey(q[m]) # TimerKey(e)
    BY <1>12 DEF TimerKeys
  <2>2. CASE i = k \/ j = k
    BY <1>6, <1>7, <2>1, <2>2
  <2>3. CASE i # k /\ j # k
    BY <1>7, <1>9, <1>12, <2>3 DEF TimerOnce
  <2> QED BY <2>2, <2>3
<1>13. ASSUME OnTime(q, n), n <= e.at PROVE OnTime(p, n)
  <2>1. \A i \in 1 .. k - 1 : key[q[i]] <= key[e]
    BY <1>1, <1>4, <1>5
  <2>2. ASSUME NEW i \in k .. Len(q) PROVE key[e] <= key[q[i]]
    <3>1. k \in 1 .. Len(q) /\ i \in 1 .. Len(q) /\ k <= i
      BY <1>4, <1>5
    <3>2. key[q[k]] > key[e]
      BY <1>1, <1>4, <3>1
    <3>3. key[q[k]] <= key[q[i]]
      BY <1>4, <1>13, <3>1 DEF OnTime, InOrder, key
    <3> QED BY <1>4, <3>1, <3>2, <3>3
  <2>3. InOrder(q, key)
    BY <1>13 DEF OnTime, key
  <2>4. InOrder(p, key)
    BY <1>4, <2>1, <2>2, <2>3, InsertInOrder DEF p
  <2>5. \A i \in DOMAIN p : n <= p[i].at
    BY <1>6, <1>7, <1>13 DEF OnTime
  <2> QED BY <2>4, <2>5 DEF OnTime, key
<1>14. p # <<>>
  BY <1>3, <1>4
<1> QED BY <1>2, <1>3, <1>11, <1>12, <1>13, <1>14

LEMMA TailEvents ==
    ASSUME NEW q \in Seq(EventSet), q # <<>>, TimerOnce(q), NEW n, OnTime(q, n)
    PROVE  /\ Tail(q) \in Seq(EventSet) /\ Head(q) \in EventSet
           /\ n <= Head(q).at /\ OnTime(Tail(q), Head(q).at)
           /\ TimerKeys(Tail(q)) = TimerKeys(q) \ {TimerKey(Head(q))}
           /\ TimerOnce(Tail(q))
           /\ TimerKey(Head(q)) # -1 => TimerKey(Head(q)) \in TimerKeys(q)
<1> DEFINE p == Tail(q)
<1>1. /\ p \in Seq(EventSet) /\ Head(q) \in EventSet /\ Head(q) = q[1]
      /\ DOMAIN q = 1 .. Len(q) /\ Len(q) \in Nat \ {0}
      /\ DOMAIN p = 1 .. Len(q) - 1
      /\ \A i \in DOMAIN p : p[i] = q[i + 1]
  BY TailPositions
<1>2. \A i \in DOMAIN p : i + 1 \in DOMAIN q /\ i + 1 # 1 /\ p[i] = q[i + 1]
  BY <1>1
<1>3. \A i \in DOMAIN q : i = 1 \/ (i - 1 \in DOMAIN p /\ q[i] = p[i - 1])
  BY <1>1
<1>4. 1 \in DOMAIN q
  BY <1>1
<1>5. InOrder(p, AtKey) /\ \A i \in DOMAIN q : AtKey[Head(q)] <= AtKey[q[i]]
  BY TailInOrder DEF OnTime
<1>6. n <= Head(q).at /\ \A i \in DOMAIN p : Head(q).at <= p[i].at
  <2>1. \A i \in DOMAIN q : q[i] \in EventSet /\ AtKey[q[i]] = q[i].at
    BY EventIs
  <2>2. \A i \in DOMAIN q : Head(q).at <= q[i].at
    BY <1>1, <1>4, <1>5, <2>1
  <2> HIDE DEF p
  <2> QED BY <1>1, <1>2, <1>4, <2>2 DEF OnTime
<1> HIDE DEF p
<1>7. TimerKeys(p) \subseteq TimerKeys(q) \ {TimerKey(Head(q))}
  BY <1>1, <1>2, <1>4 DEF TimerKeys, TimerOnce
<1>8. TimerKeys(q) \ {TimerKey(Head(q))} \subseteq TimerKeys(p)
  BY <1>1, <1>3 DEF TimerKeys
<1>9. TimerOnce(p)
  <2> SUFFICES ASSUME NEW i \in DOMAIN p, NEW j \in DOMAIN p,
                      TimerKey(p[i]) = TimerKey(p[j]), TimerKey(p[i]) # -1
               PROVE  i = j
    BY DEF TimerOnce
  <2>1. i \in Nat /\ j \in Nat
    BY <1>1
  <2>2. i + 1 = j + 1
    BY <1>2 DEF TimerOnce
  <2> QED BY <2>1, <2>2
<1>10. TimerKey(Head(q)) # -1 => TimerKey(Head(q)) \in TimerKeys(q)
  BY <1>1, <1>4 DEF TimerKeys
<1> QED BY <1>1, <1>5, <1>6, <1>7, <1>8, <1>9, <1>10 DEF p, OnTime

LEMMA RemoveEvent ==
    ASSUME NEW q \in Seq(EventSet), NEW k \in DOMAIN q, TimerOnce(q), NEW n, OnTime(q, n),
           TimerKey(q[k]) # -1
    PROVE  /\ RemoveAt(q, k) \in Seq(EventSet)
           /\ OnTime(RemoveAt(q, k), n)
           /\ TimerKeys(RemoveAt(q, k)) = TimerKeys(q) \ {TimerKey(q[k])}
           /\ TimerOnce(RemoveAt(q, k))
<1> DEFINE p == RemoveAt(q, k)
           from(i) == IF i < k THEN i ELSE i + 1
           to(i) == IF i < k THEN i ELSE i - 1
<1>1. /\ p \in Seq(EventSet) /\ DOMAIN p = 1 .. Len(q) - 1 /\ DOMAIN q = 1 .. Len(q)
      /\ Len(q) \in Nat
      /\ \A i \in 1 .. k - 1 : p[i] = q[i]
      /\ \A i \in k .. Len(q) - 1 : p[i] = q[i + 1]
  BY RemoveElements
<1>2. k \in Nat /\ 1 <= k /\ k <= Len(q)
  BY <1>1
<1>3. InOrder(p, AtKey)
  BY RemoveInOrder DEF OnTime
<1> HIDE DEF p
<1>4. \A i \in DOMAIN p : from(i) \in DOMAIN q /\ from(i) # k /\ p[i] = q[from(i)]
  BY <1>1, <1>2
<1>5. ASSUME NEW i \in DOMAIN q, i # k PROVE to(i) \in DOMAIN p /\ p[to(i)] = q[i]
  <2>1. CASE i < k
    BY <1>1, <1>2, <2>1
  <2>2. CASE i > k
    <3>1. to(i) = i - 1 /\ i - 1 \in k .. Len(q) - 1 /\ i - 1 \in DOMAIN p /\ (i - 1) + 1 = i
      BY <1>1, <1>2, <2>2
    <3> QED BY <1>1, <3>1
  <2> QED BY <1>1, <1>2, <1>5, <2>1, <2>2
<1>6. \A i, j \in DOMAIN p : from(i) = from(j) => i = j
  BY <1>1, <1>2
<1> HIDE DEF from, to
<1>7. \A i \in DOMAIN p : n <= p[i].at
  BY <1>4 DEF OnTime
<1>8. TimerKeys(p) \subseteq TimerKeys(q) \ {TimerKey(q[k])}
  BY <1>4 DEF TimerKeys, TimerOnce
<1>9. TimerKeys(q) \ {TimerKey(q[k])} \subseteq TimerKeys(p)
  BY <1>5 DEF TimerKeys
<1>10. TimerOnce(p)
  BY <1>4, <1>6 DEF TimerOnce
<1> QED BY <1>1, <1>3, <1>7, <1>8, <1>9, <1>10 DEF p, OnTime

-----------------------------------------------------------------------------
(* Traces                                                                  *)

LEMMA ActionIs ==
    /\ \A a \in Actions : /\ a.op \in {"WORK", "EVENT", "RECV", "GLOBAL", "SEND", "PRIORITY", "TASK"}
                          /\ a.op = "WORK" => a.time \in Nat
                          /\ a.op = "SEND" => a.to \in Threads
                          /\ a.op \in {"PRIORITY", "TASK"} => a.value \in Nat
                          /\ BurstTime(a) \in Nat
                          /\ BurstTime(a) = IF a.op = "WORK" THEN a.time ELSE 0
    /\ \A d \in Nat : /\ Work(d) \in Actions /\ Work(d).op = "WORK" /\ Work(d).time = d
                      /\ BurstTime(Work(d)) = d
<1>1. ASSUME NEW a \in Actions
      PROVE  /\ a.op \in {"WORK", "EVENT", "RECV", "GLOBAL", "SEND", "PRIORITY", "TASK"}
             /\ a.op = "WORK" => a.time \in Nat
             /\ a.op = "SEND" => a.to \in Threads
             /\ a.op \in {"PRIORITY", "TASK"} => a.value \in Nat
  <2>1. CASE a \in [op : {"WORK"}, time : Nat]
    BY <2>1
  <2>2. CASE a \in [op : {"EVENT", "RECV", "GLOBAL"}]
    BY <2>2
  <2>3. CASE a \in [op : {"SEND"}, to : Threads]
    BY <2>3
  <2>4. CASE a \in [op : {"PRIORITY", "TASK"}, value : Nat]
    BY <2>4
  <2> QED BY <2>1, <2>2, <2>3, <2>4 DEF Actions
<1>2. \A d \in Nat : Work(d) \in Actions /\ Work(d).op = "WORK" /\ Work(d).time = d
  BY DEF Work, Actions
<1> QED BY <1>1, <1>2 DEF BurstTime

\* f adds up the bursts of s.
AddsUp(s, f) == /\ f \in [0 .. Len(s) -> Nat] /\ f[0] = 0
                /\ \A i \in 1 .. Len(s) : f[i] = f[i - 1] + BurstTime(s[i])

LEMMA SumExists ==
    ASSUME NEW s \in Seq(Actions)
    PROVE  \E f : AddsUp(s, f)
<1> DEFINE Adds(n, f) == /\ f \in [0 .. n -> Nat] /\ f[0] = 0
                        /\ \A i \in 1 .. n : f[i] = f[i - 1] + BurstTime(s[i])
           Good == {n \in Nat : n <= Len(s) => \E f : Adds(n, f)}
<1>0. Len(s) \in Nat /\ \A i \in 1 .. Len(s) : s[i] \in Actions /\ BurstTime(s[i]) \in Nat
  BY ActionIs
<1>1. 0 \in Good
  <2>1. Adds(0, [i \in 0 .. 0 |-> 0])
    OBVIOUS
  <2> HIDE DEF Adds
  <2> QED BY <2>1
<1>2. ASSUME NEW n \in Nat, n \in Good PROVE n + 1 \in Good
  <2> HIDE DEF Adds
  <2> SUFFICES ASSUME n + 1 <= Len(s) PROVE \E f : Adds(n + 1, f)
    OBVIOUS
  <2>0. PICK f : Adds(n, f)
    BY <1>0, <1>2
  <2>1. /\ f \in [0 .. n -> Nat] /\ f[0] = 0
        /\ \A i \in 1 .. n : f[i] = f[i - 1] + BurstTime(s[i])
    BY <2>0 DEF Adds
  <2> DEFINE g == [i \in 0 .. n + 1 |-> IF i = n + 1 THEN f[n] + BurstTime(s[n + 1]) ELSE f[i]]
  <2>2. f[n] \in Nat /\ BurstTime(s[n + 1]) \in Nat
    BY <1>0, <2>1
  <2>3. g \in [0 .. n + 1 -> Nat] /\ g[0] = 0
    BY <2>1, <2>2
  <2>4. ASSUME NEW i \in 1 .. n + 1 PROVE g[i] = g[i - 1] + BurstTime(s[i])
    <3>1. CASE i = n + 1
      <4>1. i - 1 = n /\ i - 1 \in 0 .. n + 1 /\ i - 1 # n + 1
        BY <3>1
      <4> QED BY <3>1, <4>1
    <3>2. CASE i # n + 1
      <4>1. i \in 1 .. n /\ i - 1 \in 0 .. n + 1 /\ i - 1 # n + 1
        BY <3>2
      <4> QED BY <2>1, <3>2, <4>1
    <3> QED BY <3>1, <3>2
  <2>5. Adds(n + 1, g)
    <3> HIDE DEF g
    <3> QED BY <2>3, <2>4 DEF Adds
  <2> QED BY <2>5
<1>3. Len(s) \in Good
  <2> HIDE DEF Good
  <2> QED BY <1>0, <1>1, <1>2, SetInduction
<1>4. PICK f : Adds(Len(s), f)
  <2> HIDE DEF Adds
  <2> QED BY <1>0, <1>3
<1>5. AddsUp(s, f)
  BY <1>4 DEF AddsUp
<1> QED BY <1>5

LEMMA BurstsAre ==
    ASSUME NEW s \in Seq(Actions), NEW f, AddsUp(s, f)
    PROVE  BurstsOf(s) = f[Len(s)] /\ BurstsOf(s) \in Nat
<1> DEFINE D == 0 .. Len(s)
           sum[i \in D] == IF i = 0 THEN 0 ELSE sum[i - 1] + BurstTime(s[i])
           Is(h) == h = [i \in D |-> IF i = 0 THEN 0 ELSE h[i - 1] + BurstTime(s[i])]
<1>0. Len(s) \in Nat
  OBVIOUS
<1>1. Is(f)
  <2>1. f \in [D -> Nat]
    BY DEF AddsUp
  <2>2. ASSUME NEW i \in D PROVE f[i] = IF i = 0 THEN 0 ELSE f[i - 1] + BurstTime(s[i])
    <3>1. i = 0 \/ i \in 1 .. Len(s)
      BY <1>0
    <3> QED BY <3>1 DEF AddsUp
  <2> QED BY <2>1, <2>2
<1>2. sum = CHOOSE h : Is(h)
  BY DEF sum
<1>3. Is(sum)
  <2> HIDE DEF Is, sum
  <2> QED BY <1>1, <1>2
<1>4. BurstsOf(s) = sum[Len(s)]
  BY DEF BurstsOf
<1> HIDE DEF sum
<1>5. /\ sum[0] = 0
      /\ \A i \in 1 .. Len(s) : sum[i] = sum[i - 1] + BurstTime(s[i])
  <2>1. \A i \in D : sum[i] = IF i = 0 THEN 0 ELSE sum[i - 1] + BurstTime(s[i])
    BY <1>3
  <2>2. 0 \in D /\ \A i \in 1 .. Len(s) : i \in D /\ i # 0
    BY <1>0
  <2> QED BY <2>1, <2>2
<1> DEFINE Same == {n \in Nat : n <= Len(s) => sum[n] = f[n]}
<1>6. 0 \in Same
  BY <1>5 DEF AddsUp
<1>7. ASSUME NEW n \in Nat, n \in Same PROVE n + 1 \in Same
  <2> SUFFICES ASSUME n + 1 <= Len(s) PROVE sum[n + 1] = f[n + 1]
    OBVIOUS
  <2>1. n + 1 \in 1 .. Len(s) /\ (n + 1) - 1 = n /\ n <= Len(s)
    BY <1>0
  <2>2. sum[n] = f[n]
    BY <1>7, <2>1
  <2>3. sum[n + 1] = sum[n] + BurstTime(s[n + 1])
    BY <1>5, <2>1
  <2>4. f[n + 1] = f[n] + BurstTime(s[n + 1])
    BY <2>1 DEF AddsUp
  <2> QED BY <2>2, <2>3, <2>4
<1>8. Len(s) \in Same
  <2> HIDE DEF Same
  <2> QED BY <1>0, <1>6, <1>7, SetInduction
<1>9. f[Len(s)] \in Nat
  BY <1>0 DEF AddsUp
<1> QED BY <1>0, <1>4, <1>8, <1>9

LEMMA BurstsTyped ==
    ASSUME NEW s \in Seq(Actions)
    PROVE  BurstsOf(s) \in Nat
  BY SumExists, BurstsAre

LEMMA ConsIs ==
    ASSUME NEW S, NEW s \in Seq(S), NEW a \in S
    PROVE  /\ <<a>> \o s \in Seq(S) /\ <<a>> \o s # <<>> /\ Head(<<a>> \o s) = a
           /\ Tail(<<a>> \o s) = s
           /\ Len(s) \in Nat /\ Len(<<a>> \o s) = Len(s) + 1
           /\ \A i \in 1 .. Len(s) : (<<a>> \o s)[i + 1] = s[i]
           /\ (<<a>> \o s)[1] = a
  OBVIOUS

LEMMA ConsBursts ==
    ASSUME NEW s \in Seq(Actions), NEW a \in Actions
    PROVE  BurstsOf(<<a>> \o s) = BurstTime(a) + BurstsOf(s)
<1> DEFINE r == <<a>> \o s
           d == BurstTime(a)
<1>1. PICK f : AddsUp(s, f)
  BY SumExists
<1>2. /\ r \in Seq(Actions) /\ Len(s) \in Nat /\ Len(r) = Len(s) + 1
      /\ \A i \in 1 .. Len(s) : r[i + 1] = s[i]
      /\ r[1] = a
  BY ConsIs
<1>3. d \in Nat
  BY ActionIs
<1> HIDE DEF r
<1> DEFINE g == [i \in 0 .. Len(r) |-> IF i = 0 THEN 0 ELSE d + f[i - 1]]
<1>4. f \in [0 .. Len(s) -> Nat] /\ f[0] = 0
      /\ \A i \in 1 .. Len(s) : f[i] = f[i - 1] + BurstTime(s[i])
  BY <1>1 DEF AddsUp
<1>5. AddsUp(r, g)
  <2>1. ASSUME NEW i \in 0 .. Len(r) PROVE g[i] \in Nat
    <3>1. i = 0 \/ i - 1 \in 0 .. Len(s)
      BY <1>2
    <3>2. i # 0 => f[i - 1] \in Nat
      BY <1>4, <3>1
    <3> QED BY <1>3, <3>2
  <2>2. ASSUME NEW i \in 1 .. Len(r) PROVE g[i] = g[i - 1] + BurstTime(r[i])
    <3>1. CASE i = 1
      <4>1. /\ i \in 0 .. Len(r) /\ i # 0 /\ i - 1 = 0 /\ 0 \in 0 .. Len(r)
        BY <1>2, <3>1
      <4>2. g[i] = d + f[0] /\ g[0] = 0
        BY <4>1
      <4> QED BY <1>2, <1>3, <1>4, <3>1, <4>1, <4>2
    <3>2. CASE i # 1
      <4>1. /\ i \in 0 .. Len(r) /\ i # 0 /\ i - 1 \in 0 .. Len(r) /\ i - 1 # 0
            /\ i - 1 \in 1 .. Len(s) /\ i = (i - 1) + 1 /\ (i - 1) - 1 \in 0 .. Len(s)
        BY <1>2, <3>2
      <4>2. g[i] = d + f[i - 1] /\ g[i - 1] = d + f[(i - 1) - 1]
        BY <4>1
      <4>3. f[i - 1] = f[(i - 1) - 1] + BurstTime(s[i - 1]) /\ f[(i - 1) - 1] \in Nat
        BY <1>4, <4>1
      <4>4. r[i] = s[i - 1] /\ s[i - 1] \in Actions
        BY <1>2, <4>1
      <4>5. BurstTime(s[i - 1]) \in Nat
        BY <4>4, ActionIs
      <4> HIDE DEF g, d
      <4> QED BY <1>3, <4>2, <4>3, <4>4, <4>5
    <3> QED BY <3>1, <3>2
  <2>3. g \in [0 .. Len(r) -> Nat]
    BY <2>1
  <2>4. g[0] = 0
    BY <1>2
  <2> HIDE DEF g
  <2> QED BY <2>2, <2>3, <2>4 DEF AddsUp
<1>6. BurstsOf(s) = f[Len(s)]
  BY <1>1, BurstsAre
<1>7. BurstsOf(r) = g[Len(r)]
  <2> HIDE DEF g
  <2> QED BY <1>2, <1>5, BurstsAre
<1>8. g[Len(r)] = d + f[Len(s)]
  <2>1. Len(r) \in 0 .. Len(r) /\ Len(r) # 0 /\ Len(r) - 1 = Len(s)
    BY <1>2
  <2> QED BY <2>1
<1> QED BY <1>6, <1>7, <1>8 DEF r

LEMMA TailBursts ==
    ASSUME NEW s \in Seq(Actions), s # <<>>
    PROVE  /\ Tail(s) \in Seq(Actions) /\ Head(s) \in Actions
           /\ BurstsOf(s) = BurstTime(Head(s)) + BurstsOf(Tail(s))
<1>1. Tail(s) \in Seq(Actions) /\ Head(s) \in Actions /\ s = <<Head(s)>> \o Tail(s)
  OBVIOUS
<1>2. BurstsOf(<<Head(s)>> \o Tail(s)) = BurstTime(Head(s)) + BurstsOf(Tail(s))
  BY <1>1, ConsBursts
<1> QED BY <1>1, <1>2

LEMMA NextCallIs ==
    ASSUME NEW s \in Seq(Actions)
    PROVE  /\ NextCall(s) = "END" <=> s = <<>>
           /\ s # <<>> => /\ NextCall(s) = Head(s).op
                          /\ Head(s) \in Actions /\ Tail(s) \in Seq(Actions)
                          /\ NextCall(s) = "WORK" => Head(s).time \in Nat
                          /\ NextCall(s) # "WORK" => BurstsOf(Tail(s)) = BurstsOf(s)
                          /\ NextCall(s) = "WORK" =>
                                BurstsOf(s) = Head(s).time + BurstsOf(Tail(s))
<1>1. CASE s = <<>>
  BY <1>1 DEF NextCall
<1>2. CASE s # <<>>
  <2>1. /\ Tail(s) \in Seq(Actions) /\ Head(s) \in Actions
        /\ BurstsOf(s) = BurstTime(Head(s)) + BurstsOf(Tail(s)) /\ BurstsOf(Tail(s)) \in Nat
    BY <1>2, TailBursts, BurstsTyped
  <2>2. /\ Head(s).op = "WORK" => Head(s).time \in Nat /\ BurstTime(Head(s)) = Head(s).time
        /\ Head(s).op # "WORK" => BurstTime(Head(s)) = 0
        /\ Head(s).op # "END"
    BY <2>1, ActionIs
  <2>3. NextCall(s) = Head(s).op
    BY <1>2 DEF NextCall
  <2> QED BY <1>2, <2>1, <2>2, <2>3
<1> QED BY <1>1, <1>2

LEMMA WorkFirst ==
    ASSUME NEW s \in Seq(Actions), NEW d \in Nat
    PROVE  /\ <<Work(d)>> \o s \in Seq(Actions)
           /\ NextCall(<<Work(d)>> \o s) = "WORK"
           /\ BurstsOf(<<Work(d)>> \o s) = d + BurstsOf(s)
<1>1. Work(d) \in Actions /\ Work(d).op = "WORK" /\ BurstTime(Work(d)) = d
  BY ActionIs
<1>2. <<Work(d)>> \o s \in Seq(Actions) /\ <<Work(d)>> \o s # <<>> /\ Head(<<Work(d)>> \o s) = Work(d)
  BY <1>1, ConsIs
<1>3. NextCall(<<Work(d)>> \o s) = "WORK"
  BY <1>1, <1>2 DEF NextCall
<1> QED BY <1>1, <1>2, <1>3, ConsBursts

LEMMA PaddedIs ==
    ASSUME NEW s \in Seq(Actions), s # <<>>
    PROVE  /\ Padded(s) \in Seq(Actions) /\ NextCall(Padded(s)) = "WORK"
           /\ BurstsOf(Padded(s)) = BurstsOf(s)
<1>1. CASE Head(s).op = "WORK"
  BY <1>1 DEF Padded, NextCall
<1>2. CASE Head(s).op # "WORK"
  <2>1. Padded(s) = <<Work(0)>> \o s
    BY <1>2 DEF Padded
  <2>2. BurstsOf(s) \in Nat
    BY BurstsTyped
  <2> QED BY <2>1, <2>2, WorkFirst
<1> QED BY <1>1, <1>2

-----------------------------------------------------------------------------
(* Priorities and quanta                                                   *)

\* pr2 are the parameters pr but for those of t.
OthersKeep(pr2, pr, t) == \A u \in Threads : u # t => pr2[u] = pr[u]

LEMMA PriosKept ==
    ASSUME NEW q \in Seq(Threads), NEW pr, NEW pr2,
           \A t \in ToSet(q) : pr2[t].prio = pr[t].prio, InOrder(q, OrderKey(pr))
    PROVE  InOrder(q, OrderKey(pr2))
<1>1. \A i \in DOMAIN q : /\ q[i] \in Threads
                          /\ OrderKey(pr2)[q[i]] = OrderKey(pr)[q[i]]
  BY DEF OrderKey, Order, ToSet
<1> QED BY <1>1 DEF InOrder

LEMMA TsSlpretIs == ASSUME NEW p \in 0 .. BestPrio PROVE TsSlpret(p) \in 0 .. BestPrio
<1> DEFINE S == {10, 20, 30, 35, 40, 45, 46, 47, 59}
           T == {x \in S : x <= p}
<1>1. IsFiniteSet(S) /\ Cardinality(S) <= 9
  <2> DEFINE f == [i \in 1 .. 9 |-> <<10, 20, 30, 35, 40, 45, 46, 47, 59>>[i]]
  <2>1. \A x \in S : \E i \in 1 .. 9 : f[i] = x
    <3>1. f[1] = 10 /\ f[2] = 20 /\ f[3] = 30 /\ f[4] = 35 /\ f[5] = 40 /\ f[6] = 45
          /\ f[7] = 46 /\ f[8] = 47 /\ f[9] = 59
      OBVIOUS
    <3> HIDE DEF f
    <3> QED BY <3>1
  <2>2. \A i \in 1 .. 9 : f[i] \in S
    OBVIOUS
  <2>3. f \in Surjection(1 .. 9, S)
    <3> HIDE DEF S
    <3>1. f \in [1 .. 9 -> S]
      BY <2>2
    <3> HIDE DEF f
    <3> QED BY <2>1, <3>1 DEF Surjection
  <2>4. IsFiniteSet(1 .. 9) /\ Cardinality(1 .. 9) = 9
    BY UpTo
  <2> HIDE DEF f, S
  <2> QED BY <2>3, <2>4, FS_Surjection
<1>2. T \subseteq S
  OBVIOUS
<1>3. Cardinality(T) \in Nat /\ Cardinality(T) <= 9
  <2>1. IsFiniteSet(T) /\ Cardinality(T) <= Cardinality(S)
    <3> HIDE DEF S, T
    <3> QED BY <1>1, <1>2, FS_Subset
  <2>2. Cardinality(S) \in Nat /\ Cardinality(T) \in Nat
    <3> HIDE DEF S, T
    <3> QED BY <1>1, <2>1, FS_CardinalityType
  <2> HIDE DEF S, T
  <2> QED BY <1>1, <2>1, <2>2
<1>4. TsSlpret(p) = 50 + Cardinality(T)
  BY DEF TsSlpret
<1> HIDE DEF T
<1> QED BY <1>3, <1>4 DEF BestPrio

LEMMA TsIs ==
    ASSUME NEW p \in 0 .. BestPrio
    PROVE  TsQuantum(p) \in Nat /\ TsTqexp(p) \in 0 .. BestPrio
<1>1. p \in 0 .. 59
  BY DEF BestPrio
<1>2. p \div 10 \in 0 .. 5
  BY <1>1
<1>3. TsTqexp(p) \in 0 .. 59
  BY <1>1 DEF TsTqexp
<1>4. <<10, 8, 6, 4, 2, 2>>[1 + p \div 10] \in Nat
  <2>1. 1 + p \div 10 \in 1 .. 6
    BY <1>2
  <2>2. \A i \in 1 .. 6 : <<10, 8, 6, 4, 2, 2>>[i] \in Nat
    OBVIOUS
  <2> QED BY <2>1, <2>2
<1> QED BY <1>3, <1>4 DEF TsQuantum, BestPrio

LEMMA SetPrio ==
    ASSUME NEW pr, ParamsFit(pr), NEW t \in Threads, NEW r \in ThreadParams,
           conf.policy = "SVR4" => r.prio \in 0 .. BestPrio,
           NEW pr2, pr2 = [pr EXCEPT ![t] = r]
    PROVE  ParamsFit(pr2) /\ OthersKeep(pr2, pr, t)
  BY DEF ParamsFit, OthersKeep

LEMMA DemotedIs ==
    ASSUME NEW pr, ParamsFit(pr), NEW t \in Threads
    PROVE  ParamsFit(Demoted(pr, t)) /\ OthersKeep(Demoted(pr, t), pr, t)
<1>1. CASE conf.policy = "SVR4" /\ pr[t].full
  <2> DEFINE r == [pr[t] EXCEPT !.prio = TsTqexp(@), !.full = FALSE]
  <2>1. pr[t] \in ThreadParams /\ pr[t].prio \in 0 .. BestPrio
    BY <1>1 DEF ParamsFit
  <2>2. TsTqexp(pr[t].prio) \in 0 .. BestPrio
    BY <2>1, TsIs
  <2>3. r \in ThreadParams /\ r.prio \in 0 .. BestPrio
    <3>0. TsTqexp(pr[t].prio) \in Int
      BY <2>2 DEF BestPrio
    <3>1. r \in [prio : Int, full : BOOLEAN, forces : BOOLEAN, task : Nat]
      BY <2>1, <3>0 DEF ThreadParams
    <3>2. r.prio = TsTqexp(pr[t].prio)
      BY <2>1 DEF ThreadParams
    <3> QED BY <2>2, <3>1, <3>2 DEF ThreadParams
  <2>4. Demoted(pr, t) = [pr EXCEPT ![t] = r]
    BY <1>1, <2>1 DEF Demoted, ParamsFit, ThreadParams
  <2> HIDE DEF r
  <2> QED BY <2>3, <2>4, SetPrio
<1>2. CASE ~(conf.policy = "SVR4" /\ pr[t].full)
  BY <1>2 DEF Demoted, OthersKeep
<1> QED BY <1>1, <1>2

LEMMA SchedulerInfoIs ==
    ASSUME conf \in ConfigSet, ParamsInv, NEW t \in Threads, NEW info \in {"first", "last", "sender"}
    PROVE  ParamsFit(SchedulerInfo(info, t)) /\ OthersKeep(SchedulerInfo(info, t), params, t)
<1>0. ParamsFit(params) /\ params[t] \in ThreadParams /\ params[t].prio \in Int
  BY DEF ParamsInv, ParamsFit, ThreadParams
<1>1. CASE conf.policy = "SVR4"
  <2>1. SchedulerInfo(info, t) = Svr4Info(info, t)
    BY <1>1 DEF SchedulerInfo
  <2>2. CASE info = "first"
    <3> DEFINE r == [params[t] EXCEPT !.prio = TsSlpret(@)]
    <3>1. TsSlpret(params[t].prio) \in 0 .. BestPrio
      BY <1>0, <1>1, TsSlpretIs DEF ParamsFit
    <3>2. r \in ThreadParams /\ r.prio \in 0 .. BestPrio
      <4>0. TsSlpret(params[t].prio) \in Int
        BY <3>1 DEF BestPrio
      <4>1. r \in [prio : Int, full : BOOLEAN, forces : BOOLEAN, task : Nat]
        BY <1>0, <4>0 DEF ThreadParams
      <4>2. r.prio = TsSlpret(params[t].prio)
        BY <1>0 DEF ThreadParams
      <4> QED BY <3>1, <4>1, <4>2 DEF ThreadParams
    <3>3. Svr4Info(info, t) = [params EXCEPT ![t] = r]
      BY <1>0, <2>2 DEF Svr4Info, ParamsFit, ThreadParams
    <3> HIDE DEF r
    <3> QED BY <1>0, <2>1, <3>2, <3>3, SetPrio
  <2>3. CASE info # "first"
    BY <1>0, <2>1, <2>3 DEF Svr4Info, OthersKeep
  <2> QED BY <2>2, <2>3
<1>2. CASE conf.policy = "BOOST"
  <2> DEFINE p == params[t].prio + Boost[info]
             b == IF p < Boost.best THEN Boost.best
                  ELSE IF p > Boost.worst THEN Boost.worst ELSE p
             r == [params[t] EXCEPT !.prio = b]
  <2>1. SchedulerInfo(info, t) = BoostInfo(info, t)
    BY <1>2 DEF SchedulerInfo
  <2>2. b \in Int
    <3>1. Boost[info] \in Int /\ Boost.best \in Int /\ Boost.worst \in Int
      BY BoostAssumption
    <3> QED BY <1>0, <3>1
  <2>3. BoostInfo(info, t) = [params EXCEPT ![t] = r]
    BY <1>0 DEF BoostInfo, ParamsFit, ThreadParams
  <2> HIDE DEF b
  <2>4. r \in ThreadParams
    BY <1>0, <2>2 DEF ThreadParams
  <2> HIDE DEF r
  <2> QED BY <1>0, <1>2, <2>1, <2>3, <2>4, SetPrio
<1>3. CASE conf.policy \notin {"SVR4", "BOOST"}
  BY <1>0, <1>3 DEF SchedulerInfo, OthersKeep
<1> QED BY <1>1, <1>2, <1>3

LEMMA AfterEventIs ==
    ASSUME ParamsInv, NEW t \in Threads, NEW a \in Actions
    PROVE  ParamsFit(AfterEvent(t, a)) /\ OthersKeep(AfterEvent(t, a), params, t)
<1>0. ParamsFit(params) /\ params[t] \in ThreadParams
  BY DEF ParamsInv, ParamsFit
<1>1. CASE a.op = "PRIORITY" /\ conf.policy = "SS"
  <2> DEFINE p == IF a.value = 0 THEN 0 ELSE PrioScale \div a.value
             r == [params[t] EXCEPT !.prio = p, !.forces = @ \/ a.value = 0]
  <2>1. p \in Int
    BY <1>1, ActionIs DEF PrioScale
  <2>2. AfterEvent(t, a) = [params EXCEPT ![t] = r]
    BY <1>0, <1>1 DEF AfterEvent, ParamsFit, ThreadParams
  <2> HIDE DEF p
  <2>3. r \in ThreadParams
    BY <1>0, <2>1 DEF ThreadParams
  <2> HIDE DEF r
  <2> QED BY <1>0, <1>1, <2>2, <2>3, SetPrio
<1>2. CASE a.op = "TASK"
  <2> DEFINE r == [params[t] EXCEPT !.task = a.value]
  <2>1. a.value \in Nat
    BY <1>2, ActionIs
  <2>2. AfterEvent(t, a) = [params EXCEPT ![t] = r]
    BY <1>0, <1>2 DEF AfterEvent, ParamsFit, ThreadParams
  <2>3. r \in ThreadParams /\ r.prio = params[t].prio
    BY <1>0, <2>1 DEF ThreadParams
  <2> HIDE DEF r
  <2> QED BY <1>0, <2>2, <2>3, SetPrio DEF ParamsFit
<1>3. CASE ~(a.op = "PRIORITY" /\ conf.policy = "SS") /\ a.op # "TASK"
  BY <1>0, <1>3 DEF AfterEvent, OthersKeep
<1> QED BY <1>1, <1>2, <1>3

-----------------------------------------------------------------------------
(* The steps that actions share                                            *)

LEMMA QuantumIs ==
    ASSUME conf \in ConfigSet, ParamsInv, NEW t \in Threads
    PROVE  Quantum(t) \in Nat
<1>1. conf.quantum \in Nat
  BY ConfIs
<1>2. CASE conf.policy = "SVR4"
  <2>1. TsQuantum(params[t].prio) \in Nat
    BY <1>2, TsIs DEF ParamsInv, ParamsFit
  <2>2. \A x, y \in Nat : x * y \in Nat
    OBVIOUS
  <2>3. Quantum(t) = TsQuantum(params[t].prio) * conf.quantum
    BY <1>2 DEF Quantum
  <2> QED BY <1>1, <2>1, <2>2, <2>3
<1>3. CASE conf.policy # "SVR4"
  BY <1>1, <1>3 DEF Quantum
<1> QED BY <1>2, <1>3

\* A thread runs for no longer than its burst.
LEMMA ExecutionTimeIs ==
    ASSUME TypeOK, conf \in ConfigSet, ParamsInv, NEW t \in Threads,
           NextCall(rest[t]) = "WORK"
    PROVE  /\ GetExecutionTime(t) \in Nat /\ Head(rest[t]).time \in Nat
           /\ GetExecutionTime(t) <= Head(rest[t]).time
<1> DEFINE d == Head(rest[t]).time
<1>1. d \in Nat
  <2>1. rest[t] \in Seq(Actions)
    BY DEF TypeOK
  <2>2. rest[t] # <<>>
    BY DEF NextCall
  <2> QED BY <2>1, <2>2, NextCallIs
<1>2. lastQuantum[t] \in Nat /\ Quantum(t) \in Nat
  BY QuantumIs DEF TypeOK
<1>3. /\ RRExecutionTime(t) \in Nat /\ RRExecutionTime(t) <= d
  <2>1. ~FreshQuantum(t) => Quantum(t) - lastQuantum[t] \in Nat
    BY <1>2 DEF FreshQuantum
  <2>2. \A x, y \in Nat : Least(x, y) \in Nat /\ Least(x, y) <= x
    BY DEF Least
  <2>3. CASE FreshQuantum(t)
    <3>1. RRExecutionTime(t) = Least(d, Quantum(t))
      BY <2>3 DEF RRExecutionTime
    <3> HIDE DEF d
    <3> QED BY <1>1, <1>2, <2>2, <3>1
  <2>4. CASE ~FreshQuantum(t)
    <3>1. RRExecutionTime(t) = Least(d, Quantum(t) - lastQuantum[t])
      BY <2>4 DEF RRExecutionTime
    <3> HIDE DEF d
    <3> QED BY <1>1, <2>1, <2>2, <2>4, <3>1
  <2> QED BY <2>3, <2>4
<1>4. GetExecutionTime(t) \in {d, RRExecutionTime(t)}
  BY DEF GetExecutionTime, BoostExecutionTime, Svr4ExecutionTime
<1> HIDE DEF d
<1>5. GetExecutionTime(t) \in Nat /\ GetExecutionTime(t) <= d
  BY <1>1, <1>3, <1>4
<1> QED BY <1>1, <1>5 DEF d

\* t has a timer, set at the time at in the event queue q, and has gone on with
\* its burst or is about to.
Ran(t, q, at) ==
    /\ rest' \in [Threads -> Seq(Actions)] /\ \A u \in Threads : u # t => rest'[u] = rest[u]
    /\ lastQuantum' \in [Threads -> Nat]
    /\ ParamsFit(params') /\ \A u \in Threads : params'[u].prio = params[u].prio
    /\ cpuTime' \in [Threads -> Int]
    /\ \A u \in Threads : cpuTime'[u] + BurstsOf(rest'[u]) = cpuTime[u] + BurstsOf(rest[u])
    /\ loose' = [loose EXCEPT ![t] = TRUE]
    /\ \E e \in EventSet : e.module = "SCH" /\ e.th = t /\ at <= e.at
                           /\ events' = InsertEvent(q, e)

LEMMA ExecuteIs ==
    ASSUME TypeOK, conf \in ConfigSet, ParamsInv, NEW t \in Threads,
           NextCall(rest[t]) = "WORK", NEW q, NEW at \in Nat, Execute(t, q, at)
    PROVE  Ran(t, q, at)
<1> DEFINE ti == GetExecutionTime(t)
           burst == Head(rest[t]).time
           used == IF FreshQuantum(t) THEN ti ELSE lastQuantum[t] + ti
           left == IF ti = burst THEN Tail(rest[t]) ELSE <<Work(burst - ti)>> \o Tail(rest[t])
           e == Timer(at + ti, "SCH", t)
<1>1. ti \in Nat /\ burst \in Nat /\ ti <= burst
  BY ExecutionTimeIs
<1>2. /\ rest \in [Threads -> Seq(Actions)] /\ rest[t] \in Seq(Actions) /\ rest[t] # <<>>
      /\ lastQuantum \in [Threads -> Nat] /\ params \in [Threads -> ThreadParams]
      /\ cpuTime \in [Threads -> Int]
  BY DEF TypeOK, NextCall, ThreadParams
<1>3. /\ Tail(rest[t]) \in Seq(Actions)
      /\ BurstsOf(rest[t]) = burst + BurstsOf(Tail(rest[t]))
      /\ BurstsOf(Tail(rest[t])) \in Nat
  <2>1. Tail(rest[t]) \in Seq(Actions) /\ BurstsOf(rest[t]) = burst + BurstsOf(Tail(rest[t]))
    BY <1>2, NextCallIs
  <2> QED BY <2>1, BurstsTyped
<1>4. left \in Seq(Actions) /\ ti + BurstsOf(left) = BurstsOf(rest[t])
  <2>1. CASE ti = burst
    BY <1>3, <2>1
  <2>2. CASE ti # burst
    <3> HIDE DEF ti, burst
    <3>1. burst - ti \in Nat
      BY <1>1
    <3>2. left \in Seq(Actions) /\ BurstsOf(left) = (burst - ti) + BurstsOf(Tail(rest[t]))
      BY <1>3, <2>2, <3>1, WorkFirst
    <3> HIDE DEF left
    <3> QED BY <1>1, <1>3, <3>2
  <2> QED BY <2>1, <2>2
<1>5. /\ rest' = [rest EXCEPT ![t] = left]
      /\ lastQuantum' = IF conf.policy \in {"RR", "BOOST", "SVR4"}
                          THEN [lastQuantum EXCEPT ![t] = used] ELSE lastQuantum
      /\ params' = [params EXCEPT ![t].full = @ \/ (conf.policy = "SVR4" /\ used = Quantum(t))]
      /\ cpuTime' = [cpuTime EXCEPT ![t] = @ + ti]
      /\ events' = InsertEvent(q, e)
      /\ loose' = [loose EXCEPT ![t] = TRUE]
  BY DEF Execute
<1> HIDE DEF ti, burst, left
<1>6. used \in Nat
  BY <1>1, <1>2
<1> HIDE DEF used
<1>7. rest' \in [Threads -> Seq(Actions)] /\ (\A u \in Threads : u # t => rest'[u] = rest[u])
      /\ rest'[t] = left
  BY <1>2, <1>4, <1>5
<1>8. lastQuantum' \in [Threads -> Nat]
  BY <1>2, <1>5, <1>6
<1>9. ParamsFit(params') /\ \A u \in Threads : params'[u].prio = params[u].prio
  <2> DEFINE full == params[t].full \/ (conf.policy = "SVR4" /\ used = Quantum(t))
  <2>1. full \in BOOLEAN
    OBVIOUS
  <2>2. params' = [params EXCEPT ![t].full = full]
    BY <1>5
  <2> HIDE DEF full
  <2>3. params' \in [Threads -> ThreadParams] /\ \A u \in Threads : params'[u].prio = params[u].prio
    BY <1>2, <2>1, <2>2 DEF ThreadParams
  <2> QED BY <2>3 DEF ParamsFit, ParamsInv
<1>10. cpuTime' \in [Threads -> Int] /\ \A u \in Threads : cpuTime'[u] = cpuTime[u] + IF u = t THEN ti ELSE 0
  BY <1>1, <1>2, <1>5
<1>11. ASSUME NEW u \in Threads
       PROVE  cpuTime'[u] + BurstsOf(rest'[u]) = cpuTime[u] + BurstsOf(rest[u])
  <2>1. CASE u # t
    BY <1>2, <1>7, <1>10, <2>1
  <2>2. CASE u = t
    <3>1. BurstsOf(left) \in Nat /\ cpuTime[t] \in Int
      BY <1>2, <1>4, BurstsTyped
    <3>2. cpuTime'[t] = cpuTime[t] + ti /\ rest'[t] = left
      BY <1>7, <1>10
    <3> QED BY <1>1, <1>4, <2>2, <3>1, <3>2
  <2> QED BY <2>1, <2>2
<1>12. e \in EventSet /\ e.module = "SCH" /\ e.th = t /\ at <= e.at
  BY <1>1 DEF Timer, EventSet
<1> HIDE DEF e
<1>13. \E x \in EventSet : x.module = "SCH" /\ x.th = t /\ at <= x.at /\ events' = InsertEvent(q, x)
  BY <1>5, <1>12
<1> QED BY <1>5, <1>7, <1>8, <1>9, <1>10, <1>11, <1>13 DEF Ran

\* The CPU that put_thread_on_run takes.
LEMMA FreeCpuIs ==
    ASSUME Free # {}, NEW t \in Threads
    PROVE  /\ SelectFreeCpu(t) \in Free
           /\ \A d \in Free : context[d] = t => context[SelectFreeCpu(t)] = t
<1> DEFINE warm == {c \in Free : context[c] = t}
           S == IF warm # {} THEN warm ELSE Free
<1>1. S \in SUBSET Nat /\ S # {} /\ S \subseteq Free
  BY DEF Free, Cpus
<1>2. SelectFreeCpu(t) = Min(S)
  BY DEF SelectFreeCpu
<1>3. SelectFreeCpu(t) \in S
  <2> HIDE DEF S
  <2> QED BY <1>1, <1>2, MinIs
<1>4. SelectFreeCpu(t) \in Free
  <2> HIDE DEF S
  <2> QED BY <1>1, <1>3
<1>5. warm # {} => SelectFreeCpu(t) \in warm
  BY <1>3
<1> QED BY <1>4, <1>5

LEMMA PutOnRunIs ==
    ASSUME TypeOK, InputInv, ParamsInv, NEW t \in Threads, Free # {},
           NextCall(rest[t]) = "WORK", PutThreadOnRun(t)
    PROVE  /\ Ran(t, events, now)
           /\ \E c \in Free : /\ on' = [on EXCEPT ![c] = t]
                              /\ context' = [context EXCEPT ![c] = t]
                              /\ cpuOf' = [cpuOf EXCEPT ![t] = c]
                              /\ \A d \in Free : context[d] = t => context[c] = t
           /\ IF conf.switch # 0 THEN switching' = [switching EXCEPT ![t] = TRUE] /\ rest' = rest
                                 ELSE switching' = switching
<1> DEFINE c == SelectFreeCpu(t)
<1>1. c \in Free /\ \A d \in Free : context[d] = t => context[c] = t
  BY FreeCpuIs
<1>2. /\ on' = [on EXCEPT ![c] = t] /\ context' = [context EXCEPT ![c] = t]
      /\ cpuOf' = [cpuOf EXCEPT ![t] = c]
  BY DEF PutThreadOnRun
<1> HIDE DEF c
<1>3. conf \in ConfigSet /\ conf.switch \in Nat /\ now \in Nat
  BY ConfIs DEF InputInv, TypeOK
<1>4. CASE conf.switch # 0
  <2>1. /\ switching' = [switching EXCEPT ![t] = TRUE]
        /\ events' = InsertEvent(events, Timer(now + conf.switch, "SCH", t))
        /\ loose' = [loose EXCEPT ![t] = TRUE]
        /\ UNCHANGED <<rest, lastQuantum, cpuTime, params>>
    BY <1>4 DEF PutThreadOnRun
  <2> DEFINE e == Timer(now + conf.switch, "SCH", t)
  <2>2. e \in EventSet /\ e.module = "SCH" /\ e.th = t /\ now <= e.at
    BY <1>3 DEF Timer, EventSet
  <2> HIDE DEF e
  <2>3. \E x \in EventSet : x.module = "SCH" /\ x.th = t /\ now <= x.at /\ events' = InsertEvent(events, x)
    BY <2>1, <2>2 DEF e
  <2>4. /\ rest' \in [Threads -> Seq(Actions)] /\ lastQuantum' \in [Threads -> Nat]
        /\ cpuTime' \in [Threads -> Int]
    BY <2>1 DEF TypeOK
  <2>5. ParamsFit(params')
    BY <2>1 DEF ParamsInv
  <2>6. Ran(t, events, now)
    BY <2>1, <2>3, <2>4, <2>5 DEF Ran
  <2> QED BY <1>1, <1>2, <1>4, <2>1, <2>6
<1>5. CASE conf.switch = 0
  <2>1. Execute(t, events, now) /\ UNCHANGED switching
    BY <1>5 DEF PutThreadOnRun
  <2>2. Ran(t, events, now)
    BY <1>3, <2>1, ExecuteIs
  <2> QED BY <1>1, <1>2, <1>5, <2>1, <2>2
<1> QED BY <1>4, <1>5

\* t is in ready, when its actions were r[t] and the parameters pr.
Readied(t, how, r, pr) ==
    /\ rest' \in [Threads -> Seq(Actions)] /\ \A u \in Threads : u # t => rest'[u] = r[u]
    /\ NextCall(rest'[t]) = "WORK" /\ BurstsOf(rest'[t]) = BurstsOf(r[t])
    /\ ParamsFit(params') /\ OthersKeep(params', pr, t)
    /\ ready' = Enqueue(ready, t, how, params')
    /\ ready' \in Seq(Threads) /\ ready' # <<>> /\ ToSet(ready') = ToSet(ready) \cup {t}
    /\ Once(ready) /\ t \notin ToSet(ready) => Once(ready')
    /\ ~InTurns /\ InOrder(ready, OrderKey(params')) => InOrder(ready', OrderKey(params'))
    /\ InTurns /\ how = "keep" => ready'[1] = t
    /\ loose' = [loose EXCEPT ![t] = how # "keep"]
    /\ reloadDone' = TRUE

LEMMA ThreadToReadyIs ==
    ASSUME TypeOK, InputInv, NEW t \in Threads, NEW how,
           NEW r \in [Threads -> Seq(Actions)], r[t] # <<>>,
           NEW pr, ParamsFit(pr), ThreadToReady(t, how, r, pr)
    PROVE  Readied(t, how, r, pr)
<1>1. Padded(r[t]) \in Seq(Actions) /\ NextCall(Padded(r[t])) = "WORK"
      /\ BurstsOf(Padded(r[t])) = BurstsOf(r[t])
  BY PaddedIs
<1>2. /\ rest' = [r EXCEPT ![t] = Padded(r[t])]
      /\ params' = Demoted(pr, t)
      /\ ready' = Enqueue(ready, t, how, params')
      /\ loose' = [loose EXCEPT ![t] = how # "keep"]
      /\ reloadDone' = TRUE
  BY DEF ThreadToReady
<1>3. rest' \in [Threads -> Seq(Actions)] /\ rest'[t] = Padded(r[t])
      /\ \A u \in Threads : u # t => rest'[u] = r[u]
  BY <1>1, <1>2
<1>4. ParamsFit(params') /\ OthersKeep(params', pr, t)
  BY <1>2, DemotedIs
<1>5. /\ ready' \in Seq(Threads) /\ ready' # <<>> /\ ToSet(ready') = ToSet(ready) \cup {t}
      /\ Once(ready) /\ t \notin ToSet(ready) => Once(ready')
      /\ ~InTurns /\ InOrder(ready, OrderKey(params')) => InOrder(ready', OrderKey(params'))
      /\ InTurns /\ how = "keep" => ready'[1] = t
  <2>1. conf \in ConfigSet /\ ready \in Seq(Threads) /\ params' \in [Threads -> ThreadParams]
    BY <1>4 DEF TypeOK, InputInv, ParamsFit
  <2> QED BY <1>2, <2>1, EnqueueElements
<1> QED BY <1>1, <1>2, <1>3, <1>4, <1>5 DEF Readied

-----------------------------------------------------------------------------
(* What holds in the phases                                                *)

LEMMA PhaseIs ==
    /\ \A x \in {"boot", "idle", "dispatch", "newjob", "reload", "panic"} :
           <<x>> \in Phases /\ <<x>>[1] = x /\ InHand(<<x>>) = {}
    /\ \A t \in Threads : /\ <<"op", t>> \in Phases /\ <<"op", t>>[1] = "op" /\ <<"op", t>>[2] = t
                          /\ InHand(<<"op", t>>) = {t}
  BY DEF Phases, InHand

\* A thread that is about to do its next operation, off its CPU.
LEMMA OpIs ==
    ASSUME IInv, NEW t \in Threads, phase = <<"op", t>>
    PROVE  /\ phase[1] = "op" /\ phase[2] = t /\ InHand(phase) = {t}
           /\ ~OnCpu(t) /\ t \notin ToSet(ready) /\ t \notin ToSet(gathered)
           /\ t \notin receivers /\ finished[t] = 0
           /\ ~switching[t] /\ ~spinning[t]
           /\ cpuOf[t] \in Cpus /\ on[cpuOf[t]] = None /\ cpuOf[t] \in Free
           /\ context[cpuOf[t]] = t
           /\ reloadDone \/ ready = <<>> \/ FreeAtMostOne
           /\ InTurns => \A i \in DOMAIN ready : loose[ready[i]]
           /\ ~InTurns => InOrder(ready, OrderKey(params))
           /\ rest \in [Threads -> Seq(Actions)] /\ rest[t] \in Seq(Actions)
<1>1. phase[1] = "op" /\ phase[2] = t /\ InHand(phase) = {t}
  BY PhaseIs
<1>2. AtPlace(t, "hand")
  <2>1. PICK p \in Places : AtPlace(t, p)
    BY DEF IInv, PlaceInv
  <2> QED BY <1>1, <2>1 DEF AtPlace
<1>3. /\ ~OnCpu(t) /\ t \notin ToSet(ready) /\ t \notin ToSet(gathered)
      /\ t \notin receivers /\ finished[t] = 0
  BY <1>2 DEF AtPlace, One
<1>4. ~switching[t] /\ ~spinning[t]
  BY <1>3 DEF IInv, FlagInv, FlagsOf
<1>5. cpuOf[t] \in Cpus /\ on[cpuOf[t]] = None /\ context[cpuOf[t]] = t /\ cpuOf[t] \in Free
  BY <1>1 DEF IInv, CpuInv, Free
<1>6. reloadDone \/ ready = <<>> \/ FreeAtMostOne
  BY <1>1 DEF IInv, DispatchInv
<1>7. /\ InTurns => \A i \in DOMAIN ready : loose[ready[i]]
      /\ ~InTurns => InOrder(ready, OrderKey(params))
  BY <1>1 DEF IInv, TurnInv, InTurns
<1>8. rest \in [Threads -> Seq(Actions)]
  BY DEF IInv, TypeOK
<1> QED BY <1>1, <1>3, <1>4, <1>5, <1>6, <1>7, <1>8

\* The order of ready does not depend on the other threads.
LEMMA OrderKept ==
    ASSUME TypeOK, NEW t \in Threads, t \notin ToSet(ready), NEW pr,
           OthersKeep(pr, params, t), InOrder(ready, OrderKey(params))
    PROVE  InOrder(ready, OrderKey(pr))
<1>1. ready \in Seq(Threads) /\ ToSet(ready) \subseteq Threads
  BY ElementsTyped DEF TypeOK
<1>2. \A u \in ToSet(ready) : pr[u].prio = params[u].prio
  BY <1>1 DEF OthersKeep
<1> QED BY <1>1, <1>2, PriosKept

\* The event queue has the same timers and is in order.
SameTimers == /\ events' \in Seq(EventSet) /\ OnTime(events', now)
              /\ TimerKeys(events') = TimerKeys(events) /\ TimerOnce(events')

LEMMA EventsAre ==
    ASSUME TypeOK, TimeForward
    PROVE  events \in Seq(EventSet) /\ now \in Nat /\ OnTime(events, now)
<1>1. events \in Seq(EventSet) /\ now \in Nat
  BY DEF TypeOK, EventSet
<1> QED BY <1>1, TimeForwardIs

LEMMA TimeKept ==
    ASSUME events' \in Seq(EventSet), now' \in Nat, OnTime(events', now')
    PROVE  TimeForward'
<1>1. \A q \in Seq(EventSet), n \in Nat :
         OnTime(q, n) => \A i \in DOMAIN q : q[i].at >= n /\ \A j \in 1 .. i : q[j].at <= q[i].at
  <2> SUFFICES ASSUME NEW q \in Seq(EventSet), NEW n \in Nat, OnTime(q, n), NEW i \in DOMAIN q
               PROVE  q[i].at >= n /\ \A j \in 1 .. i : q[j].at <= q[i].at
    OBVIOUS
  <2>1. /\ DOMAIN q = 1 .. Len(q) /\ Len(q) \in Nat
        /\ \A j \in DOMAIN q : q[j] \in EventSet /\ AtKey[q[j]] = q[j].at /\ q[j].at \in Nat
    BY EventIs
  <2>2. q[i].at >= n
    BY <2>1 DEF OnTime
  <2>3. ASSUME NEW j \in 1 .. i PROVE q[j].at <= q[i].at
    <3>1. j \in DOMAIN q /\ j <= i
      BY <2>1
    <3>2. AtKey[q[j]] <= AtKey[q[i]]
      BY <3>1 DEF OnTime, InOrder
    <3> QED BY <2>1, <3>1, <3>2
  <2> QED BY <2>2, <2>3
<1> QED BY <1>1 DEF TimeForward

LEMMA SameTimersKept ==
    ASSUME TypeOK, TimeForward, TimerInv, UNCHANGED events
    PROVE  SameTimers
  BY EventsAre DEF SameTimers, TimerInv

-----------------------------------------------------------------------------
(* What a step of one thread leaves to the others                          *)

LEMMA PlaceIs ==
    ASSUME PlaceInv, NEW t \in Threads
    PROVE  /\ OnCpu(t) => AtPlace(t, "cpu")
           /\ t \in ToSet(ready) => AtPlace(t, "ready")
           /\ t \in ToSet(gathered) => AtPlace(t, "gathered")
           /\ t \in receivers => AtPlace(t, "receiving")
           /\ t \in InHand(phase) => AtPlace(t, "hand")
<1>1. PICK p \in Places : AtPlace(t, p)
  BY DEF PlaceInv
<1> QED BY <1>1 DEF AtPlace

\* Threads stay where they are, but those of S.
OthersStay(S) ==
    /\ UNCHANGED input
    /\ \A u \in Threads \ S :
           /\ rest'[u] = rest[u] /\ cpuTime'[u] = cpuTime[u]
           /\ switching'[u] = switching[u] /\ spinning'[u] = spinning[u]
           /\ OnCpu(u)' <=> OnCpu(u)
           /\ u \in ToSet(ready') <=> u \in ToSet(ready)
           /\ u \in ToSet(gathered') <=> u \in ToSet(gathered)
           /\ u \in receivers' <=> u \in receivers
           /\ finished'[u] = finished[u]
           /\ u \in InHand(phase') <=> u \in InHand(phase)
           /\ u \in InHand(phase') /\ phase'[1] \in {"wake", "run"} => phase[1] \in {"wake", "run"}

LEMMA StayIs ==
    ASSUME IInv, NEW S \in SUBSET Threads, OthersStay(S),
           \A t \in S : /\ \E p \in Places : AtPlace(t, p)'
                        /\ FlagsOf(t)' /\ CallsOf(t)'
                        /\ cpuTime'[t] + BurstsOf(rest'[t]) = cpuTime[t] + BurstsOf(rest[t])
    PROVE  /\ conf' = conf /\ prog' = prog
           /\ InputInv' /\ PlaceInv' /\ FlagInv' /\ CpuTimeConserved'
           /\ \A u \in Threads : CallsOf(u)'
<1>1. conf' = conf /\ prog' = prog
  BY DEF OthersStay, input
<1>2. InputInv'
  BY <1>1 DEF IInv, InputInv
<1>3. PlaceInv'
  <2> SUFFICES ASSUME NEW u \in Threads PROVE \E p \in Places : AtPlace(u, p)'
    BY DEF PlaceInv
  <2>1. CASE u \notin S
    <3>1. PICK p \in Places : AtPlace(u, p)
      BY DEF IInv, PlaceInv
    <3>2. AtPlace(u, p)'
      BY <2>1, <3>1 DEF AtPlace, OthersStay
    <3> QED BY <3>2
  <2> QED BY <2>1
<1>4. FlagInv'
  <2> SUFFICES ASSUME NEW u \in Threads PROVE FlagsOf(u)'
    BY DEF FlagInv
  <2>1. CASE u \notin S
    <3>1. FlagsOf(u)
      BY DEF IInv, FlagInv
    <3> QED BY <1>1, <2>1, <3>1 DEF FlagsOf, OthersStay
  <2> QED BY <2>1
<1>5. CpuTimeConserved'
  <2> SUFFICES ASSUME NEW u \in Threads
               PROVE  cpuTime'[u] + BurstsOf(rest'[u]) = BurstsOf(prog'[u])
    BY DEF CpuTimeConserved, BurstsOf
  <2>1. cpuTime[u] + BurstsOf(rest[u]) = BurstsOf(prog[u])
    BY DEF IInv, CpuTimeConserved
  <2>2. cpuTime'[u] + BurstsOf(rest'[u]) = cpuTime[u] + BurstsOf(rest[u])
    <3>1. CASE u \notin S
      BY <3>1 DEF OthersStay
    <3> QED BY <3>1
  <2> QED BY <1>1, <2>1, <2>2
<1>6. ASSUME NEW u \in Threads PROVE CallsOf(u)'
  <2>1. CASE u \notin S
    <3>1. CallsOf(u)
      BY DEF IInv, CallInv
    <3> QED BY <2>1, <3>1 DEF CallsOf, OthersStay
  <2> QED BY <2>1
<1> QED BY <1>1, <1>2, <1>3, <1>4, <1>5, <1>6

-----------------------------------------------------------------------------
(* Threads go to ready                                                     *)

\* What is left of the handler when t goes to ready.
Onward(t) ==
    /\ phase[1] \in {"op", "wake"} /\ t \in InHand(phase)
    /\ phase' \in Phases /\ phase'[1] \in {"dispatch", "newjob", "reload", "wake"}
    /\ InHand(phase') = InHand(phase) \ {t}
    /\ phase'[1] = "wake" => phase[1] = "wake" /\ phase'[2] # <<>> /\ Once(phase'[2])

\* After an operation, or when it wakes up, t is in ready again.
LEMMA ReadiedKeeps ==
    ASSUME IInv, NEW t \in Threads, Onward(t), NEW how,
           how = "keep" => phase = <<"op", t>> /\ phase' = <<"dispatch">>,
           NEW r \in [Threads -> Seq(Actions)], NEW pr, Readied(t, how, r, pr),
           \A u \in Threads : u # t => r[u] = rest[u],
           OthersKeep(pr, params, t),
           cpuTime' \in [Threads -> Int],
           \A u \in Threads : u # t => cpuTime'[u] = cpuTime[u],
           cpuTime'[t] + BurstsOf(r[t]) = cpuTime[t] + BurstsOf(rest[t]),
           UNCHANGED <<input, now, cpuVars, lastQuantum, spinning, finished, gathered, receivers>>,
           startup' \in [Threads -> {"no", "doing", "done"}],
           mail' \in [Threads -> Nat], \A u \in receivers : mail'[u] = mail[u],
           SameTimers
    PROVE  IInv'
<1>1. AtPlace(t, "hand") /\ ~OnCpu(t) /\ t \notin ToSet(ready) /\ t \notin ToSet(gathered)
      /\ t \notin receivers /\ finished[t] = 0 /\ ~switching[t] /\ ~spinning[t]
  <2>1. AtPlace(t, "hand")
    BY PlaceIs DEF IInv, Onward
  <2>2. /\ ~OnCpu(t) /\ t \notin ToSet(ready) /\ t \notin ToSet(gathered)
        /\ t \notin receivers /\ finished[t] = 0
    BY <2>1 DEF AtPlace, One
  <2>3. FlagsOf(t)
    BY DEF IInv, FlagInv
  <2> QED BY <2>1, <2>2, <2>3 DEF FlagsOf
<1>2. /\ conf' = conf /\ now' = now /\ on' = on /\ context' = context
      /\ cpuOf' = cpuOf /\ switching' = switching /\ lastQuantum' = lastQuantum
      /\ spinning' = spinning /\ finished' = finished /\ gathered' = gathered
      /\ receivers' = receivers
  BY DEF input, cpuVars
<1>3. /\ rest' \in [Threads -> Seq(Actions)] /\ \A u \in Threads : u # t => rest'[u] = rest[u]
      /\ NextCall(rest'[t]) = "WORK" /\ BurstsOf(rest'[t]) = BurstsOf(r[t])
      /\ ParamsFit(params') /\ OthersKeep(params', params, t)
      /\ ready' \in Seq(Threads) /\ ready' # <<>> /\ ToSet(ready') = ToSet(ready) \cup {t}
      /\ Once(ready')
      /\ InTurns /\ how = "keep" => ready'[1] = t
      /\ loose' = [loose EXCEPT ![t] = how # "keep"]
      /\ reloadDone' = TRUE
  <2>1. Once(ready')
    BY <1>1 DEF Readied, IInv, OnceInv
  <2>2. OthersKeep(params', params, t)
    BY DEF Readied, OthersKeep
  <2> QED BY <2>1, <2>2 DEF Readied
<1>4. /\ phase' \in Phases /\ phase'[1] \in {"dispatch", "newjob", "reload", "wake"}
      /\ InHand(phase') = InHand(phase) \ {t} /\ phase[1] \in {"op", "wake"}
      /\ phase'[1] = "wake" => phase[1] = "wake"
  BY DEF Onward
<1>5. \A u \in Threads : OnCpu(u)' <=> OnCpu(u)
  BY <1>2 DEF OnCpu
<1>6. Free' = Free
  BY <1>2 DEF Free
<1>7. OthersStay({t})
  BY <1>2, <1>3, <1>4, <1>5 DEF OthersStay
<1>8. AtPlace(t, "ready")' /\ FlagsOf(t)' /\ CallsOf(t)'
  <2>1. AtPlace(t, "ready")'
    BY <1>1, <1>2, <1>3, <1>4, <1>5 DEF AtPlace, One
  <2>2. FlagsOf(t)'
    BY <1>1, <1>2 DEF FlagsOf
  <2>3. CallsOf(t)'
    BY <1>1, <1>2, <1>3, <1>4 DEF CallsOf
  <2> QED BY <2>1, <2>2, <2>3
<1>9. /\ InputInv' /\ PlaceInv' /\ FlagInv' /\ CpuTimeConserved'
      /\ \A u \in Threads : CallsOf(u)'
  <2>1. cpuTime'[t] + BurstsOf(rest'[t]) = cpuTime[t] + BurstsOf(rest[t])
    BY <1>3
  <2>2. "ready" \in Places
    BY DEF Places
  <2> QED BY <1>7, <1>8, <2>1, <2>2, StayIs
<1>10. TypeOK'
  <2>1. loose \in [Threads -> BOOLEAN] /\ (how # "keep") \in BOOLEAN
    BY DEF IInv, TypeOK
  <2>2. loose' \in [Threads -> BOOLEAN] /\ reloadDone' \in BOOLEAN
    BY <1>3, <2>1
  <2>3. params' \in [Threads -> [prio : Int, full : BOOLEAN, forces : BOOLEAN, task : Nat]]
    BY <1>3 DEF ParamsFit, ThreadParams
  <2>4. events' \in Seq([at : Nat, module : {"SCH", "COM", "GOP"}, th : Threads])
    BY DEF SameTimers, EventSet
  <2>5. /\ now \in Nat /\ on \in [Cpus -> Threads \cup {None}]
        /\ context \in [Cpus -> Threads \cup {None}] /\ cpuOf \in [Threads -> Cpus \cup {None}]
        /\ switching \in [Threads -> BOOLEAN] /\ spinning \in [Threads -> BOOLEAN]
        /\ lastQuantum \in [Threads -> Nat] /\ finished \in [Threads -> Nat]
        /\ gathered \in Seq(Threads) /\ receivers \subseteq Threads
    BY DEF IInv, TypeOK
  <2> QED BY <1>2, <1>3, <1>4, <2>2, <2>3, <2>4, <2>5 DEF TypeOK
<1>12. ParamsInv'
  BY <1>2, <1>3 DEF ParamsInv, ParamsFit
<1>14. OnceInv'
  BY <1>2, <1>3, <1>4 DEF IInv, OnceInv, Onward
<1>15. CpuInv'
  BY <1>2, <1>4 DEF IInv, CpuInv
<1>17. CallInv'
  BY <1>4, <1>9 DEF CallInv
<1>18. TimerInv'
  BY <1>2, <1>5 DEF IInv, TimerInv, SameTimers
<1>19. TimeForward'
  BY <1>2, TimeKept DEF SameTimers, IInv, TypeOK
<1>20. MailInv'
  BY <1>2 DEF IInv, MailInv
<1>21. DispatchInv'
  BY <1>3, <1>4 DEF DispatchInv
<1>22. TurnInv'
  <2>1. CASE InTurns
    <3>0. \A i \in DOMAIN ready : loose[ready[i]]
      BY <1>4, <2>1 DEF IInv, TurnInv, InTurns
    <3>1. ASSUME NEW i \in DOMAIN ready'
          PROVE  loose'[ready'[i]] \/ (phase'[1] = "dispatch" /\ i = 1 /\ HasItsCpu(ready[i])')
      <4>1. ready'[i] \in ToSet(ready') /\ ready'[i] \in Threads
        BY <1>3 DEF ToSet
      <4>2. CASE ready'[i] = t /\ how = "keep"
        <5>1. 1 \in DOMAIN ready'
          BY <1>3
        <5>2. i = 1
          BY <1>3, <2>1, <4>2, <5>1 DEF Once
        <5>3. HasItsCpu(t) /\ phase'[1] = "dispatch"
          BY <4>2, OpIs, PhaseIs DEF HasItsCpu
        <5>4. HasItsCpu(ready[i])'
          BY <1>2, <1>6, <4>2, <5>3 DEF HasItsCpu
        <5> QED BY <5>2, <5>3, <5>4
      <4>3. CASE ready'[i] = t /\ how # "keep"
        BY <1>3, <4>3 DEF IInv, TypeOK
      <4>4. CASE ready'[i] # t
        <5>1. ready'[i] \in ToSet(ready)
          BY <1>3, <4>1, <4>4
        <5>2. loose[ready'[i]]
          BY <3>0, <5>1 DEF ToSet
        <5> QED BY <1>3, <4>1, <4>4, <5>2 DEF IInv, TypeOK
      <4> QED BY <4>2, <4>3, <4>4
    <3> QED BY <1>2, <2>1, <3>1 DEF TurnInv, InTurns
  <2>2. CASE ~InTurns
    <3>1. OrderKey(params)' = OrderKey(params')
      BY <1>2 DEF OrderKey, Order
    <3>2. InOrder(ready, OrderKey(params))
      BY <2>2 DEF IInv, TurnInv, InTurns
    <3>3. InOrder(ready, OrderKey(params'))
      BY <1>1, <1>3, <3>2, OrderKept DEF IInv
    <3>4. InOrder(ready', OrderKey(params)')
      BY <2>2, <3>1, <3>3 DEF Readied
    <3> QED BY <1>2, <2>2, <3>4 DEF TurnInv, InTurns, InOrder
  <2> QED BY <2>1, <2>2
<1>24. NoIdleCpu' /\ NeverPanics'
  BY <1>4, PhaseIs DEF NoIdleCpu, Idle, NeverPanics
<1> QED BY <1>9, <1>10, <1>12, <1>14, <1>15, <1>17, <1>18, <1>19, <1>20, <1>21, <1>22, <1>24
        DEF IInv

-----------------------------------------------------------------------------
(* Operations                                                              *)

\* t goes on with its next operation at once.
LEMMA StaysKeeps ==
    ASSUME IInv, NEW t \in Threads, phase = <<"op", t>>,
           UNCHANGED <<phase, ready, loose, reloadDone>>,
           rest' \in [Threads -> Seq(Actions)], \A u \in Threads : u # t => rest'[u] = rest[u],
           BurstsOf(rest'[t]) = BurstsOf(rest[t]),
           ParamsFit(params'), OthersKeep(params', params, t),
           UNCHANGED <<input, now, cpuVars, lastQuantum, cpuTime, spinning, finished, gathered,
                       receivers>>,
           startup' \in [Threads -> {"no", "doing", "done"}],
           mail' \in [Threads -> Nat], \A u \in receivers : mail'[u] = mail[u],
           SameTimers
    PROVE  IInv'
<1>1. /\ phase[1] = "op" /\ InHand(phase) = {t} /\ t \notin ToSet(ready)
      /\ t \notin ToSet(gathered) /\ t \notin receivers /\ finished[t] = 0
      /\ ~switching[t] /\ ~spinning[t]
  BY OpIs
<1>2. /\ conf' = conf /\ now' = now /\ on' = on /\ context' = context
      /\ cpuOf' = cpuOf /\ switching' = switching /\ lastQuantum' = lastQuantum
      /\ cpuTime' = cpuTime /\ phase' = phase /\ ready' = ready /\ loose' = loose
      /\ reloadDone' = reloadDone
      /\ spinning' = spinning /\ finished' = finished /\ gathered' = gathered
      /\ receivers' = receivers
  BY DEF input, cpuVars
<1>3. InHand(phase') = InHand(phase)
  BY <1>2 DEF InHand
<1>5. \A u \in Threads : OnCpu(u)' <=> OnCpu(u)
  BY <1>2 DEF OnCpu
<1>6. Free' = Free
  BY <1>2 DEF Free
<1>7. OthersStay({t})
  BY <1>2, <1>3, <1>5 DEF OthersStay
<1>8. AtPlace(t, "hand")' /\ FlagsOf(t)' /\ CallsOf(t)'
  <2>1. AtPlace(t, "hand")
    BY <1>1, PlaceIs DEF IInv
  <2>2. AtPlace(t, "hand")'
    BY <1>2, <1>3, <1>5, <2>1 DEF AtPlace
  <2>3. FlagsOf(t)'
    BY <1>1, <1>2 DEF FlagsOf
  <2>4. CallsOf(t)'
    BY <1>1, <1>2 DEF CallsOf
  <2> QED BY <2>2, <2>3, <2>4
<1>9. /\ InputInv' /\ PlaceInv' /\ FlagInv' /\ CpuTimeConserved'
      /\ \A u \in Threads : CallsOf(u)'
  <2>1. "hand" \in Places
    BY DEF Places
  <2> QED BY <1>2, <1>7, <1>8, <2>1, StayIs
<1>10. TypeOK'
  <2>3. params' \in [Threads -> [prio : Int, full : BOOLEAN, forces : BOOLEAN, task : Nat]]
    BY DEF ParamsFit, ThreadParams
  <2>4. events' \in Seq([at : Nat, module : {"SCH", "COM", "GOP"}, th : Threads])
    BY DEF SameTimers, EventSet
  <2>5. /\ now \in Nat /\ on \in [Cpus -> Threads \cup {None}] /\ phase \in Phases
        /\ reloadDone \in BOOLEAN /\ ready \in Seq(Threads) /\ loose \in [Threads -> BOOLEAN]
        /\ context \in [Cpus -> Threads \cup {None}] /\ cpuOf \in [Threads -> Cpus \cup {None}]
        /\ switching \in [Threads -> BOOLEAN] /\ spinning \in [Threads -> BOOLEAN]
        /\ lastQuantum \in [Threads -> Nat] /\ finished \in [Threads -> Nat]
        /\ gathered \in Seq(Threads) /\ receivers \subseteq Threads
        /\ cpuTime \in [Threads -> Int]
    BY DEF IInv, TypeOK
  <2> QED BY <1>2, <2>3, <2>4, <2>5 DEF TypeOK
<1>12. ParamsInv'
  BY <1>2 DEF ParamsInv, ParamsFit
<1>14. OnceInv'
  BY <1>2 DEF IInv, OnceInv
<1>15. CpuInv'
  BY <1>2 DEF IInv, CpuInv
<1>17. CallInv'
  BY <1>1, <1>2, <1>9 DEF CallInv
<1>18. TimerInv'
  BY <1>2, <1>5 DEF IInv, TimerInv, SameTimers
<1>19. TimeForward'
  BY <1>2, TimeKept DEF SameTimers, IInv, TypeOK
<1>20. MailInv'
  BY <1>2 DEF IInv, MailInv
<1>21. DispatchInv'
  BY <1>2, <1>6 DEF IInv, DispatchInv, FreeAtMostOne
<1>22. TurnInv'
  <2>1. CASE InTurns
    BY <1>1, <1>2, <2>1 DEF IInv, TurnInv, InTurns
  <2>2. CASE ~InTurns
    <3>1. OrderKey(params)' = OrderKey(params')
      BY <1>2 DEF OrderKey, Order
    <3>2. InOrder(ready, OrderKey(params))
      BY <2>2 DEF IInv, TurnInv, InTurns
    <3>3. InOrder(ready, OrderKey(params'))
      BY <1>1, <3>2, OrderKept DEF IInv
    <3> QED BY <1>2, <2>2, <3>1, <3>3 DEF TurnInv, InTurns, InOrder
  <2> QED BY <2>1, <2>2
<1>24. NoIdleCpu' /\ NeverPanics'
  BY <1>2 DEF IInv, NoIdleCpu, Idle, NeverPanics, Free
<1> QED BY <1>9, <1>10, <1>12, <1>14, <1>15, <1>17, <1>18, <1>19, <1>20, <1>21, <1>22, <1>24
        DEF IInv

LEMMA OpIsOnward ==
    ASSUME NEW t \in Threads, phase = <<"op", t>>, phase' = <<"dispatch">>
    PROVE  Onward(t)
  BY PhaseIs DEF Onward

\* The actions of t but the one it has done.
LEMMA ConsumedIs ==
    ASSUME IInv, NEW t \in Threads, rest[t] # <<>>, Head(rest[t]).op # "WORK"
    PROVE  /\ Consumed(t) \in [Threads -> Seq(Actions)]
           /\ \A u \in Threads : u # t => Consumed(t)[u] = rest[u]
           /\ Consumed(t)[t] = Tail(rest[t]) /\ BurstsOf(Consumed(t)[t]) = BurstsOf(rest[t])
<1>1. rest \in [Threads -> Seq(Actions)] /\ rest[t] \in Seq(Actions)
  BY DEF IInv, TypeOK
<1>2. Tail(rest[t]) \in Seq(Actions) /\ BurstsOf(Tail(rest[t])) = BurstsOf(rest[t])
  BY <1>1, NextCallIs
<1>3. Consumed(t) = [rest EXCEPT ![t] = Tail(rest[t])]
  BY DEF Consumed
<1> QED BY <1>1, <1>2, <1>3

LEMMA BurstKeeps == ASSUME IInv, NEW t \in Threads, Burst(t) PROVE IInv'
<1>1. /\ phase = <<"op", t>> /\ rest[t] # <<>> /\ ThreadToReady(t, "loose", rest, params)
      /\ phase' = <<"dispatch">>
      /\ UNCHANGED <<input, now, events, cpuVars, lastQuantum, cpuTime, spinning, startup,
                     finished, comVars>>
  BY DEF Burst, NextOp
<1>2. /\ TypeOK /\ InputInv /\ ParamsFit(params) /\ rest \in [Threads -> Seq(Actions)]
      /\ startup \in [Threads -> {"no", "doing", "done"}] /\ mail \in [Threads -> Nat]
      /\ cpuTime \in [Threads -> Int]
  BY DEF IInv, TypeOK, ParamsInv
<1>3. Readied(t, "loose", rest, params)
  BY <1>1, <1>2, ThreadToReadyIs
<1>4. SameTimers
  BY <1>1, SameTimersKept DEF IInv
<1>5. UNCHANGED <<cpuTime, gathered, receivers, mail, startup>>
  BY <1>1 DEF comVars
<1>6. OthersKeep(params, params, t)
  BY DEF OthersKeep
<1>7. UNCHANGED <<input, now, cpuVars, lastQuantum, spinning, finished, gathered, receivers>>
  BY <1>1 DEF comVars
<1> QED BY <1>1, <1>2, <1>3, <1>4, <1>5, <1>6, <1>7, OpIsOnward, ReadiedKeeps

\* t is done with an operation that does not block it.
LEMMA GoOnKeeps ==
    ASSUME IInv, NEW t \in Threads, phase = <<"op", t>>, rest[t] # <<>>,
           Head(rest[t]).op # "WORK",
           NEW pr, ParamsFit(pr), OthersKeep(pr, params, t), GoOn(t, Consumed(t), pr),
           UNCHANGED <<input, now, cpuVars, lastQuantum, cpuTime, spinning, finished, gathered,
                       receivers>>,
           startup' \in [Threads -> {"no", "doing", "done"}],
           mail' \in [Threads -> Nat], \A u \in receivers : mail'[u] = mail[u],
           SameTimers
    PROVE  IInv'
<1> DEFINE r == Consumed(t)
<1>1. /\ r \in [Threads -> Seq(Actions)] /\ \A u \in Threads : u # t => r[u] = rest[u]
      /\ BurstsOf(r[t]) = BurstsOf(rest[t])
  BY ConsumedIs
<1>2. TypeOK /\ InputInv /\ cpuTime \in [Threads -> Int] /\ cpuTime' = cpuTime
  BY DEF IInv, TypeOK
<1> HIDE DEF r
<1>3. CASE r[t] = <<>>
  <2>1. rest' = r /\ params' = pr /\ UNCHANGED <<phase, ready, loose, reloadDone>>
    BY <1>3 DEF GoOn, r
  <2> QED BY <1>1, <2>1, StaysKeeps
<1>4. CASE r[t] # <<>>
  <2>1. ThreadToReady(t, "keep", r, pr) /\ phase' = <<"dispatch">>
    BY <1>4 DEF GoOn, r
  <2>2. Readied(t, "keep", r, pr)
    BY <1>1, <1>2, <1>4, <2>1, ThreadToReadyIs
  <2>3. /\ cpuTime' \in [Threads -> Int] /\ \A u \in Threads : u # t => cpuTime'[u] = cpuTime[u]
        /\ cpuTime'[t] + BurstsOf(r[t]) = cpuTime[t] + BurstsOf(rest[t])
    BY <1>1, <1>2
  <2> QED BY <1>1, <2>1, <2>2, <2>3, OpIsOnward, ReadiedKeeps
<1> QED BY <1>3, <1>4

LEMMA AfterEventFits ==
    ASSUME IInv, NEW t \in Threads, rest[t] # <<>>
    PROVE  /\ ParamsFit(AfterEvent(t, Head(rest[t])))
           /\ OthersKeep(AfterEvent(t, Head(rest[t])), params, t)
<1>1. Head(rest[t]) \in Actions
  BY DEF IInv, TypeOK
<1> QED BY <1>1, AfterEventIs DEF IInv, InputInv

LEMMA EventKeeps == ASSUME IInv, NEW t \in Threads, Event(t) PROVE IInv'
<1> DEFINE r == Consumed(t)
           pr == AfterEvent(t, Head(rest[t]))
<1>1. /\ phase = <<"op", t>> /\ rest[t] # <<>> /\ Head(rest[t]).op # "WORK"
      /\ IF r[t] # <<>> /\ Head(r[t]).op # "WORK"
           THEN rest' = r /\ params' = pr /\ UNCHANGED <<phase, ready, loose, reloadDone>>
           ELSE GoOn(t, r, pr)
      /\ UNCHANGED <<input, now, events, cpuVars, lastQuantum, cpuTime, spinning, startup,
                     finished, comVars>>
  BY DEF Event, NextOp
<1>2. ParamsFit(pr) /\ OthersKeep(pr, params, t)
  BY <1>1, AfterEventFits
<1>3. SameTimers
  BY <1>1, SameTimersKept DEF IInv
<1>4. /\ startup' \in [Threads -> {"no", "doing", "done"}]
      /\ mail' \in [Threads -> Nat] /\ \A u \in receivers : mail'[u] = mail[u]
      /\ UNCHANGED <<input, now, cpuVars, lastQuantum, cpuTime, spinning, finished, gathered,
                     receivers>>
  BY <1>1 DEF IInv, TypeOK, comVars
<1>5. /\ r \in [Threads -> Seq(Actions)] /\ \A u \in Threads : u # t => r[u] = rest[u]
      /\ BurstsOf(r[t]) = BurstsOf(rest[t])
  BY <1>1, ConsumedIs
<1> HIDE DEF pr
<1>6. CASE r[t] # <<>> /\ Head(r[t]).op # "WORK"
  <2> HIDE DEF r
  <2>1. rest' = r /\ params' = pr /\ UNCHANGED <<phase, ready, loose, reloadDone>>
    BY <1>1, <1>6
  <2> QED BY <1>1, <1>2, <1>3, <1>4, <1>5, <2>1, StaysKeeps
<1>7. CASE ~(r[t] # <<>> /\ Head(r[t]).op # "WORK")
  <2>1. GoOn(t, Consumed(t), pr)
    BY <1>1, <1>7
  <2> QED BY <1>1, <1>2, <1>3, <1>4, <2>1, GoOnKeeps
<1> QED BY <1>6, <1>7

LEMMA SpendStartupKeeps == ASSUME IInv, NEW t \in Threads, SpendStartup(t) PROVE IInv'
<1> DEFINE r == [rest EXCEPT ![t] = <<Work(Startup)>> \o @]
<1>1. /\ phase = <<"op", t>> /\ rest[t] # <<>>
      /\ startup' = [startup EXCEPT ![t] = "doing"]
      /\ cpuTime' = [cpuTime EXCEPT ![t] = @ - Startup]
      /\ ThreadToReady(t, "keep", r, params)
      /\ phase' = <<"dispatch">>
      /\ UNCHANGED <<input, now, events, cpuVars, lastQuantum, spinning, finished, comVars>>
  BY DEF SpendStartup, NextOp
<1>2. /\ TypeOK /\ InputInv /\ ParamsFit(params) /\ rest \in [Threads -> Seq(Actions)]
      /\ rest[t] \in Seq(Actions)
      /\ startup \in [Threads -> {"no", "doing", "done"}] /\ mail \in [Threads -> Nat]
      /\ cpuTime \in [Threads -> Int] /\ Startup \in Nat
  BY TimesAssumption DEF IInv, TypeOK, ParamsInv
<1>3. /\ r \in [Threads -> Seq(Actions)] /\ r[t] # <<>>
      /\ \A u \in Threads : u # t => r[u] = rest[u]
      /\ BurstsOf(r[t]) = Startup + BurstsOf(rest[t])
  <2> DEFINE s == <<Work(Startup)>> \o rest[t]
  <2>1. s \in Seq(Actions) /\ NextCall(s) = "WORK" /\ BurstsOf(s) = Startup + BurstsOf(rest[t])
    BY <1>2, WorkFirst
  <2>2. r = [rest EXCEPT ![t] = s]
    OBVIOUS
  <2> HIDE DEF s, r
  <2>3. s # <<>>
    BY <2>1 DEF NextCall
  <2> QED BY <1>2, <2>1, <2>2, <2>3
<1> HIDE DEF r
<1>4. Readied(t, "keep", r, params)
  BY <1>1, <1>2, <1>3, ThreadToReadyIs
<1>5. SameTimers
  BY <1>1, SameTimersKept DEF IInv
<1>6. /\ cpuTime' \in [Threads -> Int] /\ \A u \in Threads : u # t => cpuTime'[u] = cpuTime[u]
      /\ cpuTime'[t] + BurstsOf(r[t]) = cpuTime[t] + BurstsOf(rest[t])
  <2>1. cpuTime' \in [Threads -> Int] /\ cpuTime'[t] = cpuTime[t] - Startup
        /\ \A u \in Threads : u # t => cpuTime'[u] = cpuTime[u]
    BY <1>1, <1>2
  <2>2. BurstsOf(rest[t]) \in Nat /\ cpuTime[t] \in Int
    BY <1>2, BurstsTyped
  <2> QED BY <1>2, <1>3, <2>1, <2>2
<1>7. /\ startup' \in [Threads -> {"no", "doing", "done"}]
      /\ mail' \in [Threads -> Nat] /\ \A u \in receivers : mail'[u] = mail[u]
      /\ UNCHANGED <<input, now, cpuVars, lastQuantum, spinning, finished, gathered, receivers>>
  BY <1>1, <1>2 DEF comVars
<1>8. OthersKeep(params, params, t)
  BY DEF OthersKeep
<1>9. /\ phase = <<"op", t>> /\ phase' = <<"dispatch">> /\ Onward(t)
      /\ r \in [Threads -> Seq(Actions)] /\ \A u \in Threads : u # t => r[u] = rest[u]
  BY <1>1, <1>3, OpIsOnward
<1> QED BY <1>4, <1>5, <1>6, <1>7, <1>8, <1>9, ReadiedKeeps

LEMMA StartupTyped ==
    ASSUME IInv, NEW t \in Threads, StartupDone(t)
    PROVE  startup' \in [Threads -> {"no", "doing", "done"}]
  BY DEF IInv, TypeOK, StartupDone

LEMMA SendKeeps == ASSUME IInv, NEW t \in Threads, Send(t) PROVE IInv'
<1> DEFINE to == Head(rest[t]).to
           pr == IF to \in receivers THEN SchedulerInfo("sender", t) ELSE params
           e == Timer(now + Flight, "COM", to)
<1>1. /\ phase = <<"op", t>> /\ rest[t] # <<>> /\ Head(rest[t]).op = "SEND" /\ StartupDone(t)
      /\ events' = InsertEvent(events, e)
      /\ GoOn(t, Consumed(t), pr)
      /\ UNCHANGED <<input, now, cpuVars, lastQuantum, cpuTime, spinning, finished, comVars>>
  BY DEF Send, NextOp
<1>2. ParamsFit(pr) /\ OthersKeep(pr, params, t)
  <2>1. /\ ParamsFit(SchedulerInfo("sender", t))
        /\ OthersKeep(SchedulerInfo("sender", t), params, t)
    BY SchedulerInfoIs DEF IInv, InputInv
  <2>2. ParamsFit(params) /\ OthersKeep(params, params, t)
    BY DEF IInv, ParamsInv, OthersKeep
  <2> QED BY <2>1, <2>2
<1>3. SameTimers
  <2>1. to \in Threads
    <3>1. rest[t] \in Seq(Actions)
      BY DEF IInv, TypeOK
    <3>2. Head(rest[t]) \in Actions
      BY <1>1, <3>1
    <3> QED BY <1>1, <3>2, ActionIs
  <2>2. events \in Seq(EventSet) /\ now \in Nat /\ OnTime(events, now) /\ TimerOnce(events)
    BY EventsAre DEF IInv, TimerInv
  <2>3. e \in EventSet /\ TimerKey(e) = -1 /\ now <= e.at
    BY <2>1, <2>2, TimesAssumption DEF Timer, EventSet, TimerKey
  <2>4. now' = now
    BY <1>1
  <2> HIDE DEF e
  <2>5. TimerKey(e) \notin TimerKeys(events)
    BY <2>3 DEF TimerKeys
  <2>6. {TimerKey(e)} \ {-1} = {}
    BY <2>3
  <2>7. /\ InsertEvent(events, e) \in Seq(EventSet)
        /\ OnTime(InsertEvent(events, e), now)
        /\ TimerKeys(InsertEvent(events, e)) = TimerKeys(events) \cup {}
        /\ TimerOnce(InsertEvent(events, e))
    BY <2>2, <2>3, <2>5, <2>6, InsertEventIs
  <2> QED BY <1>1, <2>7 DEF SameTimers
<1>4. /\ mail' \in [Threads -> Nat] /\ \A u \in receivers : mail'[u] = mail[u]
      /\ UNCHANGED <<input, now, cpuVars, lastQuantum, cpuTime, spinning, finished, gathered,
                     receivers>>
  BY <1>1 DEF IInv, TypeOK, comVars
<1>5. startup' \in [Threads -> {"no", "doing", "done"}]
  BY <1>1, StartupTyped
<1> HIDE DEF pr
<1>6. Head(rest[t]).op # "WORK"
  BY <1>1
<1> QED BY <1>1, <1>2, <1>3, <1>4, <1>5, <1>6, GoOnKeeps

LEMMA RecvArrivedKeeps == ASSUME IInv, NEW t \in Threads, RecvArrived(t) PROVE IInv'
<1> DEFINE pr == SchedulerInfo("last", t)
<1>1. /\ phase = <<"op", t>> /\ rest[t] # <<>> /\ Head(rest[t]).op = "RECV" /\ StartupDone(t)
      /\ mail[t] > 0 /\ mail' = [mail EXCEPT ![t] = @ - 1]
      /\ GoOn(t, Consumed(t), pr)
      /\ UNCHANGED <<input, now, events, cpuVars, lastQuantum, cpuTime, spinning, finished,
                     gathered, receivers>>
  BY DEF RecvArrived, NextOp
<1>2. ParamsFit(pr) /\ OthersKeep(pr, params, t)
  BY SchedulerInfoIs DEF IInv, InputInv
<1>3. SameTimers
  BY <1>1, SameTimersKept DEF IInv
<1>4. mail' \in [Threads -> Nat] /\ \A u \in receivers : mail'[u] = mail[u]
  <2>1. t \notin receivers
    BY <1>1, OpIs
  <2>2. mail \in [Threads -> Nat] /\ mail[t] - 1 \in Nat
    BY <1>1 DEF IInv, TypeOK
  <2>3. receivers \subseteq Threads
    BY DEF IInv, TypeOK
  <2> QED BY <1>1, <2>1, <2>2, <2>3
<1>5. startup' \in [Threads -> {"no", "doing", "done"}]
  BY <1>1, StartupTyped
<1> HIDE DEF pr
<1>6. Head(rest[t]).op # "WORK"
  BY <1>1
<1>7. UNCHANGED <<input, now, cpuVars, lastQuantum, cpuTime, spinning, finished, gathered,
                  receivers>>
  BY <1>1
<1> QED BY <1>1, <1>2, <1>3, <1>4, <1>5, <1>6, <1>7, GoOnKeeps

\* t blocks, ends, or waits on its CPU.
LEMMA LeavesKeeps ==
    ASSUME IInv, NEW t \in Threads, phase = <<"op", t>>, phase' = <<"dispatch">>,
           UNCHANGED <<input, now, reloadDone, ready, context, cpuOf, switching, rest,
                       lastQuantum, cpuTime, mail>>,
           on' \in {on, [on EXCEPT ![cpuOf[t]] = t]},
           loose' \in {loose, [loose EXCEPT ![t] = TRUE]},
           spinning' \in [Threads -> BOOLEAN], finished' \in [Threads -> Nat],
           startup' \in [Threads -> {"no", "doing", "done"}],
           receivers' \subseteq Threads,
           gathered' \in Seq(Threads), Once(gathered'),
           ParamsFit(params'), OthersKeep(params', params, t),
           \E p \in Places : AtPlace(t, p)', FlagsOf(t)', CallsOf(t)',
           \A u \in Threads \ {t} :
               /\ spinning'[u] = spinning[u] /\ finished'[u] = finished[u]
               /\ u \in ToSet(gathered') <=> u \in ToSet(gathered)
               /\ u \in receivers' <=> u \in receivers,
           events' \in Seq(EventSet), OnTime(events', now), TimerInv', MailInv'
    PROVE  IInv'
<1>1. /\ phase[1] = "op" /\ phase[2] = t /\ InHand(phase) = {t} /\ ~OnCpu(t)
      /\ t \notin ToSet(ready)
      /\ cpuOf[t] \in Cpus /\ on[cpuOf[t]] = None /\ context[cpuOf[t]] = t
      /\ reloadDone \/ ready = <<>> \/ FreeAtMostOne
      /\ InTurns => \A i \in DOMAIN ready : loose[ready[i]]
      /\ ~InTurns => InOrder(ready, OrderKey(params))
  BY OpIs
<1>2. /\ conf' = conf /\ now' = now /\ reloadDone' = reloadDone /\ ready' = ready
      /\ context' = context /\ cpuOf' = cpuOf /\ switching' = switching /\ rest' = rest
      /\ lastQuantum' = lastQuantum /\ cpuTime' = cpuTime /\ mail' = mail
  BY DEF input
<1>3. phase' \in Phases /\ phase'[1] = "dispatch" /\ InHand(phase') = {}
  BY PhaseIs
<1>4. /\ on \in [Cpus -> Threads \cup {None}] /\ on' \in [Cpus -> Threads \cup {None}]
      /\ \A c \in Cpus : on'[c] = on[c] \/ (c = cpuOf[t] /\ on'[c] = t)
      /\ \A u \in Threads : u # None
  <2>1. on \in [Cpus -> Threads \cup {None}]
    BY DEF IInv, TypeOK
  <2>2. \A u \in Threads : u # None
    BY DEF Threads, None
  <2>3. CASE on' = on
    BY <2>1, <2>2, <2>3
  <2>4. CASE on' = [on EXCEPT ![cpuOf[t]] = t]
    BY <1>1, <2>1, <2>2, <2>4
  <2> QED BY <2>3, <2>4
<1>5. \A u \in Threads \ {t} : OnCpu(u)' <=> OnCpu(u)
  <2>1. ASSUME NEW u \in Threads, u # t, NEW c \in Cpus
        PROVE  on'[c] = u <=> on[c] = u
    BY <1>1, <1>4, <2>1
  <2> QED BY <2>1 DEF OnCpu
<1>6. Free' \subseteq Free
  BY <1>4 DEF Free
<1>7. OthersStay({t})
  BY <1>1, <1>2, <1>3, <1>5 DEF OthersStay
<1>9. /\ InputInv' /\ PlaceInv' /\ FlagInv' /\ CpuTimeConserved'
      /\ \A u \in Threads : CallsOf(u)'
  <2>1. cpuTime'[t] + BurstsOf(rest'[t]) = cpuTime[t] + BurstsOf(rest[t])
    BY <1>2
  <2> QED BY <1>7, <2>1, StayIs
<1>10. TypeOK'
  <2>2. loose' \in [Threads -> BOOLEAN]
    BY DEF IInv, TypeOK
  <2>3. params' \in [Threads -> [prio : Int, full : BOOLEAN, forces : BOOLEAN, task : Nat]]
    BY DEF ParamsFit, ThreadParams
  <2>4. events' \in Seq([at : Nat, module : {"SCH", "COM", "GOP"}, th : Threads])
    BY DEF EventSet
  <2>5. /\ now \in Nat /\ reloadDone \in BOOLEAN /\ ready \in Seq(Threads)
        /\ context \in [Cpus -> Threads \cup {None}] /\ cpuOf \in [Threads -> Cpus \cup {None}]
        /\ switching \in [Threads -> BOOLEAN] /\ rest \in [Threads -> Seq(Actions)]
        /\ lastQuantum \in [Threads -> Nat] /\ mail \in [Threads -> Nat]
        /\ cpuTime \in [Threads -> Int]
    BY DEF IInv, TypeOK
  <2> QED BY <1>2, <1>3, <1>4, <2>2, <2>3, <2>4, <2>5 DEF TypeOK
<1>12. ParamsInv'
  BY <1>2 DEF ParamsInv, ParamsFit
<1>14. OnceInv'
  BY <1>2, <1>3 DEF IInv, OnceInv
<1>15. CpuInv'
  BY <1>1, <1>2, <1>3, <1>4 DEF IInv, CpuInv
<1>17. CallInv'
  BY <1>3, <1>9 DEF CallInv
<1>19. TimeForward'
  BY <1>2, TimeKept DEF IInv, TypeOK
<1>21. DispatchInv'
  BY <1>1, <1>2, <1>3, <1>6 DEF DispatchInv, FreeAtMostOne
<1>22. TurnInv'
  <2>1. CASE InTurns
    <3>1. ASSUME NEW i \in DOMAIN ready' PROVE loose'[ready'[i]]
      <4>1. i \in DOMAIN ready /\ ready'[i] = ready[i] /\ loose[ready[i]]
        BY <1>1, <1>2, <2>1
      <4>2. ready[i] \in Threads /\ loose \in [Threads -> BOOLEAN]
        <5>1. ready \in Seq(Threads) /\ loose \in [Threads -> BOOLEAN]
          BY DEF IInv, TypeOK
        <5> QED BY <4>1, <5>1
      <4> QED BY <4>1, <4>2
    <3> QED BY <1>2, <2>1, <3>1 DEF TurnInv, InTurns
  <2>2. CASE ~InTurns
    <3>1. OrderKey(params)' = OrderKey(params')
      BY <1>2 DEF OrderKey, Order
    <3>3. InOrder(ready, OrderKey(params'))
      BY <1>1, <2>2, OrderKept DEF IInv
    <3> QED BY <1>2, <2>2, <3>1, <3>3 DEF TurnInv, InTurns, InOrder
  <2> QED BY <2>1, <2>2
<1>24. NoIdleCpu' /\ NeverPanics'
  BY <1>3, PhaseIs DEF NoIdleCpu, Idle, NeverPanics
<1> QED BY <1>9, <1>10, <1>12, <1>14, <1>15, <1>17, <1>19, <1>21, <1>22, <1>24
        DEF IInv

LEMMA FinishKeeps == ASSUME IInv, NEW t \in Threads, Finish(t) PROVE IInv'
<1>1. /\ phase = <<"op", t>> /\ rest[t] = <<>>
      /\ finished' = [finished EXCEPT ![t] = @ + 1] /\ phase' = <<"dispatch">>
      /\ input' = input /\ now' = now /\ events' = events /\ reloadDone' = reloadDone
      /\ ready' = ready /\ on' = on /\ context' = context /\ cpuOf' = cpuOf
      /\ switching' = switching /\ rest' = rest /\ loose' = loose
      /\ lastQuantum' = lastQuantum /\ cpuTime' = cpuTime /\ params' = params
      /\ spinning' = spinning /\ startup' = startup /\ gathered' = gathered
      /\ receivers' = receivers /\ mail' = mail
  BY DEF Finish, cpuVars, runVars, comVars
<1>2. /\ ~OnCpu(t) /\ t \notin ToSet(ready) /\ t \notin ToSet(gathered)
      /\ t \notin receivers /\ finished[t] = 0 /\ ~switching[t] /\ ~spinning[t]
  BY <1>1, OpIs
<1>3. /\ finished \in [Threads -> Nat] /\ spinning \in [Threads -> BOOLEAN]
      /\ startup \in [Threads -> {"no", "doing", "done"}] /\ receivers \subseteq Threads
      /\ gathered \in Seq(Threads) /\ Once(gathered)
  BY DEF IInv, TypeOK, OnceInv
<1>4. /\ finished' \in [Threads -> Nat] /\ finished'[t] = 1
      /\ \A u \in Threads \ {t} : finished'[u] = finished[u]
  BY <1>1, <1>2, <1>3
<1>5. phase'[1] = "dispatch" /\ InHand(phase') = {}
  BY <1>1, PhaseIs
<1>6. \A u \in Threads : OnCpu(u)' <=> OnCpu(u)
  BY <1>1 DEF OnCpu
<1>7. AtPlace(t, "finished")' /\ "finished" \in Places
  BY <1>1, <1>2, <1>4, <1>5, <1>6 DEF AtPlace, One, Places
<1>8. FlagsOf(t)'
  BY <1>1, <1>2 DEF FlagsOf
<1>9. CallsOf(t)'
  BY <1>1, <1>2, <1>5 DEF CallsOf, NextCall
<1>10. ParamsFit(params') /\ OthersKeep(params', params, t)
  BY <1>1 DEF IInv, ParamsInv, OthersKeep
<1>11. events' \in Seq(EventSet) /\ OnTime(events', now)
  BY <1>1, EventsAre DEF IInv
<1>12. TimerInv'
  BY <1>1, <1>6 DEF IInv, TimerInv
<1>13. MailInv'
  BY <1>1 DEF IInv, MailInv, input
<1> QED BY <1>1, <1>3, <1>4, <1>7, <1>8, <1>9, <1>10, <1>11, <1>12, <1>13, LeavesKeeps

LEMMA GatheredIs ==
    ASSUME IInv, NEW t \in Threads, t \notin ToSet(gathered)
    PROVE  /\ Append(gathered, t) \in Seq(Threads) /\ Once(Append(gathered, t))
           /\ Append(gathered, t) # <<>>
           /\ ToSet(Append(gathered, t)) = ToSet(gathered) \cup {t}
           /\ Len(Append(gathered, t)) = Len(gathered) + 1
           /\ Len(gathered) \in Nat /\ Len(gathered) < NThreads
<1> DEFINE q == Append(gathered, t)
<1>1. gathered \in Seq(Threads) /\ Once(gathered)
  BY DEF IInv, TypeOK, OnceInv
<1>2. /\ q \in Seq(Threads) /\ Once(q) /\ ToSet(q) = ToSet(gathered) \cup {t}
      /\ Len(q) = Len(gathered) + 1 /\ Len(gathered) \in Nat
      /\ DOMAIN q = 1 .. Len(q)
  BY <1>1, AppendPositions, AppendElements, AppendOnce
<1> HIDE DEF q
<1>3. Len(q) <= NThreads
  <2>1. IsFiniteSet(Threads) /\ Cardinality(Threads) = NThreads
    BY SizesAssumption, UpTo DEF Threads
  <2>2. q \in [1 .. Len(q) -> Threads] /\ Len(q) \in Nat
        /\ \A i, j \in 1 .. Len(q) : q[i] = q[j] => i = j
    BY <1>2 DEF Once
  <2> QED BY <2>1, <2>2, FullQueue
<1>4. Len(gathered) < NThreads /\ q # <<>>
  BY <1>2, <1>3, SizesAssumption
<1> QED BY <1>2, <1>4 DEF q

LEMMA GlobalOperationKeeps == ASSUME IInv, NEW t \in Threads, GlobalOperation(t) PROVE IInv'
<1> DEFINE e == Timer(now + Flight, "GOP", t)
<1>1. /\ phase = <<"op", t>> /\ rest[t] # <<>> /\ Head(rest[t]).op = "GLOBAL"
      /\ gathered' = Append(gathered, t)
      /\ events' = (IF Len(gathered') < NThreads THEN events ELSE InsertEvent(events, e))
      /\ phase' = <<"dispatch">>
      /\ input' = input /\ now' = now /\ reloadDone' = reloadDone
      /\ ready' = ready /\ on' = on /\ context' = context /\ cpuOf' = cpuOf
      /\ switching' = switching /\ rest' = rest /\ loose' = loose
      /\ lastQuantum' = lastQuantum /\ cpuTime' = cpuTime /\ params' = params
      /\ spinning' = spinning /\ startup' = startup /\ finished' = finished
      /\ receivers' = receivers /\ mail' = mail
  BY DEF GlobalOperation, NextOp, cpuVars, runVars
<1>2. /\ ~OnCpu(t) /\ t \notin ToSet(ready) /\ t \notin ToSet(gathered)
      /\ t \notin receivers /\ finished[t] = 0 /\ ~switching[t] /\ ~spinning[t]
  BY <1>1, OpIs
<1>3. /\ finished \in [Threads -> Nat] /\ spinning \in [Threads -> BOOLEAN]
      /\ startup \in [Threads -> {"no", "doing", "done"}] /\ receivers \subseteq Threads
  BY DEF IInv, TypeOK
<1>4. /\ gathered' \in Seq(Threads) /\ Once(gathered') /\ gathered' # <<>>
      /\ ToSet(gathered') = ToSet(gathered) \cup {t}
      /\ Len(gathered') = Len(gathered) + 1 /\ Len(gathered) \in Nat /\ Len(gathered) < NThreads
  BY <1>1, <1>2, GatheredIs
<1>5. phase'[1] = "dispatch" /\ InHand(phase') = {}
  BY <1>1, PhaseIs
<1>6. \A u \in Threads : OnCpu(u)' <=> OnCpu(u)
  BY <1>1 DEF OnCpu
<1>7. AtPlace(t, "gathered")' /\ "gathered" \in Places
  BY <1>1, <1>2, <1>4, <1>5, <1>6 DEF AtPlace, One, Places
<1>8. FlagsOf(t)'
  BY <1>1, <1>2 DEF FlagsOf
<1>9. CallsOf(t)'
  BY <1>1, <1>2, <1>5 DEF CallsOf, NextCall
<1>10. ParamsFit(params') /\ OthersKeep(params', params, t)
  BY <1>1 DEF IInv, ParamsInv, OthersKeep
<1>11. /\ events \in Seq(EventSet) /\ now \in Nat /\ OnTime(events, now) /\ TimerOnce(events)
       /\ None \notin TimerKeys(events)
       /\ \A u \in Threads : u \in TimerKeys(events) <=> OnCpu(u)
  BY <1>4, EventsAre, SizesAssumption DEF IInv, TimerInv
<1>12. events' \in Seq(EventSet) /\ OnTime(events', now) /\ TimerInv'
  <2>1. CASE Len(gathered') < NThreads
    <3>1. events' = events
      BY <1>1, <2>1
    <3> QED BY <1>6, <1>11, <2>1, <3>1 DEF TimerInv
  <2>2. CASE ~(Len(gathered') < NThreads)
    <3>1. e \in EventSet /\ TimerKey(e) = None /\ now <= e.at
      BY <1>11, TimesAssumption DEF Timer, EventSet, TimerKey
    <3>2. events' = InsertEvent(events, e)
      BY <1>1, <2>2
    <3> HIDE DEF e
    <3>3. {TimerKey(e)} \ {-1} = {None}
      BY <3>1 DEF None
    <3>4. /\ events' \in Seq(EventSet) /\ OnTime(events', now) /\ TimerOnce(events')
          /\ TimerKeys(events') = TimerKeys(events) \cup {None}
      BY <1>11, <3>1, <3>2, <3>3, InsertEventIs
    <3>5. Len(gathered') = NThreads
      BY <1>4, <2>2, SizesAssumption
    <3>6. \A u \in Threads : u # None
      BY DEF Threads, None
    <3>7. \A u \in Threads : u \in TimerKeys(events') <=> OnCpu(u)'
      BY <1>6, <1>11, <3>4, <3>6
    <3> QED BY <1>4, <3>4, <3>5, <3>7 DEF TimerInv
  <2> QED BY <2>1, <2>2
<1>13. MailInv'
  BY <1>1 DEF IInv, MailInv, input
<1>14. \A u \in Threads \ {t} : /\ spinning'[u] = spinning[u] /\ finished'[u] = finished[u]
                                /\ u \in ToSet(gathered') <=> u \in ToSet(gathered)
                                /\ u \in receivers' <=> u \in receivers
  BY <1>1, <1>4
<1>15. finished' \in [Threads -> Nat] /\ spinning' \in [Threads -> BOOLEAN]
       /\ startup' \in [Threads -> {"no", "doing", "done"}] /\ receivers' \subseteq Threads
  BY <1>1, <1>3
<1> QED BY <1>1, <1>4, <1>7, <1>8, <1>9, <1>10, <1>12, <1>13, <1>14, <1>15, LeavesKeeps

LEMMA RecvWaitsKeeps == ASSUME IInv, NEW t \in Threads, RecvWaits(t) PROVE IInv'
<1> DEFINE e == Timer(now + conf.switch, "SCH", t)
<1>1. /\ phase = <<"op", t>> /\ rest[t] # <<>> /\ Head(rest[t]).op = "RECV" /\ StartupDone(t)
      /\ mail[t] = 0
      /\ params' = SchedulerInfo("first", t)
      /\ phase' = <<"dispatch">>
      /\ input' = input /\ now' = now /\ reloadDone' = reloadDone
      /\ ready' = ready /\ context' = context /\ cpuOf' = cpuOf
      /\ switching' = switching /\ rest' = rest
      /\ lastQuantum' = lastQuantum /\ cpuTime' = cpuTime
      /\ finished' = finished /\ gathered' = gathered /\ mail' = mail
  BY DEF RecvWaits, NextOp
<1>2. /\ ~OnCpu(t) /\ t \notin ToSet(ready) /\ t \notin ToSet(gathered)
      /\ t \notin receivers /\ finished[t] = 0 /\ ~switching[t] /\ ~spinning[t]
      /\ cpuOf[t] \in Cpus /\ on[cpuOf[t]] = None
  BY <1>1, OpIs
<1>3. /\ finished \in [Threads -> Nat] /\ spinning \in [Threads -> BOOLEAN]
      /\ loose \in [Threads -> BOOLEAN] /\ on \in [Cpus -> Threads \cup {None}]
      /\ receivers \subseteq Threads
      /\ gathered \in Seq(Threads) /\ Once(gathered)
  BY DEF IInv, TypeOK, OnceInv
<1>5. phase'[1] = "dispatch" /\ InHand(phase') = {}
  BY <1>1, PhaseIs
<1>9. NextCall(rest[t]) = "RECV"
  BY <1>1 DEF NextCall
<1>10. ParamsFit(params') /\ OthersKeep(params', params, t)
  BY <1>1, SchedulerInfoIs DEF IInv, InputInv
<1>11. /\ events \in Seq(EventSet) /\ now \in Nat /\ OnTime(events, now) /\ TimerOnce(events)
       /\ \A u \in Threads : u \in TimerKeys(events) <=> OnCpu(u)
       /\ None \in TimerKeys(events) <=> gathered # <<>> /\ Len(gathered) = NThreads
       /\ conf \in ConfigSet /\ conf' = conf
  BY <1>1, EventsAre DEF IInv, TimerInv, InputInv, input
<1>15. startup' \in [Threads -> {"no", "doing", "done"}]
  BY <1>1, StartupTyped
<1>16. CASE conf.busy
  <2>1. /\ on' = [on EXCEPT ![cpuOf[t]] = t]
        /\ spinning' = [spinning EXCEPT ![t] = TRUE]
        /\ events' = InsertEvent(events, e)
        /\ loose' = [loose EXCEPT ![t] = TRUE]
        /\ receivers' = receivers
    BY <1>16 DEF RecvWaits
  <2>2. OnCpu(t)'
    BY <1>2, <1>3, <2>1 DEF OnCpu
  <2>3. AtPlace(t, "cpu")' /\ "cpu" \in Places
    BY <1>1, <1>2, <1>5, <2>1, <2>2 DEF AtPlace, One, Places
  <2>4. /\ spinning' \in [Threads -> BOOLEAN] /\ spinning'[t]
        /\ \A u \in Threads \ {t} : spinning'[u] = spinning[u]
    BY <1>3, <2>1
  <2>5. FlagsOf(t)'
    BY <1>1, <1>2, <1>11, <1>16, <2>2 DEF FlagsOf
  <2>6. CallsOf(t)'
    BY <1>1, <1>2, <1>5, <1>9, <2>1 DEF CallsOf
  <2>7. events' \in Seq(EventSet) /\ OnTime(events', now) /\ TimerInv'
    <3>0. conf.switch \in Nat
      BY <1>11, ConfIs
    <3>1. e \in EventSet /\ TimerKey(e) = t /\ now <= e.at
      BY <1>11, <3>0 DEF Timer, EventSet, TimerKey
    <3> HIDE DEF e
    <3>2. TimerKey(e) \notin TimerKeys(events)
      BY <1>2, <1>11, <3>1
    <3>3. {TimerKey(e)} \ {-1} = {t} /\ t # None
      BY <3>1 DEF Threads, None
    <3>4. /\ events' \in Seq(EventSet) /\ OnTime(events', now) /\ TimerOnce(events')
          /\ TimerKeys(events') = TimerKeys(events) \cup {t}
      BY <1>11, <2>1, <3>1, <3>2, <3>3, InsertEventIs
    <3>5. \A u \in Threads \ {t} : OnCpu(u)' <=> OnCpu(u)
      <4>1. ASSUME NEW u \in Threads, u # t, NEW c \in Cpus PROVE on'[c] = u <=> on[c] = u
        <5>1. u # None
          BY DEF Threads, None
        <5> QED BY <1>2, <1>3, <2>1, <4>1, <5>1
      <4> QED BY <4>1 DEF OnCpu
    <3>6. \A u \in Threads : u \in TimerKeys(events') <=> OnCpu(u)'
      BY <1>11, <2>2, <3>4, <3>5
    <3> QED BY <1>1, <1>11, <3>3, <3>4, <3>6 DEF TimerInv
  <2>8. MailInv'
    BY <1>11, <1>16 DEF MailInv
  <2>9. \A u \in Threads \ {t} : /\ spinning'[u] = spinning[u] /\ finished'[u] = finished[u]
                                 /\ u \in ToSet(gathered') <=> u \in ToSet(gathered)
                                 /\ u \in receivers' <=> u \in receivers
    BY <1>1, <2>1, <2>4
  <2> QED BY <1>1, <1>3, <1>10, <1>15, <2>1, <2>3, <2>4, <2>5, <2>6, <2>7, <2>8, <2>9, LeavesKeeps
<1>17. CASE ~conf.busy
  <2>1. /\ receivers' = receivers \cup {t}
        /\ on' = on /\ spinning' = spinning /\ events' = events /\ loose' = loose
    BY <1>17 DEF RecvWaits
  <2>2. \A u \in Threads : OnCpu(u)' <=> OnCpu(u)
    BY <2>1 DEF OnCpu
  <2>3. AtPlace(t, "receiving")' /\ "receiving" \in Places
    BY <1>1, <1>2, <1>5, <2>1, <2>2 DEF AtPlace, One, Places
  <2>5. FlagsOf(t)'
    BY <1>1, <1>2, <2>1 DEF FlagsOf
  <2>6. CallsOf(t)'
    BY <1>1, <1>2, <1>5, <1>9, <2>1 DEF CallsOf
  <2>7. events' \in Seq(EventSet) /\ OnTime(events', now) /\ TimerInv'
    BY <1>1, <1>11, <2>1, <2>2 DEF TimerInv
  <2>8. MailInv'
    BY <1>1, <1>11, <2>1 DEF IInv, MailInv
  <2>9. \A u \in Threads \ {t} : /\ spinning'[u] = spinning[u] /\ finished'[u] = finished[u]
                                 /\ u \in ToSet(gathered') <=> u \in ToSet(gathered)
                                 /\ u \in receivers' <=> u \in receivers
    BY <1>1, <2>1
  <2>10. receivers' \subseteq Threads /\ spinning' \in [Threads -> BOOLEAN]
    BY <1>3, <2>1
  <2> QED BY <1>1, <1>3, <1>10, <1>15, <2>1, <2>3, <2>5, <2>6, <2>7, <2>8, <2>9, <2>10, LeavesKeeps
<1> QED BY <1>16, <1>17

LEMMA OperationKeeps == ASSUME IInv, NEW t \in Threads, Operation(t) PROVE IInv'
  BY FinishKeeps, BurstKeeps, EventKeeps, GlobalOperationKeeps, SpendStartupKeeps, SendKeeps,
     RecvArrivedKeeps, RecvWaitsKeeps DEF Operation

-----------------------------------------------------------------------------
(* Threads go to CPUs                                                      *)

\* t is taken from where it waits for a CPU, and the handler goes on.
Leaving(t) ==
    /\ ~OnCpu(t) /\ t \notin ToSet(gathered) /\ t \notin receivers /\ finished[t] = 0
    /\ ready' \in Seq(Threads) /\ Once(ready') /\ ToSet(ready') = ToSet(ready) \ {t}
    /\ phase' \in Phases /\ phase'[1] \in {"boot", "reload", "newjob", "wake"}
    /\ InHand(phase') = InHand(phase) \ {t}
    /\ phase'[1] = "wake" =>
           phase[1] \in {"wake", "run"} /\ phase'[2] # <<>> /\ Once(phase'[2])
    /\ InTurns => \A i \in DOMAIN ready' : loose[ready'[i]]
    /\ ~InTurns => InOrder(ready', OrderKey(params))
    /\ reloadDone' \in BOOLEAN /\ (reloadDone' \/ ready' = <<>> \/ FreeAtMostOne)
    /\ phase'[1] = "boot" => reloadDone'
    /\ phase'[1] = "newjob" => FreeAtMostOne

\* Only the accounts of t change.
LEMMA RanIs ==
    ASSUME TypeOK, NEW t \in Threads, NEW q, NEW at, Ran(t, q, at)
    PROVE  /\ rest' \in [Threads -> Seq(Actions)] /\ \A u \in Threads : u # t => rest'[u] = rest[u]
           /\ lastQuantum' \in [Threads -> Nat]
           /\ ParamsFit(params') /\ \A u \in Threads : params'[u].prio = params[u].prio
           /\ cpuTime' \in [Threads -> Int]
           /\ loose' = [loose EXCEPT ![t] = TRUE]
           /\ cpuTime'[t] + BurstsOf(rest'[t]) = cpuTime[t] + BurstsOf(rest[t])
           /\ \A u \in Threads : u # t => cpuTime'[u] = cpuTime[u]
<1>1. ASSUME NEW u \in Threads, u # t PROVE cpuTime'[u] = cpuTime[u]
  <2>1. cpuTime'[u] + BurstsOf(rest'[u]) = cpuTime[u] + BurstsOf(rest[u]) /\ rest'[u] = rest[u]
    BY <1>1 DEF Ran
  <2>2. cpuTime[u] \in Int /\ cpuTime'[u] \in Int /\ rest[u] \in Seq(Actions)
    BY DEF Ran, TypeOK
  <2>3. BurstsOf(rest[u]) \in Nat
    BY <2>2, BurstsTyped
  <2> QED BY <2>1, <2>2, <2>3
<1> QED BY <1>1 DEF Ran

LEMMA PutOnKeeps ==
    ASSUME IInv, NEW t \in Threads, Leaving(t), Free # {}, NextCall(rest[t]) = "WORK",
           PutThreadOnRun(t),
           UNCHANGED <<input, now, spinning, startup, finished, gathered, receivers, mail>>
    PROVE  IInv'
<1>1. /\ Ran(t, events, now)
      /\ \E c \in Free : /\ on' = [on EXCEPT ![c] = t]
                         /\ context' = [context EXCEPT ![c] = t]
                         /\ cpuOf' = [cpuOf EXCEPT ![t] = c]
                         /\ \A d \in Free : context[d] = t => context[c] = t
      /\ IF conf.switch # 0 THEN switching' = [switching EXCEPT ![t] = TRUE] /\ rest' = rest
                            ELSE switching' = switching
  BY PutOnRunIs DEF IInv
<1>2. PICK c \in Free : /\ on' = [on EXCEPT ![c] = t]
                        /\ context' = [context EXCEPT ![c] = t]
                        /\ cpuOf' = [cpuOf EXCEPT ![t] = c]
                        /\ \A d \in Free : context[d] = t => context[c] = t
  BY <1>1
<1>3. c \in Cpus /\ on[c] = None /\ t # None
  BY DEF Free, Threads, None
<1>4. /\ on \in [Cpus -> Threads \cup {None}] /\ context \in [Cpus -> Threads \cup {None}]
      /\ cpuOf \in [Threads -> Cpus \cup {None}] /\ switching \in [Threads -> BOOLEAN]
      /\ loose \in [Threads -> BOOLEAN] /\ now \in Nat
  BY DEF IInv, TypeOK
<1>5. /\ on' \in [Cpus -> Threads \cup {None}] /\ on'[c] = t
      /\ \A d \in Cpus : d # c => on'[d] = on[d]
      /\ context' \in [Cpus -> Threads \cup {None}] /\ context'[c] = t
      /\ \A d \in Cpus : d # c => context'[d] = context[d]
      /\ cpuOf' \in [Threads -> Cpus \cup {None}] /\ cpuOf'[t] = c
      /\ \A u \in Threads : u # t => cpuOf'[u] = cpuOf[u]
  BY <1>2, <1>3, <1>4
<1>6. /\ switching' \in [Threads -> BOOLEAN]
      /\ \A u \in Threads : u # t => switching'[u] = switching[u]
  BY <1>1, <1>4
<1>7. /\ ~OnCpu(t) /\ t \notin ToSet(gathered) /\ t \notin receivers /\ finished[t] = 0
      /\ ready' \in Seq(Threads) /\ Once(ready') /\ ToSet(ready') = ToSet(ready) \ {t}
      /\ phase' \in Phases /\ phase'[1] \in {"boot", "reload", "newjob", "wake"}
      /\ InHand(phase') = InHand(phase) \ {t}
      /\ phase'[1] = "wake" => phase[1] \in {"wake", "run"} /\ phase'[2] # <<>> /\ Once(phase'[2])
      /\ reloadDone' \in BOOLEAN
  BY DEF Leaving
<1>8. /\ conf' = conf /\ now' = now /\ spinning' = spinning /\ startup' = startup
      /\ finished' = finished /\ gathered' = gathered /\ receivers' = receivers /\ mail' = mail
  BY DEF input
<1>9. /\ OnCpu(t)' /\ \A u \in Threads : u # t => (OnCpu(u)' <=> OnCpu(u))
  <2>1. ASSUME NEW u \in Threads, u # t, NEW d \in Cpus PROVE on'[d] = u <=> on[d] = u
    <3>1. u # None
      BY DEF Threads, None
    <3> QED BY <1>3, <1>5, <2>1, <3>1
  <2> QED BY <1>3, <1>5, <2>1 DEF OnCpu
<1>10. Free' = Free \ {c}
  <2>1. \A d \in Cpus : on'[d] = None <=> on[d] = None /\ d # c
    BY <1>3, <1>5
  <2> QED BY <2>1 DEF Free
<1>11. /\ rest' \in [Threads -> Seq(Actions)] /\ \A u \in Threads : u # t => rest'[u] = rest[u]
       /\ lastQuantum' \in [Threads -> Nat]
       /\ ParamsFit(params') /\ \A u \in Threads : params'[u].prio = params[u].prio
       /\ cpuTime' \in [Threads -> Int]
       /\ loose' = [loose EXCEPT ![t] = TRUE]
       /\ cpuTime'[t] + BurstsOf(rest'[t]) = cpuTime[t] + BurstsOf(rest[t])
       /\ \A u \in Threads : u # t => cpuTime'[u] = cpuTime[u]
  BY <1>1, RanIs DEF IInv
<1>12. OthersStay({t})
  BY <1>6, <1>7, <1>8, <1>9, <1>11 DEF OthersStay
<1>13. FlagsOf(t)
  BY DEF IInv, FlagInv
<1>14. AtPlace(t, "cpu")' /\ "cpu" \in Places
  BY <1>7, <1>8, <1>9 DEF AtPlace, One, Places
<1>15. FlagsOf(t)'
  <2>1. ~spinning[t]
    BY <1>7, <1>13 DEF FlagsOf
  <2>2. conf.switch = 0 => ~switching'[t]
    BY <1>1, <1>13 DEF FlagsOf
  <2> QED BY <1>8, <1>9, <2>1, <2>2 DEF FlagsOf
<1>16. CallsOf(t)'
  <2>1. ~spinning[t]
    BY <1>7, <1>13 DEF FlagsOf
  <2>2. switching'[t] => rest' = rest
    BY <1>1, <1>13 DEF FlagsOf
  <2> QED BY <1>7, <1>8, <2>1, <2>2 DEF CallsOf
<1>17. /\ InputInv' /\ PlaceInv' /\ FlagInv' /\ CpuTimeConserved'
       /\ \A u \in Threads : CallsOf(u)'
  BY <1>11, <1>12, <1>14, <1>15, <1>16, StayIs
<1>18. PICK e \in EventSet : e.module = "SCH" /\ e.th = t /\ now <= e.at
                             /\ events' = InsertEvent(events, e)
  BY <1>1 DEF Ran
<1>19. events' \in Seq(EventSet) /\ OnTime(events', now) /\ TimerInv'
  <2>1. /\ events \in Seq(EventSet) /\ OnTime(events, now) /\ TimerOnce(events)
        /\ \A u \in Threads : u \in TimerKeys(events) <=> OnCpu(u)
        /\ None \in TimerKeys(events) <=> gathered # <<>> /\ Len(gathered) = NThreads
    BY EventsAre DEF IInv, TimerInv
  <2>2. TimerKey(e) = t
    BY <1>18 DEF TimerKey
  <2>3. TimerKey(e) \notin TimerKeys(events)
    BY <1>7, <2>1, <2>2
  <2>4. {TimerKey(e)} \ {-1} = {t}
    BY <2>2 DEF Threads
  <2>5. /\ events' \in Seq(EventSet) /\ OnTime(events', now) /\ TimerOnce(events')
        /\ TimerKeys(events') = TimerKeys(events) \cup {t}
    BY <1>18, <2>1, <2>3, <2>4, InsertEventIs
  <2>6. \A u \in Threads : u \in TimerKeys(events') <=> OnCpu(u)'
    BY <1>9, <2>1, <2>5
  <2> QED BY <1>3, <1>8, <2>1, <2>5, <2>6 DEF TimerInv
<1>20. TypeOK'
  <2>1. loose' \in [Threads -> BOOLEAN]
    BY <1>4, <1>11
  <2>2. params' \in [Threads -> [prio : Int, full : BOOLEAN, forces : BOOLEAN, task : Nat]]
    BY <1>11 DEF ParamsFit, ThreadParams
  <2>3. events' \in Seq([at : Nat, module : {"SCH", "COM", "GOP"}, th : Threads])
    BY <1>19 DEF EventSet
  <2>4. /\ spinning \in [Threads -> BOOLEAN] /\ startup \in [Threads -> {"no", "doing", "done"}]
        /\ finished \in [Threads -> Nat] /\ gathered \in Seq(Threads)
        /\ receivers \subseteq Threads /\ mail \in [Threads -> Nat]
    BY DEF IInv, TypeOK
  <2> QED BY <1>4, <1>5, <1>6, <1>7, <1>8, <1>11, <2>1, <2>2, <2>3, <2>4 DEF TypeOK
<1>21. ParamsInv'
  BY <1>8, <1>11 DEF ParamsInv, ParamsFit
<1>22. OnceInv'
  BY <1>7, <1>8 DEF IInv, OnceInv
<1>23. CpuInv'
  <2>1. ASSUME NEW d \in Cpus, on'[d] # None PROVE context'[d] = on'[d]
    BY <1>5, <2>1 DEF IInv, CpuInv
  <2>2. ASSUME NEW d \in Cpus, context'[d] # None PROVE cpuOf'[context'[d]] = d
    <3>1. CASE d = c
      BY <1>5, <3>1
    <3>2. CASE d # c /\ context[d] = t
      <4>1. on[d] = None
        BY <1>7, <3>2 DEF IInv, CpuInv, OnCpu
      <4>2. context[c] = t
        BY <1>2, <3>2, <4>1 DEF Free
      <4>3. cpuOf[t] = d /\ cpuOf[t] = c
        BY <1>3, <3>2, <4>2 DEF IInv, CpuInv
      <4> QED BY <3>2, <4>3
    <3>3. CASE d # c /\ context[d] # t
      <4>1. context'[d] = context[d] /\ context[d] \in Threads
        BY <1>4, <1>5, <2>2, <3>3
      <4>2. cpuOf[context[d]] = d
        BY <1>5, <2>2, <3>3 DEF IInv, CpuInv
      <4> QED BY <1>5, <3>3, <4>1, <4>2
    <3> QED BY <3>1, <3>2, <3>3
  <2> QED BY <1>7, <2>1, <2>2 DEF CpuInv
<1>24. CallInv'
  BY <1>7, <1>17 DEF CallInv
<1>25. TimeForward'
  BY <1>4, <1>8, <1>19, TimeKept
<1>26. MailInv'
  BY <1>8 DEF IInv, MailInv
<1>27. DispatchInv'
  <2>1. FreeAtMostOne => Free' = {}
    BY <1>10 DEF FreeAtMostOne
  <2>2. /\ reloadDone' \/ ready' = <<>> \/ Free' = {}
        /\ phase'[1] = "boot" => reloadDone'
        /\ phase'[1] = "newjob" => Free' = {}
    BY <2>1 DEF Leaving
  <2>3. FreeAtMostOne' <=> \A d, f \in Free' : d = f
    BY DEF FreeAtMostOne
  <2> QED BY <1>7, <2>2, <2>3 DEF DispatchInv
<1>28. TurnInv'
  <2>1. CASE InTurns
    <3>1. ASSUME NEW i \in DOMAIN ready' PROVE loose'[ready'[i]]
      <4>1. loose[ready'[i]] /\ ready'[i] \in Threads
        BY <1>7, <2>1 DEF Leaving
      <4> QED BY <1>4, <1>11, <4>1
    <3> QED BY <1>8, <2>1, <3>1 DEF TurnInv, InTurns
  <2>2. CASE ~InTurns
    <3>1. OrderKey(params)' = OrderKey(params')
      BY <1>8 DEF OrderKey, Order
    <3>2. InOrder(ready', OrderKey(params))
      BY <2>2 DEF Leaving
    <3>3. ToSet(ready') \subseteq Threads
      BY <1>7, ElementsTyped
    <3>4. InOrder(ready', OrderKey(params'))
      BY <1>7, <1>11, <3>2, <3>3, PriosKept
    <3> QED BY <1>8, <2>2, <3>1, <3>4 DEF TurnInv, InTurns, InOrder
  <2> QED BY <2>1, <2>2
<1>29. NoIdleCpu' /\ NeverPanics'
  BY <1>7, PhaseIs DEF NoIdleCpu, Idle, NeverPanics
<1> QED BY <1>17, <1>19, <1>20, <1>21, <1>22, <1>23, <1>24, <1>25, <1>26, <1>27, <1>28, <1>29
        DEF IInv

\* The thread that waits longest, or the best one, gets a CPU.
LEMMA NextRunsKeeps ==
    ASSUME IInv, CanDispatch, NextThreadToRun,
           phase \in {<<"newjob">>, <<"dispatch">>, <<"boot">>, <<"reload">>},
           phase' = <<"reload">> \/ (phase' = phase /\ phase \in {<<"boot">>, <<"reload">>}),
           reloadDone' = reloadDone,
           UNCHANGED <<input, now, spinning, startup, finished, comVars>>
    PROVE  IInv'
<1> DEFINE t == Head(ready)
<1>1. /\ ready # <<>> /\ Free # {} /\ ready \in Seq(Threads) /\ Once(ready)
      /\ ready' = Tail(ready) /\ PutThreadOnRun(t)
      /\ UNCHANGED <<input, now, spinning, startup, finished, gathered, receivers, mail>>
  <2>1. ready # <<>> /\ Free # {} /\ ready' = Tail(ready) /\ PutThreadOnRun(t)
    BY DEF CanDispatch, NextThreadToRun
  <2>2. ready \in Seq(Threads) /\ Once(ready)
    BY DEF IInv, TypeOK, OnceInv
  <2>3. UNCHANGED <<input, now, spinning, startup, finished, gathered, receivers, mail>>
    BY DEF comVars
  <2> QED BY <2>1, <2>2, <2>3
<1>2. /\ t \in Threads /\ t \in ToSet(ready) /\ ToSet(Tail(ready)) = ToSet(ready) \ {t}
      /\ Once(Tail(ready)) /\ Tail(ready) \in Seq(Threads)
      /\ DOMAIN Tail(ready) = 1 .. Len(ready) - 1 /\ DOMAIN ready = 1 .. Len(ready)
      /\ Len(ready) \in Nat
      /\ \A i \in DOMAIN Tail(ready) : Tail(ready)[i] = ready[i + 1]
  BY <1>1, TailElements, TailPositions
<1> HIDE DEF t
<1>3. /\ phase[1] \in {"newjob", "dispatch", "boot", "reload"} /\ InHand(phase) = {}
      /\ phase' \in Phases /\ phase'[1] \in {"boot", "reload"} /\ InHand(phase') = {}
      /\ phase'[1] = "boot" => phase[1] = "boot"
  BY PhaseIs
<1>4. AtPlace(t, "ready")
  BY <1>2, PlaceIs DEF IInv
<1>5. ~OnCpu(t) /\ t \notin ToSet(gathered) /\ t \notin receivers /\ finished[t] = 0
  BY <1>4 DEF AtPlace, One
<1>6. NextCall(rest[t]) = "WORK"
  <2>1. CallsOf(t)
    BY <1>2 DEF IInv, CallInv
  <2> QED BY <1>2, <2>1 DEF CallsOf
<1>7. ASSUME InTurns, NEW i \in DOMAIN ready' PROVE loose[ready'[i]]
  <2>1. i + 1 \in DOMAIN ready /\ i + 1 # 1 /\ ready'[i] = ready[i + 1]
    BY <1>1, <1>2, <1>7
  <2> QED BY <1>7, <2>1 DEF IInv, TurnInv, InTurns
<1>8. ~InTurns => InOrder(ready', OrderKey(params))
  <2>1. ~InTurns => InOrder(ready, OrderKey(params))
    BY DEF IInv, TurnInv, InTurns
  <2> QED BY <1>1, <2>1, TailInOrder
<1>9. /\ reloadDone \in BOOLEAN /\ (reloadDone \/ FreeAtMostOne)
      /\ phase[1] = "boot" => reloadDone
  BY <1>1, <1>3 DEF IInv, TypeOK, DispatchInv, FreeAtMostOne
<1>10. Leaving(t)
  <2>1. /\ ready' \in Seq(Threads) /\ Once(ready') /\ ToSet(ready') = ToSet(ready) \ {t}
    BY <1>1, <1>2
  <2>2. InTurns => \A i \in DOMAIN ready' : loose[ready'[i]]
    BY <1>7
  <2>3. InHand(phase') = InHand(phase) \ {t}
    BY <1>3
  <2>4. /\ reloadDone' \in BOOLEAN /\ (reloadDone' \/ FreeAtMostOne)
        /\ phase'[1] = "boot" => reloadDone'
    <3>1. reloadDone' = reloadDone
      OBVIOUS
    <3> QED BY <1>3, <1>9, <3>1
  <2> QED BY <1>3, <1>5, <1>8, <2>1, <2>2, <2>3, <2>4 DEF Leaving
<1>11. PutThreadOnRun(t)
  BY <1>1 DEF t
<1> QED BY <1>1, <1>2, <1>6, <1>10, <1>11, PutOnKeeps

\* Nobody can be given a CPU.
LEMMA QuietKeeps ==
    ASSUME IInv, phase \in {<<"newjob">>, <<"dispatch">>, <<"boot">>, <<"reload">>},
           phase' \in {<<"reload">>, <<"idle">>}, ready = <<>> \/ Free = {},
           reloadDone' \in BOOLEAN,
           UNCHANGED <<input, now, events, ready, cpuVars, runVars, spinning, startup, finished,
                       comVars>>
    PROVE  IInv'
<1>1. /\ conf' = conf /\ now' = now /\ events' = events /\ ready' = ready /\ on' = on
      /\ context' = context /\ cpuOf' = cpuOf /\ switching' = switching /\ rest' = rest
      /\ loose' = loose /\ lastQuantum' = lastQuantum /\ cpuTime' = cpuTime
      /\ params' = params /\ spinning' = spinning /\ startup' = startup
      /\ finished' = finished /\ gathered' = gathered /\ receivers' = receivers
      /\ mail' = mail
  BY DEF input, cpuVars, runVars, comVars
<1>2. /\ phase[1] \in {"newjob", "dispatch", "boot", "reload"} /\ InHand(phase) = {}
      /\ phase' \in Phases /\ phase'[1] \in {"idle", "reload"} /\ InHand(phase') = {}
  BY PhaseIs
<1>3. /\ \A u \in Threads : OnCpu(u)' <=> OnCpu(u)
      /\ Free' = Free
  BY <1>1 DEF OnCpu, Free
<1>4. OthersStay({})
  BY <1>1, <1>2, <1>3 DEF OthersStay
<1>5. /\ InputInv' /\ PlaceInv' /\ FlagInv' /\ CpuTimeConserved'
      /\ \A u \in Threads : CallsOf(u)'
  BY <1>4, StayIs
<1>6. TypeOK'
  BY <1>1, <1>2 DEF IInv, TypeOK
<1>7. ParamsInv'
  BY <1>1 DEF IInv, ParamsInv, ParamsFit
<1>8. OnceInv' /\ CpuInv'
  BY <1>1, <1>2 DEF IInv, OnceInv, CpuInv
<1>9. CallInv'
  BY <1>2, <1>5 DEF CallInv
<1>10. TimerInv' /\ MailInv' /\ TimeForward'
  <2>1. TimerInv' /\ MailInv'
    BY <1>1, <1>3 DEF IInv, TimerInv, MailInv
  <2>2. events \in Seq(EventSet) /\ now \in Nat /\ OnTime(events, now)
    BY EventsAre DEF IInv
  <2> QED BY <1>1, <2>1, <2>2, TimeKept
<1>11. DispatchInv'
  BY <1>1, <1>2, <1>3 DEF DispatchInv
<1>12. TurnInv'
  <2>1. CASE InTurns
    <3>1. ASSUME NEW i \in DOMAIN ready PROVE loose[ready[i]]
      BY <2>1, <3>1 DEF IInv, TurnInv, InTurns, HasItsCpu
    <3> QED BY <1>1, <2>1, <3>1 DEF TurnInv, InTurns
  <2>2. CASE ~InTurns
    <3>1. OrderKey(params)' = OrderKey(params)
      BY <1>1 DEF OrderKey, Order
    <3> QED BY <1>1, <2>2, <3>1 DEF IInv, TurnInv, InTurns, InOrder
  <2> QED BY <2>1, <2>2
<1>13. NoIdleCpu' /\ NeverPanics'
  BY <1>1, <1>2, <1>3, PhaseIs DEF NoIdleCpu, Idle, NeverPanics
<1> QED BY <1>5, <1>6, <1>7, <1>8, <1>9, <1>10, <1>11, <1>12, <1>13 DEF IInv

LEMMA NewJobKeeps == ASSUME IInv, NewJob PROVE IInv'
<1>1. ready # <<>> \/ Free = {}
  BY PhaseIs DEF NewJob, IInv, DispatchInv
<1>2. /\ phase = <<"newjob">> /\ phase' = <<"reload">> /\ reloadDone' = reloadDone
      /\ UNCHANGED <<input, now, spinning, startup, finished, comVars>>
      /\ IF Free # {} THEN NextThreadToRun ELSE UNCHANGED <<events, ready, cpuVars, runVars>>
  BY <1>1 DEF NewJob
<1>3. CASE Free # {}
  BY <1>1, <1>2, <1>3, NextRunsKeeps DEF CanDispatch
<1>4. CASE Free = {}
  BY <1>2, <1>4, QuietKeeps DEF IInv, TypeOK
<1> QED BY <1>3, <1>4

LEMMA DispatchKeeps == ASSUME IInv, Dispatch PROVE IInv'
<1>1. /\ phase = <<"dispatch">> /\ phase' = <<"reload">> /\ reloadDone' = reloadDone
      /\ UNCHANGED <<input, now, spinning, startup, finished, comVars>>
      /\ IF CanDispatch THEN NextThreadToRun ELSE UNCHANGED <<events, ready, cpuVars, runVars>>
  BY DEF Dispatch
<1>2. CASE CanDispatch
  BY <1>1, <1>2, NextRunsKeeps
<1>3. CASE ~CanDispatch
  BY <1>1, <1>3, QuietKeeps DEF IInv, TypeOK, CanDispatch
<1> QED BY <1>2, <1>3

LEMMA ReloadEventsKeeps == ASSUME IInv, ReloadEvents PROVE IInv'
<1>1. /\ phase \in {<<"boot">>, <<"reload">>}
      /\ IF reloadDone /\ CanDispatch
           THEN NextThreadToRun /\ UNCHANGED <<phase, reloadDone>>
           ELSE /\ phase' = <<"idle">> /\ reloadDone' = (phase = <<"boot">>)
                /\ UNCHANGED <<events, ready, cpuVars, runVars>>
      /\ UNCHANGED <<input, now, spinning, startup, finished, comVars>>
  BY DEF ReloadEvents
<1>2. CASE reloadDone /\ CanDispatch
  BY <1>1, <1>2, NextRunsKeeps
<1>3. CASE ~(reloadDone /\ CanDispatch)
  <2>1. ready = <<>> \/ Free = {}
    BY <1>1, <1>3, PhaseIs DEF IInv, DispatchInv, CanDispatch
  <2>2. reloadDone' \in BOOLEAN
    BY <1>1, <1>3
  <2> QED BY <1>1, <1>3, <2>1, <2>2, QuietKeeps
<1> QED BY <1>2, <1>3

\* A thread that wakes up.
LEMMA WakingIs ==
    ASSUME IInv, phase[1] \in {"wake", "run"}
    PROVE  /\ phase[2] \in Seq(Threads) /\ phase[2] # <<>> /\ Once(phase[2])
           /\ InHand(phase) = ToSet(phase[2])
           /\ Head(phase[2]) \in InHand(phase) /\ Head(phase[2]) \in Threads
           /\ \A u \in InHand(phase) : NextCall(rest[u]) # "END"
           /\ Awake \in Phases /\ Awake[1] \in {"newjob", "reload", "wake"}
           /\ InHand(Awake) = InHand(phase) \ {Head(phase[2])}
           /\ Awake[1] = "wake" => Awake[2] # <<>> /\ Once(Awake[2])
<1>1. PICK x \in {"wake", "run"}, q \in Seq(Threads), p \in {<<"newjob">>, <<"reload">>} :
          phase = <<x, q, p>>
  <2>1. phase \in Phases
    BY DEF IInv, TypeOK
  <2> QED BY <2>1 DEF Phases
<1>2. phase[1] = x /\ phase[2] = q /\ phase[3] = p /\ InHand(phase) = ToSet(q)
  <2>1. phase[1] = x /\ phase[2] = q /\ phase[3] = p
    BY <1>1
  <2> QED BY <2>1 DEF InHand
<1>3. q # <<>> /\ Once(q)
  BY <1>2 DEF IInv, OnceInv
<1>4. /\ Tail(q) \in Seq(Threads) /\ Head(q) \in ToSet(q) /\ Once(Tail(q))
      /\ ToSet(Tail(q)) = ToSet(q) \ {Head(q)} /\ Head(q) \in Threads
      /\ Len(q) \in Nat \ {0} /\ Len(Tail(q)) = Len(q) - 1
      /\ ToSet(q) \subseteq Threads
  BY <1>3, TailElements, TailPositions, ElementsTyped
<1>5. ASSUME NEW u \in InHand(phase) PROVE NextCall(rest[u]) # "END"
  <2>1. u \in Threads
    BY <1>2, <1>4
  <2>2. CallsOf(u)
    BY <2>1 DEF IInv, CallInv
  <2> QED BY <2>2 DEF CallsOf
<1>6. CASE Len(q) = 1
  <2>1. Awake = p
    BY <1>2, <1>6 DEF Awake
  <2>2. ToSet(Tail(q)) = {}
    <3> DEFINE r == Tail(q)
    <3>1. r \in Seq(Threads) /\ Len(r) = 0
      BY <1>4, <1>6
    <3> HIDE DEF r
    <3>2. r = <<>>
      BY <3>1
    <3>3. ToSet(r) = {}
      BY <3>1, <3>2, EmptyElements
    <3> QED BY <3>3 DEF r
  <2>3. Awake \in Phases /\ Awake[1] \in {"newjob", "reload"} /\ InHand(Awake) = {}
    BY <2>1, PhaseIs
  <2> QED BY <1>2, <1>3, <1>4, <1>5, <2>2, <2>3
<1>7. CASE Len(q) # 1
  <2>1. Awake = <<"wake", Tail(q), p>>
    BY <1>2, <1>7 DEF Awake
  <2> DEFINE r == Tail(q)
  <2>2. r \in Seq(Threads) /\ Len(r) # 0 /\ Awake = <<"wake", r, p>>
        /\ Once(r) /\ ToSet(r) = ToSet(q) \ {Head(q)}
    BY <1>4, <1>7, <2>1
  <2> HIDE DEF r
  <2>3. r # <<>> /\ Awake[1] = "wake" /\ Awake[2] = r
    BY <2>2
  <2>4. Awake \in Phases
    BY <2>2 DEF Phases
  <2>5. InHand(Awake) = ToSet(r)
    BY <2>3 DEF InHand
  <2> QED BY <1>2, <1>3, <1>4, <1>5, <2>2, <2>3, <2>4, <2>5
<1> QED BY <1>6, <1>7

LEMMA WakeUpKeeps == ASSUME IInv, NEW t \in Threads, WakeUp(t) PROVE IInv'
<1> DEFINE how == IF VictimCpu(t, Demoted(params, t)) = None THEN "loose" ELSE "preempted"
<1>1. /\ phase[1] = "wake" /\ t = Head(phase[2]) /\ phase' = Awake
      /\ ThreadToReady(t, how, rest, params)
      /\ UNCHANGED <<input, now, events, cpuVars, lastQuantum, cpuTime, spinning, startup,
                     finished, gathered, receivers, mail>>
  BY DEF WakeUp, Waking, comVars
<1>2. how # "keep"
  OBVIOUS
<1> HIDE DEF how
<1>3. /\ TypeOK /\ InputInv /\ ParamsFit(params) /\ rest \in [Threads -> Seq(Actions)]
      /\ startup \in [Threads -> {"no", "doing", "done"}] /\ mail \in [Threads -> Nat]
      /\ cpuTime \in [Threads -> Int] /\ receivers \subseteq Threads
  BY DEF IInv, TypeOK, ParamsInv
<1>4. rest[t] # <<>>
  BY <1>1, WakingIs DEF NextCall
<1>5. Readied(t, how, rest, params)
  BY <1>1, <1>3, <1>4, ThreadToReadyIs
<1>6. Onward(t)
  BY <1>1, WakingIs DEF Onward
<1>7. SameTimers
  BY <1>1, SameTimersKept DEF IInv
<1>8. OthersKeep(params, params, t)
  BY DEF OthersKeep
<1>9. /\ cpuTime' = cpuTime /\ startup' = startup /\ mail' = mail
      /\ UNCHANGED <<input, now, cpuVars, lastQuantum, spinning, finished, gathered, receivers>>
  BY <1>1
<1> QED BY <1>2, <1>3, <1>5, <1>6, <1>7, <1>8, <1>9, ReadiedKeeps

LEMMA RunPreemptorKeeps == ASSUME IInv, RunPreemptor PROVE IInv'
<1> DEFINE t == Head(phase[2])
<1>1. /\ phase[1] = "run" /\ PutThreadOnRun(t) /\ reloadDone' = TRUE /\ phase' = Awake
      /\ ready' = ready
      /\ UNCHANGED <<input, now, spinning, startup, finished, gathered, receivers, mail>>
  BY DEF RunPreemptor, comVars
<1>2. t \in Threads /\ t \in InHand(phase)
  BY <1>1, WakingIs
<1>3. /\ phase' \in Phases /\ phase'[1] \in {"newjob", "reload", "wake"}
      /\ InHand(phase') = InHand(phase) \ {t}
      /\ phase'[1] = "wake" => phase'[2] # <<>> /\ Once(phase'[2])
  BY <1>1, WakingIs
<1>4. NextCall(rest[t]) = "WORK" /\ Free # {} /\ FreeAtMostOne
  BY <1>1 DEF IInv, CallInv, DispatchInv
<1> HIDE DEF t
<1>5. AtPlace(t, "hand")
  BY <1>2, PlaceIs DEF IInv
<1>6. /\ ~OnCpu(t) /\ t \notin ToSet(ready) /\ t \notin ToSet(gathered) /\ t \notin receivers
      /\ finished[t] = 0
  BY <1>5 DEF AtPlace, One
<1>7. /\ ready \in Seq(Threads) /\ Once(ready)
      /\ InTurns => \A i \in DOMAIN ready : loose[ready[i]]
      /\ ~InTurns => InOrder(ready, OrderKey(params))
  BY <1>1 DEF IInv, TypeOK, OnceInv, TurnInv, InTurns
<1>8. Leaving(t)
  BY <1>1, <1>3, <1>4, <1>6, <1>7 DEF Leaving
<1> QED BY <1>1, <1>2, <1>4, <1>8, PutOnKeeps

-----------------------------------------------------------------------------
(* Events                                                                  *)

\* What event_manager finds when it takes an event.
LEMMA TakenIs ==
    ASSUME IInv, NEW m, Takes(m)
    PROVE  /\ phase[1] = "idle" /\ InHand(phase) = {}
           /\ Head(events) \in EventSet /\ Head(events).module = m /\ Head(events).th \in Threads
           /\ now' = Head(events).at /\ now' \in Nat
           /\ Tail(events) \in Seq(EventSet) /\ OnTime(Tail(events), now')
           /\ TimerOnce(Tail(events))
           /\ TimerKeys(Tail(events)) = TimerKeys(events) \ {TimerKey(Head(events))}
           /\ TimerKey(Head(events)) # -1 => TimerKey(Head(events)) \in TimerKeys(events)
           /\ \A u \in Threads : u \in TimerKeys(events) <=> OnCpu(u)
           /\ None \in TimerKeys(events) <=> gathered # <<>> /\ Len(gathered) = NThreads
           /\ ready = <<>> \/ Free = {}
           /\ InTurns => \A i \in DOMAIN ready : loose[ready[i]]
           /\ ~InTurns => InOrder(ready, OrderKey(params))
<1>1. phase = <<"idle">> /\ events # <<>> /\ Head(events).module = m /\ now' = Head(events).at
  BY DEF Takes
<1>2. phase[1] = "idle" /\ InHand(phase) = {}
  BY <1>1, PhaseIs
<1>3. /\ events \in Seq(EventSet) /\ OnTime(events, now) /\ TimerOnce(events)
      /\ \A u \in Threads : u \in TimerKeys(events) <=> OnCpu(u)
      /\ None \in TimerKeys(events) <=> gathered # <<>> /\ Len(gathered) = NThreads
  BY EventsAre DEF IInv, TimerInv
<1>4. /\ Tail(events) \in Seq(EventSet) /\ Head(events) \in EventSet
      /\ OnTime(Tail(events), Head(events).at)
      /\ TimerKeys(Tail(events)) = TimerKeys(events) \ {TimerKey(Head(events))}
      /\ TimerOnce(Tail(events))
      /\ TimerKey(Head(events)) # -1 => TimerKey(Head(events)) \in TimerKeys(events)
  BY <1>1, <1>3, TailEvents
<1>5. Head(events).th \in Threads /\ Head(events).at \in Nat
  BY <1>4, EventIs
<1>6. ready = <<>> \/ Free = {}
  BY <1>1 DEF IInv, NoIdleCpu, Idle
<1>7. /\ InTurns => \A i \in DOMAIN ready : loose[ready[i]]
      /\ ~InTurns => InOrder(ready, OrderKey(params))
  BY <1>2 DEF IInv, TurnInv, InTurns
<1> QED BY <1>1, <1>2, <1>3, <1>4, <1>5, <1>6, <1>7

\* A thread on a CPU is nowhere else and knows it.
LEMMA OnCpuIs ==
    ASSUME IInv, NEW t \in Threads, OnCpu(t)
    PROVE  /\ AtPlace(t, "cpu") /\ t \notin ToSet(ready) /\ t \notin ToSet(gathered)
           /\ t \notin receivers /\ finished[t] = 0 /\ t \notin InHand(phase)
           /\ cpuOf[t] \in Cpus /\ on[cpuOf[t]] = t /\ context[cpuOf[t]] = t
           /\ \A c \in Cpus : on[c] = t <=> c = cpuOf[t]
           /\ FlagsOf(t) /\ CallsOf(t)
<1>1. AtPlace(t, "cpu")
  BY PlaceIs DEF IInv
<1>2. /\ t \notin ToSet(ready) /\ t \notin ToSet(gathered) /\ t \notin receivers
      /\ finished[t] = 0 /\ t \notin InHand(phase)
  BY <1>1 DEF AtPlace, One
<1>3. ASSUME NEW c \in Cpus, on[c] = t PROVE c = cpuOf[t] /\ context[c] = t
  <2>1. t # None
    BY DEF Threads, None
  <2> QED BY <1>3, <2>1 DEF IInv, CpuInv
<1>4. FlagsOf(t) /\ CallsOf(t)
  BY DEF IInv, FlagInv, CallInv
<1> QED BY <1>1, <1>2, <1>3, <1>4 DEF OnCpu

\* The thread of the timer that is taken is on a CPU.
LEMMA TimerOutIs ==
    ASSUME IInv, Takes("SCH")
    PROVE  LET t == Head(events).th
           IN  /\ t \in Threads /\ OnCpu(t)
               /\ TimerKeys(Tail(events)) = TimerKeys(events) \ {t}
               /\ ToSet(ready) \subseteq Threads
<1> DEFINE t == Head(events).th
<1>1. t \in Threads /\ Head(events).module = "SCH"
  BY TakenIs
<1>2. TimerKey(Head(events)) = t /\ t # -1
  BY <1>1 DEF TimerKey, Threads
<1>3. OnCpu(t) /\ TimerKeys(Tail(events)) = TimerKeys(events) \ {t}
  BY <1>1, <1>2, TakenIs
<1>4. ready \in Seq(Threads)
  BY DEF IInv, TypeOK
<1> QED BY <1>1, <1>3, <1>4, ElementsTyped

\* A thread leaves its CPU at the end of a burst or of a busy wait.
LEMMA OffCpuKeeps ==
    ASSUME IInv, Takes("SCH"), NEW t \in Threads, t = Head(events).th, ~switching[t],
           EndStartup(t), on' = [on EXCEPT ![cpuOf[t]] = None], events' = Tail(events),
           UNCHANGED <<input, reloadDone, ready, context, cpuOf, switching, runVars, finished,
                       gathered, mail>>,
           spinning' \in [Threads -> BOOLEAN], receivers' \subseteq Threads,
           \A u \in Threads \ {t} : /\ spinning'[u] = spinning[u]
                                    /\ u \in receivers' <=> u \in receivers,
           phase' = <<"op", t>> \/ phase' = IF ready # <<>> THEN <<"newjob">> ELSE <<"reload">>,
           \E p \in Places : AtPlace(t, p)', FlagsOf(t)', CallsOf(t)', MailInv'
    PROVE  IInv'
<1>1. /\ OnCpu(t) /\ cpuOf[t] \in Cpus /\ on[cpuOf[t]] = t /\ context[cpuOf[t]] = t
      /\ \A c \in Cpus : on[c] = t <=> c = cpuOf[t]
      /\ t \notin ToSet(ready) /\ t # None
  BY TimerOutIs, OnCpuIs DEF Threads, None
<1>2. /\ conf' = conf /\ reloadDone' = reloadDone /\ ready' = ready /\ context' = context
      /\ cpuOf' = cpuOf /\ switching' = switching /\ rest' = rest /\ loose' = loose
      /\ lastQuantum' = lastQuantum /\ cpuTime' = cpuTime /\ params' = params
      /\ finished' = finished /\ gathered' = gathered /\ mail' = mail
  BY DEF input, runVars
<1>3. /\ on \in [Cpus -> Threads \cup {None}] /\ on' \in [Cpus -> Threads \cup {None}]
      /\ on'[cpuOf[t]] = None /\ \A c \in Cpus : c # cpuOf[t] => on'[c] = on[c]
      /\ startup' \in [Threads -> {"no", "doing", "done"}]
      /\ context \in [Cpus -> Threads \cup {None}] /\ cpuOf \in [Threads -> Cpus \cup {None}]
  <2>1. /\ on \in [Cpus -> Threads \cup {None}]
        /\ startup \in [Threads -> {"no", "doing", "done"}]
        /\ context \in [Cpus -> Threads \cup {None}] /\ cpuOf \in [Threads -> Cpus \cup {None}]
    BY DEF IInv, TypeOK
  <2>2. startup' \in [Threads -> {"no", "doing", "done"}]
    BY <2>1 DEF EndStartup
  <2> QED BY <1>1, <2>1, <2>2
<1>4. /\ phase' \in Phases /\ phase'[1] \in {"op", "newjob", "reload"}
      /\ InHand(phase') \subseteq {t}
      /\ phase'[1] = "op" => phase'[2] = t
      /\ phase'[1] = "newjob" => ready # <<>>
      /\ phase'[1] = "reload" => ready = <<>>
  <2>1. CASE phase' = <<"op", t>>
    BY <2>1, PhaseIs
  <2>2. CASE phase' = IF ready # <<>> THEN <<"newjob">> ELSE <<"reload">>
    BY <2>2, PhaseIs
  <2> QED BY <2>1, <2>2
<1>5. /\ ~OnCpu(t)' /\ \A u \in Threads \ {t} : OnCpu(u)' <=> OnCpu(u)
  <2>1. ASSUME NEW u \in Threads, u # t, NEW c \in Cpus PROVE on'[c] = u <=> on[c] = u
    <3>1. u # None
      BY DEF Threads, None
    <3> QED BY <1>1, <1>3, <2>1, <3>1
  <2>2. \A c \in Cpus : on'[c] # t
    BY <1>1, <1>3
  <2> QED BY <2>1, <2>2 DEF OnCpu
<1>6. Free' = Free \cup {cpuOf[t]}
  <2>1. \A c \in Cpus : on'[c] = None <=> on[c] = None \/ c = cpuOf[t]
    BY <1>1, <1>3
  <2> QED BY <1>1, <2>1 DEF Free
<1>7. /\ phase[1] = "idle" /\ InHand(phase) = {} /\ now' \in Nat
      /\ events' \in Seq(EventSet) /\ OnTime(events', now') /\ TimerOnce(events')
      /\ TimerKeys(events') = TimerKeys(events) \ {t}
      /\ \A u \in Threads : u \in TimerKeys(events) <=> OnCpu(u)
      /\ None \in TimerKeys(events) <=> gathered # <<>> /\ Len(gathered) = NThreads
      /\ ready = <<>> \/ Free = {}
      /\ InTurns => \A i \in DOMAIN ready : loose[ready[i]]
      /\ ~InTurns => InOrder(ready, OrderKey(params))
  BY TakenIs, TimerOutIs
<1>8. OthersStay({t})
  BY <1>2, <1>4, <1>5, <1>7 DEF OthersStay
<1>9. /\ InputInv' /\ PlaceInv' /\ FlagInv' /\ CpuTimeConserved'
      /\ \A u \in Threads : CallsOf(u)'
  BY <1>2, <1>8, StayIs
<1>10. TypeOK'
  <2>1. events' \in Seq([at : Nat, module : {"SCH", "COM", "GOP"}, th : Threads])
    BY <1>7 DEF EventSet
  <2> QED BY <1>2, <1>3, <1>4, <1>7, <2>1 DEF IInv, TypeOK
<1>11. ParamsInv'
  BY <1>2 DEF IInv, ParamsInv, ParamsFit
<1>12. OnceInv'
  BY <1>2, <1>4 DEF IInv, OnceInv
<1>13. CpuInv'
  <2>1. \A c \in Cpus : on'[c] # None => context'[c] = on'[c]
    BY <1>2, <1>3 DEF IInv, CpuInv
  <2>2. \A c \in Cpus : context'[c] # None => cpuOf'[context'[c]] = c
    BY <1>2 DEF IInv, CpuInv
  <2> QED BY <1>1, <1>2, <1>3, <1>4, <2>1, <2>2 DEF CpuInv
<1>14. CallInv'
  BY <1>4, <1>9 DEF CallInv
<1>15. TimerInv'
  <2>1. \A u \in Threads : u \in TimerKeys(events') <=> OnCpu(u)'
    BY <1>5, <1>7
  <2>2. None \in TimerKeys(events') <=> None \in TimerKeys(events)
    BY <1>1, <1>7
  <2> QED BY <1>2, <1>7, <2>1, <2>2 DEF TimerInv
<1>16. TimeForward'
  BY <1>7, TimeKept
<1>17. DispatchInv'
  <2>1. ready = <<>> \/ \A c, d \in Free' : c = d
    BY <1>6, <1>7
  <2> QED BY <1>2, <1>4, <2>1 DEF DispatchInv, FreeAtMostOne
<1>18. TurnInv'
  <2>1. OrderKey(params)' = OrderKey(params)
    BY <1>2 DEF OrderKey, Order
  <2> QED BY <1>2, <1>7, <2>1 DEF TurnInv, InTurns, InOrder
<1>19. NoIdleCpu' /\ NeverPanics'
  BY <1>4, PhaseIs DEF NoIdleCpu, Idle, NeverPanics
<1> QED BY <1>9, <1>10, <1>11, <1>12, <1>13, <1>14, <1>15, <1>16, <1>17, <1>18, <1>19 DEF IInv

LEMMA BurstOverKeeps == ASSUME IInv, BurstOver PROVE IInv'
<1>0. PICK t \in Threads : t = Head(events).th
  BY TakenIs DEF BurstOver
<1>1. /\ Takes("SCH") /\ ~switching[t] /\ ~spinning[t] /\ EndStartup(t)
      /\ on' = [on EXCEPT ![cpuOf[t]] = None] /\ events' = Tail(events)
      /\ phase' = <<"op", t>>
      /\ UNCHANGED <<input, reloadDone, ready, context, cpuOf, switching, runVars, spinning,
                     finished, comVars>>
  BY <1>0 DEF BurstOver
<1>2. t \in Threads /\ OnCpu(t)
  BY <1>0, <1>1, TimerOutIs
<1>3. /\ ready' = ready /\ switching' = switching /\ spinning' = spinning /\ finished' = finished
      /\ gathered' = gathered /\ receivers' = receivers /\ mail' = mail /\ rest' = rest
      /\ conf' = conf
      /\ UNCHANGED <<input, reloadDone, ready, context, cpuOf, switching, runVars, finished,
                     gathered, mail>>
  BY <1>1 DEF comVars, runVars, input
<1>4. /\ t \notin ToSet(ready) /\ t \notin ToSet(gathered) /\ t \notin receivers
      /\ finished[t] = 0 /\ t # None
      /\ cpuOf[t] \in Cpus /\ \A c \in Cpus : on[c] = t <=> c = cpuOf[t]
  BY <1>2, OnCpuIs DEF Threads, None
<1>5. ~OnCpu(t)'
  <2>1. on \in [Cpus -> Threads \cup {None}]
    BY DEF IInv, TypeOK
  <2> QED BY <1>1, <1>4, <2>1 DEF OnCpu
<1>6. phase'[1] = "op" /\ InHand(phase') = {t}
  BY <1>1, <1>2, PhaseIs
<1>7. AtPlace(t, "hand")' /\ "hand" \in Places
  BY <1>3, <1>4, <1>5, <1>6 DEF AtPlace, One, Places
<1>8. FlagsOf(t)' /\ CallsOf(t)'
  BY <1>1, <1>3, <1>4, <1>6 DEF FlagsOf, CallsOf
<1>9. MailInv'
  BY <1>3 DEF IInv, MailInv
<1>10. spinning' \in [Threads -> BOOLEAN] /\ receivers' \subseteq Threads
  BY <1>3 DEF IInv, TypeOK
<1> QED BY <1>0, <1>1, <1>2, <1>3, <1>7, <1>8, <1>9, <1>10, OffCpuKeeps

LEMMA BusyWaitOverKeeps == ASSUME IInv, BusyWaitOver PROVE IInv'
<1>0. PICK t \in Threads : t = Head(events).th
  BY TakenIs DEF BusyWaitOver
<1>1. /\ Takes("SCH") /\ ~switching[t] /\ spinning[t] /\ EndStartup(t)
      /\ spinning' = [spinning EXCEPT ![t] = FALSE]
      /\ on' = [on EXCEPT ![cpuOf[t]] = None]
      /\ receivers' = receivers \cup {t} /\ events' = Tail(events)
      /\ phase' = (IF ready # <<>> THEN <<"newjob">> ELSE <<"reload">>)
      /\ UNCHANGED <<input, reloadDone, ready, context, cpuOf, switching, runVars, finished,
                     gathered, mail>>
  BY <1>0 DEF BusyWaitOver
<1>2. t \in Threads /\ OnCpu(t)
  BY <1>0, <1>1, TimerOutIs
<1>3. /\ ready' = ready /\ switching' = switching /\ finished' = finished
      /\ gathered' = gathered /\ rest' = rest /\ conf' = conf
  BY <1>1 DEF runVars, input
<1>4. /\ t \notin ToSet(ready) /\ t \notin ToSet(gathered) /\ t \notin receivers
      /\ finished[t] = 0 /\ t # None
      /\ cpuOf[t] \in Cpus /\ \A c \in Cpus : on[c] = t <=> c = cpuOf[t]
      /\ FlagsOf(t) /\ CallsOf(t)
  BY <1>2, OnCpuIs DEF Threads, None
<1>5. ~OnCpu(t)'
  <2>1. on \in [Cpus -> Threads \cup {None}]
    BY DEF IInv, TypeOK
  <2> QED BY <1>1, <1>4, <2>1 DEF OnCpu
<1>6. phase'[1] \in {"newjob", "reload"} /\ InHand(phase') = {}
  BY <1>1, PhaseIs
<1>7. AtPlace(t, "receiving")' /\ "receiving" \in Places
  BY <1>1, <1>3, <1>4, <1>5, <1>6 DEF AtPlace, One, Places
<1>8. /\ spinning' \in [Threads -> BOOLEAN] /\ ~spinning'[t]
      /\ \A u \in Threads \ {t} : /\ spinning'[u] = spinning[u]
                                  /\ u \in receivers' <=> u \in receivers
      /\ receivers' \subseteq Threads
  <2>1. spinning \in [Threads -> BOOLEAN] /\ receivers \subseteq Threads
    BY DEF IInv, TypeOK
  <2> QED BY <1>1, <1>2, <2>1
<1>9. conf.busy /\ NextCall(rest[t]) = "RECV"
  BY <1>1, <1>4 DEF FlagsOf, CallsOf
<1>10. FlagsOf(t)' /\ CallsOf(t)'
  BY <1>1, <1>3, <1>4, <1>6, <1>8, <1>9 DEF FlagsOf, CallsOf
<1>11. MailInv'
  BY <1>3, <1>9 DEF MailInv
<1> QED BY <1>0, <1>1, <1>2, <1>7, <1>8, <1>10, <1>11, OffCpuKeeps

LEMMA ContextSwitchedKeeps == ASSUME IInv, ContextSwitched PROVE IInv'
<1>0. PICK t \in Threads : t = Head(events).th
  BY TakenIs DEF ContextSwitched
<1>1. /\ Takes("SCH") /\ switching[t] /\ EndStartup(t)
      /\ switching' = [switching EXCEPT ![t] = FALSE]
      /\ on' = [on EXCEPT ![cpuOf[t]] = t]
      /\ Execute(t, Tail(events), Head(events).at)
      /\ phase' = <<"reload">>
      /\ UNCHANGED <<input, reloadDone, ready, context, cpuOf, spinning, finished, comVars>>
  BY <1>0 DEF ContextSwitched
<1>2. /\ t \notin ToSet(ready) /\ t \notin ToSet(gathered) /\ t \notin receivers
      /\ OnCpu(t) /\ finished[t] = 0 /\ t # None
      /\ cpuOf[t] \in Cpus /\ on[cpuOf[t]] = t
      /\ FlagsOf(t) /\ CallsOf(t)
      /\ TimerKeys(Tail(events)) = TimerKeys(events) \ {t}
  BY <1>0, <1>1, TimerOutIs, OnCpuIs DEF Threads, None
<1>3. /\ phase[1] = "idle" /\ InHand(phase) = {} /\ now' \in Nat /\ now' = Head(events).at
      /\ Tail(events) \in Seq(EventSet) /\ OnTime(Tail(events), now')
      /\ TimerOnce(Tail(events))
      /\ \A u \in Threads : u \in TimerKeys(events) <=> OnCpu(u)
      /\ None \in TimerKeys(events) <=> gathered # <<>> /\ Len(gathered) = NThreads
      /\ ready = <<>> \/ Free = {}
      /\ InTurns => \A i \in DOMAIN ready : loose[ready[i]]
      /\ ~InTurns => InOrder(ready, OrderKey(params))
  BY <1>1, TakenIs
<1>4. Ran(t, Tail(events), now')
  <2>1. NextCall(rest[t]) = "WORK"
    BY <1>1, <1>2 DEF CallsOf
  <2>2. TypeOK /\ conf \in ConfigSet /\ ParamsInv
    BY DEF IInv, InputInv
  <2>3. Ran(t, Tail(events), Head(events).at)
    BY <1>1, <1>3, <2>1, <2>2, ExecuteIs
  <2> QED BY <1>3, <2>3
<1>5. /\ conf' = conf /\ reloadDone' = reloadDone /\ ready' = ready /\ context' = context
      /\ cpuOf' = cpuOf /\ spinning' = spinning /\ finished' = finished
      /\ gathered' = gathered /\ receivers' = receivers /\ mail' = mail
  BY <1>1 DEF input, comVars
<1>6. on' = on
  <2>1. on \in [Cpus -> Threads \cup {None}]
    BY DEF IInv, TypeOK
  <2> QED BY <1>1, <1>2, <2>1
<1>7. /\ \A u \in Threads : OnCpu(u)' <=> OnCpu(u)
      /\ Free' = Free
  BY <1>6 DEF OnCpu, Free
<1>8. /\ switching' \in [Threads -> BOOLEAN] /\ ~switching'[t]
      /\ \A u \in Threads : u # t => switching'[u] = switching[u]
      /\ startup' \in [Threads -> {"no", "doing", "done"}]
  <2>1. /\ switching \in [Threads -> BOOLEAN]
        /\ startup \in [Threads -> {"no", "doing", "done"}]
    BY DEF IInv, TypeOK
  <2>2. startup' \in [Threads -> {"no", "doing", "done"}]
    BY <1>1, <2>1 DEF EndStartup
  <2> QED BY <1>1, <2>1, <2>2
<1>9. phase' \in Phases /\ phase'[1] = "reload" /\ InHand(phase') = {}
  BY <1>1, PhaseIs
<1>10. /\ rest' \in [Threads -> Seq(Actions)] /\ \A u \in Threads : u # t => rest'[u] = rest[u]
       /\ lastQuantum' \in [Threads -> Nat]
       /\ ParamsFit(params') /\ \A u \in Threads : params'[u].prio = params[u].prio
       /\ cpuTime' \in [Threads -> Int]
       /\ loose' = [loose EXCEPT ![t] = TRUE]
       /\ cpuTime'[t] + BurstsOf(rest'[t]) = cpuTime[t] + BurstsOf(rest[t])
       /\ \A u \in Threads : u # t => cpuTime'[u] = cpuTime[u]
  BY <1>4, RanIs DEF IInv
<1>11. OthersStay({t})
  BY <1>1, <1>5, <1>7, <1>8, <1>9, <1>10, <1>3 DEF OthersStay
<1>12. AtPlace(t, "cpu")' /\ "cpu" \in Places
  BY <1>2, <1>5, <1>7, <1>9 DEF AtPlace, One, Places
<1>13. ~spinning[t]
  BY <1>1, <1>2 DEF FlagsOf
<1>14. FlagsOf(t)' /\ CallsOf(t)'
  BY <1>2, <1>5, <1>8, <1>9, <1>13 DEF FlagsOf, CallsOf
<1>15. /\ InputInv' /\ PlaceInv' /\ FlagInv' /\ CpuTimeConserved'
       /\ \A u \in Threads : CallsOf(u)'
  BY <1>10, <1>11, <1>12, <1>14, StayIs
<1>16. events' \in Seq(EventSet) /\ OnTime(events', now') /\ TimerInv'
  <2>1. PICK e \in EventSet : e.module = "SCH" /\ e.th = t /\ now' <= e.at
                              /\ events' = InsertEvent(Tail(events), e)
    BY <1>4 DEF Ran
  <2>2. TimerKey(e) = t
    BY <2>1 DEF TimerKey
  <2>3. TimerKey(e) \notin TimerKeys(Tail(events))
    BY <1>2, <2>2
  <2>4. {TimerKey(e)} \ {-1} = {t}
    BY <2>2 DEF Threads
  <2>5. /\ events' \in Seq(EventSet) /\ OnTime(events', now') /\ TimerOnce(events')
        /\ TimerKeys(events') = TimerKeys(Tail(events)) \cup {t}
    BY <1>3, <2>1, <2>3, <2>4, InsertEventIs
  <2>6. t \in TimerKeys(events)
    BY <1>2, <1>3
  <2>7. TimerKeys(events') = TimerKeys(events)
    BY <1>2, <2>5, <2>6
  <2> QED BY <1>3, <1>5, <1>7, <2>5, <2>7 DEF TimerInv
<1>17. TypeOK'
  <2>1. loose' \in [Threads -> BOOLEAN]
    BY <1>10 DEF IInv, TypeOK
  <2>2. params' \in [Threads -> [prio : Int, full : BOOLEAN, forces : BOOLEAN, task : Nat]]
    BY <1>10 DEF ParamsFit, ThreadParams
  <2>3. events' \in Seq([at : Nat, module : {"SCH", "COM", "GOP"}, th : Threads])
    BY <1>16 DEF EventSet
  <2>4. /\ reloadDone \in BOOLEAN /\ ready \in Seq(Threads)
        /\ on \in [Cpus -> Threads \cup {None}] /\ context \in [Cpus -> Threads \cup {None}]
        /\ cpuOf \in [Threads -> Cpus \cup {None}] /\ spinning \in [Threads -> BOOLEAN]
        /\ finished \in [Threads -> Nat] /\ gathered \in Seq(Threads)
        /\ receivers \subseteq Threads /\ mail \in [Threads -> Nat]
    BY DEF IInv, TypeOK
  <2> QED BY <1>3, <1>5, <1>6, <1>8, <1>9, <1>10, <2>1, <2>2, <2>3, <2>4 DEF TypeOK
<1>18. ParamsInv'
  BY <1>5, <1>10 DEF ParamsInv, ParamsFit
<1>19. OnceInv' /\ CpuInv'
  BY <1>5, <1>6, <1>9 DEF IInv, OnceInv, CpuInv
<1>20. CallInv'
  BY <1>9, <1>15 DEF CallInv
<1>21. TimeForward'
  BY <1>3, <1>16, TimeKept
<1>22. MailInv'
  BY <1>5 DEF IInv, MailInv
<1>23. DispatchInv'
  BY <1>3, <1>5, <1>7, <1>9 DEF DispatchInv
<1>24. TurnInv'
  <2>1. CASE InTurns
    <3>1. ASSUME NEW i \in DOMAIN ready PROVE loose'[ready[i]]
      <4>1. loose \in [Threads -> BOOLEAN] /\ ready \in Seq(Threads)
        BY DEF IInv, TypeOK
      <4>2. loose[ready[i]] /\ ready[i] \in Threads
        BY <1>3, <2>1, <4>1
      <4> QED BY <1>10, <4>1, <4>2
    <3> QED BY <1>5, <2>1, <3>1 DEF TurnInv, InTurns
  <2>2. CASE ~InTurns
    <3>1. OrderKey(params)' = OrderKey(params')
      BY <1>5 DEF OrderKey, Order
    <3>2. ready \in Seq(Threads) /\ ToSet(ready) \subseteq Threads
      BY ElementsTyped DEF IInv, TypeOK
    <3>3. InOrder(ready, OrderKey(params'))
      BY <1>3, <1>10, <2>2, <3>2, PriosKept
    <3> QED BY <1>5, <2>2, <3>1, <3>3 DEF TurnInv, InTurns, InOrder
  <2> QED BY <2>1, <2>2
<1>25. NoIdleCpu' /\ NeverPanics'
  BY <1>9, PhaseIs DEF NoIdleCpu, Idle, NeverPanics
<1> QED BY <1>15, <1>16, <1>17, <1>18, <1>19, <1>20, <1>21, <1>22, <1>23, <1>24, <1>25 DEF IInv

\* A message or a collective is over: its threads end or go on.
LEMMA OverKeeps ==
    ASSUME IInv, NEW m \in {"COM", "GOP"}, Takes(m), events' = Tail(events),
           UNCHANGED <<input, reloadDone, ready, cpuVars, loose, lastQuantum, cpuTime, params,
                       spinning, startup>>,
           phase' \in Phases, phase'[1] \in {"reload", "wake"},
           phase'[1] = "wake" => phase'[2] # <<>> /\ Once(phase'[2]),
           rest' \in [Threads -> Seq(Actions)], finished' \in [Threads -> Nat],
           gathered' \in Seq(Threads), Once(gathered'), receivers' \subseteq Threads,
           mail' \in [Threads -> Nat],
           InputInv', PlaceInv', FlagInv', CpuTimeConserved', \A u \in Threads : CallsOf(u)',
           MailInv',
           None \in TimerKeys(events') <=> gathered' # <<>> /\ Len(gathered') = NThreads
    PROVE  IInv'
<1>1. /\ conf' = conf /\ reloadDone' = reloadDone /\ ready' = ready /\ on' = on
      /\ context' = context /\ cpuOf' = cpuOf /\ switching' = switching /\ loose' = loose
      /\ lastQuantum' = lastQuantum /\ cpuTime' = cpuTime /\ params' = params
      /\ spinning' = spinning /\ startup' = startup
  BY DEF input, cpuVars
<1>2. /\ now' \in Nat /\ Head(events).module = m /\ Head(events).th \in Threads
      /\ Tail(events) \in Seq(EventSet) /\ OnTime(Tail(events), now')
      /\ TimerOnce(Tail(events))
      /\ TimerKeys(Tail(events)) = TimerKeys(events) \ {TimerKey(Head(events))}
      /\ \A u \in Threads : u \in TimerKeys(events) <=> OnCpu(u)
      /\ ready = <<>> \/ Free = {}
      /\ InTurns => \A i \in DOMAIN ready : loose[ready[i]]
      /\ ~InTurns => InOrder(ready, OrderKey(params))
  BY TakenIs
<1>3. TimerKey(Head(events)) \notin Threads
  BY <1>2 DEF TimerKey, Threads, None
<1>4. /\ \A u \in Threads : OnCpu(u)' <=> OnCpu(u)
      /\ Free' = Free
  BY <1>1 DEF OnCpu, Free
<1>5. TypeOK'
  <2>1. events' \in Seq([at : Nat, module : {"SCH", "COM", "GOP"}, th : Threads])
    BY <1>2 DEF EventSet
  <2> QED BY <1>1, <1>2, <2>1 DEF IInv, TypeOK
<1>6. ParamsInv'
  BY <1>1 DEF IInv, ParamsInv, ParamsFit
<1>7. OnceInv'
  BY <1>1 DEF IInv, OnceInv
<1>8. CpuInv'
  BY <1>1 DEF IInv, CpuInv
<1>9. CallInv'
  BY DEF CallInv
<1>10. TimerInv'
  BY <1>2, <1>3, <1>4 DEF TimerInv
<1>11. TimeForward'
  BY <1>2, TimeKept
<1>12. DispatchInv'
  BY <1>1, <1>2, <1>4 DEF DispatchInv
<1>13. TurnInv'
  <2>1. OrderKey(params)' = OrderKey(params)
    BY <1>1 DEF OrderKey, Order
  <2> QED BY <1>1, <1>2, <2>1 DEF TurnInv, InTurns, InOrder
<1>14. NoIdleCpu' /\ NeverPanics'
  BY PhaseIs DEF NoIdleCpu, Idle, NeverPanics
<1> QED BY <1>5, <1>6, <1>7, <1>8, <1>9, <1>10, <1>11, <1>12, <1>13, <1>14 DEF IInv

\* A blocked receiver is nowhere else, and goes on with its next action.
LEMMA ReceiverIs ==
    ASSUME IInv, NEW t \in Threads, t \in receivers
    PROVE  /\ ~OnCpu(t) /\ t \notin ToSet(ready) /\ t \notin ToSet(gathered)
           /\ finished[t] = 0 /\ ~switching[t] /\ ~spinning[t]
           /\ Tail(rest[t]) \in Seq(Actions) /\ BurstsOf(Tail(rest[t])) = BurstsOf(rest[t])
<1>1. AtPlace(t, "receiving")
  BY PlaceIs DEF IInv
<1>2. ~OnCpu(t) /\ t \notin ToSet(ready) /\ t \notin ToSet(gathered) /\ finished[t] = 0
  BY <1>1 DEF AtPlace, One
<1>3. FlagsOf(t) /\ CallsOf(t)
  BY DEF IInv, FlagInv, CallInv
<1>4. ~switching[t] /\ ~spinning[t]
  BY <1>2, <1>3 DEF FlagsOf
<1>5. NextCall(rest[t]) = "RECV" /\ rest[t] \in Seq(Actions)
  BY <1>3 DEF CallsOf, IInv, TypeOK
<1>6. Tail(rest[t]) \in Seq(Actions) /\ BurstsOf(Tail(rest[t])) = BurstsOf(rest[t])
  BY <1>5, NextCallIs
<1> QED BY <1>2, <1>4, <1>6

LEMMA ArriveKeeps == ASSUME IInv, Arrive PROVE IInv'
<1>0. PICK t \in Threads : t = Head(events).th
  BY TakenIs DEF Arrive
<1>1. /\ Takes("COM") /\ events' = Tail(events)
      /\ UNCHANGED <<input, reloadDone, ready, cpuVars, loose, lastQuantum, cpuTime, params,
                     spinning, startup, gathered>>
  BY DEF Arrive
<1>2. /\ conf' = conf /\ ready' = ready /\ on' = on /\ switching' = switching
      /\ cpuTime' = cpuTime /\ spinning' = spinning /\ gathered' = gathered
  BY <1>1 DEF input, cpuVars
<1>3. \A u \in Threads : OnCpu(u)' <=> OnCpu(u)
  BY <1>2 DEF OnCpu
<1>4. phase[1] = "idle" /\ InHand(phase) = {}
      /\ TimerKeys(events') = TimerKeys(events) \ {TimerKey(Head(events))}
  BY <1>1, TakenIs
<1>5. None \in TimerKeys(events') <=> gathered' # <<>> /\ Len(gathered') = NThreads
  <2>1. TimerKey(Head(events)) # None
    BY <1>1, TakenIs DEF TimerKey, None
  <2>2. None \in TimerKeys(events) <=> gathered # <<>> /\ Len(gathered) = NThreads
    BY DEF IInv, TimerInv
  <2> QED BY <1>2, <1>4, <2>1, <2>2
<1>6. /\ rest \in [Threads -> Seq(Actions)] /\ finished \in [Threads -> Nat]
      /\ gathered \in Seq(Threads) /\ Once(gathered) /\ receivers \subseteq Threads
      /\ mail \in [Threads -> Nat] /\ cpuTime \in [Threads -> Int]
      /\ gathered' \in Seq(Threads) /\ Once(gathered')
  BY <1>2 DEF IInv, TypeOK, OnceInv
<1>7. CASE t \notin receivers
  <2>1. /\ mail' = [mail EXCEPT ![t] = @ + 1] /\ phase' = <<"reload">>
        /\ receivers' = receivers /\ rest' = rest /\ finished' = finished
    BY <1>0, <1>7 DEF Arrive
  <2>2. phase' \in Phases /\ phase'[1] = "reload" /\ InHand(phase') = {}
    BY <2>1, PhaseIs
  <2>3. OthersStay({})
    BY <1>1, <1>2, <1>3, <1>4, <2>1, <2>2 DEF OthersStay
  <2>4. /\ InputInv' /\ PlaceInv' /\ FlagInv' /\ CpuTimeConserved'
        /\ \A u \in Threads : CallsOf(u)'
    BY <2>3, StayIs
  <2>5. mail' \in [Threads -> Nat] /\ \A u \in receivers : mail'[u] = mail[u]
    BY <1>6, <1>7, <2>1
  <2>6. MailInv'
    BY <1>2, <2>1, <2>5 DEF IInv, MailInv
  <2> QED BY <1>1, <1>5, <1>6, <2>1, <2>2, <2>4, <2>5, <2>6, OverKeeps
<1>8. CASE t \in receivers
  <2> DEFINE s == Tail(rest[t])
  <2>1. /\ receivers' = receivers \ {t}
        /\ rest' = [rest EXCEPT ![t] = s]
        /\ finished' = [finished EXCEPT ![t] = @ + One(rest'[t] = <<>>)]
        /\ phase' = IF rest'[t] = <<>> THEN <<"reload">> ELSE <<"wake", <<t>>, <<"newjob">>>>
        /\ mail' = mail
    BY <1>0, <1>8 DEF Arrive
  <2>2. /\ ~OnCpu(t) /\ t \notin ToSet(ready) /\ t \notin ToSet(gathered)
        /\ finished[t] = 0 /\ ~switching[t] /\ ~spinning[t]
        /\ s \in Seq(Actions) /\ BurstsOf(s) = BurstsOf(rest[t])
    BY <1>8, ReceiverIs
  <2> HIDE DEF s
  <2>3. /\ rest' \in [Threads -> Seq(Actions)] /\ rest'[t] = s
        /\ \A u \in Threads : u # t => rest'[u] = rest[u]
    BY <1>6, <2>1, <2>2
  <2>4. /\ finished' \in [Threads -> Nat] /\ finished'[t] = One(s = <<>>)
        /\ \A u \in Threads : u # t => finished'[u] = finished[u]
    BY <1>6, <2>1, <2>2, <2>3 DEF One
  <2>5. /\ phase' \in Phases /\ phase'[1] = (IF s = <<>> THEN "reload" ELSE "wake")
        /\ InHand(phase') = IF s = <<>> THEN {} ELSE {t}
        /\ phase'[1] = "wake" => phase'[2] # <<>> /\ Once(phase'[2])
    <3>1. CASE s = <<>>
      BY <2>1, <2>3, <3>1, PhaseIs
    <3>2. CASE s # <<>>
      <4>1. phase' = <<"wake", <<t>>, <<"newjob">>>>
        BY <2>1, <2>3, <3>2
      <4>2. <<t>> \in Seq(Threads) /\ <<t>> # <<>> /\ Once(<<t>>) /\ ToSet(<<t>>) = {t}
        BY DEF Once, ToSet
      <4>3. phase' \in Phases
        BY <4>1, <4>2 DEF Phases
      <4>4. phase'[1] = "wake" /\ phase'[2] = <<t>>
        BY <4>1
      <4> QED BY <3>2, <4>2, <4>3, <4>4 DEF InHand
    <3> QED BY <3>1, <3>2
  <2>6. OthersStay({t})
    BY <1>1, <1>2, <1>3, <1>4, <2>1, <2>3, <2>4, <2>5 DEF OthersStay
  <2>7. /\ \E p \in Places : AtPlace(t, p)'
        /\ FlagsOf(t)' /\ CallsOf(t)'
        /\ cpuTime'[t] + BurstsOf(rest'[t]) = cpuTime[t] + BurstsOf(rest[t])
    <3>1. s = <<>> => AtPlace(t, "finished")'
      BY <1>2, <1>3, <2>1, <2>2, <2>4, <2>5 DEF AtPlace, One
    <3>2. s # <<>> => AtPlace(t, "hand")'
      BY <1>2, <1>3, <2>1, <2>2, <2>4, <2>5 DEF AtPlace, One
    <3>3. FlagsOf(t)'
      BY <1>2, <2>2 DEF FlagsOf
    <3>4. NextCall(s) = "END" <=> s = <<>>
      BY <2>2, NextCallIs
    <3>5. CallsOf(t)'
      BY <1>2, <2>1, <2>2, <2>3, <2>4, <2>5, <3>4 DEF CallsOf, One
    <3>6. cpuTime'[t] + BurstsOf(rest'[t]) = cpuTime[t] + BurstsOf(rest[t])
      BY <1>2, <2>2, <2>3
    <3>7. \E p \in Places : AtPlace(t, p)'
      <4>1. "finished" \in Places /\ "hand" \in Places
        BY DEF Places
      <4> QED BY <3>1, <3>2, <4>1
    <3> QED BY <3>3, <3>5, <3>6, <3>7
  <2>8. /\ InputInv' /\ PlaceInv' /\ FlagInv' /\ CpuTimeConserved'
        /\ \A u \in Threads : CallsOf(u)'
    BY <2>6, <2>7, StayIs
  <2>9. MailInv'
    BY <1>2, <2>1 DEF IInv, MailInv
  <2>10. /\ receivers' \subseteq Threads /\ mail' \in [Threads -> Nat]
         /\ phase'[1] \in {"reload", "wake"}
    BY <1>6, <2>1, <2>5
  <2> QED BY <1>1, <1>5, <1>6, <2>3, <2>4, <2>5, <2>8, <2>9, <2>10, OverKeeps
<1> QED BY <1>7, <1>8

\* When the timer of the collective is taken, all threads are in it.
LEMMA AllGathered ==
    ASSUME IInv, Takes("GOP")
    PROVE  /\ ToSet(gathered) = Threads /\ None \in TimerKeys(events)
           /\ TimerKeys(Tail(events)) = TimerKeys(events) \ {None}
           /\ gathered \in Seq(Threads) /\ Once(gathered)
<1>1. TimerKey(Head(events)) = None /\ None # -1
  BY TakenIs DEF TimerKey, None
<1>2. /\ None \in TimerKeys(events) /\ Len(gathered) = NThreads
      /\ TimerKeys(Tail(events)) = TimerKeys(events) \ {None}
  BY <1>1, TakenIs
<1>3. gathered \in Seq(Threads) /\ Once(gathered)
  BY DEF IInv, TypeOK, OnceInv
<1>4. \A t \in Threads : \E i \in 1 .. NThreads : gathered[i] = t
  <2>1. IsFiniteSet(Threads) /\ Cardinality(Threads) = NThreads
    BY SizesAssumption, UpTo DEF Threads
  <2>2. gathered \in [1 .. NThreads -> Threads]
        /\ \A i, j \in 1 .. NThreads : gathered[i] = gathered[j] => i = j
    BY <1>2, <1>3 DEF Once
  <2> QED BY <2>1, <2>2, SizesAssumption, FullQueue
<1>5. Threads \subseteq ToSet(gathered)
  <2>1. DOMAIN gathered = 1 .. NThreads
    BY <1>2, <1>3
  <2> QED BY <1>4, <2>1 DEF ToSet
<1>6. ToSet(gathered) \subseteq Threads
  BY <1>3, ElementsTyped
<1> QED BY <1>2, <1>3, <1>5, <1>6

LEMMA CloseGlobalKeeps == ASSUME IInv, CloseGlobal PROVE IInv'
<1> DEFINE ended == {t \in Threads : Tail(rest[t]) = <<>>}
           woken == Without(gathered, ended)
<1>1. /\ Takes("GOP") /\ events' = Tail(events) /\ gathered' = <<>>
      /\ rest' = [t \in Threads |-> Tail(rest[t])]
      /\ finished' = [t \in Threads |-> finished[t] + One(rest'[t] = <<>>)]
      /\ phase' = IF woken = <<>> THEN <<"reload">> ELSE <<"wake", woken, <<"reload">>>>
      /\ UNCHANGED <<input, reloadDone, ready, cpuVars, loose, lastQuantum, cpuTime, params,
                     spinning, startup, receivers, mail>>
  BY DEF CloseGlobal
<1>2. /\ conf' = conf /\ ready' = ready /\ on' = on /\ switching' = switching
      /\ cpuTime' = cpuTime /\ spinning' = spinning /\ receivers' = receivers /\ mail' = mail
  BY <1>1 DEF input, cpuVars
<1>3. \A u \in Threads : OnCpu(u)' <=> OnCpu(u)
  BY <1>2 DEF OnCpu
<1>4. /\ ToSet(gathered) = Threads /\ gathered \in Seq(Threads) /\ Once(gathered)
      /\ TimerKeys(events') = TimerKeys(events) \ {None}
  BY <1>1, AllGathered
<1>5. /\ woken \in Seq(Threads) /\ ToSet(woken) = Threads \ ended /\ Once(woken)
  BY <1>4, WithoutElements
<1>6. ASSUME NEW t \in Threads
      PROVE  /\ ~OnCpu(t) /\ t \notin ToSet(ready) /\ t \notin receivers
             /\ finished[t] = 0 /\ ~switching[t] /\ ~spinning[t]
             /\ Tail(rest[t]) \in Seq(Actions) /\ BurstsOf(Tail(rest[t])) = BurstsOf(rest[t])
             /\ NextCall(Tail(rest[t])) = "END" <=> t \in ended
  <2>1. AtPlace(t, "gathered")
    BY <1>4, PlaceIs DEF IInv
  <2>2. ~OnCpu(t) /\ t \notin ToSet(ready) /\ t \notin receivers /\ finished[t] = 0
    BY <2>1 DEF AtPlace, One
  <2>3. FlagsOf(t) /\ CallsOf(t) /\ rest[t] \in Seq(Actions)
    BY DEF IInv, FlagInv, CallInv, TypeOK
  <2>4. ~switching[t] /\ ~spinning[t]
    BY <2>2, <2>3 DEF FlagsOf
  <2>5. NextCall(rest[t]) = "GLOBAL"
    BY <1>4, <2>3 DEF CallsOf
  <2>6. Tail(rest[t]) \in Seq(Actions) /\ BurstsOf(Tail(rest[t])) = BurstsOf(rest[t])
    BY <2>3, <2>5, NextCallIs
  <2>7. NextCall(Tail(rest[t])) = "END" <=> Tail(rest[t]) = <<>>
    BY <2>6, NextCallIs
  <2> QED BY <2>2, <2>4, <2>6, <2>7
<1>7. /\ rest' \in [Threads -> Seq(Actions)] /\ \A t \in Threads : rest'[t] = Tail(rest[t])
  BY <1>1, <1>6
<1>8. /\ finished' \in [Threads -> Nat] /\ \A t \in Threads : finished'[t] = One(t \in ended)
  <2>1. ASSUME NEW t \in Threads PROVE finished'[t] = One(t \in ended) /\ finished'[t] \in Nat
    <3>1. (rest'[t] = <<>>) <=> t \in ended
      BY <1>7
    <3> HIDE DEF ended
    <3>2. finished'[t] = finished[t] + One(rest'[t] = <<>>)
      BY <1>1
    <3>3. finished[t] = 0
      BY <1>6
    <3> QED BY <3>1, <3>2, <3>3 DEF One
  <2> HIDE DEF ended
  <2> QED BY <1>1, <2>1
<1>9. /\ phase' \in Phases /\ phase'[1] \in {"reload", "wake"}
      /\ InHand(phase') = Threads \ ended
      /\ phase'[1] = "wake" => phase'[2] # <<>> /\ Once(phase'[2])
  <2> HIDE DEF woken, ended
  <2>1. CASE woken = <<>>
    <3>1. ToSet(woken) = {}
      BY <1>5, <2>1, EmptyElements
    <3>2. phase' = <<"reload">>
      BY <1>1, <2>1
    <3> QED BY <1>5, <3>1, <3>2, PhaseIs
  <2>2. CASE woken # <<>>
    <3>1. phase' = <<"wake", woken, <<"reload">>>>
      BY <1>1, <2>2
    <3>2. phase' \in Phases
      BY <1>5, <3>1 DEF Phases
    <3>3. phase'[1] = "wake" /\ phase'[2] = woken
      BY <3>1
    <3> QED BY <1>5, <2>2, <3>2, <3>3 DEF InHand
  <2> QED BY <2>1, <2>2
<1> HIDE DEF woken, ended
<1>10. ASSUME NEW t \in Threads
       PROVE  /\ \E p \in Places : AtPlace(t, p)'
              /\ FlagsOf(t)' /\ CallsOf(t)'
              /\ cpuTime'[t] + BurstsOf(rest'[t]) = cpuTime[t] + BurstsOf(rest[t])
  <2>0. ToSet(gathered') = {}
    BY <1>1 DEF ToSet
  <2>1. t \in ended => AtPlace(t, "finished")'
    BY <1>2, <1>3, <1>6, <1>8, <1>9, <2>0 DEF AtPlace, One
  <2>2. t \notin ended => AtPlace(t, "hand")'
    BY <1>2, <1>3, <1>6, <1>8, <1>9, <2>0 DEF AtPlace, One
  <2>3. FlagsOf(t)'
    BY <1>2, <1>6 DEF FlagsOf
  <2>4. CallsOf(t)'
    BY <1>2, <1>6, <1>7, <1>8, <1>9, <2>0 DEF CallsOf, One
  <2>5. cpuTime'[t] + BurstsOf(rest'[t]) = cpuTime[t] + BurstsOf(rest[t])
    BY <1>2, <1>6, <1>7
  <2>6. "finished" \in Places /\ "hand" \in Places
    BY DEF Places
  <2> QED BY <2>1, <2>2, <2>3, <2>4, <2>5, <2>6
<1>11. OthersStay(Threads)
  BY <1>1 DEF OthersStay
<1>12. /\ InputInv' /\ PlaceInv' /\ FlagInv' /\ CpuTimeConserved'
       /\ \A u \in Threads : CallsOf(u)'
  BY <1>10, <1>11, StayIs
<1>13. MailInv'
  BY <1>2 DEF IInv, MailInv
<1>14. gathered' \in Seq(Threads) /\ Once(gathered')
  BY <1>1 DEF Once
<1>15. receivers' \subseteq Threads /\ mail' \in [Threads -> Nat]
  BY <1>2 DEF IInv, TypeOK
<1>16. None \in TimerKeys(events') <=> gathered' # <<>> /\ Len(gathered') = NThreads
  BY <1>1, <1>4
<1>17. UNCHANGED <<input, reloadDone, ready, cpuVars, loose, lastQuantum, cpuTime, params,
                   spinning, startup>>
  BY <1>1
<1> QED BY <1>1, <1>7, <1>8, <1>9, <1>12, <1>13, <1>14, <1>15, <1>16, <1>17, OverKeeps

-----------------------------------------------------------------------------
(* Preemption                                                              *)

LEMMA GreatestIs ==
    ASSUME NEW n \in Nat, NEW f, \A c \in 1 .. n : f[c] \in Int,
           NEW S \in SUBSET (1 .. n), S # {}
    PROVE  \E c \in S : \A d \in S : f[d] <= f[c]
<1> DEFINE Best(R) == \E c \in R : \A d \in R : f[d] <= f[c]
           Good == {k \in Nat : k <= n => \A R \in SUBSET (1 .. k) : R # {} => Best(R)}
<1>1. 0 \in Good
  <2>1. 1 .. 0 = {}
    OBVIOUS
  <2> QED BY <2>1
<1>2. ASSUME NEW k \in Nat, k \in Good PROVE k + 1 \in Good
  <2> SUFFICES ASSUME k + 1 <= n, NEW R \in SUBSET (1 .. k + 1), R # {} PROVE Best(R)
    OBVIOUS
  <2> DEFINE Q == R \ {k + 1}
  <2>1. Q \in SUBSET (1 .. k) /\ k <= n /\ k + 1 \in 1 .. n
    OBVIOUS
  <2>2. CASE k + 1 \notin R
    <3>1. R \in SUBSET (1 .. k)
      BY <2>2
    <3> QED BY <1>2, <2>1, <3>1
  <2>3. CASE R = {k + 1}
    BY <2>1, <2>3
  <2>4. CASE k + 1 \in R /\ R # {k + 1}
    <3>1. Q # {}
      BY <2>4
    <3>2. PICK c \in Q : \A d \in Q : f[d] <= f[c]
      BY <1>2, <2>1, <3>1
    <3>3. c \in R /\ f[c] \in Int /\ f[k + 1] \in Int /\ \A d \in R : f[d] \in Int
      BY <2>1
    <3>4. CASE f[k + 1] <= f[c]
      BY <2>1, <3>2, <3>3, <3>4
    <3>5. CASE ~(f[k + 1] <= f[c])
      <4>1. \A d \in R : f[d] <= f[k + 1]
        BY <3>2, <3>3, <3>5
      <4> QED BY <2>4, <4>1
    <3> QED BY <3>4, <3>5
  <2> QED BY <2>2, <2>3, <2>4
<1> HIDE DEF Good
<1>3. Nat \subseteq Good
  BY <1>1, <1>2, SetInduction
<1>4. n \in Good
  BY <1>3
<1> QED BY <1>4 DEF Good

\* Only when there is no other CPU is one taken, by a policy with priorities.
LEMMA VictimIs ==
    ASSUME IInv, NEW t \in Threads, NEW pr, ParamsFit(pr), VictimCpu(t, pr) # None
    PROVE  /\ Free = {} /\ ~InTurns
           /\ VictimCpu(t, pr) \in Cpus /\ on[VictimCpu(t, pr)] \in Threads
<1> DEFINE above == {c \in Cpus : pr[on[c]].prio > pr[t].prio}
           best == {c \in above : \A d \in above : pr[on[d]].prio <= pr[on[c]].prio}
<1>1. /\ conf.preempt \/ (conf.policy = "SS" /\ pr[t].forces)
      /\ Free = {} /\ above # {} /\ VictimCpu(t, pr) = Min(best)
  BY DEF VictimCpu
<1>2. ~InTurns
  BY <1>1 DEF IInv, InputInv, InTurns
<1>3. \A c \in Cpus : on[c] \in Threads /\ pr[on[c]].prio \in Int
  <2>1. \A c \in Cpus : on[c] \in Threads
    BY <1>1 DEF IInv, TypeOK, Free
  <2> QED BY <2>1 DEF ParamsFit, ThreadParams
<1>4. best # {}
  <2> DEFINE f == [c \in Cpus |-> pr[on[c]].prio]
  <2>1. NCpus \in Nat /\ above \in SUBSET (1 .. NCpus) /\ \A c \in 1 .. NCpus : f[c] \in Int
    BY <1>3, SizesAssumption DEF Cpus
  <2>2. \A c \in above : f[c] = pr[on[c]].prio
    OBVIOUS
  <2> HIDE DEF f, above
  <2>3. \E c \in above : \A d \in above : f[d] <= f[c]
    BY <1>1, <2>1, GreatestIs
  <2> QED BY <2>2, <2>3
<1>5. best \in SUBSET Nat /\ best \subseteq Cpus
  BY DEF Cpus
<1>6. Min(best) \in best
  <2> HIDE DEF best
  <2> QED BY <1>4, <1>5, MinIs
<1>7. VictimCpu(t, pr) \in Cpus
  <2> HIDE DEF best
  <2> QED BY <1>1, <1>5, <1>6
<1> QED BY <1>1, <1>2, <1>3, <1>7

\* The timer of a thread on a CPU, and what is left until then.
LEMMA TimerOfIs ==
    ASSUME IInv, NEW u \in Threads, OnCpu(u)
    PROVE  /\ TimerOf(u) \in DOMAIN events /\ TimerKey(events[TimerOf(u)]) = u
           /\ events[TimerOf(u)].at - now \in Nat
<1>1. /\ events \in Seq(EventSet) /\ now \in Nat /\ u \in TimerKeys(events)
  BY EventsAre DEF IInv, TimerInv
<1>2. PICK i \in DOMAIN events : TimerKey(events[i]) = u
  BY <1>1 DEF TimerKeys
<1>3. events[i].module = "SCH" /\ events[i].th = u
  <2>1. u # 0 /\ u # -1
    BY DEF Threads
  <2>2. events[i] \in EventSet
    BY <1>1
  <2> QED BY <1>2, <2>1, <2>2, EventIs
<1>4. /\ TimerOf(u) \in DOMAIN events
      /\ events[TimerOf(u)].module = "SCH" /\ events[TimerOf(u)].th = u
  BY <1>3 DEF TimerOf
<1>5. events[TimerOf(u)] \in EventSet /\ events[TimerOf(u)].at >= now
  BY <1>1, <1>4 DEF IInv, TimeForward
<1>6. events[TimerOf(u)].at \in Nat /\ TimerKey(events[TimerOf(u)]) = u
  BY <1>4, <1>5, EventIs
<1> QED BY <1>1, <1>4, <1>5, <1>6

\* What a preempted task has to do again, and the rest of its burst.
LEMMA AgainIs ==
    ASSUME IInv, NEW u \in Threads, NEW left \in Nat, NEW s \in Seq(Actions)
    PROVE  LET again == TaskAgain(u) \o <<Work(left)>> \o s
           IN  /\ again \in Seq(Actions) /\ NextCall(again) = "WORK"
               /\ BurstsOf(again) = left + BurstsOf(s)
<1> DEFINE w == <<Work(left)>> \o s
           task == [op |-> "TASK", value |-> params[u].task]
<1>1. w \in Seq(Actions) /\ NextCall(w) = "WORK" /\ BurstsOf(w) = left + BurstsOf(s)
  BY WorkFirst
<1>2. <<Work(left)>> \in Seq(Actions) /\ Work(0) \in Actions
  BY ActionIs
<1>3. CASE params[u].task = 0
  <2>1. TaskAgain(u) = <<>>
    BY <1>3 DEF TaskAgain
  <2>2. TaskAgain(u) \o <<Work(left)>> = <<Work(left)>>
    BY <1>2, <2>1, ConcatEmptySeq
  <2> QED BY <1>1, <2>2
<1>4. CASE params[u].task # 0
  <2>1. TaskAgain(u) = <<Work(0), task>>
    BY <1>4 DEF TaskAgain
  <2>2. task \in Actions /\ BurstTime(task) = 0
    <3>1. params[u].task \in Nat
      BY DEF IInv, TypeOK
    <3>2. task \in [op : {"PRIORITY", "TASK"}, value : Nat]
      BY <3>1
    <3> QED BY <3>2 DEF Actions, BurstTime
  <2> HIDE DEF task
  <2>3. <<task>> \in Seq(Actions) /\ <<Work(0)>> \in Seq(Actions)
        /\ TaskAgain(u) \in Seq(Actions)
    BY <1>2, <2>1, <2>2
  <2>4. TaskAgain(u) \o <<Work(left)>> \o s = <<Work(0)>> \o (<<task>> \o w)
    <3>1. TaskAgain(u) = <<Work(0)>> \o <<task>>
      BY <1>2, <2>1, <2>2
    <3>2. TaskAgain(u) \o <<Work(left)>> \o s = TaskAgain(u) \o w
      BY <1>2, <2>3, ConcatAssociative
    <3>3. (<<Work(0)>> \o <<task>>) \o w = <<Work(0)>> \o (<<task>> \o w)
      <4> HIDE DEF w
      <4> QED BY <1>1, <2>3, ConcatAssociative
    <3> QED BY <3>1, <3>2, <3>3
  <2> DEFINE v == <<task>> \o w
  <2> HIDE DEF w
  <2>5. v \in Seq(Actions) /\ BurstsOf(v) = BurstsOf(w)
    <3>1. v \in Seq(Actions) /\ BurstsOf(v) = 0 + BurstsOf(w)
      BY <1>1, <2>2, ConsIs, ConsBursts
    <3>2. BurstsOf(w) \in Nat
      BY <1>1, BurstsTyped
    <3> QED BY <3>1, <3>2
  <2> HIDE DEF v
  <2>6. /\ <<Work(0)>> \o v \in Seq(Actions) /\ NextCall(<<Work(0)>> \o v) = "WORK"
        /\ BurstsOf(<<Work(0)>> \o v) = 0 + BurstsOf(v)
    BY <2>5, WorkFirst
  <2>7. BurstsOf(v) \in Nat
    BY <2>5, BurstsTyped
  <2>8. TaskAgain(u) \o <<Work(left)>> \o s = <<Work(0)>> \o v
    BY <2>4 DEF v
  <2> DEFINE again == TaskAgain(u) \o <<Work(left)>> \o s
  <2> HIDE DEF again
  <2>9. again = <<Work(0)>> \o v
    BY <2>8 DEF again
  <2>10. again \in Seq(Actions) /\ NextCall(again) = "WORK"
    BY <2>6, <2>9
  <2>11. BurstsOf(again) = left + BurstsOf(s)
    <3>1. BurstsOf(again) = 0 + BurstsOf(v)
      BY <2>6, <2>9
    <3> QED BY <1>1, <2>5, <2>7, <3>1
  <2> QED BY <2>10, <2>11 DEF again
<1> QED BY <1>3, <1>4

\* The rest of a burst goes back to ready, or a busy wait ends, and the CPU is
\* for the one who wakes up.
LEMMA PreemptionKeeps == ASSUME IInv, NEW t \in Threads, Preemption(t) PROVE IInv'
<1>0. PICK pr : pr = Demoted(params, t)
  OBVIOUS
<1>1. PICK c : c = VictimCpu(t, pr)
  OBVIOUS
<1>2. ParamsFit(pr) /\ OthersKeep(pr, params, t)
  BY <1>0, DemotedIs DEF IInv, ParamsInv
<1>3. Waking(t) /\ c # None
  BY <1>0, <1>1 DEF Preemption
<1>4. Free = {} /\ ~InTurns /\ c \in Cpus /\ on[c] \in Threads
  BY <1>1, <1>2, <1>3, VictimIs
<1>5. PICK u \in Threads : u = on[c]
  BY <1>4
<1>6. OnCpu(u)
  BY <1>4, <1>5 DEF OnCpu
<1>7. PICK i : i = TimerOf(u)
  OBVIOUS
<1>8. i \in DOMAIN events /\ TimerKey(events[i]) = u /\ events[i].at - now \in Nat
  BY <1>6, <1>7, TimerOfIs
<1>9. PICK left \in Nat : left = events[i].at - now
  BY <1>8
<1>10. PICK q \in Seq(Threads), p \in {<<"newjob">>, <<"reload">>} : phase = <<"wake", q, p>>
  <2>1. phase \in Phases /\ phase[1] = "wake"
    BY <1>3 DEF IInv, TypeOK, Waking
  <2> QED BY <2>1 DEF Phases
<1>11. /\ on' = [on EXCEPT ![c] = None] /\ events' = RemoveAt(events, i)
       /\ params' = pr /\ spinning' = [spinning EXCEPT ![u] = FALSE]
       /\ phase' = <<"run", q, p>>
       /\ UNCHANGED <<input, now, reloadDone, context, cpuOf, switching, loose, lastQuantum,
                      startup, finished, gathered, mail>>
  BY <1>0, <1>1, <1>5, <1>7, <1>10 DEF Preemption
<1>12. IF spinning[u]
         THEN /\ receivers' = receivers \cup {u}
              /\ rest' = [rest EXCEPT ![t] = Padded(@)]
              /\ ready' = ready /\ cpuTime' = cpuTime
         ELSE /\ rest' = [rest EXCEPT ![t] = Padded(@),
                                      ![u] = TaskAgain(u) \o <<Work(left)>> \o @]
              /\ cpuTime' = [cpuTime EXCEPT ![u] = @ - left]
              /\ ready' = Enqueue(ready, u, "preempted", pr)
              /\ receivers' = receivers
  BY <1>0, <1>1, <1>5, <1>7, <1>9 DEF Preemption, Preempted
<1>13. /\ conf' = conf /\ now' = now /\ reloadDone' = reloadDone /\ context' = context
       /\ cpuOf' = cpuOf /\ switching' = switching /\ loose' = loose
       /\ lastQuantum' = lastQuantum /\ startup' = startup /\ finished' = finished
       /\ gathered' = gathered /\ mail' = mail
  BY <1>11 DEF input
<1>14. /\ phase[1] = "wake" /\ phase[2] = q /\ phase'[1] = "run" /\ phase'[2] = q
       /\ phase' \in Phases /\ InHand(phase') = ToSet(q) /\ InHand(phase) = ToSet(q)
  <2>1. phase[1] = "wake" /\ phase[2] = q /\ phase'[1] = "run" /\ phase'[2] = q
    BY <1>10, <1>11
  <2>2. phase' \in Phases
    BY <1>11 DEF Phases
  <2> QED BY <2>1, <2>2 DEF InHand
<1>15. /\ q # <<>> /\ Once(q) /\ t = Head(q) /\ t \in ToSet(q)
       /\ NextCall(rest[t]) # "END" /\ AtPlace(t, "hand")
  BY <1>3, <1>14, WakingIs, PlaceIs DEF Waking, IInv
<1>16. /\ ~OnCpu(t) /\ t \notin ToSet(ready) /\ t \notin ToSet(gathered)
       /\ t \notin receivers /\ finished[t] = 0 /\ ~switching[t] /\ ~spinning[t]
  <2>1. /\ ~OnCpu(t) /\ t \notin ToSet(ready) /\ t \notin ToSet(gathered)
        /\ t \notin receivers /\ finished[t] = 0
    BY <1>15 DEF AtPlace, One
  <2>2. FlagsOf(t)
    BY DEF IInv, FlagInv
  <2> QED BY <2>1, <2>2 DEF FlagsOf
<1>17. /\ u # t /\ u # None /\ u \notin ToSet(ready) /\ u \notin ToSet(gathered)
       /\ u \notin receivers /\ finished[u] = 0 /\ u \notin ToSet(q)
       /\ cpuOf[u] = c /\ \A d \in Cpus : on[d] = u <=> d = c
       /\ FlagsOf(u) /\ CallsOf(u)
  BY <1>4, <1>5, <1>6, <1>14, <1>16, OnCpuIs DEF Threads, None
<1>18. /\ rest \in [Threads -> Seq(Actions)] /\ cpuTime \in [Threads -> Int]
       /\ spinning \in [Threads -> BOOLEAN] /\ ready \in Seq(Threads) /\ Once(ready)
       /\ on \in [Cpus -> Threads \cup {None}] /\ receivers \subseteq Threads
       /\ conf \in ConfigSet
  BY DEF IInv, TypeOK, OnceInv, InputInv
<1>19. /\ Padded(rest[t]) \in Seq(Actions) /\ NextCall(Padded(rest[t])) = "WORK"
       /\ BurstsOf(Padded(rest[t])) = BurstsOf(rest[t])
  <2>1. rest[t] # <<>>
    BY <1>15 DEF NextCall
  <2> QED BY <1>18, <2>1, PaddedIs
<1>20. PICK again : again = TaskAgain(u) \o <<Work(left)>> \o rest[u]
  OBVIOUS
<1>21. /\ again \in Seq(Actions) /\ NextCall(again) = "WORK"
       /\ BurstsOf(again) = left + BurstsOf(rest[u])
  BY <1>18, <1>20, AgainIs
<1>22. /\ rest' \in [Threads -> Seq(Actions)] /\ cpuTime' \in [Threads -> Int]
       /\ rest'[t] = Padded(rest[t]) /\ cpuTime'[t] = cpuTime[t]
       /\ \A v \in Threads \ {t, u} : rest'[v] = rest[v] /\ cpuTime'[v] = cpuTime[v]
       /\ spinning[u] => rest'[u] = rest[u] /\ cpuTime'[u] = cpuTime[u]
       /\ ~spinning[u] => rest'[u] = again /\ cpuTime'[u] = cpuTime[u] - left
  <2>1. CASE spinning[u]
    <3>1. rest' = [rest EXCEPT ![t] = Padded(rest[t])] /\ cpuTime' = cpuTime
      BY <1>12, <2>1
    <3> QED BY <1>17, <1>18, <1>19, <2>1, <3>1
  <2>2. CASE ~spinning[u]
    <3>1. rest' = [rest EXCEPT ![t] = Padded(rest[t]), ![u] = again]
      BY <1>12, <1>17, <1>20, <2>2
    <3>2. cpuTime' = [cpuTime EXCEPT ![u] = @ - left]
      BY <1>12, <2>2
    <3>3. cpuTime' \in [Threads -> Int] /\ cpuTime'[t] = cpuTime[t]
          /\ cpuTime'[u] = cpuTime[u] - left
          /\ \A v \in Threads \ {t, u} : cpuTime'[v] = cpuTime[v]
      BY <1>17, <1>18, <3>2
    <3> QED BY <1>17, <1>18, <1>19, <1>21, <2>2, <3>1, <3>3
  <2> QED BY <2>1, <2>2
<1>23. InOrder(ready, OrderKey(pr))
  <2>1. InOrder(ready, OrderKey(params))
    BY <1>4 DEF IInv, TurnInv, InTurns
  <2> QED BY <1>2, <1>16, <2>1, OrderKept DEF IInv
<1>24. /\ ready' \in Seq(Threads) /\ Once(ready') /\ InOrder(ready', OrderKey(pr))
       /\ ToSet(ready') = IF spinning[u] THEN ToSet(ready) ELSE ToSet(ready) \cup {u}
       /\ receivers' = IF spinning[u] THEN receivers \cup {u} ELSE receivers
  <2>1. CASE spinning[u]
    BY <1>12, <1>18, <1>23, <2>1
  <2>2. CASE ~spinning[u]
    <3>1. pr \in [Threads -> ThreadParams]
      BY <1>2 DEF ParamsFit
    <3>2. ready' = Enqueue(ready, u, "preempted", pr)
      BY <1>12, <2>2
    <3> QED BY <1>4, <1>12, <1>17, <1>18, <1>23, <2>2, <3>1, <3>2, EnqueueElements
  <2> QED BY <2>1, <2>2
<1>25. /\ spinning' \in [Threads -> BOOLEAN] /\ ~spinning'[u] /\ spinning'[t] = spinning[t]
       /\ \A v \in Threads \ {t, u} : spinning'[v] = spinning[v]
  BY <1>11, <1>17, <1>18
<1>26. /\ on' \in [Cpus -> Threads \cup {None}] /\ on'[c] = None
       /\ \A d \in Cpus : d # c => on'[d] = on[d]
  BY <1>4, <1>11, <1>18
<1>27. /\ ~OnCpu(u)' /\ \A v \in Threads \ {u} : OnCpu(v)' <=> OnCpu(v)
  <2>1. ASSUME NEW v \in Threads, v # u, NEW d \in Cpus PROVE on'[d] = v <=> on[d] = v
    <3>1. v # None
      BY DEF Threads, None
    <3> QED BY <1>5, <1>26, <2>1, <3>1
  <2>2. \A d \in Cpus : on'[d] # u
    BY <1>17, <1>26
  <2> QED BY <2>1, <2>2 DEF OnCpu
<1>28. Free' = {c}
  <2>1. \A d \in Cpus : on[d] # None
    BY <1>4 DEF Free
  <2>2. \A d \in Cpus : on'[d] = None <=> d = c
    BY <1>26, <2>1
  <2> QED BY <1>4, <2>2 DEF Free
<1>29. OthersStay({t, u})
  <2>1. ASSUME NEW v \in Threads \ {t, u}
        PROVE  /\ rest'[v] = rest[v] /\ cpuTime'[v] = cpuTime[v]
               /\ switching'[v] = switching[v] /\ spinning'[v] = spinning[v]
               /\ OnCpu(v)' <=> OnCpu(v)
               /\ v \in ToSet(gathered') <=> v \in ToSet(gathered)
               /\ finished'[v] = finished[v]
               /\ v \in InHand(phase') <=> v \in InHand(phase)
    BY <1>13, <1>14, <1>22, <1>25, <1>27
  <2>2. ASSUME NEW v \in Threads \ {t, u}
        PROVE  /\ v \in ToSet(ready') <=> v \in ToSet(ready)
               /\ v \in receivers' <=> v \in receivers
    BY <1>24
  <2> QED BY <1>11, <1>14, <2>1, <2>2 DEF OthersStay
<1>30. /\ AtPlace(t, "hand")' /\ FlagsOf(t)' /\ CallsOf(t)'
       /\ cpuTime'[t] + BurstsOf(rest'[t]) = cpuTime[t] + BurstsOf(rest[t])
  <2>1. AtPlace(t, "hand")'
    BY <1>13, <1>14, <1>15, <1>16, <1>17, <1>24, <1>27 DEF AtPlace, One
  <2>2. FlagsOf(t)'
    BY <1>13, <1>16, <1>25 DEF FlagsOf
  <2>3. CallsOf(t)'
    BY <1>13, <1>16, <1>17, <1>19, <1>22, <1>24, <1>25 DEF CallsOf
  <2> QED BY <1>19, <1>22, <2>1, <2>2, <2>3
<1>31. /\ \E x \in Places : AtPlace(u, x)'
       /\ FlagsOf(u)' /\ CallsOf(u)'
  <2>0. "receiving" \in Places /\ "ready" \in Places
    BY DEF Places
  <2>1. CASE spinning[u]
    <3>1. AtPlace(u, "receiving")'
      BY <1>13, <1>14, <1>17, <1>24, <1>27, <2>1 DEF AtPlace, One
    <3>2. ~switching[u] /\ NextCall(rest[u]) = "RECV"
      BY <1>17, <2>1 DEF FlagsOf, CallsOf
    <3>3. FlagsOf(u)'
      BY <1>13, <1>25, <3>2 DEF FlagsOf
    <3>4. CallsOf(u)'
      BY <1>13, <1>14, <1>17, <1>22, <1>24, <1>25, <2>1, <3>2 DEF CallsOf
    <3> QED BY <2>0, <3>1, <3>3, <3>4
  <2>2. CASE ~spinning[u]
    <3>1. AtPlace(u, "ready")'
      BY <1>13, <1>14, <1>17, <1>24, <1>27, <2>2 DEF AtPlace, One
    <3>2. FlagsOf(u)'
      BY <1>13, <1>17, <1>24, <1>25, <2>2 DEF FlagsOf
    <3>3. CallsOf(u)'
      BY <1>13, <1>14, <1>17, <1>21, <1>22, <1>24, <1>25, <2>2 DEF CallsOf
    <3> QED BY <2>0, <3>1, <3>2, <3>3
  <2> QED BY <2>1, <2>2
<1>32. cpuTime'[u] + BurstsOf(rest'[u]) = cpuTime[u] + BurstsOf(rest[u])
  <2>1. cpuTime[u] \in Int /\ BurstsOf(rest[u]) \in Nat
    BY <1>18, BurstsTyped
  <2>2. CASE spinning[u]
    BY <1>22, <2>2
  <2>3. CASE ~spinning[u]
    BY <1>21, <1>22, <2>1, <2>3
  <2> QED BY <2>2, <2>3
<1>33. /\ InputInv' /\ PlaceInv' /\ FlagInv' /\ CpuTimeConserved'
       /\ \A v \in Threads : CallsOf(v)'
  <2>1. \A v \in {t, u} : /\ \E x \in Places : AtPlace(v, x)'
                          /\ FlagsOf(v)' /\ CallsOf(v)'
                          /\ cpuTime'[v] + BurstsOf(rest'[v]) = cpuTime[v] + BurstsOf(rest[v])
    BY <1>30, <1>31, <1>32 DEF Places
  <2> QED BY <1>29, <2>1, StayIs
<1>34. /\ events' \in Seq(EventSet) /\ OnTime(events', now) /\ TimerOnce(events')
       /\ TimerKeys(events') = TimerKeys(events) \ {u}
  <2>1. events \in Seq(EventSet) /\ OnTime(events, now) /\ TimerOnce(events)
    BY EventsAre DEF IInv, TimerInv
  <2>2. TimerKey(events[i]) # -1
    BY <1>8 DEF Threads
  <2> QED BY <1>8, <1>11, <2>1, <2>2, RemoveEvent
<1>35. TypeOK'
  <2>1. events' \in Seq([at : Nat, module : {"SCH", "COM", "GOP"}, th : Threads])
    BY <1>34 DEF EventSet
  <2>2. params' \in [Threads -> [prio : Int, full : BOOLEAN, forces : BOOLEAN, task : Nat]]
    BY <1>2, <1>11 DEF ParamsFit, ThreadParams
  <2>3. receivers' \subseteq Threads
    BY <1>18, <1>24
  <2>4. /\ now \in Nat /\ reloadDone \in BOOLEAN /\ context \in [Cpus -> Threads \cup {None}]
        /\ cpuOf \in [Threads -> Cpus \cup {None}] /\ loose \in [Threads -> BOOLEAN]
        /\ switching \in [Threads -> BOOLEAN] /\ startup \in [Threads -> {"no", "doing", "done"}]
        /\ lastQuantum \in [Threads -> Nat] /\ finished \in [Threads -> Nat]
        /\ gathered \in Seq(Threads) /\ mail \in [Threads -> Nat]
    BY DEF IInv, TypeOK
  <2> QED BY <1>13, <1>14, <1>22, <1>24, <1>25, <1>26, <2>1, <2>2, <2>3, <2>4 DEF TypeOK
<1>36. ParamsInv'
  BY <1>2, <1>11, <1>13 DEF ParamsInv, ParamsFit
<1>37. OnceInv'
  BY <1>13, <1>14, <1>15, <1>24 DEF IInv, OnceInv
<1>38. CpuInv'
  <2>1. \A d \in Cpus : on'[d] # None => context'[d] = on'[d]
    BY <1>13, <1>26 DEF IInv, CpuInv
  <2>2. \A d \in Cpus : context'[d] # None => cpuOf'[context'[d]] = d
    BY <1>13 DEF IInv, CpuInv
  <2> QED BY <1>14, <2>1, <2>2 DEF CpuInv
<1>39. CallInv'
  BY <1>14, <1>15, <1>19, <1>22, <1>33 DEF CallInv
<1>40. TimerInv'
  <2>1. \A v \in Threads : v \in TimerKeys(events) <=> OnCpu(v)
    BY DEF IInv, TimerInv
  <2>2. None \in TimerKeys(events) <=> gathered # <<>> /\ Len(gathered) = NThreads
    BY DEF IInv, TimerInv
  <2>3. \A v \in Threads : v \in TimerKeys(events') <=> OnCpu(v)'
    BY <1>27, <1>34, <2>1
  <2> QED BY <1>13, <1>17, <1>34, <2>2, <2>3 DEF TimerInv
<1>41. TimeForward'
  <2>1. now' \in Nat
    BY <1>13 DEF IInv, TypeOK
  <2> QED BY <1>13, <1>34, <2>1, TimeKept
<1>42. MailInv'
  <2>1. spinning[u] => conf.busy
    BY <1>17 DEF FlagsOf
  <2> QED BY <1>13, <1>24, <2>1 DEF IInv, MailInv
<1>43. DispatchInv'
  BY <1>14, <1>28 DEF DispatchInv, FreeAtMostOne
<1>44. TurnInv'
  <2>1. OrderKey(params)' = OrderKey(pr)
    BY <1>11, <1>13 DEF OrderKey, Order
  <2> QED BY <1>4, <1>13, <1>24, <2>1 DEF TurnInv, InTurns, InOrder
<1>45. NoIdleCpu' /\ NeverPanics'
  BY <1>14, PhaseIs DEF NoIdleCpu, Idle, NeverPanics
<1> QED BY <1>33, <1>35, <1>36, <1>37, <1>38, <1>39, <1>40, <1>41, <1>42, <1>43, <1>44, <1>45
        DEF IInv

-----------------------------------------------------------------------------
(* The first state                                                         *)

\* f fills ready with the first n threads, one by one.
Fills(pr, n, f) ==
    /\ f \in [0 .. n -> Seq(Threads)] /\ f[0] = <<>>
    /\ \A i \in 1 .. n : f[i] = Enqueue(f[i - 1], i, "loose", pr)

LEMMA FillExists ==
    ASSUME conf \in ConfigSet, NEW pr \in [Threads -> ThreadParams]
    PROVE  \E f : Fills(pr, NThreads, f)
<1> DEFINE Good == {n \in Nat : n <= NThreads => \E f : Fills(pr, n, f)}
<1>0. NThreads \in Nat
  BY SizesAssumption
<1>1. 0 \in Good
  <2>1. Fills(pr, 0, [i \in 0 .. 0 |-> <<>>])
    BY DEF Fills
  <2> QED BY <2>1
<1>2. ASSUME NEW n \in Nat, n \in Good PROVE n + 1 \in Good
  <2> SUFFICES ASSUME n + 1 <= NThreads PROVE \E f : Fills(pr, n + 1, f)
    OBVIOUS
  <2>0. PICK f : Fills(pr, n, f)
    BY <1>0, <1>2
  <2>1. /\ f \in [0 .. n -> Seq(Threads)] /\ f[0] = <<>>
        /\ \A i \in 1 .. n : f[i] = Enqueue(f[i - 1], i, "loose", pr)
    BY <2>0 DEF Fills
  <2>2. PICK q : q = Enqueue(f[n], n + 1, "loose", pr)
    OBVIOUS
  <2>3. q \in Seq(Threads)
    <3>1. f[n] \in Seq(Threads) /\ n + 1 \in Threads
      BY <1>0, <2>1 DEF Threads
    <3> QED BY <2>2, <3>1, EnqueueElements
  <2> DEFINE g == [i \in 0 .. n + 1 |-> IF i = n + 1 THEN q ELSE f[i]]
  <2>4. g \in [0 .. n + 1 -> Seq(Threads)] /\ g[0] = <<>>
    BY <2>1, <2>3
  <2>5. ASSUME NEW i \in 1 .. n + 1 PROVE g[i] = Enqueue(g[i - 1], i, "loose", pr)
    <3>1. CASE i = n + 1
      <4>1. i - 1 = n /\ i - 1 \in 0 .. n + 1 /\ i - 1 # n + 1 /\ i \in 0 .. n + 1
        BY <3>1
      <4>2. g[i - 1] = f[n] /\ g[i] = q
        BY <3>1, <4>1
      <4> HIDE DEF g
      <4> QED BY <2>2, <3>1, <4>2
    <3>2. CASE i # n + 1
      <4>1. i \in 1 .. n /\ i - 1 \in 0 .. n + 1 /\ i - 1 # n + 1 /\ i \in 0 .. n + 1
        BY <3>2
      <4>2. g[i - 1] = f[i - 1] /\ g[i] = f[i]
        BY <3>2, <4>1
      <4> HIDE DEF g
      <4> QED BY <2>1, <4>1, <4>2
    <3> QED BY <3>1, <3>2
  <2>6. Fills(pr, n + 1, g)
    <3> HIDE DEF g
    <3> QED BY <2>4, <2>5 DEF Fills
  <2> QED BY <2>6
<1> HIDE DEF Good
<1>3. NThreads \in Good
  BY <1>0, <1>1, <1>2, SetInduction
<1> QED BY <1>0, <1>3 DEF Good

\* SCHEDULER_Init leaves every thread in ready once, and in its order.
LEMMA FirstReadyIs ==
    ASSUME conf \in ConfigSet, NEW pr \in [Threads -> ThreadParams]
    PROVE  LET q == FirstReady(pr)
           IN  /\ q \in Seq(Threads) /\ ToSet(q) = Threads /\ Once(q)
               /\ ~InTurns => InOrder(q, OrderKey(pr))
<1> DEFINE D == 0 .. NThreads
           filled[n \in D] == IF n = 0 THEN <<>> ELSE Enqueue(filled[n - 1], n, "loose", pr)
           Is(h) == h = [n \in D |-> IF n = 0 THEN <<>> ELSE Enqueue(h[n - 1], n, "loose", pr)]
           Stage(q, n) == /\ q \in Seq(Threads) /\ ToSet(q) = 1 .. n /\ Once(q)
                          /\ ~InTurns => InOrder(q, OrderKey(pr))
<1>0. NThreads \in Nat
  BY SizesAssumption
<1>1. \E f : Is(f)
  <2>1. PICK f : Fills(pr, NThreads, f)
    BY FillExists
  <2>2. f \in [D -> Seq(Threads)]
    BY <2>1 DEF Fills
  <2>3. ASSUME NEW n \in D
        PROVE  f[n] = IF n = 0 THEN <<>> ELSE Enqueue(f[n - 1], n, "loose", pr)
    <3>1. n = 0 \/ n \in 1 .. NThreads
      BY <1>0
    <3> QED BY <2>1, <3>1 DEF Fills
  <2>4. Is(f)
    BY <2>2, <2>3
  <2> HIDE DEF Is
  <2> QED BY <2>4
<1>2. filled = CHOOSE h : Is(h)
  BY DEF filled
<1>3. Is(filled)
  <2> HIDE DEF Is, filled
  <2> QED BY <1>1, <1>2
<1>4. FirstReady(pr) = filled[NThreads]
  BY DEF FirstReady
<1> HIDE DEF filled
<1>5. /\ filled[0] = <<>>
      /\ \A n \in 1 .. NThreads : filled[n] = Enqueue(filled[n - 1], n, "loose", pr)
  <2>1. \A n \in D : filled[n] = IF n = 0 THEN <<>> ELSE Enqueue(filled[n - 1], n, "loose", pr)
    BY <1>3
  <2>2. 0 \in D /\ \A n \in 1 .. NThreads : n \in D /\ n # 0
    BY <1>0
  <2> QED BY <2>1, <2>2
<1> DEFINE Good == {n \in Nat : n <= NThreads => Stage(filled[n], n)}
<1>6. 0 \in Good
  <2>1. <<>> \in Seq(Threads) /\ ToSet(<<>>) = {} /\ 1 .. 0 = {} /\ Once(<<>>)
        /\ InOrder(<<>>, OrderKey(pr))
    BY DEF ToSet, Once, InOrder
  <2> QED BY <1>5, <2>1
<1>7. ASSUME NEW n \in Nat, n \in Good PROVE n + 1 \in Good
  <2> HIDE DEF Stage
  <2> SUFFICES ASSUME n + 1 <= NThreads PROVE Stage(filled[n + 1], n + 1)
    OBVIOUS
  <2>1. n + 1 \in 1 .. NThreads /\ (n + 1) - 1 = n /\ n <= NThreads /\ n + 1 \in Threads
    BY <1>0 DEF Threads
  <2>2. Stage(filled[n], n)
    BY <1>7, <2>1
  <2> DEFINE q == filled[n]
             p == filled[n + 1]
  <2>3. /\ q \in Seq(Threads) /\ ToSet(q) = 1 .. n /\ Once(q)
        /\ ~InTurns => InOrder(q, OrderKey(pr))
    BY <2>2 DEF Stage
  <2>4. p = Enqueue(q, n + 1, "loose", pr)
    BY <1>5, <2>1
  <2> HIDE DEF p, q
  <2>5. n + 1 \notin 1 .. n /\ 1 .. n + 1 = (1 .. n) \cup {n + 1}
    OBVIOUS
  <2>6. /\ p \in Seq(Threads) /\ ToSet(p) = ToSet(q) \cup {n + 1} /\ Once(p)
        /\ ~InTurns => InOrder(p, OrderKey(pr))
    BY <2>1, <2>3, <2>4, <2>5, EnqueueElements
  <2> QED BY <2>3, <2>5, <2>6 DEF Stage, p
<1>8. NThreads \in Good
  <2> HIDE DEF Good
  <2> QED BY <1>0, <1>6, <1>7, SetInduction
<1>9. Stage(filled[NThreads], NThreads)
  <2> HIDE DEF Stage
  <2> QED BY <1>0, <1>8
<1> QED BY <1>4, <1>9 DEF Threads

LEMMA InitHolds == Init => IInv
<1> SUFFICES ASSUME Init PROVE IInv
  OBVIOUS
<1>1. PICK s \in Setups : conf = s.conf /\ prog = s.prog
  BY DEF Init
<1>2. /\ conf \in ConfigSet /\ (conf.preempt => conf.policy = "SVR4")
      /\ prog \in [Threads -> Seq(Actions)]
      /\ \A t \in Threads : prog[t] # <<>> /\ Head(prog[t]).op = "WORK"
  BY <1>1, SetupsAssumption
<1>3. /\ now = 0 /\ events = <<>> /\ phase = <<"boot">> /\ reloadDone = TRUE
      /\ params = [t \in Threads |-> [prio |-> FirstPrio(t), full |-> FALSE,
                                      forces |-> FALSE, task |-> 0]]
      /\ ready = FirstReady(params)
      /\ on = [c \in Cpus |-> None] /\ context = [c \in Cpus |-> None]
      /\ cpuOf = [t \in Threads |-> None]
      /\ rest = prog
      /\ loose = [t \in Threads |-> TRUE]
      /\ switching = [t \in Threads |-> FALSE] /\ spinning = [t \in Threads |-> FALSE]
      /\ startup = [t \in Threads |-> "no"]
      /\ lastQuantum = [t \in Threads |-> 0] /\ cpuTime = [t \in Threads |-> 0]
      /\ finished = [t \in Threads |-> 0]
      /\ gathered = <<>> /\ receivers = {} /\ mail = [t \in Threads |-> 0]
  BY DEF Init
<1>4. ParamsFit(params)
  <2>1. ASSUME NEW t \in Threads
        PROVE  FirstPrio(t) \in Int /\ (conf.policy = "SVR4" => FirstPrio(t) \in 0 .. BestPrio)
    BY PrioAssumption DEF FirstPrio, BestPrio
  <2>2. params \in [Threads -> ThreadParams]
    BY <1>3, <2>1 DEF ThreadParams
  <2>3. \A t \in Threads : params[t].prio = FirstPrio(t)
    BY <1>3
  <2> QED BY <2>1, <2>2, <2>3 DEF ParamsFit
<1>5. /\ ready \in Seq(Threads) /\ ToSet(ready) = Threads /\ Once(ready)
      /\ ~InTurns => InOrder(ready, OrderKey(params))
  BY <1>2, <1>3, <1>4, FirstReadyIs DEF ParamsFit
<1>6. phase \in Phases /\ phase[1] = "boot" /\ InHand(phase) = {}
  BY <1>3, PhaseIs
<1>7. /\ \A t \in Threads : ~OnCpu(t)
      /\ ToSet(gathered) = {} /\ Once(gathered) /\ TimerKeys(events) = {}
  BY <1>3 DEF OnCpu, Threads, None, ToSet, Once, TimerKeys
<1>8. TypeOK
  <2>1. params \in [Threads -> [prio : Int, full : BOOLEAN, forces : BOOLEAN, task : Nat]]
    BY <1>4 DEF ParamsFit, ThreadParams
  <2>2. events \in Seq([at : Nat, module : {"SCH", "COM", "GOP"}, th : Threads])
    BY <1>3
  <2> QED BY <1>2, <1>3, <1>5, <1>6, <2>1, <2>2 DEF TypeOK
<1>9. InputInv /\ ParamsInv
  BY <1>2, <1>4 DEF InputInv, ParamsInv
<1>10. PlaceInv
  <2>1. ASSUME NEW t \in Threads PROVE AtPlace(t, "ready")
    BY <1>3, <1>5, <1>6, <1>7 DEF AtPlace, One
  <2> QED BY <2>1 DEF PlaceInv, Places
<1>11. OnceInv
  BY <1>5, <1>6, <1>7 DEF OnceInv
<1>12. CpuInv
  BY <1>3, <1>6 DEF CpuInv
<1>13. FlagInv
  BY <1>3 DEF FlagInv, FlagsOf
<1>14. CallInv
  BY <1>2, <1>3, <1>6, <1>7 DEF CallInv, CallsOf, NextCall
<1>15. TimerInv
  BY <1>3, <1>7 DEF TimerInv, TimerOnce
<1>16. TimeForward
  BY <1>3 DEF TimeForward
<1>17. MailInv
  BY <1>3 DEF MailInv
<1>18. DispatchInv
  BY <1>3, <1>6 DEF DispatchInv
<1>19. TurnInv
  <2>1. CASE InTurns
    <3>1. \A i \in DOMAIN ready : loose[ready[i]]
      <4>1. \A i \in DOMAIN ready : ready[i] \in Threads
        BY <1>5
      <4> QED BY <1>3, <4>1
    <3> QED BY <2>1, <3>1 DEF TurnInv, InTurns
  <2>2. CASE ~InTurns
    BY <1>5, <2>2 DEF TurnInv, InTurns
  <2> QED BY <2>1, <2>2
<1>20. CpuTimeConserved
  <2>1. ASSUME NEW t \in Threads PROVE cpuTime[t] + BurstsOf(rest[t]) = BurstsOf(prog[t])
    <3>1. BurstsOf(prog[t]) \in Nat
      BY <1>2, BurstsTyped
    <3> QED BY <1>3, <3>1
  <2> QED BY <2>1 DEF CpuTimeConserved
<1>21. NoIdleCpu /\ NeverPanics
  BY <1>6, PhaseIs DEF NoIdleCpu, Idle, NeverPanics
<1> QED BY <1>8, <1>9, <1>10, <1>11, <1>12, <1>13, <1>14, <1>15, <1>16, <1>17, <1>18, <1>19,
           <1>20, <1>21 DEF IInv

-----------------------------------------------------------------------------
(* Every step                                                              *)

LEMMA NextKeeps == ASSUME IInv, [Next]_vars PROVE IInv'
<1>1. CASE UNCHANGED vars
  <2>1. /\ conf' = conf /\ prog' = prog /\ now' = now /\ events' = events /\ phase' = phase
        /\ reloadDone' = reloadDone /\ ready' = ready /\ on' = on /\ context' = context
        /\ cpuOf' = cpuOf /\ switching' = switching /\ rest' = rest /\ loose' = loose
        /\ lastQuantum' = lastQuantum /\ cpuTime' = cpuTime /\ params' = params
        /\ spinning' = spinning /\ startup' = startup /\ finished' = finished
        /\ gathered' = gathered /\ receivers' = receivers /\ mail' = mail
    BY <1>1 DEF vars, input, cpuVars, runVars, comVars
  <2>2. /\ \A t \in Threads : OnCpu(t)' <=> OnCpu(t)
        /\ Free' = Free
    BY <2>1 DEF OnCpu, Free
  <2>3. TypeOK' /\ InputInv'
    BY <2>1 DEF IInv, TypeOK, InputInv
  <2>4. ParamsInv'
    BY <2>1 DEF IInv, ParamsInv, ParamsFit
  <2>5. PlaceInv'
    BY <2>1, <2>2 DEF IInv, PlaceInv, AtPlace
  <2>6. OnceInv' /\ CpuInv'
    BY <2>1 DEF IInv, OnceInv, CpuInv
  <2>7. FlagInv' /\ CallInv'
    BY <2>1, <2>2 DEF IInv, FlagInv, CallInv, FlagsOf, CallsOf
  <2>8. TimerInv' /\ MailInv'
    BY <2>1, <2>2 DEF IInv, TimerInv, MailInv
  <2>9. TimeForward' /\ NoIdleCpu' /\ NeverPanics'
    BY <2>1, <2>2 DEF IInv, TimeForward, NoIdleCpu, NeverPanics, Idle
  <2>10. DispatchInv'
    BY <2>1, <2>2 DEF IInv, DispatchInv, FreeAtMostOne
  <2>11. TurnInv'
    BY <2>1, <2>2 DEF IInv, TurnInv, HasItsCpu, InOrder, OrderKey, Order
  <2>12. CpuTimeConserved'
    <3>1. OthersStay({})
      BY <2>1, <2>2 DEF OthersStay, input
    <3> QED BY <3>1, StayIs
  <2> QED BY <2>3, <2>4, <2>5, <2>6, <2>7, <2>8, <2>9, <2>10, <2>11, <2>12 DEF IInv
<1>2. CASE ContextSwitched
  BY <1>2, ContextSwitchedKeeps
<1>3. CASE BusyWaitOver
  BY <1>3, BusyWaitOverKeeps
<1>4. CASE BurstOver
  BY <1>4, BurstOverKeeps
<1>5. CASE Arrive
  BY <1>5, ArriveKeeps
<1>6. CASE CloseGlobal
  BY <1>6, CloseGlobalKeeps
<1>7. CASE NewJob
  BY <1>7, NewJobKeeps
<1>8. CASE Dispatch
  BY <1>8, DispatchKeeps
<1>9. CASE ReloadEvents
  BY <1>9, ReloadEventsKeeps
<1>10. CASE RunPreemptor
  BY <1>10, RunPreemptorKeeps
<1>11. ASSUME NEW t \in Threads, WakeUp(t) PROVE IInv'
  BY <1>11, WakeUpKeeps
<1>12. ASSUME NEW t \in Threads, Preemption(t) PROVE IInv'
  BY <1>12, PreemptionKeeps
<1>13. ASSUME NEW t \in Threads, Operation(t) PROVE IInv'
  BY <1>13, OperationKeeps
<1> QED BY <1>1, <1>2, <1>3, <1>4, <1>5, <1>6, <1>7, <1>8, <1>9, <1>10, <1>11, <1>12, <1>13
        DEF Next

\* From SCHEDULER_Init on, and after every step of event_manager, every thread is
\* in one place, with the timer, the flags and the next action that fit there,
\* and the handler that runs next finds what it needs.
THEOREM Invariant == Spec => []IInv
<1>1. Init => IInv
  BY InitHolds
<1>2. IInv /\ [Next]_vars => IInv'
  BY NextKeeps
<1> QED BY <1>1, <1>2, PTL DEF Spec

-----------------------------------------------------------------------------
(* Threads and their time are kept                                         *)

LEMMA OnceTimes ==
    ASSUME NEW q \in Seq(Threads), Once(q), NEW t
    PROVE  Times(q, t) = One(t \in ToSet(q))
<1> DEFINE S == {i \in DOMAIN q : q[i] = t}
<1>1. CASE t \in ToSet(q)
  <2>1. PICK i \in DOMAIN q : q[i] = t
    BY <1>1 DEF ToSet
  <2>2. S = {i}
    BY <2>1 DEF Once
  <2>3. Cardinality(S) = 1
    BY <2>2, FS_Singleton
  <2> QED BY <1>1, <2>3 DEF Times, One
<1>2. CASE t \notin ToSet(q)
  <2>1. S = {}
    BY <1>2 DEF ToSet
  <2>2. Cardinality(S) = 0
    BY <2>1, FS_EmptySet
  <2> QED BY <1>2, <2>2 DEF Times, One
<1> QED BY <1>1, <1>2

LEMMA OneCpu ==
    ASSUME IInv, NEW t \in Threads
    PROVE  Cardinality({c \in Cpus : on[c] = t}) = One(OnCpu(t))
<1> DEFINE S == {c \in Cpus : on[c] = t}
<1>1. CASE OnCpu(t)
  <2>1. S = {cpuOf[t]}
    BY <1>1, OnCpuIs
  <2>2. Cardinality(S) = 1
    BY <2>1, FS_Singleton
  <2> QED BY <1>1, <2>2 DEF One
<1>2. CASE ~OnCpu(t)
  <2>1. S = {}
    BY <1>2 DEF OnCpu
  <2>2. Cardinality(S) = 0
    BY <2>1, FS_EmptySet
  <2> QED BY <1>2, <2>2 DEF One
<1> QED BY <1>1, <1>2

LEMMA OneTimer ==
    ASSUME IInv, NEW t \in Threads
    PROVE  IF OnCpu(t) THEN Cardinality(Timers(t)) = 1 ELSE Timers(t) = {}
<1>1. /\ events \in Seq(EventSet) /\ TimerOnce(events)
      /\ t \in TimerKeys(events) <=> OnCpu(t)
  BY EventsAre DEF IInv, TimerInv
<1>2. t # 0 /\ t # -1
  BY DEF Threads
<1>3. \A i \in DOMAIN events : i \in Timers(t) <=> TimerKey(events[i]) = t
  <2> SUFFICES ASSUME NEW i \in DOMAIN events
               PROVE  i \in Timers(t) <=> TimerKey(events[i]) = t
    OBVIOUS
  <2>1. events[i] \in EventSet
    BY <1>1
  <2> QED BY <1>2, <2>1, EventIs DEF Timers
<1>4. Timers(t) \subseteq DOMAIN events
  BY DEF Timers
<1>5. CASE OnCpu(t)
  <2>1. PICK i \in DOMAIN events : TimerKey(events[i]) = t
    BY <1>1, <1>5 DEF TimerKeys
  <2>2. Timers(t) = {i}
    BY <1>1, <1>2, <1>3, <1>4, <2>1 DEF TimerOnce
  <2> QED BY <1>5, <2>2, FS_Singleton
<1>6. CASE ~OnCpu(t)
  <2>1. \A i \in DOMAIN events : TimerKey(events[i]) # t
    BY <1>1, <1>2, <1>6 DEF TimerKeys
  <2> QED BY <1>3, <1>4, <1>6, <2>1
<1> QED BY <1>5, <1>6

LEMMA InOnePlace == IInv => OnePlace
<1> SUFFICES ASSUME IInv, Idle, NEW t \in Threads
             PROVE  /\ Cardinality({c \in Cpus : on[c] = t}) + Times(ready, t)
                         + Times(gathered, t) + One(t \in receivers) + finished[t] = 1
                    /\ IF \E c \in Cpus : on[c] = t
                         THEN on[cpuOf[t]] = t /\ Cardinality(Timers(t)) = 1
                         ELSE Timers(t) = {}
  BY DEF OnePlace
<1>1. /\ Cardinality({c \in Cpus : on[c] = t}) = One(OnCpu(t))
      /\ Times(ready, t) = One(t \in ToSet(ready))
      /\ Times(gathered, t) = One(t \in ToSet(gathered))
  BY OneCpu, OnceTimes DEF IInv, TypeOK, OnceInv
<1>2. InHand(phase) = {}
  BY PhaseIs DEF Idle
<1>3. PICK p \in Places : AtPlace(t, p)
  BY DEF IInv, PlaceInv
<1>4. p \in {"cpu", "ready", "gathered", "receiving", "finished"}
  BY <1>2, <1>3 DEF AtPlace, Places
<1>5. One(OnCpu(t)) + One(t \in ToSet(ready)) + One(t \in ToSet(gathered))
        + One(t \in receivers) + finished[t] = 1
  BY <1>3, <1>4 DEF AtPlace, One
<1>6. IF OnCpu(t) THEN on[cpuOf[t]] = t /\ Cardinality(Timers(t)) = 1 ELSE Timers(t) = {}
  BY OneTimer, OnCpuIs
<1> QED BY <1>1, <1>5, <1>6 DEF OnCpu

\* Between events every thread is on the one CPU it believes to be on with its
\* only timer, or in ready, or blocked, or finished, and nowhere else; the CPU
\* time put in its account and what is left of its bursts are the bursts of its
\* trace, however quanta, startups, busy waits and preemption cut them; and
\* event_manager never meets an event of the past.
THEOREM Accounted == Spec => []ThreadsAccounted
<1>1. IInv => ThreadsAccounted
  BY InOnePlace DEF IInv, ThreadsAccounted
<1> QED BY <1>1, Invariant, PTL

-----------------------------------------------------------------------------
(* Nobody is forgotten                                                     *)

LEMMA OnlyWaiting == IInv => StuckOnlyIfWaiting
<1> SUFFICES ASSUME IInv, Ended, NEW t \in Threads
             PROVE  \/ finished[t] = 1
                    \/ Contains(gathered, t) /\ Len(gathered) < NThreads
                    \/ t \in receivers /\ (conf.busy \/ mail[t] = 0)
  BY DEF StuckOnlyIfWaiting
<1>1. phase = <<"idle">> /\ events = <<>> /\ InHand(phase) = {}
  BY PhaseIs DEF Ended, Idle
<1>2. TimerKeys(events) = {}
  BY <1>1 DEF TimerKeys
<1>3. /\ \A u \in Threads : ~OnCpu(u)
      /\ ~(gathered # <<>> /\ Len(gathered) = NThreads)
  BY <1>2 DEF IInv, TimerInv
<1>4. ready = <<>>
  <2>1. Free = Cpus
    BY <1>3 DEF IInv, TypeOK, Free, OnCpu
  <2>2. 1 \in Cpus
    BY SizesAssumption DEF Cpus
  <2> QED BY <1>1, <2>1, <2>2 DEF IInv, NoIdleCpu, Idle
<1>5. ToSet(ready) = {}
  BY <1>4 DEF ToSet
<1>6. PICK p \in Places : AtPlace(t, p)
  BY DEF IInv, PlaceInv
<1>7. \/ finished[t] = 1 \/ t \in ToSet(gathered) \/ t \in receivers
  BY <1>1, <1>3, <1>5, <1>6 DEF AtPlace, Places, One
<1>8. ASSUME t \in ToSet(gathered) PROVE Contains(gathered, t) /\ Len(gathered) < NThreads
  <2>1. gathered \in Seq(Threads) /\ Once(gathered)
    BY DEF IInv, TypeOK, OnceInv
  <2>2. Contains(gathered, t)
    BY <1>8 DEF ToSet, Contains
  <2>3. ToSet(gathered) \subseteq Threads /\ Cardinality(ToSet(gathered)) = Len(gathered)
    BY <2>1, ElementsTyped, OnceCounts
  <2>4. NThreads \in Nat /\ IsFiniteSet(Threads) /\ Cardinality(Threads) = NThreads
    BY SizesAssumption, UpTo DEF Threads
  <2>5. Len(gathered) <= NThreads
    BY <2>3, <2>4, FS_Subset
  <2>6. gathered # <<>>
    BY <1>8 DEF ToSet
  <2>7. Len(gathered) \in Nat /\ Len(gathered) # NThreads
    BY <1>3, <2>1, <2>6
  <2> QED BY <2>2, <2>4, <2>5, <2>7
<1>9. ASSUME t \in receivers PROVE conf.busy \/ mail[t] = 0
  BY <1>9 DEF IInv, MailInv
<1> QED BY <1>7, <1>8, <1>9

\* When event_manager waits for the next event no CPU is free while a thread is
\* in ready, SCHEDULER_next_thread_to_run never panics with "Null thread scheduled
\* to run!", and when the events run out the threads that have not finished are
\* blocked in a receive or in a collective.
THEOREM Forgotten == Spec => []NobodyForgotten
<1>1. IInv => NobodyForgotten
  BY OnlyWaiting DEF IInv, NobodyForgotten
<1> QED BY <1>1, Invariant, PTL

-----------------------------------------------------------------------------
(* Turns                                                                   *)

\* Nobody leaves ready.
Waits == /\ ToSet(ready) \subseteq ToSet(ready')
         /\ \A c \in Cpus : on[c] = None => on'[c] \notin ToSet(ready)

LEMMA WaitsIs ==
    ASSUME IInv, params' \in [Threads -> ThreadParams],
           \/ ready' = ready
           \/ \E u \in Threads, how \in {"keep", "loose", "preempted"} :
                 ready' = Enqueue(ready, u, how, params'),
           NEW t \in Threads, t \notin ToSet(ready),
           \A c \in Cpus : on[c] = None => on'[c] \in {None, t}
    PROVE  Waits
<1>1. ready \in Seq(Threads) /\ conf \in ConfigSet
  BY DEF IInv, TypeOK, InputInv
<1>2. ToSet(ready) \subseteq ToSet(ready')
  BY <1>1, EnqueueElements
<1>3. None \notin ToSet(ready)
  BY <1>1, ElementsTyped DEF Threads, None
<1> QED BY <1>2, <1>3 DEF Waits

\* The same when no CPU is taken.
LEMMA WaitsToo ==
    ASSUME IInv, params' \in [Threads -> ThreadParams],
           \/ ready' = ready
           \/ \E u \in Threads, how \in {"keep", "loose", "preempted"} :
                 ready' = Enqueue(ready, u, how, params'),
           \A c \in Cpus : on[c] = None => on'[c] = None
    PROVE  Waits
<1>1. ready \in Seq(Threads) /\ conf \in ConfigSet
  BY DEF IInv, TypeOK, InputInv
<1>2. ToSet(ready) \subseteq ToSet(ready')
  BY <1>1, EnqueueElements
<1>3. None \notin ToSet(ready)
  BY <1>1, ElementsTyped DEF Threads, None
<1> QED BY <1>2, <1>3 DEF Waits

LEMMA OperationWaits ==
    ASSUME IInv, params' \in [Threads -> ThreadParams], NEW t \in Threads, Operation(t)
    PROVE  Waits
<1> DEFINE Grows == \/ ready' = ready
                    \/ \E u \in Threads, how \in {"keep", "loose", "preempted"} :
                          ready' = Enqueue(ready, u, how, params')
<1>1. \A how \in {"keep", "loose"} : \A r, pr : ThreadToReady(t, how, r, pr) => Grows
  BY DEF ThreadToReady
<1>2. \A r, pr : GoOn(t, r, pr) => Grows
  BY <1>1 DEF GoOn
<1>3. CASE RecvWaits(t)
  <2>1. phase = <<"op", t>>
    BY <1>3 DEF RecvWaits, NextOp
  <2>2. t \notin ToSet(ready) /\ cpuOf[t] \in Cpus
    BY <2>1, OpIs
  <2>3. on \in [Cpus -> Threads \cup {None}]
    BY DEF IInv, TypeOK
  <2>4. ready' = ready /\ (on' = [on EXCEPT ![cpuOf[t]] = t] \/ on' = on)
    BY <1>3 DEF RecvWaits
  <2>5. \A c \in Cpus : on[c] = None => on'[c] \in {None, t}
    BY <2>2, <2>3, <2>4
  <2> QED BY <2>2, <2>4, <2>5, WaitsIs
<1>4. CASE Finish(t) \/ GlobalOperation(t)
  <2>1. ready' = ready /\ on' = on
    BY <1>4 DEF Finish, GlobalOperation, cpuVars
  <2> QED BY <2>1, WaitsToo
<1>5. CASE Burst(t) \/ Event(t) \/ SpendStartup(t) \/ Send(t) \/ RecvArrived(t)
  <2>1. on' = on
    BY <1>5 DEF Burst, Event, SpendStartup, Send, RecvArrived, cpuVars
  <2>2. Grows
    <3> HIDE DEF Grows
    <3>1. Burst(t) => Grows
      BY <1>1 DEF Burst
    <3>2. Event(t) => Grows
      <4> SUFFICES ASSUME Event(t) PROVE Grows
        OBVIOUS
      <4>1. ready' = ready \/ GoOn(t, Consumed(t), AfterEvent(t, Head(rest[t])))
        BY DEF Event
      <4>2. ready' = ready => Grows
        BY DEF Grows
      <4> QED BY <1>2, <4>1, <4>2
    <3>3. SpendStartup(t) => Grows
      BY <1>1 DEF SpendStartup
    <3>4. Send(t) => Grows
      BY <1>2 DEF Send
    <3>5. RecvArrived(t) => Grows
      BY <1>2 DEF RecvArrived
    <3> QED BY <1>5, <3>1, <3>2, <3>3, <3>4, <3>5
  <2> QED BY <2>1, <2>2, WaitsToo
<1> QED BY <1>3, <1>4, <1>5 DEF Operation

\* Only SCHEDULER_next_thread_to_run takes a thread from ready.
LEMMA TakesTurns ==
    ASSUME IInv, params' \in [Threads -> ThreadParams], [Next]_vars
    PROVE  \/ NextThreadToRun /\ CanDispatch
           \/ Waits
<1>1. CASE UNCHANGED vars
  <2>1. ready' = ready /\ on' = on
    BY <1>1 DEF vars, cpuVars
  <2> QED BY <2>1, WaitsToo
<1>2. CASE ContextSwitched
  <2>0. PICK t \in Threads : t = Head(events).th
    BY <1>2, TakenIs DEF ContextSwitched
  <2>1. Takes("SCH") /\ on' = [on EXCEPT ![cpuOf[t]] = t] /\ ready' = ready
    BY <1>2, <2>0 DEF ContextSwitched
  <2>2. t \notin ToSet(ready) /\ on \in [Cpus -> Threads \cup {None}] /\ cpuOf[t] \in Cpus
    BY <2>0, <2>1, TimerOutIs, OnCpuIs DEF IInv, TypeOK
  <2>3. \A c \in Cpus : on[c] = None => on'[c] \in {None, t}
    BY <2>1, <2>2
  <2> QED BY <2>1, <2>2, <2>3, WaitsIs
<1>3. CASE BusyWaitOver \/ BurstOver
  <2>0. PICK t : t = Head(events).th
    OBVIOUS
  <2>1. on' = [on EXCEPT ![cpuOf[t]] = None] /\ ready' = ready
    BY <1>3, <2>0 DEF BusyWaitOver, BurstOver
  <2>2. on \in [Cpus -> Threads \cup {None}]
    BY DEF IInv, TypeOK
  <2>3. \A c \in Cpus : on[c] = None => on'[c] = None
    BY <2>1, <2>2
  <2> QED BY <2>1, <2>3, WaitsToo
<1>4. CASE Arrive \/ CloseGlobal
  <2>1. ready' = ready /\ on' = on
    BY <1>4 DEF Arrive, CloseGlobal, cpuVars
  <2> QED BY <2>1, WaitsToo
<1>5. CASE NewJob \/ Dispatch \/ ReloadEvents
  <2>1. \/ NextThreadToRun /\ CanDispatch
        \/ ready' = ready /\ on' = on
    BY <1>5 DEF NewJob, Dispatch, ReloadEvents, CanDispatch, cpuVars
  <2> QED BY <2>1, WaitsToo
<1>6. CASE RunPreemptor
  <2>0. PICK t : t = Head(phase[2])
    OBVIOUS
  <2>1. phase[1] = "run" /\ PutThreadOnRun(t) /\ ready' = ready
    BY <1>6, <2>0 DEF RunPreemptor
  <2>2. t \in InHand(phase) /\ t \in Threads
    BY <2>0, <2>1, WakingIs
  <2>3. t \notin ToSet(ready)
    BY <2>2, PlaceIs DEF IInv, AtPlace
  <2>4. on \in [Cpus -> Threads \cup {None}]
    BY DEF IInv, TypeOK
  <2>5. PICK d : on' = [on EXCEPT ![d] = t]
    BY <2>1 DEF PutThreadOnRun
  <2>6. \A c \in Cpus : on[c] = None => on'[c] \in {None, t}
    BY <2>4, <2>5
  <2> QED BY <2>1, <2>2, <2>3, <2>6, WaitsIs
<1>7. ASSUME NEW t \in Threads, WakeUp(t) PROVE Waits
  <2>1. \A how \in {"loose", "preempted"} :
           ThreadToReady(t, how, rest, params) => ready' = Enqueue(ready, t, how, params')
    BY DEF ThreadToReady
  <2>2. \E how \in {"loose", "preempted"} : ThreadToReady(t, how, rest, params)
    BY <1>7 DEF WakeUp
  <2>3. on' = on
    BY <1>7 DEF WakeUp, cpuVars
  <2> QED BY <2>1, <2>2, <2>3, WaitsToo
<1>8. ASSUME NEW t \in Threads, Preemption(t) PROVE Waits
  <2>0. PICK c, u : c = VictimCpu(t, Demoted(params, t)) /\ u = on[c]
    OBVIOUS
  <2>1. /\ Waking(t) /\ c # None /\ on' = [on EXCEPT ![c] = None]
        /\ params' = Demoted(params, t)
        /\ ready' = ready \/ ready' = Enqueue(ready, u, "preempted", params')
    BY <1>8, <2>0 DEF Preemption
  <2>2. u \in Threads
    <3>1. ParamsFit(Demoted(params, t))
      BY DemotedIs DEF IInv, ParamsInv
    <3> QED BY <2>0, <2>1, <3>1, VictimIs
  <2>3. on \in [Cpus -> Threads \cup {None}]
    BY DEF IInv, TypeOK
  <2>4. \A d \in Cpus : on[d] = None => on'[d] = None
    BY <2>1, <2>3
  <2> QED BY <2>1, <2>2, <2>4, WaitsToo
<1> QED BY <1>1, <1>2, <1>3, <1>4, <1>5, <1>6, <1>7, <1>8, OperationWaits DEF Next

LEMMA ThreadKeepsCpu ==
    ASSUME IInv, IInv', [Next]_vars, InTurns
    PROVE  /\ Idle' => \A i \in DOMAIN ready' : loose'[ready'[i]]
           /\ \A t \in Threads : ~loose[t] /\ Contains(ready, t) /\ ~Contains(ready', t)
                                   => cpuOf'[t] = cpuOf[t]
<1>0. conf' = conf /\ params' \in [Threads -> ThreadParams]
  <2>1. conf' = conf
    BY DEF Next, vars, input, ContextSwitched, BusyWaitOver, BurstOver, Arrive, CloseGlobal,
           NewJob, Dispatch, ReloadEvents, RunPreemptor, WakeUp, Preemption, Operation,
           Finish, Burst, Event, GlobalOperation, SpendStartup, Send, RecvArrived, RecvWaits
  <2> QED BY <2>1 DEF IInv, ParamsInv, ParamsFit
<1>1. ASSUME Idle' PROVE \A i \in DOMAIN ready' : loose'[ready'[i]]
  <2>1. phase' = <<"idle">>
    BY <1>1 DEF Idle
  <2>2. phase'[1] # "dispatch"
    BY <2>1
  <2> QED BY <1>0, <2>2 DEF IInv, TurnInv, InTurns
<1>2. ASSUME NEW t \in Threads, ~loose[t], Contains(ready, t), ~Contains(ready', t)
      PROVE  cpuOf'[t] = cpuOf[t]
  <2>1. PICK i \in DOMAIN ready : ready[i] = t
    BY <1>2 DEF Contains
  <2>2. t \in ToSet(ready) /\ t \notin ToSet(ready')
    BY <1>2, <2>1 DEF Contains, ToSet
  <2>3. NextThreadToRun /\ ready # <<>> /\ Free # {}
    BY <1>0, <2>2, TakesTurns DEF Waits, CanDispatch
  <2>4. i = 1 /\ HasItsCpu(t)
    BY <1>2, <2>1 DEF IInv, TurnInv, InTurns
  <2>5. PutThreadOnRun(t) /\ NextCall(rest[t]) = "WORK"
    <3>1. t = Head(ready)
      BY <2>1, <2>4 DEF IInv, TypeOK
    <3>2. CallsOf(t)
      BY DEF IInv, CallInv
    <3> QED BY <2>2, <2>3, <3>1, <3>2 DEF NextThreadToRun, CallsOf
  <2>6. PICK c \in Free : /\ cpuOf' = [cpuOf EXCEPT ![t] = c]
                          /\ \A d \in Free : context[d] = t => context[c] = t
    BY <2>3, <2>5, PutOnRunIs DEF IInv
  <2>7. context[c] = t
    BY <2>4, <2>6 DEF HasItsCpu
  <2>8. cpuOf[t] = c
    BY <2>6, <2>7 DEF IInv, CpuInv, Free, Threads, None
  <2>9. cpuOf'[t] = c
    BY <2>6 DEF IInv, TypeOK
  <2> QED BY <2>8, <2>9
<1> QED BY <1>1, <1>2

LEMMA BestIsFirst ==
    ASSUME IInv, IInv', [Next]_vars, ~InTurns, NEW c \in Cpus, on[c] = None,
           Contains(ready, on'[c]), NEW i \in DOMAIN ready
    PROVE  Order(params, on'[c]) <= Order(params, ready[i])
<1>1. params' \in [Threads -> ThreadParams]
  BY DEF IInv, ParamsInv, ParamsFit
<1>2. on'[c] \in ToSet(ready)
  BY DEF Contains, ToSet
<1>3. NextThreadToRun /\ ready # <<>>
  BY <1>1, <1>2, TakesTurns DEF Waits, CanDispatch
<1>4. /\ ready \in Seq(Threads) /\ InOrder(ready, OrderKey(params))
      /\ on \in [Cpus -> Threads \cup {None}]
  BY DEF IInv, TypeOK, TurnInv, InTurns
<1>5. PICK d : on' = [on EXCEPT ![d] = Head(ready)]
  BY <1>3 DEF NextThreadToRun, PutThreadOnRun
<1>6. None \notin ToSet(ready)
  <2>1. ToSet(ready) \subseteq Threads
    BY <1>4, ElementsTyped
  <2> QED BY <2>1 DEF Threads, None
<1>7. on'[c] = Head(ready)
  BY <1>2, <1>4, <1>5, <1>6
<1>8. OrderKey(params)[Head(ready)] <= OrderKey(params)[ready[i]]
  BY <1>3, <1>4, TailInOrder
<1>9. Head(ready) \in Threads /\ ready[i] \in Threads
  BY <1>3, <1>4
<1> QED BY <1>7, <1>8, <1>9 DEF OrderKey

\* put_thread_on_run gives a thread that is not loose the CPU it had (FIFO and RR),
\* and SCHEDULER_next_thread_to_run takes none before a better one (the policies
\* with priorities).
THEOREM Turns == Spec => TurnsKept
<1> DEFINE Keeps ==
             conf.policy \in {"FIFO", "RR"} =>
               /\ Idle' => \A i \in DOMAIN ready' : loose'[ready'[i]]
               /\ \A t \in Threads : ~loose[t] /\ Contains(ready, t) /\ ~Contains(ready', t)
                                       => cpuOf'[t] = cpuOf[t]
           Best ==
             conf.policy \notin {"FIFO", "RR"} =>
               \A c \in Cpus : on[c] = None /\ Contains(ready, on'[c]) =>
                   \A i \in DOMAIN ready : Order(params, on'[c]) <= Order(params, ready[i])
<1>1. IInv /\ IInv' /\ [Next]_vars => Keeps
  BY ThreadKeepsCpu DEF InTurns
<1>2. IInv /\ IInv' /\ [Next]_vars => Best
  BY BestIsFirst DEF InTurns
<1>3. KeepsCpu <=> [][Keeps]_vars
  BY DEF KeepsCpu
<1>4. BestFirst <=> [][Best]_vars
  BY DEF BestFirst
<1> HIDE DEF Keeps, Best
<1> QED BY <1>1, <1>2, <1>3, <1>4, Invariant, PTL DEF Spec, TurnsKept
=============================================================================
