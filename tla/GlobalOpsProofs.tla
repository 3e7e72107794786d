--------------------------- MODULE GlobalOpsProofs ---------------------------
(***************************************************************************)
(* Proofs about the collective operations of GlobalOps, for any threads,   *)
(* communicators, machines and traces.                                     *)
(***************************************************************************)
EXTENDS GlobalOps, QueueLemmas

Participants == Threads \X Nat

-----------------------------------------------------------------------------
(* What the helpers of GLOBAL_operation return.                            *)

\* The threads of a queue that holds one participant of each.
Different(S) == \A p, q \in S : p[1] = q[1] => p = q

\* A queue as long as a communicator has members holds one of each.
LEMMA EveryoneCame ==
    ASSUME NEW c \in Comms, NEW q \in Seq(Participants), Once(q), Different(ToSet(q)),
           \A p \in ToSet(q) : p[1] \in Members[c]
    PROVE  /\ Len(q) <= Size(c)
           /\ Len(q) = Size(c) => \A t \in Members[c] : \E p \in ToSet(q) : p[1] = t
<1> DEFINE f == [i \in 1 .. Len(q) |-> q[i][1]]
<1>1. Len(q) \in Nat /\ DOMAIN q = 1 .. Len(q)
  OBVIOUS
<1>2. \A i \in 1 .. Len(q) : q[i] \in ToSet(q)
  BY <1>1 DEF ToSet
<1>3. f \in [1 .. Len(q) -> Members[c]]
  BY <1>2
<1>4. \A i, j \in 1 .. Len(q) : f[i] = f[j] => i = j
  BY <1>1, <1>2 DEF Different, Once
<1>5. IsFiniteSet(Members[c])
  BY MembersAssumption
<1>6. /\ Len(q) <= Cardinality(Members[c])
      /\ Len(q) = Cardinality(Members[c]) => \A t \in Members[c] : \E i \in 1 .. Len(q) : f[i] = t
  <2> HIDE DEF f
  <2> QED BY <1>1, <1>3, <1>4, <1>5, FullQueue
<1> QED BY <1>2, <1>6 DEF Size

\* One participant of a machine reserves: root, or the first of its machine.
LEMMA ReserversRight ==
    ASSUME NEW q \in Seq(Participants), NEW root \in ToSet(q)
    PROVE  /\ Reservers(q, root) \subseteq ToSet(q) /\ Reservers(q, root) # {}
           /\ \A p \in ToSet(q) : \E r \in Reservers(q, root) : Machine[r[1]] = Machine[p[1]]
           /\ \A p, r \in Reservers(q, root) : Machine[p[1]] = Machine[r[1]] => p = r
<1> DEFINE First(j) == /\ Machine[q[j][1]] # Machine[root[1]]
                       /\ \A h \in 1 .. (j - 1) : Machine[q[h][1]] # Machine[q[j][1]]
           firsts == {j \in DOMAIN q : First(j)}
<1>1. Reservers(q, root) = {root} \cup {q[i] : i \in firsts}
  BY DEF Reservers
<1>2. DOMAIN q = 1 .. Len(q) /\ Len(q) \in Nat
  OBVIOUS
<1>3. Reservers(q, root) \subseteq ToSet(q) /\ Reservers(q, root) # {}
  BY <1>1 DEF ToSet
<1>4. ASSUME NEW p \in ToSet(q)
      PROVE  \E r \in Reservers(q, root) : Machine[r[1]] = Machine[p[1]]
  <2>1. CASE Machine[p[1]] = Machine[root[1]]
    BY <2>1, <1>1
  <2>2. CASE Machine[p[1]] # Machine[root[1]]
    <3> DEFINE there == {j \in DOMAIN q : Machine[q[j][1]] = Machine[p[1]]}
    <3>1. there \in SUBSET Nat /\ there # {}
      BY <1>2 DEF ToSet
    <3>2. PICK j \in there : \A m \in there : j <= m
      <4> HIDE DEF there
      <4> QED BY <3>1, LeastElement
    <3>3. j \in 1 .. Len(q) /\ \A h \in 1 .. (j - 1) : h \in DOMAIN q /\ ~ (j <= h)
      BY <3>2, <1>2
    <3>4. First(j)
      BY <3>2, <3>3, <2>2
    <3>5. q[j] \in Reservers(q, root)
      BY <3>3, <3>4, <1>1, <1>2
    <3> QED BY <3>2, <3>5
  <2> QED BY <2>1, <2>2
<1>5. ASSUME NEW p \in Reservers(q, root), NEW r \in Reservers(q, root),
             Machine[p[1]] = Machine[r[1]]
      PROVE  p = r
  <2>1. CASE p = root \/ r = root
    BY <2>1, <1>1, <1>5
  <2>2. CASE p # root /\ r # root
    <3>1. PICK i \in firsts : p = q[i]
      BY <2>2, <1>1
    <3>2. PICK j \in firsts : r = q[j]
      BY <2>2, <1>1
    <3>3. i \in Nat \ {0} /\ j \in Nat \ {0}
      BY <1>2, <3>1, <3>2
    <3>4. ~ (i < j) /\ ~ (j < i)
      BY <3>1, <3>2, <3>3, <1>5
    <3> QED BY <3>1, <3>2, <3>3, <3>4
  <2> QED BY <2>1, <2>2
<1> QED BY <1>3, <1>4, <1>5

-----------------------------------------------------------------------------
(* The inductive invariant.                                                *)

Queued(k) == ToSet(opThreads[k]) \cup machineThreads[k]
Call(k) == [op |-> IF k[2] = 0 THEN "SYNC" ELSE "ASYN", comm |-> k[1]]
Belongs(k, p) == /\ p[1] \in Members[k[1]]
                 /\ p[2] \in DOMAIN prog[p[1]] /\ Action(p) = Call(k)
Everyone(k) == \A t \in Members[k[1]] : \E p \in Queued(k) : p[1] = t
OneReserver(k) ==
    /\ \A t \in Members[k[1]] : \E p \in machineThreads[k] : Machine[p[1]] = Machine[t]
    /\ \A p, q \in machineThreads[k] : Machine[p[1]] = Machine[q[1]] => p = q

\* The queues of a key hold one participant of each member, with the call of
\* that key.  Buses are looked for once all are there, and those who look for
\* them are all back in the queue before the operation starts.
QueueSound(k) ==
    /\ Once(opThreads[k])
    /\ Different(Queued(k))
    /\ \A p \in Queued(k) : Belongs(k, p)
    /\ machineThreads[k] # {} \/ timer[k] # "none" => Everyone(k)
    /\ timer[k] # "none" => machineThreads[k] \subseteq ToSet(opThreads[k])
    /\ timer[k] = "group" => machineThreads[k] = {}
    /\ machineThreads[k] # {} => OneReserver(k)
Queues == \A k \in Keys : QueueSound(k)

\* Where the threads that are queued are: blocked in a blocking operation; past
\* a non-blocking one, which was given an index of their own.
Placed ==
    \A k \in Keys : \A p \in Queued(k) :
        IF k[2] = 0 THEN p[2] = pc[p[1]] /\ status[p[1]] = "blocked"
                    ELSE p[2] < pc[p[1]] /\ k[2] <= master[p[1]]

TracesKept == prog \in Programs /\ \A t \in Threads : pc[t] <= Len(prog[t]) + 1

WaitersBlocked ==
    \A t \in Threads : waiting[t] = 1 =>
        status[t] = "blocked" /\ More(t) /\ prog[t][pc[t]].op = "WAIT"

NestedCall(p) == p[2] \in 1 .. pc[p[1]] - 1 /\ Action(p).op = "ASYN"
NestedCalls == \A i \in DOMAIN nested : NestedCall(nested[i])

\* The operations of a thread that are in flight are the keys it is queued at.
InFlight(t) == {k \in Keys : k[2] > 0 /\ \E p \in Queued(k) : p[1] = t}
Indexed == \A t \in Threads :
    Cardinality(Passed(t, "ASYN")) = Cardinality(InNested(t)) + master[t]
Counted == \A t \in Threads :
    master[t] = flight[t] + done[t] + Cardinality(Passed(t, "WAIT"))
Flying == \A t \in Threads : IsFiniteSet(InFlight(t)) /\ flight[t] = Cardinality(InFlight(t))

Sound ==
    /\ TypeOK /\ TracesKept
    /\ Queues /\ Placed
    /\ WaitersBlocked /\ NoLostWait /\ NestedCalls
    /\ Indexed /\ Counted /\ Flying

-----------------------------------------------------------------------------
(* What the actions do to the traces, the counts and the queues.           *)

LEMMA TraceTyped ==
    ASSUME Sound, NEW t \in Threads
    PROVE  /\ DOMAIN prog[t] = 1 .. Len(prog[t])
           /\ Len(prog[t]) \in 0 .. MaxIndex
           /\ pc[t] \in 1 .. Len(prog[t]) + 1
           /\ \A i \in 1 .. Len(prog[t]) :
                 /\ prog[t][i].op \in {"SYNC", "ASYN", "WAIT", "CPU"}
                 /\ prog[t][i].op \in {"SYNC", "ASYN"} =>
                       /\ prog[t][i].comm \in Comms /\ t \in Members[prog[t][i].comm]
                       /\ prog[t][i] = [op |-> prog[t][i].op, comm |-> prog[t][i].comm]
<1>1. /\ prog \in [Threads -> Seq(GlobalOp \cup OtherOp)]
      /\ Len(prog[t]) <= MaxIndex
      /\ \A i \in DOMAIN prog[t] : prog[t][i] \in GlobalOp => t \in Members[prog[t][i].comm]
  BY ProgramsAssumption DEF Sound, TracesKept
<1>2. prog[t] \in Seq(GlobalOp \cup OtherOp)
  BY <1>1
<1>3. DOMAIN prog[t] = 1 .. Len(prog[t]) /\ Len(prog[t]) \in 0 .. MaxIndex
  BY <1>1, <1>2, IndexAssumption
<1>4. pc[t] \in 1 .. Len(prog[t]) + 1
  BY <1>3 DEF Sound, TypeOK, TracesKept
<1>5. ASSUME NEW i \in 1 .. Len(prog[t])
      PROVE  /\ prog[t][i].op \in {"SYNC", "ASYN", "WAIT", "CPU"}
             /\ prog[t][i].op \in {"SYNC", "ASYN"} =>
                   /\ prog[t][i].comm \in Comms /\ t \in Members[prog[t][i].comm]
                   /\ prog[t][i] = [op |-> prog[t][i].op, comm |-> prog[t][i].comm]
  <2>1. prog[t][i] \in GlobalOp \/ prog[t][i] \in OtherOp
    BY <1>2, <1>3
  <2>2. CASE prog[t][i] \in OtherOp
    BY <2>2 DEF OtherOp
  <2>3. CASE prog[t][i] \in GlobalOp
    BY <2>3, <1>1, <1>3 DEF GlobalOp
  <2> QED BY <2>1, <2>2, <2>3
<1> QED BY <1>3, <1>4, <1>5

\* n, or one more when P holds.
Plus(n, P) == IF P THEN n + 1 ELSE n

LEMMA PassedCounts ==
    ASSUME Sound, NEW t \in Threads, NEW op, prog' = prog
    PROVE  /\ Cardinality(Passed(t, op)) \in 0 .. pc[t] - 1
           /\ pc'[t] = pc[t] => Passed(t, op)' = Passed(t, op)
           /\ pc'[t] = pc[t] + 1 =>
                 Cardinality(Passed(t, op)')
                   = Plus(Cardinality(Passed(t, op)), prog[t][pc[t]].op = op)
<1>1. pc[t] \in Nat \ {0}
  BY DEF Sound, TypeOK
<1>2. IsFiniteSet(1 .. (pc[t] - 1)) /\ Cardinality(1 .. (pc[t] - 1)) = pc[t] - 1
  <2>1. pc[t] - 1 \in Nat
    BY <1>1
  <2> QED BY <2>1, UpTo
<1>3. Passed(t, op) \in SUBSET (1 .. (pc[t] - 1))
  BY DEF Passed
<1>4. IsFiniteSet(Passed(t, op)) /\ Cardinality(Passed(t, op)) <= pc[t] - 1
  BY <1>2, <1>3, FS_Subset
<1>5. Cardinality(Passed(t, op)) \in 0 .. pc[t] - 1
  BY <1>1, <1>4, FS_CardinalityType
<1>6. pc'[t] = pc[t] => Passed(t, op)' = Passed(t, op)
  BY DEF Passed
<1>7. ASSUME pc'[t] = pc[t] + 1
      PROVE  Cardinality(Passed(t, op)')
               = Plus(Cardinality(Passed(t, op)), prog[t][pc[t]].op = op)
  <2>1. 1 .. (pc'[t] - 1) = 1 .. (pc[t] - 1) \cup {pc[t]}
    BY <1>1, <1>7
  <2>2. pc[t] \notin Passed(t, op)
    BY <1>1, <1>3
  <2>3. CASE prog[t][pc[t]].op = op
    <3>1. Passed(t, op)' = Passed(t, op) \cup {pc[t]}
      BY <2>1, <2>3 DEF Passed
    <3> QED BY <3>1, <2>2, <2>3, <1>4, FS_AddElement DEF Plus
  <2>4. CASE prog[t][pc[t]].op # op
    <3>1. Passed(t, op)' = Passed(t, op)
      BY <2>1, <2>4 DEF Passed
    <3> QED BY <3>1, <2>4 DEF Plus
  <2> QED BY <2>3, <2>4
<1> QED BY <1>5, <1>6, <1>7

LEMMA NestedCounts ==
    ASSUME Sound, NEW t \in Threads
    PROVE  /\ Cardinality(InNested(t)) \in Nat
           /\ nested' = nested => InNested(t)' = InNested(t)
           /\ \A p \in Participants : nested' = Append(nested, p) =>
                 Cardinality(InNested(t)') = Plus(Cardinality(InNested(t)), p[1] = t)
           /\ nested # <<>> /\ nested' = Front(nested) =>
                 Cardinality(InNested(t)) = Plus(Cardinality(InNested(t)'), Last(nested)[1] = t)
<1> DEFINE n == Len(nested)
<1>1. nested \in Seq(Participants) /\ n \in Nat /\ DOMAIN nested = 1 .. n
  BY DEF Sound, TypeOK, Participants
<1>2. IsFiniteSet(1 .. n)
  BY <1>1, FS_Interval
<1>3. InNested(t) \in SUBSET (1 .. n)
  BY <1>1 DEF InNested
<1>4. IsFiniteSet(InNested(t)) /\ Cardinality(InNested(t)) \in Nat
  BY <1>2, <1>3, FS_Subset, FS_CardinalityType
<1>5. nested' = nested => InNested(t)' = InNested(t)
  BY DEF InNested
<1>6. ASSUME NEW p \in Participants, nested' = Append(nested, p)
      PROVE  Cardinality(InNested(t)') = Plus(Cardinality(InNested(t)), p[1] = t)
  <2>1. /\ DOMAIN nested' = 1 .. n + 1
        /\ \A i \in 1 .. n : nested'[i] = nested[i]
        /\ nested'[n + 1] = p
    BY <1>1, <1>6, AppendPositions
  <2>2. n + 1 \notin InNested(t) /\ 1 .. n + 1 = 1 .. n \cup {n + 1}
    BY <1>1, <1>3
  <2>3. CASE p[1] = t
    <3>1. InNested(t)' = InNested(t) \cup {n + 1}
      BY <1>1, <2>1, <2>2, <2>3 DEF InNested
    <3> QED BY <3>1, <2>2, <2>3, <1>4, FS_AddElement DEF Plus
  <2>4. CASE p[1] # t
    <3>1. InNested(t)' = InNested(t)
      BY <1>1, <2>1, <2>2, <2>4 DEF InNested
    <3> QED BY <3>1, <2>4 DEF Plus
  <2> QED BY <2>3, <2>4
<1>7. ASSUME nested # <<>>, nested' = Front(nested)
      PROVE  Cardinality(InNested(t)) = Plus(Cardinality(InNested(t)'), Last(nested)[1] = t)
  <2>1. /\ n \in Nat \ {0} /\ Last(nested) = nested[n]
        /\ DOMAIN nested' = 1 .. n - 1
        /\ \A i \in 1 .. n - 1 : nested'[i] = nested[i]
    BY <1>1, <1>7, FrontPositions
  <2>2. n \notin InNested(t)' /\ 1 .. n = 1 .. n - 1 \cup {n}
    BY <2>1 DEF InNested
  <2>3. IsFiniteSet(InNested(t)')
    <3>1. InNested(t)' \in SUBSET (1 .. n)
      BY <2>1, <2>2 DEF InNested
    <3> QED BY <3>1, <1>2, FS_Subset
  <2>4. CASE Last(nested)[1] = t
    <3>1. InNested(t) = InNested(t)' \cup {n}
      BY <1>1, <2>1, <2>2, <2>4 DEF InNested
    <3> QED BY <3>1, <2>2, <2>3, <2>4, FS_AddElement DEF Plus
  <2>5. CASE Last(nested)[1] # t
    <3>1. InNested(t) = InNested(t)'
      BY <1>1, <2>1, <2>2, <2>5 DEF InNested
    <3> QED BY <3>1, <2>5 DEF Plus
  <2> QED BY <2>4, <2>5
<1> QED BY <1>4, <1>5, <1>6, <1>7

LEMMA QueuesTyped ==
    ASSUME Sound, NEW k \in Keys
    PROVE  /\ opThreads[k] \in Seq(Participants) /\ machineThreads[k] \subseteq Participants
           /\ ToSet(opThreads[k]) \subseteq Participants
           /\ k[1] \in Comms /\ k[2] \in 0 .. MaxIndex /\ k = <<k[1], k[2]>>
           /\ QueueSound(k)
<1>1. /\ opThreads[k] \in Seq(Participants) /\ machineThreads[k] \subseteq Participants
      /\ k[1] \in Comms /\ k[2] \in 0 .. MaxIndex /\ k = <<k[1], k[2]>>
      /\ QueueSound(k)
  BY DEF Sound, TypeOK, Keys, Participants, Queues
<1> QED BY <1>1, ElementsTyped

LEMMA QueuedTyped ==
    ASSUME Sound, NEW k \in Keys, NEW p \in Queued(k)
    PROVE  p \in Participants /\ p[1] \in Threads /\ p[2] \in Nat /\ Belongs(k, p)
<1>1. p \in Participants /\ QueueSound(k)
  BY QueuesTyped DEF Queued
<1> QED BY <1>1 DEF Participants, QueueSound

\* A participant arrives whose thread is not there yet.
LEMMA Arrives ==
    ASSUME Sound, NEW k \in Keys, NEW p \in Participants, prog' = prog,
           Belongs(k, p), \A r \in Queued(k) : r[1] # p[1],
           Arrive(k, p)
    PROVE  /\ opThreads' \in [Keys -> Seq(Participants)]
           /\ machineThreads' \in [Keys -> SUBSET Participants]
           /\ counted' \in [Comms -> Nat] /\ timer' = timer
           /\ \A j \in Keys \ {k} : QueueSound(j)' /\ Queued(j)' = Queued(j)
           /\ Queued(k)' = Queued(k) \cup {p}
           /\ QueueSound(k)'
<1> DEFINE queue == Append(opThreads[k], p)
<1>1. /\ opThreads \in [Keys -> Seq(Participants)] /\ machineThreads \in [Keys -> SUBSET Participants]
      /\ timer \in [Keys -> {"none", "resources", "group"}] /\ counted \in [Comms -> Nat]
  BY DEF Sound, TypeOK, Participants
<1>2. opThreads[k] \in Seq(Participants) /\ k[1] \in Comms /\ QueueSound(k)
      /\ p[1] \in Members[k[1]]
  BY QueuesTyped DEF Belongs
<1>3. machineThreads[k] = {} /\ timer[k] = "none" /\ Queued(k) = ToSet(opThreads[k])
  BY <1>2 DEF QueueSound, Everyone, Queued
<1>4. /\ queue \in Seq(Participants) /\ Len(queue) = Len(opThreads[k]) + 1
      /\ ToSet(queue) = Queued(k) \cup {p} /\ p \notin ToSet(opThreads[k])
  BY <1>2, <1>3, AppendPositions, AppendElements
<1>5. Once(queue) /\ Different(ToSet(queue)) /\ \A r \in ToSet(queue) : Belongs(k, r)
  BY <1>2, <1>3, <1>4, AppendOnce DEF QueueSound, Different
<1>6. timer' = timer /\ counted' \in [Comms -> Nat]
  BY <1>1, <1>2 DEF Arrive
<1> HIDE DEF queue
<1>7. ASSUME NEW j \in Keys \ {k}, opThreads'[j] = opThreads[j],
             machineThreads'[j] = machineThreads[j]
      PROVE  QueueSound(j)' /\ Queued(j)' = Queued(j)
  <2>1. Queued(j)' = Queued(j) /\ timer'[j] = timer[j] /\ QueueSound(j)
    BY <1>6, <1>7, QueuesTyped DEF Queued
  <2> QED BY <2>1, <1>7 DEF QueueSound, Everyone, OneReserver, Belongs, Action
<1>8. CASE /\ Len(opThreads[k]) + 1 # Size(k[1])
           /\ opThreads' = [opThreads EXCEPT ![k] = queue]
           /\ UNCHANGED machineThreads
  <2>1. opThreads'[k] = queue /\ machineThreads'[k] = {} /\ timer'[k] = "none"
    BY <1>1, <1>3, <1>6, <1>8
  <2>2. Queued(k)' = Queued(k) \cup {p}
    BY <2>1, <1>4 DEF Queued
  <2>3. QueueSound(k)'
    BY <2>1, <2>2, <1>4, <1>5 DEF QueueSound, Belongs, Action
  <2>4. opThreads' \in [Keys -> Seq(Participants)] /\ machineThreads' \in [Keys -> SUBSET Participants]
    BY <1>1, <1>4, <1>8
  <2>5. \A j \in Keys \ {k} : opThreads'[j] = opThreads[j] /\ machineThreads'[j] = machineThreads[j]
    BY <1>1, <1>8
  <2> QED BY <2>2, <2>3, <2>4, <2>5, <1>6, <1>7
<1>9. ASSUME NEW root \in ToSet(queue), Len(opThreads[k]) + 1 = Size(k[1]),
             machineThreads' = [machineThreads EXCEPT ![k] = Reservers(queue, root)],
             opThreads' = [opThreads EXCEPT ![k] = Without(queue, Reservers(queue, root))]
      PROVE  /\ opThreads' \in [Keys -> Seq(Participants)]
             /\ machineThreads' \in [Keys -> SUBSET Participants]
             /\ \A j \in Keys \ {k} : QueueSound(j)' /\ Queued(j)' = Queued(j)
             /\ Queued(k)' = Queued(k) \cup {p}
             /\ QueueSound(k)'
  <2> DEFINE reserve == Reservers(queue, root)
             rest == Without(queue, reserve)
  <2>1. /\ reserve \subseteq ToSet(queue) /\ reserve # {}
        /\ \A r \in ToSet(queue) : \E s \in reserve : Machine[s[1]] = Machine[r[1]]
        /\ \A r, s \in reserve : Machine[r[1]] = Machine[s[1]] => r = s
    BY <1>4, ReserversRight
  <2>2. rest \in Seq(Participants) /\ ToSet(rest) = ToSet(queue) \ reserve /\ Once(rest)
    BY <1>4, <1>5, WithoutElements
  <2>3. ToSet(queue) \subseteq Participants
    BY <1>4, ElementsTyped
  <2> HIDE DEF reserve, rest
  <2>4. opThreads'[k] = rest /\ machineThreads'[k] = reserve /\ timer'[k] = "none"
    BY <1>1, <1>3, <1>6, <1>9 DEF rest, reserve
  <2>5. Queued(k)' = ToSet(queue) /\ Queued(k)' = Queued(k) \cup {p}
    BY <2>1, <2>2, <2>4, <1>4 DEF Queued
  <2>6. opThreads' \in [Keys -> Seq(Participants)] /\ machineThreads' \in [Keys -> SUBSET Participants]
    BY <1>1, <1>9, <2>1, <2>2, <2>3 DEF rest, reserve
  <2>7. \A j \in Keys \ {k} : opThreads'[j] = opThreads[j] /\ machineThreads'[j] = machineThreads[j]
    BY <1>1, <1>9
  <2>8. \A t \in Members[k[1]] : \E r \in ToSet(queue) : r[1] = t
    <3>1. \A r \in ToSet(queue) : r[1] \in Members[k[1]]
      BY <1>5 DEF Belongs
    <3>2. Len(queue) = Size(k[1]) /\ k[1] \in Comms /\ queue \in Seq(Participants)
      BY <1>2, <1>4, <1>9
    <3> QED BY <3>1, <3>2, <1>5, EveryoneCame
  <2>9. Everyone(k)' /\ OneReserver(k)'
    <3>1. \A t \in Members[k[1]] : \E s \in reserve : Machine[s[1]] = Machine[t]
      BY <2>1, <2>8
    <3> QED BY <2>1, <2>4, <2>5, <2>8, <3>1 DEF Everyone, OneReserver
  <2>10. QueueSound(k)'
    BY <2>2, <2>4, <2>5, <2>9, <1>5 DEF QueueSound, Belongs, Action
  <2> QED BY <2>5, <2>6, <2>7, <2>10, <1>7
<1>10. CASE \E root \in ToSet(queue) :
               /\ Len(opThreads[k]) + 1 = Size(k[1])
               /\ machineThreads' = [machineThreads EXCEPT ![k] = Reservers(queue, root)]
               /\ opThreads' = [opThreads EXCEPT ![k] = Without(queue, Reservers(queue, root))]
  BY <1>6, <1>9, <1>10
<1> QED BY <1>8, <1>10 DEF Arrive, queue

LEMMA SameQueues ==
    ASSUME Sound, UNCHANGED <<prog, opThreads, machineThreads, timer>>
    PROVE  /\ Queues'
           /\ \A k \in Keys : Queued(k)' = Queued(k)
           /\ \A t \in Threads : InFlight(t)' = InFlight(t)
<1>1. \A k \in Keys : QueueSound(k) /\ Queued(k)' = Queued(k)
  BY DEF Sound, Queues, Queued
<1>2. \A k \in Keys : QueueSound(k)'
  BY <1>1 DEF QueueSound, Everyone, OneReserver, Belongs, Action
<1>3. \A t \in Threads : InFlight(t)' = InFlight(t)
  BY <1>1 DEF InFlight
<1> QED BY <1>1, <1>2, <1>3 DEF Queues

\* A thread that runs goes on to its next action.
LEMMA Advances ==
    ASSUME Sound, NEW t \in Threads, status[t] = "ready", More(t),
           pc' = [pc EXCEPT ![t] = @ + 1],
           UNCHANGED <<prog, status, master, waiting, opVars>>
    PROVE  /\ TracesKept' /\ Queues' /\ Placed' /\ WaitersBlocked'
           /\ pc' \in [Threads -> Nat \ {0}]
           /\ pc'[t] = pc[t] + 1 /\ \A u \in Threads \ {t} : pc'[u] = pc[u]
           /\ \A u \in Threads : InFlight(u)' = InFlight(u)
           /\ \A p \in Participants : NestedCall(p) => NestedCall(p)'
<1>1. /\ pc \in [Threads -> Nat \ {0}] /\ status \in [Threads -> {"ready", "blocked"}]
      /\ master \in [Threads -> 0 .. MaxIndex]
  BY DEF Sound, TypeOK
<1>2. /\ pc' \in [Threads -> Nat \ {0}]
      /\ pc'[t] = pc[t] + 1 /\ \A u \in Threads \ {t} : pc'[u] = pc[u]
      /\ \A u \in Threads : pc[u] \in Nat /\ pc'[u] \in Nat /\ pc[u] <= pc'[u]
  BY <1>1
<1>3. TracesKept'
  BY <1>1, <1>2, TraceTyped DEF Sound, TracesKept, More
<1>4. Queues' /\ (\A k \in Keys : Queued(k)' = Queued(k))
      /\ (\A u \in Threads : InFlight(u)' = InFlight(u))
  BY SameQueues DEF opVars
<1>5. Placed'
  <2> SUFFICES ASSUME NEW k \in Keys, NEW p \in Queued(k)
               PROVE  IF k[2] = 0 THEN p[2] = pc'[p[1]] /\ status'[p[1]] = "blocked"
                                  ELSE p[2] < pc'[p[1]] /\ k[2] <= master'[p[1]]
    BY <1>4 DEF Placed
  <2>1. p \in Participants /\ p[1] \in Threads /\ p[2] \in Nat
    BY QueuesTyped DEF Queued, Participants
  <2> QED BY <1>2, <2>1 DEF Sound, Placed
<1>6. WaitersBlocked'
  BY <1>1, <1>2 DEF Sound, WaitersBlocked, More
<1>7. ASSUME NEW p \in Participants, NestedCall(p) PROVE NestedCall(p)'
  <2>1. p[1] \in Threads /\ p[2] \in Nat
    BY DEF Participants
  <2> QED BY <1>2, <1>7, <2>1 DEF NestedCall, Action
<1> QED BY <1>2, <1>3, <1>4, <1>5, <1>6, <1>7

LEMMA CpuKeeps ==
    ASSUME Sound, NEW t \in Threads, Cpu(t)
    PROVE  Sound'
<1>1. /\ status[t] = "ready" /\ More(t) /\ prog[t][pc[t]].op = "CPU"
      /\ pc' = [pc EXCEPT ![t] = @ + 1]
      /\ UNCHANGED <<prog, status, master, flight, done, waiting, nested, deeper, opVars>>
  BY DEF Cpu, Running
<1>2. /\ TracesKept' /\ Queues' /\ Placed' /\ WaitersBlocked'
      /\ pc' \in [Threads -> Nat \ {0}]
      /\ pc'[t] = pc[t] + 1 /\ \A u \in Threads \ {t} : pc'[u] = pc[u]
      /\ \A u \in Threads : InFlight(u)' = InFlight(u)
      /\ \A p \in Participants : NestedCall(p) => NestedCall(p)'
  BY <1>1, Advances
<1>3. TypeOK'
  BY <1>1, <1>2 DEF Sound, TypeOK, opVars
<1>4. \A u \in Threads, op \in {"ASYN", "WAIT"} :
         Cardinality(Passed(u, op)') = Cardinality(Passed(u, op))
  <2> SUFFICES ASSUME NEW u \in Threads, NEW op \in {"ASYN", "WAIT"}
               PROVE  Cardinality(Passed(u, op)') = Cardinality(Passed(u, op))
    OBVIOUS
  <2> QED BY <1>1, <1>2, PassedCounts DEF Plus
<1>5. \A u \in Threads : InNested(u)' = InNested(u)
  BY <1>1 DEF InNested
<1>6. Indexed' /\ Counted' /\ Flying'
  BY <1>1, <1>2, <1>4, <1>5 DEF Sound, Indexed, Counted, Flying
<1>7. NoLostWait'
  BY <1>1 DEF Sound, NoLostWait
<1>8. NestedCalls'
  <2>1. \A i \in DOMAIN nested : nested[i] \in Participants
    BY DEF Sound, TypeOK, Participants
  <2> QED BY <1>1, <1>2, <2>1 DEF Sound, NestedCalls
<1> QED BY <1>2, <1>3, <1>6, <1>7, <1>8 DEF Sound

LEMMA AsynKeeps ==
    ASSUME Sound, NEW t \in Threads, AsynOp(t)
    PROVE  Sound'
<1> DEFINE p0 == <<t, pc[t]>>
<1>1. /\ status[t] = "ready" /\ More(t) /\ prog[t][pc[t]].op = "ASYN"
      /\ pc' = [pc EXCEPT ![t] = @ + 1]
      /\ nested' = Append(nested, p0)
      /\ deeper' = AtOnce(t, pc[t] + 1)
      /\ UNCHANGED <<prog, status, master, flight, done, waiting, opVars>>
  BY DEF AsynOp, Running
<1>2. /\ TracesKept' /\ Queues' /\ Placed' /\ WaitersBlocked'
      /\ pc' \in [Threads -> Nat \ {0}]
      /\ pc'[t] = pc[t] + 1 /\ \A u \in Threads \ {t} : pc'[u] = pc[u]
      /\ \A u \in Threads : InFlight(u)' = InFlight(u)
      /\ \A p \in Participants : NestedCall(p) => NestedCall(p)'
  BY <1>1, Advances
<1>3. nested \in Seq(Participants) /\ p0 \in Participants /\ pc[t] \in Nat \ {0}
  BY DEF Sound, TypeOK, Participants
<1>4. TypeOK'
  <2>1. deeper' \in BOOLEAN
    BY <1>1 DEF AtOnce
  <2>2. nested' \in Seq(Threads \X Nat)
    BY <1>1, <1>3, AppendPositions DEF Participants
  <2> QED BY <1>1, <1>2, <2>1, <2>2 DEF Sound, TypeOK, opVars
<1>5. \A u \in Threads : Cardinality(Passed(u, "WAIT")') = Cardinality(Passed(u, "WAIT"))
  <2> SUFFICES ASSUME NEW u \in Threads
               PROVE  Cardinality(Passed(u, "WAIT")') = Cardinality(Passed(u, "WAIT"))
    OBVIOUS
  <2> QED BY <1>1, <1>2, PassedCounts DEF Plus
<1>6. ASSUME NEW u \in Threads
      PROVE  Cardinality(Passed(u, "ASYN")') = Cardinality(InNested(u)') + master'[u]
  <2>1. Cardinality(Passed(u, "ASYN")') = Plus(Cardinality(Passed(u, "ASYN")), u = t)
    BY <1>1, <1>2, PassedCounts DEF Plus
  <2>2. Cardinality(InNested(u)') = Plus(Cardinality(InNested(u)), u = t)
    BY <1>1, <1>3, NestedCounts DEF Plus
  <2>3. Cardinality(Passed(u, "ASYN")) = Cardinality(InNested(u)) + master[u]
        /\ master[u] \in Nat
    BY DEF Sound, Indexed, TypeOK
  <2>4. Cardinality(InNested(u)) \in Nat
    BY NestedCounts
  <2> QED BY <1>1, <2>1, <2>2, <2>3, <2>4 DEF Plus
<1>7. Indexed' /\ Counted' /\ Flying'
  BY <1>1, <1>2, <1>5, <1>6 DEF Sound, Indexed, Counted, Flying
<1>8. NoLostWait'
  BY <1>1 DEF Sound, NoLostWait
<1>9. NestedCalls'
  <2>1. \A i \in DOMAIN nested : nested[i] \in Participants /\ NestedCall(nested[i])
    BY <1>3 DEF Sound, NestedCalls
  <2>2. ASSUME NEW p \in Participants, NestedCall(p) \/ p = p0
        PROVE  NestedCall(p)'
    <3>1. CASE NestedCall(p)
      BY <1>2, <3>1
    <3>2. CASE p = p0
      BY <1>1, <1>2, <1>3, <3>2 DEF NestedCall, Action
    <3> QED BY <2>2, <3>1, <3>2
  <2>3. \A i \in DOMAIN nested' : nested'[i] \in Participants /\ (NestedCall(nested'[i]) \/ nested'[i] = p0)
    BY <1>1, <1>3, <2>1, AppendPositions
  <2>4. \A i \in DOMAIN nested' : /\ nested'[i][2] \in 1 .. pc'[nested'[i][1]] - 1
                                  /\ prog'[nested'[i][1]][nested'[i][2]].op = "ASYN"
    BY <2>2, <2>3 DEF NestedCall, Action
  <2> QED BY <2>4 DEF NestedCalls, NestedCall, Action
<1> QED BY <1>2, <1>4, <1>7, <1>8, <1>9 DEF Sound

\* Operations that leave the traces of a thread and its counters alone.
LEMMA SameCounts ==
    ASSUME Sound, UNCHANGED <<prog, pc, master, flight, done, nested>>,
           \A t \in Threads : InFlight(t)' = InFlight(t)
    PROVE  Indexed' /\ Counted' /\ Flying' /\ NestedCalls' /\ TracesKept'
<1>1. \A t \in Threads : /\ Passed(t, "ASYN")' = Passed(t, "ASYN")
                         /\ Passed(t, "WAIT")' = Passed(t, "WAIT")
                         /\ InNested(t)' = InNested(t)
  BY DEF Passed, InNested
<1>2. Indexed' /\ Counted' /\ Flying'
  BY <1>1 DEF Sound, Indexed, Counted, Flying
<1>3. NestedCalls' /\ TracesKept'
  BY DEF Sound, NestedCalls, NestedCall, Action, TracesKept
<1> QED BY <1>2, <1>3

LEMMA SyncKeeps ==
    ASSUME Sound, NEW t \in Threads, SyncOp(t)
    PROVE  Sound'
<1> DEFINE c == prog[t][pc[t]].comm
<1>1. /\ status[t] = "ready" /\ More(t) /\ prog[t][pc[t]].op = "SYNC"
      /\ Arrive(<<c, 0>>, <<t, pc[t]>>)
      /\ status' = [status EXCEPT ![t] = "blocked"]
      /\ deeper' = FALSE
      /\ UNCHANGED <<prog, pc, master, flight, done, waiting, nested>>
  BY DEF SyncOp, Running
<1>2. /\ pc[t] \in DOMAIN prog[t] /\ pc[t] \in Nat /\ c \in Comms /\ t \in Members[c]
      /\ prog[t][pc[t]] = [op |-> "SYNC", comm |-> c]
  BY <1>1, TraceTyped DEF More
<1>3. PICK k \in Keys, p \in Participants :
         Arrive(k, p) /\ Belongs(k, p) /\ k[2] = 0 /\ p[1] = t /\ p[2] = pc[t]
  <2>1. <<c, 0>> \in Keys /\ <<t, pc[t]>> \in Participants
    BY <1>2, IndexAssumption DEF Keys, Participants
  <2>2. Belongs(<<c, 0>>, <<t, pc[t]>>)
    BY <1>2 DEF Belongs, Action, Call
  <2> QED BY <1>1, <2>1, <2>2
<1>4. \A j \in Keys : j[2] = 0 => \A r \in Queued(j) : r[1] # t
  BY <1>1 DEF Sound, Placed
<1>5. /\ opThreads' \in [Keys -> Seq(Participants)]
      /\ machineThreads' \in [Keys -> SUBSET Participants]
      /\ counted' \in [Comms -> Nat] /\ timer' = timer
      /\ \A j \in Keys \ {k} : QueueSound(j)' /\ Queued(j)' = Queued(j)
      /\ Queued(k)' = Queued(k) \cup {p}
      /\ QueueSound(k)'
  <2>1. \A r \in Queued(k) : r[1] # p[1]
    BY <1>3, <1>4
  <2>2. prog' = prog
    BY <1>1
  <2> QED BY <1>1, <1>3, <2>1, <2>2, Arrives
<1>6. TypeOK'
  BY <1>1, <1>5 DEF Sound, TypeOK, Participants
<1>7. Queues'
  BY <1>5 DEF Queues
<1>8. status'[t] = "blocked" /\ \A u \in Threads \ {t} : status'[u] = status[u]
  BY <1>1 DEF Sound, TypeOK
<1>9. Placed'
  <2> SUFFICES ASSUME NEW j \in Keys, NEW r \in Queued(j)'
               PROVE  IF j[2] = 0 THEN r[2] = pc[r[1]] /\ status'[r[1]] = "blocked"
                                  ELSE r[2] < pc[r[1]] /\ j[2] <= master[r[1]]
    BY <1>1 DEF Placed
  <2>1. CASE r \in Queued(j)
    <3>1. r[1] \in Threads
      BY <2>1, QueuesTyped DEF Queued, Participants
    <3> QED BY <1>8, <2>1, <3>1 DEF Sound, Placed
  <2>2. CASE r \notin Queued(j)
    <3>1. j = k /\ r = p
      BY <1>5, <2>2
    <3> QED BY <3>1, <1>3, <1>8
  <2> QED BY <2>1, <2>2
<1>10. \A u \in Threads : InFlight(u)' = InFlight(u)
  <2>1. \A j \in Keys : j[2] > 0 => Queued(j)' = Queued(j)
    BY <1>3, <1>5
  <2> QED BY <2>1 DEF InFlight
<1>11. Indexed' /\ Counted' /\ Flying' /\ NestedCalls' /\ TracesKept'
  BY <1>1, <1>10, SameCounts
<1>12. NoLostWait' /\ WaitersBlocked'
  BY <1>1, <1>8 DEF Sound, NoLostWait, WaitersBlocked, More
<1> QED BY <1>6, <1>7, <1>9, <1>11, <1>12 DEF Sound

LEMMA WaitKeeps ==
    ASSUME Sound, NEW t \in Threads, WaitOp(t)
    PROVE  Sound'
<1>1. /\ status[t] = "ready" /\ More(t) /\ prog[t][pc[t]].op = "WAIT"
      /\ deeper' = FALSE
      /\ UNCHANGED <<prog, master, flight, nested, opVars>>
  BY DEF WaitOp, Running
<1>2. /\ waiting[t] = 0 /\ done[t] \in Nat
      /\ pc \in [Threads -> Nat \ {0}] /\ status \in [Threads -> {"ready", "blocked"}]
      /\ waiting \in [Threads -> {0, 1}] /\ done \in [Threads -> Nat]
  BY <1>1 DEF Sound, TypeOK, WaitersBlocked
<1>3. CASE /\ done[t] = 0
           /\ waiting' = [waiting EXCEPT ![t] = @ + 1]
           /\ status' = [status EXCEPT ![t] = "blocked"]
           /\ UNCHANGED <<pc, done>>
  <2>1. /\ waiting'[t] = 1 /\ status'[t] = "blocked"
        /\ \A u \in Threads \ {t} : waiting'[u] = waiting[u] /\ status'[u] = status[u]
        /\ waiting' \in [Threads -> {0, 1}] /\ status' \in [Threads -> {"ready", "blocked"}]
    BY <1>2, <1>3
  <2>2. TypeOK'
    BY <1>1, <1>3, <2>1 DEF Sound, TypeOK, opVars
  <2>3. Queues' /\ (\A k \in Keys : Queued(k)' = Queued(k))
        /\ (\A u \in Threads : InFlight(u)' = InFlight(u))
    BY <1>1, SameQueues DEF opVars
  <2>4. Indexed' /\ Counted' /\ Flying' /\ NestedCalls' /\ TracesKept'
    BY <1>1, <1>3, <2>3, SameCounts
  <2>5. Placed'
    <3> SUFFICES ASSUME NEW k \in Keys, NEW p \in Queued(k)
                 PROVE  IF k[2] = 0 THEN p[2] = pc[p[1]] /\ status'[p[1]] = "blocked"
                                    ELSE p[2] < pc[p[1]] /\ k[2] <= master[p[1]]
      BY <1>1, <1>3, <2>3 DEF Placed
    <3>1. p[1] \in Threads
      BY QueuesTyped DEF Queued, Participants
    <3> QED BY <2>1, <3>1 DEF Sound, Placed
  <2>6. NoLostWait' /\ WaitersBlocked'
    BY <1>1, <1>3, <2>1 DEF Sound, NoLostWait, WaitersBlocked, More
  <2> QED BY <2>2, <2>3, <2>4, <2>5, <2>6 DEF Sound
<1>4. CASE /\ done[t] > 0
           /\ done' = [done EXCEPT ![t] = @ - 1]
           /\ pc' = [pc EXCEPT ![t] = @ + 1]
           /\ UNCHANGED <<waiting, status>>
  <2>1. /\ done'[t] = done[t] - 1 /\ done' \in [Threads -> Nat]
        /\ \A u \in Threads \ {t} : done'[u] = done[u]
    BY <1>2, <1>4
  <2>2. /\ TracesKept' /\ Queues' /\ Placed' /\ WaitersBlocked'
        /\ pc' \in [Threads -> Nat \ {0}]
        /\ pc'[t] = pc[t] + 1 /\ \A u \in Threads \ {t} : pc'[u] = pc[u]
        /\ \A u \in Threads : InFlight(u)' = InFlight(u)
        /\ \A p \in Participants : NestedCall(p) => NestedCall(p)'
    BY <1>1, <1>4, Advances
  <2>3. TypeOK'
    BY <1>1, <1>4, <2>1, <2>2 DEF Sound, TypeOK, opVars
  <2>4. ASSUME NEW u \in Threads
        PROVE  /\ Cardinality(Passed(u, "ASYN")') = Cardinality(Passed(u, "ASYN"))
               /\ Cardinality(Passed(u, "WAIT")') = Plus(Cardinality(Passed(u, "WAIT")), u = t)
               /\ Cardinality(Passed(u, "WAIT")) \in Nat
               /\ InNested(u)' = InNested(u)
    <3>1. /\ Cardinality(Passed(u, "ASYN")') = Cardinality(Passed(u, "ASYN"))
          /\ Cardinality(Passed(u, "WAIT")') = Plus(Cardinality(Passed(u, "WAIT")), u = t)
      BY <1>1, <2>2, PassedCounts DEF Plus
    <3>2. Cardinality(Passed(u, "WAIT")) \in Nat
      BY <1>1, <1>2, PassedCounts
    <3> QED BY <1>1, <3>1, <3>2 DEF InNested
  <2>5. Indexed' /\ Flying'
    BY <1>1, <2>2, <2>4 DEF Sound, Indexed, Flying
  <2>6. Counted'
    <3> SUFFICES ASSUME NEW u \in Threads
                 PROVE  master[u] = flight[u] + done'[u] + Cardinality(Passed(u, "WAIT")')
      BY <1>1 DEF Counted
    <3>1. master[u] = flight[u] + done[u] + Cardinality(Passed(u, "WAIT"))
          /\ flight[u] \in Nat /\ done[u] \in Nat
      BY DEF Sound, Counted, TypeOK
    <3>2. CASE u = t
      BY <2>1, <2>4, <3>1, <3>2 DEF Plus
    <3>3. CASE u # t
      BY <2>1, <2>4, <3>1, <3>3 DEF Plus
    <3> QED BY <3>2, <3>3
  <2>7. NoLostWait'
    BY <1>2, <1>4, <2>1 DEF Sound, NoLostWait
  <2>8. NestedCalls'
    <3>1. \A i \in DOMAIN nested : nested[i] \in Participants
      BY DEF Sound, TypeOK, Participants
    <3> QED BY <1>1, <2>2, <3>1 DEF Sound, NestedCalls
  <2> QED BY <2>2, <2>3, <2>5, <2>6, <2>7, <2>8 DEF Sound
<1> QED BY <1>3, <1>4 DEF WaitOp

LEMMA RegisterKeeps ==
    ASSUME Sound, Register
    PROVE  Sound'
<1>0. nested # <<>> /\ ~deeper /\ nested' = Front(nested)
      /\ UNCHANGED <<prog, pc, status, done, waiting, deeper>>
  BY DEF Register
<1>1. PICK p \in Participants : p = Last(nested)
  BY <1>0, FrontPositions DEF Sound, TypeOK, Participants
<1>2. PICK t \in Threads : t = p[1]
  BY DEF Participants
<1>3. /\ nested \in Seq(Participants) /\ nested' \in Seq(Participants)
      /\ \A i \in DOMAIN nested' : i \in DOMAIN nested /\ nested'[i] = nested[i]
      /\ NestedCall(p)
  <2>1. nested \in Seq(Participants)
    BY DEF Sound, TypeOK, Participants
  <2>2. /\ Front(nested) \in Seq(Participants)
        /\ DOMAIN nested = 1 .. Len(nested) /\ Len(nested) \in Nat \ {0}
        /\ Last(nested) = nested[Len(nested)]
        /\ DOMAIN Front(nested) = 1 .. Len(nested) - 1
        /\ \A i \in 1 .. Len(nested) - 1 : Front(nested)[i] = nested[i]
    BY <1>0, <2>1, FrontPositions
  <2>3. Len(nested) \in DOMAIN nested
    BY <2>2
  <2>4. NestedCall(nested[Len(nested)])
    BY <2>3 DEF Sound, NestedCalls
  <2> QED BY <1>0, <1>1, <2>1, <2>2, <2>4
<1>4. /\ p[2] \in DOMAIN prog[t] /\ p[2] \in Nat /\ p[2] < pc[t] /\ Action(p).op = "ASYN"
      /\ Action(p).comm \in Comms /\ t \in Members[Action(p).comm]
      /\ Action(p) = [op |-> "ASYN", comm |-> Action(p).comm]
      /\ pc[t] - 1 <= MaxIndex /\ pc[t] \in Nat
  <2>1. p[2] \in 1 .. pc[t] - 1 /\ Action(p).op = "ASYN"
    BY <1>2, <1>3 DEF NestedCall
  <2>2. /\ DOMAIN prog[t] = 1 .. Len(prog[t]) /\ Len(prog[t]) \in 0 .. MaxIndex
        /\ pc[t] \in 1 .. Len(prog[t]) + 1
    BY TraceTyped
  <2>3. p[2] \in 1 .. Len(prog[t]) /\ p[2] < pc[t] /\ pc[t] - 1 <= MaxIndex /\ pc[t] \in Nat
    BY <2>1, <2>2, IndexAssumption
  <2> QED BY <1>2, <2>1, <2>2, <2>3, TraceTyped DEF Action
<1>5. /\ master[t] \in Nat /\ master[t] + 1 <= MaxIndex
      /\ master \in [Threads -> 0 .. MaxIndex] /\ flight \in [Threads -> Nat]
  <2>1. master \in [Threads -> 0 .. MaxIndex] /\ flight \in [Threads -> Nat] /\ master[t] \in Nat
    BY IndexAssumption DEF Sound, TypeOK
  <2>2. Cardinality(Passed(t, "ASYN")) = Cardinality(InNested(t)) + master[t]
    BY DEF Sound, Indexed
  <2>3. Cardinality(Passed(t, "ASYN")) \in 0 .. pc[t] - 1
    BY <1>0, PassedCounts
  <2>4. Cardinality(InNested(t)) = Cardinality(InNested(t)') + 1
    BY <1>0, <1>1, <1>2, NestedCounts DEF Plus
  <2>5. Cardinality(InNested(t)') \in Nat
    <3>1. InNested(t)' \in SUBSET (1 .. Len(nested))
      BY <1>3 DEF InNested
    <3>2. IsFiniteSet(1 .. Len(nested))
      BY <1>3, UpTo
    <3> QED BY <3>1, <3>2, FS_Subset, FS_CardinalityType
  <2> QED BY <2>1, <2>2, <2>3, <2>4, <2>5, <1>4, IndexAssumption
<1>6. PICK k \in Keys : k = <<Action(p).comm, master[t] + 1>>
  <2>1. master[t] + 1 \in 0 .. MaxIndex
    BY <1>5, IndexAssumption
  <2>2. <<Action(p).comm, master[t] + 1>> \in Keys
    BY <1>4, <2>1 DEF Keys
  <2> QED BY <2>2
<1>7. /\ Arrive(k, p) /\ flight' = [flight EXCEPT ![t] = @ + 1]
      /\ master' = [master EXCEPT ![t] = @ + 1]
  BY <1>1, <1>2, <1>6 DEF Register
<1>8. Belongs(k, p) /\ k[2] = master[t] + 1 /\ k[2] > 0
  BY <1>2, <1>4, <1>5, <1>6 DEF Belongs, Call
<1>9. \A j \in Keys : \A r \in Queued(j) : j[2] = k[2] => r[1] # t
  <2>1. \A j \in Keys : \A r \in Queued(j) : j[2] = k[2] => k[2] <= master[r[1]]
    BY <1>5, <1>8 DEF Sound, Placed
  <2> QED BY <2>1, <1>5, <1>8
<1>10. /\ opThreads' \in [Keys -> Seq(Participants)]
       /\ machineThreads' \in [Keys -> SUBSET Participants]
       /\ counted' \in [Comms -> Nat] /\ timer' = timer
       /\ \A j \in Keys \ {k} : QueueSound(j)' /\ Queued(j)' = Queued(j)
       /\ Queued(k)' = Queued(k) \cup {p}
       /\ QueueSound(k)'
  <2>1. \A r \in Queued(k) : r[1] # p[1]
    BY <1>2, <1>9
  <2> QED BY <1>0, <1>7, <1>8, <2>1, Arrives
<1>11. /\ master' \in [Threads -> 0 .. MaxIndex] /\ flight' \in [Threads -> Nat]
       /\ master'[t] = master[t] + 1 /\ flight'[t] = flight[t] + 1
       /\ \A u \in Threads \ {t} : master'[u] = master[u] /\ flight'[u] = flight[u]
  BY <1>5, <1>7, IndexAssumption
<1>12. TypeOK'
  BY <1>0, <1>3, <1>10, <1>11 DEF Sound, TypeOK, Participants
<1>13. Queues'
  BY <1>10 DEF Queues
<1>14. Placed'
  <2> SUFFICES ASSUME NEW j \in Keys, NEW r \in Queued(j)'
               PROVE  IF j[2] = 0 THEN r[2] = pc[r[1]] /\ status[r[1]] = "blocked"
                                  ELSE r[2] < pc[r[1]] /\ j[2] <= master'[r[1]]
    BY <1>0 DEF Placed
  <2>1. CASE r \in Queued(j)
    <3>1. r[1] \in Threads /\ j[2] \in Nat
      BY <2>1, QueuesTyped, IndexAssumption DEF Queued, Participants
    <3>2. master[r[1]] \in Nat /\ master[r[1]] <= master'[r[1]] /\ master'[r[1]] \in Nat
      BY <1>5, <1>11, <3>1, IndexAssumption
    <3> QED BY <2>1, <3>1, <3>2 DEF Sound, Placed
  <2>2. CASE r \notin Queued(j)
    <3>1. j = k /\ r = p
      BY <1>10, <2>2
    <3> QED BY <3>1, <1>2, <1>4, <1>5, <1>8, <1>11
  <2> QED BY <2>1, <2>2
<1>15. ASSUME NEW u \in Threads
       PROVE  Cardinality(Passed(u, "ASYN")') = Cardinality(InNested(u)') + master'[u]
  <2>1. Passed(u, "ASYN")' = Passed(u, "ASYN")
    BY <1>0 DEF Passed
  <2>2. Cardinality(InNested(u)) = Plus(Cardinality(InNested(u)'), u = t)
    BY <1>0, <1>1, <1>2, NestedCounts DEF Plus
  <2>3. Cardinality(Passed(u, "ASYN")) = Cardinality(InNested(u)) + master[u] /\ master[u] \in Nat
    BY IndexAssumption DEF Sound, Indexed, TypeOK
  <2>4. Cardinality(InNested(u)') \in Nat
    <3>1. InNested(u)' \in SUBSET (1 .. Len(nested))
      BY <1>3 DEF InNested
    <3>2. IsFiniteSet(1 .. Len(nested))
      BY <1>3, UpTo
    <3> QED BY <3>1, <3>2, FS_Subset, FS_CardinalityType
  <2>5. CASE u = t
    BY <2>1, <2>2, <2>3, <2>4, <2>5, <1>11 DEF Plus
  <2>6. CASE u # t
    BY <2>1, <2>2, <2>3, <2>6, <1>11 DEF Plus
  <2> QED BY <2>5, <2>6
<1>16. ASSUME NEW u \in Threads
       PROVE  /\ IsFiniteSet(InFlight(u)') /\ flight'[u] = Cardinality(InFlight(u)')
              /\ master'[u] = flight'[u] + done[u] + Cardinality(Passed(u, "WAIT")')
  <2>1. /\ IsFiniteSet(InFlight(u)) /\ flight[u] = Cardinality(InFlight(u))
        /\ master[u] = flight[u] + done[u] + Cardinality(Passed(u, "WAIT"))
        /\ flight[u] \in Nat /\ done[u] \in Nat
    BY DEF Sound, Flying, Counted, TypeOK
  <2>2. Cardinality(Passed(u, "WAIT")) \in Nat /\ Passed(u, "WAIT")' = Passed(u, "WAIT")
    <3>1. Cardinality(Passed(u, "WAIT")) \in 0 .. pc[u] - 1 /\ pc[u] \in Nat
      BY <1>0, PassedCounts DEF Sound, TypeOK
    <3> QED BY <1>0, <3>1 DEF Passed
  <2>3. CASE u = t
    <3>1. InFlight(t)' = InFlight(t) \cup {k}
      BY <1>2, <1>8, <1>10 DEF InFlight
    <3>2. k \notin InFlight(t)
      BY <1>9 DEF InFlight
    <3>3. IsFiniteSet(InFlight(t)') /\ Cardinality(InFlight(t)') = Cardinality(InFlight(t)) + 1
      BY <2>1, <2>3, <3>1, <3>2, FS_AddElement
    <3> QED BY <2>1, <2>2, <2>3, <3>3, <1>11
  <2>4. CASE u # t
    <3>1. InFlight(u)' = InFlight(u)
      BY <1>2, <1>10, <2>4 DEF InFlight
    <3> QED BY <2>1, <2>2, <2>4, <3>1, <1>11
  <2> QED BY <2>3, <2>4
<1>17. Indexed' /\ Counted' /\ Flying'
  BY <1>0, <1>15, <1>16 DEF Indexed, Counted, Flying
<1>18. NoLostWait' /\ WaitersBlocked' /\ TracesKept'
  BY <1>0 DEF Sound, NoLostWait, WaitersBlocked, More, TracesKept
<1>19. NestedCalls'
  BY <1>0, <1>3 DEF Sound, NestedCalls, NestedCall, Action
<1> QED BY <1>12, <1>13, <1>14, <1>17, <1>18, <1>19 DEF Sound

LEMMA GetAllBusesKeeps ==
    ASSUME Sound, NEW k \in Keys, NEW p \in machineThreads[k], GetAllBuses(k, p)
    PROVE  Sound'
<1> DEFINE queue == Append(opThreads[k], p)
<1>1. /\ timer[k] = "none" /\ p \notin ToSet(opThreads[k])
      /\ opThreads' = [opThreads EXCEPT ![k] = Append(@, p)]
      /\ UNCHANGED <<prog, threadVars, nested, deeper, machineThreads, counted>>
  BY DEF GetAllBuses, Contains, ToSet
<1>2. /\ opThreads[k] \in Seq(Participants) /\ p \in Participants
      /\ k[1] \in Comms /\ QueueSound(k)
  BY QueuesTyped
<1>3. /\ opThreads \in [Keys -> Seq(Participants)]
      /\ timer \in [Keys -> {"none", "resources", "group"}]
  BY DEF Sound, TypeOK, Participants
<1>4. /\ queue \in Seq(Participants) /\ Once(queue)
      /\ ToSet(queue) = ToSet(opThreads[k]) \cup {p} /\ Len(queue) = Len(opThreads[k]) + 1
  BY <1>1, <1>2, AppendPositions, AppendElements, AppendOnce DEF QueueSound
<1> HIDE DEF queue
<1>5. /\ opThreads'[k] = queue /\ opThreads' \in [Keys -> Seq(Participants)]
      /\ \A j \in Keys \ {k} : opThreads'[j] = opThreads[j]
  BY <1>1, <1>3, <1>4 DEF queue
<1>6. \A j \in Keys : Queued(j)' = Queued(j)
  <2>1. Queued(k)' = Queued(k)
    BY <1>1, <1>4, <1>5 DEF Queued
  <2> QED BY <1>1, <1>5, <2>1 DEF Queued
<1>7. /\ timer' \in [Keys -> {"none", "resources", "group"}]
      /\ timer'[k] \in {"none", "resources"}
      /\ \A j \in Keys \ {k} : timer'[j] = timer[j]
      /\ timer'[k] # "none" => Len(queue) = Size(k[1])
  <2>1. CASE Len(opThreads[k]) + 1 = Size(k[1])
    <3>1. timer' = [timer EXCEPT ![k] = "resources"]
      BY <2>1 DEF GetAllBuses, StartGlobalOp
    <3> QED BY <1>3, <1>4, <2>1, <3>1
  <2>2. CASE Len(opThreads[k]) + 1 # Size(k[1])
    <3>1. timer' = timer
      BY <2>2 DEF GetAllBuses
    <3> QED BY <1>1, <1>3, <3>1
  <2> QED BY <2>1, <2>2
<1>8. timer'[k] # "none" => machineThreads[k] \subseteq ToSet(queue)
  <2> SUFFICES ASSUME timer'[k] # "none", NEW r \in machineThreads[k]
               PROVE  r \in ToSet(queue)
    OBVIOUS
  <2>1. /\ ToSet(queue) \subseteq Queued(k) /\ Different(Queued(k)) /\ r \in Queued(k)
        /\ \A s \in Queued(k) : s[1] \in Members[k[1]]
    BY <1>2, <1>4 DEF Queued, QueueSound, Belongs
  <2>2. Different(ToSet(queue)) /\ \A s \in ToSet(queue) : s[1] \in Members[k[1]]
    BY <2>1 DEF Different
  <2>3. \A t \in Members[k[1]] : \E s \in ToSet(queue) : s[1] = t
    BY <1>2, <1>4, <1>7, <2>2, EveryoneCame
  <2> QED BY <2>1, <2>3 DEF Different
<1>9. Everyone(k)
  BY <1>2 DEF QueueSound
<1>10. QueueSound(k)'
  <2>1. machineThreads'[k] = machineThreads[k] /\ Queued(k)' = Queued(k)
    BY <1>1, <1>6
  <2>2. Everyone(k)' /\ (OneReserver(k) => OneReserver(k)')
    BY <1>9, <2>1 DEF Everyone, OneReserver
  <2>3. Different(Queued(k)') /\ \A r \in Queued(k) : Belongs(k, r)'
    BY <1>1, <1>2, <2>1 DEF QueueSound, Belongs, Action
  <2>4. machineThreads[k] # {} => OneReserver(k)
    BY <1>2 DEF QueueSound
  <2>5. timer'[k] # "none" => machineThreads'[k] \subseteq ToSet(queue)
    BY <1>8, <2>1
  <2>6. timer'[k] # "group"
    BY <1>7
  <2> QED BY <1>4, <1>5, <2>1, <2>2, <2>3, <2>4, <2>5, <2>6 DEF QueueSound
<1>11. Queues'
  <2> SUFFICES ASSUME NEW j \in Keys, j # k PROVE QueueSound(j)'
    BY <1>10 DEF Queues
  <2>1. QueueSound(j)
    BY QueuesTyped
  <2> QED BY <1>1, <1>5, <1>6, <1>7, <2>1 DEF QueueSound, Everyone, OneReserver, Belongs, Action
<1>12. TypeOK'
  BY <1>1, <1>5, <1>7 DEF Sound, TypeOK, Participants, threadVars
<1>13. Placed'
  BY <1>1, <1>6 DEF Sound, Placed, threadVars
<1>14. \A u \in Threads : InFlight(u)' = InFlight(u)
  BY <1>6 DEF InFlight
<1>15. Indexed' /\ Counted' /\ Flying' /\ NestedCalls' /\ TracesKept'
  BY <1>1, <1>14, SameCounts DEF threadVars
<1>16. NoLostWait' /\ WaitersBlocked'
  BY <1>1 DEF Sound, NoLostWait, WaitersBlocked, More, threadVars
<1> QED BY <1>11, <1>12, <1>13, <1>15, <1>16 DEF Sound

LEMMA GroupResourcesOutKeeps ==
    ASSUME Sound, NEW k \in Keys, GroupResourcesOut(k)
    PROVE  Sound'
<1>1. /\ timer[k] = "resources"
      /\ timer' = [timer EXCEPT ![k] = "group"]
      /\ machineThreads' = [machineThreads EXCEPT ![k] = {}]
      /\ UNCHANGED <<prog, threadVars, nested, deeper, opThreads, counted, ran>>
  BY DEF GroupResourcesOut
<1>2. QueueSound(k)
  BY QueuesTyped
<1>3. /\ machineThreads \in [Keys -> SUBSET Participants]
      /\ timer \in [Keys -> {"none", "resources", "group"}]
  BY DEF Sound, TypeOK, Participants
<1>4. /\ timer'[k] = "group" /\ machineThreads'[k] = {}
      /\ \A j \in Keys \ {k} : timer'[j] = timer[j] /\ machineThreads'[j] = machineThreads[j]
      /\ timer' \in [Keys -> {"none", "resources", "group"}]
      /\ machineThreads' \in [Keys -> SUBSET Participants]
  BY <1>1, <1>3
<1>5. \A j \in Keys : Queued(j)' = Queued(j)
  <2>1. Queued(k)' = Queued(k)
    BY <1>1, <1>2, <1>4 DEF Queued, QueueSound
  <2> QED BY <1>1, <1>4, <2>1 DEF Queued
<1>6. QueueSound(k)'
  BY <1>1, <1>2, <1>4, <1>5 DEF QueueSound, Everyone, Belongs, Action
<1>7. Queues'
  <2> SUFFICES ASSUME NEW j \in Keys, j # k PROVE QueueSound(j)'
    BY <1>6 DEF Queues
  <2>1. QueueSound(j)
    BY QueuesTyped
  <2> QED BY <1>1, <1>4, <1>5, <2>1 DEF QueueSound, Everyone, OneReserver, Belongs, Action
<1>8. TypeOK'
  BY <1>1, <1>4 DEF Sound, TypeOK, Participants, threadVars
<1>9. Placed'
  BY <1>1, <1>5 DEF Sound, Placed, threadVars
<1>10. \A u \in Threads : InFlight(u)' = InFlight(u)
  BY <1>5 DEF InFlight
<1>11. Indexed' /\ Counted' /\ Flying' /\ NestedCalls' /\ TracesKept'
  BY <1>1, <1>10, SameCounts DEF threadVars
<1>12. NoLostWait' /\ WaitersBlocked'
  BY <1>1 DEF Sound, NoLostWait, WaitersBlocked, More, threadVars
<1> QED BY <1>7, <1>8, <1>9, <1>11, <1>12 DEF Sound

\* An operation that ends leaves its queues empty and the others alone; its
\* participants were one of each member.
LEMMA Closes ==
    ASSUME Sound, NEW k \in Keys, Close(k)
    PROVE  /\ Queues' /\ Queued(k)' = {}
           /\ \A j \in Keys \ {k} : Queued(j)' = Queued(j)
           /\ Queued(k) = ToSet(opThreads[k]) /\ Owners(k) \subseteq Threads
           /\ \A t \in Owners(k) : \E p \in Queued(k) : p[1] = t
           /\ \A p \in Queued(k) : p[1] \in Owners(k)
           /\ opThreads' \in [Keys -> Seq(Threads \X Nat)] /\ machineThreads' = machineThreads
           /\ timer' \in [Keys -> {"none", "resources", "group"}]
           /\ counted' \in [Comms -> Nat]
<1>1. /\ timer[k] = "group" /\ timer' = [timer EXCEPT ![k] = "none"]
      /\ opThreads' = [opThreads EXCEPT ![k] = <<>>]
      /\ counted' = [counted EXCEPT ![k[1]] = 0]
      /\ UNCHANGED <<prog, nested, deeper, machineThreads, ran>>
  BY DEF Close
<1>2. QueueSound(k) /\ opThreads[k] \in Seq(Participants) /\ ToSet(opThreads[k]) \subseteq Participants
  BY QueuesTyped
<1>3. /\ opThreads \in [Keys -> Seq(Threads \X Nat)] /\ counted \in [Comms -> Nat]
      /\ timer \in [Keys -> {"none", "resources", "group"}]
  BY DEF Sound, TypeOK
<1>4. machineThreads[k] = {} /\ Queued(k) = ToSet(opThreads[k])
  BY <1>1, <1>2 DEF QueueSound, Queued
<1>5. /\ timer'[k] = "none" /\ opThreads'[k] = <<>>
      /\ \A j \in Keys \ {k} : timer'[j] = timer[j] /\ opThreads'[j] = opThreads[j]
      /\ opThreads' \in [Keys -> Seq(Threads \X Nat)] /\ counted' \in [Comms -> Nat]
      /\ timer' \in [Keys -> {"none", "resources", "group"}]
  <2>1. <<>> \in Seq(Threads \X Nat) /\ k[1] \in Comms
    BY QueuesTyped
  <2>2. opThreads' \in [Keys -> Seq(Threads \X Nat)] /\ opThreads'[k] = <<>>
        /\ \A j \in Keys \ {k} : opThreads'[j] = opThreads[j]
    BY <1>1, <1>3, <2>1
  <2>3. timer' \in [Keys -> {"none", "resources", "group"}] /\ timer'[k] = "none"
        /\ \A j \in Keys \ {k} : timer'[j] = timer[j]
    BY <1>1, <1>3
  <2>4. counted' \in [Comms -> Nat]
    BY <1>1, <1>3
  <2> QED BY <2>2, <2>3, <2>4
<1>6. ToSet(<<>>) = {} /\ Once(<<>>)
  BY DEF ToSet, Once
<1>7. Queued(k)' = {} /\ \A j \in Keys \ {k} : Queued(j)' = Queued(j)
  BY <1>1, <1>4, <1>5, <1>6 DEF Queued
<1>8. QueueSound(k)'
  BY <1>1, <1>4, <1>5, <1>6, <1>7 DEF QueueSound, Different
<1>9. Queues'
  <2> SUFFICES ASSUME NEW j \in Keys, j # k PROVE QueueSound(j)'
    BY <1>8 DEF Queues
  <2>1. QueueSound(j)
    BY QueuesTyped
  <2> QED BY <1>1, <1>5, <1>7, <2>1 DEF QueueSound, Everyone, OneReserver, Belongs, Action
<1>10. /\ Owners(k) \subseteq Threads
       /\ \A t \in Owners(k) : \E p \in Queued(k) : p[1] = t
       /\ \A p \in Queued(k) : p[1] \in Owners(k)
  BY <1>2, <1>4 DEF Owners, Participants
<1> QED BY <1>1, <1>4, <1>5, <1>7, <1>9, <1>10

LEMMA CloseSyncKeeps ==
    ASSUME Sound, NEW k \in Keys, CloseSync(k)
    PROVE  Sound'
<1>1. /\ k[2] = 0 /\ Close(k)
      /\ pc' = [t \in Threads |-> IF t \in Owners(k) THEN pc[t] + 1 ELSE pc[t]]
      /\ status' = [t \in Threads |-> IF t \in Owners(k) THEN "ready" ELSE status[t]]
      /\ UNCHANGED <<prog, nested, deeper, master, flight, done, waiting>>
  BY DEF CloseSync, Close
<1>2. /\ Queues' /\ Queued(k)' = {}
      /\ \A j \in Keys \ {k} : Queued(j)' = Queued(j)
      /\ \A t \in Owners(k) : \E p \in Queued(k) : p[1] = t
      /\ opThreads' \in [Keys -> Seq(Threads \X Nat)] /\ machineThreads' = machineThreads
      /\ timer' \in [Keys -> {"none", "resources", "group"}]
      /\ counted' \in [Comms -> Nat]
  BY <1>1, Closes
<1>3. /\ pc \in [Threads -> Nat \ {0}] /\ status \in [Threads -> {"ready", "blocked"}]
  BY DEF Sound, TypeOK
<1>4. /\ pc' \in [Threads -> Nat \ {0}] /\ status' \in [Threads -> {"ready", "blocked"}]
      /\ \A u \in Threads : /\ u \in Owners(k) => pc'[u] = pc[u] + 1
                            /\ u \notin Owners(k) => pc'[u] = pc[u] /\ status'[u] = status[u]
                            /\ pc[u] \in Nat /\ pc'[u] \in Nat /\ pc[u] <= pc'[u]
  BY <1>1, <1>3
<1>5. ASSUME NEW t \in Owners(k), t \in Threads
      PROVE  /\ pc[t] \in 1 .. Len(prog[t])
             /\ prog[t][pc[t]] = [op |-> "SYNC", comm |-> k[1]]
  <2>1. PICK p \in Queued(k) : p[1] = t
    BY <1>2
  <2>2. p[2] = pc[t]
    BY <1>1, <2>1 DEF Sound, Placed
  <2>3. p[2] \in DOMAIN prog[t] /\ prog[t][p[2]] = [op |-> "SYNC", comm |-> k[1]]
    BY <1>1, <2>1, QueuesTyped DEF QueueSound, Belongs, Action, Call
  <2> QED BY <1>5, <2>2, <2>3, TraceTyped
<1>6. TypeOK'
  BY <1>1, <1>2, <1>4 DEF Sound, TypeOK
<1>7. TracesKept'
  <2> SUFFICES ASSUME NEW u \in Threads PROVE pc'[u] <= Len(prog[u]) + 1
    BY <1>1 DEF Sound, TracesKept
  <2>1. pc[u] <= Len(prog[u]) + 1
    BY DEF Sound, TracesKept
  <2>2. u \in Owners(k) => pc[u] <= Len(prog[u]) /\ Len(prog[u]) \in Nat
    BY <1>5, TraceTyped, IndexAssumption
  <2> QED BY <1>4, <2>1, <2>2
<1>8. Placed'
  <2> SUFFICES ASSUME NEW j \in Keys, j # k, NEW r \in Queued(j)
               PROVE  IF j[2] = 0 THEN r[2] = pc'[r[1]] /\ status'[r[1]] = "blocked"
                                  ELSE r[2] < pc'[r[1]] /\ j[2] <= master[r[1]]
    BY <1>1, <1>2 DEF Placed
  <2>1. r[1] \in Threads /\ r[2] \in Nat /\ Belongs(j, r)
    BY QueuedTyped
  <2>2. IF j[2] = 0 THEN r[2] = pc[r[1]] /\ status[r[1]] = "blocked"
                    ELSE r[2] < pc[r[1]] /\ j[2] <= master[r[1]]
    BY DEF Sound, Placed
  <2>3. CASE j[2] = 0
    <3>1. r[1] \notin Owners(k)
      <4> SUFFICES ASSUME r[1] \in Owners(k) PROVE FALSE
        OBVIOUS
      <4>1. [op |-> "SYNC", comm |-> j[1]] = [op |-> "SYNC", comm |-> k[1]]
        BY <1>5, <2>1, <2>2, <2>3 DEF Belongs, Action, Call
      <4>2. j[1] = k[1]
        <5>1. [op |-> "SYNC", comm |-> j[1]].comm = [op |-> "SYNC", comm |-> k[1]].comm
          BY <4>1
        <5> QED BY <5>1
      <4>3. j = <<j[1], j[2]>> /\ k = <<k[1], k[2]>>
        BY QueuesTyped
      <4> QED BY <1>1, <2>3, <4>2, <4>3
    <3> QED BY <1>4, <2>1, <2>2, <2>3, <3>1
  <2>4. CASE j[2] # 0
    BY <1>4, <2>1, <2>2, <2>4
  <2> QED BY <2>3, <2>4
<1>9. NoLostWait'
  BY <1>1 DEF Sound, NoLostWait
<1>10. WaitersBlocked'
  <2> SUFFICES ASSUME NEW u \in Threads, waiting[u] = 1
               PROVE  status'[u] = "blocked" /\ pc'[u] <= Len(prog[u]) /\ prog[u][pc'[u]].op = "WAIT"
    BY <1>1 DEF WaitersBlocked, More
  <2>1. status[u] = "blocked" /\ pc[u] <= Len(prog[u]) /\ prog[u][pc[u]].op = "WAIT"
    BY DEF Sound, WaitersBlocked, More
  <2>2. u \notin Owners(k)
    BY <1>5, <2>1
  <2> QED BY <1>4, <2>1, <2>2
<1>11. ASSUME NEW u \in Threads, NEW op \in {"ASYN", "WAIT"}
       PROVE  Cardinality(Passed(u, op)') = Cardinality(Passed(u, op))
  <2>1. CASE u \in Owners(k)
    BY <1>1, <1>4, <1>5, <2>1, PassedCounts DEF Plus
  <2>2. CASE u \notin Owners(k)
    BY <1>1, <1>4, <2>2, PassedCounts
  <2> QED BY <2>1, <2>2
<1>12. \A u \in Threads : InNested(u)' = InNested(u) /\ InFlight(u)' = InFlight(u)
  <2>1. \A j \in Keys : j[2] > 0 => Queued(j)' = Queued(j)
    BY <1>1, <1>2
  <2> QED BY <1>1, <2>1 DEF InNested, InFlight
<1>13. Indexed' /\ Counted' /\ Flying'
  BY <1>1, <1>11, <1>12 DEF Sound, Indexed, Counted, Flying
<1>14. NestedCalls'
  BY <1>1 DEF Sound, NestedCalls, Close, NestedCall
<1> QED BY <1>2, <1>6, <1>7, <1>8, <1>9, <1>10, <1>13, <1>14 DEF Sound

LEMMA CloseAsynKeeps ==
    ASSUME Sound, NEW k \in Keys, CloseAsyn(k)
    PROVE  Sound'
<1> DEFINE Released(t) == t \in Owners(k) /\ waiting[t] > 0
<1>1. /\ k[2] > 0 /\ Close(k) /\ nested = <<>>
      /\ UNCHANGED <<prog, nested, deeper, master>>
  BY DEF CloseAsyn, Close
<1>2. /\ Queues' /\ Queued(k)' = {}
      /\ \A j \in Keys \ {k} : Queued(j)' = Queued(j)
      /\ \A t \in Owners(k) : \E p \in Queued(k) : p[1] = t
      /\ \A p \in Queued(k) : p[1] \in Owners(k)
      /\ opThreads' \in [Keys -> Seq(Threads \X Nat)] /\ machineThreads' = machineThreads
      /\ timer' \in [Keys -> {"none", "resources", "group"}]
      /\ counted' \in [Comms -> Nat]
  BY <1>1, Closes
<1>3. /\ pc \in [Threads -> Nat \ {0}] /\ status \in [Threads -> {"ready", "blocked"}]
      /\ waiting \in [Threads -> {0, 1}] /\ done \in [Threads -> Nat] /\ flight \in [Threads -> Nat]
  BY DEF Sound, TypeOK
<1>4. /\ waiting' = [t \in Threads |-> IF Released(t) THEN waiting[t] - 1 ELSE waiting[t]]
      /\ pc' = [t \in Threads |-> IF Released(t) THEN pc[t] + 1 ELSE pc[t]]
      /\ status' = [t \in Threads |-> IF Released(t) THEN "ready" ELSE status[t]]
      /\ done' = [t \in Threads |-> IF t \in Owners(k) /\ ~ Released(t) THEN done[t] + 1
                                                                       ELSE done[t]]
      /\ flight' = [t \in Threads |-> IF t \in Owners(k) THEN flight[t] - 1 ELSE flight[t]]
  BY DEF CloseAsyn
<1>5. ASSUME NEW t \in Threads, Released(t)
      PROVE  /\ waiting[t] = 1 /\ status[t] = "blocked"
             /\ pc[t] \in 1 .. Len(prog[t]) /\ Len(prog[t]) \in Nat /\ prog[t][pc[t]].op = "WAIT"
  <2>1. waiting[t] = 1
    BY <1>3, <1>5
  <2>2. status[t] = "blocked" /\ pc[t] <= Len(prog[t]) /\ prog[t][pc[t]].op = "WAIT"
    BY <2>1 DEF Sound, WaitersBlocked, More
  <2>3. pc[t] \in 1 .. Len(prog[t]) + 1 /\ Len(prog[t]) \in Nat
    BY TraceTyped, IndexAssumption
  <2> QED BY <2>1, <2>2, <2>3
<1>6. \A u \in Threads :
         /\ Released(u) => waiting'[u] = 0 /\ pc'[u] = pc[u] + 1
         /\ ~ Released(u) => waiting'[u] = waiting[u] /\ pc'[u] = pc[u] /\ status'[u] = status[u]
         /\ pc[u] \in Nat /\ pc'[u] \in Nat /\ pc[u] <= pc'[u]
  BY <1>3, <1>4, <1>5
<1>7. ASSUME NEW u \in Threads
      PROVE  /\ IsFiniteSet(InFlight(u)') /\ Cardinality(InFlight(u)') \in Nat
             /\ flight'[u] = Cardinality(InFlight(u)')
             /\ flight[u] = Plus(flight'[u], u \in Owners(k))
  <2>1. IsFiniteSet(InFlight(u)) /\ flight[u] = Cardinality(InFlight(u)) /\ flight[u] \in Nat
    BY <1>3 DEF Sound, Flying
  <2>2. InFlight(u)' = InFlight(u) \ {k}
    BY <1>2 DEF InFlight
  <2>3. IsFiniteSet(InFlight(u)') /\ Cardinality(InFlight(u)') \in Nat
    BY <2>1, <2>2, FS_RemoveElement, FS_CardinalityType
  <2>4. CASE u \in Owners(k)
    <3>1. k \in InFlight(u)
      BY <1>1, <1>2, <2>4 DEF InFlight
    <3>2. Cardinality(InFlight(u)') = Cardinality(InFlight(u)) - 1
      BY <2>1, <2>2, <3>1, FS_RemoveElement
    <3> QED BY <1>4, <2>1, <2>3, <2>4, <3>2 DEF Plus
  <2>5. CASE u \notin Owners(k)
    <3>1. k \notin InFlight(u)
      BY <1>2, <2>5 DEF InFlight
    <3> QED BY <1>4, <2>1, <2>2, <2>3, <2>5, <3>1 DEF Plus
  <2> QED BY <2>4, <2>5
<1>8. /\ pc' \in [Threads -> Nat \ {0}] /\ status' \in [Threads -> {"ready", "blocked"}]
      /\ waiting' \in [Threads -> {0, 1}] /\ done' \in [Threads -> Nat]
      /\ flight' \in [Threads -> Nat]
  <2>1. pc' \in [Threads -> Nat \ {0}] /\ status' \in [Threads -> {"ready", "blocked"}]
    BY <1>3, <1>4
  <2>2. waiting' \in [Threads -> {0, 1}]
    BY <1>3, <1>4
  <2>3. done' \in [Threads -> Nat]
    BY <1>3, <1>4
  <2>4. \A u \in Threads : flight'[u] \in Nat
    BY <1>7
  <2> QED BY <1>4, <2>1, <2>2, <2>3, <2>4
<1>9. TypeOK'
  BY <1>1, <1>2, <1>8 DEF Sound, TypeOK
<1>10. TracesKept'
  <2> SUFFICES ASSUME NEW u \in Threads PROVE pc'[u] <= Len(prog[u]) + 1
    BY <1>1 DEF Sound, TracesKept
  <2>1. pc[u] <= Len(prog[u]) + 1
    BY DEF Sound, TracesKept
  <2> QED BY <1>5, <1>6, <2>1
<1>11. Placed'
  <2> SUFFICES ASSUME NEW j \in Keys, j # k, NEW r \in Queued(j)
               PROVE  IF j[2] = 0 THEN r[2] = pc'[r[1]] /\ status'[r[1]] = "blocked"
                                  ELSE r[2] < pc'[r[1]] /\ j[2] <= master[r[1]]
    BY <1>1, <1>2 DEF Placed
  <2>1. r[1] \in Threads /\ r[2] \in Nat /\ Belongs(j, r)
    BY QueuedTyped
  <2>2. IF j[2] = 0 THEN r[2] = pc[r[1]] /\ status[r[1]] = "blocked"
                    ELSE r[2] < pc[r[1]] /\ j[2] <= master[r[1]]
    BY DEF Sound, Placed
  <2>3. CASE j[2] = 0
    <3>1. prog[r[1]][pc[r[1]]].op = "SYNC"
      BY <2>1, <2>2, <2>3 DEF Belongs, Action, Call
    <3>2. ~ Released(r[1])
      BY <1>5, <2>1, <3>1
    <3> QED BY <1>6, <2>1, <2>2, <2>3, <3>2
  <2>4. CASE j[2] # 0
    BY <1>6, <2>1, <2>2, <2>4
  <2> QED BY <2>3, <2>4
<1>12. NoLostWait'
  <2> SUFFICES ASSUME NEW u \in Threads PROVE waiting'[u] = 0 \/ done'[u] = 0
    BY DEF NoLostWait
  <2>1. waiting[u] = 0 \/ done[u] = 0
    BY DEF Sound, NoLostWait
  <2>2. waiting[u] \in {0, 1}
    BY <1>3
  <2> QED BY <1>4, <1>6, <2>1, <2>2
<1>13. WaitersBlocked'
  <2> SUFFICES ASSUME NEW u \in Threads, waiting'[u] = 1
               PROVE  status'[u] = "blocked" /\ pc'[u] <= Len(prog[u]) /\ prog[u][pc'[u]].op = "WAIT"
    BY <1>1 DEF WaitersBlocked, More
  <2>1. ~ Released(u) /\ waiting[u] = 1
    BY <1>6
  <2> QED BY <1>6, <2>1 DEF Sound, WaitersBlocked, More
<1>14. ASSUME NEW u \in Threads
       PROVE  /\ Cardinality(Passed(u, "ASYN")') = Cardinality(Passed(u, "ASYN"))
              /\ Cardinality(Passed(u, "WAIT")') = Plus(Cardinality(Passed(u, "WAIT")), Released(u))
              /\ Cardinality(Passed(u, "WAIT")) \in Nat
  <2>1. Cardinality(Passed(u, "WAIT")) \in Nat
    BY <1>1, <1>6, PassedCounts
  <2>2. CASE Released(u)
    <3>1. pc'[u] = pc[u] + 1 /\ prog[u][pc[u]].op = "WAIT"
      BY <1>5, <1>6, <2>2
    <3> QED BY <1>1, <2>1, <2>2, <3>1, PassedCounts DEF Plus
  <2>3. CASE ~ Released(u)
    BY <1>1, <1>6, <2>1, <2>3, PassedCounts DEF Plus
  <2> QED BY <2>2, <2>3
<1>15. \A u \in Threads : InNested(u)' = InNested(u)
  BY <1>1 DEF InNested
<1>16. Counted'
  <2> SUFFICES ASSUME NEW u \in Threads
               PROVE  master[u] = flight'[u] + done'[u] + Cardinality(Passed(u, "WAIT")')
    BY <1>1 DEF Counted
  <2>1. master[u] = flight[u] + done[u] + Cardinality(Passed(u, "WAIT"))
        /\ done[u] \in Nat
    BY <1>3 DEF Sound, Counted
  <2>2. flight'[u] \in Nat /\ flight[u] = Plus(flight'[u], u \in Owners(k))
    BY <1>7
  <2>3. CASE u \notin Owners(k)
    BY <1>4, <1>14, <2>1, <2>2, <2>3 DEF Plus
  <2>4. CASE Released(u)
    BY <1>4, <1>14, <2>1, <2>2, <2>4 DEF Plus
  <2>5. CASE u \in Owners(k) /\ ~ Released(u)
    BY <1>4, <1>14, <2>1, <2>2, <2>5 DEF Plus
  <2> QED BY <2>3, <2>4, <2>5
<1>17. Indexed' /\ Flying'
  BY <1>1, <1>7, <1>14, <1>15 DEF Sound, Indexed, Flying
<1>18. NestedCalls'
  BY <1>1 DEF NestedCalls
<1> QED BY <1>2, <1>9, <1>10, <1>11, <1>12, <1>13, <1>16, <1>17, <1>18 DEF Sound

LEMMA SoundInit == Init => Sound
<1> SUFFICES ASSUME Init PROVE Sound
  OBVIOUS
<1>1. /\ prog \in Programs /\ nested = <<>> /\ deeper = FALSE
      /\ pc = [t \in Threads |-> 1] /\ status = [t \in Threads |-> "ready"]
      /\ master = [t \in Threads |-> 0] /\ flight = [t \in Threads |-> 0]
      /\ done = [t \in Threads |-> 0] /\ waiting = [t \in Threads |-> 0]
      /\ opThreads = [k \in Keys |-> <<>>] /\ machineThreads = [k \in Keys |-> {}]
      /\ timer = [k \in Keys |-> "none"] /\ counted = [c \in Comms |-> 0]
  BY DEF Init
<1>2. TypeOK
  <2>1. <<>> \in Seq(Threads \X Nat)
    OBVIOUS
  <2>2. /\ opThreads \in [Keys -> Seq(Threads \X Nat)]
        /\ machineThreads \in [Keys -> SUBSET (Threads \X Nat)]
        /\ timer \in [Keys -> {"none", "resources", "group"}] /\ counted \in [Comms -> Nat]
    BY <1>1, <2>1
  <2>3. /\ pc \in [Threads -> Nat \ {0}] /\ status \in [Threads -> {"ready", "blocked"}]
        /\ master \in [Threads -> 0 .. MaxIndex] /\ flight \in [Threads -> Nat]
        /\ done \in [Threads -> Nat] /\ waiting \in [Threads -> {0, 1}]
    BY <1>1, IndexAssumption
  <2> QED BY <1>1, <2>1, <2>2, <2>3 DEF TypeOK
<1>3. \A t \in Threads : Len(prog[t]) \in Nat
  BY <1>1, ProgramsAssumption
<1>4. TracesKept
  BY <1>1, <1>3 DEF TracesKept
<1>5. ToSet(<<>>) = {} /\ Once(<<>>)
  BY DEF ToSet, Once
<1>6. \A k \in Keys : Queued(k) = {}
  BY <1>1, <1>5 DEF Queued
<1>7. Queues
  BY <1>1, <1>5, <1>6 DEF Queues, QueueSound, Different
<1>8. Placed
  BY <1>6 DEF Placed
<1>9. WaitersBlocked /\ NoLostWait /\ NestedCalls
  BY <1>1 DEF WaitersBlocked, NoLostWait, NestedCalls
<1>10. \A t \in Threads : Passed(t, "ASYN") = {} /\ Passed(t, "WAIT") = {} /\ InNested(t) = {}
  BY <1>1 DEF Passed, InNested
<1>11. \A t \in Threads : InFlight(t) = {}
  BY <1>6 DEF InFlight
<1>12. Indexed /\ Counted /\ Flying
  <2>1. IsFiniteSet({}) /\ Cardinality({}) = 0
    BY FS_EmptySet
  <2>2. \A t \in Threads : master[t] = 0 /\ flight[t] = 0 /\ done[t] = 0
    BY <1>1
  <2> QED BY <1>10, <1>11, <2>1, <2>2 DEF Indexed, Counted, Flying
<1> QED BY <1>2, <1>4, <1>7, <1>8, <1>9, <1>12 DEF Sound

LEMMA SoundNext == Sound /\ [Next]_vars => Sound'
<1> SUFFICES ASSUME Sound, [Next]_vars PROVE Sound'
  OBVIOUS
<1>1. ASSUME NEW t \in Threads, Step(t) PROVE Sound'
  BY <1>1, CpuKeeps, SyncKeeps, AsynKeeps, WaitKeeps DEF Step
<1>2. CASE Register
  BY <1>2, RegisterKeeps
<1>3. ASSUME NEW k \in Keys, Timers(k) PROVE Sound'
  BY <1>3, GroupResourcesOutKeeps, CloseSyncKeeps, CloseAsynKeeps DEF Timers
<1>4. ASSUME NEW k \in Keys, NEW p \in machineThreads[k], GetAllBuses(k, p) PROVE Sound'
  BY <1>4, GetAllBusesKeeps
<1>5. CASE UNCHANGED vars
  <2>1. Queues' /\ (\A k \in Keys : Queued(k)' = Queued(k))
        /\ (\A t \in Threads : InFlight(t)' = InFlight(t))
    BY <1>5, SameQueues DEF vars, opVars
  <2>2. Indexed' /\ Counted' /\ Flying' /\ NestedCalls' /\ TracesKept'
    BY <1>5, <2>1, SameCounts DEF vars, threadVars
  <2>3. TypeOK'
    BY <1>5 DEF Sound, TypeOK, vars, threadVars, opVars
  <2>4. Placed' /\ WaitersBlocked' /\ NoLostWait'
    BY <1>5, <2>1 DEF Sound, Placed, WaitersBlocked, NoLostWait, More, vars, threadVars
  <2> QED BY <2>1, <2>2, <2>3, <2>4 DEF Sound
<1> QED BY <1>1, <1>2, <1>3, <1>4, <1>5 DEF Next

-----------------------------------------------------------------------------
(* The theorems.                                                           *)

\* The queues of a key hold one participant of each member, whatever operations
\* of the communicator overlap; who is queued, blocked, nested or in flight agrees
\* with the counters of GLOBAL_operation and the traces.
THEOREM AlwaysSound == Spec => []Sound
<1>1. Init => Sound
  BY SoundInit
<1>2. Sound /\ [Next]_vars => Sound'
  BY SoundNext
<1> QED BY <1>1, <1>2, PTL DEF Spec

LEMMA SoundCounted == Sound => CountedOnce
<1> SUFFICES ASSUME Sound PROVE CountedOnce
  OBVIOUS
<1>1. TypeOK /\ NoLostWait
  BY DEF Sound
<1>2. NonblockingAccounted
  <2> SUFFICES ASSUME NEW t \in Threads
               PROVE  Cardinality(Passed(t, "ASYN")) =
                         Cardinality(InNested(t)) + flight[t] + done[t]
                           + Cardinality(Passed(t, "WAIT"))
    BY DEF NonblockingAccounted
  <2>1. /\ Cardinality(Passed(t, "ASYN")) = Cardinality(InNested(t)) + master[t]
        /\ master[t] = flight[t] + done[t] + Cardinality(Passed(t, "WAIT"))
        /\ flight[t] \in Nat /\ done[t] \in Nat /\ pc[t] \in Nat
    BY DEF Sound, Indexed, Counted, TypeOK
  <2>2. Cardinality(InNested(t)) \in Nat
    BY NestedCounts
  <2>3. Cardinality(Passed(t, "WAIT")) \in Nat
    <3>1. Passed(t, "WAIT") \in SUBSET (1 .. pc[t]) /\ IsFiniteSet(1 .. pc[t])
      BY <2>1, UpTo DEF Passed
    <3> QED BY <3>1, FS_Subset, FS_CardinalityType
  <2> QED BY <2>1, <2>2, <2>3
<1>3. OneReserverPerMachine
  <2> SUFFICES ASSUME NEW k \in Keys, machineThreads[k] # {}
               PROVE  /\ {Machine[p[1]] : p \in machineThreads[k]}
                            = {Machine[t] : t \in Members[k[1]]}
                      /\ \A p, q \in machineThreads[k] : Machine[p[1]] = Machine[q[1]] => p = q
    BY DEF OneReserverPerMachine
  <2>1. /\ OneReserver(k)
        /\ \A p \in machineThreads[k] : p[1] \in Members[k[1]]
    BY QueuesTyped DEF QueueSound, Queued, Belongs
  <2> QED BY <2>1 DEF OneReserver
<1> QED BY <1>1, <1>2, <1>3 DEF CountedOnce

\* No thread waits with an operation done, each non-blocking operation started is
\* counted once in n_nonblock_glob_in_flight, n_nonblock_glob_done or the waits
\* passed, and one thread of each machine reserves the resources of an operation.
THEOREM AlwaysCountedOnce == Spec => []CountedOnce
  BY AlwaysSound, SoundCounted, PTL

\* The same with the times that start_global_op schedules: that they fit together
\* does not depend on the state, and is what TLC evaluates.
THEOREM AlwaysAccounted ==
    ASSUME Cost!CostsRight
    PROVE  Spec => []OperationsAccounted
<1>1. CountedOnce => OperationsAccounted
  BY DEF OperationsAccounted
<1> QED BY <1>1, AlwaysCountedOnce, PTL

-----------------------------------------------------------------------------
(* Operations that start.                                                  *)

\* A collective that starts has one participant of every member of its
\* communicator, each with a call of its kind on it.
Whole == \A r \in ran : /\ {p[1] : p \in r.who} = Members[r.key[1]]
                        /\ \A p \in r.who : Action(p) = Call(r.key)

LEMMA SameWhole == Whole /\ UNCHANGED <<prog, ran>> => Whole'
  BY DEF Whole, Action, Call

\* All members are there when the last one finds its buses, each with the call of
\* the key.
LEMMA StartsWhole ==
    ASSUME Sound, NEW k \in Keys, NEW p \in machineThreads[k], GetAllBuses(k, p),
           Len(opThreads[k]) + 1 = Size(k[1])
    PROVE  /\ {r[1] : r \in ToSet(opThreads[k]) \cup {p}} = Members[k[1]]
           /\ \A r \in ToSet(opThreads[k]) \cup {p} : Action(r) = Call(k)
<1> DEFINE queue == Append(opThreads[k], p)
           who == ToSet(opThreads[k]) \cup {p}
<1>1. /\ opThreads[k] \in Seq(Participants) /\ p \in Participants
      /\ k[1] \in Comms /\ QueueSound(k)
  BY QueuesTyped
<1>2. who \subseteq Queued(k)
  BY DEF Queued
<1>3. \A r \in who : r[1] \in Members[k[1]] /\ Action(r) = Call(k)
  BY <1>1, <1>2 DEF QueueSound, Belongs
<1>4. p \notin ToSet(opThreads[k])
  BY DEF GetAllBuses, Contains, ToSet
<1>5. queue \in Seq(Participants) /\ Once(queue) /\ Len(queue) = Size(k[1])
      /\ ToSet(queue) = who
  BY <1>1, <1>4, AppendPositions, AppendElements, AppendOnce DEF QueueSound
<1>6. Different(who)
  BY <1>1, <1>2 DEF QueueSound, Different
<1>7. \A u \in Members[k[1]] : \E r \in who : r[1] = u
  <2> HIDE DEF queue, who
  <2> QED BY <1>1, <1>3, <1>5, <1>6, EveryoneCame
<1> QED BY <1>3, <1>7

LEMMA WholeNext == Sound /\ Whole /\ [Next]_vars => Whole'
<1> SUFFICES ASSUME Sound, Whole, [Next]_vars PROVE Whole'
  OBVIOUS
<1>1. ASSUME NEW t \in Threads, Step(t) PROVE UNCHANGED <<prog, ran>>
  BY <1>1 DEF Step, Cpu, SyncOp, AsynOp, WaitOp, Arrive, opVars
<1>2. ASSUME Register PROVE UNCHANGED <<prog, ran>>
  BY <1>2 DEF Register, Arrive
<1>3. ASSUME NEW k \in Keys, Timers(k) PROVE UNCHANGED <<prog, ran>>
  BY <1>3 DEF Timers, GroupResourcesOut, CloseSync, CloseAsyn, Close
<1>4. ASSUME NEW k \in Keys, NEW p \in machineThreads[k], GetAllBuses(k, p) PROVE Whole'
  <2>1. prog' = prog
    BY <1>4 DEF GetAllBuses
  <2>2. CASE Len(opThreads[k]) + 1 # Size(k[1])
    <3>1. ran' = ran
      BY <1>4, <2>2 DEF GetAllBuses
    <3> QED BY <2>1, <3>1, SameWhole
  <2>3. CASE Len(opThreads[k]) + 1 = Size(k[1])
    <3> DEFINE who == ToSet(opThreads[k]) \cup {p}
               new == [key |-> k, who |-> who, tasks |-> counted[k[1]]]
    <3>1. ran' = ran \cup {new}
      BY <1>4, <2>3 DEF GetAllBuses, StartGlobalOp
    <3>2. {r[1] : r \in who} = Members[k[1]] /\ \A r \in who : Action(r) = Call(k)
      BY <1>4, <2>3, StartsWhole
    <3>3. new.key = k /\ new.who = who
      OBVIOUS
    <3> HIDE DEF new, who
    <3>4. ASSUME NEW s \in ran'
          PROVE  /\ {r[1] : r \in s.who} = Members[s.key[1]]
                 /\ \A r \in s.who : Action(r) = Call(s.key)
      BY <3>1, <3>2, <3>3 DEF Whole
    <3>5. \A r : Action(r)' = Action(r)
      BY <2>1 DEF Action
    <3> QED BY <3>4, <3>5 DEF Whole, Call
  <2> QED BY <2>2, <2>3
<1>5. CASE UNCHANGED vars
  BY <1>5, SameWhole DEF vars, opVars
<1> QED BY <1>1, <1>2, <1>3, <1>4, <1>5, SameWhole DEF Next

\* Whatever the traces, start_global_op is called with one participant of every
\* member, all with a call of the same kind on the communicator.
THEOREM AlwaysWhole == Spec => []Whole
<1>1. Init => Whole
  BY DEF Init, Whole
<1> QED BY <1>1, WholeNext, AlwaysSound, PTL DEF Spec

-----------------------------------------------------------------------------
(* Which operations meet.  Blocking ones go on together; a non-blocking    *)
(* one is found by an index that, where no operation is started within the *)
(* handler of another, is its number among those of its thread.            *)

Passing(t, c) == {i \in 1 .. (pc[t] - 1) : prog[t][i] = [op |-> "SYNC", comm |-> c]}
InStep == \A c \in Comms : \A t, u \in Members[c] :
              Cardinality(Passing(t, c)) = Cardinality(Passing(u, c))

Numbered == \A k \in Keys : \A p \in Queued(k) :
                k[2] > 0 => Asyns(prog[p[1]], p[2]) = k[2]

NestedLast == \A i \in DOMAIN nested : /\ i = 1 /\ nested[i][2] = pc[nested[i][1]] - 1
                                       /\ deeper => prog[nested[i][1]][pc[nested[i][1]]].op = "SYNC"

Matched == Sound /\ InStep /\ Numbered /\ NestedLast /\ CallsMatch

LEMMA PassingCounts ==
    ASSUME Sound, NEW t \in Threads, NEW c, prog' = prog
    PROVE  /\ Cardinality(Passing(t, c)) \in Nat
           /\ pc'[t] = pc[t] => Passing(t, c)' = Passing(t, c)
           /\ pc'[t] = pc[t] + 1 =>
                 Cardinality(Passing(t, c)')
                   = Plus(Cardinality(Passing(t, c)), prog[t][pc[t]] = [op |-> "SYNC", comm |-> c])
<1> DEFINE call == [op |-> "SYNC", comm |-> c]
           here == {i \in 1 .. pc[t] : prog[t][i] = call}
<1>1. pc[t] \in Nat \ {0}
  BY DEF Sound, TypeOK
<1>2. IsFiniteSet(Passing(t, c)) /\ Cardinality(Passing(t, c)) \in Nat
  <2>1. Passing(t, c) \in SUBSET (1 .. pc[t]) /\ IsFiniteSet(1 .. pc[t])
    BY <1>1, UpTo DEF Passing
  <2> QED BY <2>1, FS_Subset, FS_CardinalityType
<1>3. Cardinality(here) = Plus(Cardinality(Passing(t, c)), prog[t][pc[t]] = call)
  <2>1. 1 .. pc[t] = 1 .. (pc[t] - 1) \cup {pc[t]} /\ pc[t] \notin Passing(t, c)
    BY <1>1 DEF Passing
  <2>2. CASE prog[t][pc[t]] = call
    <3>1. here = Passing(t, c) \cup {pc[t]}
      BY <2>1, <2>2 DEF Passing
    <3> QED BY <1>2, <2>1, <2>2, <3>1, FS_AddElement DEF Plus
  <2>3. CASE prog[t][pc[t]] # call
    <3>1. here = Passing(t, c)
      BY <2>1, <2>3 DEF Passing
    <3> QED BY <2>3, <3>1 DEF Plus
  <2> QED BY <2>2, <2>3
<1>4. pc'[t] = pc[t] => Passing(t, c)' = Passing(t, c)
  BY DEF Passing
<1>5. pc'[t] = pc[t] + 1 => Passing(t, c)' = here
  BY <1>1 DEF Passing
<1> QED BY <1>2, <1>3, <1>4, <1>5

\* A step in which no thread passes a blocking operation.
LEMMA StaysInStep ==
    ASSUME Sound, InStep, prog' = prog,
           \A t \in Threads : \/ pc'[t] = pc[t]
                              \/ pc'[t] = pc[t] + 1 /\ prog[t][pc[t]].op # "SYNC"
    PROVE  InStep'
<1>1. ASSUME NEW t \in Threads, NEW c \in Comms
      PROVE  Cardinality(Passing(t, c)') = Cardinality(Passing(t, c))
  <2>1. prog[t][pc[t]].op # "SYNC" => prog[t][pc[t]] # [op |-> "SYNC", comm |-> c]
    OBVIOUS
  <2> QED BY <2>1, PassingCounts DEF Plus
<1>2. \A c \in Comms : Members[c] \subseteq Threads
  BY MembersAssumption
<1> QED BY <1>1, <1>2 DEF InStep

\* Those who are there when an operation starts make the same call for the same
\* time.
LEMMA StartsMatched ==
    ASSUME Sound, InStep, Numbered, IndexesMatch, NEW k \in Keys,
           NEW p \in Queued(k), NEW q \in Queued(k)
    PROVE  Action(p) = Action(q) /\ Ordinal(p) = Ordinal(q)
<1>1. /\ p[1] \in Threads /\ q[1] \in Threads /\ Belongs(k, p) /\ Belongs(k, q)
      /\ k[1] \in Comms
  BY QueuedTyped, QueuesTyped
<1>2. Action(p) = Call(k) /\ Action(q) = Call(k)
  BY <1>1 DEF Belongs
<1>3. CASE k[2] = 0
  <2>1. /\ p[2] = pc[p[1]] /\ q[2] = pc[q[1]]
        /\ prog[p[1]][pc[p[1]]] = [op |-> "SYNC", comm |-> k[1]]
        /\ prog[q[1]][pc[q[1]]] = [op |-> "SYNC", comm |-> k[1]]
    BY <1>2, <1>3 DEF Sound, Placed, Action, Call
  <2>2. Cardinality(Passing(p[1], k[1])) = Cardinality(Passing(q[1], k[1]))
    BY <1>1 DEF InStep, Belongs
  <2>3. ASSUME NEW t \in Threads, prog[t][pc[t]] = [op |-> "SYNC", comm |-> k[1]]
        PROVE  Cardinality({i \in 1 .. pc[t] : prog[t][i] = [op |-> "SYNC", comm |-> k[1]]})
                 = Cardinality(Passing(t, k[1])) + 1
    <3>1. /\ DOMAIN prog[t] = 1 .. Len(prog[t])
          /\ pc[t] \in Nat
      BY TraceTyped DEF Sound, TypeOK
    <3>2. IsFiniteSet(Passing(t, k[1])) /\ pc[t] \notin Passing(t, k[1])
      <4>1. Passing(t, k[1]) \in SUBSET (1 .. pc[t]) /\ IsFiniteSet(1 .. pc[t])
        BY <3>1, UpTo DEF Passing
      <4> QED BY <3>1, <4>1, FS_Subset DEF Passing
    <3>3. {i \in 1 .. pc[t] : prog[t][i] = [op |-> "SYNC", comm |-> k[1]]}
             = Passing(t, k[1]) \cup {pc[t]}
      <4>1. pc[t] \in Nat \ {0}
        BY DEF Sound, TypeOK
      <4>2. 1 .. pc[t] = 1 .. (pc[t] - 1) \cup {pc[t]}
        BY <4>1
      <4> QED BY <2>3, <4>2 DEF Passing
    <3> QED BY <3>2, <3>3, FS_AddElement
  <2>4. Ordinal(p) = Cardinality(Passing(p[1], k[1])) + 1
    BY <1>1, <1>2, <1>3, <2>1, <2>3 DEF Ordinal, Call
  <2>5. Ordinal(q) = Cardinality(Passing(q[1], k[1])) + 1
    BY <1>1, <1>2, <1>3, <2>1, <2>3 DEF Ordinal, Call
  <2> QED BY <1>2, <2>2, <2>4, <2>5
<1>4. CASE k[2] > 0
  <2>1. Asyns(prog[p[1]], p[2]) = k[2] /\ Asyns(prog[q[1]], q[2]) = k[2]
    BY <1>4 DEF Numbered
  <2>2. /\ prog[p[1]][p[2]] = prog[q[1]][q[2]]
        /\ prog[p[1]][p[2]].op = "ASYN" /\ prog[p[1]][p[2]].comm = k[1]
        /\ p[2] \in DOMAIN prog[p[1]] /\ q[2] \in DOMAIN prog[q[1]]
        /\ p[1] \in Members[k[1]] /\ q[1] \in Members[k[1]]
    BY <1>1, <1>2, <1>4 DEF Belongs, Action, Call
  <2>3. prog \in Programs
    BY DEF Sound, TracesKept
  <2>4. Calls(prog[p[1]], p[2]) = Calls(prog[q[1]], q[2])
    BY <1>1, <2>1, <2>2, <2>3 DEF IndexesMatch
  <2> QED BY <1>2, <2>4 DEF Ordinal, Calls, Action
<1>5. k[2] = 0 \/ k[2] > 0
  BY QueuesTyped, IndexAssumption
<1> QED BY <1>3, <1>4, <1>5

\* Operations that started before stay as they are.
LEMMA SameRan ==
    ASSUME CallsMatch, UNCHANGED <<prog, ran>>
    PROVE  CallsMatch'
<1>1. \A p : Action(p)' = Action(p)
  BY DEF Action
<1>2. \A p : Ordinal(p)' = Ordinal(p)
  BY DEF Ordinal, Action
<1> QED BY <1>1, <1>2 DEF CallsMatch

\* Whoever arrives has the number of its key.
LEMMA StaysNumbered ==
    ASSUME Sound, Numbered, prog' = prog, NEW k \in Keys, NEW p,
           k[2] > 0 => Asyns(prog[p[1]], p[2]) = k[2],
           \A j \in Keys \ {k} : Queued(j)' = Queued(j),
           Queued(k)' = Queued(k) \cup {p}
    PROVE  Numbered'
<1> SUFFICES ASSUME NEW j \in Keys, NEW r \in Queued(j)', j[2] > 0
             PROVE  Asyns(prog[r[1]], r[2]) = j[2]
  BY DEF Numbered
<1>1. CASE r \in Queued(j)
  BY <1>1 DEF Numbered
<1>2. CASE r \notin Queued(j)
  <2>1. j = k /\ r = p
    BY <1>2
  <2> QED BY <2>1
<1> QED BY <1>1, <1>2

\* Where every operation takes time, only a blocking one follows within the
\* handler of another.
LEMMA NotNested ==
    ASSUME Matched, NEW t \in Threads, NEW op, op # "SYNC", Running(t, op)
    PROVE  nested = <<>>
<1> SUFFICES ASSUME nested # <<>> PROVE FALSE
  OBVIOUS
<1>1. deeper /\ Last(nested)[1] = t /\ prog[t][pc[t]].op = op
  BY DEF Running
<1>2. Last(nested) = nested[Len(nested)] /\ Len(nested) \in DOMAIN nested
  <2>1. nested \in Seq(Participants)
    BY DEF Matched, Sound, TypeOK, Participants
  <2>2. Len(nested) \in 1 .. Len(nested) /\ DOMAIN nested = 1 .. Len(nested)
    BY <2>1
  <2> QED BY <2>2 DEF Last
<1> QED BY <1>1, <1>2 DEF Matched, NestedLast

\* A step that queues nobody, starts nothing and passes no blocking operation.
LEMMA StaysMatched ==
    ASSUME Matched, Sound', NestedLast', UNCHANGED <<prog, ran>>,
           \A k \in Keys : Queued(k)' \subseteq Queued(k),
           \A t \in Threads : \/ pc'[t] = pc[t]
                              \/ pc'[t] = pc[t] + 1 /\ prog[t][pc[t]].op # "SYNC"
    PROVE  Matched'
<1>1. Sound /\ InStep /\ Numbered /\ CallsMatch
  BY DEF Matched
<1>2. InStep'
  BY <1>1, StaysInStep
<1>3. Numbered'
  BY <1>1 DEF Numbered
<1>4. CallsMatch'
  BY <1>1, SameRan
<1> QED BY <1>2, <1>3, <1>4 DEF Matched

LEMMA NoneNested == nested = <<>> => NestedLast
  BY DEF NestedLast

LEMMA SingleNested ==
    ASSUME Matched, nested # <<>>
    PROVE  nested \in Seq(Participants) /\ Len(nested) = 1 /\ Last(nested) = nested[1]
           /\ DOMAIN nested = {1} /\ nested[1][2] = pc[nested[1][1]] - 1
<1>1. nested \in Seq(Participants)
  BY DEF Matched, Sound, TypeOK, Participants
<1>2. Len(nested) \in Nat \ {0} /\ DOMAIN nested = 1 .. Len(nested)
  BY <1>1
<1>3. \A i \in DOMAIN nested : i = 1 /\ nested[i][2] = pc[nested[i][1]] - 1
  BY DEF Matched, NestedLast
<1>4. Len(nested) = 1
  BY <1>2, <1>3
<1> QED BY <1>1, <1>2, <1>3, <1>4 DEF Last

\* A burst, a wait, the end of a non-blocking operation.
LEMMA CpuMatched ==
    ASSUME Matched, NEW t \in Threads, Cpu(t)
    PROVE  Matched'
<1>1. /\ prog[t][pc[t]].op = "CPU" /\ Running(t, "CPU")
      /\ pc' = [pc EXCEPT ![t] = @ + 1]
      /\ UNCHANGED <<prog, nested, opThreads, machineThreads, ran>>
  BY DEF Cpu, Running, opVars
<1>2. Sound /\ Sound' /\ pc \in [Threads -> Nat \ {0}]
  BY CpuKeeps DEF Matched, Sound, TypeOK
<1>3. nested' = <<>>
  BY <1>1, NotNested
<1>4. NestedLast'
  BY <1>3 DEF NestedLast
<1>5. \A k \in Keys : Queued(k)' \subseteq Queued(k)
  BY <1>1 DEF Queued
<1>6. \A u \in Threads : \/ pc'[u] = pc[u]
                         \/ pc'[u] = pc[u] + 1 /\ prog[u][pc[u]].op # "SYNC"
  BY <1>1, <1>2
<1> QED BY <1>1, <1>2, <1>4, <1>5, <1>6, StaysMatched

LEMMA WaitMatched ==
    ASSUME Matched, NEW t \in Threads, WaitOp(t)
    PROVE  Matched'
<1>1. /\ prog[t][pc[t]].op = "WAIT" /\ Running(t, "WAIT")
      /\ pc' = pc \/ pc' = [pc EXCEPT ![t] = @ + 1]
      /\ UNCHANGED <<prog, nested, opThreads, machineThreads, ran>>
  BY DEF WaitOp, Running, opVars
<1>2. Sound /\ Sound' /\ pc \in [Threads -> Nat \ {0}]
  BY WaitKeeps DEF Matched, Sound, TypeOK
<1>3. nested' = <<>>
  BY <1>1, NotNested
<1>4. NestedLast'
  BY <1>3 DEF NestedLast
<1>5. \A k \in Keys : Queued(k)' \subseteq Queued(k)
  BY <1>1 DEF Queued
<1>6. \A u \in Threads : \/ pc'[u] = pc[u]
                         \/ pc'[u] = pc[u] + 1 /\ prog[u][pc[u]].op # "SYNC"
  BY <1>1, <1>2
<1> QED BY <1>1, <1>2, <1>4, <1>5, <1>6, StaysMatched

LEMMA CloseAsynMatched ==
    ASSUME Matched, NEW k \in Keys, CloseAsyn(k)
    PROVE  Matched'
<1> DEFINE Released(t) == t \in Owners(k) /\ waiting[t] > 0
<1>1. /\ Close(k) /\ nested' = <<>> /\ UNCHANGED <<prog, ran>>
      /\ pc' = [t \in Threads |-> IF Released(t) THEN pc[t] + 1 ELSE pc[t]]
  BY DEF CloseAsyn, Close
<1>2. Sound /\ Sound' /\ waiting \in [Threads -> {0, 1}]
  BY CloseAsynKeeps DEF Matched, Sound, TypeOK
<1>3. NestedLast'
  BY <1>1 DEF NestedLast
<1>4. \A j \in Keys : Queued(j)' \subseteq Queued(j)
  BY <1>1, <1>2, Closes
<1>5. \A u \in Threads : Released(u) => prog[u][pc[u]].op # "SYNC"
  BY <1>2 DEF Sound, WaitersBlocked
<1>6. \A u \in Threads : \/ pc'[u] = pc[u]
                         \/ pc'[u] = pc[u] + 1 /\ prog[u][pc[u]].op # "SYNC"
  BY <1>1, <1>5
<1> QED BY <1>1, <1>2, <1>3, <1>4, <1>6, StaysMatched

LEMMA GroupResourcesOutMatched ==
    ASSUME Matched, NEW k \in Keys, GroupResourcesOut(k)
    PROVE  Matched'
<1>1. /\ nested' = <<>> /\ UNCHANGED <<prog, pc, ran, opThreads>>
      /\ machineThreads' = [machineThreads EXCEPT ![k] = {}]
  BY DEF GroupResourcesOut, threadVars
<1>2. Sound /\ Sound' /\ machineThreads \in [Keys -> SUBSET Participants]
  BY GroupResourcesOutKeeps DEF Matched, Sound, TypeOK, Participants
<1>3. NestedLast'
  BY <1>1 DEF NestedLast
<1>4. \A j \in Keys : Queued(j)' \subseteq Queued(j)
  BY <1>1, <1>2 DEF Queued
<1> QED BY <1>1, <1>2, <1>3, <1>4, StaysMatched

\* A non-blocking operation: the copy made is the only one.
LEMMA AsynMatched ==
    ASSUME Matched, ~ ZeroStartup, NEW t \in Threads, AsynOp(t)
    PROVE  Matched'
<1>1. /\ prog[t][pc[t]].op = "ASYN" /\ Running(t, "ASYN")
      /\ pc' = [pc EXCEPT ![t] = @ + 1]
      /\ nested' = Append(nested, <<t, pc[t]>>)
      /\ deeper' = AtOnce(t, pc[t] + 1)
      /\ UNCHANGED <<prog, opThreads, machineThreads, ran>>
  BY DEF AsynOp, Running, opVars
<1>2. Sound /\ Sound' /\ pc \in [Threads -> Nat \ {0}]
  BY AsynKeeps DEF Matched, Sound, TypeOK
<1>3. nested' = <<<<t, pc[t]>>>>
  <2>1. nested = <<>>
    BY <1>1, NotNested
  <2>2. \A x : Append(<<>>, x) = <<x>>
    OBVIOUS
  <2> QED BY <1>1, <2>1, <2>2
<1>4. pc'[t] = pc[t] + 1 /\ pc'[t] - 1 = pc[t]
  BY <1>1, <1>2
<1>5. deeper' => prog'[t][pc'[t]].op = "SYNC"
  BY <1>1, <1>4 DEF AtOnce
<1>6. NestedLast'
  BY <1>3, <1>4, <1>5 DEF NestedLast
<1>7. \A k \in Keys : Queued(k)' \subseteq Queued(k)
  BY <1>1 DEF Queued
<1>8. \A u \in Threads : \/ pc'[u] = pc[u]
                         \/ pc'[u] = pc[u] + 1 /\ prog[u][pc[u]].op # "SYNC"
  BY <1>1, <1>2
<1> QED BY <1>1, <1>2, <1>6, <1>7, <1>8, StaysMatched

\* A blocking operation: its thread queues where every other stands.
LEMMA SyncMatched ==
    ASSUME Matched, NEW t \in Threads, SyncOp(t)
    PROVE  Matched'
<1> DEFINE c == prog[t][pc[t]].comm
<1>1. /\ status[t] = "ready" /\ More(t) /\ prog[t][pc[t]].op = "SYNC"
      /\ Arrive(<<c, 0>>, <<t, pc[t]>>)
      /\ deeper' = FALSE
      /\ UNCHANGED <<prog, pc, nested>>
  BY DEF SyncOp, Running
<1>2. Sound /\ Sound' /\ InStep /\ Numbered /\ NestedLast /\ CallsMatch
  BY SyncKeeps DEF Matched
<1>3. /\ pc[t] \in DOMAIN prog[t] /\ pc[t] \in Nat /\ c \in Comms /\ t \in Members[c]
      /\ prog[t][pc[t]] = [op |-> "SYNC", comm |-> c]
  BY <1>1, <1>2, TraceTyped DEF More
<1>4. PICK k \in Keys, p \in Participants :
         Arrive(k, p) /\ Belongs(k, p) /\ k[2] = 0 /\ p[1] = t
  <2>1. <<c, 0>> \in Keys /\ <<t, pc[t]>> \in Participants
    BY <1>3, IndexAssumption DEF Keys, Participants
  <2>2. Belongs(<<c, 0>>, <<t, pc[t]>>)
    BY <1>3 DEF Belongs, Action, Call
  <2> QED BY <1>1, <2>1, <2>2
<1>5. \A r \in Queued(k) : r[1] # p[1]
  BY <1>1, <1>2, <1>4 DEF Sound, Placed
<1>6. /\ \A j \in Keys \ {k} : Queued(j)' = Queued(j)
      /\ Queued(k)' = Queued(k) \cup {p}
  BY <1>1, <1>2, <1>4, <1>5, Arrives
<1>7. Numbered'
  BY <1>1, <1>2, <1>4, <1>6, StaysNumbered
<1>8. InStep'
  BY <1>1, <1>2, StaysInStep
<1>9. NestedLast'
  BY <1>1, <1>2 DEF NestedLast
<1>10. ran' = ran
  BY <1>1 DEF Arrive
<1>11. CallsMatch'
  BY <1>1, <1>2, <1>10, SameRan
<1> QED BY <1>2, <1>7, <1>8, <1>9, <1>11 DEF Matched

\* The copy takes as its index how many non-blocking operations its thread has
\* come to: nothing was started between its call and its registration.
LEMMA RegisterMatched ==
    ASSUME Matched, Register
    PROVE  Matched'
<1>0. nested # <<>> /\ ~deeper /\ nested' = Front(nested)
      /\ UNCHANGED <<prog, pc, status, done, waiting, deeper>>
  BY DEF Register
<1>1. Sound /\ Sound' /\ InStep /\ Numbered /\ CallsMatch
  BY <1>0, RegisterKeeps DEF Matched
<1>2. /\ nested \in Seq(Participants) /\ Len(nested) = 1 /\ Last(nested) = nested[1]
      /\ DOMAIN nested = {1} /\ nested[1][2] = pc[nested[1][1]] - 1
  BY <1>0, SingleNested
<1>3. PICK p \in Participants : p = Last(nested) /\ p = nested[1]
  <2>1. nested[1] \in Participants
    BY <1>2
  <2> QED BY <1>2, <2>1
<1>4. PICK t \in Threads : t = p[1]
  BY DEF Participants
<1>5. p[2] = pc[t] - 1 /\ NestedCall(p) /\ pc[t] \in Nat
  BY <1>1, <1>2, <1>3, <1>4 DEF Sound, NestedCalls, TypeOK
<1>6. /\ p[2] \in DOMAIN prog[t] /\ p[2] \in 1 .. pc[t] - 1
      /\ Action(p).comm \in Comms /\ t \in Members[Action(p).comm]
      /\ Action(p) = [op |-> "ASYN", comm |-> Action(p).comm]
  <2>1. p[2] \in 1 .. pc[t] - 1 /\ Action(p).op = "ASYN"
    BY <1>4, <1>5 DEF NestedCall
  <2>2. /\ DOMAIN prog[t] = 1 .. Len(prog[t]) /\ Len(prog[t]) \in 0 .. MaxIndex
        /\ pc[t] \in 1 .. Len(prog[t]) + 1
    BY <1>1, TraceTyped
  <2>3. p[2] \in 1 .. Len(prog[t])
    BY <2>1, <2>2, IndexAssumption
  <2> QED BY <1>1, <1>4, <2>1, <2>2, <2>3, TraceTyped DEF Action
<1>7. nested' = <<>>
  <2>1. Len(nested) - 1 = 0 /\ DOMAIN Front(nested) = 1 .. Len(nested) - 1
        /\ Front(nested) \in Seq(Participants)
    BY <1>0, <1>2, FrontPositions
  <2>2. \A s \in Seq(Participants) : DOMAIN s = {} => s = <<>>
    OBVIOUS
  <2>3. 1 .. 0 = {}
    OBVIOUS
  <2> QED BY <1>0, <2>1, <2>2, <2>3
<1>8. master[t] \in 0 .. MaxIndex /\ master[t] + 1 = Asyns(prog[t], p[2])
  <2>1. Cardinality(Passed(t, "ASYN")) = Cardinality(InNested(t)) + master[t]
        /\ master[t] \in 0 .. MaxIndex
    BY <1>1 DEF Sound, Indexed, TypeOK
  <2>2. Asyns(prog[t], p[2]) = Cardinality(Passed(t, "ASYN"))
    BY <1>5 DEF Asyns, Passed
  <2>3. Cardinality(InNested(t)) = 1
    <3>1. InNested(t) = {1}
      BY <1>2, <1>3, <1>4 DEF InNested
    <3> QED BY <3>1, FS_Singleton
  <2> QED BY <2>1, <2>2, <2>3, IndexAssumption
<1>9. master[t] + 1 \in 0 .. MaxIndex
  <2>1. Cardinality(Passed(t, "ASYN")) \in 0 .. pc[t] - 1
    BY <1>0, <1>1, PassedCounts
  <2>2. /\ Len(prog[t]) \in 0 .. MaxIndex /\ pc[t] \in 1 .. Len(prog[t]) + 1
    BY <1>1, TraceTyped
  <2>3. Asyns(prog[t], p[2]) = Cardinality(Passed(t, "ASYN"))
    BY <1>5 DEF Asyns, Passed
  <2>4. Asyns(prog[t], p[2]) <= MaxIndex
    BY <2>1, <2>2, <2>3, IndexAssumption
  <2> QED BY <1>8, <2>4, IndexAssumption
<1>10. PICK k \in Keys : k = <<Action(p).comm, master[t] + 1>>
  BY <1>6, <1>9 DEF Keys
<1>11. k[2] = Asyns(prog[t], p[2]) /\ k[2] > master[t] /\ k[2] > 0 /\ Belongs(k, p)
       /\ Arrive(k, p)
  <2>1. k[2] = master[t] + 1 /\ k[2] > master[t] /\ k[2] > 0
    BY <1>8, <1>10, IndexAssumption
  <2>2. Belongs(k, p)
    BY <1>4, <1>6, <1>10, <2>1 DEF Belongs, Call
  <2>3. Arrive(k, p)
    BY <1>3, <1>4, <1>10 DEF Register
  <2> QED BY <1>8, <2>1, <2>2, <2>3
<1>12. \A r \in Queued(k) : r[1] # p[1]
  <2>1. \A r \in Queued(k) : k[2] <= master[r[1]]
    BY <1>1, <1>11 DEF Sound, Placed
  <2> QED BY <1>4, <1>8, <1>10, <2>1, IndexAssumption
<1>13. /\ \A j \in Keys \ {k} : Queued(j)' = Queued(j)
       /\ Queued(k)' = Queued(k) \cup {p}
  BY <1>0, <1>1, <1>11, <1>12, Arrives
<1>14. Numbered'
  BY <1>0, <1>1, <1>4, <1>11, <1>13, StaysNumbered
<1>15. InStep'
  BY <1>0, <1>1, StaysInStep
<1>16. NestedLast'
  BY <1>7 DEF NestedLast
<1>17. ran' = ran
  BY <1>11 DEF Arrive
<1>18. CallsMatch'
  BY <1>0, <1>1, <1>17, SameRan
<1> QED BY <1>1, <1>14, <1>15, <1>16, <1>18 DEF Matched

\* The last one to find its buses starts the operation: all members are there.
LEMMA GetAllBusesMatched ==
    ASSUME Matched, IndexesMatch, NEW k \in Keys, NEW p \in machineThreads[k],
           GetAllBuses(k, p)
    PROVE  Matched'
<1>1. /\ timer[k] = "none"
      /\ opThreads' = [opThreads EXCEPT ![k] = Append(@, p)]
      /\ UNCHANGED <<prog, pc, nested, deeper, machineThreads>>
  BY DEF GetAllBuses, threadVars
<1>2. Sound /\ Sound' /\ InStep /\ Numbered /\ NestedLast /\ CallsMatch
  BY GetAllBusesKeeps DEF Matched
<1>3. /\ opThreads[k] \in Seq(Participants) /\ p \in Participants
      /\ k[1] \in Comms /\ QueueSound(k) /\ p \in Queued(k)
      /\ opThreads \in [Keys -> Seq(Participants)]
  BY <1>2, QueuesTyped DEF Queued, Sound, TypeOK, Participants
<1>4. ToSet(Append(opThreads[k], p)) = ToSet(opThreads[k]) \cup {p}
  BY <1>3, AppendElements
<1>5. \A j \in Keys : Queued(j)' \subseteq Queued(j)
  <2>1. opThreads'[k] = Append(opThreads[k], p)
        /\ \A j \in Keys \ {k} : opThreads'[j] = opThreads[j]
    BY <1>1, <1>3
  <2> QED BY <1>1, <1>4, <2>1 DEF Queued
<1>6. Numbered'
  BY <1>1, <1>2, <1>5 DEF Numbered
<1>7. InStep'
  BY <1>1, <1>2, StaysInStep
<1>8. NestedLast'
  BY <1>1, <1>2 DEF NestedLast
<1>9. CASE Len(opThreads[k]) + 1 # Size(k[1])
  <2>1. ran' = ran
    BY <1>9 DEF GetAllBuses
  <2>2. CallsMatch'
    BY <1>1, <1>2, <2>1, SameRan
  <2> QED BY <1>2, <1>6, <1>7, <1>8, <2>2 DEF Matched
<1>10. CASE Len(opThreads[k]) + 1 = Size(k[1])
  <2> DEFINE who == ToSet(opThreads[k]) \cup {p}
             new == [key |-> k, who |-> who, tasks |-> counted[k[1]]]
  <2>1. ran' = ran \cup {new}
    BY <1>10 DEF GetAllBuses, StartGlobalOp
  <2>2. who \subseteq Queued(k)
    BY DEF Queued
  <2>3. {r[1] : r \in who} = Members[k[1]]
    BY <1>2, <1>10, StartsWhole
  <2>4. \A r, q \in who : Action(r) = Action(q) /\ Ordinal(r) = Ordinal(q)
    <3> SUFFICES ASSUME NEW r \in who, NEW q \in who
                 PROVE  Action(r) = Action(q) /\ Ordinal(r) = Ordinal(q)
      OBVIOUS
    <3>1. r \in Queued(k) /\ q \in Queued(k)
      BY <2>2
    <3> QED BY <1>2, <3>1, StartsMatched
  <2>5. \A r : Action(r)' = Action(r) /\ Ordinal(r)' = Ordinal(r)
    BY <1>1 DEF Action, Ordinal
  <2>6. new.key = k /\ new.who = who
    OBVIOUS
  <2> HIDE DEF new, who
  <2>7. ASSUME NEW s \in ran'
        PROVE  /\ {r[1] : r \in s.who} = Members[s.key[1]]
               /\ \A r, q \in s.who : Action(r) = Action(q) /\ Ordinal(r) = Ordinal(q)
    <3>1. CASE s \in ran
      BY <1>2, <3>1 DEF CallsMatch
    <3>2. CASE s = new
      BY <2>3, <2>4, <2>6, <3>2
    <3> QED BY <2>1, <3>1, <3>2
  <2>8. CallsMatch'
    BY <2>5, <2>7 DEF CallsMatch
  <2> QED BY <1>2, <1>6, <1>7, <1>8, <2>8 DEF Matched
<1> QED BY <1>9, <1>10

\* A blocking operation ends for all its members.
LEMMA CloseSyncMatched ==
    ASSUME Matched, NEW k \in Keys, CloseSync(k)
    PROVE  Matched'
<1>1. /\ k[2] = 0 /\ Close(k) /\ timer[k] = "group" /\ nested' = <<>>
      /\ pc' = [t \in Threads |-> IF t \in Owners(k) THEN pc[t] + 1 ELSE pc[t]]
      /\ UNCHANGED <<prog, ran>>
  BY DEF CloseSync, Close
<1>2. Sound /\ Sound' /\ InStep /\ Numbered /\ CallsMatch
  BY CloseSyncKeeps DEF Matched
<1>3. /\ \A j \in Keys : Queued(j)' \subseteq Queued(j)
      /\ \A t \in Owners(k) : \E p \in Queued(k) : p[1] = t
      /\ \A p \in Queued(k) : p[1] \in Owners(k)
  BY <1>1, <1>2, Closes
<1>4. QueueSound(k) /\ k[1] \in Comms
  BY <1>2, QueuesTyped
<1>5. Owners(k) = Members[k[1]]
  <2>1. timer[k] # "none"
    BY <1>1
  <2>2. Everyone(k) /\ \A p \in Queued(k) : p[1] \in Members[k[1]]
    BY <1>4, <2>1 DEF QueueSound, Belongs
  <2>3. \A t \in Members[k[1]] : t \in Owners(k)
    BY <1>3, <2>2 DEF Everyone
  <2>4. \A t \in Owners(k) : t \in Members[k[1]]
    BY <1>3, <2>2
  <2> QED BY <2>3, <2>4
<1>6. ASSUME NEW t \in Threads, NEW c \in Comms
      PROVE  Cardinality(Passing(t, c)')
               = Plus(Cardinality(Passing(t, c)), t \in Owners(k) /\ c = k[1])
  <2>1. CASE t \notin Owners(k)
    <3>1. pc'[t] = pc[t]
      BY <1>1, <2>1
    <3> QED BY <1>1, <1>2, <2>1, <3>1, PassingCounts DEF Plus
  <2>2. CASE t \in Owners(k)
    <3>1. PICK p \in Queued(k) : p[1] = t
      BY <1>3, <2>2
    <3>2. prog[t][pc[t]] = [op |-> "SYNC", comm |-> k[1]]
      BY <1>1, <1>2, <1>4, <3>1 DEF Sound, Placed, QueueSound, Belongs, Action, Call
    <3>3. prog[t][pc[t]] = [op |-> "SYNC", comm |-> c] <=> c = k[1]
      <4>1. [op |-> "SYNC", comm |-> c] = [op |-> "SYNC", comm |-> k[1]] => c = k[1]
        <5>1. [op |-> "SYNC", comm |-> c].comm = c
              /\ [op |-> "SYNC", comm |-> k[1]].comm = k[1]
          OBVIOUS
        <5> QED BY <5>1
      <4> QED BY <3>2, <4>1
    <3>4. pc'[t] = pc[t] + 1
      BY <1>1, <2>2
    <3>5. Cardinality(Passing(t, c)')
            = Plus(Cardinality(Passing(t, c)), prog[t][pc[t]] = [op |-> "SYNC", comm |-> c])
      BY <1>1, <1>2, <3>4, PassingCounts
    <3> QED BY <2>2, <3>3, <3>5 DEF Plus
  <2> QED BY <2>1, <2>2
<1>7. InStep'
  <2> SUFFICES ASSUME NEW c \in Comms, NEW t \in Members[c], NEW u \in Members[c]
               PROVE  Cardinality(Passing(t, c)') = Cardinality(Passing(u, c)')
    BY DEF InStep
  <2>1. t \in Threads /\ u \in Threads
    BY MembersAssumption
  <2>2. Cardinality(Passing(t, c)) = Cardinality(Passing(u, c))
    BY <1>2 DEF InStep
  <2> QED BY <1>5, <1>6, <2>1, <2>2 DEF Plus
<1>8. Numbered'
  BY <1>1, <1>2, <1>3 DEF Numbered
<1>9. NestedLast'
  BY <1>1 DEF NestedLast
<1>10. CallsMatch'
  BY <1>1, <1>2, SameRan
<1> QED BY <1>2, <1>7, <1>8, <1>9, <1>10 DEF Matched

LEMMA MatchedInit == Init => Matched
<1> SUFFICES ASSUME Init PROVE Matched
  OBVIOUS
<1>1. Sound
  BY SoundInit
<1>2. /\ nested = <<>> /\ ran = {} /\ pc = [t \in Threads |-> 1]
      /\ opThreads = [k \in Keys |-> <<>>] /\ machineThreads = [k \in Keys |-> {}]
  BY DEF Init
<1>3. \A k \in Keys : Queued(k) = {}
  BY <1>2 DEF Queued, ToSet
<1>4. Numbered /\ NestedLast /\ CallsMatch
  BY <1>2, <1>3 DEF Numbered, NestedLast, CallsMatch
<1>5. InStep
  <2>1. \A c \in Comms : Members[c] \subseteq Threads
    BY MembersAssumption
  <2>2. \A t \in Threads, c \in Comms : Passing(t, c) = {}
    BY <1>2 DEF Passing
  <2> QED BY <2>1, <2>2 DEF InStep
<1> QED BY <1>1, <1>4, <1>5 DEF Matched

LEMMA MatchedNext ==
    ASSUME ~ ZeroStartup, IndexesMatch
    PROVE  Matched /\ [Next]_vars => Matched'
<1> SUFFICES ASSUME Matched, [Next]_vars PROVE Matched'
  OBVIOUS
<1>1. ASSUME NEW t \in Threads, Step(t) PROVE Matched'
  BY <1>1, CpuMatched, SyncMatched, AsynMatched, WaitMatched DEF Step
<1>2. CASE Register
  BY <1>2, RegisterMatched
<1>3. ASSUME NEW k \in Keys, Timers(k) PROVE Matched'
  BY <1>3, GroupResourcesOutMatched, CloseSyncMatched, CloseAsynMatched DEF Timers
<1>4. ASSUME NEW k \in Keys, NEW p \in machineThreads[k], GetAllBuses(k, p) PROVE Matched'
  BY <1>4, GetAllBusesMatched
<1>5. CASE UNCHANGED vars
  <2>1. Sound'
    BY <1>5, SoundNext DEF Matched
  <2>2. NestedLast'
    BY <1>5 DEF Matched, NestedLast, vars, threadVars
  <2>3. \A k \in Keys : Queued(k)' \subseteq Queued(k)
    BY <1>5 DEF Queued, vars, opVars
  <2>4. UNCHANGED <<prog, ran, pc>>
    BY <1>5 DEF vars, opVars, threadVars
  <2> QED BY <2>1, <2>2, <2>3, <2>4, StaysMatched
<1> QED BY <1>1, <1>2, <1>3, <1>4, <1>5 DEF Next

\* A collective that starts has one participant of every member, all with the same
\* call made for the same time, where non-blocking operations take time to start
\* and the traces give their calls the same indexes: then GLOBAL_operation never
\* finds the queue of another operation.
THEOREM AlwaysMatched ==
    ASSUME ~ ZeroStartup, IndexesMatch
    PROVE  Spec => []CallsMatch
<1>1. Init => Matched
  BY MatchedInit
<1>2. Matched /\ [Next]_vars => Matched'
  BY MatchedNext
<1>3. Matched => CallsMatch
  BY DEF Matched
<1> QED BY <1>1, <1>2, <1>3, PTL DEF Spec
=============================================================================
