---------------------------- MODULE DeadlockProofs ----------------------------
(***************************************************************************)
(* Proofs about Deadlock: the graph of dependencies never has a cycle when *)
(* it is searched, links are those of transfers, and, with bursts between  *)
(* calls, no restart repeats an earlier one; for any number of tasks, any  *)
(* traces, percentages and counters.                                       *)
(***************************************************************************)
EXTENDS Deadlock, QueueLemmas

-----------------------------------------------------------------------------
(* The invariant                                                           *)

\* Position k of the trace of t is a communication.
IsCall(t, k) == k \in 1 .. Len_(t) /\ run.ops[t][k].action # WORK

\* The arcs of a task: to others, of calls of its own, in the order of graph.c.
Arcs == [to : Tasks, type : {"STRG", "SOFT", "GLOP"}, action : Nat, tag : Nat, offset : Nat]
Row(t, q) ==
    /\ q \in Seq(Arcs)
    /\ \A i \in DOMAIN q : q[i].to # t /\ IsCall(t, q[i].offset)
    /\ \A i, j \in DOMAIN q : i <= j => q[i].to <= q[j].to
Rows(g) == g \in [Tasks -> Seq(Arcs)] /\ \A t \in Tasks : Row(t, g[t])
Offsets(q) == {q[i].offset : i \in DOMAIN q}

RunInv ==
    /\ run \in Runs
    /\ run.estats # NoEstats => pendent \in [Tasks -> Counters]
    /\ analysing \in BOOLEAN /\ rebooted \in BOOLEAN /\ ended \in BOOLEAN

\* A task is in its trace until it is done, and only calls are ignored.
TaskInv ==
    /\ action \in [Tasks -> Nat]
    /\ status \in [Tasks -> {"ready", "blocked", "done"}]
    /\ ignored \in [Tasks -> SUBSET Nat]
    /\ \A t \in Tasks : /\ action[t] \in 1 .. Len_(t) + 1
                        /\ status[t] = "done" <=> action[t] = Len_(t) + 1
                        /\ \A k \in ignored[t] : IsCall(t, k)

\* One transfer at a time out of a node and into it.
Moves(k) == chan[k].delivered < chan[k].started
LinksInv ==
    /\ chan \in [Keys -> [Stages -> Nat]] /\ glops \in [Tasks -> Nat]
    /\ LinksOfTransfers
    /\ \A k \in Keys : /\ chan[k].delivered <= chan[k].started
                       /\ chan[k].started <= chan[k].delivered + 1
    /\ \A j, k \in Keys : Moves(j) /\ Moves(k) /\ (j[1] = k[1] \/ j[2] = k[2]) => j = k

IInv == RunInv /\ TaskInv /\ Rows(graph) /\ LinksInv /\ GraphAcyclic

\* Between two communications of a task there is a burst.
BurstsBetween ==
    \A r \in Runs : \A t \in Tasks : \A i \in 1 .. Len(r.ops[t]) - 1 :
        r.ops[t][i].action # WORK => r.ops[t][i + 1].action = WORK

\* A task never does an operation it is to ignore, so the graph has none.
FreshInv ==
    ~rebooted => \A t \in Tasks : /\ analysing => action[t] \notin ignored[t]
                                  /\ Offsets(graph[t]) \cap ignored[t] = {}

-----------------------------------------------------------------------------
(* Traces                                                                  *)

LEMMA TraceTyped ==
    ASSUME run \in Runs, NEW t \in Tasks
    PROVE  /\ run.ops[t] \in Seq(Records) /\ Len_(t) \in Nat /\ Len_(t) >= 1
           /\ DOMAIN run.ops[t] = 1 .. Len_(t)
           /\ run.ops[t][Len_(t)].action = WORK
           /\ \A k \in 1 .. Len_(t) :
                 /\ run.ops[t][k] \in Records
                 /\ run.ops[t][k].action \notin {WORK, GLOBAL_OP}
                       => run.ops[t][k].peer \in Tasks \ {t}
<1>1. run.ops[t] \in Seq(Records) /\ run.ops[t] # <<>> /\ Last(run.ops[t]).action = WORK
      /\ \A i \in DOMAIN run.ops[t] : run.ops[t][i].action \notin {WORK, GLOBAL_OP}
                                          => run.ops[t][i].peer \in Tasks \ {t}
  BY RunsAssumption
<1>2. Len_(t) = Len(run.ops[t])
  BY DEF Len_
<1>3. Len(run.ops[t]) \in Nat /\ DOMAIN run.ops[t] = 1 .. Len(run.ops[t])
      /\ Len(run.ops[t]) >= 1
  BY <1>1
<1>4. \A k \in 1 .. Len(run.ops[t]) : run.ops[t][k] \in Records
  BY <1>1
<1> QED BY <1>1, <1>2, <1>3, <1>4 DEF Last

LEMMA CallTyped ==
    ASSUME run \in Runs, NEW t \in Tasks, NEW k, IsCall(t, k)
    PROVE  k \in 1 .. Len_(t) - 1 /\ k \in Nat /\ Len_(t) \in Nat
<1>1. k \in 1 .. Len_(t) /\ run.ops[t][k].action # WORK
  BY DEF IsCall
<1> QED BY <1>1, TraceTyped

\* The operation that a task does.
LEMMA OpTyped ==
    ASSUME RunInv, TaskInv, NEW t \in Tasks, status[t] # "done"
    PROVE  /\ action[t] \in 1 .. Len_(t) /\ action[t] \in Nat
           /\ Op(t) \in Records /\ Op(t) = run.ops[t][action[t]]
           /\ Op(t).action \in Kinds /\ Op(t).tag \in Nat
           /\ Op(t).action \notin {WORK, GLOBAL_OP} => Op(t).peer \in Tasks \ {t}
           /\ Op(t).action # WORK => IsCall(t, action[t])
<1>1. action[t] \in 1 .. Len_(t) /\ Len_(t) \in Nat
  BY TraceTyped DEF RunInv, TaskInv
<1>2. Op(t) = run.ops[t][action[t]]
  BY DEF Op
<1>3. Op(t) \in Records /\ (Op(t).action \notin {WORK, GLOBAL_OP} => Op(t).peer \in Tasks \ {t})
  BY <1>1, <1>2, TraceTyped DEF RunInv
<1>4. Op(t).action \in Kinds /\ Op(t).tag \in Nat
  BY <1>3 DEF Records
<1> QED BY <1>1, <1>2, <1>3, <1>4 DEF IsCall

-----------------------------------------------------------------------------
(* The arcs of one task                                                    *)

LEMMA MinIs ==
    ASSUME NEW S \in SUBSET Nat, S # {}
    PROVE  Min(S) \in S /\ \A m \in S : Min(S) <= m
  BY LeastElement DEF Min

LEMMA TwoOf ==
    ASSUME NEW a \in Nat, NEW b \in Nat, a # b
    PROVE  Min({a, b}) \in {a, b} /\ Max({a, b}) \in {a, b} /\ Min({a, b}) < Max({a, b})
<1>1. Min({a, b}) = IF a < b THEN a ELSE b
  BY DEF Min
<1>2. Max({a, b}) = IF a < b THEN b ELSE a
  BY DEF Max
<1> QED BY <1>1, <1>2

\* What GRAPH_get_dependency finds.
LEMMA DependencyIs ==
    ASSUME NEW g, Rows(g), NEW t \in Tasks, NEW u, NEW type, NEW mask, NEW tag
    PROVE  LET d == GetDependency(g, t, u, type, mask, tag)
           IN  d \in 0 .. Len(g[t]) /\ d \in Nat
               /\ (d # 0 => d \in DOMAIN g[t] /\ g[t][d].type = type /\ g[t][d].to = u)
<1> DEFINE I == {i \in 1 .. Len(g[t]) : /\ g[t][i].to = u
                                        /\ g[t][i].type = type
                                        /\ MasksMeet(g[t][i].action, mask)
                                        /\ g[t][i].tag = tag}
<1>1. GetDependency(g, t, u, type, mask, tag) = IF I # {} THEN Min(I) ELSE 0
  BY DEF GetDependency, SelectInSeq
<1>2. I \in SUBSET Nat /\ Len(g[t]) \in Nat /\ DOMAIN g[t] = 1 .. Len(g[t])
  BY DEF Rows
<1>3. I # {} => Min(I) \in I
  <2> HIDE DEF I
  <2> QED BY <1>2, MinIs
<1>4. I # {} => /\ Min(I) \in 1 .. Len(g[t]) /\ g[t][Min(I)].to = u
                /\ g[t][Min(I)].type = type
  BY <1>3
<1> HIDE DEF I
<1> QED BY <1>1, <1>2, <1>4

\* The arcs that a row has, by destination and whether they block.
Towards(q) == {q[i].to : i \in {j \in DOMAIN q : Blocks(q[j])}}

LEMMA ArcIs ==
    ASSUME NEW g, NEW t, NEW u
    PROVE  Arc(g, t, u) <=> u \in Towards(g[t])
  BY DEF Arc, Towards

LEMMA RowAdded ==
    ASSUME NEW t \in Tasks, NEW q, Row(t, q), NEW d \in Arcs, d.to # t, IsCall(t, d.offset),
           NEW k \in 1 .. Len(q) + 1,
           \A i \in DOMAIN q : i < k => q[i].to < d.to,
           \A i \in DOMAIN q : i >= k => d.to <= q[i].to
    PROVE  LET p == InsertAt(q, k, d)
           IN  /\ Row(t, p) /\ Offsets(p) \subseteq Offsets(q) \cup {d.offset}
               /\ Towards(p) \subseteq Towards(q) \cup (IF Blocks(d) THEN {d.to} ELSE {})
<1> DEFINE p == InsertAt(q, k, d)
<1>1. /\ q \in Seq(Arcs) /\ Len(q) \in Nat /\ DOMAIN q = 1 .. Len(q)
      /\ \A i \in DOMAIN q : q[i] \in Arcs /\ q[i].to \in Nat /\ q[i].to # t
                             /\ IsCall(t, q[i].offset)
      /\ \A i, j \in DOMAIN q : i <= j => q[i].to <= q[j].to
  <2>1. q \in Seq(Arcs)
    BY DEF Row
  <2>2. \A i \in DOMAIN q : q[i] \in Arcs
    BY <2>1
  <2>3. \A i \in DOMAIN q : q[i].to \in Nat
    BY <2>2, TasksAssumption DEF Arcs, Tasks
  <2> QED BY <2>1, <2>2, <2>3 DEF Row
<1>4. d.to \in Nat
  BY TasksAssumption DEF Arcs, Tasks
<1>5. /\ k \in 1 .. Len(q) + 1
      /\ \A i \in DOMAIN q : i < k => q[i].to < d.to
      /\ \A i \in DOMAIN q : i >= k => d.to <= q[i].to
  OBVIOUS
<1>7. /\ p \in Seq(Arcs) /\ DOMAIN p = 1 .. Len(q) + 1 /\ p[k] = d
      /\ \A i \in 1 .. k - 1 : p[i] = q[i]
      /\ \A i \in k + 1 .. Len(q) + 1 : p[i] = q[i - 1]
  <2>1. q \in Seq(Arcs) /\ k \in 1 .. Len(q) + 1 /\ d \in Arcs
    BY <1>1
  <2>2. Inserted(p, q, k, d)
    BY <2>1, InsertIs
  <2>3. p \in Seq(Arcs)
    BY <2>1, InsertElements
  <2> HIDE DEF p
  <2> QED BY <2>2, <2>3 DEF Inserted
<1> HIDE DEF p
<1>8. /\ k \in Nat /\ k \in DOMAIN p
      /\ \A i \in DOMAIN p : \/ i < k /\ i \in DOMAIN q /\ p[i] = q[i]
                             \/ i = k
                             \/ i > k /\ i - 1 \in DOMAIN q /\ i - 1 >= k /\ p[i] = q[i - 1]
  <2>1. k \in Nat /\ k >= 1 /\ k <= Len(q) + 1 /\ k \in DOMAIN p
    BY <1>1, <1>5, <1>7
  <2> SUFFICES ASSUME NEW i \in DOMAIN p
               PROVE  \/ i < k /\ i \in DOMAIN q /\ p[i] = q[i]
                      \/ i = k
                      \/ i > k /\ i - 1 \in DOMAIN q /\ i - 1 >= k /\ p[i] = q[i - 1]
    BY <2>1
  <2>2. i \in Nat /\ i >= 1 /\ i <= Len(q) + 1
    BY <1>1, <1>7
  <2>3. CASE i < k
    <3>1. i \in 1 .. k - 1 /\ i \in 1 .. Len(q)
      BY <1>1, <2>1, <2>2, <2>3
    <3> QED BY <1>1, <1>7, <2>3, <3>1
  <2>4. CASE i > k
    <3>1. i \in k + 1 .. Len(q) + 1 /\ i - 1 \in 1 .. Len(q) /\ i - 1 >= k
      BY <1>1, <2>1, <2>2, <2>4
    <3> QED BY <1>1, <1>7, <2>4, <3>1
  <2> QED BY <2>1, <2>2, <2>3, <2>4
<1>9. \A i \in DOMAIN p : p[i] = d \/ \E j \in DOMAIN q : p[i] = q[j]
  BY <1>7, <1>8
<1>10. \A i \in DOMAIN p : p[i].to # t /\ IsCall(t, p[i].offset)
  BY <1>1, <1>9
<1>11. \A i, j \in DOMAIN p : i <= j => p[i].to <= p[j].to
  <2> SUFFICES ASSUME NEW i \in DOMAIN p, NEW j \in DOMAIN p, i <= j PROVE p[i].to <= p[j].to
    OBVIOUS
  <2>1. i \in Nat /\ j \in Nat /\ k \in Nat
    BY <1>1, <1>7, <1>8
  <2>2. CASE i = j
    <3>1. p[i].to \in Nat
      BY <1>1, <1>4, <1>9
    <3> QED BY <2>2, <3>1
  <2>3. CASE i < j /\ j < k
    <3>1. i < k /\ p[i] = q[i] /\ p[j] = q[j] /\ i \in DOMAIN q /\ j \in DOMAIN q
      BY <1>8, <2>1, <2>3
    <3> QED BY <1>1, <3>1
  <2>4. CASE i < j /\ j = k
    <3>1. i < k /\ p[i] = q[i] /\ p[j] = d /\ i \in DOMAIN q
      BY <1>7, <1>8, <2>1, <2>4
    <3>2. q[i].to < d.to
      BY <1>5, <3>1
    <3> QED BY <1>1, <1>4, <3>1, <3>2
  <2>5. CASE i < j /\ j > k
    <3>1. j - 1 \in DOMAIN q /\ j - 1 >= k /\ p[j] = q[j - 1]
      BY <1>8, <2>1, <2>5
    <3>2. CASE i < k
      <4>1. i \in DOMAIN q /\ p[i] = q[i] /\ i <= j - 1
        BY <1>8, <2>1, <2>5, <3>2
      <4> QED BY <1>1, <3>1, <4>1
    <3>3. CASE i = k
      BY <1>5, <1>7, <3>1, <3>3
    <3>4. CASE i > k
      <4>1. i - 1 \in DOMAIN q /\ p[i] = q[i - 1] /\ i - 1 <= j - 1
        BY <1>8, <2>1, <2>5, <3>4
      <4> QED BY <1>1, <3>1, <4>1
    <3> QED BY <1>8, <2>1, <3>2, <3>3, <3>4
  <2> QED BY <1>8, <2>1, <2>2, <2>3, <2>4, <2>5
<1>12. Row(t, p)
  BY <1>7, <1>10, <1>11 DEF Row
<1>13. Offsets(p) \subseteq Offsets(q) \cup {d.offset}
  <2> SUFFICES ASSUME NEW i \in DOMAIN p PROVE p[i].offset \in Offsets(q) \cup {d.offset}
    BY DEF Offsets
  <2> QED BY <1>9 DEF Offsets
<1>14. Towards(p) \subseteq Towards(q) \cup (IF Blocks(d) THEN {d.to} ELSE {})
  <2> SUFFICES ASSUME NEW i \in DOMAIN p, Blocks(p[i])
               PROVE  p[i].to \in Towards(q) \cup (IF Blocks(d) THEN {d.to} ELSE {})
    BY DEF Towards
  <2>1. CASE p[i] = d
    BY <2>1
  <2>2. ASSUME NEW j \in DOMAIN q, p[i] = q[j] PROVE p[i].to \in Towards(q)
    BY <2>2 DEF Towards
  <2> QED BY <1>9, <2>1, <2>2
<1> QED BY <1>12, <1>13, <1>14 DEF p

LEMMA RowRemoved ==
    ASSUME NEW t \in Tasks, NEW q, Row(t, q), NEW k \in DOMAIN q
    PROVE  LET p == RemoveAt(q, k)
           IN  /\ Row(t, p) /\ Offsets(p) \subseteq Offsets(q) /\ Towards(p) \subseteq Towards(q)
               /\ Len(p) = Len(q) - 1 /\ Len(p) \in Nat /\ DOMAIN p = 1 .. Len(p)
<1> DEFINE p == RemoveAt(q, k)
<1>1. q \in Seq(Arcs) /\ \A i, j \in DOMAIN q : i <= j => q[i].to <= q[j].to
  BY DEF Row
<1>2. /\ p \in Seq(Arcs) /\ Len(p) = Len(q) - 1 /\ DOMAIN p = 1 .. Len(q) - 1
      /\ DOMAIN q = 1 .. Len(q) /\ Len(q) \in Nat
      /\ \A i \in 1 .. k - 1 : p[i] = q[i]
      /\ \A i \in k .. Len(q) - 1 : p[i] = q[i + 1]
  BY <1>1, RemoveElements
<1> HIDE DEF p
<1> DEFINE from(i) == IF i < k THEN i ELSE i + 1
<1>3. k \in Nat /\ k >= 1 /\ \A i \in DOMAIN p : from(i) \in DOMAIN q /\ p[i] = q[from(i)]
  BY <1>2
<1>4. \A i, j \in DOMAIN p : i <= j => from(i) <= from(j)
  BY <1>2, <1>3
<1> HIDE DEF from
<1>5. \A i \in DOMAIN p : p[i].to # t /\ IsCall(t, p[i].offset)
  BY <1>3 DEF Row
<1>6. \A i, j \in DOMAIN p : i <= j => p[i].to <= p[j].to
  BY <1>1, <1>3, <1>4
<1>7. Row(t, p)
  BY <1>2, <1>5, <1>6 DEF Row
<1>8. Offsets(p) \subseteq Offsets(q) /\ Towards(p) \subseteq Towards(q)
  BY <1>3 DEF Offsets, Towards
<1>9. Len(p) \in Nat /\ DOMAIN p = 1 .. Len(p)
  BY <1>2
<1> QED BY <1>2, <1>7, <1>8, <1>9 DEF p

ArcOf(u, type, act, tag, offset) ==
    [to |-> u, type |-> type, action |-> act, tag |-> tag, offset |-> offset]

\* GRAPH_add_dependency finds the place that keeps the order.
LEMMA PlaceIs ==
    ASSUME NEW g, Rows(g), NEW t \in Tasks, NEW u \in Tasks, NEW type, NEW act, NEW tag,
           NEW offset
    PROVE  \E k \in 1 .. Len(g[t]) + 1 :
              /\ \A i \in DOMAIN g[t] : i < k => g[t][i].to < u
              /\ \A i \in DOMAIN g[t] : i >= k => u <= g[t][i].to
              /\ AddDependency(g, t, u, type, act, tag, offset)
                   = [g EXCEPT ![t] = InsertAt(@, k, ArcOf(u, type, act, tag, offset))]
<1> DEFINE q == g[t]
           I == {i \in 1 .. Len(q) : q[i].to >= u}
           k == IF I # {} THEN Min(I) ELSE Len(q) + 1
           d == ArcOf(u, type, act, tag, offset)
<1>1. /\ q \in Seq(Arcs) /\ Len(q) \in Nat /\ DOMAIN q = 1 .. Len(q)
      /\ \A i \in DOMAIN q : q[i].to \in Nat
      /\ \A i, j \in DOMAIN q : i <= j => q[i].to <= q[j].to
  <2>1. q \in Seq(Arcs) /\ \A i, j \in DOMAIN q : i <= j => q[i].to <= q[j].to
    BY DEF Rows, Row
  <2>2. \A i \in DOMAIN q : q[i] \in Arcs
    BY <2>1
  <2>3. \A i \in DOMAIN q : q[i].to \in Nat
    BY <2>2, TasksAssumption DEF Arcs, Tasks
  <2> HIDE DEF q
  <2> QED BY <2>1, <2>2, <2>3
<1>2. AddDependency(g, t, u, type, act, tag, offset) = [g EXCEPT ![t] = InsertAt(@, k, d)]
  <2> USE DEF ArcOf
  <2>1. SelectInSeq(g[t], LAMBDA e : e.to >= u) = IF I # {} THEN Min(I) ELSE 0
    BY DEF SelectInSeq
  <2>2. I # {} => Min(I) # 0
    <3>1. I \in SUBSET Nat /\ 0 \notin I
      BY <1>1
    <3> HIDE DEF I
    <3> QED BY <3>1, MinIs
  <2>3. DEFINE next == SelectInSeq(g[t], LAMBDA e : e.to >= u)
  <2>4. AddDependency(g, t, u, type, act, tag, offset)
          = [g EXCEPT ![t] = InsertAt(@, IF next = 0 THEN Len(@) + 1 ELSE next, d)]
    BY DEF AddDependency
  <2>5. next = IF I # {} THEN Min(I) ELSE 0
    BY <2>1
  <2> HIDE DEF next, I
  <2> QED BY <2>2, <2>4, <2>5
<1>3. I # {} => Min(I) \in I /\ \A i \in I : Min(I) <= i
  <2>1. I \in SUBSET Nat
    BY <1>1
  <2> HIDE DEF I
  <2> QED BY <2>1, MinIs
<1>4. u \in Nat
  BY TasksAssumption DEF Tasks
<1>5. /\ k \in 1 .. Len(q) + 1
      /\ \A i \in DOMAIN q : i < k => q[i].to < u
      /\ \A i \in DOMAIN q : i >= k => u <= q[i].to
  <2>1. CASE I = {}
    <3>1. k = Len(q) + 1
      BY <2>1
    <3>2. \A i \in DOMAIN q : ~(q[i].to >= u)
      BY <1>1, <2>1
    <3> HIDE DEF k, I
    <3> QED BY <1>1, <1>4, <3>1, <3>2
  <2>2. CASE I # {}
    <3>1. k = Min(I) /\ k \in I /\ \A i \in I : k <= i
      <4> HIDE DEF I
      <4> QED BY <1>3, <2>2
    <3>2. k \in 1 .. Len(q) /\ q[k].to >= u
      BY <3>1
    <3>3. \A i \in DOMAIN q : i < k => ~(q[i].to >= u)
      <4> SUFFICES ASSUME NEW i \in DOMAIN q, i < k, q[i].to >= u PROVE FALSE
        OBVIOUS
      <4>1. i \in I
        BY <1>1
      <4> HIDE DEF k, I
      <4> QED BY <1>1, <3>1, <3>2, <4>1
    <3>4. \A i \in DOMAIN q : i >= k => q[k].to <= q[i].to
      BY <1>1, <3>2
    <3> HIDE DEF k, I
    <3> QED BY <1>1, <1>4, <3>2, <3>3, <3>4
  <2> QED BY <2>1, <2>2
<1> HIDE DEF k, I
<1> HIDE DEF k
<1> QED BY <1>2, <1>5

-----------------------------------------------------------------------------
(* The graph after an operation                                            *)

\* What the operation of t may do to the graph: only arcs of t, for this
\* operation, are new, and those that block are of the tasks in `from'.
Changes(t, from, g, h) ==
    /\ Rows(h)
    /\ \A x \in Tasks : Offsets(h[x]) \subseteq Offsets(g[x])
                                                  \cup (IF x = t THEN {action[t]} ELSE {})
    /\ \A x, y \in Tasks : Arc(h, x, y) => Arc(g, x, y) \/ x \in from

LEMMA NoChange ==
    ASSUME NEW t \in Tasks, NEW from \in SUBSET {t}, NEW g, Rows(g)
    PROVE  Changes(t, from, g, g)
  BY DEF Changes

LEMMA ChangesAdd ==
    ASSUME NEW t \in Tasks, NEW from \in SUBSET {t}, NEW g, NEW h, NEW k,
           Changes(t, from, g, h), Changes(t, from, h, k)
    PROVE  Changes(t, from, g, k)
<1>1. Rows(k)
  BY DEF Changes
<1>2. ASSUME NEW x \in Tasks
      PROVE  Offsets(k[x]) \subseteq Offsets(g[x]) \cup (IF x = t THEN {action[t]} ELSE {})
  BY DEF Changes
<1>3. ASSUME NEW x \in Tasks, NEW y \in Tasks, Arc(k, x, y)
      PROVE  Arc(g, x, y) \/ x \in from
  <2>1. Arc(h, x, y) \/ x \in from
    BY <1>3 DEF Changes
  <2> QED BY <2>1 DEF Changes
<1> QED BY <1>1, <1>2, <1>3 DEF Changes

\* One row changes.
LEMMA OneRow ==
    ASSUME NEW t \in Tasks, NEW from \in SUBSET {t}, NEW g, Rows(g), NEW x \in Tasks, NEW p,
           Row(x, p),
           Offsets(p) \subseteq Offsets(g[x]) \cup (IF x = t THEN {action[t]} ELSE {}),
           Towards(p) \subseteq Towards(g[x]) \/ x \in from
    PROVE  Changes(t, from, g, [g EXCEPT ![x] = p])
<1> DEFINE h == [g EXCEPT ![x] = p]
<1>1. g \in [Tasks -> Seq(Arcs)] /\ p \in Seq(Arcs) /\ \A y \in Tasks : Row(y, g[y])
  BY DEF Rows, Row
<1>2. h \in [Tasks -> Seq(Arcs)] /\ h[x] = p /\ \A y \in Tasks \ {x} : h[y] = g[y]
  BY <1>1
<1> HIDE DEF h
<1>3. Rows(h)
  BY <1>1, <1>2 DEF Rows
<1>4. \A y \in Tasks : Offsets(h[y]) \subseteq Offsets(g[y])
                                                 \cup (IF y = t THEN {action[t]} ELSE {})
  BY <1>2
<1>5. ASSUME NEW y \in Tasks, NEW z \in Tasks, Arc(h, y, z)
      PROVE  Arc(g, y, z) \/ y \in from
  <2>1. z \in Towards(h[y])
    BY <1>5, ArcIs
  <2>2. z \in Towards(g[y]) \/ y \in from
    BY <1>2, <2>1
  <2> QED BY <2>2, ArcIs
<1> QED BY <1>3, <1>4, <1>5 DEF Changes, h

LEMMA Removing ==
    ASSUME NEW t \in Tasks, NEW from \in SUBSET {t}, NEW g, Rows(g), NEW x \in Tasks,
           NEW i \in DOMAIN g[x]
    PROVE  /\ Changes(t, from, g, RemoveDependency(g, x, i))
           /\ Len(RemoveDependency(g, x, i)[x]) = Len(g[x]) - 1
           /\ DOMAIN RemoveDependency(g, x, i)[x] = 1 .. Len(g[x]) - 1
<1> DEFINE p == RemoveAt(g[x], i)
<1>1. Row(x, g[x]) /\ g \in [Tasks -> Seq(Arcs)]
  BY DEF Rows
<1>2. /\ Row(x, p) /\ Offsets(p) \subseteq Offsets(g[x]) /\ Towards(p) \subseteq Towards(g[x])
      /\ Len(p) = Len(g[x]) - 1 /\ DOMAIN p = 1 .. Len(p)
  BY <1>1, RowRemoved
<1>3. RemoveDependency(g, x, i) = [g EXCEPT ![x] = p] /\ [g EXCEPT ![x] = p][x] = p
  BY <1>1 DEF RemoveDependency
<1> HIDE DEF p
<1>4. Changes(t, from, g, [g EXCEPT ![x] = p])
  BY <1>2, OneRow
<1> QED BY <1>2, <1>3, <1>4

LEMMA Resolving ==
    ASSUME NEW t \in Tasks, NEW from \in SUBSET {t}, NEW g, Rows(g), NEW x \in Tasks,
           NEW i \in DOMAIN g[x]
    PROVE  Changes(t, from, g, ChangeAction(g, x, i))
<1> DEFINE q == g[x]
           p == [q EXCEPT ![i].action = SOFT_ACTION_RESOLVED]
<1>1. Row(x, q) /\ g \in [Tasks -> Seq(Arcs)] /\ q \in Seq(Arcs) /\ i \in DOMAIN q
  BY DEF Rows, Row
<1>2. ChangeAction(g, x, i) = [g EXCEPT ![x] = p]
  BY <1>1 DEF ChangeAction
<1> HIDE DEF q
<1>3. q[i] \in Arcs /\ [q[i] EXCEPT !.action = SOFT_ACTION_RESOLVED] \in Arcs
  <2>1. q[i] \in Arcs /\ SOFT_ACTION_RESOLVED \in Nat
    BY <1>1 DEF SOFT_ACTION_RESOLVED
  <2> QED BY <2>1 DEF Arcs
<1>4. /\ p \in Seq(Arcs) /\ DOMAIN p = DOMAIN q
      /\ \A j \in DOMAIN q : p[j].to = q[j].to /\ p[j].type = q[j].type
                             /\ p[j].offset = q[j].offset
  <2>1. p = [q EXCEPT ![i] = [q[i] EXCEPT !.action = SOFT_ACTION_RESOLVED]]
    BY <1>1
  <2>2. \A j \in DOMAIN q : q[j] \in Arcs
    BY <1>1
  <2>3. p \in Seq(Arcs) /\ DOMAIN p = DOMAIN q
        /\ \A j \in DOMAIN q : p[j] = IF j = i THEN [q[i] EXCEPT !.action = SOFT_ACTION_RESOLVED]
                                               ELSE q[j]
    BY <1>1, <1>3, <2>1
  <2>4. /\ [q[i] EXCEPT !.action = SOFT_ACTION_RESOLVED].to = q[i].to
        /\ [q[i] EXCEPT !.action = SOFT_ACTION_RESOLVED].type = q[i].type
        /\ [q[i] EXCEPT !.action = SOFT_ACTION_RESOLVED].offset = q[i].offset
    BY <1>3 DEF Arcs
  <2> HIDE DEF p
  <2> QED BY <2>3, <2>4
<1> HIDE DEF p
<1>5. Row(x, p)
  BY <1>1, <1>4 DEF Row
<1>6. Offsets(p) \subseteq Offsets(q)
  BY <1>4 DEF Offsets
<1>7. Towards(p) \subseteq Towards(q)
  BY <1>4 DEF Towards, Blocks
<1>8. Changes(t, from, g, [g EXCEPT ![x] = p])
  <2>1. Offsets(p) \subseteq Offsets(g[x]) /\ Towards(p) \subseteq Towards(g[x])
    BY <1>6, <1>7 DEF q
  <2> QED BY <1>5, <2>1, OneRow
<1> QED BY <1>2, <1>8

LEMMA Adding ==
    ASSUME NEW t \in Tasks, NEW from \in SUBSET {t}, NEW g, Rows(g), NEW u \in Tasks \ {t},
           NEW type \in {"STRG", "SOFT", "GLOP"}, NEW act \in Nat, NEW tag \in Nat,
           IsCall(t, action[t]), action[t] \in Nat, type = "SOFT" \/ t \in from
    PROVE  Changes(t, from, g, AddDependency(g, t, u, type, act, tag, action[t]))
<1> DEFINE q == g[t]
           d == ArcOf(u, type, act, tag, action[t])
<1>1. PICK k \in 1 .. Len(q) + 1 :
          /\ \A i \in DOMAIN q : i < k => q[i].to < u
          /\ \A i \in DOMAIN q : i >= k => u <= q[i].to
          /\ AddDependency(g, t, u, type, act, tag, action[t])
               = [g EXCEPT ![t] = InsertAt(@, k, d)]
  BY PlaceIs
<1>2. Row(t, q) /\ g \in [Tasks -> Seq(Arcs)]
  BY DEF Rows
<1>3. d \in Arcs /\ d.to = u /\ d.type = type /\ d.offset = action[t]
  BY DEF Arcs, ArcOf
<1> HIDE DEF d
<1> DEFINE p == InsertAt(q, k, d)
<1>4. /\ Row(t, p) /\ Offsets(p) \subseteq Offsets(q) \cup {d.offset}
      /\ Towards(p) \subseteq Towards(q) \cup (IF Blocks(d) THEN {d.to} ELSE {})
  <2> HIDE DEF q
  <2> QED BY <1>1, <1>2, <1>3, RowAdded
<1>5. AddDependency(g, t, u, type, act, tag, action[t]) = [g EXCEPT ![t] = p]
  BY <1>1, <1>2
<1> HIDE DEF p
<1>6. Towards(p) \subseteq Towards(q) \/ t \in from
  BY <1>3, <1>4 DEF Blocks
<1> QED BY <1>3, <1>4, <1>5, <1>6, OneRow

\* The operation t is about to do.
Calls(t) == RunInv /\ TaskInv /\ Rows(graph) /\ status[t] = "ready" /\ Op(t).action # WORK
Fits(t, r) ==
    r.check \in BOOLEAN /\ Changes(t, IF r.check THEN {t} ELSE {}, graph, r.graph)

LEMMA ResultFits ==
    ASSUME NEW t \in Tasks, NEW g
    PROVE  /\ Changes(t, {}, graph, g) => Fits(t, Result(g, FALSE))
           /\ Changes(t, {t}, graph, g) => Fits(t, Result(g, TRUE))
<1>1. \A c : Result(g, c).graph = g /\ Result(g, c).check = c
  BY DEF Result
<1> QED BY <1>1 DEF Fits

LEMMA NewArcFits ==
    ASSUME NEW t \in Tasks, Calls(t), Op(t).action # GLOBAL_OP, NEW g, Rows(g),
           NEW from \in SUBSET {t}, NEW type \in {"STRG", "SOFT"}, NEW act \in Nat,
           type = "SOFT" \/ t \in from
    PROVE  Changes(t, from, g, NewArc(g, t, type, act))
<1>1. /\ action[t] \in Nat /\ Op(t).tag \in Nat /\ Op(t).peer \in Tasks \ {t}
      /\ IsCall(t, action[t])
  BY OpTyped DEF Calls
<1> QED BY <1>1, Adding DEF NewArc

LEMMA NewSendFits ==
    ASSUME NEW t \in Tasks, Calls(t), Op(t).action = SEND
    PROVE  Fits(t, NewSend(t))
<1> DEFINE u == Op(t).peer
           dep == GetDependency(graph, u, t, "STRG", WAIT, Op(t).tag)
           irecv == GetDependency(graph, u, t, "SOFT", IRECV, Op(t).tag)
           waiting == IF dep = 0 THEN SEND ELSE graph[u][dep].action
<1>1. Op(t).action # WORK /\ Op(t).action # GLOBAL_OP
  BY DEF SEND, WORK, GLOBAL_OP
<1>2. u \in Tasks \ {t}
  BY <1>1, OpTyped DEF Calls
<1>3. /\ Rows(graph)
      /\ dep \in Nat /\ (dep # 0 => dep \in DOMAIN graph[u] /\ graph[u][dep].type = "STRG")
      /\ irecv \in Nat /\ (irecv # 0 => irecv \in DOMAIN graph[u] /\ graph[u][irecv].type = "SOFT")
  BY <1>2, DependencyIs DEF Calls
<1>4. NewSend(t) =
        CASE waiting = RECV -> Result(RemoveDependency(graph, u, dep), FALSE)
          [] waiting = WAIT /\ irecv # 0 ->
                 Result(RemoveDependency(RemoveDependency(graph, u, Max({dep, irecv})),
                                         u, Min({dep, irecv})), FALSE)
          [] waiting = SEND /\ irecv # 0 -> Result(ChangeAction(graph, u, irecv), FALSE)
          [] OTHER -> IF Op(t).tag \in Eager /\ waiting = SEND
                      THEN Result(NewArc(graph, t, "SOFT", SOFT_ACTION_RESOLVED), FALSE)
                      ELSE Result(NewArc(graph, t, "STRG", SEND), TRUE)
  BY DEF NewSend
<1>5. waiting # SEND => dep # 0
  OBVIOUS
<1>6. RECV # SEND /\ WAIT # SEND /\ RECV # WAIT
  BY DEF RECV, SEND, WAIT
<1> HIDE DEF u, dep, irecv, waiting
<1>7. CASE waiting = RECV
  <2>1. NewSend(t) = Result(RemoveDependency(graph, u, dep), FALSE)
    BY <1>4, <1>6, <1>7
  <2>2. Changes(t, {}, graph, RemoveDependency(graph, u, dep))
    BY <1>2, <1>3, <1>5, <1>6, <1>7, Removing
  <2> QED BY <2>1, <2>2, ResultFits
<1>8. CASE waiting = WAIT /\ irecv # 0
  <2> DEFINE a == Max({dep, irecv})
             b == Min({dep, irecv})
             h == RemoveDependency(graph, u, a)
  <2>1. NewSend(t) = Result(RemoveDependency(h, u, b), FALSE)
    BY <1>4, <1>6, <1>8
  <2>2. dep # irecv /\ dep \in DOMAIN graph[u] /\ irecv \in DOMAIN graph[u]
    <3>1. dep # 0
      BY <1>5, <1>6, <1>8
    <3> QED BY <1>3, <1>8, <3>1
  <2>3. a \in DOMAIN graph[u] /\ b \in DOMAIN graph[u] /\ b < a
    BY <1>3, <2>2, TwoOf
  <2> HIDE DEF a, b
  <2>4. /\ Changes(t, {}, graph, h) /\ Rows(h)
        /\ DOMAIN h[u] = 1 .. Len(graph[u]) - 1
    <3>1. {} \in SUBSET {t}
      OBVIOUS
    <3>2. Changes(t, {}, graph, h) /\ DOMAIN h[u] = 1 .. Len(graph[u]) - 1
      BY <1>2, <1>3, <2>3, <3>1, Removing
    <3> HIDE DEF h
    <3> QED BY <3>2 DEF Changes
  <2>5. b \in DOMAIN h[u]
    <3>1. graph[u] \in Seq(Arcs)
      BY <1>2, <1>3 DEF Rows
    <3> QED BY <2>3, <2>4, <3>1
  <2> HIDE DEF h
  <2>6. Changes(t, {}, h, RemoveDependency(h, u, b))
    BY <1>2, <2>4, <2>5, Removing
  <2>7. Changes(t, {}, graph, RemoveDependency(h, u, b))
    BY <2>4, <2>6, ChangesAdd
  <2> QED BY <2>1, <2>7, ResultFits
<1>9. CASE waiting = SEND /\ irecv # 0
  <2>1. NewSend(t) = Result(ChangeAction(graph, u, irecv), FALSE)
    BY <1>4, <1>6, <1>9
  <2>2. Changes(t, {}, graph, ChangeAction(graph, u, irecv))
    BY <1>2, <1>3, <1>9, Resolving
  <2> QED BY <2>1, <2>2, ResultFits
<1>10. CASE ~(waiting = RECV) /\ ~(waiting = WAIT /\ irecv # 0) /\ ~(waiting = SEND /\ irecv # 0)
  <2>1. \/ NewSend(t) = Result(NewArc(graph, t, "SOFT", SOFT_ACTION_RESOLVED), FALSE)
        \/ NewSend(t) = Result(NewArc(graph, t, "STRG", SEND), TRUE)
    BY <1>4, <1>10
  <2>2. Changes(t, {}, graph, NewArc(graph, t, "SOFT", SOFT_ACTION_RESOLVED))
    <3>1. SOFT_ACTION_RESOLVED \in Nat
      BY DEF SOFT_ACTION_RESOLVED
    <3> QED BY <1>1, <1>3, <3>1, NewArcFits
  <2>3. Changes(t, {t}, graph, NewArc(graph, t, "STRG", SEND))
    <3>1. SEND \in Nat
      BY DEF SEND
    <3> QED BY <1>1, <1>3, <3>1, NewArcFits
  <2> QED BY <2>1, <2>2, <2>3, ResultFits
<1> QED BY <1>7, <1>8, <1>9, <1>10

LEMMA NewRecvFits ==
    ASSUME NEW t \in Tasks, Calls(t), Op(t).action = RECV
    PROVE  Fits(t, NewRecv(t))
<1> DEFINE u == Op(t).peer
           dep == GetDependency(graph, u, t, "STRG", SEND, Op(t).tag)
           isend == GetDependency(graph, u, t, "SOFT", SOFT_ACTION_RESOLVED, Op(t).tag)
<1>1. Op(t).action # WORK /\ Op(t).action # GLOBAL_OP
  BY DEF RECV, WORK, GLOBAL_OP
<1>2. u \in Tasks \ {t}
  BY <1>1, OpTyped DEF Calls
<1>3. Rows(graph) /\ (dep # 0 => dep \in DOMAIN graph[u])
  BY <1>2, DependencyIs DEF Calls
<1>4. \/ dep # 0 /\ NewRecv(t) = Result(RemoveDependency(graph, u, dep), FALSE)
      \/ NewRecv(t) = Result(graph, FALSE)
      \/ NewRecv(t) = Result(NewArc(graph, t, "STRG", RECV), TRUE)
  BY DEF NewRecv
<1> HIDE DEF u, dep, isend
<1>5. dep # 0 => Changes(t, {}, graph, RemoveDependency(graph, u, dep))
  BY <1>2, <1>3, Removing
<1>6. Changes(t, {}, graph, graph)
  BY <1>3, NoChange
<1>7. Changes(t, {t}, graph, NewArc(graph, t, "STRG", RECV))
  <2>1. RECV \in Nat
    BY DEF RECV
  <2> QED BY <1>1, <1>3, <2>1, NewArcFits
<1> QED BY <1>4, <1>5, <1>6, <1>7, ResultFits

LEMMA NewWaitFits ==
    ASSUME NEW t \in Tasks, Calls(t), Op(t).action = WAIT
    PROVE  Fits(t, NewWait(t))
<1> DEFINE u == Op(t).peer
           mine == GetDependency(graph, t, u, "SOFT", SOFT_ACTION_RESOLVED, Op(t).tag)
           theirs == GetDependency(graph, u, t, "SOFT", SOFT_ACTION_RESOLVED, Op(t).tag)
<1>1. Op(t).action # WORK /\ Op(t).action # GLOBAL_OP
  BY DEF WAIT, WORK, GLOBAL_OP
<1>2. u \in Tasks \ {t}
  BY <1>1, OpTyped DEF Calls
<1>3. /\ Rows(graph)
      /\ mine # 0 => mine \in DOMAIN graph[t]
      /\ theirs # 0 => theirs \in DOMAIN graph[u]
  BY <1>2, DependencyIs DEF Calls
<1>4. \/ mine # 0 /\ NewWait(t) = Result(RemoveDependency(graph, t, mine), FALSE)
      \/ theirs # 0 /\ NewWait(t) = Result(RemoveDependency(graph, u, theirs), FALSE)
      \/ NewWait(t) = Result(NewArc(graph, t, "STRG", WAIT), TRUE)
  BY DEF NewWait
<1> HIDE DEF u, mine, theirs
<1>5. mine # 0 => Changes(t, {}, graph, RemoveDependency(graph, t, mine))
  BY <1>3, Removing
<1>6. theirs # 0 => Changes(t, {}, graph, RemoveDependency(graph, u, theirs))
  BY <1>2, <1>3, Removing
<1>7. Changes(t, {t}, graph, NewArc(graph, t, "STRG", WAIT))
  <2>1. WAIT \in Nat
    BY DEF WAIT
  <2> QED BY <1>1, <1>3, <2>1, NewArcFits
<1> QED BY <1>4, <1>5, <1>6, <1>7, ResultFits

LEMMA NewIrecvFits ==
    ASSUME NEW t \in Tasks, Calls(t), Op(t).action = IRECV
    PROVE  Fits(t, NewIrecv(t))
<1> DEFINE u == Op(t).peer
           dep == GetDependency(graph, u, t, "STRG", SEND, Op(t).tag)
           isend == GetDependency(graph, u, t, "SOFT", SOFT_ACTION_RESOLVED, Op(t).tag)
           resolved == NewArc(graph, t, "SOFT", SOFT_ACTION_RESOLVED)
<1>1. Op(t).action # WORK /\ Op(t).action # GLOBAL_OP
  BY DEF IRECV, WORK, GLOBAL_OP
<1>2. u \in Tasks \ {t}
  BY <1>1, OpTyped DEF Calls
<1>3. /\ Rows(graph)
      /\ dep # 0 => dep \in DOMAIN graph[u]
      /\ isend # 0 => isend \in DOMAIN graph[u]
  BY <1>2, DependencyIs DEF Calls
<1>4. \/ dep # 0 /\ NewIrecv(t) = Result(RemoveDependency(resolved, u, dep), FALSE)
      \/ isend # 0 /\ NewIrecv(t) = Result(RemoveDependency(resolved, u, isend), FALSE)
      \/ NewIrecv(t) = Result(NewArc(graph, t, "SOFT", IRECV), FALSE)
  BY DEF NewIrecv
<1>5. Changes(t, {}, graph, resolved) /\ Rows(resolved)
  <2>1. SOFT_ACTION_RESOLVED \in Nat /\ {} \in SUBSET {t}
    BY DEF SOFT_ACTION_RESOLVED
  <2>2. Changes(t, {}, graph, resolved)
    BY <1>1, <1>3, <2>1, NewArcFits
  <2> QED BY <2>2 DEF Changes
<1>6. resolved[u] = graph[u]
  <2>1. \E k : resolved = [graph EXCEPT ![t] = k]
    BY DEF NewArc, AddDependency
  <2> HIDE DEF resolved
  <2> QED BY <1>2, <1>3, <2>1 DEF Rows
<1> HIDE DEF u, dep, isend, resolved
<1>7. \A i \in DOMAIN graph[u] : Changes(t, {}, graph, RemoveDependency(resolved, u, i))
  <2> SUFFICES ASSUME NEW i \in DOMAIN graph[u]
               PROVE  Changes(t, {}, graph, RemoveDependency(resolved, u, i))
    OBVIOUS
  <2>1. Changes(t, {}, resolved, RemoveDependency(resolved, u, i))
    BY <1>2, <1>5, <1>6, Removing
  <2> QED BY <1>5, <2>1, ChangesAdd
<1>8. Changes(t, {}, graph, NewArc(graph, t, "SOFT", IRECV))
  <2>1. IRECV \in Nat
    BY DEF IRECV
  <2> QED BY <1>1, <1>3, <2>1, NewArcFits
<1> QED BY <1>3, <1>4, <1>7, <1>8, ResultFits

LEMMA NewGlopFits ==
    ASSUME NEW t \in Tasks, Calls(t), Op(t).action = GLOBAL_OP
    PROVE  Fits(t, NewGlop(t))
<1> DEFINE Came(u) == GetDependency(graph, u, t, "GLOP", GLOBAL_OP, Op(t).tag)
           Step(u, g) ==
               IF u = t THEN g
               ELSE IF Came(u) # 0 THEN RemoveDependency(g, u, Came(u))
               ELSE AddDependency(g, t, u, "GLOP", GLOBAL_OP, Op(t).tag, action[t])
           check == \E u \in Tasks \ {t} : Came(u) = 0
           from == IF check THEN {t} ELSE {}
           D == 0 .. N
           after[u \in D] ==
               IF u = 0 THEN graph
               ELSE IF u = t THEN after[u - 1]
               ELSE IF Came(u) # 0 THEN RemoveDependency(after[u - 1], u, Came(u))
               ELSE AddDependency(after[u - 1], t, u, "GLOP", GLOBAL_OP, Op(t).tag, action[t])
           Is(h) == h = [u \in D |-> IF u = 0 THEN graph ELSE Step(u, h[u - 1])]
<1>1. NewGlop(t) = Result(after[N], check)
  BY DEF NewGlop
<1>2. after = CHOOSE h : Is(h)
  BY DEF after
<1>3. N \in Nat /\ N >= 1 /\ Tasks = 1 .. N
  BY TasksAssumption DEF Tasks
<1>4. /\ action[t] \in Nat /\ Op(t).tag \in Nat /\ IsCall(t, action[t]) /\ Rows(graph)
      /\ GLOBAL_OP \in Nat
  <2>1. Op(t).action # WORK
    BY DEF Calls
  <2> QED BY <2>1, OpTyped DEF Calls, GLOBAL_OP
<1>5. \A u \in Tasks : Came(u) # 0 => Came(u) \in DOMAIN graph[u]
  BY <1>4, DependencyIs
<1> HIDE DEF Came, Step, after
<1>6. \E h : Is(h)
  <2> DEFINE Upto(n, h) == /\ DOMAIN h = 0 .. n /\ h[0] = graph
                           /\ \A u \in 1 .. n : h[u] = Step(u, h[u - 1])
             Good == {n \in Nat : \E h : Upto(n, h)}
  <2>1. 0 \in Good
    <3>1. Upto(0, [u \in 0 .. 0 |-> graph])
      OBVIOUS
    <3> QED BY <3>1
  <2>2. ASSUME NEW n \in Nat, n \in Good PROVE n + 1 \in Good
    <3>1. PICK h : Upto(n, h)
      BY <2>2
    <3> DEFINE k == [u \in 0 .. n + 1 |-> IF u = n + 1 THEN Step(n + 1, h[n]) ELSE h[u]]
    <3>2. /\ DOMAIN k = 0 .. n + 1 /\ k[n + 1] = Step(n + 1, h[n])
          /\ \A u \in 0 .. n : k[u] = h[u]
      OBVIOUS
    <3> HIDE DEF k
    <3>3. \A u \in 1 .. n : k[u] = Step(u, k[u - 1])
      <4> SUFFICES ASSUME NEW u \in 1 .. n PROVE k[u] = Step(u, k[u - 1])
        OBVIOUS
      <4>1. u \in 0 .. n /\ u - 1 \in 0 .. n
        OBVIOUS
      <4> QED BY <3>1, <3>2, <4>1
    <3>4. k[n + 1] = Step(n + 1, k[(n + 1) - 1])
      <4>1. (n + 1) - 1 = n /\ n \in 0 .. n
        OBVIOUS
      <4> QED BY <3>2, <4>1
    <3>5. Upto(n + 1, k)
      <4>1. \A u \in 1 .. n + 1 : u = n + 1 \/ u \in 1 .. n
        OBVIOUS
      <4>2. 0 \in 0 .. n
        OBVIOUS
      <4> QED BY <3>1, <3>2, <3>3, <3>4, <4>1, <4>2
    <3> HIDE DEF Upto
    <3> QED BY <3>5
  <2>3. N \in Good
    <3> HIDE DEF Good
    <3> QED BY <1>3, <2>1, <2>2, SetInduction
  <2>4. PICK h : Upto(N, h)
    BY <2>3
  <2> DEFINE e == [u \in D |-> h[u]]
  <2>5. Is(e)
    <3>1. \A u \in D : e[u] = IF u = 0 THEN graph ELSE Step(u, e[u - 1])
      <4> SUFFICES ASSUME NEW u \in D PROVE e[u] = IF u = 0 THEN graph ELSE Step(u, e[u - 1])
        OBVIOUS
      <4>1. u = 0 \/ (u \in 1 .. N /\ u # 0 /\ u - 1 \in D)
        BY <1>3
      <4>2. e[u] = h[u] /\ (u # 0 => e[u - 1] = h[u - 1])
        BY <4>1
      <4> QED BY <2>4, <4>1, <4>2
    <3>2. e = [u \in D |-> e[u]]
      OBVIOUS
    <3> HIDE DEF e
    <3> QED BY <3>1, <3>2
  <2> HIDE DEF Is, e
  <2> QED BY <2>5
<1>7. after[0] = graph /\ \A u \in 1 .. N : after[u] = Step(u, after[u - 1])
  <2>1. Is(after)
    <3> HIDE DEF Is
    <3> QED BY <1>2, <1>6
  <2>2. \A u \in D : after[u] = IF u = 0 THEN graph ELSE Step(u, after[u - 1])
    BY <2>1
  <2>3. 0 \in D /\ \A u \in 1 .. N : u \in D /\ u # 0
    BY <1>3
  <2> QED BY <2>2, <2>3
<1> HIDE DEF Is
<1> DEFINE Met(n) == /\ Changes(t, from, graph, after[n])
                     /\ \A u \in Tasks : u > n /\ u # t => after[n][u] = graph[u]
           Done == {n \in Nat : n <= N => Met(n)}
<1>8. from \in SUBSET {t}
  OBVIOUS
<1>9. 0 \in Done
  <2>1. Changes(t, from, graph, graph)
    BY <1>4, <1>8, NoChange
  <2> QED BY <1>7, <2>1
<1>10. ASSUME NEW n \in Nat, n \in Done PROVE n + 1 \in Done
  <2> SUFFICES ASSUME n + 1 <= N PROVE Met(n + 1)
    OBVIOUS
  <2> DEFINE g == after[n]
             u == n + 1
  <2>1. u \in Tasks /\ u \in Nat /\ u - 1 = n /\ n <= N /\ u \in 1 .. N
    BY <1>3
  <2>2. Met(n) /\ after[u] = Step(u, g)
    BY <1>7, <1>10, <2>1
  <2>3. Rows(g)
    BY <2>2 DEF Changes
  <2>4. /\ Changes(t, from, graph, g) /\ \A x \in Tasks : x > n /\ x # t => g[x] = graph[x]
    BY <2>2
  <2> HIDE DEF g, u
  <2>5. Changes(t, from, g, Step(u, g))
    <3>1. CASE u = t
      BY <1>8, <2>3, <3>1, NoChange DEF Step
    <3>2. CASE u # t /\ Came(u) # 0
      <4>1. g[u] = graph[u]
        BY <2>1, <2>4, <3>2
      <4>2. Came(u) \in DOMAIN g[u]
        BY <1>5, <2>1, <3>2, <4>1
      <4>3. Step(u, g) = RemoveDependency(g, u, Came(u))
        BY <3>2 DEF Step
      <4> QED BY <1>8, <2>1, <2>3, <4>2, <4>3, Removing
    <3>3. CASE u # t /\ Came(u) = 0
      <4>1. t \in from /\ u \in Tasks \ {t}
        BY <2>1, <3>3
      <4>2. Step(u, g) = AddDependency(g, t, u, "GLOP", GLOBAL_OP, Op(t).tag, action[t])
        BY <3>3 DEF Step
      <4> HIDE DEF from
      <4> QED BY <1>4, <1>8, <2>3, <4>1, <4>2, Adding
    <3> QED BY <3>1, <3>2, <3>3
  <2>6. \A x \in Tasks : x > u /\ x # t => Step(u, g)[x] = g[x]
    <3> SUFFICES ASSUME NEW x \in Tasks, x > u, x # t PROVE Step(u, g)[x] = g[x]
      OBVIOUS
    <3>1. x # u
      BY <1>3, <2>1
    <3>2. \A y, p : y # x => [g EXCEPT ![y] = p][x] = g[x]
      BY <2>3 DEF Rows
    <3> QED BY <3>1, <3>2 DEF Step, RemoveDependency, AddDependency
  <2>7. Changes(t, from, graph, after[u])
    <3> HIDE DEF from
    <3> QED BY <1>8, <2>2, <2>4, <2>5, ChangesAdd
  <2>8. \A x \in Tasks : x > u /\ x # t => after[u][x] = graph[x]
    <3>1. \A x \in Tasks : x > u => x > n
      BY <1>3, <2>1
    <3> QED BY <2>2, <2>4, <2>6, <3>1
  <2> QED BY <2>7, <2>8 DEF u
<1>11. Changes(t, from, graph, after[N])
  <2>1. N \in Done
    <3> HIDE DEF Done
    <3> QED BY <1>3, <1>9, <1>10, SetInduction
  <2> QED BY <1>3, <2>1
<1> HIDE DEF check
<1>12. CASE check
  <2>1. from = {t} /\ check = TRUE
    BY <1>12 DEF check
  <2> QED BY <1>1, <1>11, <2>1, ResultFits
<1>13. CASE ~check
  <2>1. from = {} /\ check = FALSE
    BY <1>13 DEF check
  <2> QED BY <1>1, <1>11, <2>1, ResultFits
<1> QED BY <1>12, <1>13

LEMMA NewCommunicFits ==
    ASSUME NEW t \in Tasks, Calls(t)
    PROVE  Fits(t, NewCommunic(t))
<1>1. Op(t).action \in Kinds /\ Op(t).action # WORK
  BY OpTyped DEF Calls
<1>2. /\ Op(t).action = SEND => NewCommunic(t) = NewSend(t)
      /\ Op(t).action = RECV => NewCommunic(t) = NewRecv(t)
      /\ Op(t).action = WAIT => NewCommunic(t) = NewWait(t)
      /\ Op(t).action = IRECV => NewCommunic(t) = NewIrecv(t)
      /\ Op(t).action = GLOBAL_OP => NewCommunic(t) = NewGlop(t)
  BY DEF NewCommunic, SEND, RECV, WAIT, IRECV, GLOBAL_OP
<1>3. Op(t).action \in {SEND, RECV, WAIT, IRECV, GLOBAL_OP}
  BY <1>1 DEF Kinds
<1> QED BY <1>2, <1>3, NewSendFits, NewRecvFits, NewWaitFits, NewIrecvFits, NewGlopFits

-----------------------------------------------------------------------------
(* Cycles                                                                  *)

\* c is a way of k tasks from root back to it.
Way(g, root, c, k) ==
    /\ c \in [1 .. k -> Tasks]
    /\ \A i \in 1 .. k : c[i] = root <=> i = 1 \/ i = k
    /\ \A i \in 1 .. k - 1 : Arc(g, c[i], c[i + 1])

LEMMA CycleIs ==
    ASSUME NEW g, NEW root, NEW c
    PROVE  c \in Cycles(g, root) <=> \E k \in 3 .. N + 1 : Way(g, root, c, k) /\ Len(c) = k
<1>1. N \in Nat
  BY TasksAssumption
<1>2. \A k \in 3 .. N + 1 : c \in [1 .. k -> Tasks] => DOMAIN c = 1 .. k /\ Len(c) = k
  <2> SUFFICES ASSUME NEW k \in 3 .. N + 1, c \in [1 .. k -> Tasks]
               PROVE  DOMAIN c = 1 .. k /\ Len(c) = k
    OBVIOUS
  <2>1. k \in Nat
    BY <1>1
  <2> QED BY <2>1
<1>3. ASSUME c \in Cycles(g, root)
      PROVE  \E k \in 3 .. N + 1 : Way(g, root, c, k) /\ Len(c) = k
  <2>1. PICK k \in 3 .. N + 1 : c \in [1 .. k -> Tasks]
    BY <1>3 DEF Cycles
  <2>2. DOMAIN c = 1 .. k /\ Len(c) = k
    BY <1>2, <2>1
  <2>3. /\ \A i \in 1 .. k : c[i] = root <=> i \in {1, k}
        /\ \A i \in 1 .. k - 1 : Arc(g, c[i], c[i + 1])
    BY <1>3, <2>2 DEF Cycles
  <2> QED BY <2>1, <2>2, <2>3 DEF Way
<1>4. ASSUME NEW k \in 3 .. N + 1, Way(g, root, c, k), Len(c) = k
      PROVE  c \in Cycles(g, root)
  <2>1. c \in [1 .. k -> Tasks] /\ DOMAIN c = 1 .. k
    BY <1>4 DEF Way
  <2>2. c \in UNION {[1 .. j -> Tasks] : j \in 3 .. N + 1}
    BY <1>4, <2>1
  <2>3. /\ \A i \in DOMAIN c : c[i] = root <=> i \in {1, Len(c)}
        /\ \A i \in 1 .. Len(c) - 1 : Arc(g, c[i], c[i + 1])
    BY <1>4, <2>1 DEF Way
  <2> QED BY <2>2, <2>3 DEF Cycles
<1> QED BY <1>3, <1>4

LEMMA WayIsCycle ==
    ASSUME NEW g, NEW root, NEW c, NEW k \in 3 .. N + 1, Way(g, root, c, k)
    PROVE  c \in Cycles(g, root)
<1>1. N \in Nat /\ k \in Nat
  BY TasksAssumption
<1>2. c \in [1 .. k -> Tasks]
  BY DEF Way
<1>3. Len(c) = k
  BY <1>1, <1>2
<1> QED BY <1>3, CycleIs

\* Without new arcs there are no new cycles.
LEMMA FewerArcs ==
    ASSUME NEW g, NEW h, \A x, y \in Tasks : Arc(h, x, y) => Arc(g, x, y),
           NEW root, Cycles(g, root) = {}
    PROVE  Cycles(h, root) = {}
<1> SUFFICES ASSUME NEW c, c \in Cycles(h, root) PROVE FALSE
  OBVIOUS
<1>1. PICK k \in 3 .. N + 1 : Way(h, root, c, k) /\ Len(c) = k
  BY CycleIs
<1>2. Way(g, root, c, k)
  <2>1. N \in Nat /\ k \in Nat
    BY <1>1, TasksAssumption
  <2>2. c \in [1 .. k -> Tasks] /\ \A i \in 1 .. k - 1 : Arc(h, c[i], c[i + 1])
    BY <1>1 DEF Way
  <2>3. \A i \in 1 .. k - 1 : c[i] \in Tasks /\ c[i + 1] \in Tasks
    BY <2>1, <2>2
  <2> QED BY <1>1, <2>2, <2>3 DEF Way
<1> QED BY <1>1, <1>2, WayIsCycle

\* With new arcs of t only, every new cycle can be gone round from t.
LEMMA CycleThrough ==
    ASSUME NEW g, NEW h, NEW t \in Tasks,
           \A x, y \in Tasks : Arc(h, x, y) => Arc(g, x, y) \/ x = t,
           NEW root \in Tasks, Cycles(g, root) = {}, Cycles(h, root) # {}
    PROVE  Cycles(h, t) # {}
<1>1. PICK c : c \in Cycles(h, root)
  OBVIOUS
<1>2. PICK k \in 3 .. N + 1 : Way(h, root, c, k) /\ Len(c) = k
  BY <1>1, CycleIs
<1>3. N \in Nat /\ k \in Nat /\ k >= 3 /\ k <= N + 1
  BY <1>2, TasksAssumption
<1>4. /\ c \in [1 .. k -> Tasks] /\ \A i \in 1 .. k : c[i] = root <=> i = 1 \/ i = k
      /\ \A i \in 1 .. k - 1 : Arc(h, c[i], c[i + 1])
  BY <1>2 DEF Way
<1> SUFFICES ASSUME root # t PROVE Cycles(h, t) # {}
  OBVIOUS
<1> DEFINE P == {i \in 1 .. k : c[i] = t}
           Q == {k - i : i \in P}
<1>5. P # {}
  <2> SUFFICES ASSUME P = {} PROVE FALSE
    OBVIOUS
  <2>1. \A i \in 1 .. k - 1 : c[i] \in Tasks /\ c[i + 1] \in Tasks /\ c[i] # t
    BY <1>3, <1>4
  <2>2. \A i \in 1 .. k - 1 : Arc(g, c[i], c[i + 1])
    BY <1>4, <2>1
  <2>3. Way(g, root, c, k)
    BY <1>4, <2>2 DEF Way
  <2> QED BY <2>3, WayIsCycle
<1>6. PICK first \in P : \A i \in P : first <= i
  <2>1. P \in SUBSET Nat
    BY <1>3
  <2> HIDE DEF P
  <2> QED BY <1>5, <2>1, LeastElement
<1>7. PICK last \in P : \A i \in P : i <= last
  <2>1. Q \in SUBSET Nat /\ Q # {}
    BY <1>3, <1>5
  <2>2. PICK m \in Q : \A j \in Q : m <= j
    <3> HIDE DEF Q
    <3> QED BY <2>1, LeastElement
  <2>3. PICK l \in P : m = k - l
    BY <2>2
  <2>4. \A i \in P : i <= l
    <3> SUFFICES ASSUME NEW i \in P PROVE i <= l
      OBVIOUS
    <3>1. k - l <= k - i
      BY <2>2, <2>3
    <3> QED BY <1>3, <3>1
  <2> QED BY <2>4
<1>8. /\ first \in 1 .. k /\ last \in 1 .. k /\ c[first] = t /\ c[last] = t /\ first <= last
      /\ first # 1 /\ first # k /\ last # 1 /\ last # k
  BY <1>3, <1>4, <1>6, <1>7
<1>9. \A i \in 1 .. k : c[i] = t => first <= i /\ i <= last
  BY <1>6, <1>7
<1> HIDE DEF P, Q
<1> DEFINE m == k - last + first
           at(i) == IF i <= k - last + 1 THEN last + i - 1 ELSE i - (k - last)
           d == [i \in 1 .. m |-> c[at(i)]]
<1>10. m \in 3 .. N + 1 /\ m \in Nat
  BY <1>3, <1>8
<1>11. \A i \in 1 .. m : at(i) \in 1 .. k /\ (at(i) = first \/ at(i) = last => i = 1 \/ i = m)
                         /\ (at(i) < first \/ at(i) > last \/ at(i) = first \/ at(i) = last)
  BY <1>3, <1>8
<1>12. at(1) = last /\ at(m) = first
  BY <1>3, <1>8
<1>13. \A i \in 1 .. m - 1 : \/ at(i) \in 1 .. k - 1 /\ at(i + 1) = at(i) + 1
                             \/ at(i) = k /\ at(i + 1) = 2
  BY <1>3, <1>8
<1>14. /\ d \in [1 .. m -> Tasks] /\ \A i \in 1 .. m : d[i] = c[at(i)]
  <2> HIDE DEF at, m
  <2> QED BY <1>4, <1>11
<1>15. 1 \in 1 .. m /\ m \in 1 .. m /\ \A i \in 1 .. m - 1 : i \in 1 .. m /\ i + 1 \in 1 .. m
  BY <1>10
<1>16. \A i \in 1 .. m : at(i) \in Nat
  BY <1>3, <1>11
<1> HIDE DEF at, m, d
<1>17. \A i \in 1 .. m : d[i] = t <=> i = 1 \/ i = m
  <2> SUFFICES ASSUME NEW i \in 1 .. m PROVE d[i] = t <=> i = 1 \/ i = m
    OBVIOUS
  <2>1. ASSUME i = 1 \/ i = m PROVE d[i] = t
    BY <1>8, <1>12, <1>14, <2>1
  <2>2. ASSUME d[i] = t PROVE i = 1 \/ i = m
    <3>1. c[at(i)] = t /\ at(i) \in 1 .. k /\ at(i) \in Nat
      BY <1>11, <1>14, <1>16, <2>2
    <3>2. first <= at(i) /\ at(i) <= last
      BY <1>9, <3>1
    <3>3. at(i) = first \/ at(i) = last
      BY <1>3, <1>8, <1>11, <3>1, <3>2
    <3> QED BY <1>11, <3>3
  <2> QED BY <2>1, <2>2
<1>18. \A i \in 1 .. m - 1 : Arc(h, d[i], d[i + 1])
  <2> SUFFICES ASSUME NEW i \in 1 .. m - 1 PROVE Arc(h, d[i], d[i + 1])
    OBVIOUS
  <2>1. d[i] = c[at(i)] /\ d[i + 1] = c[at(i + 1)]
    BY <1>14, <1>15
  <2>2. CASE at(i) \in 1 .. k - 1 /\ at(i + 1) = at(i) + 1
    BY <1>4, <2>1, <2>2
  <2>3. CASE at(i) = k /\ at(i + 1) = 2
    <3>1. c[k] = c[1] /\ Arc(h, c[1], c[2])
      <4>1. 1 \in 1 .. k /\ k \in 1 .. k /\ 1 \in 1 .. k - 1 /\ 1 + 1 = 2
        BY <1>3
      <4> QED BY <1>4, <4>1
    <3> QED BY <2>1, <2>3, <3>1
  <2> QED BY <1>13, <2>2, <2>3
<1>19. Way(h, t, d, m)
  BY <1>14, <1>17, <1>18 DEF Way
<1>20. d \in Cycles(h, t)
  BY <1>10, <1>19, WayIsCycle
<1> QED BY <1>20

Precedes(c, o) == \E i \in DOMAIN c \cap DOMAIN o : c[i] < o[i] /\ \A j \in 1 .. i - 1 : c[j] = o[j]
AgreeUpTo(c, o, n) == n <= Len(c) /\ n <= Len(o) /\ \A j \in 1 .. n : c[j] = o[j]

\* No cycle is the beginning of another.
LEMMA CyclesEnd ==
    ASSUME NEW g, NEW root, NEW c \in Cycles(g, root), NEW o \in Cycles(g, root),
           AgreeUpTo(c, o, Len(c))
    PROVE  c = o
<1>1. PICK k \in 3 .. N + 1 : Way(g, root, c, k) /\ Len(c) = k
  BY CycleIs
<1>2. PICK l \in 3 .. N + 1 : Way(g, root, o, l) /\ Len(o) = l
  BY CycleIs
<1>3. N \in Nat /\ k \in Nat /\ l \in Nat /\ k >= 3 /\ k <= l /\ k \in 1 .. k /\ k \in 1 .. l
  BY <1>1, <1>2, TasksAssumption DEF AgreeUpTo
<1>4. c[k] = root /\ o[k] = c[k]
  BY <1>1, <1>3 DEF Way, AgreeUpTo
<1>5. k = l
  BY <1>2, <1>3, <1>4 DEF Way
<1>6. c \in [1 .. k -> Tasks] /\ o \in [1 .. k -> Tasks] /\ \A j \in 1 .. k : c[j] = o[j]
  BY <1>1, <1>2, <1>5 DEF Way, AgreeUpTo
<1> QED BY <1>6

\* GRAPH_look_for_cycle finds one when there is one: the cycles have a least.
LEMMA ChainIs ==
    ASSUME NEW g, NEW root, Cycles(g, root) # {}
    PROVE  DepChain(g, root) \in Cycles(g, root)
<1> DEFINE C == Cycles(g, root)
           Leads(c, n) == \A o \in C : o = c \/ AgreeUpTo(c, o, n) \/ Precedes(c, o)
           Good == {n \in Nat : \E c \in C : Leads(c, n)}
<1>1. \A c \in C : /\ Len(c) \in Nat /\ Len(c) <= N + 1 /\ DOMAIN c = 1 .. Len(c)
                   /\ \A i \in 1 .. Len(c) : c[i] \in Nat
  <2> SUFFICES ASSUME NEW c \in C
               PROVE  /\ Len(c) \in Nat /\ Len(c) <= N + 1 /\ DOMAIN c = 1 .. Len(c)
                      /\ \A i \in 1 .. Len(c) : c[i] \in Nat
    OBVIOUS
  <2>1. PICK k \in 3 .. N + 1 : Way(g, root, c, k) /\ Len(c) = k
    BY CycleIs
  <2>2. N \in Nat /\ k \in Nat /\ k <= N + 1
    BY TasksAssumption
  <2>3. c \in [1 .. k -> Tasks]
    BY <2>1 DEF Way
  <2> QED BY <2>1, <2>2, <2>3 DEF Tasks
<1>2. \A c, o \in C : AgreeUpTo(c, o, Len(c)) => c = o
  BY CyclesEnd
<1>3. C # {} /\ N \in Nat
  BY TasksAssumption
<1> HIDE DEF C
<1>4. 0 \in Good
  <2>1. PICK c : c \in C
    BY <1>3
  <2>2. \A o \in C : AgreeUpTo(c, o, 0)
    BY <1>1, <2>1 DEF AgreeUpTo
  <2> QED BY <2>1, <2>2
<1>5. ASSUME NEW n \in Nat, n \in Good PROVE n + 1 \in Good
  <2>1. PICK c \in C : Leads(c, n)
    BY <1>5
  <2> SUFFICES \E e \in C : Leads(e, n + 1)
    OBVIOUS
  <2>2. CASE Len(c) <= n
    <3>1. ASSUME NEW o \in C, AgreeUpTo(c, o, n) PROVE o = c
      <4>1. Len(c) = n
        BY <1>1, <2>2, <3>1 DEF AgreeUpTo
      <4> QED BY <1>2, <3>1, <4>1
    <3>2. Leads(c, n + 1)
      BY <2>1, <3>1
    <3> QED BY <3>2
  <2>3. CASE n < Len(c)
    <3> DEFINE A == {o \in C : n + 1 <= Len(o) /\ \A j \in 1 .. n : o[j] = c[j]}
               V == {o[n + 1] : o \in A}
    <3>1. c \in A
      BY <1>1, <2>3
    <3>2. \A o \in A : n + 1 \in 1 .. Len(o) /\ n + 1 \in DOMAIN o /\ o[n + 1] \in Nat
      BY <1>1
    <3>3. V \in SUBSET Nat /\ V # {}
      BY <3>1, <3>2
    <3>4. PICK v \in V : \A m \in V : v <= m
      <4> HIDE DEF V
      <4> QED BY <3>3, LeastElement
    <3>5. PICK e \in A : e[n + 1] = v
      BY <3>4
    <3>6. \A o \in A : e[n + 1] <= o[n + 1]
      BY <3>4, <3>5
    <3>7. ASSUME NEW o \in A PROVE AgreeUpTo(e, o, n + 1) \/ Precedes(e, o)
      <4>1. \A j \in 1 .. n : e[j] = o[j]
        BY <3>5, <3>7
      <4>2. CASE e[n + 1] = o[n + 1]
        <5>1. \A j \in 1 .. n + 1 : j \in 1 .. n \/ j = n + 1
          OBVIOUS
        <5>2. \A j \in 1 .. n + 1 : e[j] = o[j]
          BY <4>1, <4>2, <5>1
        <5> QED BY <3>5, <3>7, <5>2 DEF AgreeUpTo
      <4>3. CASE e[n + 1] # o[n + 1]
        <5>1. e[n + 1] < o[n + 1] /\ n + 1 \in DOMAIN e \cap DOMAIN o
          BY <3>2, <3>5, <3>6, <3>7, <4>3
        <5>2. \A j \in 1 .. (n + 1) - 1 : e[j] = o[j]
          BY <4>1
        <5> QED BY <5>1, <5>2 DEF Precedes
      <4> QED BY <4>2, <4>3
    <3>8. ASSUME NEW o \in C PROVE o = e \/ AgreeUpTo(e, o, n + 1) \/ Precedes(e, o)
      <4>1. CASE o = c
        BY <3>1, <3>7, <4>1
      <4>2. CASE o # c /\ AgreeUpTo(c, o, n)
        <5>1. Len(o) # n
          <6> SUFFICES ASSUME Len(o) = n PROVE FALSE
            OBVIOUS
          <6>1. AgreeUpTo(o, c, Len(o))
            BY <4>2 DEF AgreeUpTo
          <6> QED BY <1>2, <3>8, <4>2, <6>1
        <5>2. n + 1 <= Len(o) /\ \A j \in 1 .. n : o[j] = c[j]
          BY <1>1, <3>8, <4>2, <5>1 DEF AgreeUpTo
        <5> QED BY <3>7, <3>8, <5>2
      <4>3. CASE Precedes(c, o)
        <5>1. PICK i \in DOMAIN c \cap DOMAIN o :
                  c[i] < o[i] /\ \A j \in 1 .. i - 1 : c[j] = o[j]
          BY <4>3 DEF Precedes
        <5>2. i \in Nat /\ i >= 1 /\ i <= Len(o) /\ i <= Len(c)
          BY <1>1, <3>8, <5>1
        <5>3. CASE i <= n
          <6>1. i \in 1 .. n /\ \A j \in 1 .. i - 1 : j \in 1 .. n
            BY <5>2, <5>3
          <6>2. e[i] = c[i] /\ \A j \in 1 .. i - 1 : e[j] = c[j]
            BY <3>5, <6>1
          <6>3. i \in DOMAIN e
            BY <1>1, <3>5, <5>3, <6>1
          <6> QED BY <5>1, <6>2, <6>3 DEF Precedes
        <5>4. CASE i > n
          <6>1. \A j \in 1 .. n : j \in 1 .. i - 1
            BY <5>2, <5>4
          <6>2. n + 1 <= Len(o)
            BY <1>1, <3>8, <5>2, <5>4
          <6>3. o \in A
            BY <3>8, <5>1, <6>1, <6>2
          <6> QED BY <3>7, <6>3
        <5> QED BY <5>2, <5>3, <5>4
      <4> QED BY <2>1, <3>8, <4>1, <4>2, <4>3
    <3>9. e \in C
      BY <3>5
    <3> QED BY <3>8, <3>9
  <2> QED BY <1>1, <2>1, <2>2, <2>3
<1>6. PICK c \in C : Leads(c, N + 2)
  <2>1. N + 2 \in Good
    <3> HIDE DEF Good
    <3> QED BY <1>3, <1>4, <1>5, SetInduction
  <2> QED BY <2>1
<1>7. \A o \in C \ {c} : Precedes(c, o)
  <2>1. \A o \in C : ~AgreeUpTo(c, o, N + 2)
    BY <1>1, <1>3 DEF AgreeUpTo
  <2> QED BY <1>6, <2>1
<1>8. DepChain(g, root) = CHOOSE e \in C : \A o \in C \ {e} : Precedes(e, o)
  BY DEF DepChain, Precedes, C
<1> QED BY <1>7, <1>8 DEF C

\* The first of the greatest of some numbers.
LEMMA FirstOfGreatest ==
    ASSUME NEW m \in Nat \ {0}, NEW f \in [1 .. m -> Nat]
    PROVE  \E i \in 1 .. m : \A j \in 1 .. m : f[j] <= f[i] /\ (j < i => f[j] < f[i])
<1> DEFINE Best(n, i) == \A j \in 1 .. n : f[j] <= f[i] /\ (j < i => f[j] < f[i])
           Good == {n \in Nat : n + 1 <= m => \E i \in 1 .. n + 1 : Best(n + 1, i)}
<1>1. \A i \in 1 .. m : f[i] \in Nat
  OBVIOUS
<1>2. 0 \in Good
  <2>1. Best(1, 1)
    BY <1>1
  <2> QED BY <2>1
<1>3. ASSUME NEW n \in Nat, n \in Good PROVE n + 1 \in Good
  <2> SUFFICES ASSUME n + 2 <= m PROVE \E i \in 1 .. n + 2 : Best(n + 2, i)
    OBVIOUS
  <2>1. PICK i \in 1 .. n + 1 : Best(n + 1, i)
    BY <1>3
  <2>2. f[i] \in Nat /\ f[n + 2] \in Nat /\ \A j \in 1 .. n + 1 : f[j] \in Nat
    BY <1>1
  <2>3. CASE f[n + 2] > f[i]
    <3>1. Best(n + 2, n + 2)
      <4> SUFFICES ASSUME NEW j \in 1 .. n + 2
                   PROVE  f[j] <= f[n + 2] /\ (j < n + 2 => f[j] < f[n + 2])
        OBVIOUS
      <4>1. j = n + 2 \/ j \in 1 .. n + 1
        OBVIOUS
      <4> QED BY <2>1, <2>2, <2>3, <4>1
    <3> QED BY <3>1
  <2>4. CASE f[n + 2] <= f[i]
    <3>1. Best(n + 2, i)
      <4> SUFFICES ASSUME NEW j \in 1 .. n + 2
                   PROVE  f[j] <= f[i] /\ (j < i => f[j] < f[i])
        OBVIOUS
      <4>1. j = n + 2 \/ j \in 1 .. n + 1
        OBVIOUS
      <4> QED BY <2>1, <2>4, <4>1
    <3> QED BY <3>1
  <2> QED BY <2>2, <2>3, <2>4
<1>4. m - 1 \in Good
  <2>1. m - 1 \in Nat
    OBVIOUS
  <2> HIDE DEF Good
  <2> QED BY <1>2, <1>3, <2>1, SetInduction
<1> QED BY <1>4

\* An arc that blocks is found in the row of its task.
LEMMA BlockingIs ==
    ASSUME NEW g, Rows(g), NEW t \in Tasks, NEW u, Arc(g, t, u)
    PROVE  \E i \in DOMAIN g[t] : FirstBlocking(g, t, u) = g[t][i]
<1> DEFINE I == {i \in 1 .. Len(g[t]) : g[t][i].to = u /\ Blocks(g[t][i])}
<1>1. g[t] \in Seq(Arcs) /\ DOMAIN g[t] = 1 .. Len(g[t]) /\ Len(g[t]) \in Nat
  BY DEF Rows
<1>2. I \in SUBSET Nat /\ I # {} /\ I \subseteq DOMAIN g[t]
  BY <1>1 DEF Arc
<1>3. SelectInSeq(g[t], LAMBDA d : d.to = u /\ Blocks(d)) = IF I # {} THEN Min(I) ELSE 0
  BY DEF SelectInSeq
<1>4. FirstBlocking(g, t, u) = g[t][Min(I)]
  BY <1>2, <1>3 DEF FirstBlocking
<1>5. Min(I) \in I
  <2> HIDE DEF I
  <2> QED BY <1>2, MinIs
<1> HIDE DEF I
<1> QED BY <1>2, <1>4, <1>5

\* breakChainFrom and _is_deadlocked: a call of a task, which waits in the
\* cycle, is ignored from now on.
LEMMA BreakChainIs ==
    ASSUME RunInv, NEW g, Rows(g), NEW root, NEW c \in Cycles(g, root), BreakChain(g, c)
    PROVE  /\ \E x \in Tasks : \E o \in Offsets(g[x]) :
                  ignored' = [ignored EXCEPT ![x] = @ \cup {o}]
           /\ rebooted' = TRUE
           /\ run.estats # NoEstats => pendent' \in [Tasks -> Counters]
<1>1. PICK k \in 3 .. N + 1 : Way(g, root, c, k) /\ Len(c) = k
  BY CycleIs
<1> DEFINE m == k - 1
           i == TaskToMod(g, c)
           d == FirstBlocking(g, c[i], c[i + 1])
<1>2. N \in Nat /\ m \in Nat \ {0} /\ k \in Nat /\ Len(c) - 1 = m /\ 1 \in 1 .. m
  BY <1>1, TasksAssumption
<1>3. \A j \in 1 .. m : c[j] \in Tasks /\ Arc(g, c[j], c[j + 1])
  BY <1>1, <1>2 DEF Way
<1>4. \A a : Counter(a) \in {"send", "recv", "glop"}
  BY DEF Counter
<1>5. run.estats # NoEstats =>
          /\ pendent \in [Tasks -> Counters]
          /\ \A j \in 1 .. m : PendentAt(g, c, j) \in Nat
  BY <1>3, <1>4 DEF RunInv, PendentAt, Counters
<1>6. i \in 1 .. m
  <2>1. CASE run.estats = NoEstats
    BY <1>2, <2>1 DEF TaskToMod
  <2>2. CASE run.estats # NoEstats
    <3> DEFINE f == [j \in 1 .. m |-> PendentAt(g, c, j)]
               Least(e) == \A j \in 1 .. m : /\ PendentAt(g, c, j) <= PendentAt(g, c, e)
                                             /\ j < e => PendentAt(g, c, j) < PendentAt(g, c, e)
    <3>1. f \in [1 .. m -> Nat] /\ \A j \in 1 .. m : f[j] = PendentAt(g, c, j)
      BY <1>5, <2>2
    <3>2. \E e \in 1 .. m : \A j \in 1 .. m : f[j] <= f[e] /\ (j < e => f[j] < f[e])
      <4> HIDE DEF f, m
      <4> QED BY <1>2, <3>1, FirstOfGreatest
    <3> HIDE DEF f, m
    <3>3. \E e \in 1 .. m : Least(e)
      BY <3>1, <3>2
    <3>4. i = CHOOSE e \in 1 .. m : Least(e)
      BY <1>2, <2>2 DEF TaskToMod
    <3> HIDE DEF Least, i
    <3> QED BY <3>3, <3>4
  <2> QED BY <2>1, <2>2
<1> DEFINE x == c[i]
<1>7. x \in Tasks /\ Arc(g, x, c[i + 1])
  BY <1>3, <1>6
<1>8. d.offset \in Offsets(g[x])
  <2>1. \E j \in DOMAIN g[x] : d = g[x][j]
    <3> HIDE DEF i
    <3> QED BY <1>7, BlockingIs
  <2> QED BY <2>1 DEF Offsets
<1>9. /\ ignored' = [ignored EXCEPT ![x] = @ \cup {d.offset}]
      /\ pendent' = IF run.estats = NoEstats \/ PendentAt(g, c, i) = 0 THEN pendent
                    ELSE [pendent EXCEPT ![x][Counter(d.action)] = @ - 1]
      /\ rebooted' = TRUE
  BY DEF BreakChain
<1>10. PendentAt(g, c, i) = pendent[x][Counter(d.action)]
  BY DEF PendentAt
<1>11. run.estats # NoEstats => pendent' \in [Tasks -> Counters]
  <2> DEFINE n == Counter(d.action)
             R == {"send", "recv", "glop"}
  <2>1. n \in R
    BY <1>4
  <2> DEFINE p == pendent[x][n]
  <2>5. /\ pendent' = IF run.estats = NoEstats \/ p = 0 THEN pendent
                      ELSE [pendent EXCEPT ![x][n] = @ - 1]
        /\ p = PendentAt(g, c, i)
    BY <1>9, <1>10
  <2> HIDE DEF n, x, i
  <2> SUFFICES ASSUME run.estats # NoEstats PROVE pendent' \in [Tasks -> Counters]
    OBVIOUS
  <2>2. pendent \in [Tasks -> [R -> Nat]] /\ pendent[x] \in [R -> Nat] /\ pendent[x][n] \in Nat
    BY <1>5, <1>7, <2>1 DEF Counters
  <2>3. CASE p = 0
    BY <1>5, <2>3, <2>5
  <2>4. CASE p # 0
    <3>1. pendent' = [pendent EXCEPT ![x][n] = @ - 1] /\ pendent[x][n] - 1 \in Nat
      BY <2>2, <2>4, <2>5
    <3>2. [pendent[x] EXCEPT ![n] = @ - 1] \in [R -> Nat]
      BY <2>2, <3>1
    <3>3. pendent' = [pendent EXCEPT ![x] = [pendent[x] EXCEPT ![n] = @ - 1]]
      BY <1>7, <2>2, <3>1
    <3> QED BY <2>2, <3>2, <3>3 DEF Counters
  <2> QED BY <2>3, <2>4
<1> QED BY <1>7, <1>8, <1>9, <1>11

-----------------------------------------------------------------------------
(* What the steps are made of                                              *)

LEMMA TasksKept ==
    ASSUME run' = run,
           action' \in [Tasks -> Nat], status' \in [Tasks -> {"ready", "blocked", "done"}],
           ignored' \in [Tasks -> SUBSET Nat],
           \A x \in Tasks : /\ action'[x] \in 1 .. Len_(x) + 1
                            /\ status'[x] = "done" <=> action'[x] = Len_(x) + 1
                            /\ \A k \in ignored'[x] : IsCall(x, k)
    PROVE  TaskInv'
<1>1. \A x : Len_(x)' = Len_(x)
  BY DEF Len_
<1>2. \A x, k : IsCall(x, k)' <=> IsCall(x, k)
  BY DEF IsCall, Len_
<1> QED BY <1>1, <1>2 DEF TaskInv

LEMMA RowsKept ==
    ASSUME run' = run, NEW g, Rows(g), graph' = g
    PROVE  Rows(graph)'
  BY DEF Rows, Row, IsCall, Len_

LEMMA AcyclicKept ==
    ASSUME NEW g, \A x \in Tasks : Cycles(g, x) = {}, graph' = g
    PROVE  GraphAcyclic'
  BY DEF GraphAcyclic, Cycles, Arc, Blocks

\* Only the end of a transfer and its beginning change LinksInv.
LEMMA LinksKept ==
    ASSUME LinksInv, chan' \in [Keys -> [Stages -> Nat]], glops' \in [Tasks -> Nat],
           \A k \in Keys : /\ chan'[k].started = chan[k].started
                           /\ chan'[k].delivered = chan[k].delivered,
           busyOut' = busyOut, busyIn' = busyIn
    PROVE  LinksInv'
<1>1. \A k \in Keys : Moves(k)' <=> Moves(k)
  BY DEF Moves
<1>2. LinksOfTransfers'
  BY DEF LinksInv, LinksOfTransfers
<1>3. \A k \in Keys : /\ chan'[k].delivered <= chan'[k].started
                      /\ chan'[k].started <= chan'[k].delivered + 1
  BY DEF LinksInv
<1>4. \A j, k \in Keys : Moves(j)' /\ Moves(k)' /\ (j[1] = k[1] \/ j[2] = k[2]) => j = k
  BY <1>1 DEF LinksInv
<1> QED BY <1>2, <1>3, <1>4 DEF LinksInv

LEMMA CountIs ==
    ASSUME LinksInv, NEW k, NEW s \in Stages
    PROVE  /\ Count(k, s) \in [Keys -> [Stages -> Nat]]
           /\ \A j \in Keys : \A z \in Stages :
                  Count(k, s)[j][z] = chan[j][z] + (IF j = k /\ z = s THEN 1 ELSE 0)
<1> DEFINE c == Count(k, s)
<1>1. chan \in [Keys -> [Stages -> Nat]]
  BY DEF LinksInv
<1>2. c = [chan EXCEPT ![k] = [chan[k] EXCEPT ![s] = @ + 1]]
  BY DEF Count
<1>3. \A j \in Keys : c[j] = IF j = k THEN [chan[k] EXCEPT ![s] = @ + 1] ELSE chan[j]
  BY <1>1, <1>2
<1>4. DOMAIN c = Keys /\ c = [j \in Keys |-> c[j]]
  BY <1>1, <1>2
<1> HIDE DEF c
<1>5. ASSUME NEW j \in Keys
      PROVE  /\ c[j] \in [Stages -> Nat]
             /\ \A z \in Stages : c[j][z] = chan[j][z] + (IF j = k /\ z = s THEN 1 ELSE 0)
  <2>1. chan[j] \in [Stages -> Nat]
    BY <1>1
  <2>2. CASE j = k
    <3>1. c[j] = [chan[j] EXCEPT ![s] = chan[j][s] + 1]
      BY <1>3, <2>2
    <3> QED BY <2>1, <2>2, <3>1
  <2>3. CASE j # k
    BY <1>3, <2>1, <2>3
  <2> QED BY <2>2, <2>3
<1>6. c \in [Keys -> [Stages -> Nat]]
  BY <1>4, <1>5
<1> QED BY <1>5, <1>6 DEF c

LEMMA CountKeepsLinks ==
    ASSUME LinksInv, NEW k, NEW s \in {"sent", "posted", "done"},
           chan' \in {chan, Count(k, s)}, glops' \in [Tasks -> Nat],
           busyOut' = busyOut, busyIn' = busyIn
    PROVE  LinksInv'
<1>1. s \in Stages /\ "started" \in Stages /\ "delivered" \in Stages
      /\ s # "started" /\ s # "delivered"
  BY DEF Stages
<1>2. chan \in [Keys -> [Stages -> Nat]]
  BY DEF LinksInv
<1>3. \A j \in Keys : chan[j].started \in Nat /\ chan[j].delivered \in Nat
  BY <1>1, <1>2
<1>4. CASE chan' = chan
  BY <1>2, <1>4, LinksKept
<1>5. CASE chan' = Count(k, s)
  <2>1. /\ chan' \in [Keys -> [Stages -> Nat]]
        /\ \A j \in Keys : /\ chan'[j].started = chan[j].started + 0
                           /\ chan'[j].delivered = chan[j].delivered + 0
    BY <1>1, <1>5, CountIs
  <2>2. \A j \in Keys : /\ chan'[j].started = chan[j].started
                        /\ chan'[j].delivered = chan[j].delivered
    BY <1>3, <2>1
  <2> QED BY <2>1, <2>2, LinksKept
<1> QED BY <1>4, <1>5

LEMMA BeginKeeps ==
    ASSUME RunInv, TaskInv, LinksInv, NEW t \in Tasks, Begin(t)
    PROVE  LinksInv'
<1>1. glops \in [Tasks -> Nat] /\ glops' \in [Tasks -> Nat]
  BY DEF Begin, LinksInv
<1>2. chan' \in {chan, Count(Key(t), "sent")} \/ chan' \in {chan, Count(Key(t), "posted")}
  BY DEF Begin
<1>3. busyOut' = busyOut /\ busyIn' = busyIn
  BY DEF Begin
<1> QED BY <1>1, <1>2, <1>3, CountKeepsLinks

\* DAP_read_action stays in the trace: no last record is ignored.
LEMMA NextRecordIs ==
    ASSUME RunInv, TaskInv, NEW t \in Tasks, status[t] # "done", NEW on
    PROVE  LET k == action[t]
               next == NextRecord(t, k, on)
           IN  /\ next \in 1 .. Len_(t) + 1 /\ next \in Nat
               /\ \/ next = k + 1 /\ (on => k + 1 \notin ignored[t])
                  \/ next = k + 2 /\ k + 1 \in ignored[t]
<1>1. action[t] \in 1 .. Len_(t) /\ action[t] \in Nat /\ Len_(t) \in Nat
  BY OpTyped, TraceTyped DEF RunInv
<1>2. action[t] + 1 \in ignored[t] => action[t] + 1 \in 1 .. Len_(t) - 1
  BY CallTyped DEF RunInv, TaskInv
<1> QED BY <1>1, <1>2 DEF NextRecord

\* What DEADLOCK_thread_finalized gives up.
WaitsFor(q, t) == {q[i].offset : i \in {j \in DOMAIN q : q[j].to = t /\ Blocks(q[j])}}

LEMMA WaitsForIs ==
    ASSUME NEW q, NEW t
    PROVE  WaitsFor(q, t) \subseteq Offsets(q)
  BY DEF WaitsFor, Offsets

LEMMA MoreActionsIs ==
    ASSUME NEW t \in Tasks, NEW g, NEW on, MoreActions(t, g, on)
    PROVE  LET next == NextRecord(t, action[t], on)
               fin == next > Len_(t)
               over == fin /\ on
           IN  /\ action' = [action EXCEPT ![t] = next]
               /\ status' = [status EXCEPT ![t] = IF fin THEN "done" ELSE "ready"]
               /\ ignored' = IF over THEN [u \in Tasks |-> ignored[u] \cup WaitsFor(g[u], t)]
                             ELSE ignored
               /\ rebooted' = (over /\ \E u \in Tasks : WaitsFor(g[u], t) # {})
               /\ pendent' = pendent
  BY DEF MoreActions, WaitsFor

LEMMA MoreActionsKeeps ==
    ASSUME RunInv, TaskInv, NEW t \in Tasks, status[t] # "done", NEW g, Rows(g),
           NEW on \in BOOLEAN, MoreActions(t, g, on), run' = run
    PROVE  TaskInv' /\ rebooted' \in BOOLEAN /\ pendent' = pendent
<1> DEFINE next == NextRecord(t, action[t], on)
           fin == next > Len_(t)
           over == fin /\ on
<1>1. /\ action' = [action EXCEPT ![t] = next]
      /\ status' = [status EXCEPT ![t] = IF fin THEN "done" ELSE "ready"]
      /\ ignored' = IF over THEN [u \in Tasks |-> ignored[u] \cup WaitsFor(g[u], t)]
                    ELSE ignored
      /\ rebooted' = (over /\ \E u \in Tasks : WaitsFor(g[u], t) # {})
      /\ pendent' = pendent
  BY MoreActionsIs
<1>2. next \in 1 .. Len_(t) + 1 /\ next \in Nat /\ Len_(t) \in Nat
  BY NextRecordIs, TraceTyped DEF RunInv
<1>3. fin <=> next = Len_(t) + 1
  BY <1>2
<1> HIDE DEF next, fin
<1>4. /\ action \in [Tasks -> Nat] /\ status \in [Tasks -> {"ready", "blocked", "done"}]
      /\ ignored \in [Tasks -> SUBSET Nat]
      /\ \A x \in Tasks : /\ action[x] \in 1 .. Len_(x) + 1
                          /\ status[x] = "done" <=> action[x] = Len_(x) + 1
                          /\ \A k \in ignored[x] : IsCall(x, k)
  BY DEF TaskInv
<1>5. /\ action' \in [Tasks -> Nat]
      /\ \A x \in Tasks : action'[x] = IF x = t THEN next ELSE action[x]
  BY <1>1, <1>2, <1>4
<1>6. /\ status' \in [Tasks -> {"ready", "blocked", "done"}]
      /\ \A x \in Tasks : status'[x] = IF x = t THEN IF fin THEN "done" ELSE "ready"
                                       ELSE status[x]
  BY <1>1, <1>4
<1>7. \A x \in Tasks : \A k \in WaitsFor(g[x], t) : IsCall(x, k) /\ k \in Nat
  <2> SUFFICES ASSUME NEW x \in Tasks, NEW k \in WaitsFor(g[x], t)
               PROVE  IsCall(x, k) /\ k \in Nat
    OBVIOUS
  <2>1. k \in Offsets(g[x])
    BY WaitsForIs
  <2>2. IsCall(x, k)
    BY <2>1 DEF Rows, Row, Offsets
  <2> QED BY <2>2, CallTyped DEF RunInv
<1>8. /\ ignored' \in [Tasks -> SUBSET Nat]
      /\ \A x \in Tasks : \A k \in ignored'[x] : IsCall(x, k)
  <2>1. CASE over
    <3>1. ignored' = [u \in Tasks |-> ignored[u] \cup WaitsFor(g[u], t)]
      BY <1>1, <2>1
    <3>2. \A x \in Tasks : ignored'[x] = ignored[x] \cup WaitsFor(g[x], t)
      BY <3>1
    <3>3. \A x \in Tasks : ignored[x] \cup WaitsFor(g[x], t) \in SUBSET Nat
      BY <1>4, <1>7
    <3> QED BY <1>4, <1>7, <3>1, <3>2, <3>3
  <2>2. CASE ~over
    BY <1>1, <1>4, <2>2
  <2> QED BY <2>1, <2>2
<1>9. \A x \in Tasks : /\ action'[x] \in 1 .. Len_(x) + 1
                       /\ status'[x] = "done" <=> action'[x] = Len_(x) + 1
  <2> SUFFICES ASSUME NEW x \in Tasks
               PROVE  /\ action'[x] \in 1 .. Len_(x) + 1
                      /\ status'[x] = "done" <=> action'[x] = Len_(x) + 1
    OBVIOUS
  <2>1. CASE x = t
    <3>1. action'[x] = next /\ status'[x] = IF fin THEN "done" ELSE "ready"
      BY <1>5, <1>6, <2>1
    <3> QED BY <1>2, <1>3, <2>1, <3>1
  <2>2. CASE x # t
    BY <1>4, <1>5, <1>6, <2>2
  <2> QED BY <2>1, <2>2
<1>10. TaskInv'
  BY <1>5, <1>6, <1>8, <1>9, TasksKept
<1>11. rebooted' \in BOOLEAN
  BY <1>1
<1> QED BY <1>1, <1>10, <1>11

-----------------------------------------------------------------------------
(* Each step keeps the invariant                                           *)

LEMMA RunKept ==
    ASSUME RunInv, run' = run, analysing' \in BOOLEAN, rebooted' \in BOOLEAN,
           ended' \in BOOLEAN, run.estats # NoEstats => pendent' \in [Tasks -> Counters]
    PROVE  RunInv'
  BY DEF RunInv

LEMMA EmptyGraph ==
    ASSUME NEW g, g = [t \in Tasks |-> <<>>]
    PROVE  Rows(g) /\ \A t \in Tasks : Cycles(g, t) = {} /\ Offsets(g[t]) = {}
<1>1. \A t \in Tasks : g[t] = <<>> /\ g[t] \in Seq(Arcs) /\ DOMAIN g[t] = {}
  OBVIOUS
<1>2. Rows(g)
  <2>1. g \in [Tasks -> Seq(Arcs)]
    BY <1>1
  <2> QED BY <1>1, <2>1 DEF Rows, Row
<1>3. ASSUME NEW t \in Tasks, NEW c \in Cycles(g, t) PROVE FALSE
  <2>1. PICK k \in 3 .. N + 1 : Way(g, t, c, k)
    BY CycleIs
  <2>2. N \in Nat /\ 1 \in 1 .. k - 1 /\ 1 \in 1 .. k
    BY TasksAssumption
  <2>3. c[1] \in Tasks /\ Arc(g, c[1], c[1 + 1])
    BY <2>1, <2>2 DEF Way
  <2> QED BY <1>1, <2>3 DEF Arc
<1>4. \A t \in Tasks : Offsets(g[t]) = {}
  BY <1>1 DEF Offsets
<1> QED BY <1>2, <1>3, <1>4

LEMMA InitHolds ==
    ASSUME Init
    PROVE  IInv
<1>1. RunInv
  <2>1. run \in Runs /\ pendent = run.estats
    BY DEF Init
  <2>2. run.estats = NoEstats \/ run.estats \in [Tasks -> Counters]
    BY <2>1, RunsAssumption
  <2>3. analysing = TRUE /\ rebooted = FALSE /\ ended = FALSE
    BY DEF Init
  <2> QED BY <2>1, <2>2, <2>3 DEF RunInv
<1>2. TaskInv
  <2>1. \A t \in Tasks : Len_(t) \in Nat /\ Len_(t) >= 1
    BY <1>1, TraceTyped DEF RunInv
  <2>2. \A t \in Tasks : action[t] = 1 /\ status[t] = "ready" /\ ignored[t] = {}
    BY DEF Init
  <2>3. /\ action \in [Tasks -> Nat] /\ status \in [Tasks -> {"ready", "blocked", "done"}]
        /\ ignored \in [Tasks -> SUBSET Nat]
    BY DEF Init
  <2> QED BY <2>1, <2>2, <2>3 DEF TaskInv
<1>3. graph = [t \in Tasks |-> <<>>] /\ chan = NoChan
  BY DEF Init
<1>4. Rows(graph) /\ \A t \in Tasks : Cycles(graph, t) = {}
  BY <1>3, EmptyGraph
<1>5. LinksInv
  BY <1>3 DEF Init, LinksInv, LinksOfTransfers, Moves, NoChan, Stages
<1>6. GraphAcyclic
  BY <1>4 DEF GraphAcyclic
<1> QED BY <1>1, <1>2, <1>4, <1>5, <1>6 DEF IInv

LEMMA StartTransferKeeps ==
    ASSUME IInv, NEW k \in Keys, StartTransfer(k)
    PROVE  IInv'
<1>1. /\ UNCHANGED <<run, action, status, graph, ignored, pendent, analysing, rebooted,
                     glops, ended>>
      /\ k[1] \notin busyOut /\ k[2] \notin busyIn /\ chan' = Count(k, "started")
      /\ busyOut' = busyOut \cup {k[1]} /\ busyIn' = busyIn \cup {k[2]}
  BY DEF StartTransfer
<1>2. /\ chan \in [Keys -> [Stages -> Nat]] /\ glops \in [Tasks -> Nat] /\ LinksInv
      /\ busyOut = {j[1] : j \in {l \in Keys : Moves(l)}}
      /\ busyIn = {j[2] : j \in {l \in Keys : Moves(l)}}
      /\ \A j \in Keys : /\ chan[j].delivered <= chan[j].started
                         /\ chan[j].started <= chan[j].delivered + 1
      /\ \A j, l \in Keys : Moves(j) /\ Moves(l) /\ (j[1] = l[1] \/ j[2] = l[2]) => j = l
  BY DEF IInv, LinksInv, LinksOfTransfers, Moves
<1>3. /\ chan' \in [Keys -> [Stages -> Nat]]
      /\ \A j \in Keys : /\ chan'[j].started = chan[j].started + (IF j = k THEN 1 ELSE 0)
                         /\ chan'[j].delivered = chan[j].delivered + 0
                         /\ chan[j].started \in Nat /\ chan[j].delivered \in Nat
  BY <1>1, <1>2, CountIs DEF Stages
<1>4. \A j \in Keys : Moves(j) => j[1] # k[1] /\ j[2] # k[2]
  BY <1>1, <1>2
<1>5. \A j \in Keys : chan'[j].started = IF j = k THEN chan[j].delivered + 1 ELSE chan[j].started
  BY <1>2, <1>3, <1>4 DEF Moves
<1>6. \A j \in Keys : Moves(j)' <=> Moves(j) \/ j = k
  BY <1>3, <1>5 DEF Moves
<1>7. LinksInv'
  <2>1. LinksOfTransfers'
    <3>1. busyOut' = {j[1] : j \in {l \in Keys : Moves(l)'}}
      BY <1>1, <1>2, <1>6
    <3>2. busyIn' = {j[2] : j \in {l \in Keys : Moves(l)'}}
      BY <1>1, <1>2, <1>6
    <3> QED BY <3>1, <3>2 DEF LinksOfTransfers, Moves
  <2>2. \A j \in Keys : /\ chan'[j].delivered <= chan'[j].started
                        /\ chan'[j].started <= chan'[j].delivered + 1
    BY <1>2, <1>3, <1>5
  <2>3. \A j, l \in Keys : Moves(j)' /\ Moves(l)' /\ (j[1] = l[1] \/ j[2] = l[2]) => j = l
    BY <1>2, <1>4, <1>6
  <2> QED BY <1>1, <1>2, <1>3, <2>1, <2>2, <2>3 DEF LinksInv
<1>8. RunInv' /\ TaskInv' /\ Rows(graph)' /\ GraphAcyclic'
  BY <1>1 DEF IInv, RunInv, TaskInv, Len_, IsCall, Rows, Row, GraphAcyclic
<1> QED BY <1>7, <1>8 DEF IInv

LEMMA EndTransferKeeps ==
    ASSUME IInv, NEW k \in Keys, EndTransfer(k)
    PROVE  IInv'
<1>1. /\ UNCHANGED <<run, action, status, graph, ignored, pendent, analysing, rebooted,
                     glops, ended>>
      /\ Moves(k) /\ chan' = Count(k, "delivered")
      /\ busyOut' = busyOut \ {k[1]} /\ busyIn' = busyIn \ {k[2]}
  BY DEF EndTransfer, Moves
<1>2. /\ chan \in [Keys -> [Stages -> Nat]] /\ glops \in [Tasks -> Nat] /\ LinksInv
      /\ busyOut = {j[1] : j \in {l \in Keys : Moves(l)}}
      /\ busyIn = {j[2] : j \in {l \in Keys : Moves(l)}}
      /\ \A j \in Keys : /\ chan[j].delivered <= chan[j].started
                         /\ chan[j].started <= chan[j].delivered + 1
      /\ \A j, l \in Keys : Moves(j) /\ Moves(l) /\ (j[1] = l[1] \/ j[2] = l[2]) => j = l
  BY DEF IInv, LinksInv, LinksOfTransfers, Moves
<1>3. /\ chan' \in [Keys -> [Stages -> Nat]]
      /\ \A j \in Keys : /\ chan'[j].started = chan[j].started + 0
                         /\ chan'[j].delivered = chan[j].delivered + (IF j = k THEN 1 ELSE 0)
                         /\ chan[j].started \in Nat /\ chan[j].delivered \in Nat
  BY <1>1, <1>2, CountIs DEF Stages
<1>4. \A j \in Keys : Moves(j) /\ (j[1] = k[1] \/ j[2] = k[2]) => j = k
  BY <1>1, <1>2
<1>5. \A j \in Keys : /\ chan'[j].started = chan[j].started
                      /\ chan'[j].delivered = IF j = k THEN chan[j].started
                                              ELSE chan[j].delivered
  BY <1>1, <1>2, <1>3 DEF Moves
<1>6. \A j \in Keys : Moves(j)' <=> Moves(j) /\ j # k
  BY <1>3, <1>5 DEF Moves
<1>7. LinksInv'
  <2>1. LinksOfTransfers'
    <3>1. busyOut' = {j[1] : j \in {l \in Keys : Moves(l)'}}
      BY <1>1, <1>2, <1>4, <1>6
    <3>2. busyIn' = {j[2] : j \in {l \in Keys : Moves(l)'}}
      BY <1>1, <1>2, <1>4, <1>6
    <3> QED BY <3>1, <3>2 DEF LinksOfTransfers, Moves
  <2>2. \A j \in Keys : /\ chan'[j].delivered <= chan'[j].started
                        /\ chan'[j].started <= chan'[j].delivered + 1
    BY <1>2, <1>3, <1>5
  <2>3. \A j, l \in Keys : Moves(j)' /\ Moves(l)' /\ (j[1] = l[1] \/ j[2] = l[2]) => j = l
    BY <1>2, <1>6
  <2> QED BY <1>1, <1>2, <1>3, <2>1, <2>2, <2>3 DEF LinksInv
<1>8. RunInv' /\ TaskInv' /\ Rows(graph)' /\ GraphAcyclic'
  BY <1>1 DEF IInv, RunInv, TaskInv, Len_, IsCall, Rows, Row, GraphAcyclic
<1> QED BY <1>7, <1>8 DEF IInv

\* The rest of RunInv when an operation of a task ends.
LEMMA EndOfOperation ==
    ASSUME RunInv, TaskInv, NEW t \in Tasks, status[t] # "done", NEW g, Rows(g),
           NEW on \in BOOLEAN, MoreActions(t, g, on), run' = run, ended' = ended,
           graph' = g, analysing' = on
    PROVE  RunInv' /\ TaskInv' /\ Rows(graph)'
<1>1. TaskInv' /\ rebooted' \in BOOLEAN /\ pendent' = pendent
  BY MoreActionsKeeps
<1>2. Rows(graph)'
  BY RowsKept
<1>3. RunInv'
  BY <1>1, RunKept DEF RunInv
<1> QED BY <1>1, <1>2, <1>3

LEMMA WorkKeeps ==
    ASSUME IInv, NEW t \in Tasks, Work(t)
    PROVE  IInv'
<1>1. /\ UNCHANGED <<run, graph, analysing, simVars, ended>>
      /\ MoreActions(t, graph, analysing) /\ status[t] = "ready" /\ ~rebooted
  BY DEF Work
<1>2. RunInv /\ TaskInv /\ Rows(graph) /\ LinksInv /\ analysing \in BOOLEAN
      /\ \A x \in Tasks : Cycles(graph, x) = {}
  BY <1>1 DEF IInv, RunInv, GraphAcyclic
<1>3. RunInv' /\ TaskInv' /\ Rows(graph)'
  BY <1>1, <1>2, EndOfOperation
<1>4. GraphAcyclic'
  BY <1>1, <1>2, AcyclicKept
<1>5. LinksInv'
  BY <1>1, <1>2, LinksKept DEF simVars, LinksInv
<1> QED BY <1>3, <1>4, <1>5 DEF IInv

LEMMA UnblockKeeps ==
    ASSUME IInv, NEW t \in Tasks, Unblock(t)
    PROVE  IInv'
<1>1. /\ UNCHANGED <<run, graph, analysing, glops, busyOut, busyIn, ended>>
      /\ MoreActions(t, graph, analysing) /\ status[t] = "blocked" /\ ~rebooted
      /\ chan' \in {chan, Count(Key(t), "done")}
  BY DEF Unblock
<1>2. RunInv /\ TaskInv /\ Rows(graph) /\ LinksInv /\ analysing \in BOOLEAN
      /\ \A x \in Tasks : Cycles(graph, x) = {}
  BY <1>1 DEF IInv, RunInv, GraphAcyclic
<1>3. RunInv' /\ TaskInv' /\ Rows(graph)'
  BY <1>1, <1>2, EndOfOperation
<1>4. GraphAcyclic'
  BY <1>1, <1>2, AcyclicKept
<1>5. LinksInv'
  <2>1. glops' \in [Tasks -> Nat]
    BY <1>1, <1>2 DEF LinksInv
  <2> QED BY <1>1, <1>2, <2>1, CountKeepsLinks
<1> QED BY <1>3, <1>4, <1>5 DEF IInv

LEMMA GoOnKeeps ==
    ASSUME RunInv, TaskInv, LinksInv, NEW t \in Tasks, status[t] = "ready",
           NEW g, Rows(g), \A x \in Tasks : Cycles(g, x) = {},
           rebooted = FALSE, NEW on \in BOOLEAN, GoOn(t, g, on)
    PROVE  IInv'
<1>1. /\ graph' = g /\ analysing' = on /\ Begin(t) /\ run' = run /\ ended' = ended
      /\ \/ MoreActions(t, g, on)
         \/ /\ status' = [status EXCEPT ![t] = "blocked"]
            /\ UNCHANGED <<action, ignored, pendent, rebooted>>
  BY DEF GoOn
<1>2. LinksInv'
  BY <1>1, BeginKeeps
<1>3. GraphAcyclic'
  BY <1>1, AcyclicKept
<1>4. RunInv' /\ TaskInv' /\ Rows(graph)'
  <2>1. CASE MoreActions(t, g, on)
    BY <1>1, <2>1, EndOfOperation
  <2>2. CASE /\ status' = [status EXCEPT ![t] = "blocked"]
             /\ UNCHANGED <<action, ignored, pendent, rebooted>>
    <3>1. RunInv'
      BY <1>1, <2>2, RunKept DEF RunInv
    <3>2. TaskInv'
      <4>1. /\ status \in [Tasks -> {"ready", "blocked", "done"}]
            /\ status' \in [Tasks -> {"ready", "blocked", "done"}]
            /\ \A x \in Tasks : status'[x] = "done" <=> status[x] = "done"
        BY <2>2 DEF TaskInv
      <4> QED BY <1>1, <2>2, <4>1, TasksKept DEF TaskInv
    <3>3. Rows(graph)'
      BY <1>1, RowsKept
    <3> QED BY <3>1, <3>2, <3>3
  <2> QED BY <1>1, <2>1, <2>2
<1> QED BY <1>2, <1>3, <1>4 DEF IInv

\* What the analyser does with the operation of t.
LEMMA AnalysisIs ==
    ASSUME IInv, ~rebooted, NEW t \in Tasks, status[t] = "ready", Op(t).action # WORK
    PROVE  LET r == NewCommunic(t)
           IN  /\ Rows(r.graph)
               /\ \A x \in Tasks : Offsets(r.graph[x]) \subseteq
                      Offsets(graph[x]) \cup (IF x = t THEN {action[t]} ELSE {})
               /\ ~(r.check /\ Cycles(r.graph, t) # {}) =>
                      \A x \in Tasks : Cycles(r.graph, x) = {}
<1> DEFINE r == NewCommunic(t)
<1>1. Calls(t)
  BY DEF IInv, Calls
<1>2. r.check \in BOOLEAN /\ Changes(t, IF r.check THEN {t} ELSE {}, graph, r.graph)
  BY <1>1, NewCommunicFits DEF Fits
<1> HIDE DEF r
<1>3. \A x \in Tasks : Cycles(graph, x) = {}
  BY DEF IInv, GraphAcyclic
<1>4. CASE r.check
  <2>1. \A x, y \in Tasks : Arc(r.graph, x, y) => Arc(graph, x, y) \/ x = t
    BY <1>2, <1>4 DEF Changes
  <2>2. Cycles(r.graph, t) = {} => \A x \in Tasks : Cycles(r.graph, x) = {}
    BY <1>3, <2>1, CycleThrough
  <2> QED BY <1>2, <1>4, <2>2 DEF Changes, r
<1>5. CASE ~r.check
  <2>1. \A x, y \in Tasks : Arc(r.graph, x, y) => Arc(graph, x, y)
    BY <1>2, <1>5 DEF Changes
  <2>2. \A x \in Tasks : Cycles(r.graph, x) = {}
    BY <1>3, <2>1, FewerArcs
  <2> QED BY <1>2, <2>2 DEF Changes, r
<1> QED BY <1>4, <1>5

\* The ways to begin an operation: without the analysis, with a cycle, without one.
LEMMA CommunicateIs ==
    ASSUME NEW t \in Tasks, Communicate(t)
    PROVE  /\ ~rebooted /\ status[t] = "ready" /\ Op(t).action # WORK
           /\ LET r == NewCommunic(t)
                  found == r.check /\ Cycles(r.graph, t) # {}
              IN \/ GoOn(t, graph, FALSE)
                 \/ /\ analysing /\ found /\ BreakChain(r.graph, DepChain(r.graph, t))
                    /\ graph' = r.graph
                    /\ UNCHANGED <<run, action, status, analysing, simVars, ended>>
                 \/ analysing /\ ~found /\ GoOn(t, r.graph, TRUE)
  BY DEF Communicate

LEMMA CommunicateKeeps ==
    ASSUME IInv, NEW t \in Tasks, Communicate(t)
    PROVE  IInv'
<1> DEFINE r == NewCommunic(t)
           found == r.check /\ Cycles(r.graph, t) # {}
<1>1. /\ ~rebooted /\ status[t] = "ready" /\ Op(t).action # WORK
      /\ \/ GoOn(t, graph, FALSE)
         \/ /\ analysing /\ found /\ BreakChain(r.graph, DepChain(r.graph, t))
            /\ graph' = r.graph
            /\ UNCHANGED <<run, action, status, analysing, simVars, ended>>
         \/ analysing /\ ~found /\ GoOn(t, r.graph, TRUE)
  BY CommunicateIs
<1>2. /\ RunInv /\ TaskInv /\ Rows(graph) /\ LinksInv /\ rebooted = FALSE
      /\ \A x \in Tasks : Cycles(graph, x) = {}
  BY <1>1 DEF IInv, RunInv, GraphAcyclic
<1>3. Rows(r.graph) /\ (~found => \A x \in Tasks : Cycles(r.graph, x) = {})
  BY <1>1, AnalysisIs
<1> HIDE DEF r
<1>4. CASE GoOn(t, graph, FALSE)
  BY <1>1, <1>2, <1>4, GoOnKeeps
<1>5. CASE ~found /\ GoOn(t, r.graph, TRUE)
  BY <1>1, <1>2, <1>3, <1>5, GoOnKeeps
<1>6. CASE /\ found /\ BreakChain(r.graph, DepChain(r.graph, t))
           /\ graph' = r.graph
           /\ UNCHANGED <<run, action, status, analysing, simVars, ended>>
  <2> DEFINE c == DepChain(r.graph, t)
  <2>1. c \in Cycles(r.graph, t)
    BY <1>6, ChainIs
  <2> HIDE DEF c
  <2>2. /\ \E x \in Tasks : \E o \in Offsets(r.graph[x]) :
               ignored' = [ignored EXCEPT ![x] = @ \cup {o}]
        /\ rebooted' = TRUE
        /\ run.estats # NoEstats => pendent' \in [Tasks -> Counters]
    BY <1>2, <1>3, <1>6, <2>1, BreakChainIs DEF c
  <2>3. RunInv'
    BY <1>2, <1>6, <2>2, RunKept DEF RunInv
  <2>4. TaskInv'
    <3>7. PICK x \in Tasks : \E o \in Offsets(r.graph[x]) :
                                 ignored' = [ignored EXCEPT ![x] = @ \cup {o}]
      BY <2>2
    <3>1. PICK o \in Offsets(r.graph[x]) : ignored' = [ignored EXCEPT ![x] = @ \cup {o}]
      BY <3>7
    <3>2. IsCall(x, o)
      BY <1>3, <3>1 DEF Rows, Row, Offsets
    <3>3. o \in Nat
      BY <1>2, <3>2, CallTyped DEF RunInv
    <3>4. /\ ignored \in [Tasks -> SUBSET Nat]
          /\ \A y \in Tasks : \A k \in ignored[y] : IsCall(y, k)
      BY <1>2 DEF TaskInv
    <3>5. /\ ignored' \in [Tasks -> SUBSET Nat]
          /\ \A y \in Tasks : ignored'[y] = IF y = x THEN ignored[x] \cup {o} ELSE ignored[y]
      BY <3>1, <3>3, <3>4
    <3>6. \A y \in Tasks : \A k \in ignored'[y] : IsCall(y, k)
      BY <3>2, <3>4, <3>5
    <3> QED BY <1>2, <1>6, <3>5, <3>6, TasksKept DEF TaskInv
  <2>5. Rows(graph)'
    BY <1>3, <1>6, RowsKept
  <2>6. LinksInv'
    BY <1>2, <1>6, LinksKept DEF simVars, LinksInv
  <2>7. GraphAcyclic'
    BY <2>2 DEF GraphAcyclic
  <2> QED BY <2>3, <2>4, <2>5, <2>6, <2>7 DEF IInv
<1> QED BY <1>1, <1>4, <1>5, <1>6

LEMMA RebootKeeps ==
    ASSUME IInv, Reboot
    PROVE  IInv'
<1>1. /\ UNCHANGED <<run, pendent, analysing, ended>>
      /\ \/ ResetState(ignored)
         \/ ResetState([t \in Tasks |-> ignored[t] \cup Pending(t)])
  BY DEF Reboot
<1>2. PICK ign : /\ ResetState(ign) /\ ign \in [Tasks -> SUBSET Nat]
                 /\ \A t \in Tasks : \A k \in ign[t] : IsCall(t, k)
  <2>1. /\ ignored \in [Tasks -> SUBSET Nat]
        /\ \A t \in Tasks : \A k \in ignored[t] : IsCall(t, k)
    BY DEF IInv, TaskInv
  <2>2. \A t \in Tasks : \A k \in Pending(t) : IsCall(t, k) /\ k \in Nat
    <3>1. \A t \in Tasks : \A k \in Pending(t) : IsCall(t, k)
      BY DEF IInv, Rows, Row, Pending
    <3> QED BY <3>1, CallTyped DEF IInv, RunInv
  <2> DEFINE more == [t \in Tasks |-> ignored[t] \cup Pending(t)]
  <2>3. more \in [Tasks -> SUBSET Nat] /\ \A t \in Tasks : more[t] = ignored[t] \cup Pending(t)
    BY <2>1, <2>2
  <2>4. \A t \in Tasks : \A k \in more[t] : IsCall(t, k)
    BY <2>1, <2>2, <2>3
  <2> HIDE DEF more
  <2>5. ResetState(ignored) \/ ResetState(more)
    BY <1>1 DEF more
  <2> QED BY <2>1, <2>3, <2>4, <2>5
<1>3. /\ action' = [t \in Tasks |-> IF 1 \in ign[t] THEN 2 ELSE 1]
      /\ status' = [t \in Tasks |-> "ready"]
      /\ graph' = [t \in Tasks |-> <<>>]
      /\ chan' = NoChan /\ glops' = [t \in Tasks |-> 0]
      /\ busyOut' = {} /\ busyIn' = {} /\ rebooted' = FALSE /\ ignored' = ign
  BY <1>2 DEF ResetState
<1>4. RunInv'
  BY <1>1, <1>3, RunKept DEF IInv, RunInv
<1>5. TaskInv'
  <2>1. ASSUME NEW t \in Tasks
        PROVE  action'[t] \in 1 .. Len_(t) /\ Len_(t) \in Nat
    <3>1. Len_(t) \in Nat /\ Len_(t) >= 1
      BY TraceTyped DEF IInv, RunInv
    <3>2. 1 \in ign[t] => 1 \in 1 .. Len_(t) - 1
      BY <1>2, CallTyped DEF IInv, RunInv
    <3> QED BY <1>3, <3>1, <3>2
  <2>2. /\ action' \in [Tasks -> Nat] /\ status' \in [Tasks -> {"ready", "blocked", "done"}]
        /\ \A t \in Tasks : status'[t] # "done"
    BY <1>3
  <2>3. \A t \in Tasks : action'[t] \in 1 .. Len_(t) + 1 /\ action'[t] # Len_(t) + 1
    BY <2>1
  <2> QED BY <1>1, <1>2, <1>3, <2>2, <2>3, TasksKept
<1> DEFINE e == [t \in Tasks |-> <<>>]
<1>6. Rows(e) /\ \A t \in Tasks : Cycles(e, t) = {}
  BY EmptyGraph
<1>7. Rows(graph)' /\ GraphAcyclic'
  <2> HIDE DEF e
  <2> QED BY <1>1, <1>3, <1>6, RowsKept, AcyclicKept DEF e
<1>8. LinksInv'
  BY <1>3 DEF LinksInv, LinksOfTransfers, Moves, NoChan, Stages
<1> QED BY <1>4, <1>5, <1>7, <1>8 DEF IInv

LEMMA EndKeeps ==
    ASSUME IInv, End \/ UNCHANGED vars
    PROVE  IInv'
<1>1. /\ UNCHANGED <<run, action, status, graph, ignored, pendent, analysing, rebooted,
                     simVars>>
      /\ ended' \in BOOLEAN
  BY DEF End, vars, IInv, RunInv
<1> QED
  BY <1>1 DEF IInv, RunInv, TaskInv, Len_, IsCall, Rows, Row, GraphAcyclic, LinksInv,
              LinksOfTransfers, Moves, simVars

LEMMA StepKeeps ==
    ASSUME IInv, [Next]_vars
    PROVE  IInv'
<1>1. ASSUME NEW t \in Tasks, Work(t) PROVE IInv'
  BY <1>1, WorkKeeps
<1>2. ASSUME NEW t \in Tasks, Communicate(t) PROVE IInv'
  BY <1>2, CommunicateKeeps
<1>3. ASSUME NEW t \in Tasks, Unblock(t) PROVE IInv'
  BY <1>3, UnblockKeeps
<1>4. ASSUME NEW k \in Keys, StartTransfer(k) PROVE IInv'
  BY <1>4, StartTransferKeeps
<1>5. ASSUME NEW k \in Keys, EndTransfer(k) PROVE IInv'
  BY <1>5, EndTransferKeeps
<1>6. ASSUME Reboot PROVE IInv'
  BY <1>6, RebootKeeps
<1>7. ASSUME End \/ UNCHANGED vars PROVE IInv'
  BY <1>7, EndKeeps
<1> QED BY <1>1, <1>2, <1>3, <1>4, <1>5, <1>6, <1>7 DEF Next

\* The invariant of the analyser, its graph and the simulator under it holds after
\* every step, restarts included.
THEOREM Invariant == Spec => []IInv
<1>1. IInv /\ [Next]_vars => IInv'
  BY StepKeeps
<1> QED BY <1>1, InitHolds, PTL DEF Spec

\* The graph never has a cycle between handlers, so that the search, which marks
\* nothing as visited, always comes to an end; only calls of the trace are ignored;
\* and a link is taken when a transfer uses it: after any number of restarts.
THEOREM Sound == Spec => []GraphSound
<1>1. IInv => GraphSound
  <2> SUFFICES ASSUME IInv PROVE GraphSound
    OBVIOUS
  <2>1. RunInv /\ TaskInv /\ Rows(graph) /\ LinksInv /\ GraphAcyclic
    BY DEF IInv
  <2>2. \A t \in Tasks : \A i \in DOMAIN graph[t] :
            /\ graph[t][i].to \in Tasks \ {t}
            /\ graph[t][i].type \in {"STRG", "SOFT", "GLOP"}
            /\ i > 1 => graph[t][i - 1].to <= graph[t][i].to
    <3> SUFFICES ASSUME NEW t \in Tasks, NEW i \in DOMAIN graph[t]
                 PROVE  /\ graph[t][i].to \in Tasks \ {t}
                        /\ graph[t][i].type \in {"STRG", "SOFT", "GLOP"}
                        /\ i > 1 => graph[t][i - 1].to <= graph[t][i].to
      OBVIOUS
    <3>1. /\ graph[t] \in Seq(Arcs) /\ graph[t][i].to # t
          /\ \A j, k \in DOMAIN graph[t] : j <= k => graph[t][j].to <= graph[t][k].to
      BY <2>1 DEF Rows, Row
    <3>2. graph[t][i] \in Arcs /\ i \in Nat /\ (i > 1 => i - 1 \in DOMAIN graph[t])
      BY <3>1
    <3>3. graph[t][i].to \in Tasks /\ graph[t][i].type \in {"STRG", "SOFT", "GLOP"}
      BY <3>2 DEF Arcs
    <3>4. i > 1 => graph[t][i - 1].to <= graph[t][i].to
      BY <3>1, <3>2
    <3> QED BY <3>1, <3>3, <3>4
  <2>3. \A t \in Tasks : action[t] \in 1 .. Len_(t) + 1 /\ ignored[t] \subseteq 1 .. Len_(t)
    BY <2>1 DEF TaskInv, IsCall
  <2>4. /\ chan \in [Keys -> [Stages -> Nat]] /\ glops \in [Tasks -> Nat] /\ LinksOfTransfers
        /\ busyOut \subseteq Tasks /\ busyIn \subseteq Tasks
    <3>1. \A k \in Keys : k[1] \in Tasks /\ k[2] \in Tasks
      BY DEF Keys
    <3> QED BY <2>1, <3>1 DEF LinksInv, LinksOfTransfers
  <2> QED BY <2>1, <2>2, <2>3, <2>4 DEF RunInv, TaskInv, TypeOK, GraphSound
<1> QED BY <1>1, Invariant, PTL

-----------------------------------------------------------------------------
(* No restart repeats an earlier one                                       *)

\* Two records to be ignored never follow each other.
LEMMA NextIsFresh ==
    ASSUME BurstsBetween, RunInv, TaskInv, NEW t \in Tasks, NEW k \in ignored[t]
    PROVE  k + 1 \notin ignored[t]
<1>1. /\ IsCall(t, k) /\ \A j \in ignored[t] : IsCall(t, j)
      /\ run \in Runs
  BY DEF TaskInv, RunInv
<1>2. k \in 1 .. Len_(t) - 1 /\ run.ops[t][k].action # WORK
  BY <1>1, CallTyped DEF IsCall
<1>3. run.ops[t][k + 1].action = WORK
  BY <1>1, <1>2 DEF BurstsBetween, Len_
<1> QED BY <1>1, <1>3 DEF IsCall

\* The end of an operation with a graph that has nothing to be ignored.
LEMMA EndIsFresh ==
    ASSUME BurstsBetween, RunInv, TaskInv, NEW t \in Tasks, status[t] # "done", NEW g,
           NEW on \in BOOLEAN, \A x \in Tasks : on => action[x] \notin ignored[x],
           \A x \in Tasks : Offsets(g[x]) \cap ignored[x] = {}, MoreActions(t, g, on),
           graph' = g, analysing' = on
    PROVE  FreshInv' /\ (rebooted' => ignored' # ignored)
<1> DEFINE next == NextRecord(t, action[t], on)
           over == next > Len_(t) /\ on
<1>1. /\ action' = [action EXCEPT ![t] = next]
      /\ ignored' = IF over THEN [u \in Tasks |-> ignored[u] \cup WaitsFor(g[u], t)]
                    ELSE ignored
      /\ rebooted' = (over /\ \E u \in Tasks : WaitsFor(g[u], t) # {})
  BY MoreActionsIs
<1>2. /\ action \in [Tasks -> Nat] /\ ignored \in [Tasks -> SUBSET Nat]
      /\ action[t] \in Nat
  BY DEF TaskInv
<1>3. on => next \notin ignored[t]
  <2> SUFFICES ASSUME on PROVE next \notin ignored[t]
    OBVIOUS
  <2>1. \/ next = action[t] + 1 /\ action[t] + 1 \notin ignored[t]
        \/ next = action[t] + 2 /\ action[t] + 1 \in ignored[t]
    BY NextRecordIs
  <2>2. action[t] + 1 \in ignored[t] => (action[t] + 1) + 1 \notin ignored[t]
    BY NextIsFresh
  <2>3. (action[t] + 1) + 1 = action[t] + 2
    BY <1>2
  <2> HIDE DEF next
  <2> QED BY <2>1, <2>2, <2>3
<1>4. \A u \in Tasks : WaitsFor(g[u], t) \cap ignored[u] = {}
  BY WaitsForIs
<1> HIDE DEF next, over
<1>5. CASE rebooted'
  <2>1. PICK u \in Tasks : WaitsFor(g[u], t) # {}
    BY <1>1, <1>5
  <2>2. ignored'[u] = ignored[u] \cup WaitsFor(g[u], t)
    BY <1>1, <1>5, <2>1
  <2> QED BY <1>4, <1>5, <2>1, <2>2 DEF FreshInv
<1>6. CASE ~rebooted'
  <2>1. ignored' = ignored
    <3>1. CASE over
      <4>1. \A u \in Tasks : WaitsFor(g[u], t) = {}
        BY <1>1, <1>6, <3>1
      <4>2. ignored' = [u \in Tasks |-> ignored[u]]
        BY <1>1, <3>1, <4>1
      <4> QED BY <1>2, <4>2
    <3>2. CASE ~over
      BY <1>1, <3>2
    <3> QED BY <3>1, <3>2
  <2>2. \A x \in Tasks : action'[x] = IF x = t THEN next ELSE action[x]
    BY <1>1, <1>2
  <2>3. \A x \in Tasks : on => action'[x] \notin ignored'[x]
    BY <1>3, <2>1, <2>2
  <2>4. \A x \in Tasks : Offsets(graph'[x]) \cap ignored'[x] = {}
    BY <2>1
  <2>5. FreshInv'
    BY <2>3, <2>4 DEF FreshInv, Offsets
  <2> QED BY <1>6, <2>5
<1> QED BY <1>5, <1>6

LEMMA GoOnIsFresh ==
    ASSUME BurstsBetween, RunInv, TaskInv, NEW t \in Tasks, status[t] = "ready", ~rebooted,
           NEW g, NEW on \in BOOLEAN, \A x \in Tasks : on => action[x] \notin ignored[x],
           \A x \in Tasks : Offsets(g[x]) \cap ignored[x] = {}, GoOn(t, g, on)
    PROVE  FreshInv' /\ (rebooted' => ignored' # ignored)
<1>1. /\ graph' = g /\ analysing' = on
      /\ MoreActions(t, g, on) \/ UNCHANGED <<action, ignored, pendent, rebooted>>
  BY DEF GoOn
<1>2. CASE MoreActions(t, g, on)
  BY <1>1, <1>2, EndIsFresh
<1>3. CASE UNCHANGED <<action, ignored, pendent, rebooted>>
  <2>1. FreshInv'
    BY <1>1, <1>3 DEF FreshInv, Offsets
  <2> QED BY <1>3, <2>1
<1> QED BY <1>1, <1>2, <1>3

LEMMA CommunicateIsFresh ==
    ASSUME BurstsBetween, IInv, FreshInv, NEW t \in Tasks, Communicate(t)
    PROVE  FreshInv' /\ (rebooted' => ignored' # ignored)
<1> DEFINE r == NewCommunic(t)
           found == r.check /\ Cycles(r.graph, t) # {}
<1>1. /\ ~rebooted /\ status[t] = "ready" /\ Op(t).action # WORK
      /\ \/ GoOn(t, graph, FALSE)
         \/ /\ analysing /\ found /\ BreakChain(r.graph, DepChain(r.graph, t))
            /\ graph' = r.graph
            /\ UNCHANGED <<run, action, status, analysing, simVars, ended>>
         \/ analysing /\ ~found /\ GoOn(t, r.graph, TRUE)
  BY CommunicateIs
<1>2. /\ RunInv /\ TaskInv
      /\ \A x \in Tasks : analysing => action[x] \notin ignored[x]
      /\ \A x \in Tasks : Offsets(graph[x]) \cap ignored[x] = {}
  BY <1>1 DEF IInv, FreshInv
<1>3. /\ Rows(r.graph)
      /\ \A x \in Tasks : Offsets(r.graph[x]) \subseteq
             Offsets(graph[x]) \cup (IF x = t THEN {action[t]} ELSE {})
  BY <1>1, AnalysisIs
<1> HIDE DEF r
<1>4. analysing => \A x \in Tasks : Offsets(r.graph[x]) \cap ignored[x] = {}
  BY <1>2, <1>3
<1>5. CASE GoOn(t, graph, FALSE)
  BY <1>1, <1>2, <1>5, GoOnIsFresh
<1>6. CASE analysing /\ GoOn(t, r.graph, TRUE)
  BY <1>1, <1>2, <1>4, <1>6, GoOnIsFresh
<1>7. CASE analysing /\ found /\ BreakChain(r.graph, DepChain(r.graph, t))
  <2>1. DepChain(r.graph, t) \in Cycles(r.graph, t)
    BY <1>7, ChainIs
  <2>2. /\ \E x \in Tasks : \E o \in Offsets(r.graph[x]) :
               ignored' = [ignored EXCEPT ![x] = @ \cup {o}]
        /\ rebooted' = TRUE
    BY <1>2, <1>3, <1>7, <2>1, BreakChainIs
  <2>3. PICK x \in Tasks : \E o \in Offsets(r.graph[x]) :
                               ignored' = [ignored EXCEPT ![x] = @ \cup {o}]
    BY <2>2
  <2>4. PICK o \in Offsets(r.graph[x]) : ignored' = [ignored EXCEPT ![x] = @ \cup {o}]
    BY <2>3
  <2>5. o \notin ignored[x]
    BY <1>4, <1>7, <2>4
  <2>6. o \in ignored'[x]
    BY <1>2, <2>4 DEF TaskInv
  <2> QED BY <2>2, <2>5, <2>6 DEF FreshInv
<1> QED BY <1>1, <1>5, <1>6, <1>7

LEMMA RebootIsFresh ==
    ASSUME BurstsBetween, IInv, FreshInv, Reboot
    PROVE  FreshInv' /\ (~rebooted => ignored' # ignored)
<1>1. PICK ign : /\ ResetState(ign)
                 /\ \/ rebooted /\ ign = ignored
                    \/ /\ ~rebooted /\ CheckEnd
                       /\ ign = [t \in Tasks |-> ignored[t] \cup Pending(t)]
  BY DEF Reboot
<1>2. /\ action' = [t \in Tasks |-> IF 1 \in ign[t] THEN 2 ELSE 1]
      /\ graph' = [t \in Tasks |-> <<>>]
      /\ ignored' = ign /\ run' = run
  BY <1>1 DEF ResetState, Reboot
<1>3. RunInv' /\ TaskInv'
  BY RebootKeeps DEF IInv
<1>4. \A t \in Tasks : action'[t] \notin ignored'[t]
  <2> SUFFICES ASSUME NEW t \in Tasks, action'[t] \in ignored'[t] PROVE FALSE
    OBVIOUS
  <2>1. 1 \in ignored'[t] /\ 2 \in ignored'[t]
    BY <1>2
  <2>2. \A k \in ignored'[t] : IsCall(t, k)
    BY <1>2, <1>3 DEF TaskInv, IsCall, Len_
  <2>3. run \in Runs /\ 1 \in 1 .. Len_(t) - 1 /\ run.ops[t][1].action # WORK
        /\ run.ops[t][1 + 1].action # WORK
    <3>1. 1 + 1 = 2 /\ IsCall(t, 1) /\ IsCall(t, 2)
      BY <2>1, <2>2
    <3> QED BY <3>1, CallTyped DEF IsCall, IInv, RunInv
  <2> QED BY <2>3 DEF BurstsBetween, Len_
<1>5. \A t \in Tasks : Offsets(graph'[t]) = {}
  BY <1>2, EmptyGraph
<1>6. FreshInv'
  BY <1>4, <1>5 DEF FreshInv, Offsets
<1>7. ASSUME ~rebooted PROVE ignored' # ignored
  <2>1. PICK t \in Tasks : Pending(t) # {}
    BY <1>1, <1>7 DEF CheckEnd
  <2>2. ignored'[t] = ignored[t] \cup Pending(t)
    BY <1>1, <1>2, <1>7
  <2>3. Pending(t) \cap ignored[t] = {}
    BY <1>7 DEF FreshInv, Pending, Offsets
  <2> QED BY <2>1, <2>2, <2>3
<1> QED BY <1>6, <1>7

LEMMA StepIsFresh ==
    ASSUME BurstsBetween, IInv, FreshInv, [Next]_vars
    PROVE  FreshInv' /\ [~rebooted /\ (rebooted' \/ Reboot) => ignored' # ignored]_vars
<1> DEFINE Differ == ~rebooted /\ (rebooted' \/ Reboot) => ignored' # ignored
<1>1. ASSUME NEW t \in Tasks, NEW on \in BOOLEAN, on = analysing, status[t] # "done", ~rebooted,
             graph' = graph, analysing' = analysing, MoreActions(t, graph, on)
      PROVE  FreshInv' /\ (rebooted' => ignored' # ignored)
  <2>1. /\ RunInv /\ TaskInv
        /\ \A x \in Tasks : on => action[x] \notin ignored[x]
        /\ \A x \in Tasks : Offsets(graph[x]) \cap ignored[x] = {}
    BY <1>1 DEF IInv, FreshInv
  <2> QED BY <1>1, <2>1, EndIsFresh
<1>2. Reboot => FreshInv' /\ (~rebooted => ignored' # ignored)
  BY RebootIsFresh
<1>3. analysing \in BOOLEAN
  BY DEF IInv, RunInv
<1>4. ASSUME NEW t \in Tasks, Work(t) PROVE FreshInv' /\ Differ
  <2>1. FreshInv' /\ (rebooted' => ignored' # ignored)
    BY <1>1, <1>3, <1>4 DEF Work
  <2> QED BY <1>2, <2>1
<1>5. ASSUME NEW t \in Tasks, Unblock(t) PROVE FreshInv' /\ Differ
  <2>1. FreshInv' /\ (rebooted' => ignored' # ignored)
    BY <1>1, <1>3, <1>5 DEF Unblock
  <2> QED BY <1>2, <2>1
<1>6. ASSUME NEW t \in Tasks, Communicate(t) PROVE FreshInv' /\ Differ
  <2>1. FreshInv' /\ (rebooted' => ignored' # ignored)
    BY <1>6, CommunicateIsFresh
  <2> QED BY <1>2, <2>1
<1>7. ASSUME Reboot PROVE FreshInv' /\ Differ
  BY <1>2, <1>7
<1>8. ASSUME UNCHANGED <<action, graph, ignored, analysing, rebooted>>
      PROVE  FreshInv' /\ Differ
  <2>1. FreshInv'
    BY <1>8 DEF FreshInv, Offsets
  <2> QED BY <1>2, <1>8, <2>1
<1>9. ASSUME NEW k \in Keys, StartTransfer(k) \/ EndTransfer(k) PROVE FreshInv' /\ Differ
  BY <1>8, <1>9 DEF StartTransfer, EndTransfer
<1>10. ASSUME End \/ UNCHANGED vars PROVE FreshInv' /\ Differ
  BY <1>8, <1>10 DEF End, vars
<1>11. FreshInv' /\ Differ
  <2> HIDE DEF Differ
  <2> QED BY <1>4, <1>5, <1>6, <1>7, <1>9, <1>10 DEF Next
<1> QED BY <1>11

\* With a burst between the calls of a task, a restart always ignores something
\* that no restart before it did, and deadlocks are not met again for ever.  It
\* is not so for calls that follow each other: DAP_read_action skips one record.
THEOREM Restarts == ASSUME BurstsBetween PROVE Spec => RestartsDiffer
<1>1. Init => FreshInv
  <2> SUFFICES ASSUME Init PROVE FreshInv
    OBVIOUS
  <2>1. \A t \in Tasks : ignored[t] = {}
    BY DEF Init
  <2> QED BY <2>1 DEF FreshInv
<1>2. IInv /\ FreshInv /\ [Next]_vars =>
          FreshInv' /\ [~rebooted /\ (rebooted' \/ Reboot) => ignored' # ignored]_vars
  BY StepIsFresh
<1> QED BY <1>1, <1>2, Invariant, PTL DEF Spec, RestartsDiffer
=============================================================================
