-------------------------------- MODULE Queue --------------------------------
(***************************************************************************)
(* What the queues of Simulator/utils/list.c promise to their callers: a   *)
(* sequence with one cursor, on which for-loops over head_queue and        *)
(* next_queue stand.  A caller may insert and extract while it walks: the  *)
(* cursor stays with its element, and passes to the one before it when     *)
(* that element is extracted, so that the walk goes on behind it.          *)
(***************************************************************************)
EXTENDS Integers, Sequences, SequencesExt, FiniteSets

CONSTANTS
    Queues, Contents, Prios, Unset,
    Keyed    \* queues whose elements have priorities

VARIABLES
    items,   \* items[q]: elements of q, with their priorities
    at,      \* at[q]: position of the cursor, 0 when a walk is over
    lost     \* queues whose current element was taken off the front or the back

vars == <<items, at, lost>>

Init == /\ items = [q \in Queues |-> <<>>]
        /\ at = [q \in Queues |-> 0]
        /\ lost = {}

Insert(q, p, e) ==
    /\ items' = [items EXCEPT ![q] = InsertAt(@, p, e)]
    /\ at' = [at EXCEPT ![q] = IF p <= @ THEN @ + 1 ELSE @]
    /\ UNCHANGED lost

PutFirst(q, c) == Insert(q, 1, [content |-> c, prio |-> Unset])
PutLast(q, c) == Insert(q, Len(items[q]) + 1, [content |-> c, prio |-> Unset])

\* Elements of the same priority are kept in the order of their arrival...
After(q, c, p) ==
    Insert(q, 1 + Cardinality({i \in DOMAIN items[q] : items[q][i].prio <= p}),
           [content |-> c, prio |-> p])
\* ...or in the opposite one.
Before(q, c, p) ==
    Insert(q, 1 + Cardinality({i \in DOMAIN items[q] : items[q][i].prio < p}),
           [content |-> c, prio |-> p])

\* Taking the current element off an end leaves the cursor nowhere.
Take(q, p) ==
    /\ p \in DOMAIN items[q]
    /\ items' = [items EXCEPT ![q] = RemoveAt(@, p)]
    /\ at' = [at EXCEPT ![q] = IF p = @ THEN 0 ELSE IF p < @ THEN @ - 1 ELSE @]
    /\ lost' = IF p = at[q] THEN lost \cup {q} ELSE lost

TakeFirst(q) == Take(q, 1)
TakeLast(q) == Take(q, Len(items[q]))

Extract(q, c) ==
    \E p \in DOMAIN items[q] :
      /\ items[q][p].content = c
      /\ \A r \in 1 .. p - 1 : items[q][r].content # c
      /\ items' = [items EXCEPT ![q] = RemoveAt(@, p)]
      /\ at' = [at EXCEPT ![q] = IF p <= @ THEN @ - 1 ELSE @]
      /\ UNCHANGED lost

Place(q, p) == /\ at' = [at EXCEPT ![q] = p]
               /\ lost' = lost \ {q}
               /\ UNCHANGED items

ToFirst(q) == Place(q, IF items[q] = <<>> THEN 0 ELSE 1)
ToLast(q) == Place(q, Len(items[q]))
ToNext(q) == /\ at[q] # 0
             /\ Place(q, IF at[q] = Len(items[q]) THEN 0 ELSE at[q] + 1)

Clear(q) == /\ items' = [items EXCEPT ![q] = <<>>]
            /\ at' = [at EXCEPT ![q] = 0]
            /\ lost' = lost \ {q}

\* The priorities of moved elements are lost.
Move(q, r) ==
    /\ q # r /\ q \notin Keyed
    /\ items' = [items EXCEPT
                   ![q] = <<>>,
                   ![r] = @ \o [i \in DOMAIN items[q] |->
                                  [content |-> items[q][i].content, prio |-> Unset]]]
    /\ at' = [at EXCEPT ![q] = 0]
    /\ lost' = IF at[q] = 0 THEN lost ELSE lost \cup {q}

Next ==
    \E q \in Queues :
      \/ q \notin Keyed /\ \E c \in Contents : PutFirst(q, c) \/ PutLast(q, c)
      \/ q \in Keyed /\ \E c \in Contents, p \in Prios : After(q, c, p) \/ Before(q, c, p)
      \/ \E c \in Contents : Extract(q, c)
      \/ TakeFirst(q) \/ TakeLast(q) \/ ToFirst(q) \/ ToLast(q) \/ ToNext(q) \/ Clear(q)
      \/ \E r \in Queues \ Keyed : Move(q, r)

Spec == Init /\ [][Next]_vars
=============================================================================
