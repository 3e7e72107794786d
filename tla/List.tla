-------------------------------- MODULE List ---------------------------------
(***************************************************************************)
(* The queues of Simulator/utils/list.c: doubly linked cells in the heap,  *)
(* with one cursor in the header that all walks over a queue share.        *)
(*                                                                         *)
(* A queue is plain (inFIFO_queue, inLIFO_queue: messages, links, CPUs) or *)
(* sorted (insert_queue and its variants, insert_event: ready queues,      *)
(* events, tables).  Several cells may hold the same content.  prev_queue  *)
(* is left out: nothing calls it.                                          *)
(***************************************************************************)
EXTENDS Integers, Sequences, SequencesExt, FiniteSets

CONSTANTS
    Plain, Sorted,   \* the queues, by how they are used
    Contents,
    Prios,           \* also times of events
    Cells,           \* what malloc may return
    Nil, Unset       \* NULL; a priority never written

Queues == Plain \cup Sorted

ASSUME QueuesAssumption ==
    /\ Plain \cap Sorted = {}
    /\ IsFiniteSet(Cells) /\ Nil \notin Cells
    /\ Prios \subseteq Nat /\ Unset \notin Prios

VARIABLES
    header,   \* struct t_queue of each queue
    mem,      \* struct t_item of each cell, and whether it is allocated
    lost      \* queues whose curr points to a freed cell

vars == <<header, mem, lost>>

Pointer == Cells \cup {Nil}
Header == [first : Pointer, last : Pointer, curr : Pointer, count : Nat]
Item == [content : Contents \cup {Nil}, prio : Prios \cup {Unset},
         next : Pointer, prev : Pointer, live : BOOLEAN]
\* A cell that is not allocated; nothing reads what free leaves in it.
Free == [content |-> Nil, prio |-> Unset, next |-> Nil, prev |-> Nil, live |-> FALSE]

------------------------------------------------------------------------------
(* Walks over the cells, as the loops of the code make them.               *)

\* The cells that a walk comes to from c; a cycle is cut where it has surely
\* shown.
Walk(next, c) ==
    LET cell[n \in 1 .. Cardinality(Cells) + 1] ==
          IF n = 1 THEN c ELSE next[cell[n - 1]]
    IN  [n \in 1 .. Cardinality({k \in DOMAIN cell : cell[k] # Nil}) |-> cell[n]]

From(m, c) == Walk([x \in Pointer |-> IF x = Nil THEN Nil ELSE m[x].next], c)
Back(m, c) == Walk([x \in Pointer |-> IF x = Nil THEN Nil ELSE m[x].prev], c)

Chain(q) == From(mem, header[q].first)
On(q) == ToSet(Chain(q))

\* The last cell that a walk passes and the one it stops at, the first of Ends.
Passed(s, Ends) ==
    LET stops == {i \in DOMAIN s : s[i] \in Ends}
        k == IF stops = {} THEN Len(s) + 1 ELSE CHOOSE i \in stops : \A j \in stops : i <= j
    IN  [passed |-> IF k = 1 THEN Nil ELSE s[k - 1],
         stop |-> IF k > Len(s) THEN Nil ELSE s[k]]

------------------------------------------------------------------------------
(* Linking and unlinking; h and m are headers and cells, as they change.   *)

\* Mutant: the cell behind the new one keeps its prev.
LinkCellOneWay(h, m, q, cell, e, before, after) ==
    [header |-> [h EXCEPT ![q].first = IF before = Nil THEN cell ELSE @,
                          ![q].last = IF after = Nil THEN cell ELSE @,
                          ![q].count = @ + 1],
     mem |-> [c \in Cells |->
                CASE c = cell -> [content |-> e.content, prio |-> e.prio,
                                  next |-> after, prev |-> before, live |-> TRUE]
                  [] c = before -> [m[c] EXCEPT !.next = cell]
                  [] OTHER -> m[c]]]

\* The header of q and its cells with a new cell between two neighbours.
LinkCell(h, m, q, cell, e, before, after) ==
    [header |-> [h EXCEPT ![q].first = IF before = Nil THEN cell ELSE @,
                          ![q].last = IF after = Nil THEN cell ELSE @,
                          ![q].count = @ + 1],
     mem |-> [c \in Cells |->
                CASE c = cell -> [content |-> e.content, prio |-> e.prio,
                                  next |-> after, prev |-> before, live |-> TRUE]
                  [] c = before -> [m[c] EXCEPT !.next = cell]
                  [] c = after -> [m[c] EXCEPT !.prev = cell]
                  [] OTHER -> m[c]]]

\* A cell is taken out from between its neighbours and freed.
UnlinkCell(h, m, q, cell, before, after) ==
    [header |-> [h EXCEPT ![q].first = IF before = Nil THEN after ELSE @,
                          ![q].last = IF @ = cell THEN before ELSE @,
                          ![q].count = @ - 1],
     mem |-> [c \in Cells |->
                CASE c = cell -> Free
                  [] c = before -> [m[c] EXCEPT !.next = after]
                  [] c = after -> [m[c] EXCEPT !.prev = before]
                  [] OTHER -> m[c]]]

Becomes(s) == header' = s.header /\ mem' = s.mem

Insert(q, e, before, after) ==
    /\ \E cell \in {c \in Cells : ~mem[c].live} :
          Becomes(LinkCell(header, mem, q, cell, e, before, after))
    /\ UNCHANGED lost

------------------------------------------------------------------------------
(* Operations.                                                             *)

inFIFO_queue(q, c) ==
    /\ q \in Plain
    /\ Insert(q, [content |-> c, prio |-> Unset], header[q].last, Nil)

inLIFO_queue(q, c) ==
    /\ q \in Plain
    /\ Insert(q, [content |-> c, prio |-> Unset], Nil, header[q].first)

\* insert_queue and insert_event: behind those of the same priority.
insert_queue(q, c, p) ==
    /\ q \in Sorted
    /\ \E w \in {Passed(Chain(q), {x \in On(q) : mem[x].prio > p})} :
          Insert(q, [content |-> c, prio |-> p], w.passed, w.stop)

\* The same place, searched from the other end.
insert_queue_from_back(q, c, p) ==
    /\ q \in Sorted
    /\ \E w \in {Passed(Back(mem, header[q].last), {x \in On(q) : mem[x].prio <= p})} :
          Insert(q, [content |-> c, prio |-> p], w.stop, w.passed)

insert_first_queue(q, c, p) ==
    /\ q \in Sorted
    /\ \E w \in {Passed(Chain(q), {x \in On(q) : mem[x].prio >= p})} :
          Insert(q, [content |-> c, prio |-> p], w.passed, w.stop)

\* Neither outFIFO_queue, outLIFO_queue nor outFIFO_event looks at curr.
LosesCursor(q, cell) == lost' = IF header[q].curr = cell THEN lost \cup {q} ELSE lost

outFIFO_queue(q) ==
    /\ header[q].first # Nil
    /\ \E e \in {header[q].first} :
          /\ Becomes(UnlinkCell(header, mem, q, e, Nil, mem[e].next))
          /\ LosesCursor(q, e)

outLIFO_queue(q) ==
    /\ header[q].last # Nil
    /\ \E e \in {header[q].last} :
          /\ Becomes(UnlinkCell(header, mem, q, e, mem[e].prev, Nil))
          /\ LosesCursor(q, e)

\* Mutant: the cursor moves on to the next cell.
ExtractMovesOn(q, c) ==
    /\ \E w \in {Passed(Chain(q), {x \in On(q) : mem[x].content = c})} :
          /\ w.stop # Nil
          /\ \E s \in {UnlinkCell(header, mem, q, w.stop, w.passed, mem[w.stop].next)} :
                Becomes([s EXCEPT !.header[q].curr =
                                    IF @ = w.stop THEN mem[w.stop].next ELSE @])
    /\ UNCHANGED lost

\* The first cell with the content goes, and a cursor on it moves to the one
\* before.  The program panics when there is none.
extract_from_queue(q, c) ==
    /\ \E w \in {Passed(Chain(q), {x \in On(q) : mem[x].content = c})} :
          /\ w.stop # Nil
          /\ \E s \in {UnlinkCell(header, mem, q, w.stop, w.passed, mem[w.stop].next)} :
                Becomes([s EXCEPT !.header[q].curr = IF @ = w.stop THEN w.passed ELSE @])
    /\ UNCHANGED lost

SetCursor(q, cell) ==
    /\ header' = [header EXCEPT ![q].curr = cell]
    /\ lost' = lost \ {q}
    /\ UNCHANGED mem

\* head_event and next_event are the same functions.
head_queue(q) == SetCursor(q, header[q].first)
tail_queue(q) == SetCursor(q, header[q].last)
\* No walk goes on after its current element was taken off the front or back.
next_queue(q) ==
    /\ q \notin lost
    /\ header[q].curr # Nil
    /\ SetCursor(q, mem[header[q].curr].next)

\* remove_queue_elements and remove_queue_threads return before they reset the
\* cursor when there is nothing to remove.
remove_queue_elements(q) ==
    /\ header[q].count # 0
    /\ header' = [header EXCEPT ![q] = [first |-> Nil, last |-> Nil, curr |-> Nil, count |-> 0]]
    /\ mem' = [c \in Cells |-> IF c \in On(q) THEN Free ELSE mem[c]]
    /\ lost' = lost \ {q}

\* Mutant: moved elements are put at the front.
MoveToFront(s, q, r) ==
    LET e == s.header[q].first
        t == UnlinkCell(s.header, s.mem, q, e, Nil, s.mem[e].next)
    IN  LinkCell(t.header, t.mem, r, e, [content |-> s.mem[e].content, prio |-> Unset],
                 Nil, t.header[r].first)

\* One element, taken off the front of q and put at the end of r; malloc may
\* hand out the cell that was just freed.
MoveFirst(s, q, r) ==
    LET e == s.header[q].first
        t == UnlinkCell(s.header, s.mem, q, e, Nil, s.mem[e].next)
    IN  LinkCell(t.header, t.mem, r, e, [content |-> s.mem[e].content, prio |-> Unset],
                 t.header[r].last, Nil)
move_queue_elements(q, r) ==
    /\ {q, r} \subseteq Plain /\ q # r    \* onto itself it would not end
    /\ header[q].count > 0
    /\ LET moved[n \in 0 .. header[q].count] ==
              IF n = 0 THEN [header |-> header, mem |-> mem] ELSE MoveFirst(moved[n - 1], q, r)
       IN  Becomes(moved[header[q].count])
    /\ lost' = IF header[q].curr = Nil THEN lost ELSE lost \cup {q}

------------------------------------------------------------------------------

Init ==
    /\ header = [q \in Queues |-> [first |-> Nil, last |-> Nil, curr |-> Nil, count |-> 0]]
    /\ mem = [c \in Cells |-> Free]
    /\ lost = {}

Next ==
    \E q \in Queues :
      \/ \E c \in Contents : inFIFO_queue(q, c) \/ inLIFO_queue(q, c) \/ extract_from_queue(q, c)
      \/ \E c \in Contents, p \in Prios :
            \/ insert_queue(q, c, p) \/ insert_queue_from_back(q, c, p)
            \/ insert_first_queue(q, c, p)
      \/ outFIFO_queue(q) \/ outLIFO_queue(q) \/ remove_queue_elements(q)
      \/ head_queue(q) \/ tail_queue(q) \/ next_queue(q)
      \/ \E r \in Queues : move_queue_elements(q, r)

Spec == Init /\ [][Next]_vars

------------------------------------------------------------------------------
(* Properties.                                                             *)

\* Headers and cells keep their shape.
TypeOK == header \in [Queues -> Header] /\ mem \in [Cells -> Item] /\ lost \subseteq Queues

\* Every queue reads the same forwards and backwards and has count cells, all
\* allocated; no cell is in two queues, and none is allocated in none: what the
\* four ways of linking and the three of unlinking in list.c leave behind.
WellFormed ==
    /\ \A q \in Queues :
          /\ Reverse(Back(mem, header[q].last)) = Chain(q)
          /\ Len(Chain(q)) = header[q].count
    /\ \A c \in Cells :
          mem[c].live <=> Cardinality({q \in Queues : c \in On(q)}) = 1

\* Queues filled by insert_queue and its variants are sorted, whichever were
\* used and from whichever end they searched: the next thread and the next
\* event are taken from their fronts.
InOrder ==
    \A q \in Sorted :
      \A i \in 1 .. Len(Chain(q)) - 1 : mem[Chain(q)[i]].prio <= mem[Chain(q)[i + 1]].prio

\* The cursor that next_queue would read through is a cell of its queue:
\* extract_from_queue moves it off the cell that it frees.
CursorInside ==
    \A q \in Queues \ lost : header[q].curr \in On(q) \cup {Nil}

Ahead(q) == From(mem, mem[header[q].curr].next)

\* Insertions and extractions never make a walk skip or repeat an element: those
\* ahead of the cursor that stay in the queue stay ahead.  Only extracting the
\* current element when it is the first, or emptying the queue, ends the walk.
WalkKept ==
    [][\A q \in Queues \ (lost \cup lost') :
         header[q].curr # Nil /\ mem' # mem =>
           \/ /\ header'[q].curr # Nil
              /\ SelectSeq(Ahead(q), LAMBDA c : c \in On(q)')
                   = SelectSeq(Ahead(q)', LAMBDA c : c \in On(q))
           \/ /\ header'[q].curr = Nil
              /\ \/ header[q].curr = header[q].first /\ ~mem'[header[q].first].live
                 \/ header'[q].count = 0]_vars

\* The cells implement a sequence with a cursor.
Elements(q) ==
    [i \in DOMAIN Chain(q) |->
       [content |-> mem[Chain(q)[i]].content, prio |-> mem[Chain(q)[i]].prio]]
Position(q) ==
    IF q \in lost \/ header[q].curr = Nil THEN 0
    ELSE Len(Back(mem, header[q].curr))

Abstract == INSTANCE Queue WITH
    Keyed <- Sorted,
    items <- [q \in Queues |-> Elements(q)],
    at <- [q \in Queues |-> Position(q)]

\* The two searches of insert_queue and insert_queue_from_back put an element
\* behind those of its priority and insert_first_queue before them: first come,
\* first served, and a preempted thread at the head of its priority.
EqualsInTurn ==
    [][\A q \in Sorted, c \in Contents, p \in Prios :
         /\ insert_queue(q, c, p) \/ insert_queue_from_back(q, c, p) => Abstract!After(q, c, p)
         /\ insert_first_queue(q, c, p) => Abstract!Before(q, c, p)]_vars

\* Every operation of list.c does to the sequence what Queue says, the walk of
\* its caller included.
ImplementsQueue == Abstract!Spec

\* The cells of list.c always form the queues that their headers describe.
CellsConsistent ==
    /\ TypeOK
    /\ WellFormed
    /\ InOrder
    /\ CursorInside

\* Who walks over a queue while it changes sees every element that stays once,
\* and equals leave in the order they came.
WalksAndTurns == WalkKept /\ EqualsInTurn
=============================================================================
