----------------------------- MODULE ListProofs -----------------------------
(***************************************************************************)
(* Proofs about List: the cells of list.c always form the lists that their *)
(* headers describe, and every operation does to these lists what Queue    *)
(* says.  Nothing is assumed of the callers.                               *)
(*                                                                         *)
(* Holds(h, m, o, L, a) says that headers h and cells m hold the list L[q] *)
(* of each queue q with its cursor at a[q], and ListInv that they hold the *)
(* lists that the walks find.  One lemma per way to change cells says      *)
(* which lists are held afterwards, and since a state holds but one        *)
(* (Determined) these are the ones that walks then find.                   *)
(***************************************************************************)
EXTENDS List, QueueLemmas

\* The i-th element of a sequence, NULL outside it.
Nth(s, i) == IF i \in DOMAIN s THEN s[i] ELSE Nil

-----------------------------------------------------------------------------
(* Walks.                                                                  *)

LEMMA CellsCounted == Cardinality(Cells) \in Nat /\ Nil \notin Cells
  BY QueuesAssumption, FS_CardinalityType

\* A walk comes to the cells of a list, in their order.
LEMMA WalkIs ==
    ASSUME NEW next \in [Pointer -> Pointer], next[Nil] = Nil,
           NEW s \in Seq(Cells), Len(s) <= Cardinality(Cells),
           \A i \in DOMAIN s : next[s[i]] = Nth(s, i + 1)
    PROVE  Walk(next, Nth(s, 1)) = s
<1> DEFINE D == 1 .. Cardinality(Cells) + 1
           c == Nth(s, 1)
           cell[n \in D] == IF n = 1 THEN c ELSE next[cell[n - 1]]
           g == [n \in D |-> Nth(s, n)]
<1>0. /\ Cardinality(Cells) \in Nat /\ Nil \notin Cells /\ DOMAIN s = 1 .. Len(s) /\ Len(s) \in Nat
      /\ \A i \in DOMAIN s : s[i] \in Cells
  BY CellsCounted
<1>1. Walk(next, c) = [n \in 1 .. Cardinality({k \in DOMAIN cell : cell[k] # Nil}) |-> cell[n]]
  BY DEF Walk
<1>2. g = [n \in D |-> IF n = 1 THEN c ELSE next[g[n - 1]]]
  <2> SUFFICES ASSUME NEW n \in D PROVE Nth(s, n) = IF n = 1 THEN c ELSE next[g[n - 1]]
    BY Zenon
  <2>1. CASE n = 1
    BY <2>1
  <2>2. CASE n # 1
    <3>1. n - 1 \in D /\ g[n - 1] = Nth(s, n - 1) /\ (n - 1) + 1 = n /\ n \in Nat
      BY <1>0, <2>2
    <3>2. CASE n - 1 \in DOMAIN s
      <4>1. next[s[n - 1]] = Nth(s, n)
        BY <3>1, <3>2
      <4> QED BY <2>2, <3>1, <3>2, <4>1 DEF Nth
    <3>3. CASE n - 1 \notin DOMAIN s
      <4>1. n \notin DOMAIN s
        BY <1>0, <2>2, <3>1, <3>3
      <4> QED BY <2>2, <3>1, <3>3, <4>1 DEF Nth
    <3> QED BY <3>2, <3>3
  <2> QED BY <2>1, <2>2
<1>3. cell = [n \in D |-> IF n = 1 THEN c ELSE next[cell[n - 1]]]
  <2> HIDE DEF D, c, g
  <2> QED BY <1>2
<1> HIDE DEF cell, c
<1>4. \A n \in Nat : n + 1 \in D => cell[n + 1] = Nth(s, n + 1)
  <2> DEFINE Same == {n \in Nat : n + 1 \in D => cell[n + 1] = Nth(s, n + 1)}
  <2>1. 0 \in Same
    <3>1. 0 + 1 = 1 /\ 1 \in D
      BY <1>0
    <3> QED BY <1>3, <3>1 DEF c
  <2>2. ASSUME NEW n \in Nat, n \in Same PROVE n + 1 \in Same
    <3> SUFFICES ASSUME (n + 1) + 1 \in D PROVE cell[(n + 1) + 1] = Nth(s, (n + 1) + 1)
      OBVIOUS
    <3>1. n + 1 \in D /\ ((n + 1) + 1) - 1 = n + 1 /\ (n + 1) + 1 # 1
      BY <1>0
    <3>2. cell[(n + 1) + 1] = next[Nth(s, n + 1)]
      BY <1>3, <2>2, <3>1
    <3>3. g[(n + 1) + 1] = next[g[n + 1]]
      <4> HIDE DEF g, D, Same
      <4> QED BY <1>2, <3>1
    <3> QED BY <3>1, <3>2, <3>3
  <2> HIDE DEF Same
  <2>3. Nat \subseteq Same
    BY <2>1, <2>2, SetInduction
  <2> QED BY <2>3 DEF Same
<1>5. \A n \in D : cell[n] = Nth(s, n)
  <2> SUFFICES ASSUME NEW n \in D PROVE cell[n] = Nth(s, n)
    OBVIOUS
  <2>1. n - 1 \in Nat /\ (n - 1) + 1 = n
    BY <1>0
  <2> QED BY <1>4, <2>1
<1>6. DOMAIN cell = D
  BY <1>3
<1>7. {k \in DOMAIN cell : cell[k] # Nil} = 1 .. Len(s)
  BY <1>0, <1>5, <1>6 DEF Nth
<1>8. Cardinality({k \in DOMAIN cell : cell[k] # Nil}) = Len(s)
  BY <1>0, <1>7, UpTo
<1>9. Walk(next, c) = [n \in 1 .. Len(s) |-> cell[n]]
  BY <1>1, <1>8
<1>10. \A n \in 1 .. Len(s) : cell[n] = s[n]
  BY <1>0, <1>5 DEF Nth
<1> QED BY <1>0, <1>9, <1>10 DEF c

-----------------------------------------------------------------------------
(* Cells that represent lists.                                             *)

\* The headers h and the cells m hold L[q] for each queue q.
Represents(h, m, L) ==
    /\ h \in [Queues -> Header] /\ m \in [Cells -> Item] /\ L \in [Queues -> Seq(Cells)]
    /\ \A q \in Queues :
          /\ Once(L[q])
          /\ h[q].count = Len(L[q])
          /\ h[q].first = Nth(L[q], 1) /\ h[q].last = Nth(L[q], Len(L[q]))
    /\ \A q \in Queues : \A i \in DOMAIN L[q] :
          /\ m[L[q][i]].live
          /\ m[L[q][i]].next = Nth(L[q], i + 1) /\ m[L[q][i]].prev = Nth(L[q], i - 1)
    /\ \A q, r \in Queues : q # r => ToSet(L[q]) \cap ToSet(L[r]) = {}
    /\ \A c \in Cells : m[c].live => \E q \in Queues : c \in ToSet(L[q])

\* Lists, positions and headers after an insertion, an extraction, a walk.
Put(L, q, k, cell) == [L EXCEPT ![q] = InsertAt(@, k, cell)]
Cut(L, q, k) == [L EXCEPT ![q] = RemoveAt(@, k)]
Pushed(a, q, k) == [a EXCEPT ![q] = IF k <= @ THEN @ + 1 ELSE @]
Taken(a, q, k) == [a EXCEPT ![q] = IF k = @ THEN 0 ELSE IF k < @ THEN @ - 1 ELSE @]
Extracted(a, q, k) == [a EXCEPT ![q] = IF k <= @ THEN @ - 1 ELSE @]
Cursor(h, q, c) == [h EXCEPT ![q].curr = c]
Losing(h, o, q, cell) == IF h[q].curr = cell THEN o \cup {q} ELSE o

LEMMA ListsAre ==
    ASSUME NEW h, NEW m, NEW L, Represents(h, m, L), NEW q \in Queues
    PROVE  /\ L[q] \in Seq(Cells) /\ DOMAIN L[q] = 1 .. Len(L[q]) /\ Len(L[q]) \in Nat
           /\ Len(L[q]) <= Cardinality(Cells)
           /\ \A i \in DOMAIN L[q] : L[q][i] \in Cells /\ L[q][i] # Nil
           /\ \A i : Nth(L[q], i) \in Pointer
<1>1. L[q] \in Seq(Cells) /\ Once(L[q])
  BY DEF Represents
<1>2. IsFiniteSet(Cells) /\ Cardinality(ToSet(L[q])) = Len(L[q])
  BY <1>1, OnceCounts, QueuesAssumption
<1>3. Len(L[q]) <= Cardinality(Cells)
  BY <1>1, <1>2, ElementsTyped, FS_Subset
<1>4. \A i \in DOMAIN L[q] : L[q][i] \in Cells /\ L[q][i] # Nil
  BY <1>1, CellsCounted
<1>5. \A i : Nth(L[q], i) \in Pointer
  BY <1>4 DEF Nth, Pointer
<1> QED BY <1>1, <1>3, <1>4, <1>5

\* The walks of list.c find the list of a queue, from either end.
LEMMA Forwards ==
    ASSUME NEW h, NEW m, NEW L, Represents(h, m, L), NEW q \in Queues
    PROVE  From(m, h[q].first) = L[q]
<1> DEFINE next == [x \in Pointer |-> IF x = Nil THEN Nil ELSE m[x].next]
<1>1. /\ L[q] \in Seq(Cells) /\ Len(L[q]) <= Cardinality(Cells)
      /\ \A i \in DOMAIN L[q] : L[q][i] \in Cells /\ L[q][i] # Nil
  BY ListsAre
<1>2. next \in [Pointer -> Pointer] /\ next[Nil] = Nil
  <2>1. \A x \in Pointer \ {Nil} : m[x].next \in Pointer
    BY DEF Represents, Item, Pointer
  <2> QED BY <2>1 DEF Pointer
<1>3. \A i \in DOMAIN L[q] : next[L[q][i]] = Nth(L[q], i + 1)
  BY <1>1 DEF Represents, Pointer
<1>4. h[q].first = Nth(L[q], 1)
  BY DEF Represents
<1>5. From(m, h[q].first) = Walk(next, Nth(L[q], 1))
  BY <1>4 DEF From
<1> HIDE DEF next
<1> QED BY <1>1, <1>2, <1>3, <1>5, WalkIs

LEMMA Backwards ==
    ASSUME NEW h, NEW m, NEW L, Represents(h, m, L), NEW q \in Queues,
           NEW k \in 0 .. Len(L[q])
    PROVE  Back(m, Nth(L[q], k)) = [i \in 1 .. k |-> L[q][k + 1 - i]]
<1> DEFINE prev == [x \in Pointer |-> IF x = Nil THEN Nil ELSE m[x].prev]
           s == [i \in 1 .. k |-> L[q][k + 1 - i]]
<1>1. /\ L[q] \in Seq(Cells) /\ Len(L[q]) <= Cardinality(Cells)
      /\ DOMAIN L[q] = 1 .. Len(L[q]) /\ Len(L[q]) \in Nat
      /\ \A i \in DOMAIN L[q] : L[q][i] \in Cells /\ L[q][i] # Nil
  BY ListsAre
<1>2. prev \in [Pointer -> Pointer] /\ prev[Nil] = Nil
  <2>1. \A x \in Pointer \ {Nil} : m[x].prev \in Pointer
    BY DEF Represents, Item, Pointer
  <2> QED BY <2>1 DEF Pointer
<1>3. /\ k \in Nat /\ \A i \in 1 .. k : k + 1 - i \in DOMAIN L[q]
      /\ s \in Seq(Cells) /\ DOMAIN s = 1 .. k /\ Len(s) = k /\ Len(s) <= Cardinality(Cells)
  <2>1. k \in Nat /\ k <= Len(L[q]) /\ \A i \in 1 .. k : k + 1 - i \in DOMAIN L[q]
    BY <1>1
  <2>2. s \in [1 .. k -> Cells]
    BY <1>1, <2>1
  <2>3. s \in Seq(Cells) /\ DOMAIN s = 1 .. k /\ Len(s) = k
    <3> HIDE DEF s
    <3> QED BY <2>1, <2>2
  <2> QED BY <1>1, <2>1, <2>3, CellsCounted
<1>4. \A i \in DOMAIN s : prev[s[i]] = Nth(s, i + 1)
  <2> SUFFICES ASSUME NEW i \in 1 .. k PROVE prev[s[i]] = Nth(s, i + 1)
    BY <1>3
  <2>1. s[i] = L[q][k + 1 - i] /\ k + 1 - i \in DOMAIN L[q]
    BY <1>3
  <2>2. prev[s[i]] = Nth(L[q], k - i)
    <3>1. (k + 1 - i) - 1 = k - i
      BY <1>3
    <3>2. \A j \in DOMAIN L[q] : prev[L[q][j]] = Nth(L[q], j - 1)
      BY <1>1 DEF Represents, Pointer
    <3>3. prev[L[q][k + 1 - i]] = Nth(L[q], (k + 1 - i) - 1)
      <4> HIDE DEF prev, s
      <4> QED BY <2>1, <3>2
    <3> HIDE DEF prev, s
    <3> QED BY <2>1, <3>1, <3>3
  <2>3. CASE i = k
    <3>1. k - i \notin DOMAIN L[q] /\ i + 1 \notin DOMAIN s
      BY <1>1, <1>3, <2>3
    <3> QED BY <2>2, <3>1 DEF Nth
  <2>4. CASE i # k
    <3>1. i + 1 \in 1 .. k /\ k - i \in DOMAIN L[q] /\ k + 1 - (i + 1) = k - i
      BY <1>1, <1>3, <2>4
    <3>2. s[i + 1] = L[q][k - i]
      BY <3>1
    <3> QED BY <1>3, <2>2, <3>1, <3>2 DEF Nth
  <2> QED BY <2>3, <2>4
<1>5. Nth(s, 1) = Nth(L[q], k)
  <2>1. CASE k = 0
    BY <1>1, <1>3, <2>1 DEF Nth
  <2>2. CASE k # 0
    <3>1. 1 \in 1 .. k /\ k \in DOMAIN L[q] /\ k + 1 - 1 = k
      BY <1>1, <1>3, <2>2
    <3> QED BY <1>3, <3>1 DEF Nth
  <2> QED BY <2>1, <2>2
<1>6. Back(m, Nth(L[q], k)) = Walk(prev, Nth(L[q], k))
  BY DEF Back
<1>7. Walk(prev, Nth(s, 1)) = s
  <2> HIDE DEF prev, s
  <2> QED BY <1>2, <1>3, <1>4, WalkIs
<1> QED BY <1>5, <1>6, <1>7

-----------------------------------------------------------------------------
(* Linking and unlinking.                                                  *)

LEMMA LinkKeeps ==
    ASSUME NEW h, NEW m, NEW L, Represents(h, m, L), NEW q \in Queues,
           NEW k \in 1 .. Len(L[q]) + 1, NEW cell \in Cells, ~m[cell].live, NEW e,
           e.content \in Contents \cup {Nil}, e.prio \in Prios \cup {Unset}
    PROVE  LET t == LinkCell(h, m, q, cell, e, Nth(L[q], k - 1), Nth(L[q], k))
           IN  /\ Represents(t.header, t.mem, Put(L, q, k, cell))
               /\ \A r \in Queues : t.header[r].curr = h[r].curr
               /\ t.mem[cell].content = e.content /\ t.mem[cell].prio = e.prio
               /\ \A c \in Cells : c # cell => /\ t.mem[c].content = m[c].content
                                               /\ t.mem[c].prio = m[c].prio
                                               /\ t.mem[c].live = m[c].live
<1> DEFINE before == Nth(L[q], k - 1)
           after == Nth(L[q], k)
           t == LinkCell(h, m, q, cell, e, before, after)
           s == L[q]
           p == InsertAt(s, k, cell)
           h2 == t.header
           m2 == t.mem
           M == [L EXCEPT ![q] = p]
<1>1. /\ s \in Seq(Cells) /\ DOMAIN s = 1 .. Len(s) /\ Len(s) \in Nat
      /\ \A i \in DOMAIN s : s[i] \in Cells /\ s[i] # Nil
      /\ before \in Pointer /\ after \in Pointer /\ k \in Nat /\ 1 <= k /\ k <= Len(s) + 1
      /\ k \in 1 .. Len(s) + 1
  <2>1. /\ s \in Seq(Cells) /\ DOMAIN s = 1 .. Len(s) /\ Len(s) \in Nat
        /\ \A i \in DOMAIN s : s[i] \in Cells /\ s[i] # Nil
        /\ \A i : Nth(s, i) \in Pointer
    BY ListsAre
  <2>2. k \in Nat /\ 1 <= k /\ k <= Len(s) + 1
    BY <2>1
  <2> QED BY <2>1, <2>2
<1>2. /\ p \in Seq(Cells) /\ Len(p) = Len(s) + 1
      /\ DOMAIN p = 1 .. Len(s) + 1 /\ p[k] = cell
      /\ \A i \in 1 .. k - 1 : p[i] = s[i]
      /\ \A i \in k + 1 .. Len(s) + 1 : p[i] = s[i - 1]
  <2>1. s \in Seq(Cells) /\ k \in 1 .. Len(s) + 1
    BY <1>1
  <2> HIDE DEF s
  <2> QED BY <2>1, InsertElements
<1>3. \A r \in Queues : cell \notin ToSet(L[r])
  BY DEF Represents, ToSet
<1>4. ToSet(p) = ToSet(s) \cup {cell} /\ Once(p)
  <2>1. Once(s)
    BY DEF Represents
  <2> QED BY <1>1, <1>3, <2>1, InsertSets
<1>5. /\ h2 = [h EXCEPT ![q].first = IF before = Nil THEN cell ELSE @,
                        ![q].last = IF after = Nil THEN cell ELSE @,
                        ![q].count = @ + 1]
      /\ m2 = [c \in Cells |->
                 CASE c = cell -> [content |-> e.content, prio |-> e.prio,
                                   next |-> after, prev |-> before, live |-> TRUE]
                   [] c = before -> [m[c] EXCEPT !.next = cell]
                   [] c = after -> [m[c] EXCEPT !.prev = cell]
                   [] OTHER -> m[c]]
  BY DEF LinkCell
<1>6. /\ h \in [Queues -> Header] /\ m \in [Cells -> Item] /\ L \in [Queues -> Seq(Cells)]
  BY DEF Represents
<1> HIDE DEF t, h2, m2, p
<1>7. /\ h2 \in [Queues -> Header] /\ \A r \in Queues \ {q} : h2[r] = h[r]
      /\ h2[q].first = (IF before = Nil THEN cell ELSE h[q].first)
      /\ h2[q].last = (IF after = Nil THEN cell ELSE h[q].last)
      /\ h2[q].count = h[q].count + 1 /\ h2[q].curr = h[q].curr
  <2>1. /\ h[q] \in Header /\ h[q].first \in Pointer /\ h[q].last \in Pointer
        /\ h[q].curr \in Pointer /\ h[q].count \in Nat /\ cell \in Pointer
    BY <1>6 DEF Header, Pointer
  <2>2. /\ \A r \in Queues \ {q} : h2[r] = h[r]
        /\ h2[q] = [h[q] EXCEPT !.first = IF before = Nil THEN cell ELSE @,
                                !.last = IF after = Nil THEN cell ELSE @,
                                !.count = @ + 1]
        /\ DOMAIN h2 = Queues /\ h2 = [r \in Queues |-> h2[r]]
    <3> HIDE DEF before, after
    <3> QED BY <1>5, <1>6
  <2>3. /\ h2[q].first = (IF before = Nil THEN cell ELSE h[q].first)
        /\ h2[q].last = (IF after = Nil THEN cell ELSE h[q].last)
        /\ h2[q].count = h[q].count + 1 /\ h2[q].curr = h[q].curr
        /\ h2[q] = [first |-> h2[q].first, last |-> h2[q].last,
                    curr |-> h2[q].curr, count |-> h2[q].count]
    <3> HIDE DEF before, after
    <3> QED BY <2>1, <2>2 DEF Header
  <2>4. h2[q] \in Header
    <3>1. /\ h2[q].first \in Pointer /\ h2[q].last \in Pointer
          /\ h2[q].curr \in Pointer /\ h2[q].count \in Nat
      BY <2>1, <2>3
    <3> QED BY <2>3, <3>1 DEF Header
  <2>5. \A r \in Queues : h2[r] \in Header
    BY <1>6, <2>2, <2>4
  <2> QED BY <2>2, <2>3, <2>5
<1>8. before # cell /\ after # cell /\ (before = after => before = Nil)
  <2>1. before \in ToSet(s) \cup {Nil} /\ after \in ToSet(s) \cup {Nil}
    BY DEF Nth, ToSet
  <2>2. Nil # cell
    BY CellsCounted
  <2>3. before = after => before = Nil
    <3> SUFFICES ASSUME before = after, before # Nil PROVE FALSE
      OBVIOUS
    <3>1. k - 1 \in DOMAIN s /\ k \in DOMAIN s /\ s[k - 1] = s[k]
      BY DEF Nth
    <3>2. k - 1 = k
      BY <3>1 DEF Represents, Once
    <3> QED BY <1>1, <3>2
  <2> QED BY <1>3, <2>1, <2>2, <2>3
<1>9. /\ m2[cell] = [content |-> e.content, prio |-> e.prio,
                     next |-> after, prev |-> before, live |-> TRUE]
      /\ before # Nil => m2[before] = [m[before] EXCEPT !.next = cell]
      /\ after # Nil => m2[after] = [m[after] EXCEPT !.prev = cell]
      /\ \A c \in Cells \ {cell, before, after} : m2[c] = m[c]
  BY <1>1, <1>5, <1>8 DEF Pointer
<1>10. m2 \in [Cells -> Item]
  <2>1. \A c \in Cells : m2[c] \in Item
    <3> SUFFICES ASSUME NEW c \in Cells PROVE m2[c] \in Item
      OBVIOUS
    <3>1. m[c] \in Item /\ cell \in Pointer /\ Nil \notin Cells
      BY <1>6, CellsCounted DEF Pointer
    <3>2. CASE c = cell
      <4>1. [content |-> e.content, prio |-> e.prio,
             next |-> after, prev |-> before, live |-> TRUE] \in Item
        BY <1>1 DEF Item
      <4> QED BY <1>9, <3>2, <4>1
    <3>3. CASE c = before
      BY <1>9, <3>1, <3>3 DEF Item
    <3>4. CASE c = after
      BY <1>9, <3>1, <3>4 DEF Item
    <3>5. CASE c \notin {cell, before, after}
      BY <1>9, <3>1, <3>5
    <3> QED BY <3>2, <3>3, <3>4, <3>5
  <2> QED BY <1>5, <2>1
<1>11. \A c \in Cells :
          /\ c # cell => /\ m2[c].content = m[c].content /\ m2[c].prio = m[c].prio
                         /\ m2[c].live = m[c].live
          /\ c # cell /\ c # before => m2[c].next = m[c].next
          /\ c # cell /\ c # after => m2[c].prev = m[c].prev
  <2> SUFFICES ASSUME NEW c \in Cells
               PROVE  /\ c # cell => /\ m2[c].content = m[c].content /\ m2[c].prio = m[c].prio
                                     /\ m2[c].live = m[c].live
                      /\ c # cell /\ c # before => m2[c].next = m[c].next
                      /\ c # cell /\ c # after => m2[c].prev = m[c].prev
    OBVIOUS
  <2>1. m[c] \in Item /\ Nil \notin Cells
    BY <1>6, CellsCounted
  <2>2. CASE c = before
    BY <1>8, <1>9, <2>1, <2>2 DEF Item
  <2>3. CASE c = after
    BY <1>8, <1>9, <2>1, <2>3 DEF Item
  <2>4. CASE c \notin {before, after}
    BY <1>9, <2>4
  <2> QED BY <2>2, <2>3, <2>4
<1>12. before # Nil => m2[before].next = cell
  <2> SUFFICES ASSUME before # Nil PROVE m2[before].next = cell
    OBVIOUS
  <2>1. m[before] \in Item
    BY <1>1, <1>6 DEF Pointer
  <2> QED BY <1>9, <2>1 DEF Item
<1>13. after # Nil => m2[after].prev = cell
  <2> SUFFICES ASSUME after # Nil PROVE m2[after].prev = cell
    OBVIOUS
  <2>1. m[after] \in Item
    BY <1>1, <1>6 DEF Pointer
  <2> QED BY <1>9, <2>1 DEF Item
<1>14. M \in [Queues -> Seq(Cells)] /\ M[q] = p /\ \A r \in Queues \ {q} : M[r] = L[r]
  BY <1>2, <1>6
<1> HIDE DEF M
<1>15. \A i \in DOMAIN s : /\ m[s[i]].live
                           /\ m[s[i]].next = Nth(s, i + 1) /\ m[s[i]].prev = Nth(s, i - 1)
  BY DEF Represents
<1>16. \A i \in DOMAIN s : (s[i] = before <=> i = k - 1) /\ (s[i] = after <=> i = k)
  <2>1. Once(s)
    BY DEF Represents
  <2> QED BY <1>1, <2>1 DEF Nth, Once
<1>17. \A i \in DOMAIN p : /\ m2[p[i]].live
                           /\ m2[p[i]].next = Nth(p, i + 1) /\ m2[p[i]].prev = Nth(p, i - 1)
  <2> SUFFICES ASSUME NEW i \in DOMAIN p
               PROVE  /\ m2[p[i]].live
                      /\ m2[p[i]].next = Nth(p, i + 1) /\ m2[p[i]].prev = Nth(p, i - 1)
    OBVIOUS
  <2>0. i \in Nat
    BY <1>2
  <2>1. CASE i < k - 1
    <3>1. /\ i \in DOMAIN s /\ p[i] = s[i] /\ i + 1 \in DOMAIN s /\ i + 1 \in DOMAIN p
          /\ p[i + 1] = s[i + 1] /\ i # k - 1 /\ i # k
      BY <1>1, <1>2, <2>0, <2>1
    <3>2. i - 1 \in DOMAIN s <=> i - 1 \in DOMAIN p
      BY <1>1, <1>2, <2>0, <2>1
    <3>3. i - 1 \in DOMAIN p => p[i - 1] = s[i - 1]
      BY <1>1, <1>2, <2>0, <2>1
    <3>4. s[i] # before /\ s[i] # after /\ s[i] # cell /\ s[i] \in Cells
      BY <1>1, <1>3, <1>16, <3>1 DEF ToSet
    <3> QED BY <1>11, <1>15, <3>1, <3>2, <3>3, <3>4 DEF Nth
  <2>2. CASE i = k - 1
    <3>1. /\ i \in DOMAIN s /\ p[i] = s[i] /\ i + 1 = k /\ i # k /\ k \in DOMAIN p
      BY <1>1, <1>2, <2>0, <2>2
    <3>2. i - 1 \in DOMAIN s <=> i - 1 \in DOMAIN p
      BY <1>1, <1>2, <2>0, <2>2
    <3>3. i - 1 \in DOMAIN p => p[i - 1] = s[i - 1]
      BY <1>1, <1>2, <2>0, <2>2
    <3>4. s[i] = before /\ s[i] # after /\ s[i] # cell /\ s[i] \in Cells /\ s[i] # Nil
      BY <1>1, <1>8, <1>16, <2>2, <3>1
    <3> QED BY <1>2, <1>11, <1>12, <1>15, <3>1, <3>2, <3>3, <3>4 DEF Nth
  <2>3. CASE i = k
    <3>1. m2[p[i]].live /\ m2[p[i]].next = after /\ m2[p[i]].prev = before
      BY <1>2, <1>9, <2>3
    <3>2. Nth(p, i + 1) = after
      <4>1. i + 1 \in DOMAIN p <=> k \in DOMAIN s
        BY <1>1, <1>2, <2>3
      <4>2. i + 1 \in DOMAIN p => p[i + 1] = s[k]
        BY <1>1, <1>2, <2>3
      <4> QED BY <4>1, <4>2 DEF Nth
    <3>3. Nth(p, i - 1) = before
      <4>1. i - 1 \in DOMAIN p <=> k - 1 \in DOMAIN s
        BY <1>1, <1>2, <2>3
      <4>2. i - 1 \in DOMAIN p => p[i - 1] = s[k - 1]
        BY <1>1, <1>2, <2>3
      <4> QED BY <4>1, <4>2 DEF Nth
    <3> QED BY <3>1, <3>2, <3>3
  <2>4. CASE i = k + 1
    <3>1. /\ k \in DOMAIN s /\ p[i] = s[k] /\ i - 1 = k /\ k \in DOMAIN p /\ k # k - 1
      BY <1>1, <1>2, <2>0, <2>4
    <3>2. i + 1 \in DOMAIN p <=> k + 1 \in DOMAIN s
      BY <1>1, <1>2, <2>0, <2>4
    <3>3. i + 1 \in DOMAIN p => p[i + 1] = s[k + 1]
      BY <1>1, <1>2, <2>0, <2>4
    <3>4. s[k] = after /\ s[k] # before /\ s[k] # cell /\ s[k] \in Cells /\ s[k] # Nil
      BY <1>1, <1>8, <1>16, <3>1
    <3>5. /\ m[s[k]].live /\ m[s[k]].next = Nth(s, k + 1)
          /\ m2[s[k]].live = m[s[k]].live /\ m2[s[k]].next = m[s[k]].next
          /\ m2[s[k]].prev = cell
      <4> HIDE DEF before, after
      <4> QED BY <1>11, <1>13, <1>15, <3>1, <3>4
    <3>6. Nth(p, i + 1) = Nth(s, k + 1) /\ Nth(p, i - 1) = cell
      BY <1>2, <3>1, <3>2, <3>3 DEF Nth
    <3> QED BY <3>1, <3>5, <3>6
  <2>5. CASE i > k + 1
    <3>0. /\ i \in k + 1 .. Len(s) + 1 /\ i - 1 \in k + 1 .. Len(s) + 1
          /\ i - 1 \in 1 .. Len(s) /\ (i - 1) - 1 \in 1 .. Len(s) /\ i - 1 \in 1 .. Len(s) + 1
          /\ i - 1 # k - 1 /\ i - 1 # k /\ (i - 1) + 1 = i
      BY <1>1, <1>2, <2>0, <2>5
    <3>1. /\ i - 1 \in DOMAIN s /\ p[i] = s[i - 1] /\ i - 1 # k - 1 /\ i - 1 # k
          /\ i - 1 \in DOMAIN p /\ p[i - 1] = s[(i - 1) - 1] /\ (i - 1) - 1 \in DOMAIN s
          /\ (i - 1) + 1 = i
      BY <1>1, <1>2, <3>0
    <3>2. i + 1 \in DOMAIN p <=> i \in DOMAIN s
      BY <1>1, <1>2, <2>0, <2>5
    <3>3. i + 1 \in DOMAIN p => p[i + 1] = s[i]
      <4> SUFFICES ASSUME i + 1 \in DOMAIN p PROVE p[i + 1] = s[i]
        OBVIOUS
      <4>1. i + 1 \in k + 1 .. Len(s) + 1 /\ (i + 1) - 1 = i
        BY <1>1, <1>2, <2>0, <2>5
      <4> QED BY <1>2, <4>1
    <3>4. s[i - 1] # before /\ s[i - 1] # after /\ s[i - 1] # cell /\ s[i - 1] \in Cells
      BY <1>1, <1>3, <1>16, <3>1 DEF ToSet
    <3> QED BY <1>11, <1>15, <3>1, <3>2, <3>3, <3>4 DEF Nth
  <2> QED BY <1>1, <2>0, <2>1, <2>2, <2>3, <2>4, <2>5
<1>18. /\ h2[q].count = Len(p) /\ h2[q].first = Nth(p, 1) /\ h2[q].last = Nth(p, Len(p))
  <2>1. h[q].count = Len(s) /\ h[q].first = Nth(s, 1) /\ h[q].last = Nth(s, Len(s))
    BY DEF Represents
  <2>2. h2[q].count = Len(p)
    BY <1>2, <1>7, <2>1
  <2>3. h2[q].first = Nth(p, 1)
    <3>1. CASE k = 1
      <4>1. before = Nil /\ 1 \in DOMAIN p
        BY <1>1, <1>2, <3>1 DEF Nth
      <4> QED BY <1>2, <1>7, <3>1, <4>1 DEF Nth
    <3>2. CASE k # 1
      <4>1. /\ k - 1 \in DOMAIN s /\ 1 \in DOMAIN s /\ 1 \in DOMAIN p /\ p[1] = s[1]
        BY <1>1, <1>2, <3>2
      <4>2. before # Nil
        BY <1>1, <4>1 DEF Nth
      <4> QED BY <1>7, <2>1, <4>1, <4>2 DEF Nth
    <3> QED BY <3>1, <3>2
  <2>4. h2[q].last = Nth(p, Len(p))
    <3>1. CASE k = Len(s) + 1
      <4>1. after = Nil /\ Len(p) = k /\ k \in DOMAIN p
        BY <1>1, <1>2, <3>1 DEF Nth
      <4> QED BY <1>2, <1>7, <3>1, <4>1 DEF Nth
    <3>2. CASE k # Len(s) + 1
      <4>1. /\ k \in DOMAIN s /\ Len(s) \in DOMAIN s /\ Len(p) \in DOMAIN p
            /\ Len(p) \in k + 1 .. Len(s) + 1 /\ Len(p) - 1 = Len(s)
        BY <1>1, <1>2, <3>2
      <4>2. after # Nil /\ p[Len(p)] = s[Len(s)]
        BY <1>1, <1>2, <4>1 DEF Nth
      <4> QED BY <1>7, <2>1, <4>1, <4>2 DEF Nth
    <3> QED BY <3>1, <3>2
  <2> QED BY <2>2, <2>3, <2>4
<1>19. Represents(h2, m2, M)
  <2>1. \A r \in Queues :
          /\ Once(M[r]) /\ h2[r].count = Len(M[r])
          /\ h2[r].first = Nth(M[r], 1) /\ h2[r].last = Nth(M[r], Len(M[r]))
    <3> SUFFICES ASSUME NEW r \in Queues
                 PROVE  /\ Once(M[r]) /\ h2[r].count = Len(M[r])
                        /\ h2[r].first = Nth(M[r], 1) /\ h2[r].last = Nth(M[r], Len(M[r]))
      OBVIOUS
    <3>1. CASE r = q
      BY <1>4, <1>14, <1>18, <3>1
    <3>2. CASE r # q
      <4>1. M[r] = L[r] /\ h2[r] = h[r]
        BY <1>7, <1>14, <3>2
      <4> QED BY <4>1 DEF Represents
    <3> QED BY <3>1, <3>2
  <2>2. ASSUME NEW r \in Queues, NEW i \in DOMAIN M[r]
        PROVE  /\ m2[M[r][i]].live
               /\ m2[M[r][i]].next = Nth(M[r], i + 1) /\ m2[M[r][i]].prev = Nth(M[r], i - 1)
    <3>1. CASE r = q
      BY <1>14, <1>17, <3>1
    <3>2. CASE r # q
      <4>1. M[r] = L[r] /\ L[r][i] \in ToSet(L[r]) /\ L[r][i] \in Cells /\ L[r][i] # Nil
        BY <1>14, <3>2, ListsAre DEF ToSet
      <4>2. ToSet(L[r]) \cap ToSet(s) = {}
        BY <3>2 DEF Represents
      <4>3. before \in ToSet(s) \cup {Nil} /\ after \in ToSet(s) \cup {Nil}
        BY DEF Nth, ToSet
      <4>4. L[r][i] # before /\ L[r][i] # after /\ L[r][i] # cell
        BY <1>3, <4>1, <4>2, <4>3
      <4>5. /\ m[L[r][i]].live /\ m[L[r][i]].next = Nth(L[r], i + 1)
            /\ m[L[r][i]].prev = Nth(L[r], i - 1)
        BY <4>1 DEF Represents
      <4> HIDE DEF before, after
      <4> QED BY <1>11, <4>1, <4>4, <4>5
    <3> QED BY <3>1, <3>2
  <2>3. \A r, u \in Queues : r # u => ToSet(M[r]) \cap ToSet(M[u]) = {}
    <3>1. \A r, u \in Queues : r # u => ToSet(L[r]) \cap ToSet(L[u]) = {}
      BY DEF Represents
    <3>2. \A r \in Queues \ {q} : /\ ToSet(M[r]) = ToSet(L[r])
                                   /\ ToSet(M[r]) \cap ToSet(M[q]) = {}
      BY <1>3, <1>4, <1>14, <3>1
    <3> QED BY <3>1, <3>2
  <2>4. \A c \in Cells : m2[c].live => \E r \in Queues : c \in ToSet(M[r])
    <3> SUFFICES ASSUME NEW c \in Cells, m2[c].live
                 PROVE  \E r \in Queues : c \in ToSet(M[r])
      OBVIOUS
    <3>1. CASE c = cell
      BY <1>4, <1>14, <3>1
    <3>2. CASE c # cell
      <4>1. PICK r \in Queues : c \in ToSet(L[r])
        BY <1>11, <3>2 DEF Represents
      <4> QED BY <1>4, <1>14, <4>1
    <3> QED BY <3>1, <3>2
  <2> QED BY <1>7, <1>10, <1>14, <2>1, <2>2, <2>3, <2>4 DEF Represents
<1>20. \A r \in Queues : h2[r].curr = h[r].curr
  BY <1>7
<1>21. m2[cell].content = e.content /\ m2[cell].prio = e.prio
  BY <1>9
<1> QED BY <1>11, <1>19, <1>20, <1>21 DEF t, h2, m2, M, p, Put

LEMMA UnlinkKeeps ==
    ASSUME NEW h, NEW m, NEW L, Represents(h, m, L), NEW q \in Queues, NEW k \in DOMAIN L[q]
    PROVE  LET t == UnlinkCell(h, m, q, L[q][k], Nth(L[q], k - 1), Nth(L[q], k + 1))
           IN  /\ Represents(t.header, t.mem, Cut(L, q, k))
               /\ \A r \in Queues : t.header[r].curr = h[r].curr
               /\ ~t.mem[L[q][k]].live
               /\ \A c \in Cells : c # L[q][k] => /\ t.mem[c].content = m[c].content
                                                  /\ t.mem[c].prio = m[c].prio
<1> DEFINE before == Nth(L[q], k - 1)
           after == Nth(L[q], k + 1)
           cell == L[q][k]
           t == UnlinkCell(h, m, q, cell, before, after)
           s == L[q]
           p == RemoveAt(s, k)
           h2 == t.header
           m2 == t.mem
           M == [L EXCEPT ![q] = p]
<1>1. /\ s \in Seq(Cells) /\ DOMAIN s = 1 .. Len(s) /\ Len(s) \in Nat
      /\ \A i \in DOMAIN s : s[i] \in Cells /\ s[i] # Nil
      /\ before \in Pointer /\ after \in Pointer /\ k \in Nat /\ 1 <= k /\ k <= Len(s)
      /\ k \in DOMAIN s /\ cell \in Cells /\ cell = s[k]
  <2>1. /\ s \in Seq(Cells) /\ DOMAIN s = 1 .. Len(s) /\ Len(s) \in Nat
        /\ \A i \in DOMAIN s : s[i] \in Cells /\ s[i] # Nil
        /\ \A i : Nth(s, i) \in Pointer
    BY ListsAre
  <2>2. k \in Nat /\ 1 <= k /\ k <= Len(s)
    BY <2>1
  <2> QED BY <2>1, <2>2
<1>2. /\ p \in Seq(Cells) /\ Len(p) = Len(s) - 1 /\ DOMAIN p = 1 .. Len(s) - 1
      /\ \A i \in 1 .. k - 1 : p[i] = s[i]
      /\ \A i \in k .. Len(s) - 1 : p[i] = s[i + 1]
  <2>1. s \in Seq(Cells) /\ k \in DOMAIN s
    BY <1>1
  <2> HIDE DEF s
  <2> QED BY <2>1, RemoveElements
<1>3. Once(s) /\ \A r \in Queues \ {q} : cell \notin ToSet(L[r])
  <2>1. cell \in ToSet(s)
    BY <1>1 DEF ToSet
  <2>2. \A r \in Queues \ {q} : ToSet(s) \cap ToSet(L[r]) = {}
    BY DEF Represents
  <2> QED BY <2>1, <2>2 DEF Represents
<1>4. ToSet(p) = ToSet(s) \ {cell} /\ Once(p)
  BY <1>1, <1>3, RemoveSets
<1>5. /\ h2 = [h EXCEPT ![q].first = IF before = Nil THEN after ELSE @,
                        ![q].last = IF @ = cell THEN before ELSE @,
                        ![q].count = @ - 1]
      /\ m2 = [c \in Cells |->
                 CASE c = cell -> Free
                   [] c = before -> [m[c] EXCEPT !.next = after]
                   [] c = after -> [m[c] EXCEPT !.prev = before]
                   [] OTHER -> m[c]]
  BY DEF UnlinkCell
<1>6. /\ h \in [Queues -> Header] /\ m \in [Cells -> Item] /\ L \in [Queues -> Seq(Cells)]
      /\ h[q].count = Len(s) /\ h[q].first = Nth(s, 1) /\ h[q].last = Nth(s, Len(s))
  BY DEF Represents
<1> HIDE DEF t, h2, m2, p
<1>7. /\ h2 \in [Queues -> Header] /\ \A r \in Queues \ {q} : h2[r] = h[r]
      /\ h2[q].first = (IF before = Nil THEN after ELSE h[q].first)
      /\ h2[q].last = (IF h[q].last = cell THEN before ELSE h[q].last)
      /\ h2[q].count = h[q].count - 1 /\ h2[q].curr = h[q].curr
  <2>1. /\ h[q] \in Header /\ h[q].first \in Pointer /\ h[q].last \in Pointer
        /\ h[q].curr \in Pointer /\ h[q].count - 1 \in Nat
    <3>1. h[q].count - 1 \in Nat
      BY <1>1, <1>6
    <3> QED BY <1>6, <3>1 DEF Header
  <2>2. /\ \A r \in Queues \ {q} : h2[r] = h[r]
        /\ h2[q] = [h[q] EXCEPT !.first = IF before = Nil THEN after ELSE @,
                                !.last = IF @ = cell THEN before ELSE @,
                                !.count = @ - 1]
        /\ DOMAIN h2 = Queues /\ h2 = [r \in Queues |-> h2[r]]
    <3> HIDE DEF before, after, cell, s
    <3> QED BY <1>5, <1>6
  <2>3. /\ h2[q].first = (IF before = Nil THEN after ELSE h[q].first)
        /\ h2[q].last = (IF h[q].last = cell THEN before ELSE h[q].last)
        /\ h2[q].count = h[q].count - 1 /\ h2[q].curr = h[q].curr
        /\ h2[q] = [first |-> h2[q].first, last |-> h2[q].last,
                    curr |-> h2[q].curr, count |-> h2[q].count]
    <3> HIDE DEF before, after, cell
    <3> QED BY <2>1, <2>2 DEF Header
  <2>4. h2[q] \in Header
    <3>1. /\ h2[q].first \in Pointer /\ h2[q].last \in Pointer
          /\ h2[q].curr \in Pointer /\ h2[q].count \in Nat
      <4> HIDE DEF before, after, cell, s
      <4> QED BY <1>1, <2>1, <2>3
    <3> QED BY <2>3, <3>1 DEF Header
  <2>5. \A r \in Queues : h2[r] \in Header
    BY <1>6, <2>2, <2>4
  <2> QED BY <2>2, <2>3, <2>5
<1>8. /\ before # cell /\ after # cell /\ (before = after => before = Nil)
      /\ cell # Nil
      /\ \A i \in DOMAIN s : /\ s[i] = before <=> i = k - 1
                             /\ s[i] = after <=> i = k + 1
                             /\ s[i] = cell <=> i = k
  <2>1. \A i \in DOMAIN s : /\ s[i] = before <=> i = k - 1
                            /\ s[i] = after <=> i = k + 1
                            /\ s[i] = cell <=> i = k
    BY <1>1, <1>3 DEF Nth, Once
  <2>2. cell # Nil
    BY <1>1
  <2>3. before # cell
    <3>1. k - 1 # k
      BY <1>1
    <3> QED BY <1>1, <2>1, <2>2, <3>1 DEF Nth
  <2>4. after # cell
    <3>1. k + 1 # k
      BY <1>1
    <3> QED BY <1>1, <2>1, <2>2, <3>1 DEF Nth
  <2>5. before = after => before = Nil
    <3>1. k - 1 # k + 1
      BY <1>1
    <3> QED BY <1>1, <2>1, <3>1 DEF Nth
  <2> QED BY <2>1, <2>2, <2>3, <2>4, <2>5
<1>9. /\ m2[cell] = Free
      /\ before # Nil => m2[before] = [m[before] EXCEPT !.next = after]
      /\ after # Nil => m2[after] = [m[after] EXCEPT !.prev = before]
      /\ \A c \in Cells \ {cell, before, after} : m2[c] = m[c]
  <2> HIDE DEF before, after, cell, s
  <2> QED BY <1>1, <1>5, <1>8 DEF Pointer
<1>10. m2 \in [Cells -> Item]
  <2>1. \A c \in Cells : m2[c] \in Item
    <3> SUFFICES ASSUME NEW c \in Cells PROVE m2[c] \in Item
      OBVIOUS
    <3> HIDE DEF before, after, cell, s
    <3>1. m[c] \in Item /\ Nil \notin Cells
      BY <1>6, CellsCounted
    <3>2. CASE c = cell
      <4>1. Free \in Item
        BY DEF Free, Item, Pointer
      <4> QED BY <1>9, <3>2, <4>1
    <3>3. CASE c = before
      BY <1>1, <1>9, <3>1, <3>3 DEF Item
    <3>4. CASE c = after
      BY <1>1, <1>9, <3>1, <3>4 DEF Item
    <3>5. CASE c \notin {cell, before, after}
      BY <1>9, <3>1, <3>5
    <3> QED BY <3>2, <3>3, <3>4, <3>5
  <2> QED BY <1>5, <2>1
<1>11. \A c \in Cells :
          /\ c # cell => /\ m2[c].content = m[c].content /\ m2[c].prio = m[c].prio
                         /\ m2[c].live = m[c].live
          /\ c # cell /\ c # before => m2[c].next = m[c].next
          /\ c # cell /\ c # after => m2[c].prev = m[c].prev
  <2> SUFFICES ASSUME NEW c \in Cells
               PROVE  /\ c # cell => /\ m2[c].content = m[c].content /\ m2[c].prio = m[c].prio
                                     /\ m2[c].live = m[c].live
                      /\ c # cell /\ c # before => m2[c].next = m[c].next
                      /\ c # cell /\ c # after => m2[c].prev = m[c].prev
    OBVIOUS
  <2> HIDE DEF before, after, cell, s
  <2>1. m[c] \in Item /\ Nil \notin Cells
    BY <1>6, CellsCounted
  <2>2. CASE c = before
    BY <1>8, <1>9, <2>1, <2>2 DEF Item
  <2>3. CASE c = after
    BY <1>8, <1>9, <2>1, <2>3 DEF Item
  <2>4. CASE c \notin {before, after}
    BY <1>9, <2>4
  <2> QED BY <2>2, <2>3, <2>4
<1>12. before # Nil => m2[before].next = after
  <2> SUFFICES ASSUME before # Nil PROVE m2[before].next = after
    OBVIOUS
  <2> HIDE DEF before, after, cell, s
  <2>1. m[before] \in Item
    BY <1>1, <1>6 DEF Pointer
  <2> QED BY <1>9, <2>1 DEF Item
<1>13. after # Nil => m2[after].prev = before
  <2> SUFFICES ASSUME after # Nil PROVE m2[after].prev = before
    OBVIOUS
  <2> HIDE DEF before, after, cell, s
  <2>1. m[after] \in Item
    BY <1>1, <1>6 DEF Pointer
  <2> QED BY <1>9, <2>1 DEF Item
<1>14. M \in [Queues -> Seq(Cells)] /\ M[q] = p /\ \A r \in Queues \ {q} : M[r] = L[r]
  BY <1>2, <1>6
<1> HIDE DEF M
<1>15. \A i \in DOMAIN s : /\ m[s[i]].live
                           /\ m[s[i]].next = Nth(s, i + 1) /\ m[s[i]].prev = Nth(s, i - 1)
  BY DEF Represents
<1>17. \A i \in DOMAIN p : /\ m2[p[i]].live
                           /\ m2[p[i]].next = Nth(p, i + 1) /\ m2[p[i]].prev = Nth(p, i - 1)
  <2> SUFFICES ASSUME NEW i \in DOMAIN p
               PROVE  /\ m2[p[i]].live
                      /\ m2[p[i]].next = Nth(p, i + 1) /\ m2[p[i]].prev = Nth(p, i - 1)
    OBVIOUS
  <2>0. i \in Nat
    BY <1>2
  <2>1. CASE i < k - 1
    <3> HIDE DEF s, p
    <3>0. /\ i \in 1 .. k - 1 /\ i + 1 \in 1 .. k - 1 /\ 1 <= i /\ i <= Len(s)
          /\ i - 1 \in 1 .. k - 1 \/ i - 1 = 0
      BY <1>1, <1>2, <2>0, <2>1
    <3>1. /\ i \in DOMAIN s /\ p[i] = s[i] /\ i + 1 \in DOMAIN s /\ i + 1 \in DOMAIN p
          /\ p[i + 1] = s[i + 1] /\ i # k - 1 /\ i # k /\ i # k + 1
      <4>1. /\ i \in DOMAIN s /\ i + 1 \in DOMAIN s /\ i + 1 \in DOMAIN p
            /\ i # k - 1 /\ i # k /\ i # k + 1
        BY <1>1, <1>2, <2>0, <2>1
      <4> QED BY <1>2, <3>0, <4>1
    <3>2. i - 1 \in DOMAIN s <=> i - 1 \in DOMAIN p
      BY <1>1, <1>2, <2>0, <2>1
    <3>3. i - 1 \in DOMAIN p => p[i - 1] = s[i - 1]
      <4>1. i - 1 \in DOMAIN p => i - 1 \in 1 .. k - 1
        BY <1>2, <3>0
      <4> QED BY <1>2, <4>1
    <3>4. s[i] # before /\ s[i] # after /\ s[i] # cell /\ s[i] \in Cells
      BY <1>1, <1>8, <3>1
    <3>5. /\ m[s[i]].live /\ m[s[i]].next = Nth(s, i + 1) /\ m[s[i]].prev = Nth(s, i - 1)
          /\ m2[s[i]].live = m[s[i]].live /\ m2[s[i]].next = m[s[i]].next
          /\ m2[s[i]].prev = m[s[i]].prev
      <4> HIDE DEF before, after, cell, s
      <4> QED BY <1>11, <1>15, <3>1, <3>4
    <3> QED BY <3>1, <3>2, <3>3, <3>5 DEF Nth
  <2>2. CASE i = k - 1
    <3>1. /\ i \in DOMAIN s /\ p[i] = s[i] /\ i + 1 = k /\ i # k /\ i # k + 1
      BY <1>1, <1>2, <2>0, <2>2
    <3>2. i - 1 \in DOMAIN s <=> i - 1 \in DOMAIN p
      BY <1>1, <1>2, <2>0, <2>2
    <3>3. i - 1 \in DOMAIN p => p[i - 1] = s[i - 1]
      BY <1>1, <1>2, <2>0, <2>2
    <3>4. s[i] = before /\ s[i] # after /\ s[i] # cell /\ s[i] \in Cells /\ s[i] # Nil
      BY <1>1, <1>8, <2>2, <3>1
    <3>5. /\ m[s[i]].live /\ m[s[i]].prev = Nth(s, i - 1)
          /\ m2[s[i]].live = m[s[i]].live /\ m2[s[i]].prev = m[s[i]].prev
          /\ m2[s[i]].next = after
      <4> HIDE DEF before, after, cell, s
      <4> QED BY <1>11, <1>12, <1>15, <3>1, <3>4
    <3>6. k \in DOMAIN p <=> k + 1 \in DOMAIN s
      BY <1>1, <1>2
    <3>7. k \in DOMAIN p => p[k] = s[k + 1]
      BY <1>1, <1>2
    <3>8. Nth(p, i + 1) = after
      BY <3>1, <3>6, <3>7 DEF Nth
    <3>9. Nth(p, i - 1) = Nth(s, i - 1)
      BY <3>2, <3>3 DEF Nth
    <3> QED BY <3>1, <3>5, <3>8, <3>9
  <2>3. CASE i = k
    <3>1. k + 1 \in DOMAIN s /\ p[i] = s[k + 1] /\ k + 1 # k - 1 /\ k + 1 # k
          /\ (k + 1) + 1 = k + 2
      BY <1>1, <1>2, <2>3
    <3>2. s[k + 1] = after /\ s[k + 1] # before /\ s[k + 1] # cell /\ s[k + 1] # Nil
          /\ s[k + 1] \in Cells
      BY <1>1, <1>8, <3>1
    <3>3. /\ m[s[k + 1]].live /\ m[s[k + 1]].next = Nth(s, k + 2)
          /\ m2[s[k + 1]].live = m[s[k + 1]].live /\ m2[s[k + 1]].next = m[s[k + 1]].next
          /\ m2[s[k + 1]].prev = before
      <4> HIDE DEF before, after, cell, s
      <4> QED BY <1>11, <1>13, <1>15, <3>1, <3>2
    <3>4. i + 1 \in DOMAIN p <=> k + 2 \in DOMAIN s
      BY <1>1, <1>2, <2>3
    <3>5. i + 1 \in DOMAIN p => p[i + 1] = s[k + 2]
      BY <1>1, <1>2, <2>3
    <3>6. i - 1 \in DOMAIN p <=> k - 1 \in DOMAIN s
      BY <1>1, <1>2, <2>3
    <3>7. i - 1 \in DOMAIN p => p[i - 1] = s[k - 1]
      BY <1>1, <1>2, <2>3
    <3>8. Nth(p, i + 1) = Nth(s, k + 2) /\ Nth(p, i - 1) = before
      BY <3>4, <3>5, <3>6, <3>7 DEF Nth
    <3> QED BY <3>1, <3>3, <3>8
  <2>4. CASE i > k
    <3>0. /\ i \in k .. Len(s) - 1 /\ i - 1 \in k .. Len(s) - 1 /\ i + 1 \in 1 .. Len(s)
          /\ i - 1 \in 1 .. Len(s) - 1 /\ i \in 1 .. Len(s) /\ (i - 1) + 1 = i
          /\ (i + 1) - 1 = i /\ i + 1 # k - 1 /\ i + 1 # k + 1 /\ i + 1 # k
          /\ (i + 1) + 1 = i + 2
      <4>1. k \in Nat /\ Len(s) \in Nat /\ i \in Nat /\ i <= Len(s) - 1 /\ 1 <= i /\ k < i /\ 1 <= k
        BY <1>1, <1>2, <2>4
      <4> HIDE DEF s
      <4>2. /\ i \in k .. Len(s) - 1 /\ i - 1 \in k .. Len(s) - 1 /\ i + 1 \in 1 .. Len(s)
            /\ i - 1 \in 1 .. Len(s) - 1 /\ i \in 1 .. Len(s)
        BY <4>1
      <4>3. i + 1 # k - 1 /\ i + 1 # k + 1 /\ i + 1 # k
        BY <4>1
      <4> QED BY <4>1, <4>2, <4>3
    <3>1. /\ i + 1 \in DOMAIN s /\ i \in DOMAIN s /\ p[i] = s[i + 1]
          /\ i - 1 \in DOMAIN p /\ p[i - 1] = s[i]
      BY <1>1, <1>2, <3>0
    <3>2. i + 1 \in DOMAIN p <=> i + 2 \in DOMAIN s
      BY <1>1, <1>2, <2>0, <2>4
    <3>3. i + 1 \in DOMAIN p => p[i + 1] = s[i + 2]
      <4> SUFFICES ASSUME i + 1 \in DOMAIN p PROVE p[i + 1] = s[i + 2]
        OBVIOUS
      <4>1. i + 1 \in k .. Len(s) - 1
        BY <1>1, <1>2, <2>0, <2>4
      <4> QED BY <1>2, <3>0, <4>1
    <3>4. s[i + 1] # before /\ s[i + 1] # after /\ s[i + 1] # cell /\ s[i + 1] \in Cells
      BY <1>1, <1>8, <3>0, <3>1
    <3>5. /\ m[s[i + 1]].live /\ m[s[i + 1]].next = Nth(s, i + 2)
          /\ m[s[i + 1]].prev = Nth(s, i)
          /\ m2[s[i + 1]].live = m[s[i + 1]].live /\ m2[s[i + 1]].next = m[s[i + 1]].next
          /\ m2[s[i + 1]].prev = m[s[i + 1]].prev
      <4> HIDE DEF before, after, cell, s
      <4> QED BY <1>11, <1>15, <3>0, <3>1, <3>4
    <3>6. Nth(p, i + 1) = Nth(s, i + 2) /\ Nth(p, i - 1) = Nth(s, i)
      BY <3>1, <3>2, <3>3 DEF Nth
    <3> QED BY <3>1, <3>5, <3>6
  <2> QED BY <1>1, <2>0, <2>1, <2>2, <2>3, <2>4
<1>18. /\ h2[q].count = Len(p) /\ h2[q].first = Nth(p, 1) /\ h2[q].last = Nth(p, Len(p))
  <2>1. h2[q].count = Len(p)
    BY <1>2, <1>6, <1>7
  <2>2. h2[q].first = Nth(p, 1)
    <3>1. CASE k = 1
      <4>1. before = Nil
        BY <1>1, <3>1 DEF Nth
      <4>2. 1 \in DOMAIN p <=> k + 1 \in DOMAIN s
        BY <1>1, <1>2, <3>1
      <4>3. 1 \in DOMAIN p => p[1] = s[k + 1]
        BY <1>1, <1>2, <3>1
      <4> QED BY <1>7, <4>1, <4>2, <4>3 DEF Nth
    <3>2. CASE k # 1
      <4>1. /\ k - 1 \in DOMAIN s /\ 1 \in DOMAIN s /\ 1 \in DOMAIN p /\ p[1] = s[1]
        BY <1>1, <1>2, <3>2
      <4>2. before # Nil
        BY <1>1, <4>1 DEF Nth
      <4> QED BY <1>6, <1>7, <4>1, <4>2 DEF Nth
    <3> QED BY <3>1, <3>2
  <2>3. h2[q].last = Nth(p, Len(p))
    <3>0. Len(s) \in DOMAIN s /\ h[q].last = s[Len(s)]
      BY <1>1, <1>6 DEF Nth
    <3>1. CASE k = Len(s)
      <4>1. h[q].last = cell
        BY <1>1, <3>0, <3>1
      <4>2. Len(p) = k - 1 /\ (k - 1 \in DOMAIN p <=> k - 1 \in DOMAIN s)
        BY <1>1, <1>2, <3>1
      <4>3. k - 1 \in DOMAIN p => p[k - 1] = s[k - 1]
        BY <1>1, <1>2, <3>1
      <4> QED BY <1>7, <4>1, <4>2, <4>3 DEF Nth
    <3>2. CASE k # Len(s)
      <4>1. /\ Len(p) \in DOMAIN p /\ Len(p) \in k .. Len(s) - 1 /\ Len(p) + 1 = Len(s)
        BY <1>1, <1>2, <3>2
      <4>2. h[q].last # cell /\ p[Len(p)] = s[Len(s)]
        BY <1>2, <1>8, <3>0, <3>2, <4>1
      <4> QED BY <1>7, <3>0, <4>1, <4>2 DEF Nth
    <3> QED BY <3>1, <3>2
  <2> QED BY <2>1, <2>2, <2>3
<1>20. \A r \in Queues : h2[r].curr = h[r].curr
  BY <1>7
<1>21. ~m2[cell].live
  BY <1>9 DEF Free
<1>19. Represents(h2, m2, M)
  <2>1. \A r \in Queues :
          /\ Once(M[r]) /\ h2[r].count = Len(M[r])
          /\ h2[r].first = Nth(M[r], 1) /\ h2[r].last = Nth(M[r], Len(M[r]))
    <3> SUFFICES ASSUME NEW r \in Queues
                 PROVE  /\ Once(M[r]) /\ h2[r].count = Len(M[r])
                        /\ h2[r].first = Nth(M[r], 1) /\ h2[r].last = Nth(M[r], Len(M[r]))
      OBVIOUS
    <3>1. CASE r = q
      BY <1>4, <1>14, <1>18, <3>1
    <3>2. CASE r # q
      <4>1. M[r] = L[r] /\ h2[r] = h[r]
        BY <1>7, <1>14, <3>2
      <4> QED BY <4>1 DEF Represents
    <3> QED BY <3>1, <3>2
  <2>2. ASSUME NEW r \in Queues, NEW i \in DOMAIN M[r]
        PROVE  /\ m2[M[r][i]].live
               /\ m2[M[r][i]].next = Nth(M[r], i + 1) /\ m2[M[r][i]].prev = Nth(M[r], i - 1)
    <3>1. CASE r = q
      BY <1>14, <1>17, <3>1
    <3>2. CASE r # q
      <4>1. M[r] = L[r] /\ L[r][i] \in ToSet(L[r]) /\ L[r][i] \in Cells /\ L[r][i] # Nil
        BY <1>14, <3>2, ListsAre DEF ToSet
      <4>2. ToSet(L[r]) \cap ToSet(s) = {}
        BY <3>2 DEF Represents
      <4>3. before \in ToSet(s) \cup {Nil} /\ after \in ToSet(s) \cup {Nil}
        BY DEF Nth, ToSet
      <4>4. L[r][i] # before /\ L[r][i] # after /\ L[r][i] # cell
        BY <1>3, <3>2, <4>1, <4>2, <4>3
      <4>5. /\ m[L[r][i]].live /\ m[L[r][i]].next = Nth(L[r], i + 1)
            /\ m[L[r][i]].prev = Nth(L[r], i - 1)
        BY <4>1 DEF Represents
      <4> HIDE DEF before, after, cell
      <4> QED BY <1>11, <4>1, <4>4, <4>5
    <3> QED BY <3>1, <3>2
  <2>3. \A r, u \in Queues : r # u => ToSet(M[r]) \cap ToSet(M[u]) = {}
    <3>1. \A r \in Queues : ToSet(M[r]) \subseteq ToSet(L[r])
      BY <1>4, <1>14
    <3>2. \A r, u \in Queues : r # u => ToSet(L[r]) \cap ToSet(L[u]) = {}
      BY DEF Represents
    <3> QED BY <3>1, <3>2
  <2>4. \A c \in Cells : m2[c].live => \E r \in Queues : c \in ToSet(M[r])
    <3> SUFFICES ASSUME NEW c \in Cells, m2[c].live
                 PROVE  \E r \in Queues : c \in ToSet(M[r])
      OBVIOUS
    <3>1. c # cell
      BY <1>21
    <3>2. PICK r \in Queues : c \in ToSet(L[r])
      BY <1>11, <3>1 DEF Represents
    <3> QED BY <1>4, <1>14, <3>1, <3>2
  <2> QED BY <1>7, <1>10, <1>14, <2>1, <2>2, <2>3, <2>4 DEF Represents
<1> QED BY <1>11, <1>19, <1>20, <1>21 DEF t, h2, m2, M, p, Cut

LEMMA CursorKeeps ==
    ASSUME NEW h, NEW m, NEW L, Represents(h, m, L), NEW q \in Queues, NEW c \in Pointer
    PROVE  /\ Represents(Cursor(h, q, c), m, L)
           /\ Cursor(h, q, c)[q].curr = c
           /\ \A r \in Queues \ {q} : Cursor(h, q, c)[r] = h[r]
<1> DEFINE g == Cursor(h, q, c)
<1>1. h \in [Queues -> Header] /\ h[q] \in Header
  BY DEF Represents
<1>2. /\ DOMAIN g = Queues /\ g = [r \in Queues |-> g[r]]
      /\ g[q] = [h[q] EXCEPT !.curr = c] /\ \A r \in Queues \ {q} : g[r] = h[r]
  BY <1>1 DEF Cursor
<1> HIDE DEF g
<1>3. /\ g[q].first = h[q].first /\ g[q].last = h[q].last /\ g[q].count = h[q].count
      /\ g[q].curr = c /\ g[q] \in Header
  BY <1>1, <1>2 DEF Header
<1>4. /\ g \in [Queues -> Header]
      /\ \A r \in Queues : /\ g[r].first = h[r].first /\ g[r].last = h[r].last
                           /\ g[r].count = h[r].count
  BY <1>1, <1>2, <1>3
<1>5. Represents(g, m, L)
  BY <1>4 DEF Represents
<1> QED BY <1>2, <1>3, <1>5 DEF g

-----------------------------------------------------------------------------
(* What the queues keep.                                                   *)

\* Queues filled by priority are in its order.
Ordered(m, L) ==
    \A q \in Sorted : \A i \in DOMAIN L[q] :
       /\ m[L[q][i]].prio \in Prios
       /\ \A j \in DOMAIN L[q] : i <= j => m[L[q][i]].prio <= m[L[q][j]].prio

\* Where the cursors stand; those that were lost stand nowhere.
Stands(h, o, L, a) ==
    /\ o \subseteq Queues /\ a \in [Queues -> Nat]
    /\ \A q \in Queues :
          /\ a[q] \in 0 .. Len(L[q])
          /\ q \in o => a[q] = 0
          /\ q \notin o => h[q].curr = Nth(L[q], a[q])

Holds(h, m, o, L, a) == Represents(h, m, L) /\ Ordered(m, L) /\ Stands(h, o, L, a)

Lists == [q \in Queues |-> Chain(q)]
Positions == [q \in Queues |-> Position(q)]
Contained == [q \in Queues |-> Elements(q)]

ListInv == Holds(header, mem, lost, Lists, Positions)

View(m, s) == [i \in DOMAIN s |-> [content |-> m[s[i]].content, prio |-> m[s[i]].prio]]

LEMMA PassedIs ==
    ASSUME NEW s \in Seq(Cells), NEW Ends
    PROVE  \E k \in 1 .. Len(s) + 1 :
              /\ Passed(s, Ends).passed = Nth(s, k - 1) /\ Passed(s, Ends).stop = Nth(s, k)
              /\ \A i \in 1 .. k - 1 : s[i] \notin Ends
              /\ k <= Len(s) => s[k] \in Ends
<1> DEFINE stops == {i \in DOMAIN s : s[i] \in Ends}
           k == IF stops = {} THEN Len(s) + 1 ELSE CHOOSE i \in stops : \A j \in stops : i <= j
<1>1. DOMAIN s = 1 .. Len(s) /\ Len(s) \in Nat
  OBVIOUS
<1>2. Passed(s, Ends) = [passed |-> IF k = 1 THEN Nil ELSE s[k - 1],
                         stop |-> IF k > Len(s) THEN Nil ELSE s[k]]
  BY DEF Passed
<1>3. k \in 1 .. Len(s) + 1 /\ (\A i \in 1 .. k - 1 : s[i] \notin Ends)
      /\ (k <= Len(s) => s[k] \in Ends)
  <2>1. CASE stops = {}
    <3>1. k = Len(s) + 1 /\ \A i \in 1 .. Len(s) : s[i] \notin Ends
      BY <1>1, <2>1
    <3> HIDE DEF k
    <3> QED BY <1>1, <3>1
  <2>2. CASE stops # {}
    <3>1. \E i \in stops : \A j \in stops : i <= j
      <4>1. stops \in SUBSET Nat
        BY <1>1
      <4> HIDE DEF stops
      <4> QED BY <2>2, <4>1, LeastElement
    <3>2. k \in stops /\ \A j \in stops : k <= j
      <4>1. k = CHOOSE i \in stops : \A j \in stops : i <= j
        BY <2>2
      <4> HIDE DEF k, stops
      <4> QED BY <3>1, <4>1
    <3>3. k \in 1 .. Len(s) /\ s[k] \in Ends /\ \A j \in 1 .. Len(s) : s[j] \in Ends => k <= j
      <4> HIDE DEF k
      <4> QED BY <1>1, <3>2
    <3> HIDE DEF k, stops
    <3> QED BY <1>1, <3>3
  <2> QED BY <2>1, <2>2
<1> HIDE DEF k
<1>4. Passed(s, Ends).passed = Nth(s, k - 1)
  <2>1. k = 1 <=> k - 1 \notin DOMAIN s
    BY <1>1, <1>3
  <2> QED BY <1>2, <2>1 DEF Nth
<1>5. Passed(s, Ends).stop = Nth(s, k)
  <2>1. k > Len(s) <=> k \notin DOMAIN s
    BY <1>1, <1>3
  <2> QED BY <1>2, <2>1 DEF Nth
<1> QED BY <1>3, <1>4, <1>5

\* There is but one way to hold lists, and the walks of the code find it.
LEMMA Determined ==
    ASSUME NEW h, NEW m, NEW o, NEW L, NEW a, Holds(h, m, o, L, a)
    PROVE  /\ \A q \in Queues : From(m, h[q].first) = L[q]
           /\ \A q \in Queues :
                 (IF q \in o \/ h[q].curr = Nil THEN 0 ELSE Len(Back(m, h[q].curr))) = a[q]
<1>1. Represents(h, m, L) /\ Stands(h, o, L, a)
  BY DEF Holds
<1>2. \A q \in Queues : From(m, h[q].first) = L[q]
  BY <1>1, Forwards
<1>3. ASSUME NEW q \in Queues
      PROVE  (IF q \in o \/ h[q].curr = Nil THEN 0 ELSE Len(Back(m, h[q].curr))) = a[q]
  <2>1. CASE q \in o
    BY <1>1, <2>1 DEF Stands
  <2>2. CASE q \notin o
    <3>1. h[q].curr = Nth(L[q], a[q]) /\ a[q] \in 0 .. Len(L[q])
      BY <1>1, <2>2 DEF Stands
    <3>2. DOMAIN L[q] = 1 .. Len(L[q]) /\ Len(L[q]) \in Nat /\ \A i \in DOMAIN L[q] : L[q][i] # Nil
      BY <1>1, ListsAre
    <3>3. h[q].curr = Nil <=> a[q] = 0
      BY <3>1, <3>2 DEF Nth
    <3>4. Back(m, h[q].curr) = [i \in 1 .. a[q] |-> L[q][a[q] + 1 - i]]
      <4>1. Represents(h, m, L) /\ a[q] \in 0 .. Len(L[q])
        BY <1>1, <3>1
      <4>2. \A k \in 0 .. Len(L[q]) : Back(m, Nth(L[q], k)) = [i \in 1 .. k |-> L[q][k + 1 - i]]
        BY <4>1, Backwards
      <4>3. Back(m, Nth(L[q], a[q])) = [i \in 1 .. a[q] |-> L[q][a[q] + 1 - i]]
        BY <4>1, <4>2
      <4> QED BY <3>1, <4>3
    <3>5. Len(Back(m, h[q].curr)) = a[q]
      <4>1. a[q] \in Nat
        BY <3>1, <3>2
      <4> QED BY <3>4, <4>1
    <3> QED BY <2>2, <3>3, <3>5
  <2> QED BY <2>1, <2>2
<1> QED BY <1>2, <1>3

\* In a state that holds lists, the operators of List read them.
LEMMA Reads ==
    ASSUME NEW L, NEW a, Holds(header, mem, lost, L, a)
    PROVE  /\ \A q \in Queues : Chain(q) = L[q] /\ On(q) = ToSet(L[q])
           /\ \A q \in Queues : Elements(q) = View(mem, L[q]) /\ Position(q) = a[q]
           /\ L = Lists /\ a = Positions
<1>1. \A q \in Queues : Chain(q) = L[q]
  BY Determined DEF Chain
<1>2. \A q \in Queues : Position(q) = a[q]
  BY Determined DEF Position
<1>3. DOMAIN L = Queues /\ L = [q \in Queues |-> L[q]]
      /\ a = [q \in Queues |-> a[q]]
  BY DEF Holds, Represents, Stands
<1>4. a = Positions
  BY <1>2, <1>3 DEF Positions
<1> QED BY <1>1, <1>2, <1>3, <1>4 DEF On, Elements, View, Lists

-----------------------------------------------------------------------------
(* What is read in the cells of a list.                                    *)

LEMMA ViewIs ==
    ASSUME NEW s \in Seq(Cells), NEW m
    PROVE  \E S : /\ View(m, s) \in Seq(S)
                  /\ DOMAIN View(m, s) = DOMAIN s /\ Len(View(m, s)) = Len(s)
                  /\ \A i \in DOMAIN s : View(m, s)[i] = [content |-> m[s[i]].content,
                                                           prio |-> m[s[i]].prio]
<1> DEFINE v == View(m, s)
           S == {v[i] : i \in DOMAIN s}
<1>1. DOMAIN s = 1 .. Len(s) /\ Len(s) \in Nat
  OBVIOUS
<1>2. /\ v = [i \in 1 .. Len(s) |-> v[i]]
      /\ \A i \in DOMAIN s : v[i] = [content |-> m[s[i]].content, prio |-> m[s[i]].prio]
  BY <1>1 DEF View
<1> HIDE DEF v
<1>3. v \in [1 .. Len(s) -> S]
  BY <1>1, <1>2
<1> HIDE DEF S
<1>4. v \in Seq(S) /\ Len(v) = Len(s) /\ DOMAIN v = DOMAIN s
  BY <1>1, <1>3
<1> QED BY <1>2, <1>4 DEF v

LEMMA ViewSame ==
    ASSUME NEW s \in Seq(Cells), NEW m, NEW m2,
           \A i \in DOMAIN s : m2[s[i]].content = m[s[i]].content /\ m2[s[i]].prio = m[s[i]].prio
    PROVE  View(m2, s) = View(m, s)
  BY DEF View

LEMMA ViewInsert ==
    ASSUME NEW s \in Seq(Cells), NEW k \in 1 .. Len(s) + 1, NEW cell \in Cells,
           NEW m, NEW m2,
           \A i \in DOMAIN s : m2[s[i]].content = m[s[i]].content /\ m2[s[i]].prio = m[s[i]].prio
    PROVE  View(m2, InsertAt(s, k, cell)) =
              InsertAt(View(m, s), k, [content |-> m2[cell].content, prio |-> m2[cell].prio])
<1> DEFINE x == [content |-> m2[cell].content, prio |-> m2[cell].prio]
           z == InsertAt(s, k, cell)
           v == View(m, s)
           w == InsertAt(v, k, x)
           u == View(m2, z)
<1>0. DOMAIN s = 1 .. Len(s) /\ Len(s) \in Nat /\ k \in Nat /\ 1 <= k /\ k <= Len(s) + 1
  OBVIOUS
<1>1. PICK S : /\ v \in Seq(S) /\ DOMAIN v = DOMAIN s /\ Len(v) = Len(s)
               /\ \A i \in DOMAIN s : v[i] = [content |-> m[s[i]].content, prio |-> m[s[i]].prio]
  BY ViewIs
<1>2. /\ DOMAIN z = 1 .. Len(s) + 1 /\ z[k] = cell
      /\ \A i \in 1 .. k - 1 : z[i] = s[i]
      /\ \A i \in k + 1 .. Len(s) + 1 : z[i] = s[i - 1]
  <2>1. s \in Seq(Cells) /\ k \in 1 .. Len(s) + 1 /\ cell \in Cells
    OBVIOUS
  <2> HIDE DEF v, x, w, u
  <2>2. Inserted(InsertAt(s, k, cell), s, k, cell)
    BY ONLY <2>1, InsertIs
  <2> QED BY ONLY <2>2 DEF z, Inserted
<1> HIDE DEF v, x, z
<1>3. /\ w \in Seq(S \cup {x}) /\ Len(w) = Len(s) + 1 /\ w[k] = x
      /\ \A i \in 1 .. k - 1 : w[i] = v[i]
      /\ \A i \in k + 1 .. Len(s) + 1 : w[i] = v[i - 1]
  <2>1. v \in Seq(S \cup {x}) /\ x \in S \cup {x} /\ k \in 1 .. Len(v) + 1
    BY <1>1
  <2>2. /\ w \in Seq(S \cup {x}) /\ Len(w) = Len(v) + 1 /\ w[k] = x
        /\ \A i \in 1 .. k - 1 : w[i] = v[i]
        /\ \A i \in k + 1 .. Len(v) + 1 : w[i] = v[i - 1]
    BY ONLY <2>1, InsertElements DEF w
  <2> QED BY <1>1, <2>2
<1>4. /\ u = [i \in 1 .. Len(s) + 1 |-> u[i]]
      /\ \A i \in 1 .. Len(s) + 1 : u[i] = [content |-> m2[z[i]].content, prio |-> m2[z[i]].prio]
  BY <1>2 DEF View
<1> HIDE DEF w, u
<1>5. w = [i \in 1 .. Len(s) + 1 |-> w[i]]
  BY <1>3
<1>6. ASSUME NEW i \in 1 .. Len(s) + 1 PROVE u[i] = w[i]
  <2>1. CASE i < k
    <3>1. i \in 1 .. k - 1 /\ i \in DOMAIN s
      BY <1>0, <2>1
    <3>2. /\ u[i] = [content |-> m2[s[i]].content, prio |-> m2[s[i]].prio]
          /\ w[i] = [content |-> m[s[i]].content, prio |-> m[s[i]].prio]
      BY <1>1, <1>2, <1>3, <1>4, <3>1
    <3> QED BY <3>1, <3>2
  <2>2. CASE i = k
    BY <1>2, <1>3, <1>4, <2>2 DEF x
  <2>3. CASE i > k
    <3>1. i \in k + 1 .. Len(s) + 1 /\ i - 1 \in DOMAIN s
      BY <1>0, <2>3
    <3>2. /\ u[i] = [content |-> m2[s[i - 1]].content, prio |-> m2[s[i - 1]].prio]
          /\ w[i] = [content |-> m[s[i - 1]].content, prio |-> m[s[i - 1]].prio]
      BY <1>1, <1>2, <1>3, <1>4, <3>1
    <3> QED BY <3>1, <3>2
  <2> QED BY <1>0, <2>1, <2>2, <2>3
<1>7. u = w
  BY <1>4, <1>5, <1>6
<1> QED BY <1>7 DEF u, w, v, x, z

LEMMA ViewRemove ==
    ASSUME NEW s \in Seq(Cells), NEW k \in DOMAIN s, NEW m, NEW m2,
           \A i \in DOMAIN s : i # k => /\ m2[s[i]].content = m[s[i]].content
                                        /\ m2[s[i]].prio = m[s[i]].prio
    PROVE  View(m2, RemoveAt(s, k)) = RemoveAt(View(m, s), k)
<1> DEFINE z == RemoveAt(s, k)
           v == View(m, s)
           w == RemoveAt(v, k)
           u == View(m2, z)
<1>0. DOMAIN s = 1 .. Len(s) /\ Len(s) \in Nat /\ k \in Nat /\ 1 <= k /\ k <= Len(s)
  OBVIOUS
<1>1. PICK S : /\ v \in Seq(S) /\ DOMAIN v = DOMAIN s /\ Len(v) = Len(s)
               /\ \A i \in DOMAIN s : v[i] = [content |-> m[s[i]].content, prio |-> m[s[i]].prio]
  BY ViewIs
<1>2. /\ DOMAIN z = 1 .. Len(s) - 1
      /\ \A i \in 1 .. k - 1 : z[i] = s[i]
      /\ \A i \in k .. Len(s) - 1 : z[i] = s[i + 1]
  BY RemoveElements
<1> HIDE DEF v, z
<1>3. /\ w \in Seq(S) /\ Len(w) = Len(s) - 1
      /\ \A i \in 1 .. k - 1 : w[i] = v[i]
      /\ \A i \in k .. Len(s) - 1 : w[i] = v[i + 1]
  <2>1. v \in Seq(S) /\ k \in DOMAIN v
    BY <1>1
  <2>2. /\ w \in Seq(S) /\ Len(w) = Len(v) - 1
        /\ \A i \in 1 .. k - 1 : w[i] = v[i]
        /\ \A i \in k .. Len(v) - 1 : w[i] = v[i + 1]
    BY <2>1, RemoveElements
  <2> QED BY <1>1, <2>2
<1>4. /\ u = [i \in 1 .. Len(s) - 1 |-> u[i]]
      /\ \A i \in 1 .. Len(s) - 1 : u[i] = [content |-> m2[z[i]].content, prio |-> m2[z[i]].prio]
  BY <1>2 DEF View
<1> HIDE DEF w, u
<1>5. w = [i \in 1 .. Len(s) - 1 |-> w[i]]
  BY <1>3
<1>6. ASSUME NEW i \in 1 .. Len(s) - 1 PROVE u[i] = w[i]
  <2>1. CASE i < k
    <3>1. i \in 1 .. k - 1 /\ i \in DOMAIN s /\ i # k
      BY <1>0, <2>1
    <3>2. /\ u[i] = [content |-> m2[s[i]].content, prio |-> m2[s[i]].prio]
          /\ w[i] = [content |-> m[s[i]].content, prio |-> m[s[i]].prio]
      BY <1>1, <1>2, <1>3, <1>4, <3>1
    <3> QED BY <3>1, <3>2
  <2>2. CASE i >= k
    <3>1. i \in k .. Len(s) - 1 /\ i + 1 \in DOMAIN s /\ i + 1 # k
      BY <1>0, <2>2
    <3>2. /\ u[i] = [content |-> m2[s[i + 1]].content, prio |-> m2[s[i + 1]].prio]
          /\ w[i] = [content |-> m[s[i + 1]].content, prio |-> m[s[i + 1]].prio]
      BY <1>1, <1>2, <1>3, <1>4, <3>1
    <3> QED BY <3>1, <3>2
  <2> QED BY <1>0, <2>1, <2>2
<1>7. u = w
  BY <1>4, <1>5, <1>6
<1> QED BY <1>7 DEF u, w, v, z

-----------------------------------------------------------------------------
(* Linking and unlinking keep order and cursors.                           *)

LEMMA LinkHolds ==
    ASSUME NEW h, NEW m, NEW o, NEW L, NEW a, Holds(h, m, o, L, a), NEW q \in Queues,
           NEW k \in 1 .. Len(L[q]) + 1, NEW cell \in Cells, ~m[cell].live,
           NEW c \in Contents, NEW p \in Prios \cup {Unset},
           q \in Sorted => /\ p \in Prios
                           /\ \A i \in 1 .. k - 1 : m[L[q][i]].prio <= p
                           /\ \A i \in k .. Len(L[q]) : p <= m[L[q][i]].prio
    PROVE  LET e == [content |-> c, prio |-> p]
               t == LinkCell(h, m, q, cell, e, Nth(L[q], k - 1), Nth(L[q], k))
               M == Put(L, q, k, cell)
               b == Pushed(a, q, k)
           IN  /\ Holds(t.header, t.mem, o, M, b)
               /\ View(t.mem, M[q]) = InsertAt(View(m, L[q]), k, e)
               /\ \A r \in Queues \ {q} : View(t.mem, M[r]) = View(m, L[r])
<1> DEFINE e == [content |-> c, prio |-> p]
           t == LinkCell(h, m, q, cell, e, Nth(L[q], k - 1), Nth(L[q], k))
           h2 == t.header
           m2 == t.mem
           M == Put(L, q, k, cell)
           b == Pushed(a, q, k)
           s == L[q]
           z == InsertAt(s, k, cell)
<1>1. Represents(h, m, L) /\ Ordered(m, L) /\ Stands(h, o, L, a)
  BY DEF Holds
<1>2. e.content \in Contents \cup {Nil} /\ e.prio \in Prios \cup {Unset}
      /\ e.content = c /\ e.prio = p
  OBVIOUS
<1> HIDE DEF e
<1>3. /\ Represents(h2, m2, M)
      /\ \A r \in Queues : h2[r].curr = h[r].curr
      /\ m2[cell].content = c /\ m2[cell].prio = p
      /\ \A x \in Cells : x # cell => m2[x].content = m[x].content /\ m2[x].prio = m[x].prio
  BY <1>1, <1>2, LinkKeeps
<1> HIDE DEF h2, m2, t
<1>4. L \in [Queues -> Seq(Cells)] /\ M[q] = z /\ \A r \in Queues \ {q} : M[r] = L[r]
  BY <1>1 DEF Represents, Put
<1>5. \A r \in Queues : \A i \in DOMAIN L[r] :
         L[r][i] \in Cells /\ L[r][i] # cell
  <2> SUFFICES ASSUME NEW r \in Queues, NEW i \in DOMAIN L[r]
               PROVE  L[r][i] \in Cells /\ L[r][i] # cell
    OBVIOUS
  <2>1. L[r][i] \in Cells
    BY <1>1, ListsAre
  <2>2. m[L[r][i]].live
    BY <1>1 DEF Represents
  <2> QED BY <2>1, <2>2
<1>6. \A r \in Queues : \A i \in DOMAIN L[r] :
         m2[L[r][i]].content = m[L[r][i]].content /\ m2[L[r][i]].prio = m[L[r][i]].prio
  BY <1>3, <1>5
<1>7. \A r \in Queues \ {q} : View(m2, M[r]) = View(m, L[r])
  <2> SUFFICES ASSUME NEW r \in Queues \ {q} PROVE View(m2, L[r]) = View(m, L[r])
    BY <1>4
  <2>1. L[r] \in Seq(Cells)
    BY <1>4
  <2> QED BY <1>6, <2>1, ViewSame
<1>8. s \in Seq(Cells) /\ DOMAIN s = 1 .. Len(s) /\ Len(s) \in Nat
      /\ k \in Nat /\ 1 <= k /\ k <= Len(s) + 1 /\ k \in 1 .. Len(s) + 1
  <2>1. s \in Seq(Cells)
    BY <1>4
  <2> QED BY <2>1
<1>9. View(m2, z) = InsertAt(View(m, s), k, e)
  <2>1. \A i \in DOMAIN s : m2[s[i]].content = m[s[i]].content /\ m2[s[i]].prio = m[s[i]].prio
    BY <1>6
  <2>2. s \in Seq(Cells) /\ k \in 1 .. Len(s) + 1 /\ cell \in Cells
    BY <1>8
  <2> HIDE DEF s, m2
  <2>3. View(m2, InsertAt(s, k, cell)) =
          InsertAt(View(m, s), k, [content |-> m2[cell].content, prio |-> m2[cell].prio])
    BY ONLY <2>1, <2>2, ViewInsert
  <2>4. [content |-> m2[cell].content, prio |-> m2[cell].prio] = e
    BY <1>3 DEF e
  <2> QED BY <2>3, <2>4 DEF z
<1>10. /\ DOMAIN z = 1 .. Len(s) + 1 /\ z[k] = cell
       /\ \A i \in 1 .. k - 1 : z[i] = s[i]
       /\ \A i \in k + 1 .. Len(s) + 1 : z[i] = s[i - 1]
       /\ Len(z) = Len(s) + 1
  <2>1. s \in Seq(Cells) /\ k \in 1 .. Len(s) + 1 /\ cell \in Cells
    BY <1>8
  <2> HIDE DEF s
  <2>2. Inserted(InsertAt(s, k, cell), s, k, cell)
    BY ONLY <2>1, InsertIs
  <2> QED BY ONLY <2>2 DEF z, Inserted
<1> HIDE DEF z, M
<1>11. Stands(h2, o, M, b)
  <2>1. /\ o \subseteq Queues /\ a \in [Queues -> Nat]
        /\ \A r \in Queues : /\ a[r] \in 0 .. Len(L[r])
                             /\ r \in o => a[r] = 0
                             /\ r \notin o => h[r].curr = Nth(L[r], a[r])
    BY <1>1 DEF Stands
  <2>2. /\ b[q] = (IF k <= a[q] THEN a[q] + 1 ELSE a[q])
        /\ \A r \in Queues \ {q} : b[r] = a[r]
    BY <2>1 DEF Pushed
  <2>3. b \in [Queues -> Nat]
    BY <2>1 DEF Pushed
  <2> HIDE DEF b
  <2>4. /\ b[q] \in 0 .. Len(z) /\ (q \in o => b[q] = 0)
        /\ Nth(z, b[q]) = Nth(s, a[q])
    <3>1. a[q] \in Nat /\ a[q] <= Len(s)
      BY <1>8, <2>1
    <3>2. CASE k <= a[q]
      <4>1. /\ b[q] = a[q] + 1 /\ b[q] \in k + 1 .. Len(s) + 1 /\ b[q] - 1 = a[q]
            /\ a[q] \in DOMAIN s /\ b[q] \in DOMAIN z /\ a[q] # 0 /\ b[q] \in 0 .. Len(z)
        BY <1>8, <1>10, <2>2, <3>1, <3>2
      <4>2. z[b[q]] = s[a[q]]
        BY <1>10, <4>1
      <4> QED BY <2>1, <4>1, <4>2 DEF Nth
    <3>3. CASE k > a[q] /\ a[q] # 0
      <4>1. /\ b[q] = a[q] /\ a[q] \in 1 .. k - 1 /\ a[q] \in DOMAIN s /\ a[q] \in DOMAIN z
            /\ b[q] \in 0 .. Len(z)
        BY <1>8, <1>10, <2>2, <3>1, <3>3
      <4> QED BY <1>10, <2>1, <4>1 DEF Nth
    <3>4. CASE a[q] = 0
      <4>1. b[q] = 0 /\ 0 \notin DOMAIN s /\ 0 \notin DOMAIN z /\ b[q] \in 0 .. Len(z)
        BY <1>8, <1>10, <2>2, <3>4
      <4> QED BY <3>4, <4>1 DEF Nth
    <3> QED BY <1>8, <3>1, <3>2, <3>3, <3>4
  <2>5. \A r \in Queues : /\ b[r] \in 0 .. Len(M[r])
                          /\ r \in o => b[r] = 0
                          /\ r \notin o => h2[r].curr = Nth(M[r], b[r])
    <3> SUFFICES ASSUME NEW r \in Queues
                 PROVE  /\ b[r] \in 0 .. Len(M[r])
                        /\ r \in o => b[r] = 0
                        /\ r \notin o => h2[r].curr = Nth(M[r], b[r])
      OBVIOUS
    <3>1. CASE r = q
      BY <1>3, <1>4, <2>1, <2>4, <3>1
    <3>2. CASE r # q
      <4>1. M[r] = L[r] /\ b[r] = a[r] /\ h2[r].curr = h[r].curr
        BY <1>3, <1>4, <2>2, <3>2
      <4> QED BY <2>1, <4>1
    <3> QED BY <3>1, <3>2
  <2> QED BY <2>1, <2>3, <2>5 DEF Stands
<1>12. Ordered(m2, M)
  <2> SUFFICES ASSUME NEW r \in Sorted, NEW i \in DOMAIN M[r]
               PROVE  /\ m2[M[r][i]].prio \in Prios
                      /\ \A j \in DOMAIN M[r] : i <= j => m2[M[r][i]].prio <= m2[M[r][j]].prio
    BY DEF Ordered
  <2>0. r \in Queues
    BY DEF Queues
  <2>1. CASE r # q
    <3>1. M[r] = L[r] /\ \A j \in DOMAIN L[r] : m2[L[r][j]].prio = m[L[r][j]].prio
      BY <1>4, <1>6, <2>0, <2>1
    <3> QED BY <1>1, <3>1 DEF Ordered
  <2>2. CASE r = q
    <3>1. /\ \A j \in DOMAIN s : m[s[j]].prio \in Prios
          /\ \A j, l \in DOMAIN s : j <= l => m[s[j]].prio <= m[s[l]].prio
      BY <1>1, <2>2 DEF Ordered
    <3>2. /\ p \in Prios
          /\ \A j \in 1 .. k - 1 : m[s[j]].prio <= p
          /\ \A j \in k .. Len(s) : p <= m[s[j]].prio
      BY <2>2
    <3>3. ASSUME NEW j \in DOMAIN z
          PROVE  m2[z[j]].prio = IF j = k THEN p ELSE IF j < k THEN m[s[j]].prio ELSE m[s[j - 1]].prio
      <4>1. CASE j = k
        BY <1>3, <1>10, <4>1
      <4>2. CASE j < k
        <5>1. j \in 1 .. k - 1 /\ j \in DOMAIN s
          BY <1>8, <1>10, <4>2
        <5> QED BY <1>6, <1>10, <4>2, <5>1
      <4>3. CASE j > k
        <5>1. j \in k + 1 .. Len(s) + 1 /\ j - 1 \in DOMAIN s
          BY <1>8, <1>10, <4>3
        <5>2. ~(j < k) /\ j # k
          BY <1>8, <1>10, <4>3
        <5> QED BY <1>6, <1>10, <5>1, <5>2
      <4> QED BY <1>8, <1>10, <4>1, <4>2, <4>3
    <3>4. p \in Nat /\ \A j \in DOMAIN s : m[s[j]].prio \in Nat
      BY <3>1, <3>2, QueuesAssumption
    <3> DEFINE f == [j \in DOMAIN s |-> m[s[j]].prio]
               g == [j \in DOMAIN z |-> m2[z[j]].prio]
    <3>5. /\ f \in [1 .. Len(s) -> Nat] /\ \A j, l \in 1 .. Len(s) : j <= l => f[j] <= f[l]
          /\ \A j \in 1 .. k - 1 : f[j] <= p
          /\ \A j \in k .. Len(s) : p <= f[j]
          /\ \A j \in 1 .. Len(s) : f[j] \in Prios
      <4>1. \A j \in 1 .. k - 1 : j \in DOMAIN s
        BY <1>8
      <4>2. \A j \in k .. Len(s) : j \in DOMAIN s
        BY <1>8
      <4> HIDE DEF s
      <4> QED BY <1>8, <3>1, <3>2, <3>4, <4>1, <4>2
    <3>6. \A j \in 1 .. Len(s) + 1 : g[j] = IF j = k THEN p ELSE IF j < k THEN f[j] ELSE f[j - 1]
      <4> SUFFICES ASSUME NEW j \in 1 .. Len(s) + 1
                   PROVE  g[j] = IF j = k THEN p ELSE IF j < k THEN f[j] ELSE f[j - 1]
        OBVIOUS
      <4>1. j < k => j \in DOMAIN s
        BY <1>8
      <4>2. j # k /\ ~(j < k) => j - 1 \in DOMAIN s
        BY <1>8
      <4> QED BY <1>10, <3>3, <4>1, <4>2
    <3> HIDE DEF f, g, s
    <3>7. \A j \in 1 .. Len(s) + 1 : g[j] \in Prios
      <4> SUFFICES ASSUME NEW j \in 1 .. Len(s) + 1 PROVE g[j] \in Prios
        OBVIOUS
      <4>1. j < k => j \in 1 .. Len(s)
        BY <1>8
      <4>2. j # k /\ ~(j < k) => j - 1 \in 1 .. Len(s)
        BY <1>8
      <4> QED BY <3>2, <3>5, <3>6, <4>1, <4>2
    <3>8. \A j, l \in 1 .. Len(s) + 1 : j <= l => g[j] <= g[l]
      <4> SUFFICES ASSUME NEW j \in 1 .. Len(s) + 1, NEW l \in 1 .. Len(s) + 1, j <= l
                   PROVE  g[j] <= g[l]
        OBVIOUS
      <4>1. CASE l < k
        <5>1. j < k /\ j # k /\ l # k /\ j \in 1 .. Len(s) /\ l \in 1 .. Len(s)
          BY <1>8, <4>1
        <5> QED BY <3>5, <3>6, <4>1, <5>1
      <4>2. CASE l = k
        <5>1. CASE j = k
          BY <3>4, <3>6, <4>2, <5>1
        <5>2. CASE j # k
          <6>1. j < k /\ j \in 1 .. k - 1
            BY <1>8, <4>2, <5>2
          <6> QED BY <3>5, <3>6, <4>2, <5>2, <6>1
        <5> QED BY <5>1, <5>2
      <4>3. CASE l > k
        <5>1. ~(l < k) /\ l # k /\ l - 1 \in 1 .. Len(s) /\ l - 1 \in k .. Len(s)
          BY <1>8, <4>3
        <5>2. CASE j < k
          <6>1. j # k /\ j \in 1 .. Len(s) /\ j <= l - 1
            BY <1>8, <4>3, <5>2
          <6> QED BY <3>5, <3>6, <5>1, <5>2, <6>1
        <5>3. CASE j = k
          BY <3>5, <3>6, <5>1, <5>3
        <5>4. CASE j > k
          <6>1. ~(j < k) /\ j # k /\ j - 1 \in 1 .. Len(s) /\ j - 1 <= l - 1
            BY <1>8, <5>4
          <6> QED BY <3>5, <3>6, <5>1, <6>1
        <5> QED BY <1>8, <5>2, <5>3, <5>4
      <4> QED BY <1>8, <4>1, <4>2, <4>3
    <3>9. \A j \in DOMAIN z : g[j] = m2[z[j]].prio
      BY DEF g
    <3>10. M[r] = z
      BY <1>4, <2>2
    <3> QED BY <1>10, <3>7, <3>8, <3>9, <3>10
  <2> QED BY <2>1, <2>2
<1>13. Holds(h2, m2, o, M, b)
  BY <1>3, <1>11, <1>12 DEF Holds
<1>14. View(m2, M[q]) = InsertAt(View(m, L[q]), k, e)
  BY <1>4, <1>9
<1> QED BY <1>7, <1>13, <1>14 DEF h2, m2, t, M, e

LEMMA UnlinkOrdered ==
    ASSUME NEW h, NEW m, NEW L, Represents(h, m, L), Ordered(m, L),
           NEW q \in Queues, NEW k \in DOMAIN L[q]
    PROVE  LET t == UnlinkCell(h, m, q, L[q][k], Nth(L[q], k - 1), Nth(L[q], k + 1))
               M == Cut(L, q, k)
           IN  /\ Represents(t.header, t.mem, M) /\ Ordered(t.mem, M)
               /\ \A r \in Queues : t.header[r].curr = h[r].curr
               /\ View(t.mem, M[q]) = RemoveAt(View(m, L[q]), k)
               /\ \A r \in Queues \ {q} : View(t.mem, M[r]) = View(m, L[r])
<1> DEFINE t == UnlinkCell(h, m, q, L[q][k], Nth(L[q], k - 1), Nth(L[q], k + 1))
           h2 == t.header
           m2 == t.mem
           M == Cut(L, q, k)
           s == L[q]
           z == RemoveAt(s, k)
<1>1. /\ Represents(h2, m2, M)
      /\ \A r \in Queues : h2[r].curr = h[r].curr
      /\ \A x \in Cells : x # L[q][k] => m2[x].content = m[x].content /\ m2[x].prio = m[x].prio
  BY UnlinkKeeps
<1> HIDE DEF h2, m2, t
<1>2. L \in [Queues -> Seq(Cells)] /\ M[q] = z /\ \A r \in Queues \ {q} : M[r] = L[r]
  BY DEF Represents, Cut
<1>3. \A r \in Queues : \A i \in DOMAIN L[r] :
         L[r][i] \in Cells /\ (L[r][i] = L[q][k] => r = q /\ i = k)
  <2> SUFFICES ASSUME NEW r \in Queues, NEW i \in DOMAIN L[r]
               PROVE  L[r][i] \in Cells /\ (L[r][i] = L[q][k] => r = q /\ i = k)
    OBVIOUS
  <2>1. L[r][i] \in Cells
    BY ListsAre
  <2>2. L[r][i] = L[q][k] => r = q
    <3>1. L[r][i] \in ToSet(L[r]) /\ L[q][k] \in ToSet(L[q])
      BY DEF ToSet
    <3>2. r # q => ToSet(L[r]) \cap ToSet(L[q]) = {}
      BY DEF Represents
    <3> QED BY <3>1, <3>2
  <2>3. Once(L[q])
    BY DEF Represents
  <2> QED BY <2>1, <2>2, <2>3 DEF Once
<1>4. \A r \in Queues : \A i \in DOMAIN L[r] :
         r # q \/ i # k => /\ m2[L[r][i]].content = m[L[r][i]].content
                           /\ m2[L[r][i]].prio = m[L[r][i]].prio
  BY <1>1, <1>3
<1>5. \A r \in Queues \ {q} : View(m2, M[r]) = View(m, L[r])
  <2> SUFFICES ASSUME NEW r \in Queues \ {q} PROVE View(m2, L[r]) = View(m, L[r])
    BY <1>2
  <2>1. L[r] \in Seq(Cells)
    BY <1>2
  <2> QED BY <1>4, <2>1, ViewSame
<1>6. s \in Seq(Cells) /\ DOMAIN s = 1 .. Len(s) /\ Len(s) \in Nat
      /\ k \in Nat /\ 1 <= k /\ k <= Len(s) /\ k \in DOMAIN s
  <2>1. s \in Seq(Cells)
    BY <1>2
  <2> QED BY <2>1
<1>7. View(m2, z) = RemoveAt(View(m, s), k)
  <2>1. \A i \in DOMAIN s : i # k => /\ m2[s[i]].content = m[s[i]].content
                                     /\ m2[s[i]].prio = m[s[i]].prio
    BY <1>4
  <2>2. s \in Seq(Cells) /\ k \in DOMAIN s
    BY <1>6
  <2> HIDE DEF s, m2
  <2> QED BY ONLY <2>1, <2>2, ViewRemove DEF z
<1>8. /\ DOMAIN z = 1 .. Len(s) - 1
      /\ \A i \in 1 .. k - 1 : z[i] = s[i]
      /\ \A i \in k .. Len(s) - 1 : z[i] = s[i + 1]
  <2>1. s \in Seq(Cells) /\ k \in DOMAIN s
    BY <1>6
  <2> HIDE DEF s
  <2> QED BY ONLY <2>1, RemoveElements DEF z
<1> HIDE DEF z, M
<1>9. Ordered(m2, M)
  <2> SUFFICES ASSUME NEW r \in Sorted, NEW i \in DOMAIN M[r]
               PROVE  /\ m2[M[r][i]].prio \in Prios
                      /\ \A j \in DOMAIN M[r] : i <= j => m2[M[r][i]].prio <= m2[M[r][j]].prio
    BY DEF Ordered
  <2>0. r \in Queues
    BY DEF Queues
  <2>1. CASE r # q
    <3>1. M[r] = L[r] /\ \A j \in DOMAIN L[r] : m2[L[r][j]].prio = m[L[r][j]].prio
      BY <1>2, <1>4, <2>0, <2>1
    <3> QED BY <3>1 DEF Ordered
  <2>2. CASE r = q
    <3> DEFINE from(j) == IF j < k THEN j ELSE j + 1
    <3>1. \A j \in DOMAIN z : from(j) \in DOMAIN s /\ from(j) # k /\ z[j] = s[from(j)]
      BY <1>6, <1>8
    <3>2. \A j, l \in DOMAIN z : j <= l => from(j) <= from(l)
      BY <1>6, <1>8
    <3> HIDE DEF from
    <3>3. \A j \in DOMAIN z : m2[z[j]].prio = m[s[from(j)]].prio
      BY <1>4, <3>1
    <3>4. /\ \A j \in DOMAIN s : m[s[j]].prio \in Prios
          /\ \A j, l \in DOMAIN s : j <= l => m[s[j]].prio <= m[s[l]].prio
      BY <2>2 DEF Ordered
    <3> HIDE DEF s
    <3>5. M[r] = z
      BY <1>2, <2>2
    <3> QED BY <3>1, <3>2, <3>3, <3>4, <3>5
  <2> QED BY <2>1, <2>2
<1>10. View(m2, M[q]) = RemoveAt(View(m, L[q]), k)
  BY <1>2, <1>7
<1> QED BY <1>1, <1>5, <1>9, <1>10 DEF h2, m2, t, M

\* Positions after an element has left.
LEMMA Shifted ==
    ASSUME NEW s \in Seq(Cells), NEW k \in DOMAIN s, NEW n \in 0 .. Len(s)
    PROVE  /\ n < k => n \in 0 .. Len(RemoveAt(s, k)) /\ Nth(RemoveAt(s, k), n) = Nth(s, n)
           /\ n > k => /\ n - 1 \in 0 .. Len(RemoveAt(s, k))
                       /\ Nth(RemoveAt(s, k), n - 1) = Nth(s, n)
           /\ n = k => n - 1 \in 0 .. Len(RemoveAt(s, k))
<1> DEFINE z == RemoveAt(s, k)
<1>1. DOMAIN s = 1 .. Len(s) /\ Len(s) \in Nat /\ k \in Nat /\ 1 <= k /\ k <= Len(s)
      /\ n \in Nat /\ n <= Len(s)
  OBVIOUS
<1>2. /\ DOMAIN z = 1 .. Len(s) - 1 /\ Len(z) = Len(s) - 1
      /\ \A i \in 1 .. k - 1 : z[i] = s[i]
      /\ \A i \in k .. Len(s) - 1 : z[i] = s[i + 1]
  BY RemoveElements
<1> HIDE DEF z
<1>3. n < k => n \in 0 .. Len(z) /\ Nth(z, n) = Nth(s, n)
  <2> SUFFICES ASSUME n < k PROVE n \in 0 .. Len(z) /\ Nth(z, n) = Nth(s, n)
    OBVIOUS
  <2>1. n \in 0 .. Len(z) /\ (n \in DOMAIN z <=> n \in DOMAIN s)
    BY <1>1, <1>2
  <2>2. n \in DOMAIN z => z[n] = s[n]
    BY <1>1, <1>2
  <2> QED BY <2>1, <2>2 DEF Nth
<1>4. n > k => n - 1 \in 0 .. Len(z) /\ Nth(z, n - 1) = Nth(s, n)
  <2> SUFFICES ASSUME n > k PROVE n - 1 \in 0 .. Len(z) /\ Nth(z, n - 1) = Nth(s, n)
    OBVIOUS
  <2>1. n - 1 \in 0 .. Len(z) /\ n - 1 \in DOMAIN z /\ n \in DOMAIN s
        /\ n - 1 \in k .. Len(s) - 1 /\ (n - 1) + 1 = n
    BY <1>1, <1>2
  <2>2. z[n - 1] = s[n]
    BY <1>2, <2>1
  <2> QED BY <2>1, <2>2 DEF Nth
<1>5. n = k => n - 1 \in 0 .. Len(z)
  BY <1>1, <1>2
<1> QED BY <1>3, <1>4, <1>5 DEF z

\* The cursor and its element, or another element.
LEMMA CursorAt ==
    ASSUME NEW h, NEW m, NEW o, NEW L, NEW a, Holds(h, m, o, L, a),
           NEW q \in Queues, q \notin o, NEW k \in DOMAIN L[q]
    PROVE  h[q].curr = L[q][k] <=> a[q] = k
<1>1. /\ L[q] \in Seq(Cells) /\ \A i \in DOMAIN L[q] : L[q][i] # Nil
      /\ Once(L[q])
  <2>1. Represents(h, m, L)
    BY DEF Holds
  <2>2. Once(L[q])
    BY <2>1 DEF Represents
  <2> QED BY <2>1, <2>2, ListsAre
<1>2. h[q].curr = Nth(L[q], a[q])
  BY DEF Holds, Stands
<1> QED BY <1>1, <1>2 DEF Nth, Once

LEMMA LosingIs ==
    ASSUME NEW h, NEW m, NEW o, NEW L, NEW a, Holds(h, m, o, L, a),
           NEW q \in Queues, NEW k \in DOMAIN L[q]
    PROVE  Losing(h, o, q, L[q][k]) = IF k = a[q] THEN o \cup {q} ELSE o
<1>1. CASE q \in o
  BY <1>1 DEF Losing
<1>2. CASE q \notin o
  <2>1. h[q].curr = L[q][k] <=> a[q] = k
    BY <1>2, CursorAt
  <2> QED BY <2>1 DEF Losing
<1> QED BY <1>1, <1>2

LEMMA TakeHolds ==
    ASSUME NEW h, NEW m, NEW o, NEW L, NEW a, Holds(h, m, o, L, a), NEW q \in Queues,
           NEW k \in DOMAIN L[q]
    PROVE  LET t == UnlinkCell(h, m, q, L[q][k], Nth(L[q], k - 1), Nth(L[q], k + 1))
               M == Cut(L, q, k)
               b == Taken(a, q, k)
               u == Losing(h, o, q, L[q][k])
           IN  Holds(t.header, t.mem, u, M, b)
<1> DEFINE t == UnlinkCell(h, m, q, L[q][k], Nth(L[q], k - 1), Nth(L[q], k + 1))
           h2 == t.header
           m2 == t.mem
           M == Cut(L, q, k)
           b == Taken(a, q, k)
           u == Losing(h, o, q, L[q][k])
           z == RemoveAt(L[q], k)
<1>1. Represents(h, m, L) /\ Ordered(m, L)
  BY DEF Holds
<1>2. /\ Represents(h2, m2, M) /\ Ordered(m2, M)
      /\ \A r \in Queues : h2[r].curr = h[r].curr
  BY <1>1, UnlinkOrdered
<1> HIDE DEF h2, m2, t
<1>3. L \in [Queues -> Seq(Cells)] /\ M[q] = z /\ \A r \in Queues \ {q} : M[r] = L[r]
  BY <1>1 DEF Represents, Cut
<1> HIDE DEF M
<1>4. /\ o \subseteq Queues /\ a \in [Queues -> Nat]
      /\ \A r \in Queues : /\ a[r] \in 0 .. Len(L[r])
                           /\ r \in o => a[r] = 0
                           /\ r \notin o => h[r].curr = Nth(L[r], a[r])
  BY DEF Holds, Stands
<1>5. L[q] \in Seq(Cells) /\ Len(L[q]) \in Nat /\ k \in Nat /\ 1 <= k
      /\ a[q] \in Nat /\ a[q] \in 0 .. Len(L[q])
  <2>1. L[q] \in Seq(Cells)
    BY <1>3
  <2> QED BY <1>4, <2>1
<1>6. u = IF k = a[q] THEN o \cup {q} ELSE o
  BY LosingIs
<1> HIDE DEF u
<1>7. /\ b[q] = IF k = a[q] THEN 0 ELSE IF k < a[q] THEN a[q] - 1 ELSE a[q]
      /\ \A r \in Queues \ {q} : b[r] = a[r]
  BY <1>4 DEF Taken
<1>8. b \in [Queues -> Nat]
  <2>1. (IF k = a[q] THEN 0 ELSE IF k < a[q] THEN a[q] - 1 ELSE a[q]) \in Nat
    BY <1>5
  <2> QED BY <1>4, <2>1 DEF Taken
<1> HIDE DEF b
<1>9. b[q] \in 0 .. Len(z) /\ (q \in u => b[q] = 0) /\ (q \notin u => Nth(z, b[q]) = Nth(L[q], a[q]))
  <2>0. /\ a[q] < k => a[q] \in 0 .. Len(z) /\ Nth(z, a[q]) = Nth(L[q], a[q])
        /\ a[q] > k => a[q] - 1 \in 0 .. Len(z) /\ Nth(z, a[q] - 1) = Nth(L[q], a[q])
    BY <1>5, Shifted
  <2>1. CASE k = a[q]
    <3>1. b[q] = 0 /\ q \in u
      BY <1>6, <1>7, <2>1
    <3>2. Len(z) \in Nat
      BY <1>5, RemoveElements
    <3> QED BY <3>1, <3>2
  <2>2. CASE k < a[q]
    <3>1. b[q] = a[q] - 1 /\ u = o /\ a[q] > k /\ a[q] # 0
      BY <1>5, <1>6, <1>7, <2>2
    <3> QED BY <1>4, <2>0, <3>1
  <2>3. CASE a[q] < k
    <3>1. b[q] = a[q] /\ u = o
      BY <1>5, <1>6, <1>7, <2>3
    <3> QED BY <1>4, <2>0, <2>3, <3>1
  <2> QED BY <1>5, <2>1, <2>2, <2>3
<1>10. Stands(h2, u, M, b)
  <2>1. o \subseteq u /\ u \subseteq o \cup {q} /\ u \subseteq Queues
    BY <1>4, <1>6
  <2>2. ASSUME NEW r \in Queues
        PROVE  /\ b[r] \in 0 .. Len(M[r])
               /\ r \in u => b[r] = 0
               /\ r \notin u => h2[r].curr = Nth(M[r], b[r])
    <3>1. CASE r = q
      BY <1>2, <1>3, <1>4, <1>9, <2>1, <3>1
    <3>2. CASE r # q
      <4>1. M[r] = L[r] /\ b[r] = a[r] /\ h2[r].curr = h[r].curr /\ (r \in u <=> r \in o)
        BY <1>2, <1>3, <1>7, <2>1, <3>2
      <4> QED BY <1>4, <4>1
    <3> QED BY <3>1, <3>2
  <2> QED BY <1>8, <2>1, <2>2 DEF Stands
<1>11. Holds(h2, m2, u, M, b)
  BY <1>2, <1>10 DEF Holds
<1> QED BY <1>11 DEF h2, m2, t, M, b, u

LEMMA ExtractHolds ==
    ASSUME NEW h, NEW m, NEW o, NEW L, NEW a, Holds(h, m, o, L, a), NEW q \in Queues,
           NEW k \in DOMAIN L[q]
    PROVE  LET t == UnlinkCell(h, m, q, L[q][k], Nth(L[q], k - 1), Nth(L[q], k + 1))
               g == Cursor(t.header, q, IF h[q].curr = L[q][k] THEN Nth(L[q], k - 1) ELSE h[q].curr)
               M == Cut(L, q, k)
               b == Extracted(a, q, k)
           IN  Holds(g, t.mem, o, M, b)
<1> DEFINE t == UnlinkCell(h, m, q, L[q][k], Nth(L[q], k - 1), Nth(L[q], k + 1))
           h2 == t.header
           m2 == t.mem
           c == IF h[q].curr = L[q][k] THEN Nth(L[q], k - 1) ELSE h[q].curr
           g == Cursor(h2, q, c)
           M == Cut(L, q, k)
           b == Extracted(a, q, k)
           z == RemoveAt(L[q], k)
<1>1. Represents(h, m, L) /\ Ordered(m, L)
  BY DEF Holds
<1>2. /\ Represents(h2, m2, M) /\ Ordered(m2, M)
      /\ \A r \in Queues : h2[r].curr = h[r].curr
  BY <1>1, UnlinkOrdered
<1> HIDE DEF h2, m2, t
<1>3. L \in [Queues -> Seq(Cells)] /\ M[q] = z /\ \A r \in Queues \ {q} : M[r] = L[r]
  BY <1>1 DEF Represents, Cut
<1> HIDE DEF M
<1>4. /\ o \subseteq Queues /\ a \in [Queues -> Nat]
      /\ \A r \in Queues : /\ a[r] \in 0 .. Len(L[r])
                           /\ r \in o => a[r] = 0
                           /\ r \notin o => h[r].curr = Nth(L[r], a[r])
  BY DEF Holds, Stands
<1>5. L[q] \in Seq(Cells) /\ Len(L[q]) \in Nat /\ k \in Nat /\ 1 <= k
      /\ a[q] \in Nat /\ a[q] \in 0 .. Len(L[q]) /\ k <= Len(L[q]) /\ k - 1 \in 0 .. Len(L[q])
  <2>1. L[q] \in Seq(Cells)
    BY <1>3
  <2> QED BY <1>4, <2>1
<1>6. c \in Pointer
  <2>1. \A i : Nth(L[q], i) \in Pointer
    BY <1>1, ListsAre
  <2>2. h[q].curr \in Pointer
    BY <1>1 DEF Represents, Header
  <2> QED BY <2>1, <2>2
<1>7. /\ Represents(g, m2, M) /\ g[q].curr = c
      /\ \A r \in Queues \ {q} : g[r].curr = h[r].curr
  <2>1. /\ Represents(g, m2, M) /\ g[q].curr = c
        /\ \A r \in Queues \ {q} : g[r] = h2[r]
    <3> HIDE DEF c
    <3> QED BY <1>2, <1>6, CursorKeeps
  <2> QED BY <1>2, <2>1
<1> HIDE DEF g
<1>9. /\ b[q] = IF k <= a[q] THEN a[q] - 1 ELSE a[q]
      /\ \A r \in Queues \ {q} : b[r] = a[r]
  BY <1>4 DEF Extracted
<1>10. b \in [Queues -> Nat]
  <2>1. (IF k <= a[q] THEN a[q] - 1 ELSE a[q]) \in Nat
    BY <1>5
  <2> QED BY <1>4, <2>1 DEF Extracted
<1> HIDE DEF b
<1>11. b[q] \in 0 .. Len(z) /\ (q \in o => b[q] = 0) /\ (q \notin o => Nth(z, b[q]) = c)
  <2>0. /\ a[q] < k => a[q] \in 0 .. Len(z) /\ Nth(z, a[q]) = Nth(L[q], a[q])
        /\ a[q] > k => a[q] - 1 \in 0 .. Len(z) /\ Nth(z, a[q] - 1) = Nth(L[q], a[q])
    BY <1>5, Shifted
  <2>1. q \notin o => (h[q].curr = L[q][k] <=> a[q] = k)
    BY CursorAt
  <2>2. CASE k = a[q]
    <3>1. b[q] = k - 1 /\ q \notin o
      BY <1>4, <1>5, <1>9, <2>2
    <3>2. k - 1 < k
      BY <1>5
    <3>3. k - 1 \in 0 .. Len(z) /\ Nth(z, k - 1) = Nth(L[q], k - 1)
      BY <1>5, <3>2, Shifted
    <3> QED BY <2>1, <2>2, <3>1, <3>3
  <2>3. CASE k < a[q]
    <3>1. b[q] = a[q] - 1 /\ a[q] > k /\ a[q] # 0 /\ a[q] # k
      BY <1>5, <1>9, <2>3
    <3> QED BY <1>4, <2>0, <2>1, <3>1
  <2>4. CASE a[q] < k
    <3>1. b[q] = a[q] /\ a[q] # k
      BY <1>5, <1>9, <2>4
    <3> QED BY <1>4, <2>0, <2>1, <2>4, <3>1
  <2> QED BY <1>5, <2>2, <2>3, <2>4
<1> HIDE DEF c
<1>12. Stands(g, o, M, b)
  <2>1. ASSUME NEW r \in Queues
        PROVE  /\ b[r] \in 0 .. Len(M[r])
               /\ r \in o => b[r] = 0
               /\ r \notin o => g[r].curr = Nth(M[r], b[r])
    <3>1. CASE r = q
      BY <1>3, <1>7, <1>11, <3>1
    <3>2. CASE r # q
      <4>1. M[r] = L[r] /\ b[r] = a[r] /\ g[r].curr = h[r].curr
        BY <1>3, <1>7, <1>9, <3>2
      <4> QED BY <1>4, <4>1
    <3> QED BY <3>1, <3>2
  <2> QED BY <1>4, <1>10, <2>1 DEF Stands
<1>13. Holds(g, m2, o, M, b)
  BY <1>2, <1>7, <1>12 DEF Holds
<1> QED BY <1>13 DEF g, h2, m2, t, M, b, c

-----------------------------------------------------------------------------
(* What an operation does to the sequence.                                 *)

LEMMA StepReads ==
    ASSUME NEW L, NEW a, NEW M, NEW b,
           Holds(header, mem, lost, L, a), Holds(header', mem', lost', M, b)
    PROVE  /\ ListInv'
           /\ Contained = [q \in Queues |-> View(mem, L[q])]
           /\ Contained' = [q \in Queues |-> View(mem', M[q])]
           /\ Positions = a /\ Positions' = b
           /\ Positions \in [Queues -> Nat]
<1>1. Contained = [q \in Queues |-> View(mem, L[q])] /\ Positions = a
  BY Reads DEF Contained
<1>2. \A q \in Queues : Chain(q)' = M[q]
  BY Determined DEF Chain
<1>3. \A q \in Queues : Position(q)' = b[q]
  BY Determined DEF Position
<1>4. M = [q \in Queues |-> M[q]] /\ b = [q \in Queues |-> b[q]] /\ a \in [Queues -> Nat]
  BY DEF Holds, Represents, Stands
<1>5. Lists' = M
  BY <1>2, <1>4 DEF Lists
<1>6. Positions' = b
  BY <1>3, <1>4 DEF Positions
<1>7. Contained' = [q \in Queues |-> View(mem', M[q])]
  BY <1>2 DEF Contained, Elements, View
<1>8. ListInv'
  BY <1>5, <1>6 DEF ListInv
<1> QED BY <1>1, <1>4, <1>6, <1>7, <1>8

LEMMA InsertStep ==
    ASSUME NEW L, NEW a, Holds(header, mem, lost, L, a), NEW q \in Queues,
           NEW k \in 1 .. Len(L[q]) + 1,
           NEW c \in Contents, NEW p \in Prios \cup {Unset},
           q \in Sorted => /\ p \in Prios
                           /\ \A i \in 1 .. k - 1 : mem[L[q][i]].prio <= p
                           /\ \A i \in k .. Len(L[q]) : p <= mem[L[q][i]].prio,
           Insert(q, [content |-> c, prio |-> p], Nth(L[q], k - 1), Nth(L[q], k))
    PROVE  ListInv' /\ Abstract!Insert(q, k, [content |-> c, prio |-> p])
<1> DEFINE e == [content |-> c, prio |-> p]
<1>1. PICK cell \in Cells :
         /\ ~mem[cell].live
         /\ Becomes(LinkCell(header, mem, q, cell, e, Nth(L[q], k - 1), Nth(L[q], k)))
         /\ lost' = lost
  BY DEF Insert
<1> DEFINE M == Put(L, q, k, cell)
           b == Pushed(a, q, k)
<1>2. /\ Holds(header', mem', lost', M, b)
      /\ View(mem', M[q]) = InsertAt(View(mem, L[q]), k, e)
      /\ \A r \in Queues \ {q} : View(mem', M[r]) = View(mem, L[r])
  <2> DEFINE t == LinkCell(header, mem, q, cell, e, Nth(L[q], k - 1), Nth(L[q], k))
  <2>1. /\ Holds(t.header, t.mem, lost, M, b)
        /\ View(t.mem, M[q]) = InsertAt(View(mem, L[q]), k, e)
        /\ \A r \in Queues \ {q} : View(t.mem, M[r]) = View(mem, L[r])
    BY <1>1, LinkHolds
  <2>2. header' = t.header /\ mem' = t.mem
    BY <1>1 DEF Becomes
  <2> HIDE DEF t, M, b, e
  <2> QED BY <1>1, <2>1, <2>2
<1> HIDE DEF M, e
<1>3. /\ ListInv'
      /\ Contained = [r \in Queues |-> View(mem, L[r])]
      /\ Contained' = [r \in Queues |-> View(mem', M[r])]
      /\ Positions = a /\ Positions' = b
  <2> HIDE DEF b
  <2> QED BY <1>2, StepReads
<1>4. Contained' = [Contained EXCEPT ![q] = InsertAt(@, k, e)]
  BY <1>2, <1>3
<1>5. Positions' = [Positions EXCEPT ![q] = IF k <= @ THEN @ + 1 ELSE @]
  BY <1>3 DEF Pushed
<1>6. Abstract!Insert(q, k, e)
  BY <1>1, <1>4, <1>5, Zenon DEF Abstract!Insert, Abstract!InsertAt, InsertAt, Contained, Positions
<1> QED BY <1>3, <1>6 DEF e

LEMMA TakeStep ==
    ASSUME NEW L, NEW a, Holds(header, mem, lost, L, a), NEW q \in Queues,
           NEW k \in DOMAIN L[q],
           Becomes(UnlinkCell(header, mem, q, L[q][k], Nth(L[q], k - 1), Nth(L[q], k + 1))),
           LosesCursor(q, L[q][k])
    PROVE  ListInv' /\ Abstract!Take(q, k)
<1> DEFINE t == UnlinkCell(header, mem, q, L[q][k], Nth(L[q], k - 1), Nth(L[q], k + 1))
           M == Cut(L, q, k)
           b == Taken(a, q, k)
           u == Losing(header, lost, q, L[q][k])
<1>1. /\ Holds(t.header, t.mem, u, M, b)
      /\ u = IF k = a[q] THEN lost \cup {q} ELSE lost
  <2>1. Holds(t.header, t.mem, u, M, b)
    BY TakeHolds
  <2>2. u = IF k = a[q] THEN lost \cup {q} ELSE lost
    <3>1. Losing(header, lost, q, L[q][k]) = IF k = a[q] THEN lost \cup {q} ELSE lost
      BY ONLY Holds(header, mem, lost, L, a), q \in Queues, k \in DOMAIN L[q], LosingIs
    <3> QED BY <3>1
  <2> QED BY <2>1, <2>2
<1>2. header' = t.header /\ mem' = t.mem /\ lost' = u
  BY DEF Becomes, LosesCursor, Losing
<1>3. /\ View(t.mem, M[q]) = RemoveAt(View(mem, L[q]), k)
      /\ \A r \in Queues \ {q} : View(t.mem, M[r]) = View(mem, L[r])
  <2>1. Represents(header, mem, L) /\ Ordered(mem, L)
    BY DEF Holds
  <2>2. /\ Represents(t.header, t.mem, M) /\ Ordered(t.mem, M)
        /\ \A r \in Queues : t.header[r].curr = header[r].curr
        /\ View(t.mem, M[q]) = RemoveAt(View(mem, L[q]), k)
        /\ \A r \in Queues \ {q} : View(t.mem, M[r]) = View(mem, L[r])
    BY <2>1, UnlinkOrdered
  <2> QED BY <2>2
<1> HIDE DEF t, M, u
<1>4. /\ ListInv'
      /\ Contained = [r \in Queues |-> View(mem, L[r])]
      /\ Contained' = [r \in Queues |-> View(mem', M[r])]
      /\ Positions = a /\ Positions' = b
  <2> HIDE DEF b
  <2>1. Holds(header', mem', lost', M, b)
    BY <1>1, <1>2
  <2> QED BY <2>1, StepReads
<1>5. Contained' = [Contained EXCEPT ![q] = RemoveAt(@, k)]
  BY <1>2, <1>3, <1>4
<1>6. Positions' = [Positions EXCEPT ![q] = IF k = @ THEN 0 ELSE IF k < @ THEN @ - 1 ELSE @]
  BY <1>4 DEF Taken
<1>7. k \in DOMAIN Contained[q]
  <2>1. Contained[q] = View(mem, L[q])
    BY <1>4
  <2> QED BY <2>1 DEF View
<1>8. lost' = IF k = Positions[q] THEN lost \cup {q} ELSE lost
  BY <1>1, <1>2, <1>4
<1>9. Abstract!Take(q, k)
  BY <1>5, <1>6, <1>7, <1>8, Zenon DEF Abstract!RemoveAt, RemoveAt, Abstract!Take, Contained, Positions
<1> QED BY <1>4, <1>9

LEMMA ExtractStep ==
    ASSUME NEW L, NEW a, Holds(header, mem, lost, L, a), NEW q \in Queues,
           NEW k \in DOMAIN L[q], NEW c,
           mem[L[q][k]].content = c,
           \A i \in 1 .. k - 1 : mem[L[q][i]].content # c,
           NEW s,
           s = UnlinkCell(header, mem, q, L[q][k], Nth(L[q], k - 1), Nth(L[q], k + 1)),
           header' = Cursor(s.header, q, IF header[q].curr = L[q][k] THEN Nth(L[q], k - 1)
                                                                     ELSE header[q].curr),
           mem' = s.mem, lost' = lost
    PROVE  ListInv' /\ Abstract!Extract(q, c)
<1> DEFINE g == Cursor(s.header, q, IF header[q].curr = L[q][k] THEN Nth(L[q], k - 1) ELSE header[q].curr)
           M == Cut(L, q, k)
           b == Extracted(a, q, k)
<1>1. Holds(g, s.mem, lost, M, b)
  BY ExtractHolds
<1>2. header' = g /\ mem' = s.mem
  OBVIOUS
<1>3. /\ View(s.mem, M[q]) = RemoveAt(View(mem, L[q]), k)
      /\ \A r \in Queues \ {q} : View(s.mem, M[r]) = View(mem, L[r])
  <2>1. Represents(header, mem, L) /\ Ordered(mem, L)
    BY DEF Holds
  <2> QED BY <2>1, UnlinkOrdered
<1> HIDE DEF g, M
<1>4. /\ ListInv'
      /\ Contained = [r \in Queues |-> View(mem, L[r])]
      /\ Contained' = [r \in Queues |-> View(mem', M[r])]
      /\ Positions = a /\ Positions' = b
  <2> HIDE DEF b
  <2>1. Holds(header', mem', lost', M, b)
    BY <1>1, <1>2
  <2> QED BY <2>1, StepReads
<1>5. Contained' = [Contained EXCEPT ![q] = RemoveAt(@, k)]
  BY <1>2, <1>3, <1>4
<1>6. Positions' = [Positions EXCEPT ![q] = IF k <= @ THEN @ - 1 ELSE @]
  BY <1>4 DEF Extracted
<1>7. Contained[q] = View(mem, L[q])
  BY <1>4
<1>8. /\ k \in DOMAIN Contained[q] /\ Contained[q][k].content = c
      /\ \A i \in 1 .. k - 1 : Contained[q][i].content # c
  <2>1. L[q] \in Seq(Cells)
    BY DEF Holds, Represents
  <2>2. k \in DOMAIN L[q] /\ \A i \in 1 .. k - 1 : i \in DOMAIN L[q]
    BY <2>1
  <2> QED BY <1>7, <2>2 DEF View
<1>9. Abstract!Extract(q, c)
  BY <1>5, <1>6, <1>8, Zenon DEF Abstract!RemoveAt, RemoveAt, Abstract!Extract, Contained, Positions
<1> QED BY <1>4, <1>9

LEMMA PlaceStep ==
    ASSUME NEW L, NEW a, Holds(header, mem, lost, L, a), NEW q \in Queues,
           NEW n \in 0 .. Len(L[q]), SetCursor(q, Nth(L[q], n))
    PROVE  ListInv' /\ Abstract!Place(q, n)
<1> DEFINE c == Nth(L[q], n)
           b == [a EXCEPT ![q] = n]
<1>0. Represents(header, mem, L) /\ Ordered(mem, L)
  BY DEF Holds
<1>1. L[q] \in Seq(Cells) /\ c \in Pointer /\ n \in Nat
  BY <1>0, ListsAre
<1>2. header' = Cursor(header, q, c) /\ lost' = lost \ {q} /\ mem' = mem
  BY DEF SetCursor, Cursor
<1> HIDE DEF c
<1>3. /\ Represents(header', mem', L) /\ header'[q].curr = c
      /\ \A r \in Queues \ {q} : header'[r] = header[r]
  BY <1>0, <1>1, <1>2, CursorKeeps
<1>4. Stands(header', lost', L, b)
  <2>1. /\ lost \subseteq Queues /\ a \in [Queues -> Nat]
        /\ \A r \in Queues : /\ a[r] \in 0 .. Len(L[r])
                             /\ r \in lost => a[r] = 0
                             /\ r \notin lost => header[r].curr = Nth(L[r], a[r])
    BY DEF Holds, Stands
  <2>2. b \in [Queues -> Nat] /\ b[q] = n /\ \A r \in Queues \ {q} : b[r] = a[r]
    BY <1>1, <2>1
  <2> HIDE DEF b
  <2>3. ASSUME NEW r \in Queues
        PROVE  /\ b[r] \in 0 .. Len(L[r])
               /\ r \in lost' => b[r] = 0
               /\ r \notin lost' => header'[r].curr = Nth(L[r], b[r])
    <3>1. CASE r = q
      BY <1>2, <1>3, <2>2, <3>1 DEF c
    <3>2. CASE r # q
      BY <1>2, <1>3, <2>1, <2>2, <3>2
    <3> QED BY <3>1, <3>2
  <2>4. lost' \subseteq Queues
    BY <1>2, <2>1
  <2> QED BY <2>2, <2>3, <2>4 DEF Stands
<1>5. Ordered(mem', L)
  BY <1>0, <1>2
<1>6. Holds(header', mem', lost', L, b)
  BY <1>3, <1>4, <1>5 DEF Holds
<1>7. /\ ListInv'
      /\ Contained = [r \in Queues |-> View(mem, L[r])]
      /\ Contained' = [r \in Queues |-> View(mem', L[r])]
      /\ Positions = a /\ Positions' = b
  <2> HIDE DEF b
  <2> QED BY <1>6, StepReads
<1>8. Contained' = Contained /\ Positions' = [Positions EXCEPT ![q] = n] /\ lost' = lost \ {q}
  BY <1>2, <1>7
<1>9. Abstract!Place(q, n)
  BY <1>8 DEF Abstract!Place, Contained, Positions
<1> QED BY <1>7, <1>9

LEMMA ClearStep ==
    ASSUME NEW L, NEW a, Holds(header, mem, lost, L, a), NEW q \in Queues,
           remove_queue_elements(q)
    PROVE  ListInv' /\ Abstract!Clear(q)
<1> DEFINE M == [L EXCEPT ![q] = <<>>]
           b == [a EXCEPT ![q] = 0]
<1>1. Represents(header, mem, L) /\ Ordered(mem, L)
  BY DEF Holds
<1>2. /\ header' = [header EXCEPT ![q] = [first |-> Nil, last |-> Nil, curr |-> Nil, count |-> 0]]
      /\ mem' = [c \in Cells |-> IF c \in ToSet(L[q]) THEN Free ELSE mem[c]]
      /\ lost' = lost \ {q}
  BY Reads DEF remove_queue_elements
<1>3. /\ header \in [Queues -> Header] /\ mem \in [Cells -> Item] /\ L \in [Queues -> Seq(Cells)]
  BY <1>1 DEF Represents
<1>4. /\ M \in [Queues -> Seq(Cells)] /\ M[q] = <<>> /\ \A r \in Queues \ {q} : M[r] = L[r]
  <2>1. <<>> \in Seq(Cells)
    OBVIOUS
  <2> QED BY <1>3, <2>1
<1> HIDE DEF M
<1>5. /\ header'[q] = [first |-> Nil, last |-> Nil, curr |-> Nil, count |-> 0]
      /\ \A r \in Queues \ {q} : header'[r] = header[r]
      /\ header' \in [Queues -> Header]
  <2>1. [first |-> Nil, last |-> Nil, curr |-> Nil, count |-> 0] \in Header
    BY DEF Header, Pointer
  <2> QED BY <1>2, <1>3, <2>1
<1>6. mem' \in [Cells -> Item]
  <2>1. Free \in Item
    BY DEF Free, Item, Pointer
  <2> QED BY <1>2, <1>3, <2>1
<1>7. \A r \in Queues \ {q} : \A i \in DOMAIN L[r] :
         L[r][i] \in Cells /\ mem'[L[r][i]] = mem[L[r][i]]
  <2> SUFFICES ASSUME NEW r \in Queues \ {q}, NEW i \in DOMAIN L[r]
               PROVE  L[r][i] \in Cells /\ mem'[L[r][i]] = mem[L[r][i]]
    OBVIOUS
  <2>1. L[r][i] \in Cells
    BY <1>1, ListsAre
  <2>2. L[r][i] \notin ToSet(L[q])
    <3>1. L[r][i] \in ToSet(L[r])
      BY DEF ToSet
    <3>2. ToSet(L[r]) \cap ToSet(L[q]) = {}
      BY <1>1 DEF Represents
    <3> QED BY <3>1, <3>2
  <2> QED BY <1>2, <2>1, <2>2
<1>8. DOMAIN <<>> = {} /\ Len(<<>>) = 0 /\ ToSet(<<>>) = {}
  BY DEF ToSet
<1>9. Represents(header', mem', M)
  <2>1. ASSUME NEW r \in Queues
        PROVE  /\ Once(M[r]) /\ header'[r].count = Len(M[r])
               /\ header'[r].first = Nth(M[r], 1) /\ header'[r].last = Nth(M[r], Len(M[r]))
    <3>1. CASE r = q
      BY <1>4, <1>5, <1>8, <3>1 DEF Once, Nth
    <3>2. CASE r # q
      <4>1. M[r] = L[r] /\ header'[r] = header[r]
        BY <1>4, <1>5, <3>2
      <4> QED BY <1>1, <4>1 DEF Represents
    <3> QED BY <3>1, <3>2
  <2>2. ASSUME NEW r \in Queues, NEW i \in DOMAIN M[r]
        PROVE  /\ mem'[M[r][i]].live
               /\ mem'[M[r][i]].next = Nth(M[r], i + 1) /\ mem'[M[r][i]].prev = Nth(M[r], i - 1)
    <3>1. r # q
      BY <1>4, <1>8
    <3>2. M[r] = L[r] /\ mem'[L[r][i]] = mem[L[r][i]]
      BY <1>4, <1>7, <3>1
    <3> QED BY <1>1, <3>2 DEF Represents
  <2>3. \A r, u \in Queues : r # u => ToSet(M[r]) \cap ToSet(M[u]) = {}
    <3>1. \A r \in Queues : ToSet(M[r]) \subseteq ToSet(L[r])
      BY <1>4, <1>8
    <3>2. \A r, u \in Queues : r # u => ToSet(L[r]) \cap ToSet(L[u]) = {}
      BY <1>1 DEF Represents
    <3> QED BY <3>1, <3>2
  <2>4. \A c \in Cells : mem'[c].live => \E r \in Queues : c \in ToSet(M[r])
    <3> SUFFICES ASSUME NEW c \in Cells, mem'[c].live
                 PROVE  \E r \in Queues : c \in ToSet(M[r])
      OBVIOUS
    <3>1. c \notin ToSet(L[q]) /\ mem[c].live
      BY <1>2 DEF Free
    <3>2. PICK r \in Queues : c \in ToSet(L[r])
      BY <1>1, <3>1 DEF Represents
    <3> QED BY <1>4, <3>1, <3>2
  <2> QED BY <1>4, <1>5, <1>6, <2>1, <2>2, <2>3, <2>4 DEF Represents
<1>10. Ordered(mem', M)
  <2> SUFFICES ASSUME NEW r \in Sorted, NEW i \in DOMAIN M[r]
               PROVE  /\ mem'[M[r][i]].prio \in Prios
                      /\ \A j \in DOMAIN M[r] : i <= j => mem'[M[r][i]].prio <= mem'[M[r][j]].prio
    BY DEF Ordered
  <2>1. r \in Queues /\ r # q
    BY <1>4, <1>8 DEF Queues
  <2>2. M[r] = L[r] /\ \A j \in DOMAIN L[r] : mem'[L[r][j]] = mem[L[r][j]]
    BY <1>4, <1>7, <2>1
  <2> QED BY <1>1, <2>2 DEF Ordered
<1>11. Stands(header', lost', M, b)
  <2>1. /\ lost \subseteq Queues /\ a \in [Queues -> Nat]
        /\ \A r \in Queues : /\ a[r] \in 0 .. Len(L[r])
                             /\ r \in lost => a[r] = 0
                             /\ r \notin lost => header[r].curr = Nth(L[r], a[r])
    BY DEF Holds, Stands
  <2>2. b \in [Queues -> Nat] /\ b[q] = 0 /\ \A r \in Queues \ {q} : b[r] = a[r]
    BY <2>1
  <2> HIDE DEF b
  <2>3. ASSUME NEW r \in Queues
        PROVE  /\ b[r] \in 0 .. Len(M[r])
               /\ r \in lost' => b[r] = 0
               /\ r \notin lost' => header'[r].curr = Nth(M[r], b[r])
    <3>1. CASE r = q
      BY <1>4, <1>5, <1>8, <2>2, <3>1 DEF Nth
    <3>2. CASE r # q
      <4>1. M[r] = L[r] /\ b[r] = a[r] /\ header'[r] = header[r] /\ (r \in lost' <=> r \in lost)
        BY <1>2, <1>4, <1>5, <2>2, <3>2
      <4> QED BY <2>1, <4>1
    <3> QED BY <3>1, <3>2
  <2>4. lost' \subseteq Queues
    BY <1>2, <2>1
  <2> QED BY <2>2, <2>3, <2>4 DEF Stands
<1>12. Holds(header', mem', lost', M, b)
  BY <1>9, <1>10, <1>11 DEF Holds
<1>13. /\ ListInv'
       /\ Contained = [r \in Queues |-> View(mem, L[r])]
       /\ Contained' = [r \in Queues |-> View(mem', M[r])]
       /\ Positions = a /\ Positions' = b
  <2> HIDE DEF b
  <2> QED BY <1>12, StepReads
<1>14. View(mem', M[q]) = <<>>
  <2>1. View(mem', M[q]) = [i \in {} |-> [content |-> mem'[M[q][i]].content,
                                          prio |-> mem'[M[q][i]].prio]]
    BY <1>4, <1>8 DEF View
  <2> QED BY <2>1
<1>15. \A r \in Queues \ {q} : View(mem', M[r]) = View(mem, L[r])
  BY <1>4, <1>7 DEF View
<1>16. Contained' = [Contained EXCEPT ![q] = <<>>]
  BY <1>13, <1>14, <1>15
<1>17. Positions' = [Positions EXCEPT ![q] = 0] /\ lost' = lost \ {q}
  BY <1>2, <1>13
<1>18. Abstract!Clear(q)
  BY <1>16, <1>17 DEF Abstract!Clear, Contained, Positions
<1> QED BY <1>13, <1>18

-----------------------------------------------------------------------------
(* Moving a queue onto another.                                            *)

\* The states of the loop of move_queue_elements.
Moves(z, N, q, r) ==
    LET moved[n \in 0 .. N] == IF n = 0 THEN z ELSE MoveFirst(moved[n - 1], q, r)
    IN  moved

LEMMA MovesAre ==
    ASSUME NEW z, NEW N \in Nat, NEW q, NEW r
    PROVE  /\ Moves(z, N, q, r)[0] = z
           /\ \A n \in 1 .. N : Moves(z, N, q, r)[n] = MoveFirst(Moves(z, N, q, r)[n - 1], q, r)
<1> DEFINE Runs(f, n) == f = [i \in 0 .. n |-> IF i = 0 THEN z ELSE MoveFirst(f[i - 1], q, r)]
           Good == {n \in Nat : \E f : Runs(f, n)}
           moved[n \in 0 .. N] == IF n = 0 THEN z ELSE MoveFirst(moved[n - 1], q, r)
<1>1. 0 \in Good
  <2> DEFINE f == [i \in 0 .. 0 |-> z]
  <2>1. \A i \in 0 .. 0 : i = 0
    OBVIOUS
  <2>2. Runs(f, 0)
    BY <2>1
  <2> QED BY <2>2
<1>2. ASSUME NEW n \in Nat, n \in Good PROVE n + 1 \in Good
  <2>1. PICK f : Runs(f, n)
    BY <1>2
  <2> DEFINE g == [i \in 0 .. n + 1 |-> IF i = n + 1 THEN MoveFirst(f[n], q, r) ELSE f[i]]
  <2>2. \A i \in 0 .. n : g[i] = f[i]
    OBVIOUS
  <2>3. ASSUME NEW i \in 0 .. n + 1
        PROVE  g[i] = IF i = 0 THEN z ELSE MoveFirst(g[i - 1], q, r)
    <3>1. CASE i = n + 1
      <4>1. n \in 0 .. n /\ (n + 1) - 1 = n /\ n + 1 # 0
        OBVIOUS
      <4> QED BY <2>2, <3>1, <4>1
    <3>2. CASE i = 0
      <4>1. 0 \in 0 .. n
        OBVIOUS
      <4>2. f[0] = z
        BY <2>1, <4>1
      <4> QED BY <2>2, <3>2, <4>1, <4>2
    <3>3. CASE i # 0 /\ i # n + 1
      <4>1. i \in 0 .. n /\ i - 1 \in 0 .. n
        BY <3>3
      <4>2. f[i] = MoveFirst(f[i - 1], q, r)
        BY <2>1, <3>3, <4>1
      <4>3. g[i] = f[i] /\ g[i - 1] = f[i - 1]
        BY <2>2, <4>1
      <4> HIDE DEF g
      <4> QED BY <3>3, <4>2, <4>3
    <3> QED BY <3>1, <3>2, <3>3
  <2>4. Runs(g, n + 1)
    <3>1. DOMAIN g = 0 .. n + 1 /\ g = [i \in 0 .. n + 1 |-> g[i]]
      OBVIOUS
    <3> HIDE DEF g
    <3> QED BY <2>3, <3>1
  <2> HIDE DEF g, Runs
  <2>5. \E x : Runs(x, n + 1)
    BY <2>4
  <2> QED BY <2>5
<1> HIDE DEF Good
<1>3. Nat \subseteq Good
  BY <1>1, <1>2, SetInduction
<1>4. PICK f : Runs(f, N)
  BY <1>3 DEF Good
<1>5. moved = [i \in 0 .. N |-> IF i = 0 THEN z ELSE MoveFirst(moved[i - 1], q, r)]
  BY <1>4
<1> HIDE DEF moved
<1>6. moved[0] = z /\ \A n \in 1 .. N : moved[n] = MoveFirst(moved[n - 1], q, r)
  <2>1. 0 \in 0 .. N /\ \A n \in 1 .. N : n \in 0 .. N /\ n # 0
    OBVIOUS
  <2> QED BY <1>5, <2>1
<1>7. moved = Moves(z, N, q, r)
  BY Zenon DEF moved, Moves
<1> HIDE DEF moved
<1> QED BY <1>6, <1>7

LEMMA Corners ==
    ASSUME NEW s \in Seq(Cells)
    PROVE  Nth(s, 0) = Nil /\ Nth(s, Len(s) + 1) = Nil /\ Len(s) \in Nat
           /\ (s # <<>> => 1 \in DOMAIN s /\ Len(s) \in DOMAIN s)
           /\ (s = <<>> => Len(s) = 0)
  BY DEF Nth

\* One element moves.
LEMMA MoveOne ==
    ASSUME NEW z, NEW L, Represents(z.header, z.mem, L), NEW q \in Queues, NEW r \in Queues,
           q # r, L[q] # <<>>
    PROVE  LET u == MoveFirst(z, q, r)
               M == Put(Cut(L, q, 1), r, Len(L[r]) + 1, L[q][1])
           IN  /\ Represents(u.header, u.mem, M)
               /\ \A x \in Queues : u.header[x].curr = z.header[x].curr
               /\ \A c \in Cells : u.mem[c].content = z.mem[c].content
               /\ u.mem[L[q][1]].prio = Unset
               /\ \A c \in Cells : c # L[q][1] => u.mem[c].prio = z.mem[c].prio
<1> DEFINE h == z.header
           m == z.mem
           e == L[q][1]
           t == UnlinkCell(h, m, q, e, Nth(L[q], 0), Nth(L[q], 2))
           K == Cut(L, q, 1)
           w == [content |-> m[e].content, prio |-> Unset]
           k == Len(L[r]) + 1
           u == LinkCell(t.header, t.mem, r, e, w, Nth(K[r], k - 1), Nth(K[r], k))
<1>1. /\ L \in [Queues -> Seq(Cells)] /\ L[q] \in Seq(Cells) /\ L[r] \in Seq(Cells)
      /\ m \in [Cells -> Item]
  BY DEF Represents
<1>2. /\ 1 \in DOMAIN L[q] /\ Nth(L[q], 0) = Nil /\ e \in Cells /\ e # Nil /\ Len(L[r]) \in Nat
  BY <1>1, Corners, CellsCounted
<1>3. /\ Represents(t.header, t.mem, K)
      /\ \A x \in Queues : t.header[x].curr = h[x].curr
      /\ ~t.mem[e].live
      /\ \A c \in Cells : c # e => t.mem[c].content = m[c].content /\ t.mem[c].prio = m[c].prio
  <2>1. 1 - 1 = 0 /\ 1 + 1 = 2
    OBVIOUS
  <2>2. t = UnlinkCell(h, m, q, L[q][1], Nth(L[q], 1 - 1), Nth(L[q], 1 + 1))
    BY <2>1
  <2> DEFINE v == UnlinkCell(h, m, q, L[q][1], Nth(L[q], 1 - 1), Nth(L[q], 1 + 1))
  <2>3. /\ Represents(v.header, v.mem, K)
        /\ \A x \in Queues : v.header[x].curr = h[x].curr
        /\ ~v.mem[L[q][1]].live
        /\ \A c \in Cells : c # L[q][1] => v.mem[c].content = m[c].content /\ v.mem[c].prio = m[c].prio
    BY <1>2, UnlinkKeeps
  <2> HIDE DEF v
  <2> QED BY <2>2, <2>3 DEF v
<1>4. K[r] = L[r]
  BY <1>1 DEF Cut
<1>5. w.content \in Contents \cup {Nil} /\ w.prio \in Prios \cup {Unset}
      /\ w.content = m[e].content /\ w.prio = Unset
  BY <1>1, <1>2 DEF Item
<1>6. k \in 1 .. Len(K[r]) + 1
  BY <1>2, <1>4
<1> HIDE DEF t, K, w, k
<1>7. /\ Represents(u.header, u.mem, Put(K, r, k, e))
      /\ \A x \in Queues : u.header[x].curr = t.header[x].curr
      /\ u.mem[e].content = w.content /\ u.mem[e].prio = w.prio
      /\ \A c \in Cells : c # e => u.mem[c].content = t.mem[c].content /\ u.mem[c].prio = t.mem[c].prio
  BY <1>2, <1>3, <1>5, <1>6, LinkKeeps
<1>8. u = MoveFirst(z, q, r)
  <2>1. z.header[q].first = e
    <3>1. h[q].first = Nth(L[q], 1)
      BY DEF Represents
    <3> QED BY <1>2, <3>1 DEF Nth
  <2>2. m[e].next = Nth(L[q], 2)
    <3>1. m[L[q][1]].next = Nth(L[q], 1 + 1)
      BY <1>2 DEF Represents
    <3> QED BY <3>1
  <2>3. t = UnlinkCell(h, m, q, e, Nil, m[e].next)
    BY <1>2, <2>2 DEF t
  <2>4. t.header[r].last = Nth(K[r], k - 1)
    <3>1. t.header[r].last = Nth(K[r], Len(K[r]))
      BY <1>3 DEF Represents
    <3>2. k - 1 = Len(K[r])
      BY <1>2, <1>4 DEF k
    <3> QED BY <3>1, <3>2
  <2>5. Nth(K[r], k) = Nil
    BY <1>1, <1>4, Corners DEF k
  <2>6. MoveFirst(z, q, r) = LinkCell(t.header, t.mem, r, e, w, t.header[r].last, Nil)
    BY <2>1, <2>3, Zenon DEF MoveFirst, w, h, m
  <2> QED BY <2>4, <2>5, <2>6
<1> HIDE DEF u
<1>9. \A c \in Cells : u.mem[c].content = m[c].content
  BY <1>3, <1>5, <1>7
<1>10. \A x \in Queues : u.header[x].curr = h[x].curr
  BY <1>3, <1>7
<1>11. u.mem[e].prio = Unset /\ \A c \in Cells : c # e => u.mem[c].prio = m[c].prio
  BY <1>3, <1>5, <1>7
<1>12. Represents(u.header, u.mem, Put(Cut(L, q, 1), r, Len(L[r]) + 1, L[q][1]))
  BY <1>7 DEF K, k
<1> QED BY <1>8, <1>9, <1>10, <1>11, <1>12

\* z, after n of the elements of L[q] went to the end of L[r].
MovedTo(z, n, h, m, L, q, r, M) ==
    /\ Represents(z.header, z.mem, M)
    /\ \A x \in Queues \ {q, r} : M[x] = L[x]
    /\ Len(M[q]) = Len(L[q]) - n /\ Len(M[r]) = Len(L[r]) + n
    /\ \A i \in 1 .. Len(L[q]) - n : M[q][i] = L[q][n + i]
    /\ \A i \in 1 .. Len(L[r]) : M[r][i] = L[r][i]
    /\ \A i \in 1 .. n : M[r][Len(L[r]) + i] = L[q][i]
    /\ \A x \in Queues : z.header[x].curr = h[x].curr
    /\ \A c \in Cells : z.mem[c].content = m[c].content
    /\ \A i \in 1 .. n : z.mem[L[q][i]].prio = Unset
    /\ \A c \in Cells : c \notin ToSet(L[q]) => z.mem[c].prio = m[c].prio

LEMMA MovesOn ==
    ASSUME NEW z, NEW n \in Nat, NEW h, NEW m, NEW L, NEW q \in Queues, NEW r \in Queues, NEW M,
           Represents(h, m, L), q # r, n < Len(L[q]), MovedTo(z, n, h, m, L, q, r, M)
    PROVE  MovedTo(MoveFirst(z, q, r), n + 1, h, m, L, q, r,
                   Put(Cut(M, q, 1), r, Len(M[r]) + 1, M[q][1]))
<1> DEFINE u == MoveFirst(z, q, r)
           e == M[q][1]
           K == Cut(M, q, 1)
           k == Len(M[r]) + 1
           W == Put(K, r, k, e)
           a == Len(L[q])
           b == Len(L[r])
<1>1. /\ L[q] \in Seq(Cells) /\ L[r] \in Seq(Cells) /\ a \in Nat /\ b \in Nat
      /\ DOMAIN L[q] = 1 .. a /\ DOMAIN L[r] = 1 .. b
      /\ \A i \in DOMAIN L[q] : L[q][i] \in Cells
  BY ListsAre
<1>2. /\ M[q] \in Seq(Cells) /\ M[r] \in Seq(Cells) /\ M \in [Queues -> Seq(Cells)]
  BY DEF MovedTo, Represents
<1>3. /\ \A x \in Queues \ {q, r} : M[x] = L[x]
      /\ Len(M[q]) = a - n /\ Len(M[r]) = b + n
      /\ \A i \in 1 .. a - n : M[q][i] = L[q][n + i]
      /\ \A i \in 1 .. b : M[r][i] = L[r][i]
      /\ \A i \in 1 .. n : M[r][b + i] = L[q][i]
      /\ \A x \in Queues : z.header[x].curr = h[x].curr
      /\ \A c \in Cells : z.mem[c].content = m[c].content
      /\ \A i \in 1 .. n : z.mem[L[q][i]].prio = Unset
      /\ \A c \in Cells : c \notin ToSet(L[q]) => z.mem[c].prio = m[c].prio
  BY DEF MovedTo
<1> HIDE DEF a, b
<1>4. /\ n + 1 <= a /\ 1 \in 1 .. a - n /\ n + 1 \in 1 .. a /\ k = b + n + 1
      /\ DOMAIN M[q] = 1 .. a - n /\ DOMAIN M[r] = 1 .. b + n /\ M[q] # <<>>
  <2>1. n + 1 <= a /\ 1 \in 1 .. a - n /\ n + 1 \in 1 .. a
    BY <1>1 DEF a
  <2>2. DOMAIN M[q] = 1 .. a - n /\ DOMAIN M[r] = 1 .. b + n
    BY <1>2, <1>3
  <2>3. k = b + n + 1
    BY <1>1, <1>3
  <2>4. M[q] # <<>>
    <3>1. 1 \in DOMAIN M[q]
      BY <2>1, <2>2
    <3>2. DOMAIN <<>> = {}
      OBVIOUS
    <3> QED BY <3>1, <3>2, Zenon
  <2> QED BY <2>1, <2>2, <2>3, <2>4
<1>5. e = L[q][n + 1] /\ e \in Cells /\ e \in ToSet(L[q])
  <2>1. e = L[q][n + 1]
    BY <1>3, <1>4
  <2>2. n + 1 \in DOMAIN L[q] /\ L[q][n + 1] \in Cells
    BY <1>1, <1>4
  <2> HIDE DEF e
  <2> QED BY <2>1, <2>2 DEF ToSet
<1>6. /\ Represents(u.header, u.mem, W)
      /\ \A x \in Queues : u.header[x].curr = z.header[x].curr
      /\ \A c \in Cells : u.mem[c].content = z.mem[c].content
      /\ u.mem[e].prio = Unset
      /\ \A c \in Cells : c # e => u.mem[c].prio = z.mem[c].prio
  <2>1. Represents(z.header, z.mem, M)
    BY DEF MovedTo
  <2> QED BY <1>4, <2>1, MoveOne
<1>7. /\ \A x \in Queues \ {q, r} : W[x] = M[x]
      /\ W[q] = RemoveAt(M[q], 1) /\ W[r] = InsertAt(M[r], k, e)
  <2>1. /\ K \in [Queues -> Seq(Cells)] /\ K[q] = RemoveAt(M[q], 1)
        /\ \A x \in Queues \ {q} : K[x] = M[x]
    <3>1. RemoveAt(M[q], 1) \in Seq(Cells)
      <4>1. 1 \in DOMAIN M[q]
        BY <1>4
      <4> QED BY <1>2, <4>1, RemoveElements
    <3> QED BY <1>2, <3>1 DEF Cut
  <2> HIDE DEF K, k, e
  <2> QED BY <2>1 DEF Put
<1>8. /\ Len(W[q]) = a - n - 1
      /\ \A i \in 1 .. a - n - 1 : W[q][i] = M[q][i + 1]
  <2> DEFINE s == M[q]
             p == RemoveAt(s, 1)
  <2>1. s \in Seq(Cells) /\ 1 \in DOMAIN s /\ Len(s) = a - n
    BY <1>2, <1>3, <1>4
  <2>2. Len(p) = Len(s) - 1 /\ \A i \in 1 .. Len(s) - 1 : p[i] = s[i + 1]
    <3> HIDE DEF s
    <3> QED BY ONLY <2>1, RemoveElements DEF p
  <2> HIDE DEF p, s
  <2>3. Len(p) = a - n - 1 /\ \A i \in 1 .. a - n - 1 : p[i] = s[i + 1]
    BY <2>1, <2>2
  <2>4. W[q] = p
    BY <1>7 DEF p, s
  <2> HIDE DEF W
  <2> QED BY <2>3, <2>4 DEF s
<1>9. /\ Len(W[r]) = b + n + 1 /\ W[r][b + n + 1] = e
      /\ \A i \in 1 .. b + n : W[r][i] = M[r][i]
  <2> DEFINE s == M[r]
             p == InsertAt(s, k, e)
  <2>1. s \in Seq(Cells) /\ k \in 1 .. Len(s) + 1 /\ e \in Cells /\ Len(s) = b + n
    BY <1>1, <1>2, <1>3, <1>4, <1>5
  <2> HIDE DEF s, k, e
  <2>2. Len(p) = Len(s) + 1 /\ p[k] = e /\ \A i \in 1 .. k - 1 : p[i] = s[i]
    <3>1. s \in Seq(Cells) /\ k \in 1 .. Len(s) + 1 /\ e \in Cells
      BY <2>1
    <3>2. Inserted(InsertAt(s, k, e), s, k, e)
      BY ONLY <3>1, InsertIs
    <3> QED BY ONLY <3>2 DEF p, Inserted
  <2>3. k - 1 = b + n
    BY <1>1, <1>4
  <2> HIDE DEF p
  <2>4. W[r] = p
    BY <1>7 DEF p, s
  <2> HIDE DEF W
  <2>5. Len(p) = b + n + 1 /\ p[b + n + 1] = e /\ \A i \in 1 .. b + n : p[i] = s[i]
    BY <1>1, <1>4, <2>1, <2>2, <2>3
  <2> QED BY <2>4, <2>5 DEF s
<1> HIDE DEF W, K, k, e, u
<1>10. Len(W[q]) = a - (n + 1) /\ Len(W[r]) = b + (n + 1)
  BY <1>1, <1>8, <1>9
<1>11. ASSUME NEW i \in 1 .. a - (n + 1) PROVE W[q][i] = L[q][(n + 1) + i]
  <2>1. i \in 1 .. a - n - 1 /\ i + 1 \in 1 .. a - n /\ n + (i + 1) = (n + 1) + i
    BY <1>1
  <2>2. W[q][i] = M[q][i + 1] /\ M[q][i + 1] = L[q][n + (i + 1)]
    BY <1>3, <1>8, <2>1
  <2> QED BY <2>1, <2>2
<1>12. ASSUME NEW i \in 1 .. b PROVE W[r][i] = L[r][i]
  <2>1. i \in 1 .. b + n
    BY <1>1
  <2> QED BY <1>3, <1>9, <2>1
<1>13. ASSUME NEW i \in 1 .. n + 1 PROVE W[r][b + i] = L[q][i] /\ u.mem[L[q][i]].prio = Unset
  <2>1. CASE i = n + 1
    <3>1. b + i = b + n + 1
      BY <1>1, <2>1
    <3> QED BY <1>5, <1>6, <1>9, <2>1, <3>1
  <2>2. CASE i # n + 1
    <3>1. i \in 1 .. n /\ b + i \in 1 .. b + n /\ i \in 1 .. a
      BY <1>1, <1>4, <2>2
    <3>2. L[q][i] \in Cells
      BY <1>1, <3>1
    <3>3. W[r][b + i] = L[q][i]
      BY <1>3, <1>9, <3>1
    <3> QED BY <1>3, <1>6, <3>1, <3>2, <3>3
  <2> QED BY <2>1, <2>2
<1>14. /\ \A x \in Queues \ {q, r} : W[x] = L[x]
       /\ \A x \in Queues : u.header[x].curr = h[x].curr
       /\ \A c \in Cells : u.mem[c].content = m[c].content
       /\ \A c \in Cells : c \notin ToSet(L[q]) => u.mem[c].prio = m[c].prio
  BY <1>3, <1>5, <1>6, <1>7
<1>15. MovedTo(u, n + 1, h, m, L, q, r, W)
  BY <1>6, <1>10, <1>11, <1>12, <1>13, <1>14 DEF MovedTo, a, b
<1> QED BY <1>15 DEF u, W, K, k, e

LEMMA ConcatIs ==
    ASSUME NEW S, NEW v \in Seq(S), NEW w \in Seq(S), NEW u,
           u = [i \in 1 .. Len(v) + Len(w) |-> u[i]],
           \A i \in 1 .. Len(v) : u[i] = v[i],
           \A i \in 1 .. Len(w) : u[Len(v) + i] = w[i]
    PROVE  u = v \o w
<1>1. /\ v \o w = [i \in 1 .. Len(v) + Len(w) |-> (v \o w)[i]]
      /\ \A i \in 1 .. Len(v) + Len(w) :
            (v \o w)[i] = IF i <= Len(v) THEN v[i] ELSE w[i - Len(v)]
      /\ Len(v) \in Nat /\ Len(w) \in Nat
  <2>1. v \in Seq(S) /\ w \in Seq(S)
    OBVIOUS
  <2>2. /\ v \o w \in Seq(S) /\ Len(v \o w) = Len(v) + Len(w)
        /\ \A i \in 1 .. Len(v) + Len(w) :
              (v \o w)[i] = IF i <= Len(v) THEN v[i] ELSE w[i - Len(v)]
    BY ONLY <2>1
  <2> DEFINE y == v \o w
  <2>3. y \in Seq(S) /\ Len(y) = Len(v) + Len(w)
    BY <2>2
  <2>4. y = [i \in 1 .. Len(v) + Len(w) |-> y[i]]
    <3> HIDE DEF y
    <3> QED BY <2>3
  <2> QED BY <2>2, <2>4
<1>2. ASSUME NEW i \in 1 .. Len(v) + Len(w)
      PROVE  u[i] = IF i <= Len(v) THEN v[i] ELSE w[i - Len(v)]
  <2>1. CASE i <= Len(v)
    <3>1. i \in 1 .. Len(v)
      BY <1>1, <2>1
    <3> QED BY <2>1, <3>1
  <2>2. CASE ~(i <= Len(v))
    <3>1. i - Len(v) \in 1 .. Len(w) /\ Len(v) + (i - Len(v)) = i
      BY <1>1, <2>2
    <3>2. u[Len(v) + (i - Len(v))] = w[i - Len(v)]
      BY <3>1
    <3> QED BY <2>2, <3>1, <3>2
  <2> QED BY <2>1, <2>2
<1>3. \A i \in 1 .. Len(v) + Len(w) : u[i] = (v \o w)[i]
  BY <1>1, <1>2
<1> DEFINE y == v \o w
<1>4. y = [i \in 1 .. Len(v) + Len(w) |-> y[i]] /\ \A i \in 1 .. Len(v) + Len(w) : u[i] = y[i]
  BY <1>1, <1>3
<1> HIDE DEF y
<1>5. u = y
  BY <1>4
<1> QED BY <1>5 DEF y

Moved(h, m, q, r) == Moves([header |-> h, mem |-> m], h[q].count, q, r)[h[q].count]

LEMMA MoveAll ==
    ASSUME NEW h, NEW m, NEW L, Represents(h, m, L),
           NEW q \in Queues, NEW r \in Queues, q # r
    PROVE  \E M : MovedTo(Moved(h, m, q, r), Len(L[q]), h, m, L, q, r, M)
<1> DEFINE N == Len(L[q])
           z == [header |-> h, mem |-> m]
           moved == Moves(z, N, q, r)
           Good == {n \in Nat : n <= N => \E M : MovedTo(moved[n], n, h, m, L, q, r, M)}
<1>1. /\ N \in Nat /\ L[q] \in Seq(Cells) /\ L[r] \in Seq(Cells) /\ h[q].count = N
      /\ Len(L[r]) \in Nat
  BY ListsAre DEF Represents
<1>2. Moved(h, m, q, r) = moved[N]
  <2>1. h[q].count = Len(L[q])
    BY <1>1
  <2> QED BY <2>1, Zenon DEF Moved
<1>3. moved[0] = z /\ \A n \in 1 .. N : moved[n] = MoveFirst(moved[n - 1], q, r)
  <2> HIDE DEF z, N
  <2> QED BY <1>1, MovesAre
<1> HIDE DEF moved
<1>4. 0 \in Good
  <2>1. z.header = h /\ z.mem = m
    OBVIOUS
  <2>2. MovedTo(z, 0, h, m, L, q, r, L)
    <3>1. \A i \in 1 .. 0 : FALSE
      OBVIOUS
    <3>2. Len(L[q]) - 0 = Len(L[q]) /\ Len(L[r]) + 0 = Len(L[r])
          /\ \A i \in 1 .. Len(L[q]) : 0 + i = i
      BY <1>1
    <3> HIDE DEF z
    <3> QED BY <2>1, <3>1, <3>2 DEF MovedTo
  <2> HIDE DEF z
  <2>3. \E M : MovedTo(moved[0], 0, h, m, L, q, r, M)
    BY <1>3, <2>2
  <2> QED BY <2>3
<1>5. ASSUME NEW n \in Nat, n \in Good PROVE n + 1 \in Good
  <2> SUFFICES ASSUME n + 1 <= N
               PROVE  \E M : MovedTo(moved[n + 1], n + 1, h, m, L, q, r, M)
    OBVIOUS
  <2>1. n <= N /\ n < Len(L[q]) /\ n + 1 \in 1 .. N /\ (n + 1) - 1 = n
    BY <1>1
  <2>2. PICK M : MovedTo(moved[n], n, h, m, L, q, r, M)
    BY <1>5, <2>1
  <2>3. moved[n + 1] = MoveFirst(moved[n], q, r)
    BY <1>3, <2>1
  <2>4. MovedTo(MoveFirst(moved[n], q, r), n + 1, h, m, L, q, r,
                Put(Cut(M, q, 1), r, Len(M[r]) + 1, M[q][1]))
    BY <2>1, <2>2, MovesOn
  <2> QED BY <2>3, <2>4
<1> HIDE DEF Good
<1>6. N \in Good
  BY <1>1, <1>4, <1>5, SetInduction
<1> QED BY <1>1, <1>2, <1>6 DEF Good

LEMMA MoveStep ==
    ASSUME NEW L, NEW a, Holds(header, mem, lost, L, a), NEW q \in Queues, NEW r \in Queues,
           move_queue_elements(q, r)
    PROVE  ListInv' /\ Abstract!Move(q, r)
<1> DEFINE N == Len(L[q])
           R == Len(L[r])
           b == [a EXCEPT ![q] = 0]
<1>1. Represents(header, mem, L) /\ Ordered(mem, L)
  BY DEF Holds
<1>2. /\ q \in Plain /\ r \in Plain /\ q # r
      /\ Becomes(Moved(header, mem, q, r))
      /\ lost' = IF header[q].curr = Nil THEN lost ELSE lost \cup {q}
  BY Zenon DEF move_queue_elements, Moved, Moves
<1>3. PICK M : MovedTo(Moved(header, mem, q, r), N, header, mem, L, q, r, M)
  BY <1>1, <1>2, MoveAll
<1>4. header' = Moved(header, mem, q, r).header /\ mem' = Moved(header, mem, q, r).mem
  BY <1>2 DEF Becomes
<1>5. /\ L[q] \in Seq(Cells) /\ L[r] \in Seq(Cells) /\ N \in Nat /\ R \in Nat
      /\ DOMAIN L[q] = 1 .. N /\ DOMAIN L[r] = 1 .. R
  BY <1>1, ListsAre
<1>6. /\ Represents(header', mem', M)
      /\ \A x \in Queues \ {q, r} : M[x] = L[x]
      /\ Len(M[q]) = N - N /\ Len(M[r]) = R + N
      /\ \A i \in 1 .. R : M[r][i] = L[r][i]
      /\ \A i \in 1 .. N : M[r][R + i] = L[q][i]
      /\ \A x \in Queues : header'[x].curr = header[x].curr
      /\ \A c \in Cells : mem'[c].content = mem[c].content
      /\ \A i \in 1 .. N : mem'[L[q][i]].prio = Unset
      /\ \A c \in Cells : c \notin ToSet(L[q]) => mem'[c].prio = mem[c].prio
  BY <1>3, <1>4 DEF MovedTo
<1> HIDE DEF N, R
<1>7. /\ M[q] \in Seq(Cells) /\ M[r] \in Seq(Cells) /\ Len(M[q]) = 0 /\ M[q] = <<>>
      /\ DOMAIN M[r] = 1 .. R + N
  <2>1. M[q] \in Seq(Cells) /\ M[r] \in Seq(Cells)
    BY <1>6 DEF Represents
  <2>2. Len(M[q]) = 0
    BY <1>5, <1>6
  <2>3. M[q] = <<>>
    BY <2>1, <2>2
  <2>4. DOMAIN M[r] = 1 .. R + N
    BY <1>6, <2>1
  <2> QED BY <2>1, <2>2, <2>3, <2>4
<1>8. ASSUME NEW x \in Queues \ {q}, NEW i \in DOMAIN L[x]
      PROVE  /\ L[x][i] \in Cells
             /\ mem'[L[x][i]].content = mem[L[x][i]].content
             /\ mem'[L[x][i]].prio = mem[L[x][i]].prio
  <2>1. L[x][i] \in Cells /\ L[x][i] \in ToSet(L[x])
    BY <1>1, ListsAre DEF ToSet
  <2>2. ToSet(L[x]) \cap ToSet(L[q]) = {}
    BY <1>1 DEF Represents
  <2> QED BY <1>6, <2>1, <2>2
<1>9. Ordered(mem', M)
  <2> SUFFICES ASSUME NEW x \in Sorted, NEW i \in DOMAIN M[x]
               PROVE  /\ mem'[M[x][i]].prio \in Prios
                      /\ \A j \in DOMAIN M[x] : i <= j => mem'[M[x][i]].prio <= mem'[M[x][j]].prio
    BY DEF Ordered
  <2>1. x \in Queues \ {q, r}
    BY <1>2, QueuesAssumption DEF Queues
  <2>2. M[x] = L[x] /\ \A j \in DOMAIN L[x] : mem'[L[x][j]].prio = mem[L[x][j]].prio
    BY <1>6, <1>8, <2>1
  <2> QED BY <1>1, <2>2 DEF Ordered
<1>10. Stands(header', lost', M, b)
  <2>1. /\ lost \subseteq Queues /\ a \in [Queues -> Nat]
        /\ \A x \in Queues : /\ a[x] \in 0 .. Len(L[x])
                             /\ x \in lost => a[x] = 0
                             /\ x \notin lost => header[x].curr = Nth(L[x], a[x])
    BY DEF Holds, Stands
  <2>2. b \in [Queues -> Nat] /\ b[q] = 0 /\ \A x \in Queues \ {q} : b[x] = a[x]
    BY <2>1
  <2> HIDE DEF b
  <2>3. a[r] \in 0 .. Len(M[r]) /\ Nth(M[r], a[r]) = Nth(L[r], a[r])
    <3>1. a[r] \in 0 .. R
      BY <2>1 DEF R
    <3>2. a[r] \in 0 .. Len(M[r])
      BY <1>5, <1>6, <3>1
    <3>3. a[r] \in DOMAIN M[r] <=> a[r] \in DOMAIN L[r]
      BY <1>5, <1>7, <3>1
    <3>4. a[r] \in DOMAIN L[r] => M[r][a[r]] = L[r][a[r]]
      BY <1>5, <1>6
    <3> QED BY <3>2, <3>3, <3>4 DEF Nth
  <2>4. ASSUME NEW x \in Queues
        PROVE  /\ b[x] \in 0 .. Len(M[x])
               /\ x \in lost' => b[x] = 0
               /\ x \notin lost' => header'[x].curr = Nth(M[x], b[x])
    <3>1. CASE x = q
      <4>1. q \notin lost' => header[q].curr = Nil
        BY <1>2
      <4>2. Nth(M[q], 0) = Nil
        BY <1>7, Corners
      <4> QED BY <1>6, <1>7, <2>2, <3>1, <4>1, <4>2
    <3>2. CASE x = r
      <4>1. r \in lost' <=> r \in lost
        BY <1>2
      <4> QED BY <1>2, <1>6, <2>1, <2>2, <2>3, <3>2, <4>1
    <3>3. CASE x \notin {q, r}
      <4>1. x \in lost' <=> x \in lost
        BY <1>2, <3>3
      <4> QED BY <1>6, <2>1, <2>2, <3>3, <4>1
    <3> QED BY <3>1, <3>2, <3>3
  <2>5. lost' \subseteq Queues
    BY <1>2, <2>1
  <2> QED BY <2>2, <2>4, <2>5 DEF Stands
<1>11. Holds(header', mem', lost', M, b)
  BY <1>6, <1>9, <1>10 DEF Holds
<1>12. /\ ListInv'
       /\ Contained = [x \in Queues |-> View(mem, L[x])]
       /\ Contained' = [x \in Queues |-> View(mem', M[x])]
       /\ Positions = a /\ Positions' = b
  <2> HIDE DEF b
  <2> QED BY <1>11, StepReads
<1>13. View(mem', M[q]) = <<>>
  <2>1. DOMAIN <<>> = {}
    OBVIOUS
  <2>2. View(mem', M[q]) = [i \in {} |-> [content |-> mem'[M[q][i]].content,
                                          prio |-> mem'[M[q][i]].prio]]
    BY <1>7, <2>1 DEF View
  <2> QED BY <2>2
<1>14. \A x \in Queues \ {q, r} : View(mem', M[x]) = View(mem, L[x])
  BY <1>6, <1>8 DEF View
<1> DEFINE v == View(mem, L[r])
           w == [i \in DOMAIN View(mem, L[q]) |->
                   [content |-> View(mem, L[q])[i].content, prio |-> Unset]]
           u == View(mem', M[r])
<1>15. u = v \o w
  <2>1. /\ v = [i \in 1 .. R |-> v[i]]
        /\ \A i \in 1 .. R : v[i] = [content |-> mem[L[r][i]].content, prio |-> mem[L[r][i]].prio]
    BY <1>5 DEF View
  <2>2. /\ w = [i \in 1 .. N |-> w[i]]
        /\ \A i \in 1 .. N : w[i] = [content |-> mem[L[q][i]].content, prio |-> Unset]
    BY <1>5 DEF View
  <2>3. /\ u = [i \in 1 .. R + N |-> u[i]]
        /\ \A i \in 1 .. R + N : u[i] = [content |-> mem'[M[r][i]].content,
                                         prio |-> mem'[M[r][i]].prio]
    BY <1>7 DEF View
  <2> DEFINE S == {v[i] : i \in 1 .. R} \cup {w[i] : i \in 1 .. N}
  <2> HIDE DEF u, v, w
  <2>4. v \in [1 .. R -> S] /\ w \in [1 .. N -> S]
    BY <2>1, <2>2
  <2> HIDE DEF S
  <2>5. v \in Seq(S) /\ Len(v) = R /\ w \in Seq(S) /\ Len(w) = N
    BY <1>5, <2>4
  <2>6. ASSUME NEW i \in 1 .. R PROVE u[i] = v[i]
    <3>1. i \in 1 .. R + N /\ i \in DOMAIN L[r] /\ r \in Queues \ {q}
      BY <1>2, <1>5
    <3>2. M[r][i] = L[r][i] /\ mem'[L[r][i]].content = mem[L[r][i]].content
          /\ mem'[L[r][i]].prio = mem[L[r][i]].prio
      BY <1>6, <1>8, <3>1
    <3> QED BY <2>1, <2>3, <3>1, <3>2
  <2>7. ASSUME NEW i \in 1 .. N PROVE u[R + i] = w[i]
    <3>1. R + i \in 1 .. R + N /\ i \in DOMAIN L[q]
      BY <1>5
    <3>2. L[q][i] \in Cells
      BY <1>1, <3>1, ListsAre
    <3>3. M[r][R + i] = L[q][i] /\ mem'[L[q][i]].content = mem[L[q][i]].content
          /\ mem'[L[q][i]].prio = Unset
      BY <1>6, <3>2
    <3> QED BY <2>2, <2>3, <3>1, <3>3
  <2>8. /\ u = [i \in 1 .. Len(v) + Len(w) |-> u[i]]
        /\ \A i \in 1 .. Len(v) : u[i] = v[i]
        /\ \A i \in 1 .. Len(w) : u[Len(v) + i] = w[i]
    BY <2>3, <2>5, <2>6, <2>7
  <2> QED BY ONLY <2>5, <2>8, ConcatIs
<1> HIDE DEF u, v
<1>16. Contained' = [Contained EXCEPT ![q] = <<>>,
                                      ![r] = @ \o [i \in DOMAIN Contained[q] |->
                                        [content |-> Contained[q][i].content, prio |-> Unset]]]
  <2>1. /\ Contained[q] = View(mem, L[q]) /\ Contained[r] = v /\ Contained'[q] = <<>>
        /\ Contained'[r] = v \o w
        /\ \A x \in Queues \ {q, r} : Contained'[x] = Contained[x]
        /\ Contained = [x \in Queues |-> Contained[x]] /\ Contained' = [x \in Queues |-> Contained'[x]]
    <3> HIDE DEF w
    <3> QED BY <1>12, <1>13, <1>14, <1>15 DEF u, v
  <2>2. w = [i \in DOMAIN Contained[q] |->
               [content |-> Contained[q][i].content, prio |-> Unset]]
    BY <2>1
  <2> HIDE DEF w
  <2> DEFINE g == [i \in DOMAIN Contained[q] |->
                     [content |-> Contained[q][i].content, prio |-> Unset]]
  <2>3. w = g
    BY <2>2
  <2> HIDE DEF g
  <2>4. Contained' = [Contained EXCEPT ![q] = <<>>, ![r] = @ \o g]
    BY <1>2, <2>1, <2>3
  <2> QED BY <2>4 DEF g
<1>17. Positions' = [Positions EXCEPT ![q] = 0]
  BY <1>12
<1>18. lost' = IF Positions[q] = 0 THEN lost ELSE lost \cup {q}
  <2>1. CASE q \in lost
    BY <1>2, <2>1
  <2>2. CASE q \notin lost
    <3>1. header[q].curr = Nth(L[q], a[q]) /\ a[q] \in 0 .. Len(L[q])
      BY <2>2 DEF Holds, Stands
    <3>2. \A i \in DOMAIN L[q] : L[q][i] # Nil
      BY <1>1, ListsAre
    <3>3. header[q].curr = Nil <=> a[q] = 0
      BY <1>5, <3>1, <3>2 DEF Nth, N
    <3> QED BY <1>2, <1>12, <3>3
  <2> QED BY <2>1, <2>2
<1>19. q \notin Sorted
  BY <1>2, QueuesAssumption
<1>20. Abstract!Move(q, r)
  BY <1>2, <1>16, <1>17, <1>18, <1>19, Zenon DEF Abstract!Move, Contained, Positions
<1> QED BY <1>12, <1>20

-----------------------------------------------------------------------------
(* The operations.                                                         *)

LEMMA ContainedIs ==
    ASSUME NEW L, NEW a, Holds(header, mem, lost, L, a), NEW q \in Queues
    PROVE  /\ L[q] \in Seq(Cells) /\ DOMAIN L[q] = 1 .. Len(L[q]) /\ Len(L[q]) \in Nat
           /\ Len(Contained[q]) = Len(L[q]) /\ DOMAIN Contained[q] = DOMAIN L[q]
           /\ \A i \in DOMAIN L[q] : /\ L[q][i] \in Cells /\ L[q][i] # Nil
                                     /\ Contained[q][i].content = mem[L[q][i]].content
                                     /\ Contained[q][i].prio = mem[L[q][i]].prio
           /\ Positions[q] = a[q] /\ a[q] \in 0 .. Len(L[q])
           /\ Contained[q] = <<>> <=> Len(L[q]) = 0
<1>1. Represents(header, mem, L)
  BY DEF Holds
<1>2. /\ L[q] \in Seq(Cells) /\ DOMAIN L[q] = 1 .. Len(L[q]) /\ Len(L[q]) \in Nat
      /\ \A i \in DOMAIN L[q] : L[q][i] \in Cells /\ L[q][i] # Nil
  BY <1>1, ListsAre
<1>3. Contained[q] = View(mem, L[q])
  BY Reads DEF Contained
<1>4. PICK S : /\ View(mem, L[q]) \in Seq(S)
               /\ DOMAIN View(mem, L[q]) = DOMAIN L[q] /\ Len(View(mem, L[q])) = Len(L[q])
               /\ \A i \in DOMAIN L[q] : View(mem, L[q])[i] = [content |-> mem[L[q][i]].content,
                                                               prio |-> mem[L[q][i]].prio]
  BY <1>2, ViewIs
<1>5. View(mem, L[q]) = <<>> <=> Len(L[q]) = 0
  <2> DEFINE v == View(mem, L[q])
  <2>1. v \in Seq(S) /\ Len(v) = Len(L[q])
    BY <1>4
  <2> HIDE DEF v
  <2>2. v = <<>> <=> Len(v) = 0
    BY <2>1
  <2> QED BY <2>1, <2>2 DEF v
<1>6. Positions[q] = a[q] /\ a[q] \in 0 .. Len(L[q])
  BY Reads DEF Holds, Stands
<1>7. Len(Contained[q]) = Len(L[q]) /\ DOMAIN Contained[q] = DOMAIN L[q]
  BY <1>3, <1>4
<1>8. ASSUME NEW i \in DOMAIN L[q]
      PROVE  Contained[q][i].content = mem[L[q][i]].content
             /\ Contained[q][i].prio = mem[L[q][i]].prio
  <2>1. Contained[q][i] = [content |-> mem[L[q][i]].content, prio |-> mem[L[q][i]].prio]
    BY <1>3, <1>4
  <2> QED BY <2>1
<1>9. Contained[q] = <<>> <=> Len(L[q]) = 0
  BY <1>3, <1>5
<1> QED BY <1>2, <1>6, <1>7, <1>8, <1>9

LEMMA HeadersAre ==
    ASSUME NEW L, NEW a, Holds(header, mem, lost, L, a), NEW q \in Queues
    PROVE  /\ header[q].first = Nth(L[q], 1) /\ header[q].last = Nth(L[q], Len(L[q]))
           /\ \A i \in DOMAIN L[q] : /\ mem[L[q][i]].next = Nth(L[q], i + 1)
                                     /\ mem[L[q][i]].prev = Nth(L[q], i - 1)
           /\ Nth(L[q], 0) = Nil /\ Nth(L[q], Len(L[q]) + 1) = Nil
           /\ q \notin lost => header[q].curr = Nth(L[q], a[q])
<1>1. Represents(header, mem, L) /\ L[q] \in Seq(Cells) /\ Stands(header, lost, L, a)
  BY DEF Holds, Represents
<1> QED BY <1>1, Corners DEF Represents, Stands

LEMMA PutAtEnd ==
    ASSUME NEW L, NEW a, Holds(header, mem, lost, L, a), NEW q \in Plain, NEW c \in Contents
    PROVE  /\ inFIFO_queue(q, c) => ListInv' /\ Abstract!PutLast(q, c)
           /\ inLIFO_queue(q, c) => ListInv' /\ Abstract!PutFirst(q, c)
<1> DEFINE e == [content |-> c, prio |-> Unset]
<1>0. q \in Queues /\ q \notin Sorted /\ Len(L[q]) \in Nat /\ Len(Contained[q]) = Len(L[q])
  <2>1. q \in Queues /\ q \notin Sorted
    BY QueuesAssumption DEF Queues
  <2> QED BY <2>1, ContainedIs
<1>1. ASSUME inFIFO_queue(q, c) PROVE ListInv' /\ Abstract!PutLast(q, c)
  <2> DEFINE k == Len(L[q]) + 1
  <2>1. k \in 1 .. Len(L[q]) + 1 /\ k - 1 = Len(L[q])
    BY <1>0
  <2>2. Insert(q, e, Nth(L[q], k - 1), Nth(L[q], k))
    <3>1. header[q].last = Nth(L[q], k - 1) /\ Nth(L[q], k) = Nil
      BY <1>0, <2>1, HeadersAre
    <3> QED BY <1>1, <3>1 DEF inFIFO_queue
  <2> HIDE DEF k
  <2>3. ListInv' /\ Abstract!Insert(q, k, e)
    BY <1>0, <2>1, <2>2, InsertStep
  <2>4. k = Len(Contained[q]) + 1
    BY <1>0 DEF k
  <2> QED BY <2>3, <2>4, Zenon DEF Abstract!PutLast, Contained
<1>2. ASSUME inLIFO_queue(q, c) PROVE ListInv' /\ Abstract!PutFirst(q, c)
  <2>1. 1 \in 1 .. Len(L[q]) + 1 /\ 1 - 1 = 0
    BY <1>0
  <2>2. Insert(q, e, Nth(L[q], 1 - 1), Nth(L[q], 1))
    <3>1. header[q].first = Nth(L[q], 1) /\ Nth(L[q], 0) = Nil
      BY <1>0, HeadersAre
    <3> QED BY <1>2, <2>1, <3>1 DEF inLIFO_queue
  <2>3. ListInv' /\ Abstract!Insert(q, 1, e)
    BY <1>0, <2>1, <2>2, InsertStep
  <2> QED BY <2>3, Zenon DEF Abstract!PutFirst
<1> QED BY <1>1, <1>2

\* A place is one behind the elements before it.
LEMMA Places ==
    ASSUME NEW n \in Nat, NEW k \in 1 .. n + 1, NEW G, G \subseteq 1 .. n,
           \A i \in 1 .. n : i \in G <=> i < k
    PROVE  k = 1 + Abstract!Cardinality(G)
<1>1. G = 1 .. k - 1
  <2>1. \A i : i \in G => i \in 1 .. k - 1
    OBVIOUS
  <2>2. \A i : i \in 1 .. k - 1 => i \in G
    OBVIOUS
  <2> QED BY <2>1, <2>2
<1>2. Cardinality(1 .. k - 1) = k - 1
  <2>1. k - 1 \in Nat
    OBVIOUS
  <2> QED BY <2>1, UpTo
<1>3. Cardinality(G) = k - 1
  BY <1>1, <1>2
<1>4. Abstract!Cardinality(G) = Cardinality(G)
  BY DEF Abstract!Cardinality, Cardinality
<1> QED BY <1>3, <1>4

LEMMA BehindEquals ==
    ASSUME NEW L, NEW a, Holds(header, mem, lost, L, a), NEW q \in Sorted,
           NEW c \in Contents, NEW p \in Prios, NEW k \in 1 .. Len(L[q]) + 1,
           \A i \in 1 .. k - 1 : mem[L[q][i]].prio <= p,
           \A i \in k .. Len(L[q]) : ~(mem[L[q][i]].prio <= p),
           Insert(q, [content |-> c, prio |-> p], Nth(L[q], k - 1), Nth(L[q], k))
    PROVE  ListInv' /\ Abstract!After(q, c, p)
<1>1. q \in Queues
  BY DEF Queues
<1>2. /\ L[q] \in Seq(Cells) /\ DOMAIN L[q] = 1 .. Len(L[q]) /\ Len(L[q]) \in Nat
      /\ DOMAIN Contained[q] = 1 .. Len(L[q])
      /\ \A i \in DOMAIN L[q] : Contained[q][i].prio = mem[L[q][i]].prio
  BY <1>1, ContainedIs
<1>3. \A i \in DOMAIN L[q] : mem[L[q][i]].prio \in Nat
  BY QueuesAssumption DEF Holds, Ordered
<1>4. \A i \in k .. Len(L[q]) : p <= mem[L[q][i]].prio
  <2> SUFFICES ASSUME NEW i \in k .. Len(L[q]) PROVE p <= mem[L[q][i]].prio
    OBVIOUS
  <2>1. i \in DOMAIN L[q] /\ p \in Nat
    BY <1>2, QueuesAssumption
  <2> QED BY <1>3, <2>1
<1>5. ListInv' /\ Abstract!Insert(q, k, [content |-> c, prio |-> p])
  BY <1>1, <1>4, InsertStep
<1>6. k = 1 + Abstract!Cardinality({i \in DOMAIN Contained[q] : Contained[q][i].prio <= p})
  <2> DEFINE G == {i \in DOMAIN Contained[q] : Contained[q][i].prio <= p}
  <2>1. \A i \in 1 .. Len(L[q]) : i \in G <=> i < k
    <3> SUFFICES ASSUME NEW i \in 1 .. Len(L[q]) PROVE Contained[q][i].prio <= p <=> i < k
      BY <1>2
    <3>1. CASE i < k
      <4>1. i \in 1 .. k - 1 /\ i \in DOMAIN L[q]
        BY <1>2, <3>1
      <4> QED BY <1>2, <3>1, <4>1
    <3>2. CASE ~(i < k)
      <4>1. i \in k .. Len(L[q]) /\ i \in DOMAIN L[q]
        BY <1>2, <3>2
      <4> QED BY <1>2, <3>2, <4>1
    <3> QED BY <3>1, <3>2
  <2>2. G \subseteq 1 .. Len(L[q])
    BY <1>2
  <2> HIDE DEF G
  <2>3. k = 1 + Abstract!Cardinality(G)
    BY <1>2, <2>1, <2>2, Places
  <2> QED BY <2>3 DEF G
<1> QED BY <1>5, <1>6, Zenon DEF Abstract!After, Contained

LEMMA BeforeEquals ==
    ASSUME NEW L, NEW a, Holds(header, mem, lost, L, a), NEW q \in Sorted,
           NEW c \in Contents, NEW p \in Prios, NEW k \in 1 .. Len(L[q]) + 1,
           \A i \in 1 .. k - 1 : ~(mem[L[q][i]].prio >= p),
           \A i \in k .. Len(L[q]) : mem[L[q][i]].prio >= p,
           Insert(q, [content |-> c, prio |-> p], Nth(L[q], k - 1), Nth(L[q], k))
    PROVE  ListInv' /\ Abstract!Before(q, c, p)
<1>1. q \in Queues
  BY DEF Queues
<1>2. /\ L[q] \in Seq(Cells) /\ DOMAIN L[q] = 1 .. Len(L[q]) /\ Len(L[q]) \in Nat
      /\ DOMAIN Contained[q] = 1 .. Len(L[q])
      /\ \A i \in DOMAIN L[q] : Contained[q][i].prio = mem[L[q][i]].prio
  BY <1>1, ContainedIs
<1>3. p \in Nat /\ \A i \in DOMAIN L[q] : mem[L[q][i]].prio \in Nat
  BY QueuesAssumption DEF Holds, Ordered
<1>4. /\ \A i \in 1 .. k - 1 : mem[L[q][i]].prio <= p
      /\ \A i \in k .. Len(L[q]) : p <= mem[L[q][i]].prio
  <2>1. ASSUME NEW i \in 1 .. k - 1 PROVE mem[L[q][i]].prio <= p
    <3>1. i \in DOMAIN L[q]
      BY <1>2
    <3> QED BY <1>3, <3>1
  <2>2. ASSUME NEW i \in k .. Len(L[q]) PROVE p <= mem[L[q][i]].prio
    <3>1. i \in DOMAIN L[q]
      BY <1>2
    <3> QED BY <1>3, <3>1
  <2> QED BY <2>1, <2>2
<1>5. ListInv' /\ Abstract!Insert(q, k, [content |-> c, prio |-> p])
  BY <1>1, <1>4, InsertStep
<1>6. k = 1 + Abstract!Cardinality({i \in DOMAIN Contained[q] : Contained[q][i].prio < p})
  <2> DEFINE G == {i \in DOMAIN Contained[q] : Contained[q][i].prio < p}
  <2>1. \A i \in 1 .. Len(L[q]) : i \in G <=> i < k
    <3> SUFFICES ASSUME NEW i \in 1 .. Len(L[q]) PROVE Contained[q][i].prio < p <=> i < k
      BY <1>2
    <3>0. i \in DOMAIN L[q] /\ Contained[q][i].prio = mem[L[q][i]].prio
      BY <1>2
    <3>1. CASE i < k
      <4>1. i \in 1 .. k - 1
        BY <1>2, <3>1
      <4> QED BY <1>3, <3>0, <3>1, <4>1
    <3>2. CASE ~(i < k)
      <4>1. i \in k .. Len(L[q])
        BY <1>2, <3>2
      <4> QED BY <1>3, <3>0, <3>2, <4>1
    <3> QED BY <3>1, <3>2
  <2>2. G \subseteq 1 .. Len(L[q])
    BY <1>2
  <2> HIDE DEF G
  <2>3. k = 1 + Abstract!Cardinality(G)
    BY <1>2, <2>1, <2>2, Places
  <2> QED BY <2>3 DEF G
<1> QED BY <1>5, <1>6, Zenon DEF Abstract!Before, Contained

\* What a search over a queue comes to.
LEMMA SearchIs ==
    ASSUME NEW L, NEW a, Holds(header, mem, lost, L, a), NEW q \in Queues, NEW Ends
    PROVE  \E k \in 1 .. Len(L[q]) + 1 :
              /\ Passed(Chain(q), Ends).passed = Nth(L[q], k - 1)
              /\ Passed(Chain(q), Ends).stop = Nth(L[q], k)
              /\ \A i \in 1 .. k - 1 : L[q][i] \notin Ends
              /\ k <= Len(L[q]) => L[q][k] \in Ends
<1>1. Chain(q) = L[q]
  BY Reads
<1>2. L[q] \in Seq(Cells)
  BY ContainedIs
<1> QED BY <1>1, <1>2, PassedIs

LEMMA SearchFromFront ==
    ASSUME NEW L, NEW a, Holds(header, mem, lost, L, a), NEW q \in Plain \cup Sorted,
           NEW c \in Contents, NEW p \in Prios, insert_queue(q, c, p)
    PROVE  ListInv' /\ Abstract!After(q, c, p)
<1> DEFINE Ends == {x \in On(q) : mem[x].prio > p}
<1>1. q \in Queues /\ q \in Sorted
  BY DEF Queues, insert_queue
<1>2. /\ DOMAIN L[q] = 1 .. Len(L[q]) /\ Len(L[q]) \in Nat /\ L[q] \in Seq(Cells)
      /\ On(q) = ToSet(L[q])
  BY <1>1, ContainedIs, Reads
<1>3. PICK k \in 1 .. Len(L[q]) + 1 :
        /\ Passed(Chain(q), Ends).passed = Nth(L[q], k - 1)
        /\ Passed(Chain(q), Ends).stop = Nth(L[q], k)
        /\ \A i \in 1 .. k - 1 : L[q][i] \notin Ends
        /\ k <= Len(L[q]) => L[q][k] \in Ends
  <2> HIDE DEF Ends
  <2> QED BY <1>1, SearchIs
<1>4. Insert(q, [content |-> c, prio |-> p], Nth(L[q], k - 1), Nth(L[q], k))
  BY <1>3 DEF insert_queue
<1>5. \A i \in DOMAIN L[q] : /\ mem[L[q][i]].prio \in Nat
                             /\ L[q][i] \in Ends <=> mem[L[q][i]].prio > p
                             /\ \A j \in DOMAIN L[q] : i <= j => mem[L[q][i]].prio <= mem[L[q][j]].prio
  <2>1. \A i \in DOMAIN L[q] : L[q][i] \in On(q)
    BY <1>2 DEF ToSet
  <2> QED BY <1>1, <2>1, QueuesAssumption DEF Holds, Ordered
<1>6. p \in Nat
  BY QueuesAssumption
<1> HIDE DEF Ends
<1>7. \A i \in 1 .. k - 1 : mem[L[q][i]].prio <= p
  <2> SUFFICES ASSUME NEW i \in 1 .. k - 1 PROVE mem[L[q][i]].prio <= p
    OBVIOUS
  <2>1. i \in DOMAIN L[q]
    BY <1>2
  <2> QED BY <1>3, <1>5, <1>6, <2>1
<1>8. \A i \in k .. Len(L[q]) : ~(mem[L[q][i]].prio <= p)
  <2> SUFFICES ASSUME NEW i \in k .. Len(L[q]) PROVE ~(mem[L[q][i]].prio <= p)
    OBVIOUS
  <2>1. i \in DOMAIN L[q] /\ k \in DOMAIN L[q] /\ k <= i /\ k <= Len(L[q])
    BY <1>2
  <2>2. mem[L[q][k]].prio > p
    BY <1>3, <1>5, <2>1
  <2>3. mem[L[q][k]].prio <= mem[L[q][i]].prio
    BY <1>5, <2>1
  <2> QED BY <1>5, <1>6, <2>1, <2>2, <2>3
<1> QED BY <1>1, <1>4, <1>7, <1>8, BehindEquals

LEMMA SearchBeforeEquals ==
    ASSUME NEW L, NEW a, Holds(header, mem, lost, L, a), NEW q \in Plain \cup Sorted,
           NEW c \in Contents, NEW p \in Prios, insert_first_queue(q, c, p)
    PROVE  ListInv' /\ Abstract!Before(q, c, p)
<1> DEFINE Ends == {x \in On(q) : mem[x].prio >= p}
<1>1. q \in Queues /\ q \in Sorted
  BY DEF Queues, insert_first_queue
<1>2. /\ DOMAIN L[q] = 1 .. Len(L[q]) /\ Len(L[q]) \in Nat /\ L[q] \in Seq(Cells)
      /\ On(q) = ToSet(L[q])
  BY <1>1, ContainedIs, Reads
<1>3. PICK k \in 1 .. Len(L[q]) + 1 :
        /\ Passed(Chain(q), Ends).passed = Nth(L[q], k - 1)
        /\ Passed(Chain(q), Ends).stop = Nth(L[q], k)
        /\ \A i \in 1 .. k - 1 : L[q][i] \notin Ends
        /\ k <= Len(L[q]) => L[q][k] \in Ends
  <2> HIDE DEF Ends
  <2> QED BY <1>1, SearchIs
<1>4. Insert(q, [content |-> c, prio |-> p], Nth(L[q], k - 1), Nth(L[q], k))
  BY <1>3 DEF insert_first_queue
<1>5. \A i \in DOMAIN L[q] : /\ mem[L[q][i]].prio \in Nat
                             /\ L[q][i] \in Ends <=> mem[L[q][i]].prio >= p
                             /\ \A j \in DOMAIN L[q] : i <= j => mem[L[q][i]].prio <= mem[L[q][j]].prio
  <2>1. \A i \in DOMAIN L[q] : L[q][i] \in On(q)
    BY <1>2 DEF ToSet
  <2> QED BY <1>1, <2>1, QueuesAssumption DEF Holds, Ordered
<1>6. p \in Nat
  BY QueuesAssumption
<1> HIDE DEF Ends
<1>7. \A i \in 1 .. k - 1 : ~(mem[L[q][i]].prio >= p)
  <2> SUFFICES ASSUME NEW i \in 1 .. k - 1 PROVE ~(mem[L[q][i]].prio >= p)
    OBVIOUS
  <2>1. i \in DOMAIN L[q]
    BY <1>2
  <2> QED BY <1>3, <1>5, <1>6, <2>1
<1>8. \A i \in k .. Len(L[q]) : mem[L[q][i]].prio >= p
  <2> SUFFICES ASSUME NEW i \in k .. Len(L[q]) PROVE mem[L[q][i]].prio >= p
    OBVIOUS
  <2>1. i \in DOMAIN L[q] /\ k \in DOMAIN L[q] /\ k <= i /\ k <= Len(L[q])
    BY <1>2
  <2>2. mem[L[q][k]].prio >= p
    BY <1>3, <1>5, <2>1
  <2>3. mem[L[q][k]].prio <= mem[L[q][i]].prio
    BY <1>5, <2>1
  <2> QED BY <1>5, <1>6, <2>1, <2>2, <2>3
<1> QED BY <1>1, <1>4, <1>7, <1>8, BeforeEquals

\* The search from the last cell stops at the last that is not of a higher
\* priority, and so comes to the same place.
LEMMA SearchFromBack ==
    ASSUME NEW L, NEW a, Holds(header, mem, lost, L, a), NEW q \in Plain \cup Sorted,
           NEW c \in Contents, NEW p \in Prios, insert_queue_from_back(q, c, p)
    PROVE  ListInv' /\ Abstract!After(q, c, p)
<1> DEFINE Ends == {x \in On(q) : mem[x].prio <= p}
           n == Len(L[q])
           s == [i \in 1 .. n |-> L[q][n + 1 - i]]
<1>1. q \in Queues /\ q \in Sorted
  BY DEF Queues, insert_queue_from_back
<1>2. /\ DOMAIN L[q] = 1 .. n /\ n \in Nat /\ L[q] \in Seq(Cells)
      /\ On(q) = ToSet(L[q]) /\ \A i \in DOMAIN L[q] : L[q][i] \in Cells
  BY <1>1, ContainedIs, Reads
<1>3. Back(mem, header[q].last) = s
  <2>1. Represents(header, mem, L) /\ n \in 0 .. Len(L[q])
    BY <1>2 DEF Holds
  <2>2. header[q].last = Nth(L[q], n)
    BY <1>1, HeadersAre
  <2>3. \A k \in 0 .. Len(L[q]) : Back(mem, Nth(L[q], k)) = [i \in 1 .. k |-> L[q][k + 1 - i]]
    BY <1>1, <2>1, Backwards
  <2>4. Back(mem, Nth(L[q], n)) = s
    BY <2>1, <2>3
  <2> QED BY <2>2, <2>4
<1>4. s \in Seq(Cells) /\ Len(s) = n
  <2>1. \A i \in 1 .. n : n + 1 - i \in DOMAIN L[q]
    BY <1>2
  <2>2. s \in [1 .. n -> Cells]
    BY <1>2, <2>1
  <2> HIDE DEF s
  <2> QED BY <1>2, <2>2
<1>5. PICK j \in 1 .. n + 1 :
        /\ Passed(s, Ends).passed = Nth(s, j - 1) /\ Passed(s, Ends).stop = Nth(s, j)
        /\ \A i \in 1 .. j - 1 : s[i] \notin Ends
        /\ j <= n => s[j] \in Ends
  <2> HIDE DEF Ends, s
  <2> QED BY <1>4, PassedIs
<1> DEFINE k == n + 2 - j
<1>6. k \in 1 .. n + 1 /\ k - 1 = n + 1 - j /\ n + 1 - (j - 1) = k
  BY <1>2
<1>7. Nth(s, j - 1) = Nth(L[q], k) /\ Nth(s, j) = Nth(L[q], k - 1)
  <2>1. DOMAIN s = 1 .. n /\ \A i \in 1 .. n : s[i] = L[q][n + 1 - i]
    OBVIOUS
  <2>2. /\ j - 1 \in 1 .. n <=> k \in 1 .. n
        /\ j \in 1 .. n <=> k - 1 \in 1 .. n
    <3>1. n \in Nat /\ j \in 1 .. n + 1 /\ k = n + 2 - j
      BY <1>2
    <3> HIDE DEF n, k, s
    <3> QED BY <3>1
  <2> HIDE DEF s, k
  <2> QED BY <1>2, <1>6, <2>1, <2>2 DEF Nth
<1>8. Insert(q, [content |-> c, prio |-> p], Nth(L[q], k - 1), Nth(L[q], k))
  <2> HIDE DEF s, k
  <2> QED BY <1>3, <1>5, <1>7 DEF insert_queue_from_back
<1>9. \A i \in DOMAIN L[q] : /\ mem[L[q][i]].prio \in Nat
                             /\ L[q][i] \in Ends <=> mem[L[q][i]].prio <= p
                             /\ \A r \in DOMAIN L[q] : i <= r => mem[L[q][i]].prio <= mem[L[q][r]].prio
  <2>1. \A i \in DOMAIN L[q] : L[q][i] \in On(q)
    BY <1>2 DEF ToSet
  <2> HIDE DEF n, s, k
  <2> QED BY <1>1, <2>1, QueuesAssumption DEF Holds, Ordered
<1>10. p \in Nat
  BY QueuesAssumption
<1>11. \A i \in 1 .. k - 1 : mem[L[q][i]].prio <= p
  <2> SUFFICES ASSUME NEW i \in 1 .. k - 1 PROVE mem[L[q][i]].prio <= p
    OBVIOUS
  <2>1. /\ i \in DOMAIN L[q] /\ k - 1 \in DOMAIN L[q] /\ i <= k - 1 /\ j \in 1 .. n
        /\ k - 1 = n + 1 - j
    <3>1. n \in Nat /\ j \in 1 .. n + 1 /\ k = n + 2 - j /\ DOMAIN L[q] = 1 .. n
      BY <1>2
    <3> HIDE DEF n, k, s
    <3> QED BY <3>1
  <2>2. s[j] = L[q][k - 1] /\ s[j] \in Ends
    <3>1. s[j] = L[q][n + 1 - j]
      BY <2>1
    <3> HIDE DEF s, k, Ends
    <3> QED BY <1>5, <2>1, <3>1
  <2> HIDE DEF s, k, Ends, n
  <2>3. mem[L[q][k - 1]].prio <= p
    BY <1>9, <2>1, <2>2
  <2>4. mem[L[q][i]].prio <= mem[L[q][k - 1]].prio
    BY <1>9, <2>1
  <2> QED BY <1>9, <1>10, <2>1, <2>3, <2>4
<1>12. \A i \in k .. n : ~(mem[L[q][i]].prio <= p)
  <2> SUFFICES ASSUME NEW i \in k .. n PROVE ~(mem[L[q][i]].prio <= p)
    OBVIOUS
  <2>1. /\ i \in DOMAIN L[q] /\ n + 1 - i \in 1 .. j - 1 /\ n + 1 - i \in 1 .. n
        /\ n + 1 - (n + 1 - i) = i
    BY <1>2, <1>6
  <2>2. s[n + 1 - i] = L[q][i]
    BY <2>1
  <2> HIDE DEF s, k, Ends
  <2>3. L[q][i] \notin Ends
    BY <1>5, <2>1, <2>2
  <2> QED BY <1>9, <2>1, <2>3
<1> HIDE DEF k, s, Ends
<1> QED BY <1>1, <1>6, <1>8, <1>11, <1>12, BehindEquals DEF n

LEMMA TakenFromFront ==
    ASSUME NEW L, NEW a, Holds(header, mem, lost, L, a), NEW q \in Queues, outFIFO_queue(q)
    PROVE  ListInv' /\ Abstract!TakeFirst(q)
<1>1. /\ L[q] \in Seq(Cells) /\ DOMAIN L[q] = 1 .. Len(L[q]) /\ Len(L[q]) \in Nat
  BY ContainedIs
<1>2. /\ header[q].first = Nth(L[q], 1) /\ Nth(L[q], 0) = Nil
      /\ \A i \in DOMAIN L[q] : mem[L[q][i]].next = Nth(L[q], i + 1)
  BY HeadersAre
<1>3. 1 \in DOMAIN L[q] /\ header[q].first = L[q][1]
  BY <1>2 DEF outFIFO_queue, Nth
<1>4. mem[L[q][1]].next = Nth(L[q], 1 + 1) /\ Nth(L[q], 1 - 1) = Nil
  BY <1>2, <1>3
<1>5. /\ Becomes(UnlinkCell(header, mem, q, L[q][1], Nth(L[q], 1 - 1), Nth(L[q], 1 + 1)))
      /\ LosesCursor(q, L[q][1])
  BY <1>3, <1>4 DEF outFIFO_queue
<1>6. ListInv' /\ Abstract!Take(q, 1)
  BY <1>3, <1>5, TakeStep
<1> QED BY <1>6, Zenon DEF Abstract!TakeFirst

LEMMA TakenFromBack ==
    ASSUME NEW L, NEW a, Holds(header, mem, lost, L, a), NEW q \in Queues, outLIFO_queue(q)
    PROVE  ListInv' /\ Abstract!TakeLast(q)
<1> DEFINE n == Len(L[q])
<1>1. /\ L[q] \in Seq(Cells) /\ DOMAIN L[q] = 1 .. n /\ n \in Nat /\ Len(Contained[q]) = n
  BY ContainedIs
<1>2. /\ header[q].last = Nth(L[q], n) /\ Nth(L[q], n + 1) = Nil
      /\ \A i \in DOMAIN L[q] : mem[L[q][i]].prev = Nth(L[q], i - 1)
  BY HeadersAre
<1> HIDE DEF n
<1>3. n \in DOMAIN L[q] /\ header[q].last = L[q][n]
  BY <1>2 DEF outLIFO_queue, Nth
<1>4. mem[L[q][n]].prev = Nth(L[q], n - 1)
  BY <1>2, <1>3
<1>5. /\ Becomes(UnlinkCell(header, mem, q, L[q][n], Nth(L[q], n - 1), Nth(L[q], n + 1)))
      /\ LosesCursor(q, L[q][n])
  BY <1>2, <1>3, <1>4 DEF outLIFO_queue
<1>6. ListInv' /\ Abstract!Take(q, n)
  BY <1>3, <1>5, TakeStep
<1> QED BY <1>1, <1>6, Zenon DEF Abstract!TakeLast, Contained

LEMMA Extraction ==
    ASSUME NEW L, NEW a, Holds(header, mem, lost, L, a), NEW q \in Queues, NEW c \in Contents,
           extract_from_queue(q, c)
    PROVE  ListInv' /\ Abstract!Extract(q, c)
<1> DEFINE Ends == {x \in On(q) : mem[x].content = c}
<1>1. /\ L[q] \in Seq(Cells) /\ DOMAIN L[q] = 1 .. Len(L[q]) /\ Len(L[q]) \in Nat
      /\ On(q) = ToSet(L[q])
  BY ContainedIs, Reads
<1>2. \A i \in DOMAIN L[q] : mem[L[q][i]].next = Nth(L[q], i + 1)
  BY HeadersAre
<1>3. PICK k \in 1 .. Len(L[q]) + 1 :
        /\ Passed(Chain(q), Ends).passed = Nth(L[q], k - 1)
        /\ Passed(Chain(q), Ends).stop = Nth(L[q], k)
        /\ \A i \in 1 .. k - 1 : L[q][i] \notin Ends
        /\ k <= Len(L[q]) => L[q][k] \in Ends
  <2> HIDE DEF Ends
  <2> QED BY SearchIs
<1>4. \A i \in DOMAIN L[q] : L[q][i] \in Ends <=> mem[L[q][i]].content = c
  BY <1>1 DEF ToSet
<1>5. PICK w : /\ w = Passed(Chain(q), Ends)
               /\ w.stop # Nil
               /\ \E s \in {UnlinkCell(header, mem, q, w.stop, w.passed, mem[w.stop].next)} :
                     Becomes([s EXCEPT !.header[q].curr = IF @ = w.stop THEN w.passed ELSE @])
               /\ lost' = lost
  BY DEF extract_from_queue
<1> HIDE DEF Ends
<1>6. k \in DOMAIN L[q] /\ w.stop = L[q][k] /\ w.passed = Nth(L[q], k - 1)
  BY <1>1, <1>3, <1>5 DEF Nth
<1>7. mem[L[q][k]].next = Nth(L[q], k + 1)
  BY <1>2, <1>6
<1>8. PICK s : /\ s = UnlinkCell(header, mem, q, L[q][k], Nth(L[q], k - 1), Nth(L[q], k + 1))
               /\ Becomes([s EXCEPT !.header[q].curr =
                                      IF @ = L[q][k] THEN Nth(L[q], k - 1) ELSE @])
  BY <1>5, <1>6, <1>7
<1>9. s.header[q].curr = header[q].curr
  <2>1. Represents(header, mem, L)
    BY DEF Holds
  <2>2. LET t == UnlinkCell(header, mem, q, L[q][k], Nth(L[q], k - 1), Nth(L[q], k + 1))
        IN  \A r \in Queues : t.header[r].curr = header[r].curr
    BY <1>6, <2>1, UnlinkKeeps
  <2> QED BY <1>8, <2>2
<1>10. /\ header' = Cursor(s.header, q, IF header[q].curr = L[q][k] THEN Nth(L[q], k - 1)
                                                                    ELSE header[q].curr)
       /\ mem' = s.mem
  <2>1. s = [header |-> s.header, mem |-> s.mem]
    BY <1>8 DEF UnlinkCell
  <2> QED BY <1>8, <1>9, <2>1 DEF Becomes, Cursor
<1>11. mem[L[q][k]].content = c /\ \A i \in 1 .. k - 1 : mem[L[q][i]].content # c
  <2>1. L[q][k] \in Ends /\ \A i \in 1 .. k - 1 : i \in DOMAIN L[q] /\ L[q][i] \notin Ends
    BY <1>1, <1>3, <1>6
  <2> QED BY <1>4, <1>6, <2>1
<1> QED BY <1>5, <1>6, <1>8, <1>10, <1>11, ExtractStep

LEMMA Walks ==
    ASSUME NEW L, NEW a, Holds(header, mem, lost, L, a), NEW q \in Queues
    PROVE  /\ head_queue(q) => ListInv' /\ Abstract!ToFirst(q)
           /\ tail_queue(q) => ListInv' /\ Abstract!ToLast(q)
           /\ next_queue(q) => ListInv' /\ Abstract!ToNext(q)
<1> DEFINE n == Len(L[q])
<1>1. /\ DOMAIN L[q] = 1 .. n /\ n \in Nat /\ Len(Contained[q]) = n
      /\ Contained[q] = <<>> <=> n = 0
      /\ Positions[q] = a[q] /\ a[q] \in 0 .. n
  BY ContainedIs
<1>2. /\ header[q].first = Nth(L[q], 1) /\ header[q].last = Nth(L[q], n)
      /\ \A i \in DOMAIN L[q] : mem[L[q][i]].next = Nth(L[q], i + 1)
      /\ Nth(L[q], 0) = Nil /\ Nth(L[q], n + 1) = Nil
      /\ q \notin lost => header[q].curr = Nth(L[q], a[q])
  BY HeadersAre
<1>3. \A i \in 0 .. n : SetCursor(q, Nth(L[q], i)) => ListInv' /\ Abstract!Place(q, i)
  BY PlaceStep
<1> HIDE DEF n
<1>4. ASSUME head_queue(q) PROVE ListInv' /\ Abstract!ToFirst(q)
  <2>1. PICK i : i = IF Contained[q] = <<>> THEN 0 ELSE 1
    OBVIOUS
  <2>2. i \in 0 .. n /\ Nth(L[q], 1) = Nth(L[q], i)
    BY <1>1, <1>2, <2>1 DEF Nth
  <2>3. ListInv' /\ Abstract!Place(q, i)
    BY <1>2, <1>3, <1>4, <2>2 DEF head_queue
  <2> QED BY <2>1, <2>3, Zenon DEF Abstract!ToFirst, Contained
<1>5. ASSUME tail_queue(q) PROVE ListInv' /\ Abstract!ToLast(q)
  <2>1. n \in 0 .. n
    BY <1>1
  <2>2. ListInv' /\ Abstract!Place(q, n)
    BY <1>2, <1>3, <1>5, <2>1 DEF tail_queue
  <2> QED BY <1>1, <2>2, Zenon DEF Abstract!ToLast, Contained
<1>6. ASSUME next_queue(q) PROVE ListInv' /\ Abstract!ToNext(q)
  <2>1. q \notin lost /\ header[q].curr # Nil /\ SetCursor(q, mem[header[q].curr].next)
    BY <1>6 DEF next_queue
  <2>2. a[q] \in DOMAIN L[q] /\ header[q].curr = L[q][a[q]]
    BY <1>2, <2>1 DEF Nth
  <2>3. SetCursor(q, Nth(L[q], a[q] + 1))
    BY <1>2, <2>1, <2>2
  <2>4. PICK i : i = IF a[q] = n THEN 0 ELSE a[q] + 1
    OBVIOUS
  <2>5. i \in 0 .. n /\ Nth(L[q], a[q] + 1) = Nth(L[q], i) /\ a[q] # 0
    <3>1. i \in 0 .. n /\ a[q] # 0
      BY <1>1, <2>2, <2>4
    <3>2. Nth(L[q], a[q] + 1) = Nth(L[q], i)
      BY <1>2, <2>4
    <3> QED BY <3>1, <3>2
  <2>6. ListInv' /\ Abstract!Place(q, i)
    BY <1>3, <2>3, <2>5
  <2>7. /\ Positions[q] # 0
        /\ i = IF Positions[q] = Len(Contained[q]) THEN 0 ELSE Positions[q] + 1
    BY <1>1, <2>4, <2>5
  <2> QED BY <2>6, <2>7, Zenon DEF Abstract!ToNext, Contained, Positions
<1> QED BY <1>4, <1>5, <1>6

-----------------------------------------------------------------------------
(* The specification.                                                      *)

LEMMA ListInit ==
    ASSUME Init
    PROVE  ListInv /\ Abstract!Init
<1> DEFINE L == [q \in Queues |-> <<>>]
           a == [q \in Queues |-> 0]
<1>1. /\ header = [q \in Queues |-> [first |-> Nil, last |-> Nil, curr |-> Nil, count |-> 0]]
      /\ mem = [c \in Cells |-> Free]
      /\ lost = {}
  BY DEF Init
<1>2. /\ <<>> \in Seq(Cells) /\ Len(<<>>) = 0 /\ DOMAIN <<>> = {}
  OBVIOUS
<1>3. /\ L \in [Queues -> Seq(Cells)] /\ \A q \in Queues : L[q] = <<>>
      /\ a \in [Queues -> Nat] /\ \A q \in Queues : a[q] = 0
  BY <1>2
<1>4. Once(<<>>) /\ ToSet(<<>>) = {}
  BY <1>2 DEF Once, ToSet
<1>5. \A i : Nth(<<>>, i) = Nil
  BY <1>2 DEF Nth
<1>6. header \in [Queues -> Header] /\ mem \in [Cells -> Item]
  <2>1. [first |-> Nil, last |-> Nil, curr |-> Nil, count |-> 0] \in Header
    BY DEF Header, Pointer
  <2>2. Free \in Item
    BY DEF Free, Item, Pointer
  <2> QED BY <1>1, <2>1, <2>2
<1> HIDE DEF L, a
<1>7. Represents(header, mem, L)
  <2>1. \A q \in Queues : /\ Once(L[q])
                          /\ header[q].count = Len(L[q])
                          /\ header[q].first = Nth(L[q], 1)
                          /\ header[q].last = Nth(L[q], Len(L[q]))
                          /\ ToSet(L[q]) = {} /\ DOMAIN L[q] = {}
    BY <1>1, <1>2, <1>3, <1>4, <1>5
  <2>2. \A c \in Cells : ~mem[c].live
    BY <1>1 DEF Free
  <2> QED BY <1>3, <1>6, <2>1, <2>2 DEF Represents
<1>8. Ordered(mem, L)
  <2>1. \A q \in Sorted : DOMAIN L[q] = {}
    BY <1>2, <1>3 DEF Queues
  <2> QED BY <2>1 DEF Ordered
<1>9. Stands(header, lost, L, a)
  BY <1>1, <1>2, <1>3, <1>5 DEF Stands
<1>10. Holds(header, mem, lost, L, a)
  BY <1>7, <1>8, <1>9 DEF Holds
<1>11. Contained = [q \in Queues |-> <<>>]
  <2>1. \A q \in Queues : Contained[q] = <<>>
    BY <1>2, <1>3, <1>10, ContainedIs
  <2>2. Contained = [q \in Queues |-> Contained[q]]
    BY DEF Contained
  <2> QED BY <2>1, <2>2
<1>12. ListInv /\ Positions = [q \in Queues |-> 0]
  BY <1>10, Reads DEF ListInv, a
<1> QED BY <1>1, <1>11, <1>12, Zenon DEF Abstract!Init, Contained, Positions

LEMMA ListNext ==
    ASSUME ListInv, Next
    PROVE  ListInv' /\ Abstract!Next
<1> DEFINE L == Lists
           a == Positions
<1>1. Holds(header, mem, lost, L, a)
  BY DEF ListInv
<1> HIDE DEF L, a
<1>2. PICK q \in Queues :
        \/ \E c \in Contents : inFIFO_queue(q, c) \/ inLIFO_queue(q, c) \/ extract_from_queue(q, c)
        \/ \E c \in Contents, p \in Prios :
              \/ insert_queue(q, c, p) \/ insert_queue_from_back(q, c, p)
              \/ insert_first_queue(q, c, p)
        \/ outFIFO_queue(q) \/ outLIFO_queue(q) \/ remove_queue_elements(q)
        \/ head_queue(q) \/ tail_queue(q) \/ next_queue(q)
        \/ \E r \in Queues : move_queue_elements(q, r)
  BY DEF Next
<1>3. Plain \cup Sorted = Queues
  BY DEF Queues
<1>4. ASSUME NEW c \in Contents, inFIFO_queue(q, c) PROVE ListInv' /\ Abstract!Next
  <2>1. q \in Plain /\ q \notin Sorted
    BY <1>4, QueuesAssumption DEF inFIFO_queue
  <2>2. ListInv' /\ Abstract!PutLast(q, c)
    BY <1>1, <1>4, <2>1, PutAtEnd
  <2> QED BY <2>1, <2>2, Zenon DEF Abstract!Next
<1>5. ASSUME NEW c \in Contents, inLIFO_queue(q, c) PROVE ListInv' /\ Abstract!Next
  <2>1. q \in Plain /\ q \notin Sorted
    BY <1>5, QueuesAssumption DEF inLIFO_queue
  <2>2. ListInv' /\ Abstract!PutFirst(q, c)
    BY <1>1, <1>5, <2>1, PutAtEnd
  <2> QED BY <2>1, <2>2, Zenon DEF Abstract!Next
<1>6. ASSUME NEW c \in Contents, extract_from_queue(q, c) PROVE ListInv' /\ Abstract!Next
  <2>1. ListInv' /\ Abstract!Extract(q, c)
    BY <1>1, <1>6, Extraction
  <2> QED BY <2>1, Zenon DEF Abstract!Next
<1>7. ASSUME NEW c \in Contents, NEW p \in Prios, insert_queue(q, c, p)
      PROVE  ListInv' /\ Abstract!Next
  <2>1. q \in Sorted
    BY <1>7 DEF insert_queue
  <2>2. ListInv' /\ Abstract!After(q, c, p)
    BY <1>1, <1>3, <1>7, SearchFromFront
  <2> QED BY <2>1, <2>2, Zenon DEF Abstract!Next
<1>8. ASSUME NEW c \in Contents, NEW p \in Prios, insert_queue_from_back(q, c, p)
      PROVE  ListInv' /\ Abstract!Next
  <2>1. q \in Sorted
    BY <1>8 DEF insert_queue_from_back
  <2>2. ListInv' /\ Abstract!After(q, c, p)
    BY <1>1, <1>3, <1>8, SearchFromBack
  <2> QED BY <2>1, <2>2, Zenon DEF Abstract!Next
<1>9. ASSUME NEW c \in Contents, NEW p \in Prios, insert_first_queue(q, c, p)
      PROVE  ListInv' /\ Abstract!Next
  <2>1. q \in Sorted
    BY <1>9 DEF insert_first_queue
  <2>2. ListInv' /\ Abstract!Before(q, c, p)
    BY <1>1, <1>3, <1>9, SearchBeforeEquals
  <2> QED BY <2>1, <2>2, Zenon DEF Abstract!Next
<1>10. ASSUME outFIFO_queue(q) PROVE ListInv' /\ Abstract!Next
  <2>1. ListInv' /\ Abstract!TakeFirst(q)
    BY <1>1, <1>10, TakenFromFront
  <2> QED BY <2>1, Zenon DEF Abstract!Next
<1>11. ASSUME outLIFO_queue(q) PROVE ListInv' /\ Abstract!Next
  <2>1. ListInv' /\ Abstract!TakeLast(q)
    BY <1>1, <1>11, TakenFromBack
  <2> QED BY <2>1, Zenon DEF Abstract!Next
<1>12. ASSUME remove_queue_elements(q) PROVE ListInv' /\ Abstract!Next
  <2>1. ListInv' /\ Abstract!Clear(q)
    BY <1>1, <1>12, ClearStep
  <2> QED BY <2>1, Zenon DEF Abstract!Next
<1>13. ASSUME head_queue(q) PROVE ListInv' /\ Abstract!Next
  <2>1. ListInv' /\ Abstract!ToFirst(q)
    BY <1>1, <1>13, Walks
  <2> QED BY <2>1, Zenon DEF Abstract!Next
<1>14. ASSUME tail_queue(q) PROVE ListInv' /\ Abstract!Next
  <2>1. ListInv' /\ Abstract!ToLast(q)
    BY <1>1, <1>14, Walks
  <2> QED BY <2>1, Zenon DEF Abstract!Next
<1>15. ASSUME next_queue(q) PROVE ListInv' /\ Abstract!Next
  <2>1. ListInv' /\ Abstract!ToNext(q)
    BY <1>1, <1>15, Walks
  <2> QED BY <2>1, Zenon DEF Abstract!Next
<1>16. ASSUME NEW r \in Queues, move_queue_elements(q, r) PROVE ListInv' /\ Abstract!Next
  <2>1. r \in Queues \ Sorted
    BY <1>16, QueuesAssumption DEF move_queue_elements
  <2>2. ListInv' /\ Abstract!Move(q, r)
    BY <1>1, <1>16, MoveStep
  <2> QED BY <2>1, <2>2, Zenon DEF Abstract!Next
<1> QED BY <1>2, <1>4, <1>5, <1>6, <1>7, <1>8, <1>9, <1>10, <1>11, <1>12, <1>13, <1>14,
           <1>15, <1>16

LEMMA ListStutters ==
    ASSUME ListInv, UNCHANGED vars
    PROVE  ListInv' /\ UNCHANGED Abstract!vars
<1> DEFINE L == Lists
           a == Positions
<1>1. Holds(header, mem, lost, L, a)
  BY DEF ListInv
<1>2. header' = header /\ mem' = mem /\ lost' = lost
  BY DEF vars
<1> HIDE DEF L, a
<1>3. PICK M, b : M = L /\ b = a
  OBVIOUS
<1>4. Holds(header, mem, lost, M, b) /\ Holds(header', mem', lost', M, b)
  BY <1>1, <1>2, <1>3
<1>5. /\ ListInv'
      /\ Contained = [q \in Queues |-> View(mem, M[q])]
      /\ Contained' = [q \in Queues |-> View(mem', M[q])]
      /\ Positions = b /\ Positions' = b
  BY <1>4, StepReads
<1>6. Contained' = Contained /\ Positions' = Positions
  BY <1>2, <1>5
<1> QED BY <1>2, <1>5, <1>6, Zenon DEF Abstract!vars, Contained, Positions

LEMMA ListShape ==
    ASSUME ListInv
    PROVE  CellsConsistent
<1> DEFINE L == Lists
           a == Positions
<1>1. Holds(header, mem, lost, L, a)
  BY DEF ListInv
<1> HIDE DEF L, a
<1>2. Represents(header, mem, L) /\ Stands(header, lost, L, a)
  BY <1>1 DEF Holds
<1>3. \A q \in Queues : Chain(q) = L[q] /\ On(q) = ToSet(L[q])
  BY <1>1, Reads
<1>4. \A q \in Queues : /\ L[q] \in Seq(Cells) /\ DOMAIN L[q] = 1 .. Len(L[q])
                        /\ Len(L[q]) \in Nat
  BY <1>1, ContainedIs
<1>5. TypeOK
  BY <1>2 DEF TypeOK, Represents, Stands
<1>6. ASSUME NEW q \in Queues
      PROVE  /\ Reverse(Back(mem, header[q].last)) = Chain(q)
             /\ Len(Chain(q)) = header[q].count
  <2> DEFINE n == Len(L[q])
             s == [i \in 1 .. n |-> L[q][n + 1 - i]]
  <2>1. L[q] \in Seq(Cells) /\ DOMAIN L[q] = 1 .. n /\ n \in Nat
    BY <1>4
  <2>2. header[q].last = Nth(L[q], n) /\ header[q].count = n
    BY <1>2 DEF Represents
  <2>3. Back(mem, header[q].last) = s
    <3>1. \A k \in 0 .. Len(L[q]) : Back(mem, Nth(L[q], k)) = [i \in 1 .. k |-> L[q][k + 1 - i]]
      <4>1. Represents(header, mem, L) /\ q \in Queues
        BY <1>2
      <4> HIDE DEF s, n
      <4> QED BY ONLY <4>1, Backwards
    <3>2. Back(mem, Nth(L[q], n)) = s
      BY <2>1, <3>1
    <3> QED BY <2>2, <3>2
  <2>4. s \in Seq(Cells) /\ Len(s) = n /\ \A i \in 1 .. n : s[n - i + 1] = L[q][i]
    <3>1. \A i \in 1 .. n : n + 1 - i \in 1 .. n /\ n - i + 1 \in 1 .. n /\ n + 1 - (n - i + 1) = i
      BY <2>1
    <3>2. s \in [1 .. n -> Cells]
      BY <2>1, <3>1
    <3>3. \A i \in 1 .. n : s[n - i + 1] = L[q][i]
      BY <3>1
    <3> HIDE DEF s
    <3> QED BY <2>1, <3>2, <3>3
  <2> HIDE DEF s
  <2>5. Reverse(s) = [i \in 1 .. n |-> L[q][i]]
    BY <2>4 DEF Reverse
  <2>6. L[q] = [i \in 1 .. n |-> L[q][i]]
    BY <2>1
  <2> QED BY <1>3, <2>2, <2>3, <2>5, <2>6
<1>7. ASSUME NEW c \in Cells
      PROVE  mem[c].live <=> Cardinality({q \in Queues : c \in On(q)}) = 1
  <2> DEFINE Q == {q \in Queues : c \in On(q)}
  <2>1. \A q, r \in Q : q = r
    BY <1>2, <1>3 DEF Represents
  <2>2. mem[c].live <=> Q # {}
    <3>1. mem[c].live => Q # {}
      BY <1>2, <1>3 DEF Represents
    <3>2. ASSUME NEW q \in Q PROVE mem[c].live
      <4>1. PICK i \in DOMAIN L[q] : c = L[q][i]
        BY <1>3 DEF ToSet
      <4> QED BY <1>2, <4>1 DEF Represents
    <3> QED BY <3>1, <3>2
  <2>3. Q # {} => Cardinality(Q) = 1
    <3> SUFFICES ASSUME NEW q \in Q PROVE Cardinality(Q) = 1
      OBVIOUS
    <3>1. Q = {q}
      BY <2>1
    <3> QED BY <3>1, FS_Singleton
  <2>4. Q = {} => Cardinality(Q) # 1
    BY FS_EmptySet
  <2> QED BY <2>2, <2>3, <2>4
<1>8. InOrder
  <2> SUFFICES ASSUME NEW q \in Sorted, NEW i \in 1 .. Len(L[q]) - 1
               PROVE  mem[L[q][i]].prio <= mem[L[q][i + 1]].prio
    BY <1>3 DEF InOrder, Queues
  <2>1. q \in Queues
    BY DEF Queues
  <2>2. i \in DOMAIN L[q] /\ i + 1 \in DOMAIN L[q] /\ i <= i + 1
    BY <1>4, <2>1
  <2> QED BY <1>1, <2>2 DEF Holds, Ordered
<1>9. CursorInside
  <2> SUFFICES ASSUME NEW q \in Queues \ lost PROVE header[q].curr \in On(q) \cup {Nil}
    BY DEF CursorInside
  <2>1. header[q].curr = Nth(L[q], a[q])
    BY <1>2 DEF Stands
  <2> QED BY <1>3, <2>1 DEF Nth, ToSet
<1> QED BY <1>5, <1>6, <1>7, <1>8, <1>9 DEF CellsConsistent, WellFormed

LEMMA ListInductive == Spec => []ListInv
<1>1. Init => ListInv
  BY ListInit
<1>2. ListInv /\ [Next]_vars => ListInv'
  BY ListNext, ListStutters
<1> QED BY <1>1, <1>2, PTL DEF Spec

\* The cells always form the queues that the headers describe, whatever the
\* callers of list.c do: each queue reads the same from either end and has as
\* many cells as its count says, no cell is lost or in two queues, sorted queues
\* are in order, and the cursor is on a cell of its queue.
THEOREM QueuesConsistent == Spec => []CellsConsistent
<1>1. ListInv => CellsConsistent
  BY ListShape
<1> QED BY <1>1, ListInductive, PTL

\* Every operation of list.c, its pointers and its searches, does to the
\* sequence with a cursor what Queue says.
THEOREM ListImplementsQueue == Spec => ImplementsQueue
<1>1. Init => Abstract!Init
  BY ListInit
<1>2. ListInv /\ [Next]_vars => [Abstract!Next]_(Abstract!vars)
  BY ListNext, ListStutters
<1> QED BY <1>1, <1>2, ListInductive, PTL DEF Spec, ImplementsQueue, Abstract!Spec

\* The two searches put an element behind all of its priority, from whichever
\* end they look, and insert_first_queue before them.
THEOREM ArrivalDecides == Spec => EqualsInTurn
<1> DEFINE Turn == \A q \in Sorted, c \in Contents, p \in Prios :
             /\ insert_queue(q, c, p) \/ insert_queue_from_back(q, c, p) => Abstract!After(q, c, p)
             /\ insert_first_queue(q, c, p) => Abstract!Before(q, c, p)
<1>1. ASSUME ListInv PROVE Turn
  <2> SUFFICES ASSUME NEW q \in Sorted, NEW c \in Contents, NEW p \in Prios
               PROVE  /\ insert_queue(q, c, p) => Abstract!After(q, c, p)
                      /\ insert_queue_from_back(q, c, p) => Abstract!After(q, c, p)
                      /\ insert_first_queue(q, c, p) => Abstract!Before(q, c, p)
    OBVIOUS
  <2>1. Holds(header, mem, lost, Lists, Positions)
    BY <1>1 DEF ListInv
  <2>2. q \in Plain \cup Sorted
    OBVIOUS
  <2> QED BY <2>1, <2>2, SearchFromFront, SearchFromBack, SearchBeforeEquals
<1>2. ListInv => [Turn]_vars
  BY <1>1
<1> QED BY <1>2, ListInductive, PTL DEF EqualsInTurn
=============================================================================
