---------------------------- MODULE QueueLemmas ----------------------------
(***************************************************************************)
(* What adding to the end of a queue and taking from its front do to its   *)
(* positions and to the set of its elements, induction over the natural    *)
(* numbers, and what it shows of positions in order.                       *)
(***************************************************************************)
EXTENDS Integers, Sequences, SequencesExt, QueueOps, FiniteSetTheorems, TLAPS

\* No element is in the queue twice.
Once(q) == \A i, j \in DOMAIN q : q[i] = q[j] => i = j

LEMMA AppendPositions ==
    ASSUME NEW S, NEW q \in Seq(S), NEW x \in S
    PROVE  /\ Append(q, x) \in Seq(S)
           /\ DOMAIN q = 1 .. Len(q) /\ Len(q) \in Nat
           /\ DOMAIN Append(q, x) = 1 .. Len(q) + 1
           /\ Len(Append(q, x)) = Len(q) + 1
           /\ \A i \in DOMAIN q : Append(q, x)[i] = q[i]
           /\ Append(q, x)[Len(q) + 1] = x
  OBVIOUS

LEMMA TailPositions ==
    ASSUME NEW S, NEW q \in Seq(S), q # <<>>
    PROVE  /\ Tail(q) \in Seq(S) /\ Head(q) \in S
           /\ DOMAIN q = 1 .. Len(q) /\ Len(q) \in Nat \ {0}
           /\ Head(q) = q[1]
           /\ DOMAIN Tail(q) = 1 .. Len(q) - 1
           /\ Len(Tail(q)) = Len(q) - 1
           /\ \A i \in DOMAIN Tail(q) : Tail(q)[i] = q[i + 1]
  OBVIOUS

LEMMA FrontPositions ==
    ASSUME NEW S, NEW q \in Seq(S), q # <<>>
    PROVE  /\ Front(q) \in Seq(S) /\ Last(q) \in S
           /\ DOMAIN q = 1 .. Len(q) /\ Len(q) \in Nat \ {0}
           /\ Last(q) = q[Len(q)]
           /\ DOMAIN Front(q) = 1 .. Len(q) - 1
           /\ \A i \in 1 .. Len(q) - 1 : Front(q)[i] = q[i]
  BY DEF Front, Last

LEMMA AppendElements ==
    ASSUME NEW S, NEW q \in Seq(S), NEW x \in S
    PROVE  ToSet(Append(q, x)) = ToSet(q) \cup {x}
  BY AppendPositions DEF ToSet

LEMMA AppendOnce ==
    ASSUME NEW S, NEW q \in Seq(S), NEW x \in S, Once(q), x \notin ToSet(q)
    PROVE  Once(Append(q, x))
  BY AppendPositions DEF ToSet, Once

\* A queue that holds its elements once has lost just its front.
LEMMA TailElements ==
    ASSUME NEW S, NEW q \in Seq(S), q # <<>>, Once(q)
    PROVE  /\ Head(q) \in ToSet(q)
           /\ ToSet(Tail(q)) = ToSet(q) \ {Head(q)}
           /\ Once(Tail(q))
<1>1. \A i \in DOMAIN Tail(q) : i + 1 \in DOMAIN q /\ i + 1 # 1
  BY TailPositions
<1>2. \A i \in DOMAIN q : i = 1 \/ (i - 1 \in DOMAIN Tail(q) /\ q[i] = Tail(q)[i - 1])
  BY TailPositions
<1>3. Head(q) \in ToSet(q)
  BY TailPositions DEF ToSet
<1>4. ToSet(Tail(q)) \subseteq ToSet(q) \ {Head(q)}
  BY <1>1, TailPositions DEF ToSet, Once
<1>5. ToSet(q) \ {Head(q)} \subseteq ToSet(Tail(q))
  BY <1>2, TailPositions DEF ToSet
<1>6. Once(Tail(q))
  <2> SUFFICES ASSUME NEW i \in DOMAIN Tail(q), NEW j \in DOMAIN Tail(q),
                      Tail(q)[i] = Tail(q)[j]
               PROVE  i = j
    BY DEF Once
  <2>1. i \in Nat /\ j \in Nat
    BY TailPositions
  <2> QED BY <1>1, <2>1, TailPositions DEF Once
<1> QED BY <1>3, <1>4, <1>5, <1>6

\* Every element of a queue is of the type of the queue.
LEMMA EmptyElements ==
    ASSUME NEW S, NEW q \in Seq(S)
    PROVE  q = <<>> <=> ToSet(q) = {}
  BY DEF ToSet

LEMMA ElementsTyped ==
    ASSUME NEW S, NEW q \in Seq(S)
    PROVE  ToSet(q) \subseteq S
  BY DEF ToSet

-----------------------------------------------------------------------------
LEMMA LeastElement ==
    ASSUME NEW S \in SUBSET Nat, S # {}
    PROVE  \E n \in S : \A m \in S : n <= m
<1> DEFINE R == {ss \in Nat \X Nat : ss[1] < ss[2]}
<1>1. IsWellFoundedOn(R, Nat)
  BY NatLessThanWellFounded DEF OpToRel
<1> HIDE DEF R
<1>2. PICK n \in S : \A m \in S : ~ (<<m, n>> \in R)
  BY <1>1, WFMin
<1>3. \A m \in S : ~ (m < n)
  BY <1>2 DEF R
<1> QED BY <1>3

\* Induction over a set: the theorems of the library that take a predicate
\* cannot be instantiated, those that take a set can.
LEMMA SetInduction ==
    ASSUME NEW S, 0 \in S, \A n \in Nat : n \in S => n + 1 \in S
    PROVE  Nat \subseteq S
<1> DEFINE Bad == {n \in Nat : n \notin S}
<1> SUFFICES ASSUME Bad # {} PROVE FALSE
  OBVIOUS
<1>1. PICK n \in Bad : \A m \in Bad : n <= m
  BY LeastElement
<1>2. n \in Nat /\ n # 0 /\ n - 1 \in Nat /\ n - 1 \notin Bad
  BY <1>1
<1> QED BY <1>1, <1>2

LEMMA UpTo ==
    ASSUME NEW n \in Nat
    PROVE  IsFiniteSet(1 .. n) /\ Cardinality(1 .. n) = n
  BY FS_Interval

\* The positions that stay in a queue can be gone through in their order.
LEMMA OrderExists ==
    ASSUME NEW n \in Nat, NEW K \in SUBSET (1 .. n)
    PROVE  /\ Cardinality(K) \in Nat
           /\ \E f \in [1 .. Cardinality(K) -> K] :
                 \A i, j \in DOMAIN f : i < j => f[i] < f[j]
<1> DEFINE Ordered(Q) == \E f \in [1 .. Cardinality(Q) -> Q] :
                            \A i, j \in DOMAIN f : i < j => f[i] < f[j]
           Good == {m \in Nat : \A Q \in SUBSET (1 .. m) : Ordered(Q)}
<1>0. ASSUME NEW m \in Nat, NEW Q \in SUBSET (1 .. m)
      PROVE  IsFiniteSet(Q) /\ Cardinality(Q) \in Nat
  <2>1. IsFiniteSet(1 .. m)
    BY FS_Interval
  <2> QED BY <2>1, FS_Subset, FS_CardinalityType
<1>1. 0 \in Good
  <2> SUFFICES ASSUME NEW Q \in SUBSET (1 .. 0) PROVE Ordered(Q)
    OBVIOUS
  <2>0. Q = {}
    OBVIOUS
  <2>1. Q = {} /\ Cardinality(Q) = 0
    BY <2>0, FS_EmptySet
  <2>2. [i \in 1 .. 0 |-> i] \in [1 .. Cardinality(Q) -> Q]
    BY <2>1
  <2>3. \A i, j \in DOMAIN [i \in 1 .. 0 |-> i] : FALSE
    OBVIOUS
  <2> QED BY <2>2, <2>3
<1>2. ASSUME NEW m \in Nat, m \in Good PROVE m + 1 \in Good
  <2>0. ASSUME NEW Q \in SUBSET (1 .. m + 1) PROVE Ordered(Q)
    <3>1. CASE m + 1 \notin Q
      BY <3>1, <1>2
    <3>2. CASE m + 1 \in Q
      <4> DEFINE R == Q \ {m + 1}
                 c == Cardinality(R)
      <4>1. R \in SUBSET (1 .. m)
        OBVIOUS
      <4>2. c \in Nat /\ Cardinality(Q) = c + 1
        <5>1. R \cup {m + 1} = Q /\ m + 1 \notin R /\ IsFiniteSet(R)
          BY <3>2, <4>1, <1>0
        <5>2. Cardinality(R \cup {m + 1}) = Cardinality(R) + 1
          BY <5>1, FS_AddElement
        <5> QED BY <5>1, <5>2, <4>1, <1>0
      <4>3. PICK f \in [1 .. c -> R] : \A i, j \in DOMAIN f : i < j => f[i] < f[j]
        BY <4>1, <1>2
      <4> HIDE DEF c
      <4> DEFINE g == [i \in 1 .. c + 1 |-> IF i = c + 1 THEN m + 1 ELSE f[i]]
      <4>4. g \in [1 .. Cardinality(Q) -> Q]
        BY <4>2, <4>3, <3>2
      <4>5. \A i \in 1 .. c : f[i] \in R /\ f[i] < m + 1
        <5>1. \A r \in R : r < m + 1
          BY <4>1
        <5> QED BY <5>1
      <4>6. \A i, j \in DOMAIN g : i < j => g[i] < g[j]
        <5> SUFFICES ASSUME NEW i \in 1 .. c + 1, NEW j \in 1 .. c + 1, i < j
                     PROVE  g[i] < g[j]
          BY <4>2
        <5>1. i \in 1 .. c /\ g[i] = f[i]
          BY <4>2
        <5>2. CASE j = c + 1
          BY <5>1, <5>2, <4>5
        <5>3. CASE j # c + 1
          BY <5>1, <5>3, <4>3, <4>2
        <5> QED BY <5>2, <5>3
      <4> QED BY <4>4, <4>6
    <3> QED BY <3>1, <3>2
  <2>9. \A Q \in SUBSET (1 .. m + 1) : Ordered(Q)
    BY <2>0
  <2> HIDE DEF Ordered
  <2> QED BY <2>9
<1>3. Nat \subseteq Good
  <2> HIDE DEF Good
  <2> QED BY <1>1, <1>2, SetInduction
<1> QED BY <1>0, <1>3

\* As many different entries as there are members are all the members.
LEMMA FullQueue ==
    ASSUME NEW S, IsFiniteSet(S), NEW f, NEW n \in Nat, f \in [1 .. n -> S],
           \A i, j \in 1 .. n : f[i] = f[j] => i = j
    PROVE  /\ n <= Cardinality(S)
           /\ n = Cardinality(S) => \A s \in S : \E i \in 1 .. n : f[i] = s
<1>1. f \in Injection(1 .. n, S)
  BY DEF Injection, IsInjective
<1>2. Cardinality(1 .. n) = n
  BY FS_Interval
<1> QED BY <1>1, <1>2, FS_Injection DEF Surjection

\* Taking elements out leaves the others.
LEMMA WithoutElements ==
    ASSUME NEW S, NEW q \in Seq(S), NEW left
    PROVE  /\ Without(q, left) \in Seq(S)
           /\ ToSet(Without(q, left)) = ToSet(q) \ left
           /\ Once(q) => Once(Without(q, left))
<1> DEFINE stay == {i \in DOMAIN q : q[i] \notin left}
           n == Cardinality(stay)
           Increasing(f) == \A i, j \in DOMAIN f : i < j => f[i] < f[j]
           order == CHOOSE f \in [1 .. n -> stay] : Increasing(f)
<1>1. DOMAIN q = 1 .. Len(q) /\ Len(q) \in Nat
  OBVIOUS
<1>2. stay \in SUBSET (1 .. Len(q)) /\ IsFiniteSet(stay)
  <2>1. IsFiniteSet(1 .. Len(q))
    BY <1>1, FS_Interval
  <2>2. stay \in SUBSET (1 .. Len(q))
    BY <1>1
  <2> HIDE DEF stay
  <2> QED BY <2>1, <2>2, FS_Subset
<1>3. n \in Nat /\ \E f \in [1 .. n -> stay] : Increasing(f)
  <2> HIDE DEF stay
  <2> QED BY <1>1, <1>2, OrderExists
<1>4. order \in [1 .. n -> stay] /\ Increasing(order)
  <2> HIDE DEF Increasing, stay, n
  <2> QED BY <1>3
<1>5. Without(q, left) = [i \in DOMAIN order |-> q[order[i]]]
  BY DEF Without
<1> HIDE DEF order, n
<1>6. DOMAIN order = 1 .. n /\ \A i \in 1 .. n : order[i] \in stay
  BY <1>4
<1>7. \A i, j \in 1 .. n : order[i] = order[j] => i = j
  <2> SUFFICES ASSUME NEW i \in 1 .. n, NEW j \in 1 .. n, order[i] = order[j], i # j
               PROVE  FALSE
    OBVIOUS
  <2>1. i \in Nat /\ j \in Nat /\ order[i] \in Nat /\ order[j] \in Nat
    BY <1>2, <1>3, <1>6
  <2>2. i < j \/ j < i
    BY <2>1
  <2>3. order[i] < order[j] \/ order[j] < order[i]
    BY <2>2, <1>4, <1>6
  <2> QED BY <2>1, <2>3
<1>8. \A s \in stay : \E i \in 1 .. n : order[i] = s
  <2>1. n = Cardinality(stay) /\ n \in Nat /\ order \in [1 .. n -> stay] /\ IsFiniteSet(stay)
    BY <1>2, <1>3, <1>4 DEF n
  <2>2. ASSUME NEW K, NEW o, NEW m \in Nat, m = Cardinality(K), IsFiniteSet(K),
               o \in [1 .. m -> K], \A i, j \in 1 .. m : o[i] = o[j] => i = j
        PROVE  \A s \in K : \E i \in 1 .. m : o[i] = s
    BY <2>2, FullQueue
  <2> HIDE DEF stay
  <2> QED BY <1>7, <2>1, <2>2
<1>9. Without(q, left) \in Seq(S)
  <2>1. \A i \in 1 .. n : q[order[i]] \in S
    BY <1>6
  <2> QED BY <1>3, <1>5, <1>6, <2>1
<1>10. DOMAIN Without(q, left) = 1 .. n
       /\ \A i \in 1 .. n : Without(q, left)[i] = q[order[i]]
  BY <1>5, <1>6
<1>11. ToSet(Without(q, left)) = ToSet(q) \ left
  BY <1>6, <1>8, <1>10 DEF ToSet
<1>12. Once(q) => Once(Without(q, left))
  BY <1>6, <1>7, <1>10 DEF Once
<1> QED BY <1>9, <1>11, <1>12

-----------------------------------------------------------------------------
LEMMA PrependElements ==
    ASSUME NEW S, NEW q \in Seq(S), NEW x \in S
    PROVE  /\ <<x>> \o q \in Seq(S) /\ <<x>> \o q # <<>>
           /\ ToSet(<<x>> \o q) = {x} \cup ToSet(q)
           /\ Once(q) /\ x \notin ToSet(q) => Once(<<x>> \o q)
<1> DEFINE p == <<x>> \o q
<1>1. /\ p \in Seq(S) /\ Len(q) \in Nat /\ DOMAIN q = 1 .. Len(q)
      /\ DOMAIN p = 1 .. Len(q) + 1 /\ p[1] = x
      /\ \A i \in DOMAIN q : p[i + 1] = q[i]
  OBVIOUS
<1>2. \A i \in DOMAIN p : i = 1 \/ (i - 1 \in DOMAIN q /\ p[i] = q[i - 1])
  <2> HIDE DEF p
  <2> QED BY <1>1
<1>3. \A i \in DOMAIN q : i + 1 \in DOMAIN p
  <2> HIDE DEF p
  <2> QED BY <1>1
<1>4. 1 \in DOMAIN p /\ p # <<>>
  <2> HIDE DEF p
  <2> QED BY <1>1
<1>5. ToSet(p) = {x} \cup ToSet(q)
  <2> HIDE DEF p
  <2> QED BY <1>1, <1>2, <1>3, <1>4 DEF ToSet
<1>6. ASSUME Once(q), x \notin ToSet(q) PROVE Once(p)
  <2> HIDE DEF p
  <2> SUFFICES ASSUME NEW i \in DOMAIN p, NEW j \in DOMAIN p, p[i] = p[j] PROVE i = j
    BY DEF Once
  <2>1. i = 1 /\ j # 1 => p[i] # p[j]
    BY <1>1, <1>2, <1>6 DEF ToSet
  <2>2. j = 1 /\ i # 1 => p[i] # p[j]
    BY <1>1, <1>2, <1>6 DEF ToSet
  <2>3. i # 1 /\ j # 1 => i - 1 = j - 1
    BY <1>2, <1>6 DEF Once
  <2> QED BY <1>1, <2>1, <2>2, <2>3
<1> QED BY <1>1, <1>4, <1>5, <1>6

\* One element takes the place of another.
LEMMA ReplaceElements ==
    ASSUME NEW S, NEW q \in Seq(S), Once(q), NEW old \in ToSet(q),
           NEW new \in S, new \notin ToSet(q)
    PROVE  /\ ReplaceAll(q, old, new) \in Seq(S)
           /\ ToSet(ReplaceAll(q, old, new)) = (ToSet(q) \ {old}) \cup {new}
           /\ Once(ReplaceAll(q, old, new))
           /\ Len(ReplaceAll(q, old, new)) = Len(q)
<1> DEFINE p == ReplaceAll(q, old, new)
<1>1. /\ DOMAIN q = 1 .. Len(q) /\ Len(q) \in Nat /\ \A i \in DOMAIN q : q[i] \in S
      /\ p \in Seq(S) /\ DOMAIN p = DOMAIN q /\ Len(p) = Len(q)
      /\ \A i \in DOMAIN q : p[i] = IF q[i] = old THEN new ELSE q[i]
  BY DEF ReplaceAll
<1> HIDE DEF p
<1>2. ToSet(p) = (ToSet(q) \ {old}) \cup {new}
  BY <1>1 DEF ToSet
<1>3. Once(p)
  BY <1>1 DEF ToSet, Once
<1> QED BY <1>1, <1>2, <1>3 DEF p

\* A queue without repetitions is as long as it has elements.
LEMMA OnceCounts ==
    ASSUME NEW S, NEW q \in Seq(S), Once(q)
    PROVE  IsFiniteSet(ToSet(q)) /\ Cardinality(ToSet(q)) = Len(q)
<1>1. q \in Surjection(1 .. Len(q), ToSet(q)) /\ q \in Injection(1 .. Len(q), ToSet(q))
  BY DEF ToSet, Once, Injection, Surjection, IsInjective
<1>2. Len(q) \in Nat /\ IsFiniteSet(1 .. Len(q)) /\ Cardinality(1 .. Len(q)) = Len(q)
  BY UpTo
<1> QED BY <1>1, <1>2, FS_Surjection

-----------------------------------------------------------------------------
\* Inserting at a position and removing from one.
LEMMA InsertElements ==
    ASSUME NEW S, NEW q \in Seq(S), NEW k \in 1 .. Len(q) + 1, NEW x \in S
    PROVE  LET p == InsertAt(q, k, x)
           IN  /\ p \in Seq(S) /\ Len(p) = Len(q) + 1
               /\ DOMAIN p = 1 .. Len(q) + 1 /\ DOMAIN q = 1 .. Len(q) /\ Len(q) \in Nat
               /\ p[k] = x
               /\ \A i \in 1 .. k - 1 : p[i] = q[i]
               /\ \A i \in k + 1 .. Len(q) + 1 : p[i] = q[i - 1]
<1> DEFINE a == SubSeq(q, 1, k - 1)
           b == SubSeq(q, k, Len(q))
<1>1. /\ a \in Seq(S) /\ Len(a) = k - 1 /\ \A i \in 1 .. k - 1 : a[i] = q[i]
      /\ Len(q) \in Nat /\ k \in Nat /\ k >= 1 /\ k <= Len(q) + 1 /\ DOMAIN q = 1 .. Len(q)
  OBVIOUS
<1>2. b \in Seq(S) /\ Len(b) = Len(q) + 1 - k /\ \A i \in 1 .. Len(q) + 1 - k : b[i] = q[i + k - 1]
  OBVIOUS
<1> HIDE DEF a, b
<1>3. a \o <<x>> \in Seq(S) /\ Len(a \o <<x>>) = k /\ (a \o <<x>>)[k] = x
      /\ \A i \in 1 .. k - 1 : (a \o <<x>>)[i] = a[i]
  BY <1>1
<1> DEFINE c == a \o <<x>>
<1> HIDE DEF c
<1>4. c \in Seq(S) /\ Len(c) = k /\ c[k] = x /\ \A i \in 1 .. k - 1 : c[i] = a[i]
  BY <1>3 DEF c
<1>5. /\ c \o b \in Seq(S) /\ Len(c \o b) = Len(q) + 1
      /\ \A i \in 1 .. k : (c \o b)[i] = c[i]
      /\ \A i \in k + 1 .. Len(q) + 1 : (c \o b)[i] = b[i - k]
  BY <1>1, <1>2, <1>4
<1> DEFINE p == c \o b
<1> HIDE DEF p
<1>6. /\ p \in Seq(S) /\ Len(p) = Len(q) + 1
      /\ \A i \in 1 .. k : p[i] = c[i]
      /\ \A i \in k + 1 .. Len(q) + 1 : p[i] = b[i - k]
  BY <1>5 DEF p
<1>7. p = InsertAt(q, k, x)
  BY DEF p, c, a, b, InsertAt
<1>8. \A i \in k + 1 .. Len(q) + 1 : p[i] = q[i - 1]
  <2> SUFFICES ASSUME NEW i \in k + 1 .. Len(q) + 1 PROVE p[i] = q[i - 1]
    OBVIOUS
  <2>1. i - k \in 1 .. Len(q) + 1 - k /\ (i - k) + k - 1 = i - 1
    BY <1>1
  <2> QED BY <1>2, <1>6, <2>1
<1>9. p[k] = x /\ \A i \in 1 .. k - 1 : p[i] = q[i]
  <2>1. k \in 1 .. k /\ \A i \in 1 .. k - 1 : i \in 1 .. k
    BY <1>1
  <2> QED BY <1>1, <1>4, <1>6, <2>1
<1>10. DOMAIN p = 1 .. Len(q) + 1
  BY <1>6
<1> QED BY <1>1, <1>6, <1>7, <1>8, <1>9, <1>10

\* p is q with x at position k.
Inserted(p, q, k, x) ==
    /\ Len(p) = Len(q) + 1 /\ DOMAIN p = 1 .. Len(q) + 1 /\ p[k] = x
    /\ \A i \in 1 .. k - 1 : p[i] = q[i]
    /\ \A i \in k + 1 .. Len(q) + 1 : p[i] = q[i - 1]

LEMMA InsertIs ==
    ASSUME NEW S, NEW q \in Seq(S), NEW k \in 1 .. Len(q) + 1, NEW x \in S
    PROVE  Inserted(InsertAt(q, k, x), q, k, x)
<1> DEFINE p == InsertAt(q, k, x)
<1>1. /\ Len(p) = Len(q) + 1 /\ DOMAIN p = 1 .. Len(q) + 1 /\ p[k] = x
      /\ \A i \in 1 .. k - 1 : p[i] = q[i]
      /\ \A i \in k + 1 .. Len(q) + 1 : p[i] = q[i - 1]
  BY InsertElements
<1> HIDE DEF p
<1>2. Inserted(p, q, k, x)
  BY <1>1 DEF Inserted
<1> QED BY <1>2 DEF p

LEMMA InsertSets ==
    ASSUME NEW S, NEW q \in Seq(S), NEW k \in 1 .. Len(q) + 1, NEW x \in S
    PROVE  /\ ToSet(InsertAt(q, k, x)) = ToSet(q) \cup {x}
           /\ Once(q) /\ x \notin ToSet(q) => Once(InsertAt(q, k, x))
<1> DEFINE p == InsertAt(q, k, x)
<1>1. /\ DOMAIN p = 1 .. Len(q) + 1 /\ DOMAIN q = 1 .. Len(q) /\ Len(q) \in Nat
      /\ p[k] = x /\ k \in Nat /\ 1 <= k /\ k <= Len(q) + 1
      /\ \A i \in 1 .. k - 1 : p[i] = q[i]
      /\ \A i \in k + 1 .. Len(q) + 1 : p[i] = q[i - 1]
  BY InsertElements
<1> HIDE DEF p
<1> DEFINE from(i) == IF i < k THEN i ELSE i - 1
           to(i) == IF i < k THEN i ELSE i + 1
<1>2. \A i \in DOMAIN p : i = k \/ (i # k /\ from(i) \in DOMAIN q /\ p[i] = q[from(i)])
  BY <1>1
<1>3. \A i \in DOMAIN q : to(i) \in DOMAIN p /\ p[to(i)] = q[i]
  BY <1>1
<1>4. \A i, j \in DOMAIN p : i # k /\ j # k /\ from(i) = from(j) => i = j
  BY <1>1
<1>5. k \in DOMAIN p
  BY <1>1
<1> HIDE DEF from, to
<1>6. ToSet(p) = ToSet(q) \cup {x}
  BY <1>1, <1>2, <1>3, <1>5 DEF ToSet
<1>7. Once(q) /\ x \notin ToSet(q) => Once(p)
  BY <1>1, <1>2, <1>4 DEF ToSet, Once
<1> QED BY <1>6, <1>7 DEF p

LEMMA RemoveElements ==
    ASSUME NEW S, NEW q \in Seq(S), NEW k \in DOMAIN q
    PROVE  LET p == RemoveAt(q, k)
           IN  /\ p \in Seq(S) /\ Len(p) = Len(q) - 1
               /\ DOMAIN p = 1 .. Len(q) - 1 /\ DOMAIN q = 1 .. Len(q) /\ Len(q) \in Nat
               /\ \A i \in 1 .. k - 1 : p[i] = q[i]
               /\ \A i \in k .. Len(q) - 1 : p[i] = q[i + 1]
<1> DEFINE a == SubSeq(q, 1, k - 1)
           b == SubSeq(q, k + 1, Len(q))
<1>1. /\ a \in Seq(S) /\ Len(a) = k - 1 /\ \A i \in 1 .. k - 1 : a[i] = q[i]
      /\ Len(q) \in Nat /\ k \in Nat /\ k >= 1 /\ k <= Len(q) /\ DOMAIN q = 1 .. Len(q)
  OBVIOUS
<1>2. b \in Seq(S) /\ Len(b) = Len(q) - k /\ \A i \in 1 .. Len(q) - k : b[i] = q[i + k]
  OBVIOUS
<1> HIDE DEF a, b
<1>3. /\ a \o b \in Seq(S) /\ Len(a \o b) = Len(q) - 1
      /\ \A i \in 1 .. k - 1 : (a \o b)[i] = a[i]
      /\ \A i \in k .. Len(q) - 1 : (a \o b)[i] = b[i - (k - 1)]
  <2>1. /\ a \o b \in Seq(S) /\ Len(a \o b) = Len(a) + Len(b)
        /\ \A i \in 1 .. Len(a) + Len(b) :
              (a \o b)[i] = IF i <= Len(a) THEN a[i] ELSE b[i - Len(a)]
    <3>1. a \in Seq(S) /\ b \in Seq(S)
      BY <1>1, <1>2
    <3> QED BY <3>1
  <2>2. Len(a) = k - 1 /\ Len(a) + Len(b) = Len(q) - 1
    BY <1>1, <1>2
  <2>3. \A i \in 1 .. k - 1 : i \in 1 .. Len(q) - 1 /\ i <= k - 1
    BY <1>1
  <2>4. \A i \in k .. Len(q) - 1 : i \in 1 .. Len(q) - 1 /\ ~(i <= k - 1)
    BY <1>1
  <2> QED BY <2>1, <2>2, <2>3, <2>4
<1> DEFINE p == a \o b
<1> HIDE DEF p
<1>4. /\ p \in Seq(S) /\ Len(p) = Len(q) - 1
      /\ \A i \in 1 .. k - 1 : p[i] = a[i]
      /\ \A i \in k .. Len(q) - 1 : p[i] = b[i - (k - 1)]
  BY <1>3 DEF p
<1>5. p = RemoveAt(q, k)
  BY DEF p, a, b, RemoveAt
<1>6. \A i \in k .. Len(q) - 1 : p[i] = q[i + 1]
  <2> SUFFICES ASSUME NEW i \in k .. Len(q) - 1 PROVE p[i] = q[i + 1]
    OBVIOUS
  <2>1. i - (k - 1) \in 1 .. Len(q) - k /\ (i - (k - 1)) + k = i + 1
    BY <1>1
  <2> QED BY <1>2, <1>4, <2>1
<1>7. DOMAIN p = 1 .. Len(q) - 1
  BY <1>4
<1> QED BY <1>1, <1>4, <1>5, <1>6, <1>7

LEMMA RemoveSets ==
    ASSUME NEW S, NEW q \in Seq(S), NEW k \in DOMAIN q, Once(q)
    PROVE  /\ ToSet(RemoveAt(q, k)) = ToSet(q) \ {q[k]}
           /\ Once(RemoveAt(q, k))
<1> DEFINE p == RemoveAt(q, k)
<1>1. /\ DOMAIN p = 1 .. Len(q) - 1 /\ DOMAIN q = 1 .. Len(q) /\ Len(q) \in Nat
      /\ k \in Nat /\ 1 <= k /\ k <= Len(q)
      /\ \A i \in 1 .. k - 1 : p[i] = q[i]
      /\ \A i \in k .. Len(q) - 1 : p[i] = q[i + 1]
  BY RemoveElements
<1> HIDE DEF p
<1> DEFINE from(i) == IF i < k THEN i ELSE i + 1
           to(i) == IF i < k THEN i ELSE i - 1
<1>2. \A i \in DOMAIN p : from(i) \in DOMAIN q /\ from(i) # k /\ p[i] = q[from(i)]
  BY <1>1
<1>3. \A i \in DOMAIN q : i # k => to(i) \in DOMAIN p /\ p[to(i)] = q[i]
  BY <1>1
<1>4. \A i, j \in DOMAIN p : from(i) = from(j) => i = j
  BY <1>1
<1> HIDE DEF from, to
<1>5. ToSet(p) = ToSet(q) \ {q[k]}
  BY <1>2, <1>3 DEF ToSet, Once
<1>6. Once(p)
  BY <1>2, <1>4 DEF Once
<1> QED BY <1>5, <1>6 DEF p
=============================================================================
