------------------------- MODULE AsyncReaderProofs -------------------------
(***************************************************************************)
(* The lock-free circular buffer of the asynchronous reader is correct for *)
(* every number of threads, every buffer size above one, every burst and   *)
(* every trace: the window between head and tail is intact and actions are *)
(* handed over in the order of the trace.                                  *)
(***************************************************************************)
EXTENDS AsyncReader, TLAPS

-----------------------------------------------------------------------------
(* Arithmetic of circular indexes *)

\* The remainder of a division by n is an index of a buffer of n slots.
LEMMA ModRange ==
    ASSUME NEW n \in Nat \ {0}, NEW a \in Nat
    PROVE  a % n \in 0 .. (n-1)
BY Z3

\* Quotient and remainder determine the dividend.
LEMMA DivMod ==
    ASSUME NEW n \in Nat \ {0}, NEW a \in Nat
    PROVE  a \div n \in Int /\ a = n * (a \div n) + (a % n)
BY Z3

\* Multiples of n are at least n apart.
LEMMA MulMono ==
    ASSUME NEW n \in Nat \ {0}, NEW p \in Int, NEW q \in Int, p < q
    PROVE  n * q >= n * p + n
<1>1. q - p >= 1 OBVIOUS
<1>2. n * (q - p) >= n BY <1>1, Z3
<1>3. n * (q-p) = n*q - n*p BY Z3
<1> QED BY <1>2, <1>3, Z3

\* Quotient and remainder are unique.
LEMMA DivUnique ==
    ASSUME NEW n \in Nat \ {0}, NEW p \in Int, NEW q \in Int, NEW r \in 0..(n-1), NEW s \in 0..(n-1), n*p + r = n*q + s
    PROVE  p = q /\ r = s
<1>1. ~(p < q) BY MulMono, Z3
<1>2. ~(q < p) BY MulMono, Z3
<1>3. p = q BY <1>1, <1>2, Z3
<1> QED BY <1>3, Z3

\* A position inside the first round is its own slot.
LEMMA ModSmall ==
    ASSUME NEW n \in Nat \ {0}, NEW a \in 0 .. (n - 1)
    PROVE  a % n = a
<1>1. a \in Nat /\ 0 \in Int /\ n * 0 + a = a
  BY Z3
<1>2. /\ a % n \in 0 .. (n - 1) /\ a \div n \in Int
      /\ a = n * (a \div n) + (a % n)
  BY <1>1, ModRange, DivMod
<1> QED
  BY <1>1, <1>2, DivUnique

\* Two positions less than a buffer apart never share a slot: why the reader
\* cannot overwrite an action that is still waiting.
LEMMA ModDiff ==
    ASSUME NEW n \in Nat \ {0}, NEW a \in Nat, NEW b \in Nat, a < b, b - a < n
    PROVE  a % n # b % n
<1> DEFINE p == a \div n
           q == b \div n
           r == a % n
<1>1. /\ p \in Int /\ q \in Int /\ r \in 0..(n-1) /\ a = n * p + r /\ b = n * q + (b % n) BY ModRange, DivMod
<1> HIDE DEF p, q, r
<1> SUFFICES ASSUME r = b % n PROVE FALSE BY DEF r
<1>2. n*p < n*q /\ n*q - n*p < n  BY <1>1, Z3
<1>3. ~(p < q) BY <1>1, <1>2, MulMono, Z3
<1>4. ~(q < p) BY <1>1, <1>2, MulMono, Z3
<1>5. p = q BY <1>1, <1>3, <1>4, Z3
<1> QED BY <1>2, <1>5, <1>1, Z3

\* A full round leads back to the same slot.
LEMMA ModRound ==
    ASSUME NEW n \in Nat \ {0}, NEW a \in Nat
    PROVE  (a + n) % n = a % n
<1> DEFINE p == a \div n
           q == (a + n) \div n
           r == a % n
           s == (a + n) % n
<1>0. a + n \in Nat
  OBVIOUS
<1>1. /\ r \in 0 .. (n - 1) /\ p \in Int /\ a = n * p + r
      /\ s \in 0 .. (n - 1) /\ q \in Int /\ a + n = n * q + s
  BY <1>0, ModRange, DivMod
<1> HIDE DEF p, q, r, s
<1>2. n * (p + 1) + r = n * q + s /\ p + 1 \in Int
  BY <1>1, Z3
<1>3. r = s
  BY <1>1, <1>2, DivUnique, Z3
<1> QED
  BY <1>3 DEF r, s

\* Advancing an index around the buffer is advancing the position it stands for.
LEMMA ModSucc ==
    ASSUME NEW n \in Nat \ {0}, NEW a \in Nat
    PROVE  ((a % n) + 1) % n = (a+1) % n
<1> DEFINE r == a % n  
           p == a \div n
<1>1. r \in 0..(n-1) /\ p \in Int /\ a = n * p + r BY ModRange, DivMod
<1> HIDE DEF r, p
<1>2. CASE r + 1 < n
  <2>1. (r + 1) % n = r + 1 BY <1>1, <1>2, Z3
  <2> DEFINE q == (a+1) \div n 
             s == (a+1) % n
  <2>2. s \in 0..(n-1) /\ q \in Int /\ a+1 = n * q + s BY ModRange, DivMod
  <2> HIDE DEF q, s
  <2>3. n * p + (r+1) = n*q + s BY <2>2, <1>1, Z3
  <2>4. r + 1 \in 0..(n-1) BY <1>1, <1>2
  <2>5. r + 1 = s BY <2>2, <2>3, <2>4, <1>1, DivUnique, Z3
  <2> QED BY <2>1, <2>5 DEF s, r
<1>3. CASE r + 1 = n
  <2>1. (r + 1) % n = 0 BY <1>1, <1>3, Z3
  <2> DEFINE q == (a+1) \div n 
             s == (a+1) % n
  <2>2. s \in 0..(n-1) /\ q \in Int /\ a+1 = n * q + s BY ModRange, DivMod
  <2> HIDE DEF q, s
  <2>3. n * (p+1) + 0 = n*q + s BY <2>2, <1>1, <1>3, Z3
  <2>4. 0 \in 0..(n-1) /\ p + 1 \in Int BY <1>1, <1>3
  <2>5. 0 = s BY <2>2, <2>3, <2>4, <1>1, DivUnique, Z3
  <2> QED BY <2>1, <2>5 DEF s, r
<1> QED BY <1>1, <1>2, <1>3

-----------------------------------------------------------------------------
(* The inductive invariant *)

\* In a visit there is a thread to visit; past the fullness test there is room
\* for one more action, whatever the simulator did since; a held action is the
\* last one decoded, and once stored it sits in the slot tail points at.
ReaderInv ==
    /\ rpc \in {"full", "read", "store", "publish"} => ri \in Threads
    /\ rpc \in {"read", "store", "publish"} =>
          /\ Stored(ri) - last[ri] < BSize - 1
          /\ rk < Burst
    /\ rpc \in {"store", "publish"} => ract = pos[ri]
    /\ rpc = "publish" => buf[ri][tail[ri]] = ract

\* Past the emptiness test there is an action to take, and what was taken is
\* the one that follows the last handed over.
SimInv ==
    /\ spc \in {"take", "advance"} => last[st] < Stored(st)
    /\ spc = "advance" => snew = last[st] + 1

IInv == TypeOK /\ WindowIntact /\ ReaderInv /\ SimInv

\* READ_Init_asynch establishes the invariant: one action in every buffer.
LEMMA InitInv == Init => IInv
<1> SUFFICES ASSUME Init PROVE IInv
  OBVIOUS
<1> USE DEF Init, NULL, Threads
<1>1. TypeOK
  BY NThreadsAssumption, BSizeAssumption, BurstAssumption DEF TypeOK
<1>2. WindowIntact
  <2>1. 0 % BSize = 0 /\ 1 % BSize = 1
    BY BSizeAssumption, ModSmall
  <2> QED
    BY <2>1, BSizeAssumption DEF WindowIntact, Window, Stored
<1>3. ReaderInv /\ SimInv
  BY DEF ReaderInv, SimInv
<1> QED
  BY <1>1, <1>2, <1>3 DEF IInv

\* Types are kept by every step that starts in a state of the invariant.
LEMMA TypeStep == IInv /\ [Next]_vars => TypeOK'
<1> SUFFICES ASSUME IInv, [Next]_vars PROVE TypeOK'
  OBVIOUS
<1>a. TypeOK /\ ReaderInv
  BY DEF IInv
<1> USE <1>a DEF TypeOK
<1>0. \A i \in 0 .. (BSize - 1) : Succ(i) \in 0 .. (BSize - 1)
  <2> SUFFICES ASSUME NEW i \in 0 .. (BSize - 1)
               PROVE  (i + 1) % BSize \in 0 .. (BSize - 1)
    BY DEF Succ
  <2>1. i + 1 \in Nat /\ BSize \in Nat \ {0}
    BY BSizeAssumption
  <2> QED
    BY <2>1, ModRange
<1>r. /\ rpc \in {"full", "read", "store", "publish"} =>
            ri \in Threads /\ ri + 1 \in 0 .. NThreads
      /\ rpc = "publish" => rk + 1 \in 0 .. Burst
  BY NThreadsAssumption, BurstAssumption DEF ReaderInv, Threads
<1>1. CASE ReaderLoop
  BY <1>1, NThreadsAssumption DEF ReaderLoop, simVars
<1>2. CASE ReaderVisit
  <2>1. UNCHANGED <<buf, head, tail, eof, pos, ract, ended, simVars>>
    BY <1>2 DEF ReaderVisit
  <2>2. /\ ri' \in 0 .. NThreads
        /\ rk' \in 0 .. Burst
        /\ rpc' \in {"loop", "visit", "full"}
    BY <1>2, NThreadsAssumption, BurstAssumption DEF ReaderVisit
  <2> QED
    BY <2>1, <2>2 DEF simVars
<1>3. CASE ReaderTestFull
  BY <1>3, <1>r DEF ReaderTestFull, NextVisit, simVars
<1>4. CASE ReaderRead
  <2>1. CASE pos[ri] < TraceLen[ri]
    <3>1. ri \in Threads /\ pos[ri] \in Nat /\ TraceLen[ri] \in Nat
      BY <1>4, <1>r, TraceAssumption DEF ReaderRead
    <3> HIDE <1>a
    <3>2. pos' = [pos EXCEPT ![ri] = pos[ri] + 1] /\ ract' = pos[ri] + 1
      BY <1>4, <2>1, <3>1 DEF ReaderRead
    <3>3. rpc' = "store" /\ UNCHANGED <<buf, head, tail, eof, ri, rk, ended, simVars>>
      BY <1>4, <2>1, <3>1 DEF ReaderRead
    <3>0. pos \in [Threads -> Nat]
      BY <1>a
    <3>4. pos' \in [Threads -> Nat]
      BY <3>0, <3>1, <3>2
    <3>5. ract' \in Nat
      BY <3>1, <3>2
    <3> QED
      BY <1>a, <3>3, <3>4, <3>5 DEF simVars
  <2>2. CASE ~(pos[ri] < TraceLen[ri])
    <3>1. /\ eof' = [eof EXCEPT ![ri] = TRUE]
          /\ ended' = ended + 1 /\ rpc' = "visit" /\ ri' = ri + 1
          /\ UNCHANGED <<buf, head, tail, pos, rk, ract, simVars>>
      BY <1>4, <2>2 DEF ReaderRead, NextVisit
    <3>2. ri + 1 \in 0 .. NThreads
      BY <1>4, <1>r DEF ReaderRead
    <3>3. eof' \in [Threads -> BOOLEAN]
      BY <3>1
    <3>4. ended' \in Nat /\ rpc' = "visit" /\ ri' \in 0 .. NThreads
      BY <3>1, <3>2
    <3>5. UNCHANGED <<buf, head, tail, pos, rk, ract, simVars>>
      BY <3>1
    <3> QED
      BY <3>3, <3>4, <3>5 DEF simVars
  <2> QED
    BY <2>1, <2>2
<1>5. CASE ReaderStore
  BY <1>5, <1>r DEF ReaderStore, simVars
<1>6. CASE ReaderPublish
  BY <1>0, <1>6, <1>r DEF ReaderPublish, simVars
<1>7. ASSUME NEW t \in Threads, GetNextAction(t) \/ Execute(t)
      PROVE  TypeOK'
  <2>1. CASE GetNextAction(t)
    BY <1>7, <2>1 DEF GetNextAction, readerVars
  <2>2. CASE Execute(t)
    BY <1>7, <2>2 DEF Execute, readerVars, NULL
  <2> QED
    BY <1>7, <2>1, <2>2
<1>8. CASE TestEmpty \/ TestEof
  BY <1>8 DEF TestEmpty, TestEof, readerVars
<1>9. CASE Take
  BY <1>9 DEF Take, readerVars
<1>10. CASE Advance
  BY <1>0, <1>10 DEF Advance, readerVars
<1>11. CASE UNCHANGED vars
  BY <1>11 DEF vars, readerVars, simVars
<1> QED
  BY <1>1, <1>2, <1>3, <1>4, <1>5, <1>6, <1>7, <1>8, <1>9, <1>10, <1>11
     DEF Next, Reader, Simulator

\* Only publishing makes an action available to the simulator.
LEMMA StoredStep ==
    ASSUME IInv, [Next]_vars, NEW t \in Threads
    PROVE  Stored(t)' = IF ReaderPublish /\ ri = t THEN Stored(t) + 1
                                                 ELSE Stored(t)
<1>1. CASE ReaderPublish
  <2>1. rpc = "publish" /\ rpc' = "full" /\ UNCHANGED <<pos, ri>>
    BY <1>1 DEF ReaderPublish
  <2>2. pos[t] \in Nat
    BY DEF IInv, TypeOK
  <2> QED
    BY <1>1, <2>1, <2>2 DEF Stored
<1>2. CASE ReaderRead
  <2>1. ri \in Threads /\ pos \in [Threads -> Nat] /\ rpc = "read"
    BY <1>2 DEF IInv, TypeOK, ReaderInv, ReaderRead
  <2>2. \/ /\ pos' = [pos EXCEPT ![ri] = pos[ri] + 1]
           /\ rpc' = "store" /\ ri' = ri
        \/ rpc' = "visit" /\ pos' = pos
    BY <1>2 DEF ReaderRead, NextVisit
  <2> QED
    BY <2>1, <2>2 DEF Stored, ReaderPublish
<1>3. CASE ReaderStore
  BY <1>3 DEF ReaderStore, Stored, ReaderPublish
<1>4. CASE ReaderLoop \/ ReaderVisit \/ ReaderTestFull
  <2>1. /\ rpc \in {"loop", "visit", "full"}
        /\ rpc' \in {"loop", "visit", "full", "read", "done"}
        /\ pos' = pos
    BY <1>4 DEF ReaderLoop, ReaderVisit, ReaderTestFull, NextVisit, IInv, TypeOK
  <2> QED
    BY <2>1 DEF Stored, ReaderPublish
<1>5. CASE Simulator \/ UNCHANGED vars
  <2>1. UNCHANGED <<rpc, ri, pos>>
    BY <1>5 DEF Simulator, TestEmpty, TestEof, Take, Advance, GetNextAction,
                Execute, vars, readerVars
  <2> QED
    BY <2>1 DEF Stored, ReaderPublish
<1> QED
  BY <1>1, <1>2, <1>3, <1>4, <1>5 DEF Next, Reader

\* The window of thread t survives every step that leaves its indexes, its
\* history and its slots alone.
LEMMA WindowFrame ==
    ASSUME NEW t \in Threads, Window(t), Stored(t)' = Stored(t),
           head'[t] = head[t], tail'[t] = tail[t],
           last'[t] = last[t], buf'[t] = buf[t]
    PROVE  Window(t)'
BY DEF Window

\* No step of either thread damages the window.
LEMMA WindowStep == IInv /\ [Next]_vars => WindowIntact'
<1> SUFFICES ASSUME IInv, [Next]_vars, NEW t \in Threads PROVE Window(t)'
  BY DEF WindowIntact
<1>w. Window(t)
  BY DEF IInv, WindowIntact
<1>b. BSize \in Nat \ {0} /\ BSize > 1
  BY BSizeAssumption
<1>n. last[t] \in Nat /\ pos[t] \in Nat
  BY DEF IInv, TypeOK
<1>s. Stored(t) \in Nat /\ Stored(t) >= last[t] /\ Stored(t) - last[t] < BSize
  <2>1. Stored(t) \in Int
    BY <1>n DEF Stored
  <2> QED
    BY <1>w, <1>n, <1>b, <2>1 DEF Window
<1>1. CASE ReaderStore
  <2>1. CASE ri = t
    <3>1. /\ ract = Stored(t) + 1
          /\ buf' = [buf EXCEPT ![t][tail[t]] = ract]
          /\ UNCHANGED <<head, tail, last>>
      BY <1>1, <2>1, <1>n DEF ReaderStore, IInv, ReaderInv, Stored, simVars
    <3>2. Stored(t)' = Stored(t)
      BY <1>1, StoredStep DEF ReaderStore, ReaderPublish
    <3>3. \A k \in (last[t] + 1) .. Stored(t) : buf'[t][(k - 1) % BSize] = k
      <4> SUFFICES ASSUME NEW k \in (last[t] + 1) .. Stored(t)
                   PROVE  buf'[t][(k - 1) % BSize] = k
        OBVIOUS
      <4>1. k - 1 \in Nat /\ k - 1 < Stored(t) /\ Stored(t) - (k - 1) < BSize
        BY <1>n, <1>s, <1>b
      <4>2. (k - 1) % BSize # Stored(t) % BSize
        BY <4>1, <1>b, <1>s, ModDiff
      <4>3. (k - 1) % BSize # tail[t] /\ buf[t][(k - 1) % BSize] = k
        BY <4>2, <1>w DEF Window
      <4>4. (k - 1) % BSize \in 0 .. (BSize - 1)
        BY <4>1, <1>b, ModRange
      <4>5. buf \in [Threads -> [0 .. (BSize - 1) -> Nat]]
        BY DEF IInv, TypeOK
      <4> HIDE DEF Threads
      <4> QED
        BY <3>1, <4>3, <4>4, <4>5
    <3> QED
      BY <3>1, <3>2, <3>3, <1>w DEF Window
  <2>2. CASE ri # t
    <3>1. buf'[t] = buf[t] /\ UNCHANGED <<head, tail, last>>
      BY <1>1, <2>2 DEF ReaderStore, IInv, TypeOK, simVars
    <3>2. Stored(t)' = Stored(t)
      BY <1>1, StoredStep DEF ReaderStore, ReaderPublish
    <3> QED
      BY <3>1, <3>2, <1>w, WindowFrame
  <2> QED
    BY <2>1, <2>2
<1>2. CASE ReaderPublish
  <2>1. CASE ri = t
    <3>1. /\ tail' = [tail EXCEPT ![t] = Succ(tail[t])]
          /\ UNCHANGED <<buf, head, last>>
      BY <1>2, <2>1 DEF ReaderPublish, simVars
    <3>2. Stored(t)' = Stored(t) + 1
      BY <1>2, <2>1, StoredStep
    <3>3. buf[t][tail[t]] = Stored(t) + 1 /\ Stored(t) - last[t] < BSize - 1
      BY <1>2, <2>1, <1>n DEF ReaderPublish, IInv, ReaderInv, Stored
    <3>4. tail[t] = Stored(t) % BSize /\ tail \in [Threads -> 0 .. (BSize - 1)]
      BY <1>w DEF Window, IInv, TypeOK
    <3>5. tail'[t] = (Stored(t) + 1) % BSize
      BY <3>1, <3>4, <1>b, <1>s, ModSucc DEF Succ
    <3>6. \A k \in (last[t] + 1) .. (Stored(t) + 1) :
             buf[t][(k - 1) % BSize] = k
      <4> SUFFICES ASSUME NEW k \in (last[t] + 1) .. (Stored(t) + 1)
                   PROVE  buf[t][(k - 1) % BSize] = k
        OBVIOUS
      <4>1. CASE k = Stored(t) + 1
        <5>1. k - 1 = Stored(t)
          BY <4>1, <1>s
        <5> QED
          BY <5>1, <4>1, <3>3, <3>4
      <4>2. CASE k # Stored(t) + 1
        <5>1. k \in (last[t] + 1) .. Stored(t)
          BY <4>2, <1>s, <1>n
        <5> QED
          BY <5>1, <1>w DEF Window
      <4> QED
        BY <4>1, <4>2
    <3>7. Stored(t) + 1 - last[t] \in 0 .. (BSize - 1)
      BY <3>3, <1>s, <1>n, <1>b
    <3>8. Stored(t)' - last'[t] \in 0 .. (BSize - 1)
      <4>1. last'[t] = last[t]
        BY <3>1
      <4>2. Stored(t)' - last'[t] = Stored(t) + 1 - last[t]
        BY <4>1, <3>2, <1>s, <1>n
      <4> QED
        BY <4>2, <3>7
    <3>9. tail'[t] = Stored(t)' % BSize
      BY <3>2, <3>5
    <3>10. \A k \in (last'[t] + 1) .. Stored(t)' : buf'[t][(k - 1) % BSize] = k
      BY <3>1, <3>2, <3>6
    <3>11. head'[t] = last'[t] % BSize
      BY <3>1, <1>w DEF Window
    <3> QED
      BY <3>8, <3>9, <3>10, <3>11 DEF Window
  <2>2. CASE ri # t
    <3>1. tail'[t] = tail[t] /\ UNCHANGED <<buf, head, last>>
      BY <1>2, <2>2 DEF ReaderPublish, IInv, TypeOK, simVars
    <3>2. Stored(t)' = Stored(t)
      BY <2>2, StoredStep
    <3> QED
      BY <3>1, <3>2, <1>w, WindowFrame
  <2> QED
    BY <2>1, <2>2
<1>3. CASE Advance
  <2>0. Stored(t)' = Stored(t)
    BY <1>3, StoredStep DEF Advance, ReaderPublish, readerVars, IInv, TypeOK
  <2>1. CASE st = t
    <3>1. /\ head' = [head EXCEPT ![t] = Succ(head[t])]
          /\ last' = [last EXCEPT ![t] = snew]
          /\ snew = last[t] + 1 /\ last[t] < Stored(t)
          /\ UNCHANGED <<buf, tail>>
      BY <1>3, <2>1 DEF Advance, IInv, SimInv
    <3>2. /\ head \in [Threads -> 0 .. (BSize - 1)]
          /\ last \in [Threads -> Nat] /\ head[t] = last[t] % BSize
      BY <1>w DEF Window, IInv, TypeOK
    <3>3. last'[t] = last[t] + 1
      BY <3>1, <3>2
    <3>4. head'[t] = (last[t] + 1) % BSize
      BY <3>1, <3>2, <1>b, <1>n, ModSucc DEF Succ
    <3>5. Stored(t) - (last[t] + 1) \in 0 .. (BSize - 1)
      BY <3>1, <1>s, <1>n, <1>b
    <3>6. \A k \in (last[t] + 1 + 1) .. Stored(t) : buf[t][(k - 1) % BSize] = k
      <4> SUFFICES ASSUME NEW k \in (last[t] + 1 + 1) .. Stored(t)
                   PROVE  buf[t][(k - 1) % BSize] = k
        OBVIOUS
      <4>1. k \in (last[t] + 1) .. Stored(t)
        BY <1>n, <1>s
      <4> QED
        BY <4>1, <1>w DEF Window
    <3> QED
      BY <2>0, <3>1, <3>3, <3>4, <3>5, <3>6, <1>w DEF Window
  <2>2. CASE st # t
    <3>1. head'[t] = head[t] /\ last'[t] = last[t] /\ UNCHANGED <<buf, tail>>
      BY <1>3, <2>2 DEF Advance, IInv, TypeOK
    <3> QED
      BY <2>0, <3>1, <1>w, WindowFrame
  <2> QED
    BY <2>1, <2>2
<1>4. CASE ReaderLoop \/ ReaderVisit \/ ReaderTestFull \/ ReaderRead
  <2>1. UNCHANGED <<buf, head, tail, last>> /\ rpc # "publish"
    BY <1>4 DEF ReaderLoop, ReaderVisit, ReaderTestFull, ReaderRead, simVars
  <2>2. Stored(t)' = Stored(t)
    BY <2>1, StoredStep DEF ReaderPublish
  <2> QED
    BY <2>1, <2>2, <1>w, WindowFrame
<1>5. CASE \/ TestEmpty \/ TestEof \/ Take \/ UNCHANGED vars
           \/ \E u \in Threads : GetNextAction(u) \/ Execute(u)
  <2>1. UNCHANGED <<buf, head, tail, last, rpc, ri, pos>>
    BY <1>5 DEF TestEmpty, TestEof, Take, GetNextAction, Execute,
                vars, readerVars, simVars
  <2>2. Stored(t)' = Stored(t)
    BY <2>1 DEF Stored
  <2> QED
    BY <2>1, <2>2, <1>w, WindowFrame
<1> QED
  BY <1>1, <1>2, <1>3, <1>4, <1>5 DEF Next, Reader, Simulator

\* What the reader relies on between two of its accesses is not spoilt by the
\* simulator: taking actions only makes more room.
LEMMA ReaderStep == IInv /\ [Next]_vars => ReaderInv'
<1> SUFFICES ASSUME IInv, [Next]_vars PROVE ReaderInv'
  OBVIOUS
<1>a. ReaderInv
  BY DEF IInv
<1>b. BSize \in Nat /\ BSize > 1 /\ NThreads \in Nat
  BY BSizeAssumption, NThreadsAssumption
<1>1. CASE ReaderLoop \/ ReaderVisit
  <2>1. \/ rpc' \in {"loop", "visit", "done"}
        \/ rpc' = "full" /\ ri' = ri /\ ri < NThreads
    BY <1>1 DEF ReaderLoop, ReaderVisit
  <2>2. ri \in 0 .. NThreads
    BY DEF IInv, TypeOK
  <2> QED
    BY <2>1, <2>2, <1>b DEF ReaderInv, Threads
<1>2. CASE ReaderTestFull
  <2>1. ri \in Threads /\ UNCHANGED <<last, head, tail, pos, rk>>
    BY <1>2, <1>a DEF ReaderTestFull, ReaderInv, simVars
  <2>2. CASE rk = Burst \/ Succ(tail[ri]) = head[ri]
    BY <1>2, <2>2 DEF ReaderTestFull, NextVisit, ReaderInv
  <2>3. CASE ~(rk = Burst \/ Succ(tail[ri]) = head[ri])
    <3>1. rpc' = "read" /\ ri' = ri
      BY <1>2, <2>3 DEF ReaderTestFull
    <3>2. /\ last[ri] \in Nat /\ Stored(ri) = pos[ri] /\ pos[ri] \in Nat
          /\ Window(ri) /\ rk \in 0 .. Burst
      BY <1>2, <2>1 DEF ReaderTestFull, Stored, IInv, TypeOK, WindowIntact
    <3>3. Stored(ri) - last[ri] # BSize - 1
      <4> SUFFICES ASSUME Stored(ri) - last[ri] = BSize - 1 PROVE FALSE
        OBVIOUS
      <4>1. Stored(ri) + 1 = last[ri] + BSize
        BY <3>2, <1>b
      <4>2. Succ(tail[ri]) = (Stored(ri) + 1) % BSize
        BY <3>2, <1>b, ModSucc DEF Window, Succ
      <4>3. (last[ri] + BSize) % BSize = last[ri] % BSize
        BY <3>2, <1>b, ModRound
      <4> QED
        BY <4>1, <4>2, <4>3, <2>3, <3>2 DEF Window
    <3>4. Stored(ri)' = Stored(ri)
      BY <1>2, <2>1, <3>1 DEF ReaderTestFull, Stored
    <3>5. Stored(ri) - last[ri] < BSize - 1
      BY <3>2, <3>3, <1>b DEF Window
    <3>6. rk < Burst
      BY <2>3, <3>2, BurstAssumption
    <3> QED
      BY <2>1, <3>1, <3>4, <3>5, <3>6 DEF ReaderInv
  <2> QED
    BY <2>2, <2>3
<1>3. CASE ReaderRead
  <2>1. /\ rpc = "read" /\ ri \in Threads /\ UNCHANGED <<last, rk>>
        /\ pos \in [Threads -> Nat]
    BY <1>3, <1>a DEF ReaderRead, ReaderInv, simVars, IInv, TypeOK
  <2>3. \/ /\ pos' = [pos EXCEPT ![ri] = pos[ri] + 1]
           /\ ract' = pos[ri] + 1 /\ rpc' = "store" /\ ri' = ri
        \/ rpc' = "visit"
    BY <1>3 DEF ReaderRead, NextVisit
  <2>4. CASE rpc' = "visit"
    BY <2>4 DEF ReaderInv
  <2>5. CASE rpc' = "store" /\ ri' = ri
    <3>1. ract' = pos'[ri]
      BY <2>1, <2>3, <2>5
    <3>2. Stored(ri) - last[ri] < BSize - 1 /\ rk < Burst
      BY <2>1, <1>a DEF ReaderInv
    <3>3. Stored(ri)' = Stored(ri)
      BY <2>1, <2>3, <2>5 DEF Stored
    <3> QED
      BY <2>1, <2>5, <3>1, <3>2, <3>3 DEF ReaderInv
  <2> QED
    BY <2>3, <2>4, <2>5
<1>4. CASE ReaderStore
  <2>1. /\ rpc = "store" /\ rpc' = "publish"
        /\ UNCHANGED <<ri, rk, ract, pos, tail, last>>
        /\ buf' = [buf EXCEPT ![ri][tail[ri]] = ract]
    BY <1>4 DEF ReaderStore, simVars
  <2>2. ri \in Threads
    BY <2>1, <1>a DEF ReaderInv
  <2>3. buf'[ri][tail[ri]] = ract
    <3>1. /\ buf \in [Threads -> [0 .. (BSize - 1) -> Nat]]
          /\ tail[ri] \in 0 .. (BSize - 1)
      BY <2>2 DEF IInv, TypeOK
    <3> QED
      BY <2>1, <2>2, <3>1
  <2>4. Stored(ri)' = Stored(ri)
    BY <2>1 DEF Stored
  <2> QED
    BY <2>1, <2>2, <2>3, <2>4, <1>a DEF ReaderInv
<1>5. CASE ReaderPublish
  BY <1>5, <1>a DEF ReaderPublish, ReaderInv
<1>6. CASE Advance
  <2>1. /\ UNCHANGED <<rpc, ri, rk, ract, pos, tail, buf>>
        /\ last' = [last EXCEPT ![st] = snew] /\ snew = last[st] + 1
    BY <1>6 DEF Advance, readerVars, IInv, SimInv
  <2>2. last \in [Threads -> Nat] /\ pos \in [Threads -> Nat]
    BY DEF IInv, TypeOK
  <2>3. ASSUME ri \in Threads PROVE last'[ri] >= last[ri] /\ last'[ri] \in Nat
    BY <2>1, <2>2, <2>3
  <2>4. Stored(ri)' = Stored(ri) /\ (ri \in Threads => Stored(ri) \in Int)
    BY <2>1, <2>2 DEF Stored
  <2>5. ASSUME ri \in Threads, Stored(ri) - last[ri] < BSize - 1
        PROVE  Stored(ri)' - last'[ri] < BSize - 1
    BY <2>2, <2>3, <2>4, <2>5, <1>b
  <2> QED
    BY <2>1, <2>5, <1>a DEF ReaderInv
<1>7. CASE \/ TestEmpty \/ TestEof \/ Take \/ UNCHANGED vars
           \/ \E u \in Threads : GetNextAction(u) \/ Execute(u)
  <2>1. UNCHANGED <<buf, tail, last, rpc, ri, rk, ract, pos>>
    BY <1>7 DEF TestEmpty, TestEof, Take, GetNextAction, Execute,
                vars, readerVars, simVars
  <2> QED
    BY <2>1, <1>a DEF ReaderInv, Stored
<1> QED
  BY <1>1, <1>2, <1>3, <1>4, <1>5, <1>6, <1>7 DEF Next, Reader, Simulator

\* What the simulator saw stays true while the reader runs: the reader only
\* adds actions.
LEMMA SimStep == IInv /\ [Next]_vars => SimInv'
<1> SUFFICES ASSUME IInv, [Next]_vars PROVE SimInv'
  OBVIOUS
<1>a. SimInv /\ st \in Threads /\ Window(st)
  BY DEF IInv, TypeOK, WindowIntact
<1>b. BSize \in Nat \ {0} /\ BSize > 1
  BY BSizeAssumption
<1>n. /\ last \in [Threads -> Nat] /\ pos \in [Threads -> Nat]
      /\ last[st] \in Nat /\ Stored(st) \in Int
  BY <1>a DEF IInv, TypeOK, Stored
<1>1. CASE Reader
  <2>1. UNCHANGED <<spc, st, snew, last>>
    BY <1>1 DEF Reader, ReaderLoop, ReaderVisit, ReaderTestFull, ReaderRead,
                ReaderStore, ReaderPublish, simVars
  <2>2. PICK u \in Threads : u = st
    BY <1>a
  <2>3. Stored(u)' \in {Stored(u), Stored(u) + 1}
    BY StoredStep
  <2>4. Stored(st)' = Stored(u)' /\ Stored(u) = Stored(st)
    BY <2>1, <2>2 DEF Stored
  <2>5. last[st] < Stored(st) => last'[st] < Stored(st)'
    BY <2>1, <2>3, <2>4, <1>n
  <2> QED
    BY <2>1, <2>5, <1>a DEF SimInv
<1>2. CASE TestEmpty
  <2>1. UNCHANGED <<st, last, rpc, ri, pos>>
    BY <1>2 DEF TestEmpty, readerVars
  <2>2. Stored(st)' = Stored(st)
    BY <2>1 DEF Stored
  <2>3. CASE head[st] = tail[st]
    BY <1>2, <2>3 DEF TestEmpty, SimInv
  <2>4. CASE head[st] # tail[st]
    <3>1. Stored(st) # last[st] /\ Stored(st) >= last[st]
      BY <2>4, <1>a, <1>n, <1>b DEF Window
    <3>2. spc' = "take"
      BY <1>2, <2>4 DEF TestEmpty
    <3> QED
      BY <2>1, <2>2, <3>1, <3>2, <1>n DEF SimInv
  <2> QED
    BY <2>3, <2>4
<1>3. CASE Take
  <2>1. /\ spc = "take" /\ spc' = "advance" /\ snew' = buf[st][head[st]]
        /\ UNCHANGED <<st, last, rpc, ri, pos>>
    BY <1>3 DEF Take, readerVars
  <2>2. Stored(st)' = Stored(st) /\ last[st] < Stored(st)
    BY <2>1, <1>a DEF Stored, SimInv
  <2>3. PICK k \in (last[st] + 1) .. Stored(st) : k = last[st] + 1
    BY <2>2, <1>n
  <2>4. buf[st][(k - 1) % BSize] = k
    BY <1>a DEF Window
  <2>5. k - 1 = last[st]
    BY <2>3, <1>n
  <2>6. buf[st][head[st]] = last[st] + 1
    BY <2>3, <2>4, <2>5, <1>a DEF Window
  <2> QED
    BY <2>1, <2>2, <2>6 DEF SimInv
<1>4. CASE TestEof \/ Advance
  <2>1. spc' \in {"idle", "empty"}
    BY <1>4 DEF TestEof, Advance
  <2> QED
    BY <2>1 DEF SimInv
<1>5. CASE \E u \in Threads : GetNextAction(u) \/ Execute(u)
  <2>1. spc' \in {"idle", "empty"}
    BY <1>5 DEF GetNextAction, Execute
  <2> QED
    BY <2>1 DEF SimInv
<1>6. CASE UNCHANGED vars
  BY <1>6, <1>a DEF vars, SimInv, Stored, readerVars, simVars
<1> QED
  BY <1>1, <1>2, <1>3, <1>4, <1>5, <1>6 DEF Next, Simulator

-----------------------------------------------------------------------------
(* The theorems *)

\* The invariant holds in every reachable state.
THEOREM Invariance == Spec => []IInv
<1>1. IInv /\ [Next]_vars => IInv'
  BY TypeStep, WindowStep, ReaderStep, SimStep DEF IInv
<1> QED
  BY InitInv, <1>1, PTL DEF Spec

\* Type correctness: no index ever leaves its buffer.
THEOREM TypeCorrect == Spec => []TypeOK
<1>1. IInv => TypeOK
  BY DEF IInv
<1> QED
  BY Invariance, <1>1, PTL

\* No unread action is ever overwritten, although READ_fill_buffer_asynch and
\* READ_get_next_action run without a lock.
THEOREM WindowAlwaysIntact == Spec => []WindowIntact
<1>1. IInv => WindowIntact
  BY DEF IInv
<1> QED
  BY Invariance, <1>1, PTL

\* Every thread is handed its actions in the order of the trace, none skipped
\* and none repeated.
THEOREM AlwaysHandedInOrder == Spec => HandedInOrder
<1>1. IInv /\ [Next]_vars =>
        [\A t \in Threads : last'[t] # last[t] => last'[t] = last[t] + 1]_vars
  <2> SUFFICES ASSUME IInv, [Next]_vars, NEW t \in Threads, last'[t] # last[t]
               PROVE  last'[t] = last[t] + 1
    OBVIOUS
  <2>1. Advance
    BY DEF Next, Reader, Simulator, ReaderLoop, ReaderVisit, ReaderTestFull,
           ReaderRead, ReaderStore, ReaderPublish, TestEmpty, TestEof, Take,
           GetNextAction, Execute, vars, simVars
  <2>2. last' = [last EXCEPT ![st] = snew] /\ snew = last[st] + 1
    BY <2>1 DEF Advance, IInv, SimInv
  <2>3. last \in [Threads -> Nat]
    BY DEF IInv, TypeOK
  <2> QED
    BY <2>2, <2>3
<1> QED
  BY Invariance, <1>1, PTL DEF Spec, HandedInOrder
=============================================================================
