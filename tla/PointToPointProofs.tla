------------------------- MODULE PointToPointProofs -------------------------
(***************************************************************************)
(* Theorems about point-to-point matching, for any number of threads and   *)
(* channels and any traces: what its queues hold and that nobody misses a  *)
(* message; that no message is lost or duplicated, that the notes of sends *)
(* and receives count exactly, that no rendezvous starves, and that the    *)
(* matching implements message channels.                                   *)
(***************************************************************************)
EXTENDS PointToPoint, QueueLemmas, FiniteSetTheorems, TLAPS

\* What the queues of channel c may hold; the traces do not change.
Message(c) == {m \in Threads \X (Nat \ {0}) : Chan(m) = c}
Entry(c) == [msg : Message(c), original : BOOLEAN]

\* The inductive invariant, in the parts that actions disturb separately.
ThreadsTyped ==
    /\ pc \in [Threads -> Nat \ {0}]
    /\ status \in [Threads -> {"ready", "blocked", "busy"}]
SendsTyped ==
    /\ DOMAIN sendQ = Channels
    /\ \A c \in Channels : sendQ[c] \in Seq(Entry(c))
    /\ \A m \in net : Chan(m) \in Channels /\ m \in Message(Chan(m))
ReceivesTyped ==
    /\ DOMAIN recvQ = Channels /\ DOMAIN messRecv = Channels
    /\ \A c \in Channels : recvQ[c] \in Seq(Threads) /\ messRecv[c] \in Seq(Message(c))
ReachedTyped ==
    /\ DOMAIN sendNoRecv = Channels /\ DOMAIN recvNoSend = Channels
    /\ \A c \in Channels : /\ sendNoRecv[c] \in Seq(BOOLEAN)
                           /\ recvNoSend[c] \in Seq({"RECV", "IRECV"})
IrecvsTyped == irecvs \in [Channels -> Nat]

Inv ==
    /\ prog \in [Threads -> Seq(SendOp \cup RecvOp)]
    /\ ThreadsTyped /\ SendsTyped /\ IrecvsTyped
    /\ ReceivesTyped /\ NoLostWakeup
    /\ ReachedTyped /\ ReachedQueuesExclusive

LEMMA InitInv == Init => Inv
  BY ProgramsAssumption
  DEF Init, Inv, ThreadsTyped, SendsTyped, ReceivesTyped, ReachedTyped, IrecvsTyped,
      ReachedQueuesExclusive, NoLostWakeup

-----------------------------------------------------------------------------
(* The operators the actions are built from *)

\* The action a thread is at is one of the trace, on a channel, and names the
\* message it sends.
LEMMA ActionTyped ==
    ASSUME Inv, NEW t \in Threads, More(t)
    PROVE  /\ Action(t) \in SendOp \cup RecvOp
           /\ Action(t).ch \in Channels
           /\ <<t, pc[t]>> \in Message(Action(t).ch)
<1>1. prog[t] \in Seq(SendOp \cup RecvOp) /\ pc[t] \in Nat \ {0}
  BY DEF Inv, ThreadsTyped
<1>2. pc[t] \in 1 .. Len(prog[t])
  BY <1>1 DEF More
<1>3. Action(t) \in SendOp \cup RecvOp
  BY <1>1, <1>2 DEF Action
<1>4. Action(t).ch \in Channels
  BY <1>3 DEF SendOp, RecvOp
<1>5. Chan(<<t, pc[t]>>) = Action(t).ch
  BY DEF Chan, Action
<1> QED BY <1>1, <1>3, <1>4, <1>5 DEF Message

\* Messages keep their channel as long as the traces stay.
LEMMA MessageStable ==
    ASSUME prog' = prog
    PROVE  /\ \A c : Message(c)' = Message(c) /\ Entry(c)' = Entry(c)
           /\ \A m : Chan(m)' = Chan(m)
<1>1. \A m : Chan(m)' = Chan(m)
  BY DEF Chan
<1>2. \A c : Message(c)' = Message(c)
  BY <1>1 DEF Message
<1> QED BY <1>1, <1>2 DEF Entry

LEMMA AdvanceTyped ==
    ASSUME ThreadsTyped, NEW ts, Advance(ts)
    PROVE  ThreadsTyped'
  BY DEF ThreadsTyped, Advance

LEMMA AdvanceAndRestTyped ==
    ASSUME ThreadsTyped, NEW ts, NEW t, NEW s \in {"ready", "blocked", "busy"},
           AdvanceAndRest(ts, t, s)
    PROVE  ThreadsTyped'
  BY DEF ThreadsTyped, AdvanceAndRest

\* A send crossed with, or noted for, a receive leaves one of the two empty.
LEMMA SendReachedKeeps ==
    ASSUME ReachedTyped, ReachedQueuesExclusive, NEW c \in Channels,
           NEW rdv \in BOOLEAN, SendReached(c, rdv)
    PROVE  ReachedTyped' /\ ReachedQueuesExclusive'
<1>1. CASE recvNoSend[c] # <<>>
  <2>1. sendNoRecv[c] = <<>>
    BY <1>1 DEF ReachedQueuesExclusive
  <2>2. Tail(recvNoSend[c]) \in Seq({"RECV", "IRECV"})
    BY <1>1 DEF ReachedTyped
  <2> QED BY <1>1, <2>1, <2>2 DEF SendReached, ReachedTyped, ReachedQueuesExclusive
<1>2. CASE recvNoSend[c] = <<>>
  <2>1. Append(sendNoRecv[c], rdv) \in Seq(BOOLEAN)
    BY DEF ReachedTyped
  <2> QED BY <1>2, <2>1 DEF SendReached, ReachedTyped, ReachedQueuesExclusive
<1> QED BY <1>1, <1>2

LEMMA RecvReachedKeeps ==
    ASSUME ReachedTyped, ReachedQueuesExclusive, NEW c \in Channels,
           NEW op \in {"RECV", "IRECV"}, RecvReached(c, op)
    PROVE  ReachedTyped' /\ ReachedQueuesExclusive'
<1>1. CASE sendNoRecv[c] # <<>>
  <2>1. recvNoSend[c] = <<>>
    BY <1>1 DEF ReachedQueuesExclusive
  <2>2. Tail(sendNoRecv[c]) \in Seq(BOOLEAN)
    BY <1>1 DEF ReachedTyped
  <2> QED BY <1>1, <2>1, <2>2 DEF RecvReached, ReachedTyped, ReachedQueuesExclusive
<1>2. CASE sendNoRecv[c] = <<>>
  <2>1. Append(recvNoSend[c], op) \in Seq({"RECV", "IRECV"})
    BY DEF ReachedTyped
  <2> QED BY <1>2, <2>1 DEF RecvReached, ReachedTyped, ReachedQueuesExclusive
<1> QED BY <1>1, <1>2

\* Starting the partner moves a message of the channel into the network.
LEMMA StartPartnerKeeps ==
    ASSUME SendsTyped, prog' = prog, NEW c \in Channels, StartPartner(c)
    PROVE  SendsTyped'
<1>1. CASE sendQ[c] = <<>>
  BY <1>1, MessageStable DEF StartPartner, SendsTyped
<1>2. CASE sendQ[c] # <<>>
  <2>1. Head(sendQ[c]) \in Entry(c) /\ Tail(sendQ[c]) \in Seq(Entry(c))
    BY <1>2 DEF SendsTyped
  <2>2. Head(sendQ[c]).msg \in Message(c) /\ Chan(Head(sendQ[c]).msg) = c
    BY <2>1 DEF Entry, Message
  <2>3. sendQ' = [sendQ EXCEPT ![c] = Tail(@)]
        /\ net' = net \cup {Head(sendQ[c]).msg}
    BY <1>2 DEF StartPartner
  <2> QED BY <2>1, <2>2, <2>3, MessageStable DEF SendsTyped
<1> QED BY <1>1, <1>2

LEMMA CompleteKeeps ==
    ASSUME IrecvsTyped, NEW c \in Channels, NEW m, Complete(c, m)
    PROVE  IrecvsTyped'
  BY DEF IrecvsTyped, Complete

\* A receive takes a message when there is one and queues its thread only when
\* there is none.
LEMMA ReceiveOrWaitKeeps ==
    ASSUME Inv, prog' = prog, NEW t \in Threads, NEW c \in Channels, ReceiveOrWait(t, c)
    PROVE  /\ ThreadsTyped' /\ SendsTyped' /\ IrecvsTyped'
           /\ ReceivesTyped' /\ NoLostWakeup'
<1> USE DEF Inv
<1>1. CASE messRecv[c] # <<>>
  <2>1. /\ messRecv' = [messRecv EXCEPT ![c] = Tail(@)]
        /\ Complete(c, Head(messRecv[c]))
        /\ Advance({t})
        /\ UNCHANGED <<sendQ, recvQ, net>>
    BY <1>1 DEF ReceiveOrWait, MessageAwaiting
  <2>2. Tail(messRecv[c]) \in Seq(Message(c)) /\ recvQ[c] = <<>>
    BY <1>1 DEF ReceivesTyped, NoLostWakeup
  <2>3. ReceivesTyped' /\ NoLostWakeup'
    BY <2>1, <2>2, MessageStable DEF ReceivesTyped, NoLostWakeup
  <2>4. SendsTyped'
    BY <2>1, MessageStable DEF SendsTyped
  <2> QED BY <2>1, <2>3, <2>4, AdvanceTyped, CompleteKeeps
<1>2. CASE messRecv[c] = <<>>
  <2>1. /\ StartPartner(c)
        /\ AdvanceAndRest(ReleasedBy(c), t, IF BusyWait THEN "busy" ELSE "blocked")
        /\ recvQ' = IF BusyWait THEN recvQ ELSE [recvQ EXCEPT ![c] = Append(@, t)]
        /\ UNCHANGED <<messRecv, received, irecvs>>
    BY <1>2 DEF ReceiveOrWait, MessageAwaiting
  <2>2. ThreadsTyped'
    BY <2>1, AdvanceAndRestTyped
  <2>3. Append(recvQ[c], t) \in Seq(Threads)
    BY DEF ReceivesTyped
  <2>4. ReceivesTyped' /\ NoLostWakeup'
    BY <1>2, <2>1, <2>3, MessageStable DEF ReceivesTyped, NoLostWakeup
  <2> QED BY <2>1, <2>2, <2>4, StartPartnerKeeps DEF IrecvsTyped
<1> QED BY <1>1, <1>2

-----------------------------------------------------------------------------
(* One lemma per action *)

LEMMA SendKeeps == ASSUME Inv, NEW t \in Threads, Send(t) PROVE Inv'
<1> DEFINE a == Action(t)
           c == a.ch
           m == <<t, pc[t]>>
           entry == [msg |-> m, original |-> ~a.imm]
<1>1. /\ prog' = prog /\ UNCHANGED <<recvQ, messRecv, irecvs>>
      /\ More(t) /\ a.op = "SEND" /\ SendReached(c, a.rdv)
  BY DEF Send, Running
<1>2. c \in Channels /\ m \in Message(c) /\ a \in SendOp
  BY <1>1, ActionTyped DEF SendOp, RecvOp
<1>3. a.rdv \in BOOLEAN /\ a.imm \in BOOLEAN
  BY <1>2 DEF SendOp
<1>4. \/ /\ sendQ' = [sendQ EXCEPT ![c] = Append(@, entry)]
         /\ UNCHANGED net
      \/ net' = net \cup {m} /\ UNCHANGED sendQ
  BY DEF Send, WaitsForReceiver, GoesOut
<1>5. Advance({t}) \/ AdvanceAndRest({}, t, "blocked")
  BY DEF Send, WaitsForReceiver, GoesOut
<1>6. ThreadsTyped'
  BY <1>5, AdvanceTyped, AdvanceAndRestTyped DEF Inv
<1>7. ReachedTyped' /\ ReachedQueuesExclusive'
  BY <1>1, <1>2, <1>3, SendReachedKeeps DEF Inv
<1>8. SendsTyped'
  <2>1. CASE net' = net \cup {m} /\ UNCHANGED sendQ
    <3>1. Chan(m) = c
      BY <1>2 DEF Message
    <3> QED BY <1>1, <1>2, <2>1, <3>1, MessageStable DEF Inv, SendsTyped
  <2>2. CASE sendQ' = [sendQ EXCEPT ![c] = Append(@, entry)] /\ UNCHANGED net
    <3>1. entry \in Entry(c)
      BY <1>2, <1>3 DEF Entry
    <3>2. Append(sendQ[c], entry) \in Seq(Entry(c))
      BY <1>2, <3>1 DEF Inv, SendsTyped
    <3> QED BY <1>1, <1>2, <2>2, <3>2, MessageStable DEF Inv, SendsTyped
  <2> QED BY <1>4, <2>1, <2>2
<1>9. ReceivesTyped' /\ NoLostWakeup' /\ IrecvsTyped'
  BY <1>1, MessageStable DEF Inv, ReceivesTyped, NoLostWakeup, IrecvsTyped
<1> QED BY <1>1, <1>6, <1>7, <1>8, <1>9 DEF Inv

LEMMA RecvKeeps == ASSUME Inv, NEW t \in Threads, Recv(t) PROVE Inv'
<1>1. /\ prog' = prog /\ More(t)
      /\ RecvReached(Action(t).ch, "RECV") /\ ReceiveOrWait(t, Action(t).ch)
  BY DEF Recv, Running
<1>2. Action(t).ch \in Channels
  BY <1>1, ActionTyped
<1>3. ReachedTyped' /\ ReachedQueuesExclusive'
  BY <1>1, <1>2, RecvReachedKeeps DEF Inv
<1> QED BY <1>1, <1>2, <1>3, ReceiveOrWaitKeeps DEF Inv

LEMMA WaitKeeps == ASSUME Inv, NEW t \in Threads, Wait(t) PROVE Inv'
<1>1. /\ prog' = prog /\ More(t) /\ UNCHANGED <<sendNoRecv, recvNoSend>>
      /\ ReceiveOrWait(t, Action(t).ch)
  BY DEF Wait, Running
<1>2. Action(t).ch \in Channels
  BY <1>1, ActionTyped
<1>3. ReachedTyped' /\ ReachedQueuesExclusive'
  BY <1>1 DEF Inv, ReachedTyped, ReachedQueuesExclusive
<1> QED BY <1>1, <1>2, <1>3, ReceiveOrWaitKeeps DEF Inv

LEMMA IrecvKeeps == ASSUME Inv, NEW t \in Threads, Irecv(t) PROVE Inv'
<1> DEFINE c == Action(t).ch
<1>1. /\ prog' = prog /\ UNCHANGED <<recvQ, messRecv>> /\ More(t)
      /\ RecvReached(c, "IRECV")
      /\ irecvs' = [irecvs EXCEPT ![c] = @ + 1]
  BY DEF Irecv, Running
<1>2. StartPartner(c) \/ UNCHANGED <<sendQ, net>>
  BY DEF Irecv
<1>3. Advance({t} \cup ReleasedBy(c)) \/ Advance({t})
  BY DEF Irecv
<1>4. c \in Channels
  BY <1>1, ActionTyped
<1>5. ReachedTyped' /\ ReachedQueuesExclusive'
  BY <1>1, <1>4, RecvReachedKeeps DEF Inv
<1>6. SendsTyped'
  BY <1>1, <1>2, <1>4, StartPartnerKeeps, MessageStable DEF Inv, SendsTyped
<1>7. ThreadsTyped'
  BY <1>3, AdvanceTyped DEF Inv
<1>8. ReceivesTyped' /\ NoLostWakeup' /\ IrecvsTyped'
  BY <1>1, <1>4, MessageStable DEF Inv, ReceivesTyped, NoLostWakeup, IrecvsTyped
<1> QED BY <1>1, <1>5, <1>6, <1>7, <1>8 DEF Inv

LEMMA ArriveKeeps == ASSUME Inv, NEW m \in net, Arrive(m) PROVE Inv'
<1> DEFINE c == Chan(m)
<1>1. /\ prog' = prog /\ net' = net \ {m}
      /\ UNCHANGED <<sendQ, sendNoRecv, recvNoSend>>
  BY DEF Arrive
<1>2. c \in Channels /\ m \in Message(c)
  BY DEF Inv, SendsTyped
<1>3. SendsTyped'
  BY <1>1, MessageStable DEF Inv, SendsTyped
<1>4. ReachedTyped' /\ ReachedQueuesExclusive'
  BY <1>1 DEF Inv, ReachedTyped, ReachedQueuesExclusive
<1>5. ThreadsTyped' /\ IrecvsTyped' /\ ReceivesTyped' /\ NoLostWakeup'
  <2>1. CASE recvQ[c] # <<>>
    <3>1. /\ recvQ' = [recvQ EXCEPT ![c] = Tail(@)]
          /\ Complete(c, m) /\ Advance({Head(recvQ[c])})
          /\ UNCHANGED messRecv
      BY <2>1 DEF Arrive, WakesReceiver, ReceiverNotReady, ReceiverWaiting
    <3>2. Tail(recvQ[c]) \in Seq(Threads) /\ messRecv[c] = <<>>
      BY <1>2, <2>1 DEF Inv, ReceivesTyped, NoLostWakeup
    <3>3. ReceivesTyped' /\ NoLostWakeup'
      BY <1>1, <1>2, <3>1, <3>2, MessageStable DEF Inv, ReceivesTyped, NoLostWakeup
    <3> QED BY <1>2, <3>1, <3>3, AdvanceTyped, CompleteKeeps DEF Inv
  <2>2. CASE recvQ[c] = <<>>
    <3>1. /\ messRecv' = [messRecv EXCEPT ![c] = Append(@, m)]
          /\ UNCHANGED <<recvQ, irecvs, pc, status>>
      BY <2>2 DEF Arrive, WakesReceiver, ReceiverNotReady, ReceiverWaiting
    <3>2. Append(messRecv[c], m) \in Seq(Message(c))
      BY <1>2 DEF Inv, ReceivesTyped
    <3>3. ReceivesTyped' /\ NoLostWakeup'
      BY <1>1, <1>2, <2>2, <3>1, <3>2, MessageStable
      DEF Inv, ReceivesTyped, NoLostWakeup
    <3> QED BY <3>1, <3>3 DEF Inv, ThreadsTyped, IrecvsTyped
  <2> QED BY <2>1, <2>2
<1> QED BY <1>1, <1>3, <1>4, <1>5 DEF Inv

LEMMA StepKeeps == Inv /\ [Next]_vars => Inv'
<1> SUFFICES ASSUME Inv, [Next]_vars PROVE Inv'
  OBVIOUS
<1>1. CASE UNCHANGED vars
  <2>1. prog' = prog /\ UNCHANGED <<pc, status, sendQ, recvQ, messRecv, sendNoRecv,
                                    recvNoSend, irecvs, net>>
    BY <1>1 DEF vars, queues
  <2> QED BY <2>1, MessageStable
          DEF Inv, ThreadsTyped, SendsTyped, ReceivesTyped, ReachedTyped, IrecvsTyped,
              ReachedQueuesExclusive, NoLostWakeup
<1>2. ASSUME NEW t \in Threads, Send(t) \/ Recv(t) \/ Irecv(t) \/ Wait(t) PROVE Inv'
  BY <1>2, SendKeeps, RecvKeeps, IrecvKeeps, WaitKeeps
<1>3. ASSUME NEW m \in net, Arrive(m) PROVE Inv'
  BY <1>3, ArriveKeeps
<1> QED BY <1>1, <1>2, <1>3 DEF Next

LEMMA InvImpliesTypeOK == Inv => TypeOK
<1> SUFFICES ASSUME Inv PROVE TypeOK
  OBVIOUS
<1> SUFFICES ASSUME NEW c \in Channels
             PROVE  /\ \A i \in DOMAIN sendQ[c] :
                          sendQ[c][i].msg[1] \in Threads /\ Chan(sendQ[c][i].msg) = c
                    /\ \A i \in DOMAIN recvQ[c] : recvQ[c][i] \in Threads
                    /\ \A i \in DOMAIN messRecv[c] : Chan(messRecv[c][i]) = c
  BY DEF Inv, TypeOK, ThreadsTyped, ReachedTyped, IrecvsTyped
<1>1. sendQ[c] \in Seq(Entry(c)) /\ recvQ[c] \in Seq(Threads)
      /\ messRecv[c] \in Seq(Message(c))
  BY DEF Inv, SendsTyped, ReceivesTyped
<1>2. ASSUME NEW i \in DOMAIN sendQ[c]
      PROVE  sendQ[c][i].msg[1] \in Threads /\ Chan(sendQ[c][i].msg) = c
  <2>1. sendQ[c][i] \in Entry(c)
    BY <1>1
  <2> QED BY <2>1 DEF Entry, Message
<1>3. ASSUME NEW i \in DOMAIN messRecv[c] PROVE Chan(messRecv[c][i]) = c
  <2>1. messRecv[c][i] \in Message(c)
    BY <1>1
  <2> QED BY <2>1 DEF Message
<1> QED BY <1>1, <1>2, <1>3

-----------------------------------------------------------------------------
(* Theorems *)

\* Every reachable state has the inductive invariant.
THEOREM Invariance == Spec => []Inv
<1>1. Init => Inv
  BY InitInv
<1>2. Inv /\ [Next]_vars => Inv'
  BY StepKeeps
<1> QED BY <1>1, <1>2, PTL DEF Spec

\* The queues of COMMUNIC_send, COMMUNIC_recv and message_received hold what
\* they should, messages filed under their own channel.
THEOREM TypeCorrect == Spec => []TypeOK
  BY Invariance, InvImpliesTypeOK, PTL

\* send_without_recv and recv_without_send are never both in use on a channel.
THEOREM ReachedAlwaysExclusive == Spec => []ReachedQueuesExclusive
<1>1. Inv => ReachedQueuesExclusive
  BY DEF Inv
<1> QED BY <1>1, Invariance, PTL

\* No thread is ever left blocked with a message for it in mess_recv.
THEOREM NeverLostWakeup == Spec => []NoLostWakeup
<1>1. Inv => NoLostWakeup
  BY DEF Inv
<1> QED BY <1>1, Invariance, PTL

-----------------------------------------------------------------------------
(* Messages and notes are accounted for                                    *)

\* A send that waits in person is the action its thread is blocked in.
SendersBlocked ==
    \A c \in Channels : \A i \in DOMAIN sendQ[c] :
        sendQ[c][i].original =>
            LET t == sendQ[c][i].msg[1]
            IN  status[t] = "blocked" /\ sendQ[c][i].msg = <<t, pc[t]>>

\* A thread in task->recv is blocked in a receive or wait on that channel and
\* is there once.
Receiving(t, c) ==
    /\ status[t] = "blocked" /\ More(t)
    /\ Action(t).op \in {"RECV", "WAIT"} /\ Action(t).ch = c
ReceiversBlocked ==
    \A c \in Channels : Once(recvQ[c]) /\ \A t \in ToSet(recvQ[c]) : Receiving(t, c)

\* No queue holds a message twice.
SendsOnce ==
    \A c \in Channels : \A i, j \in DOMAIN sendQ[c] :
        sendQ[c][i].msg = sendQ[c][j].msg => i = j
MessagesOnce == \A c \in Channels : Once(messRecv[c])

\* The places an issued send may be in, no two at once.
Apart ==
    /\ Waiting \cap net = {} /\ Waiting \cap Arrived = {} /\ Waiting \cap received = {}
    /\ net \cap Arrived = {} /\ net \cap received = {} /\ Arrived \cap received = {}
Partition == Apart /\ Issued = Waiting \cup net \cup Arrived \cup received

Places ==
    /\ prog \in Programs /\ IsFiniteSet(Reached)
    /\ SendersBlocked /\ ReceiversBlocked
    /\ SendsOnce /\ MessagesOnce /\ Partition

-----------------------------------------------------------------------------
(* Actions that were reached *)

LEMMA ReachedIs ==
    \A a : a \in Reached <=>
        \E t \in Threads : \E i \in DOMAIN prog[t] :
            /\ a = <<t, i>>
            /\ i < pc[t] \/ (i = pc[t] /\ status[t] # "ready")
  BY DEF Reached

\* A ready thread t handles its action, which completes or puts it to rest;
\* threads us that were at rest go on.
Handles(t, us) ==
    /\ status[t] = "ready" /\ More(t)
    /\ \A u \in us : status[u] # "ready"
    /\ \/ pc'[t] = pc[t] + 1 /\ status'[t] = "ready"
       \/ pc'[t] = pc[t] /\ status'[t] # "ready"
    /\ \A u \in Threads \ {t} :
          IF u \in us THEN pc'[u] = pc[u] + 1 /\ status'[u] = "ready"
                      ELSE pc'[u] = pc[u] /\ status'[u] = status[u]

LEMMA AtAction ==
    ASSUME Inv, NEW t \in Threads, More(t)
    PROVE  pc[t] \in DOMAIN prog[t] /\ pc[t] \in Nat
<1>1. prog[t] \in Seq(SendOp \cup RecvOp) /\ pc[t] \in Nat \ {0}
  BY DEF Inv, ThreadsTyped
<1> QED BY <1>1 DEF More

LEMMA ReachedHandles ==
    ASSUME Inv, prog' = prog, NEW t \in Threads, NEW us, Handles(t, us)
    PROVE  Reached' = Reached \cup {<<t, pc[t]>>}
<1>1. \A u \in Threads : /\ prog[u] \in Seq(SendOp \cup RecvOp)
                         /\ DOMAIN prog[u] = 1 .. Len(prog[u]) /\ Len(prog[u]) \in Nat
                         /\ pc[u] \in Nat
  BY DEF Inv, ThreadsTyped
<1>2. pc[t] \in DOMAIN prog[t]
  BY AtAction DEF Handles
<1>3. ASSUME NEW a PROVE a \in Reached' <=> a \in Reached \/ a = <<t, pc[t]>>
  <2>1. ASSUME NEW u \in Threads, NEW i \in DOMAIN prog[u], u # t
        PROVE  (i < pc'[u] \/ (i = pc'[u] /\ status'[u] # "ready"))
                 <=> (i < pc[u] \/ (i = pc[u] /\ status[u] # "ready"))
    BY <1>1, <2>1 DEF Handles
  <2>2. ASSUME NEW i \in DOMAIN prog[t]
        PROVE  (i < pc'[t] \/ (i = pc'[t] /\ status'[t] # "ready"))
                 <=> (i < pc[t] \/ (i = pc[t] /\ status[t] # "ready") \/ i = pc[t])
    BY <1>1, <2>2 DEF Handles
  <2>3. a \in Reached' <=>
          \E u \in Threads : \E i \in DOMAIN prog[u] :
            /\ a = <<u, i>>
            /\ i < pc'[u] \/ (i = pc'[u] /\ status'[u] # "ready")
    BY DEF Reached
  <2> QED BY <1>2, <2>1, <2>2, <2>3, ReachedIs
<1> QED BY <1>3

\* Threads that were at rest going on, and nothing else.
Resumes(us) ==
    \A u \in Threads :
        IF u \in us THEN status[u] # "ready" /\ pc'[u] = pc[u] + 1 /\ status'[u] = "ready"
                    ELSE pc'[u] = pc[u] /\ status'[u] = status[u]

LEMMA ReachedResumes ==
    ASSUME Inv, prog' = prog, NEW us, Resumes(us)
    PROVE  Reached' = Reached
<1>1. \A u \in Threads : /\ prog[u] \in Seq(SendOp \cup RecvOp)
                         /\ DOMAIN prog[u] = 1 .. Len(prog[u]) /\ Len(prog[u]) \in Nat
                         /\ pc[u] \in Nat
  BY DEF Inv, ThreadsTyped
<1>2. ASSUME NEW u \in Threads, NEW i \in DOMAIN prog[u]
      PROVE  (i < pc'[u] \/ (i = pc'[u] /\ status'[u] # "ready"))
               <=> (i < pc[u] \/ (i = pc[u] /\ status[u] # "ready"))
  BY <1>1, <1>2 DEF Resumes
<1>3. ASSUME NEW a PROVE a \in Reached' <=> a \in Reached
  <2>1. a \in Reached' <=>
          \E u \in Threads : \E i \in DOMAIN prog[u] :
            /\ a = <<u, i>>
            /\ i < pc'[u] \/ (i = pc'[u] /\ status'[u] # "ready")
    BY DEF Reached
  <2> QED BY <1>2, <2>1, ReachedIs
<1> QED BY <1>3

\* The action a ready thread is at was not reached before.
LEMMA ReadyIsNew ==
    ASSUME Inv, NEW t \in Threads, status[t] = "ready"
    PROVE  <<t, pc[t]>> \notin Reached
<1>1. pc[t] \in Nat
  BY DEF Inv, ThreadsTyped
<1> QED BY <1>1, ReachedIs

-----------------------------------------------------------------------------
(* Messages in the queues *)

\* Every message is found in the queue of its channel.
WaitingFiled ==
    \A m : m \in Waiting <=>
        /\ Chan(m) \in Channels
        /\ \E i \in DOMAIN sendQ[Chan(m)] : sendQ[Chan(m)][i].msg = m
ArrivedFiled ==
    \A m : m \in Arrived <=> Chan(m) \in Channels /\ m \in ToSet(messRecv[Chan(m)])

LEMMA Filed == Inv => WaitingFiled /\ ArrivedFiled
<1> SUFFICES ASSUME Inv PROVE WaitingFiled /\ ArrivedFiled
  OBVIOUS
<1>1. \A c \in Channels : \A i \in DOMAIN sendQ[c] : sendQ[c][i] \in Entry(c)
  BY DEF Inv, SendsTyped
<1>2. \A c \in Channels : \A i \in DOMAIN sendQ[c] : Chan(sendQ[c][i].msg) = c
  BY <1>1 DEF Entry, Message
<1>3. \A c \in Channels : ToSet(messRecv[c]) \subseteq Message(c)
  BY ElementsTyped DEF Inv, ReceivesTyped
<1>4. WaitingFiled
  BY <1>2 DEF Waiting, ToSet, WaitingFiled
<1>5. ArrivedFiled
  BY <1>3 DEF Arrived, Message, ArrivedFiled
<1> QED BY <1>4, <1>5

LEMMA FiledNext == Inv' => WaitingFiled' /\ ArrivedFiled'
  BY Filed, PTL

\* A send that waits is added to the set of waiting messages ...
LEMMA QueueSend ==
    ASSUME Inv, Inv', prog' = prog, NEW c \in Channels, NEW e \in Entry(c),
           sendQ' = [sendQ EXCEPT ![c] = Append(@, e)], SendsOnce, e.msg \notin Waiting
    PROVE  Waiting' = Waiting \cup {e.msg} /\ SendsOnce'
<1>1. sendQ[c] \in Seq(Entry(c)) /\ DOMAIN sendQ = Channels
  BY DEF Inv, SendsTyped
<1>2. Chan(e.msg) = c
  BY DEF Entry, Message
<1>3. \A d \in Channels : sendQ'[d] = IF d = c THEN Append(sendQ[c], e) ELSE sendQ[d]
  BY <1>1
<1>4. \A i \in DOMAIN sendQ[c] : sendQ[c][i].msg # e.msg
  BY <1>2, Filed DEF WaitingFiled
<1>5. SendsOnce'
  BY <1>1, <1>3, <1>4, AppendPositions DEF SendsOnce
<1>6. ASSUME NEW m PROVE m \in Waiting' <=> m \in Waiting \/ m = e.msg
  <2>1. Chan(m)' = Chan(m)
    BY MessageStable
  <2>2. m \in Waiting' <=>
          /\ Chan(m) \in Channels
          /\ \E i \in DOMAIN sendQ'[Chan(m)] : sendQ'[Chan(m)][i].msg = m
    BY <2>1, FiledNext DEF WaitingFiled
  <2>3. CASE Chan(m) # c
    BY <1>2, <1>3, <2>2, <2>3, Filed DEF WaitingFiled
  <2>4. CASE Chan(m) = c
    <3>1. sendQ'[c] = Append(sendQ[c], e)
      BY <1>3
    <3>2. (\E i \in DOMAIN sendQ'[c] : sendQ'[c][i].msg = m)
            <=> (\E i \in DOMAIN sendQ[c] : sendQ[c][i].msg = m) \/ m = e.msg
      BY <1>1, <3>1, AppendPositions
    <3> QED BY <2>2, <2>4, <3>2, Filed DEF WaitingFiled
  <2> QED BY <2>3, <2>4
<1> QED BY <1>5, <1>6

\* ... and the one whose partner was found is taken from it.
LEMMA UnqueueSend ==
    ASSUME Inv, Inv', prog' = prog, NEW c \in Channels, sendQ[c] # <<>>,
           sendQ' = [sendQ EXCEPT ![c] = Tail(@)], SendsOnce
    PROVE  /\ Head(sendQ[c]).msg \in Waiting
           /\ Waiting' = Waiting \ {Head(sendQ[c]).msg}
           /\ SendsOnce'
<1> DEFINE h == Head(sendQ[c]).msg
<1>1. sendQ[c] \in Seq(Entry(c)) /\ DOMAIN sendQ = Channels
  BY DEF Inv, SendsTyped
<1>2. /\ DOMAIN sendQ[c] = 1 .. Len(sendQ[c]) /\ Len(sendQ[c]) \in Nat \ {0}
      /\ h = sendQ[c][1].msg /\ Head(sendQ[c]) \in Entry(c)
      /\ DOMAIN Tail(sendQ[c]) = 1 .. Len(sendQ[c]) - 1
      /\ \A i \in DOMAIN Tail(sendQ[c]) : Tail(sendQ[c])[i] = sendQ[c][i + 1]
  BY <1>1, TailPositions
<1>3. \A d \in Channels : sendQ'[d] = IF d = c THEN Tail(sendQ[c]) ELSE sendQ[d]
  BY <1>1
<1>4. Chan(h) = c
  BY <1>2 DEF Entry, Message
<1>5. h \in Waiting
  BY <1>2, <1>4, Filed DEF WaitingFiled
<1>6. SendsOnce'
  <2> SUFFICES ASSUME NEW d \in Channels, NEW i \in DOMAIN sendQ'[d],
                      NEW j \in DOMAIN sendQ'[d],
                      sendQ'[d][i].msg = sendQ'[d][j].msg
               PROVE  i = j
    BY DEF SendsOnce
  <2>1. CASE d # c
    BY <1>3, <2>1 DEF SendsOnce
  <2>2. CASE d = c
    <3>1. /\ i \in 1 .. Len(sendQ[c]) - 1 /\ j \in 1 .. Len(sendQ[c]) - 1
          /\ sendQ[c][i + 1].msg = sendQ[c][j + 1].msg
      BY <1>2, <1>3, <2>2
    <3>2. i + 1 \in DOMAIN sendQ[c] /\ j + 1 \in DOMAIN sendQ[c]
      BY <1>2, <3>1
    <3>3. i + 1 = j + 1
      BY <3>1, <3>2 DEF SendsOnce
    <3> QED BY <1>2, <3>1, <3>3
  <2> QED BY <2>1, <2>2
<1>7. ASSUME NEW m PROVE m \in Waiting' <=> m \in Waiting /\ m # h
  <2>1. Chan(m)' = Chan(m)
    BY MessageStable
  <2>2. m \in Waiting' <=>
          /\ Chan(m) \in Channels
          /\ \E i \in DOMAIN sendQ'[Chan(m)] : sendQ'[Chan(m)][i].msg = m
    BY <2>1, FiledNext DEF WaitingFiled
  <2>3. CASE Chan(m) # c
    BY <1>3, <1>4, <2>2, <2>3, Filed DEF WaitingFiled
  <2>4. CASE Chan(m) = c
    <3>1. ASSUME NEW i \in DOMAIN Tail(sendQ[c]), Tail(sendQ[c])[i].msg = m
          PROVE  m # h /\ \E j \in DOMAIN sendQ[c] : sendQ[c][j].msg = m
      <4>1. i + 1 \in DOMAIN sendQ[c] /\ i + 1 # 1 /\ 1 \in DOMAIN sendQ[c]
        BY <1>2
      <4>2. sendQ[c][i + 1].msg = m
        BY <1>2, <3>1
      <4> QED BY <1>2, <4>1, <4>2 DEF SendsOnce
    <3>2. ASSUME NEW i \in DOMAIN sendQ[c], sendQ[c][i].msg = m, m # h
          PROVE  \E j \in DOMAIN Tail(sendQ[c]) : Tail(sendQ[c])[j].msg = m
      <4>1. i # 1
        BY <1>2, <3>2
      <4>2. i - 1 \in DOMAIN Tail(sendQ[c]) /\ (i - 1) + 1 = i
        BY <1>2, <4>1
      <4> QED BY <1>2, <3>2, <4>2
    <3>3. sendQ'[c] = Tail(sendQ[c])
      BY <1>3
    <3> QED BY <2>2, <2>4, <3>1, <3>2, <3>3, Filed DEF WaitingFiled
  <2> QED BY <2>3, <2>4
<1> QED BY <1>5, <1>6, <1>7

\* The same for the messages that arrived.
LEMMA KeepMessage ==
    ASSUME Inv, Inv', prog' = prog, NEW c \in Channels, NEW m \in Message(c),
           messRecv' = [messRecv EXCEPT ![c] = Append(@, m)], MessagesOnce,
           m \notin Arrived
    PROVE  Arrived' = Arrived \cup {m} /\ MessagesOnce'
<1>1. messRecv[c] \in Seq(Message(c)) /\ DOMAIN messRecv = Channels
  BY DEF Inv, ReceivesTyped
<1>2. Chan(m) = c
  BY DEF Message
<1>3. \A d \in Channels : messRecv'[d] = IF d = c THEN Append(messRecv[c], m)
                                                  ELSE messRecv[d]
  BY <1>1
<1>4. m \notin ToSet(messRecv[c])
  BY <1>2, Filed DEF ArrivedFiled
<1>5. MessagesOnce'
  BY <1>1, <1>3, <1>4, AppendOnce DEF MessagesOnce
<1>6. ToSet(messRecv'[c]) = ToSet(messRecv[c]) \cup {m}
  BY <1>1, <1>3, AppendElements
<1>7. ASSUME NEW n PROVE n \in Arrived' <=> n \in Arrived \/ n = m
  <2>1. Chan(n)' = Chan(n)
    BY MessageStable
  <2>2. n \in Arrived' <=> Chan(n) \in Channels /\ n \in ToSet(messRecv'[Chan(n)])
    BY <2>1, FiledNext DEF ArrivedFiled, ToSet
  <2> QED BY <1>2, <1>3, <1>6, <2>2, Filed DEF ArrivedFiled
<1> QED BY <1>5, <1>7

LEMMA TakeMessage ==
    ASSUME Inv, Inv', prog' = prog, NEW c \in Channels, messRecv[c] # <<>>,
           messRecv' = [messRecv EXCEPT ![c] = Tail(@)], MessagesOnce
    PROVE  /\ Head(messRecv[c]) \in Arrived
           /\ Arrived' = Arrived \ {Head(messRecv[c])}
           /\ MessagesOnce'
<1> DEFINE h == Head(messRecv[c])
<1>1. messRecv[c] \in Seq(Message(c)) /\ DOMAIN messRecv = Channels
  BY DEF Inv, ReceivesTyped
<1>2. \A d \in Channels : messRecv'[d] = IF d = c THEN Tail(messRecv[c])
                                                  ELSE messRecv[d]
  BY <1>1
<1>3. /\ h \in ToSet(messRecv[c]) /\ Once(Tail(messRecv[c]))
      /\ ToSet(messRecv'[c]) = ToSet(messRecv[c]) \ {h}
  BY <1>1, <1>2, TailElements DEF MessagesOnce
<1>4. MessagesOnce'
  BY <1>2, <1>3 DEF MessagesOnce
<1>5. h \in Message(c) /\ Chan(h) = c
  BY <1>1, TailPositions DEF Message
<1>6. ASSUME NEW n PROVE n \in Arrived' <=> n \in Arrived /\ n # h
  <2>1. Chan(n)' = Chan(n)
    BY MessageStable
  <2>2. n \in Arrived' <=> Chan(n) \in Channels /\ n \in ToSet(messRecv'[Chan(n)])
    BY <2>1, FiledNext DEF ArrivedFiled, ToSet
  <2> QED BY <1>2, <1>3, <1>5, <2>2, Filed DEF ArrivedFiled
<1> QED BY <1>3, <1>4, <1>5, <1>6, Filed DEF ArrivedFiled

-----------------------------------------------------------------------------
(* Threads at rest *)

\* A thread released with its message was blocked in the send of it.
LEMMA ReleasedSends ==
    ASSUME Inv, Places, NEW c \in Channels, NEW u \in ReleasedBy(c)
    PROVE  /\ u \in Threads /\ status[u] = "blocked" /\ More(u)
           /\ Action(u).op = "SEND" /\ Head(sendQ[c]).msg = <<u, pc[u]>>
<1>1. sendQ[c] # <<>> /\ Head(sendQ[c]).original /\ u = Head(sendQ[c]).msg[1]
  BY DEF ReleasedBy
<1>2. sendQ[c] \in Seq(Entry(c))
  BY DEF Inv, SendsTyped
<1>3. Head(sendQ[c]) = sendQ[c][1] /\ 1 \in DOMAIN sendQ[c] /\ sendQ[c][1] \in Entry(c)
  BY <1>1, <1>2, TailPositions
<1>4. status[u] = "blocked" /\ Head(sendQ[c]).msg = <<u, pc[u]>>
  BY <1>1, <1>3 DEF Places, SendersBlocked
<1>5. Chan(Head(sendQ[c]).msg) = c /\ u \in Threads
  BY <1>1, <1>3 DEF Entry, Message
<1>6. <<u, pc[u]>> \in Issued
  BY <1>3, <1>4, <1>5, Filed DEF WaitingFiled, Places, Partition
<1>7. prog[u][pc[u]].op = "SEND" /\ pc[u] \in DOMAIN prog[u]
  BY <1>6, ReachedIs DEF Issued
<1>8. prog[u] \in Seq(SendOp \cup RecvOp)
  BY <1>5 DEF Inv
<1> QED BY <1>4, <1>5, <1>7, <1>8 DEF More, Action

\* Handling the action of t, with a partner released, as advance or rest.
LEMMA AdvanceHandles ==
    ASSUME Inv, Places, NEW t \in Threads, status[t] = "ready", More(t), NEW us,
           \A u \in us : status[u] # "ready",
           \/ Advance({t} \cup us)
           \/ \E s \in {"blocked", "busy"} : AdvanceAndRest(us, t, s)
    PROVE  Handles(t, us)
<1>1. t \notin us
  OBVIOUS
<1>2. CASE Advance({t} \cup us)
  BY <1>1, <1>2 DEF Handles, Advance
<1>3. CASE \E s \in {"blocked", "busy"} : AdvanceAndRest(us, t, s)
  BY <1>1, <1>3 DEF Handles, AdvanceAndRest, Inv, ThreadsTyped
<1> QED BY <1>2, <1>3

LEMMA ReceiversKeep ==
    ASSUME Inv, Inv', Places, prog' = prog, NEW t \in Threads, NEW us, Handles(t, us),
           \A u \in us : Action(u).op = "SEND",
           \/ recvQ' = recvQ
           \/ \E c \in Channels : /\ recvQ' = [recvQ EXCEPT ![c] = Append(@, t)]
                                  /\ Action(t).op \in {"RECV", "WAIT"}
                                  /\ Action(t).ch = c
                                  /\ status'[t] = "blocked" /\ pc'[t] = pc[t]
    PROVE  ReceiversBlocked'
<1>1. ASSUME NEW c \in Channels, NEW u \in ToSet(recvQ[c])
      PROVE  Receiving(u, c)'
  <2>1. Receiving(u, c) /\ u \in Threads
    BY ElementsTyped DEF Places, ReceiversBlocked, Inv, ReceivesTyped
  <2>2. u # t /\ u \notin us
    BY <2>1 DEF Receiving, Handles
  <2>3. pc'[u] = pc[u] /\ status'[u] = status[u]
    BY <2>1, <2>2 DEF Handles
  <2> QED BY <2>1, <2>3 DEF Receiving, More, Action
<1>2. CASE recvQ' = recvQ
  BY <1>1, <1>2 DEF Places, ReceiversBlocked, Once, ToSet
<1>3. ASSUME NEW c \in Channels, recvQ' = [recvQ EXCEPT ![c] = Append(@, t)],
             Action(t).op \in {"RECV", "WAIT"}, Action(t).ch = c,
             status'[t] = "blocked", pc'[t] = pc[t]
      PROVE  ReceiversBlocked'
  <2>1. recvQ[c] \in Seq(Threads) /\ DOMAIN recvQ = Channels
    BY DEF Inv, ReceivesTyped
  <2>2. \A d \in Channels : recvQ'[d] = IF d = c THEN Append(recvQ[c], t) ELSE recvQ[d]
    BY <1>3, <2>1
  <2>3. t \notin ToSet(recvQ[c])
    BY DEF Places, ReceiversBlocked, Receiving, Handles
  <2>4. Once(recvQ'[c]) /\ ToSet(recvQ'[c]) = ToSet(recvQ[c]) \cup {t}
    BY <2>1, <2>2, <2>3, AppendOnce, AppendElements DEF Places, ReceiversBlocked
  <2>5. Receiving(t, c)'
    BY <1>3 DEF Receiving, More, Action, Handles
  <2>6. \A d \in Channels : Once(recvQ'[d]) /\ \A u \in ToSet(recvQ'[d]) : Receiving(u, d)'
    BY <1>1, <2>2, <2>4, <2>5 DEF Places, ReceiversBlocked
  <2> QED BY <2>6 DEF ReceiversBlocked, Once, ToSet
<1> QED BY <1>2, <1>3

\* Senders that stay in task->send are not touched.
LEMMA SendersKeep ==
    ASSUME Inv, Inv', Places, prog' = prog, NEW t \in Threads, NEW us, Handles(t, us),
           NEW c \in Channels,
           \/ sendQ' = sendQ /\ us = {}
           \/ StartPartner(c) /\ us = ReleasedBy(c)
    PROVE  SendersBlocked' /\ SendsOnce'
<1>1. ASSUME NEW d \in Channels, NEW i \in DOMAIN sendQ[d], sendQ[d][i].original,
             sendQ[d][i].msg[1] \notin us
      PROVE  LET u == sendQ[d][i].msg[1]
             IN  status'[u] = "blocked" /\ sendQ[d][i].msg = <<u, pc'[u]>>
  <2> DEFINE u == sendQ[d][i].msg[1]
  <2>1. status[u] = "blocked" /\ sendQ[d][i].msg = <<u, pc[u]>>
    BY <1>1 DEF Places, SendersBlocked
  <2>2. sendQ[d][i] \in Entry(d)
    BY DEF Inv, SendsTyped
  <2>3. u \in Threads
    BY <2>2 DEF Entry, Message
  <2>4. u # t
    BY <2>1 DEF Handles
  <2> QED BY <1>1, <2>1, <2>3, <2>4 DEF Handles
<1>2. CASE sendQ' = sendQ /\ us = {}
  BY <1>1, <1>2 DEF SendersBlocked, SendsOnce, Places
<1>3. CASE StartPartner(c) /\ us = ReleasedBy(c) /\ sendQ[c] = <<>>
  <2>1. sendQ' = sendQ /\ us = {}
    BY <1>3 DEF StartPartner, ReleasedBy
  <2> QED BY <1>2, <2>1
<1>4. CASE StartPartner(c) /\ us = ReleasedBy(c) /\ sendQ[c] # <<>>
  <2> DEFINE h == Head(sendQ[c]).msg
  <2>1. sendQ' = [sendQ EXCEPT ![c] = Tail(@)]
    BY <1>4 DEF StartPartner
  <2>2. SendsOnce' /\ Waiting' = Waiting \ {h}
    BY <1>4, <2>1, UnqueueSend DEF Places
  <2>3. sendQ[c] \in Seq(Entry(c)) /\ DOMAIN sendQ = Channels
    BY DEF Inv, SendsTyped
  <2>4. SendersBlocked'
    <3> SUFFICES ASSUME NEW d \in Channels, NEW i \in DOMAIN sendQ'[d],
                        sendQ'[d][i].original
                 PROVE  LET u == sendQ'[d][i].msg[1]
                        IN  status'[u] = "blocked" /\ sendQ'[d][i].msg = <<u, pc'[u]>>
      BY DEF SendersBlocked
    <3> DEFINE u == sendQ'[d][i].msg[1]
    <3>1. PICK j \in DOMAIN sendQ[d] : sendQ'[d][i] = sendQ[d][j]
      <4>1. CASE d # c
        BY <2>1, <2>3, <4>1
      <4>2. CASE d = c
        <5>1. sendQ'[d] = Tail(sendQ[c])
          BY <2>1, <2>3, <4>2
        <5>2. i + 1 \in DOMAIN sendQ[c] /\ sendQ'[d][i] = sendQ[c][i + 1]
          BY <1>4, <2>3, <5>1, TailPositions
        <5> QED BY <4>2, <5>2
      <4> QED BY <4>1, <4>2
    <3>2. sendQ'[d][i].msg \in Waiting' /\ sendQ'[d][i].msg # h
      <4>1. PICK m : m = sendQ'[d][i].msg
        OBVIOUS
      <4>2. sendQ[d][j] \in Entry(d) /\ m = sendQ[d][j].msg
        BY <3>1, <4>1 DEF Inv, SendsTyped
      <4>3. Chan(m) = d /\ Chan(m)' = Chan(m)
        BY <4>2, MessageStable DEF Entry, Message
      <4>4. m \in Waiting'
        BY <4>1, <4>3, FiledNext DEF WaitingFiled
      <4> QED BY <2>2, <4>1, <4>4
    <3>3. u \notin us
      <4> SUFFICES ASSUME u \in us PROVE FALSE
        OBVIOUS
      <4>1. h = <<u, pc[u]>>
        BY <1>4, ReleasedSends
      <4>2. sendQ[d][j].msg = <<u, pc[u]>>
        BY <3>1 DEF Places, SendersBlocked
      <4> QED BY <3>1, <3>2, <4>1, <4>2
    <3> QED BY <1>1, <3>1, <3>3
  <2> QED BY <2>2, <2>4
<1> QED BY <1>2, <1>3, <1>4

-----------------------------------------------------------------------------
(* What the actions do to the places of messages *)

\* Starting the partner: nothing moves, or one message of c goes out.
Starts(c) ==
    \/ Waiting' = Waiting /\ net' = net /\ sendQ[c] = <<>> /\ sendQ' = sendQ
    \/ /\ sendQ[c] # <<>> /\ \A d \in Channels \ {c} : sendQ'[d] = sendQ[d]
       /\ \E h \in Waiting : /\ Chan(h) = c
                             /\ Waiting' = Waiting \ {h} /\ net' = net \cup {h}

LEMMA StartPartnerStarts ==
    ASSUME Inv, Inv', Places, prog' = prog, NEW c \in Channels, StartPartner(c)
    PROVE  Starts(c)
<1>1. CASE sendQ[c] = <<>>
  BY <1>1 DEF StartPartner, Starts, Waiting
<1>2. CASE sendQ[c] # <<>>
  <2>1. /\ sendQ' = [sendQ EXCEPT ![c] = Tail(@)]
        /\ net' = net \cup {Head(sendQ[c]).msg}
    BY <1>2 DEF StartPartner
  <2>2. /\ Head(sendQ[c]).msg \in Waiting
        /\ Waiting' = Waiting \ {Head(sendQ[c]).msg}
    BY <1>2, <2>1, UnqueueSend DEF Places
  <2>3. Head(sendQ[c]) \in Entry(c)
    BY <1>2, TailPositions DEF Inv, SendsTyped
  <2>4. Chan(Head(sendQ[c]).msg) = c
    BY <2>3 DEF Entry, Message
  <2>5. \A d \in Channels \ {c} : sendQ'[d] = sendQ[d]
    BY <2>1 DEF Inv, SendsTyped
  <2> QED BY <1>2, <2>1, <2>2, <2>4, <2>5 DEF Starts
<1> QED BY <1>1, <1>2

\* The shared part of receive and wait: a message that arrived is taken, or
\* the thread rests and the partner is started.
Takes(t, c) ==
    /\ Waiting' = Waiting /\ net' = net /\ recvQ' = recvQ /\ sendQ' = sendQ
    /\ pc'[t] = pc[t] + 1
    /\ \E h \in Arrived : /\ Chan(h) = c /\ Complete(c, h)
                          /\ Arrived' = Arrived \ {h}
Rests(t, c) ==
    /\ Arrived' = Arrived /\ received' = received /\ irecvs' = irecvs
    /\ pc'[t] = pc[t] /\ Starts(c)
    /\ recvQ' \in {recvQ, [recvQ EXCEPT ![c] = Append(@, t)]}

LEMMA ReceiveOrWaitMoves ==
    ASSUME Inv, Inv', Places, prog' = prog, NEW t \in Threads, status[t] = "ready",
           More(t), Action(t).op \in {"RECV", "WAIT"}, ReceiveOrWait(t, Action(t).ch)
    PROVE  /\ \E us : Handles(t, us) /\ \A u \in us : Action(u).op = "SEND"
           /\ SendersBlocked' /\ ReceiversBlocked' /\ SendsOnce' /\ MessagesOnce'
           /\ Takes(t, Action(t).ch) \/ Rests(t, Action(t).ch)
<1> DEFINE c == Action(t).ch
<1>0. c \in Channels
  BY ActionTyped
<1>1. CASE messRecv[c] # <<>>
  <2>1. /\ messRecv' = [messRecv EXCEPT ![c] = Tail(@)]
        /\ Complete(c, Head(messRecv[c]))
        /\ Advance({t}) /\ UNCHANGED <<sendQ, recvQ, net>>
    BY <1>1 DEF ReceiveOrWait, MessageAwaiting
  <2>2. Handles(t, {})
    BY <2>1, AdvanceHandles
  <2>3. /\ Head(messRecv[c]) \in Arrived
        /\ Arrived' = Arrived \ {Head(messRecv[c])} /\ MessagesOnce'
    BY <1>0, <1>1, <2>1, TakeMessage DEF Places
  <2>4. Chan(Head(messRecv[c])) = c
    <3>1. Head(messRecv[c]) \in Message(c)
      BY <1>0, <1>1, TailPositions DEF Inv, ReceivesTyped
    <3> QED BY <3>1 DEF Message
  <2>5. SendersBlocked' /\ SendsOnce'
    BY <1>0, <2>1, <2>2, SendersKeep
  <2>6. ReceiversBlocked'
    BY <2>1, <2>2, ReceiversKeep
  <2>7. Waiting' = Waiting
    BY <2>1 DEF Waiting
  <2>8. pc'[t] = pc[t] + 1
    BY <2>1 DEF Advance
  <2> QED BY <2>1, <2>2, <2>3, <2>4, <2>5, <2>6, <2>7, <2>8 DEF Takes
<1>2. CASE messRecv[c] = <<>>
  <2> DEFINE s == IF BusyWait THEN "busy" ELSE "blocked"
             us == ReleasedBy(c)
  <2>1. /\ StartPartner(c) /\ AdvanceAndRest(us, t, s)
        /\ recvQ' = IF BusyWait THEN recvQ ELSE [recvQ EXCEPT ![c] = Append(@, t)]
        /\ UNCHANGED <<messRecv, received, irecvs>>
    BY <1>2 DEF ReceiveOrWait, MessageAwaiting
  <2>2. \A u \in us : status[u] = "blocked" /\ Action(u).op = "SEND"
    BY <1>0, ReleasedSends
  <2>3. Handles(t, us)
    <3>1. \E r \in {"blocked", "busy"} : AdvanceAndRest(us, t, r)
      BY <2>1
    <3> HIDE DEF us
    <3> QED BY <2>2, <3>1, AdvanceHandles
  <2>4. SendersBlocked' /\ SendsOnce'
    <3>1. StartPartner(c) /\ us = ReleasedBy(c)
      BY <2>1
    <3> QED BY <1>0, <2>3, <3>1, SendersKeep
  <2>5. pc'[t] = pc[t] /\ status'[t] = s
    <3>1. t \notin us
      BY <2>2
    <3> QED BY <2>1, <3>1 DEF AdvanceAndRest
  <2>6. ReceiversBlocked'
    <3>1. CASE BusyWait
      BY <2>1, <2>2, <2>3, <3>1, ReceiversKeep
    <3>2. CASE ~BusyWait
      <4>1. \E d \in Channels : /\ recvQ' = [recvQ EXCEPT ![d] = Append(@, t)]
                                /\ Action(t).op \in {"RECV", "WAIT"}
                                /\ Action(t).ch = d
                                /\ status'[t] = "blocked" /\ pc'[t] = pc[t]
        BY <1>0, <2>1, <2>5, <3>2
      <4> HIDE DEF us, c
      <4> QED BY <2>2, <2>3, <4>1, ReceiversKeep
    <3> QED BY <3>1, <3>2
  <2>7. MessagesOnce' /\ Arrived' = Arrived
    BY <2>1 DEF Places, MessagesOnce, Once, Arrived
  <2>8. Starts(c)
    BY <1>0, <2>1, StartPartnerStarts
  <2>9. Rests(t, c)
    BY <2>1, <2>5, <2>7, <2>8 DEF Rests
  <2> QED BY <2>2, <2>3, <2>4, <2>6, <2>7, <2>9
<1> QED BY <1>1, <1>2

\* Only a send adds to what was issued.
LEMMA IssuedHandles ==
    ASSUME Inv, prog' = prog, NEW t \in Threads, NEW us, Handles(t, us)
    PROVE  Issued' = IF Action(t).op = "SEND" THEN Issued \cup {<<t, pc[t]>>}
                                              ELSE Issued
<1>1. Reached' = Reached \cup {<<t, pc[t]>>}
  BY ReachedHandles
<1>2. Issued' = {m \in Reached' : prog[m[1]][m[2]].op = "SEND"}
  BY DEF Issued
<1> QED BY <1>1, <1>2 DEF Issued, Action

LEMMA FiniteHandles ==
    ASSUME Inv, Places, prog' = prog, NEW t \in Threads, NEW us, Handles(t, us)
    PROVE  prog' \in Programs /\ IsFiniteSet(Reached')
<1>1. IsFiniteSet(Reached)
  BY DEF Places
<1>2. IsFiniteSet(Reached \cup {<<t, pc[t]>>})
  BY <1>1, FS_AddElement
<1> QED BY <1>2, ReachedHandles DEF Places

\* A send waits, if nobody is blocked in the receive of it, or goes out.
Departs(t, m, c) ==
    \/ /\ Waiting' = Waiting \cup {m} /\ net' = net /\ recvQ[c] = <<>>
       /\ \A d \in Channels \ {c} : sendQ'[d] = sendQ[d]
    \/ Waiting' = Waiting /\ net' = net \cup {m} /\ sendQ' = sendQ

LEMMA SendMoves ==
    ASSUME Inv, Inv', Places, NEW t \in Threads, Send(t)
    PROVE  /\ Handles(t, {}) /\ Action(t).op = "SEND"
           /\ SendersBlocked' /\ ReceiversBlocked' /\ SendsOnce' /\ MessagesOnce'
           /\ <<t, pc[t]>> \notin Issued
           /\ Departs(t, <<t, pc[t]>>, Action(t).ch)
<1> DEFINE a == Action(t)
           c == a.ch
           m == <<t, pc[t]>>
           entry == [msg |-> m, original |-> ~a.imm]
<1>1. /\ prog' = prog /\ UNCHANGED <<recvQ, messRecv>>
      /\ status[t] = "ready" /\ More(t) /\ a.op = "SEND"
  BY DEF Send, Running
<1>2. c \in Channels /\ m \in Message(c) /\ a \in SendOp /\ Chan(m) = c
  BY <1>1, ActionTyped DEF SendOp, RecvOp, Message
<1>3. m \notin Reached /\ m \notin Issued
  BY <1>1, ReadyIsNew DEF Issued
<1>4. m \notin Waiting
  BY <1>3 DEF Places, Partition
<1>5. entry \in Entry(c)
  BY <1>2 DEF Entry, SendOp
<1>6. Handles(t, {})
  <2>1. Advance({t} \cup {}) \/ AdvanceAndRest({}, t, "blocked")
    BY DEF Send, WaitsForReceiver, GoesOut
  <2> QED BY <1>1, <2>1, AdvanceHandles
<1>7. ReceiversBlocked'
  BY <1>1, <1>6, ReceiversKeep
<1>8. MessagesOnce'
  BY <1>1 DEF Places, MessagesOnce, Once
<1>9. CASE WaitsForReceiver(t)
  <2>1. /\ sendQ' = [sendQ EXCEPT ![c] = Append(@, entry)] /\ net' = net
        /\ recvQ[c] = <<>>
        /\ IF a.imm THEN Advance({t}) ELSE AdvanceAndRest({}, t, "blocked")
    BY <1>9 DEF WaitsForReceiver, ReceiverWaiting
  <2>2. entry.msg = m
    OBVIOUS
  <2>3. Waiting' = Waiting \cup {m} /\ SendsOnce'
    <3> HIDE DEF entry, m
    <3> QED BY <1>1, <1>2, <1>4, <1>5, <2>1, <2>2, QueueSend DEF Places
  <2>4. SendersBlocked'
    <3>1. sendQ[c] \in Seq(Entry(c)) /\ DOMAIN sendQ = Channels
      BY <1>2 DEF Inv, SendsTyped
    <3> SUFFICES ASSUME NEW d \in Channels, NEW i \in DOMAIN sendQ'[d],
                        sendQ'[d][i].original
                 PROVE  LET u == sendQ'[d][i].msg[1]
                        IN  status'[u] = "blocked" /\ sendQ'[d][i].msg = <<u, pc'[u]>>
      BY DEF SendersBlocked
    <3> DEFINE u == sendQ'[d][i].msg[1]
    <3>2. ASSUME i \in DOMAIN sendQ[d], sendQ'[d][i] = sendQ[d][i]
          PROVE  status'[u] = "blocked" /\ sendQ'[d][i].msg = <<u, pc'[u]>>
      <4>1. status[u] = "blocked" /\ sendQ[d][i].msg = <<u, pc[u]>>
        BY <3>2 DEF Places, SendersBlocked
      <4>2. sendQ[d][i] \in Entry(d)
        BY <3>2 DEF Inv, SendsTyped
      <4>3. u \in Threads /\ u # t
        BY <1>1, <3>2, <4>1, <4>2 DEF Entry, Message
      <4>4. pc'[u] = pc[u] /\ status'[u] = status[u]
        BY <1>6, <4>3 DEF Handles
      <4> QED BY <3>2, <4>1, <4>4
    <3>3. ASSUME sendQ'[d][i] = entry
          PROVE  status'[u] = "blocked" /\ sendQ'[d][i].msg = <<u, pc'[u]>>
      <4>1. ~a.imm /\ u = t
        <5>1. entry.original = ~a.imm /\ entry.msg = m
          OBVIOUS
        <5>2. entry.original
          BY <3>3
        <5>3. m[1] = t
          OBVIOUS
        <5> HIDE DEF entry, m
        <5> QED BY <3>3, <5>1, <5>2, <5>3, Zenon
      <4>2. AdvanceAndRest({}, t, "blocked")
        BY <2>1, <4>1
      <4>3. status'[t] = "blocked" /\ pc'[t] = pc[t]
        BY <4>2 DEF AdvanceAndRest
      <4> QED BY <3>3, <4>1, <4>3
    <3>4. \/ i \in DOMAIN sendQ[d] /\ sendQ'[d][i] = sendQ[d][i]
          \/ sendQ'[d][i] = entry
      <4>1. CASE d # c
        BY <2>1, <3>1, <4>1
      <4>2. CASE d = c
        <5>1. sendQ'[d] = Append(sendQ[c], entry)
          BY <2>1, <3>1, <4>2
        <5> HIDE DEF entry
        <5> QED BY <1>5, <3>1, <4>2, <5>1, AppendPositions
      <4> QED BY <4>1, <4>2
    <3> QED BY <3>2, <3>3, <3>4
  <2>5. \A d \in Channels \ {c} : sendQ'[d] = sendQ[d]
    BY <2>1 DEF Inv, SendsTyped
  <2> QED BY <1>1, <1>3, <1>6, <1>7, <1>8, <2>1, <2>3, <2>4, <2>5 DEF Departs
<1>10. CASE GoesOut(t)
  <2>1. net' = net \cup {m} /\ sendQ' = sendQ
    BY <1>10 DEF GoesOut
  <2>2. SendersBlocked' /\ SendsOnce'
    BY <1>1, <1>2, <1>6, <2>1, SendersKeep
  <2>3. Waiting' = Waiting
    BY <2>1 DEF Waiting
  <2> QED BY <1>1, <1>3, <1>6, <1>7, <1>8, <2>1, <2>2, <2>3 DEF Departs
<1> QED BY <1>9, <1>10 DEF Send

LEMMA SendPlaces ==
    ASSUME Inv, Inv', Places, NEW t \in Threads, Send(t)
    PROVE  Places'
<1> DEFINE m == <<t, pc[t]>>
<1>1. prog' = prog /\ messRecv' = messRecv /\ received' = received
  BY DEF Send
<1>2. Arrived' = Arrived
  BY <1>1 DEF Arrived
<1>3. Issued' = Issued \cup {m} /\ m \notin Issued
  BY <1>1, SendMoves, IssuedHandles
<1>4. Partition'
  <2> HIDE DEF m
  <2> QED BY <1>1, <1>2, <1>3, SendMoves DEF m, Departs, Partition, Apart, Places
<1> QED BY <1>1, <1>4, SendMoves, FiniteHandles DEF Places

LEMMA RecvPlaces ==
    ASSUME Inv, Inv', Places, prog' = prog, NEW t \in Threads, status[t] = "ready",
           More(t), Action(t).op \in {"RECV", "WAIT"}, ReceiveOrWait(t, Action(t).ch)
    PROVE  Places'
<1>1. PICK us : Handles(t, us)
  BY ReceiveOrWaitMoves
<1>2. Issued' = Issued
  BY <1>1, IssuedHandles
<1>3. Partition'
  <2>1. CASE Takes(t, Action(t).ch)
    BY <1>2, <2>1 DEF Takes, Complete, Partition, Apart, Places
  <2>2. CASE Rests(t, Action(t).ch)
    BY <1>2, <2>2 DEF Rests, Starts, Partition, Apart, Places
  <2> QED BY <2>1, <2>2, ReceiveOrWaitMoves
<1> QED BY <1>1, <1>3, FiniteHandles, ReceiveOrWaitMoves DEF Places

\* A non-blocking receive starts the partner or moves nothing.
LEMMA IrecvMoves ==
    ASSUME Inv, Inv', Places, NEW t \in Threads, Irecv(t)
    PROVE  /\ \E us : Handles(t, us) /\ \A u \in us : Action(u).op = "SEND"
           /\ SendersBlocked' /\ ReceiversBlocked' /\ SendsOnce' /\ MessagesOnce'
           /\ Starts(Action(t).ch) \/ (Waiting' = Waiting /\ net' = net /\ sendQ' = sendQ)
<1> DEFINE c == Action(t).ch
<1>1. /\ prog' = prog /\ UNCHANGED <<recvQ, messRecv>>
      /\ status[t] = "ready" /\ More(t)
  BY DEF Irecv, Running
<1>2. c \in Channels
  BY <1>1, ActionTyped
<1>3. MessagesOnce'
  BY <1>1 DEF Places, MessagesOnce, Once
<1>4. CASE StartPartner(c) /\ Advance({t} \cup ReleasedBy(c))
  <2>1. \A u \in ReleasedBy(c) : status[u] = "blocked" /\ Action(u).op = "SEND"
    BY <1>2, ReleasedSends
  <2>2. Handles(t, ReleasedBy(c))
    BY <1>1, <1>4, <2>1, AdvanceHandles
  <2>3. SendersBlocked' /\ SendsOnce'
    BY <1>1, <1>2, <1>4, <2>2, SendersKeep
  <2>4. ReceiversBlocked'
    BY <1>1, <2>1, <2>2, ReceiversKeep
  <2>5. Starts(c)
    BY <1>1, <1>2, <1>4, StartPartnerStarts
  <2> QED BY <1>3, <2>1, <2>2, <2>3, <2>4, <2>5
<1>5. CASE UNCHANGED <<sendQ, net>> /\ Advance({t})
  <2>1. Handles(t, {})
    BY <1>1, <1>5, AdvanceHandles
  <2>2. SendersBlocked' /\ SendsOnce'
    BY <1>1, <1>2, <1>5, <2>1, SendersKeep
  <2>3. ReceiversBlocked'
    BY <1>1, <2>1, ReceiversKeep
  <2>4. Waiting' = Waiting
    BY <1>5 DEF Waiting
  <2> QED BY <1>3, <1>5, <2>1, <2>2, <2>3, <2>4
<1> QED BY <1>4, <1>5 DEF Irecv

LEMMA IrecvPlaces ==
    ASSUME Inv, Inv', Places, NEW t \in Threads, Irecv(t)
    PROVE  Places'
<1>1. /\ prog' = prog /\ messRecv' = messRecv /\ received' = received
      /\ Action(t).op = "IRECV"
  BY DEF Irecv, Running
<1>2. Arrived' = Arrived
  BY <1>1 DEF Arrived
<1>3. PICK us : Handles(t, us)
  BY IrecvMoves
<1>4. Issued' = Issued
  BY <1>1, <1>3, IssuedHandles
<1>5. Partition'
  BY <1>1, <1>2, <1>4, IrecvMoves DEF Starts, Partition, Apart, Places
<1> QED BY <1>1, <1>3, <1>5, FiniteHandles, IrecvMoves DEF Places

\* A message that arrives wakes the receiver that waited longest or is kept.
Wakes(m, u, c) ==
    /\ recvQ[c] # <<>> /\ u \in Threads /\ Receiving(u, c)
    /\ recvQ' = [recvQ EXCEPT ![c] = Tail(@)]
    /\ Resumes({u}) /\ Complete(c, m) /\ Arrived' = Arrived
Keeps(m, c) ==
    /\ recvQ[c] = <<>> /\ recvQ' = recvQ /\ pc' = pc
    /\ Resumes({}) /\ received' = received /\ irecvs' = irecvs
    /\ Arrived' = Arrived \cup {m}

LEMMA ArriveMoves ==
    ASSUME Inv, Inv', Places, NEW m \in net, Arrive(m)
    PROVE  /\ prog' = prog /\ net' = net \ {m} /\ Waiting' = Waiting
           /\ Chan(m) \in Channels
           /\ SendersBlocked' /\ ReceiversBlocked' /\ SendsOnce' /\ MessagesOnce'
           /\ (\E u : Wakes(m, u, Chan(m))) \/ Keeps(m, Chan(m))
<1> DEFINE c == Chan(m)
<1>1. prog' = prog /\ net' = net \ {m} /\ sendQ' = sendQ
  BY DEF Arrive
<1>2. c \in Channels /\ m \in Message(c)
  BY DEF Inv, SendsTyped
<1>3. Waiting' = Waiting /\ SendsOnce'
  BY <1>1 DEF Waiting, Places, SendsOnce
<1>4. recvQ[c] \in Seq(Threads) /\ DOMAIN recvQ = Channels
  BY <1>2 DEF Inv, ReceivesTyped
<1>5. ASSUME NEW d \in Channels, NEW i \in DOMAIN sendQ[d], sendQ[d][i].original
      PROVE  LET u == sendQ[d][i].msg[1]
             IN  /\ u \in Threads /\ status[u] = "blocked"
                 /\ sendQ[d][i].msg = <<u, pc[u]>> /\ Action(u).op = "SEND"
  <2> DEFINE u == sendQ[d][i].msg[1]
  <2>1. status[u] = "blocked" /\ sendQ[d][i].msg = <<u, pc[u]>>
    BY <1>5 DEF Places, SendersBlocked
  <2>2. sendQ[d][i] \in Entry(d)
    BY DEF Inv, SendsTyped
  <2>3. u \in Threads /\ Chan(sendQ[d][i].msg) = d
    BY <2>2 DEF Entry, Message
  <2>4. <<u, pc[u]>> \in Issued
    BY <2>1, <2>3, Filed DEF WaitingFiled, Places, Partition
  <2> QED BY <2>1, <2>3, <2>4 DEF Issued, Action
<1>6. CASE WakesReceiver(m, c)
  <2> DEFINE u == Head(recvQ[c])
  <2>1. /\ recvQ[c] # <<>> /\ recvQ' = [recvQ EXCEPT ![c] = Tail(@)]
        /\ Complete(c, m) /\ Advance({u}) /\ messRecv' = messRecv
    BY <1>6 DEF WakesReceiver, ReceiverWaiting
  <2>2. /\ u \in ToSet(recvQ[c]) /\ u \in Threads /\ Once(Tail(recvQ[c]))
        /\ ToSet(Tail(recvQ[c])) = ToSet(recvQ[c]) \ {u}
    BY <1>2, <1>4, <2>1, TailElements, TailPositions DEF Places, ReceiversBlocked
  <2>3. Receiving(u, c)
    BY <1>2, <2>2 DEF Places, ReceiversBlocked
  <2>4. Resumes({u})
    BY <2>1, <2>3 DEF Resumes, Advance, Receiving
  <2>5. Arrived' = Arrived /\ MessagesOnce'
    BY <2>1 DEF Arrived, Places, MessagesOnce, Once
  <2>6. SendersBlocked'
    <3> SUFFICES ASSUME NEW d \in Channels, NEW i \in DOMAIN sendQ[d],
                        sendQ[d][i].original
                 PROVE  LET v == sendQ[d][i].msg[1]
                        IN  status'[v] = "blocked" /\ sendQ[d][i].msg = <<v, pc'[v]>>
      BY <1>1 DEF SendersBlocked
    <3> QED BY <1>5, <2>3, <2>4 DEF Resumes, Receiving
  <2>7. ReceiversBlocked'
    <3>1. \A d \in Channels : recvQ'[d] = IF d = c THEN Tail(recvQ[c]) ELSE recvQ[d]
      BY <1>4, <2>1
    <3>2. ASSUME NEW d \in Channels, NEW v \in ToSet(recvQ[d]), v # u
          PROVE  Receiving(v, d)'
      <4>1. Receiving(v, d) /\ v \in Threads
        BY ElementsTyped DEF Places, ReceiversBlocked, Inv, ReceivesTyped
      <4>2. pc'[v] = pc[v] /\ status'[v] = status[v]
        BY <2>4, <3>2, <4>1 DEF Resumes
      <4> QED BY <1>1, <4>1, <4>2 DEF Receiving, More, Action
    <3>3. ASSUME NEW d \in Channels, d # c PROVE u \notin ToSet(recvQ[d])
      BY <2>3, <3>3 DEF Places, ReceiversBlocked, Receiving
    <3>4. \A d \in Channels :
             Once(recvQ'[d]) /\ \A v \in ToSet(recvQ'[d]) : Receiving(v, d)'
      BY <2>2, <3>1, <3>2, <3>3 DEF Places, ReceiversBlocked
    <3> QED BY <3>4 DEF ReceiversBlocked, Once, ToSet
  <2>8. Wakes(m, u, c)
    BY <2>1, <2>2, <2>3, <2>4, <2>5 DEF Wakes
  <2> QED BY <1>1, <1>2, <1>3, <2>5, <2>6, <2>7, <2>8
<1>7. CASE ReceiverNotReady(m, c)
  <2>1. /\ recvQ[c] = <<>> /\ messRecv' = [messRecv EXCEPT ![c] = Append(@, m)]
        /\ UNCHANGED <<recvQ, irecvs, received, pc, status>>
    BY <1>7 DEF ReceiverNotReady, ReceiverWaiting
  <2>2. m \notin Arrived
    BY DEF Places, Partition, Apart
  <2>3. Arrived' = Arrived \cup {m} /\ MessagesOnce'
    BY <1>1, <1>2, <2>1, <2>2, KeepMessage DEF Places
  <2>4. SendersBlocked' /\ ReceiversBlocked'
    BY <1>1, <2>1 DEF Places, SendersBlocked, ReceiversBlocked, Receiving, More, Action,
                      Once, ToSet
  <2>5. Keeps(m, c)
    BY <2>1, <2>3 DEF Keeps, Resumes
  <2> QED BY <1>1, <1>2, <1>3, <2>3, <2>4, <2>5
<1> QED BY <1>6, <1>7 DEF Arrive

LEMMA ArriveReached ==
    ASSUME Inv, Inv', Places, NEW m \in net, Arrive(m)
    PROVE  Reached' = Reached /\ Issued' = Issued
<1>1. PICK us : Resumes(us)
  BY ArriveMoves DEF Wakes, Keeps
<1>2. Reached' = Reached
  BY <1>1, ArriveMoves, ReachedResumes
<1> QED BY <1>2, ArriveMoves DEF Issued

LEMMA ArrivePlaces ==
    ASSUME Inv, Inv', Places, NEW m \in net, Arrive(m)
    PROVE  Places'
<1>1. Partition'
  <2>1. CASE \E u : Wakes(m, u, Chan(m))
    BY <2>1, ArriveMoves, ArriveReached DEF Wakes, Complete, Partition, Apart, Places
  <2>2. CASE Keeps(m, Chan(m))
    BY <2>2, ArriveMoves, ArriveReached DEF Keeps, Partition, Apart, Places
  <2> QED BY <2>1, <2>2, ArriveMoves
<1> QED BY <1>1, ArriveMoves, ArriveReached DEF Places

LEMMA InitPlaces == Init => Places
<1> SUFFICES ASSUME Init PROVE Places
  OBVIOUS
<1>1. Reached = {}
  <2>1. \A t \in Threads : \A i \in DOMAIN prog[t] :
           ~(i < pc[t] \/ (i = pc[t] /\ status[t] # "ready"))
    <3>1. \A t \in Threads : prog[t] \in Seq(SendOp \cup RecvOp)
      BY ProgramsAssumption DEF Init
    <3> QED BY <3>1 DEF Init
  <2> QED BY <2>1 DEF Reached
<1>2. IsFiniteSet(Reached) /\ Issued = {}
  BY <1>1, FS_EmptySet DEF Issued
<1>3. Waiting = {} /\ Arrived = {}
  BY DEF Init, Waiting, Arrived, ToSet
<1>4. Partition
  BY <1>2, <1>3 DEF Partition, Apart, Init
<1> QED BY <1>2, <1>4 DEF Places, Init, SendersBlocked, ReceiversBlocked, SendsOnce,
                          MessagesOnce, Once, ToSet

LEMMA StepPlaces == Inv /\ Inv' /\ Places /\ [Next]_vars => Places'
<1> SUFFICES ASSUME Inv, Inv', Places, [Next]_vars PROVE Places'
  OBVIOUS
<1>1. CASE UNCHANGED vars
  <2>1. UNCHANGED <<prog, pc, status, sendQ, recvQ, messRecv, net, received>>
    BY <1>1 DEF vars, queues
  <2>2. Reached' = Reached /\ Waiting' = Waiting /\ Arrived' = Arrived
    BY <2>1 DEF Reached, Waiting, Arrived
  <2>3. Issued' = Issued
    BY <2>1, <2>2 DEF Issued
  <2>4. SendersBlocked' /\ SendsOnce' /\ MessagesOnce'
    BY <2>1 DEF Places, SendersBlocked, SendsOnce, MessagesOnce, Once
  <2>5. ReceiversBlocked'
    BY <2>1 DEF Places, ReceiversBlocked, Receiving, Once, ToSet, More, Action
  <2>6. Partition'
    BY <2>1, <2>2, <2>3 DEF Places, Partition, Apart
  <2> QED BY <2>1, <2>2, <2>4, <2>5, <2>6 DEF Places
<1>2. ASSUME NEW t \in Threads, Recv(t) \/ Wait(t) PROVE Places'
  <2>1. /\ prog' = prog /\ status[t] = "ready" /\ More(t)
        /\ Action(t).op \in {"RECV", "WAIT"} /\ ReceiveOrWait(t, Action(t).ch)
    BY <1>2 DEF Recv, Wait, Running
  <2> QED BY <2>1, RecvPlaces
<1>3. ASSUME NEW t \in Threads, Send(t) \/ Irecv(t) PROVE Places'
  BY <1>3, SendPlaces, IrecvPlaces
<1>4. ASSUME NEW m \in net, Arrive(m) PROVE Places'
  BY <1>4, ArrivePlaces
<1> QED BY <1>1, <1>2, <1>3, <1>4 DEF Next

-----------------------------------------------------------------------------
(* Counting *)

LEMMA PlacesFinite ==
    ASSUME Places
    PROVE  /\ IsFiniteSet(Reached) /\ IsFiniteSet(Issued)
           /\ IsFiniteSet(Waiting) /\ IsFiniteSet(net)
           /\ IsFiniteSet(Arrived) /\ IsFiniteSet(received)
<1>1. IsFiniteSet(Reached)
  BY DEF Places
<1>2. IsFiniteSet(Issued)
  BY <1>1, FS_Subset DEF Issued
<1>3. /\ Waiting \in SUBSET Issued /\ net \in SUBSET Issued
      /\ Arrived \in SUBSET Issued /\ received \in SUBSET Issued
  BY DEF Places, Partition
<1> QED BY <1>1, <1>2, <1>3, FS_Subset

LEMMA DisjointSum ==
    ASSUME NEW A, NEW B, IsFiniteSet(A), IsFiniteSet(B), A \cap B = {}
    PROVE  /\ IsFiniteSet(A \cup B)
           /\ Cardinality(A \cup B) = Cardinality(A) + Cardinality(B)
<1>1. Cardinality(A) \in Nat /\ Cardinality(B) \in Nat
  BY FS_CardinalityType
<1>2. Cardinality(A \cap B) = 0
  BY FS_EmptySet
<1>3. /\ IsFiniteSet(A \cup B)
      /\ Cardinality(A \cup B) = Cardinality(A) + Cardinality(B) - Cardinality(A \cap B)
  BY FS_Union
<1> QED BY <1>1, <1>2, <1>3

\* Disjoint places add up to what was issued.
LEMMA PlacesConserve == Places => MessagesConserved
<1> SUFFICES ASSUME Places PROVE MessagesConserved
  OBVIOUS
<1>1. /\ IsFiniteSet(Waiting) /\ IsFiniteSet(net)
      /\ IsFiniteSet(Arrived) /\ IsFiniteSet(received)
  BY PlacesFinite
<1>2. /\ Waiting \cap net = {} /\ (Waiting \cup net) \cap Arrived = {}
      /\ (Waiting \cup net \cup Arrived) \cap received = {}
  BY DEF Places, Partition, Apart
<1>3. /\ IsFiniteSet(Waiting \cup net)
      /\ Cardinality(Waiting \cup net) = Cardinality(Waiting) + Cardinality(net)
  BY <1>1, <1>2, DisjointSum
<1>4. /\ IsFiniteSet(Waiting \cup net \cup Arrived)
      /\ Cardinality(Waiting \cup net \cup Arrived)
           = Cardinality(Waiting \cup net) + Cardinality(Arrived)
  BY <1>1, <1>2, <1>3, DisjointSum
<1>5. Cardinality(Waiting \cup net \cup Arrived \cup received)
        = Cardinality(Waiting \cup net \cup Arrived) + Cardinality(received)
  BY <1>1, <1>2, <1>4, DisjointSum
<1> QED BY <1>3, <1>4, <1>5 DEF MessagesConserved, Places, Partition

LEMMA OneMore ==
    ASSUME NEW S, NEW x, IsFiniteSet(S), x \notin S
    PROVE  /\ Cardinality(S \cup {x}) = Cardinality(S) + 1 /\ Cardinality(S) \in Nat
  BY FS_AddElement, FS_CardinalityType

LEMMA OneLess ==
    ASSUME NEW S, NEW x \in S, IsFiniteSet(S)
    PROVE  /\ Cardinality(S \ {x}) = Cardinality(S) - 1 /\ Cardinality(S) \in Nat
  BY FS_RemoveElement, FS_CardinalityType

Plus(n, P) == IF P THEN n + 1 ELSE n

\* The action handled is one more send or one more receive of its channel.
LEMMA CountsHandled ==
    ASSUME Inv, Places, prog' = prog, NEW t \in Threads, NEW us, Handles(t, us),
           NEW c \in Channels
    PROVE  /\ Cardinality(Sends(c)) \in Nat /\ Cardinality(Posted(c)) \in Nat
           /\ Cardinality(Sends(c)') = Plus(Cardinality(Sends(c)),
                    Action(t).op = "SEND" /\ Action(t).ch = c)
           /\ Cardinality(Posted(c)') = Plus(Cardinality(Posted(c)),
                    Action(t).op \in {"RECV", "IRECV"} /\ Action(t).ch = c)
<1> DEFINE x == <<t, pc[t]>>
<1>1. Reached' = Reached \cup {x} /\ x \notin Reached
  BY ReachedHandles, ReadyIsNew DEF Handles
<1>2. Issued' = IF Action(t).op = "SEND" THEN Issued \cup {x} ELSE Issued
  BY IssuedHandles
<1>3. x \notin Sends(c) /\ x \notin Posted(c)
  BY <1>1 DEF Sends, Issued, Posted
<1>4. IsFiniteSet(Sends(c)) /\ IsFiniteSet(Posted(c))
  <2>1. Sends(c) \in SUBSET Reached /\ Posted(c) \in SUBSET Reached
    BY DEF Sends, Issued, Posted
  <2> QED BY <2>1, PlacesFinite, FS_Subset
<1>5. Sends(c)' = IF Action(t).op = "SEND" /\ Action(t).ch = c
                    THEN Sends(c) \cup {x} ELSE Sends(c)
  <2>1. Sends(c)' = {m \in Issued' : prog[m[1]][m[2]].ch = c}
    BY DEF Sends, Chan
  <2> QED BY <1>2, <2>1 DEF Sends, Chan, Action
<1>6. Posted(c)' = IF Action(t).op \in {"RECV", "IRECV"} /\ Action(t).ch = c
                     THEN Posted(c) \cup {x} ELSE Posted(c)
  <2>1. Posted(c)' = {m \in Reached' : /\ prog[m[1]][m[2]].op \in {"RECV", "IRECV"}
                                       /\ prog[m[1]][m[2]].ch = c}
    BY DEF Posted
  <2> QED BY <1>1, <2>1 DEF Posted, Action
<1>7. Cardinality(Sends(c) \cup {x}) = Cardinality(Sends(c)) + 1
      /\ Cardinality(Sends(c)) \in Nat
  BY <1>3, <1>4, OneMore
<1>8. Cardinality(Posted(c) \cup {x}) = Cardinality(Posted(c)) + 1
      /\ Cardinality(Posted(c)) \in Nat
  BY <1>3, <1>4, OneMore
<1> HIDE DEF x
<1> QED BY <1>5, <1>6, <1>7, <1>8 DEF Plus

LEMMA DifferenceUp ==
    ASSUME NEW a \in Nat, NEW b \in Nat, NEW x \in Nat, NEW y \in Nat, a - b = x - y,
           NEW v, NEW w, (v = x + 1 /\ w = y) \/ (y = w + 1 /\ v = x /\ w \in Nat)
    PROVE  (a + 1) - b = v - w
  OBVIOUS

LEMMA DifferenceDown ==
    ASSUME NEW a \in Nat, NEW b \in Nat, NEW x \in Nat, NEW y \in Nat, a - b = x - y,
           NEW v, NEW w, (x = v + 1 /\ w = y /\ v \in Nat) \/ (w = y + 1 /\ v = x)
    PROVE  a - (b + 1) = v - w
  OBVIOUS

\* Crossing a send, or noting it, moves the difference by one.
LEMMA SendReachedCounts ==
    ASSUME ReachedTyped, NEW c \in Channels, NEW rdv \in BOOLEAN, SendReached(c, rdv),
           NEW d \in Channels
    PROVE  \/ /\ Len(sendNoRecv'[d]) = Plus(Len(sendNoRecv[d]), d = c)
              /\ Len(recvNoSend'[d]) = Len(recvNoSend[d])
           \/ /\ Len(recvNoSend[d]) = Plus(Len(recvNoSend'[d]), d = c)
              /\ Len(sendNoRecv'[d]) = Len(sendNoRecv[d])
              /\ Len(recvNoSend'[d]) \in Nat
<1>1. /\ DOMAIN sendNoRecv = Channels /\ DOMAIN recvNoSend = Channels
      /\ \A e \in Channels : /\ sendNoRecv[e] \in Seq(BOOLEAN)
                             /\ recvNoSend[e] \in Seq({"RECV", "IRECV"})
  BY DEF ReachedTyped
<1>2. Len(sendNoRecv[d]) \in Nat /\ Len(recvNoSend[d]) \in Nat
  BY <1>1
<1>3. CASE recvNoSend[c] # <<>>
  <2>1. /\ recvNoSend'[d] = IF d = c THEN Tail(recvNoSend[c]) ELSE recvNoSend[d]
        /\ sendNoRecv' = sendNoRecv
    BY <1>1, <1>3 DEF SendReached
  <2>2. Len(recvNoSend[c]) = Len(Tail(recvNoSend[c])) + 1 /\ Len(Tail(recvNoSend[c])) \in Nat
    BY <1>1, <1>3, TailPositions
  <2> QED BY <1>2, <2>1, <2>2 DEF Plus
<1>4. CASE recvNoSend[c] = <<>>
  <2>1. /\ sendNoRecv'[d] = IF d = c THEN Append(sendNoRecv[c], rdv) ELSE sendNoRecv[d]
        /\ recvNoSend' = recvNoSend
    BY <1>1, <1>4 DEF SendReached
  <2>2. Len(Append(sendNoRecv[c], rdv)) = Len(sendNoRecv[c]) + 1
    BY <1>1, AppendPositions
  <2> QED BY <1>2, <2>1, <2>2 DEF Plus
<1> QED BY <1>3, <1>4

LEMMA RecvReachedCounts ==
    ASSUME ReachedTyped, NEW c \in Channels, NEW op \in {"RECV", "IRECV"},
           RecvReached(c, op), NEW d \in Channels
    PROVE  \/ /\ Len(sendNoRecv[d]) = Plus(Len(sendNoRecv'[d]), d = c)
              /\ Len(recvNoSend'[d]) = Len(recvNoSend[d])
              /\ Len(sendNoRecv'[d]) \in Nat
           \/ /\ Len(recvNoSend'[d]) = Plus(Len(recvNoSend[d]), d = c)
              /\ Len(sendNoRecv'[d]) = Len(sendNoRecv[d])
<1>1. /\ DOMAIN sendNoRecv = Channels /\ DOMAIN recvNoSend = Channels
      /\ \A e \in Channels : /\ sendNoRecv[e] \in Seq(BOOLEAN)
                             /\ recvNoSend[e] \in Seq({"RECV", "IRECV"})
  BY DEF ReachedTyped
<1>2. Len(sendNoRecv[d]) \in Nat /\ Len(recvNoSend[d]) \in Nat
  BY <1>1
<1>3. CASE sendNoRecv[c] # <<>>
  <2>1. /\ sendNoRecv'[d] = IF d = c THEN Tail(sendNoRecv[c]) ELSE sendNoRecv[d]
        /\ recvNoSend' = recvNoSend
    BY <1>1, <1>3 DEF RecvReached
  <2>2. Len(sendNoRecv[c]) = Len(Tail(sendNoRecv[c])) + 1 /\ Len(Tail(sendNoRecv[c])) \in Nat
    BY <1>1, <1>3, TailPositions
  <2> QED BY <1>2, <2>1, <2>2 DEF Plus
<1>4. CASE sendNoRecv[c] = <<>>
  <2>1. /\ recvNoSend'[d] = IF d = c THEN Append(recvNoSend[c], op) ELSE recvNoSend[d]
        /\ sendNoRecv' = sendNoRecv
    BY <1>1, <1>4 DEF RecvReached
  <2>2. Len(Append(recvNoSend[c], op)) = Len(recvNoSend[c]) + 1
    BY <1>1, AppendPositions
  <2> QED BY <1>2, <2>1, <2>2 DEF Plus
<1> QED BY <1>3, <1>4

\* A thread that handles an action does so in one of four ways.
LEMMA HandlerCases ==
    ASSUME Inv, Inv', Places, NEW t \in Threads, Send(t) \/ Recv(t) \/ Irecv(t) \/ Wait(t)
    PROVE  /\ prog' = prog /\ Action(t).ch \in Channels
           /\ \E us : Handles(t, us) /\ \A u \in us : Action(u).op = "SEND"
           /\ \/ Action(t).op = "SEND" /\ Departs(t, <<t, pc[t]>>, Action(t).ch)
              \/ Action(t).op \in {"RECV", "WAIT"} /\ Takes(t, Action(t).ch)
              \/ Action(t).op \in {"RECV", "WAIT"} /\ Rests(t, Action(t).ch)
              \/ /\ Action(t).op = "IRECV"
                 /\ Starts(Action(t).ch)
                      \/ (Waiting' = Waiting /\ net' = net /\ sendQ' = sendQ)
           /\ Action(t).op \in {"SEND", "IRECV"}
                => received' = received /\ recvQ' = recvQ
<1>1. CASE Send(t)
  <2>1. prog' = prog /\ More(t) /\ received' = received /\ recvQ' = recvQ
    BY <1>1 DEF Send, Running
  <2>2. /\ Handles(t, {}) /\ Action(t).op = "SEND"
        /\ Departs(t, <<t, pc[t]>>, Action(t).ch)
    BY <1>1, SendMoves
  <2> QED BY <2>1, <2>2, ActionTyped
<1>2. CASE Recv(t) \/ Wait(t)
  <2>1. /\ prog' = prog /\ status[t] = "ready" /\ More(t)
        /\ Action(t).op \in {"RECV", "WAIT"} /\ ReceiveOrWait(t, Action(t).ch)
    BY <1>2 DEF Recv, Wait, Running
  <2> QED BY <2>1, ReceiveOrWaitMoves, ActionTyped
<1>3. CASE Irecv(t)
  <2>1. /\ prog' = prog /\ More(t) /\ Action(t).op = "IRECV"
        /\ received' = received /\ recvQ' = recvQ
    BY <1>3 DEF Irecv, Running
  <2> QED BY <1>3, <2>1, IrecvMoves, ActionTyped
<1> QED BY <1>1, <1>2, <1>3

\* The notes of both sides stay exact.
LEMMA StepExact ==
    Inv /\ Inv' /\ Places /\ ReachedQueuesExact /\ [Next]_vars => ReachedQueuesExact'
<1> SUFFICES ASSUME Inv, Inv', Places, ReachedQueuesExact, [Next]_vars,
                    NEW c \in Channels
             PROVE  Cardinality(Sends(c)') - Cardinality(Posted(c)')
                      = Len(sendNoRecv'[c]) - Len(recvNoSend'[c])
  BY DEF ReachedQueuesExact
<1>1. Cardinality(Sends(c)) - Cardinality(Posted(c))
        = Len(sendNoRecv[c]) - Len(recvNoSend[c])
  BY DEF ReachedQueuesExact
<1>2. Len(sendNoRecv[c]) \in Nat /\ Len(recvNoSend[c]) \in Nat
  BY DEF Inv, ReachedTyped
<1>3. CASE UNCHANGED vars
  <2>1. UNCHANGED <<prog, pc, status, sendNoRecv, recvNoSend>>
    BY <1>3 DEF vars, queues
  <2>2. Sends(c)' = Sends(c) /\ Posted(c)' = Posted(c)
    BY <2>1 DEF Sends, Posted, Issued, Reached, Chan
  <2> QED BY <1>1, <2>1, <2>2
<1>4. ASSUME NEW t \in Threads, Send(t) \/ Recv(t) \/ Irecv(t) \/ Wait(t)
      PROVE  Cardinality(Sends(c)') - Cardinality(Posted(c)')
               = Len(sendNoRecv'[c]) - Len(recvNoSend'[c])
  <2>1. /\ Cardinality(Sends(c)) \in Nat /\ Cardinality(Posted(c)) \in Nat
        /\ Cardinality(Sends(c)') = Plus(Cardinality(Sends(c)),
                 Action(t).op = "SEND" /\ Action(t).ch = c)
        /\ Cardinality(Posted(c)') = Plus(Cardinality(Posted(c)),
                 Action(t).op \in {"RECV", "IRECV"} /\ Action(t).ch = c)
    BY <1>4, HandlerCases, CountsHandled
  <2>2. Action(t).ch \in Channels /\ More(t) /\ Action(t) \in SendOp \cup RecvOp
    BY <1>4, HandlerCases, ActionTyped DEF Send, Recv, Irecv, Wait, Running
  <2>3. CASE Send(t)
    <3>1. Action(t).op = "SEND" /\ SendReached(Action(t).ch, Action(t).rdv)
      BY <2>3 DEF Send, Running
    <3>2. Action(t).rdv \in BOOLEAN
      BY <2>2, <3>1 DEF SendOp, RecvOp
    <3>3. \/ /\ Len(sendNoRecv'[c]) = Plus(Len(sendNoRecv[c]), c = Action(t).ch)
             /\ Len(recvNoSend'[c]) = Len(recvNoSend[c])
          \/ /\ Len(recvNoSend[c]) = Plus(Len(recvNoSend'[c]), c = Action(t).ch)
             /\ Len(sendNoRecv'[c]) = Len(sendNoRecv[c])
             /\ Len(recvNoSend'[c]) \in Nat
      BY <2>2, <3>1, <3>2, SendReachedCounts DEF Inv
    <3>4. CASE c = Action(t).ch
      <4>1. /\ Cardinality(Sends(c)') = Cardinality(Sends(c)) + 1
            /\ Cardinality(Posted(c)') = Cardinality(Posted(c))
        BY <2>1, <3>1, <3>4 DEF Plus
      <4>2. \/ /\ Len(sendNoRecv'[c]) = Len(sendNoRecv[c]) + 1
               /\ Len(recvNoSend'[c]) = Len(recvNoSend[c])
            \/ /\ Len(recvNoSend[c]) = Len(recvNoSend'[c]) + 1
               /\ Len(sendNoRecv'[c]) = Len(sendNoRecv[c])
               /\ Len(recvNoSend'[c]) \in Nat
        BY <3>3, <3>4 DEF Plus
      <4>3. Cardinality(Sends(c)) \in Nat /\ Cardinality(Posted(c)) \in Nat
        BY <2>1
      <4> DEFINE a == Cardinality(Sends(c))
                 b == Cardinality(Posted(c))
                 x == Len(sendNoRecv[c])
                 y == Len(recvNoSend[c])
                 v == Len(sendNoRecv'[c])
                 w == Len(recvNoSend'[c])
      <4>4. a \in Nat /\ b \in Nat /\ x \in Nat /\ y \in Nat /\ a - b = x - y
        BY <1>1, <1>2, <4>3
      <4>5. (v = x + 1 /\ w = y) \/ (y = w + 1 /\ v = x /\ w \in Nat)
        BY <4>2
      <4>6. (a + 1) - b = v - w
        <5> HIDE DEF a, b, x, y, v, w
        <5> QED BY <4>4, <4>5, DifferenceUp
      <4> QED BY <4>1, <4>6
    <3>5. CASE c # Action(t).ch
      <4>1. /\ Cardinality(Sends(c)') = Cardinality(Sends(c))
            /\ Cardinality(Posted(c)') = Cardinality(Posted(c))
        BY <2>1, <3>1, <3>5 DEF Plus
      <4>2. /\ Len(sendNoRecv'[c]) = Len(sendNoRecv[c])
            /\ Len(recvNoSend'[c]) = Len(recvNoSend[c])
        BY <3>3, <3>5 DEF Plus
      <4> QED BY <1>1, <4>1, <4>2
    <3> QED BY <3>4, <3>5
  <2>4. CASE Recv(t) \/ Irecv(t)
    <3>1. PICK op \in {"RECV", "IRECV"} :
             Action(t).op = op /\ RecvReached(Action(t).ch, op)
      BY <2>4 DEF Recv, Irecv, Running
    <3>2. \/ /\ Len(sendNoRecv[c]) = Plus(Len(sendNoRecv'[c]), c = Action(t).ch)
             /\ Len(recvNoSend'[c]) = Len(recvNoSend[c])
             /\ Len(sendNoRecv'[c]) \in Nat
          \/ /\ Len(recvNoSend'[c]) = Plus(Len(recvNoSend[c]), c = Action(t).ch)
             /\ Len(sendNoRecv'[c]) = Len(sendNoRecv[c])
      BY <2>2, <3>1, RecvReachedCounts DEF Inv
    <3>4. CASE c = Action(t).ch
      <4>1. /\ Cardinality(Sends(c)') = Cardinality(Sends(c))
            /\ Cardinality(Posted(c)') = Cardinality(Posted(c)) + 1
        BY <2>1, <3>1, <3>4 DEF Plus
      <4>2. \/ /\ Len(sendNoRecv[c]) = Len(sendNoRecv'[c]) + 1
               /\ Len(recvNoSend'[c]) = Len(recvNoSend[c])
               /\ Len(sendNoRecv'[c]) \in Nat
            \/ /\ Len(recvNoSend'[c]) = Len(recvNoSend[c]) + 1
               /\ Len(sendNoRecv'[c]) = Len(sendNoRecv[c])
        BY <3>2, <3>4 DEF Plus
      <4>3. Cardinality(Sends(c)) \in Nat /\ Cardinality(Posted(c)) \in Nat
        BY <2>1
      <4> DEFINE a == Cardinality(Sends(c))
                 b == Cardinality(Posted(c))
                 x == Len(sendNoRecv[c])
                 y == Len(recvNoSend[c])
                 v == Len(sendNoRecv'[c])
                 w == Len(recvNoSend'[c])
      <4>4. a \in Nat /\ b \in Nat /\ x \in Nat /\ y \in Nat /\ a - b = x - y
        BY <1>1, <1>2, <4>3
      <4>5. (x = v + 1 /\ w = y /\ v \in Nat) \/ (w = y + 1 /\ v = x)
        BY <4>2
      <4>6. a - (b + 1) = v - w
        <5> HIDE DEF a, b, x, y, v, w
        <5> QED BY <4>4, <4>5, DifferenceDown
      <4> QED BY <4>1, <4>6
    <3>5. CASE c # Action(t).ch
      <4>1. /\ Cardinality(Sends(c)') = Cardinality(Sends(c))
            /\ Cardinality(Posted(c)') = Cardinality(Posted(c))
        BY <2>1, <3>1, <3>5 DEF Plus
      <4>2. /\ Len(sendNoRecv'[c]) = Len(sendNoRecv[c])
            /\ Len(recvNoSend'[c]) = Len(recvNoSend[c])
        BY <3>2, <3>5 DEF Plus
      <4> QED BY <1>1, <4>1, <4>2
    <3> QED BY <3>4, <3>5
  <2>5. CASE Wait(t)
    <3>1. Action(t).op = "WAIT" /\ UNCHANGED <<sendNoRecv, recvNoSend>>
      BY <2>5 DEF Wait, Running
    <3> QED BY <1>1, <1>2, <2>1, <3>1 DEF Plus
  <2> QED BY <1>4, <2>3, <2>4, <2>5
<1>5. ASSUME NEW m \in net, Arrive(m)
      PROVE  Cardinality(Sends(c)') - Cardinality(Posted(c)')
               = Len(sendNoRecv'[c]) - Len(recvNoSend'[c])
  <2>1. Reached' = Reached /\ Issued' = Issued
    BY <1>5, ArriveReached
  <2>2. prog' = prog /\ UNCHANGED <<sendNoRecv, recvNoSend>>
    BY <1>5 DEF Arrive
  <2>3. Sends(c)' = Sends(c) /\ Posted(c)' = Posted(c)
    BY <2>1, <2>2 DEF Sends, Posted, Chan
  <2> QED BY <1>1, <2>2, <2>3
<1> QED BY <1>3, <1>4, <1>5 DEF Next

-----------------------------------------------------------------------------
(* No rendezvous starves *)

LEMMA NetGains ==
    ASSUME prog' = prog, IsFiniteSet(net), NEW h, h \notin net, net' = net \cup {h},
           NEW c
    PROVE  /\ Cardinality(InNet(c)) \in Nat
           /\ Cardinality(InNet(c)') = Plus(Cardinality(InNet(c)), Chan(h) = c)
<1>1. InNet(c)' = IF Chan(h) = c THEN InNet(c) \cup {h} ELSE InNet(c)
  BY DEF InNet, Chan
<1>2. IsFiniteSet(InNet(c)) /\ h \notin InNet(c)
  BY FS_Subset DEF InNet
<1>3. Cardinality(InNet(c) \cup {h}) = Cardinality(InNet(c)) + 1
      /\ Cardinality(InNet(c)) \in Nat
  BY <1>2, OneMore
<1> QED BY <1>1, <1>3 DEF Plus

LEMMA NetLoses ==
    ASSUME prog' = prog, IsFiniteSet(net), NEW m \in net, net' = net \ {m}, NEW c
    PROVE  /\ Cardinality(InNet(c)') \in Nat
           /\ Cardinality(InNet(c)) = Plus(Cardinality(InNet(c)'), Chan(m) = c)
<1>1. InNet(c)' = IF Chan(m) = c THEN InNet(c) \ {m} ELSE InNet(c)
  BY DEF InNet, Chan
<1>2. IsFiniteSet(InNet(c)) /\ IsFiniteSet(InNet(c) \ {m})
  BY FS_Subset, FS_RemoveElement DEF InNet
<1>3. CASE Chan(m) = c
  <2>1. m \in InNet(c)
    BY <1>3 DEF InNet
  <2>2. /\ Cardinality(InNet(c) \ {m}) = Cardinality(InNet(c)) - 1
        /\ Cardinality(InNet(c)) \in Nat /\ Cardinality(InNet(c) \ {m}) \in Nat
    BY <1>2, <2>1, OneLess, FS_CardinalityType
  <2> QED BY <1>1, <1>3, <2>2 DEF Plus
<1>4. CASE Chan(m) # c
  BY <1>1, <1>2, <1>4, FS_CardinalityType DEF Plus
<1> QED BY <1>3, <1>4

Served(c) == sendQ[c] # <<>> => Cardinality(InNet(c)) >= Len(recvQ[c])

\* Starting the partner serves the thread that may join the receivers.
LEMMA StartsServes ==
    ASSUME Inv, Places, prog' = prog, NEW c \in Channels, NEW t \in Threads,
           recvQ' \in {recvQ, [recvQ EXCEPT ![c] = Append(@, t)]},
           Starts(c), NEW d \in Channels, Served(d)
    PROVE  Served(d)'
<1>1. /\ recvQ[d] \in Seq(Threads) /\ recvQ[c] \in Seq(Threads)
      /\ DOMAIN recvQ = Channels /\ IsFiniteSet(net)
  BY PlacesFinite DEF Inv, ReceivesTyped
<1>2. CASE net' = net /\ sendQ[c] = <<>> /\ sendQ' = sendQ
  <2>1. CASE d = c
    BY <1>2, <2>1 DEF Served
  <2>2. CASE d # c
    <3>1. recvQ'[d] = recvQ[d] /\ InNet(d)' = InNet(d)
      BY <1>1, <1>2, <2>2 DEF InNet, Chan
    <3> QED BY <1>2, <3>1 DEF Served
  <2> QED BY <2>1, <2>2
<1>3. ASSUME sendQ[c] # <<>>, \A e \in Channels \ {c} : sendQ'[e] = sendQ[e],
             NEW h \in Waiting, Chan(h) = c, net' = net \cup {h}
      PROVE  Served(d)'
  <2>1. h \notin net
    BY DEF Places, Partition, Apart
  <2>2. /\ Cardinality(InNet(d)) \in Nat
        /\ Cardinality(InNet(d)') = Plus(Cardinality(InNet(d)), c = d)
    BY <1>1, <1>3, <2>1, NetGains
  <2>3. CASE d = c
    <3>1. Cardinality(InNet(d)) >= Len(recvQ[d])
      BY <1>3, <2>3 DEF Served
    <3>2. Cardinality(InNet(d)') = Cardinality(InNet(d)) + 1
      BY <2>2, <2>3 DEF Plus
    <3>3. Len(recvQ'[d]) \in {Len(recvQ[d]), Len(recvQ[d]) + 1} /\ Len(recvQ[d]) \in Nat
      BY <1>1, <2>3, AppendPositions
    <3> DEFINE n == Cardinality(InNet(d))
               k == Len(recvQ[d])
    <3>4. n + 1 >= Len(recvQ'[d])
      <4>1. n \in Nat /\ k \in Nat /\ n >= k /\ Len(recvQ'[d]) \in {k, k + 1}
        BY <2>2, <3>1, <3>3
      <4> HIDE DEF n, k
      <4> QED BY <4>1
    <3> QED BY <3>2, <3>4 DEF Served
  <2>4. CASE d # c
    <3>1. recvQ'[d] = recvQ[d] /\ sendQ'[d] = sendQ[d]
      BY <1>1, <1>3, <2>4
    <3> QED BY <2>2, <2>4, <3>1 DEF Served, Plus
  <2> QED BY <2>3, <2>4
<1> QED BY <1>2, <1>3 DEF Starts

LEMMA StepServed ==
    Inv /\ Inv' /\ Places /\ BlockedReceiversServed /\ [Next]_vars
      => BlockedReceiversServed'
<1> SUFFICES ASSUME Inv, Inv', Places, BlockedReceiversServed, [Next]_vars,
                    NEW d \in Channels
             PROVE  Served(d)'
  BY DEF BlockedReceiversServed, Served
<1>1. Served(d) /\ IsFiniteSet(net)
  BY PlacesFinite DEF BlockedReceiversServed, Served
<1>2. CASE UNCHANGED vars
  <2>1. UNCHANGED <<prog, sendQ, recvQ, net>>
    BY <1>2 DEF vars, queues
  <2> QED BY <1>1, <2>1 DEF Served, InNet, Chan
<1>3. ASSUME NEW t \in Threads, Send(t) \/ Recv(t) \/ Irecv(t) \/ Wait(t)
      PROVE  Served(d)'
  <2> DEFINE c == Action(t).ch
  <2>1. prog' = prog /\ c \in Channels
    BY <1>3, HandlerCases
  <2>2. CASE Departs(t, <<t, pc[t]>>, c) /\ recvQ' = recvQ /\ Send(t)
    <3>1. CASE /\ net' = net /\ recvQ[c] = <<>>
               /\ \A e \in Channels \ {c} : sendQ'[e] = sendQ[e]
      <4>1. InNet(d)' = InNet(d)
        BY <2>1, <3>1 DEF InNet, Chan
      <4>2. CASE d = c
        <5>1. Len(recvQ'[d]) = 0
          BY <2>2, <3>1, <4>2
        <5>2. Cardinality(InNet(d)) \in Nat
          BY <1>1, FS_Subset, FS_CardinalityType DEF InNet
        <5> QED BY <4>1, <5>1, <5>2 DEF Served
      <4>3. CASE d # c
        BY <1>1, <2>2, <3>1, <4>1, <4>3 DEF Served
      <4> QED BY <4>2, <4>3
    <3>2. CASE net' = net \cup {<<t, pc[t]>>} /\ sendQ' = sendQ
      <4>1. <<t, pc[t]>> \notin net
        BY <2>2, SendMoves DEF Places, Partition
      <4>2. /\ Cardinality(InNet(d)) \in Nat
            /\ \/ Cardinality(InNet(d)') = Cardinality(InNet(d)) + 1
               \/ Cardinality(InNet(d)') = Cardinality(InNet(d))
        BY <1>1, <2>1, <3>2, <4>1, NetGains DEF Plus
      <4>3. Len(recvQ[d]) \in Nat
        BY DEF Inv, ReceivesTyped
      <4> DEFINE n == Cardinality(InNet(d))
                 k == Len(recvQ[d])
                 o == Cardinality(InNet(d)')
      <4>4. n >= k => o >= k
        <5>1. n \in Nat /\ k \in Nat /\ (o = n + 1 \/ o = n)
          BY <4>2, <4>3
        <5> HIDE DEF n, k, o
        <5> QED BY <5>1
      <4> QED BY <1>1, <2>2, <3>2, <4>4 DEF Served
    <3> QED BY <2>2, <3>1, <3>2 DEF Departs
  <2>3. CASE Takes(t, c)
    BY <1>1, <2>1, <2>3 DEF Takes, Served, InNet, Chan
  <2>4. CASE Rests(t, c)
    BY <1>1, <2>1, <2>4, StartsServes DEF Rests
  <2>5. CASE Starts(c) /\ recvQ' = recvQ
    BY <1>1, <2>1, <2>5, StartsServes
  <2>6. CASE net' = net /\ sendQ' = sendQ /\ recvQ' = recvQ
    BY <1>1, <2>1, <2>6 DEF Served, InNet, Chan
  <2>7. Action(t).op = "SEND" <=> Send(t)
    BY <1>3 DEF Send, Recv, Irecv, Wait, Running
  <2> QED BY <1>3, <2>2, <2>3, <2>4, <2>5, <2>6, <2>7, HandlerCases
<1>4. ASSUME NEW m \in net, Arrive(m) PROVE Served(d)'
  <2> DEFINE c == Chan(m)
  <2>1. /\ prog' = prog /\ net' = net \ {m} /\ c \in Channels /\ sendQ' = sendQ
        /\ (\E u : Wakes(m, u, c)) \/ Keeps(m, c)
    BY <1>4, ArriveMoves DEF Arrive
  <2>2. /\ Cardinality(InNet(d)') \in Nat
        /\ Cardinality(InNet(d)) = Plus(Cardinality(InNet(d)'), c = d)
    BY <1>1, <2>1, NetLoses
  <2>3. recvQ[d] \in Seq(Threads) /\ DOMAIN recvQ = Channels
    BY DEF Inv, ReceivesTyped
  <2>4. CASE d # c
    <3>1. recvQ'[d] = recvQ[d]
      BY <2>1, <2>3, <2>4 DEF Wakes, Keeps
    <3> QED BY <1>1, <2>1, <2>2, <2>4, <3>1 DEF Served, Plus
  <2>5. CASE d = c /\ Keeps(m, c)
    <3>1. Len(recvQ'[d]) = 0
      BY <2>5 DEF Keeps
    <3> QED BY <2>2, <3>1 DEF Served
  <2>6. ASSUME d = c, NEW u, Wakes(m, u, c) PROVE Served(d)'
    <3>1. recvQ[d] # <<>> /\ recvQ'[d] = Tail(recvQ[d])
      BY <2>3, <2>6 DEF Wakes
    <3>2. Len(recvQ'[d]) = Len(recvQ[d]) - 1 /\ Len(recvQ[d]) \in Nat
      BY <2>3, <3>1, TailPositions
    <3>3. Cardinality(InNet(d)) = Cardinality(InNet(d)') + 1
      BY <2>2, <2>6 DEF Plus
    <3> DEFINE n == Cardinality(InNet(d))
               k == Len(recvQ[d])
               o == Cardinality(InNet(d)')
    <3>4. n >= k => o >= k - 1
      <4>1. o \in Nat /\ k \in Nat /\ n = o + 1
        BY <2>2, <3>2, <3>3
      <4> HIDE DEF n, k, o
      <4> QED BY <4>1
    <3> QED BY <1>1, <2>1, <3>2, <3>4 DEF Served
  <2> QED BY <2>1, <2>4, <2>5, <2>6
<1> QED BY <1>2, <1>3, <1>4 DEF Next

-----------------------------------------------------------------------------
(* Receives and their notifications *)

\* Receives and waits of channel c that are over.
Finished(c) == {a \in Reached : /\ prog[a[1]][a[2]].op \in {"RECV", "WAIT"}
                                /\ prog[a[1]][a[2]].ch = c
                                /\ a[2] < pc[a[1]]}

\* Each of them completed with one message.
ReceivesPaired ==
    \A c \in Channels : Cardinality(Completed(c)) = Cardinality(Finished(c))

LEMMA CountsTyped ==
    ASSUME Places, NEW c
    PROVE  /\ IsFiniteSet(Finished(c)) /\ Cardinality(Finished(c)) \in Nat
           /\ IsFiniteSet(Completed(c)) /\ Cardinality(Completed(c)) \in Nat
           /\ IsFiniteSet(Posted(c)) /\ Cardinality(Posted(c)) \in Nat
<1>1. /\ Finished(c) \in SUBSET Reached /\ Completed(c) \in SUBSET received
      /\ Posted(c) \in SUBSET Reached
  BY DEF Finished, Completed, Posted
<1> QED BY <1>1, PlacesFinite, FS_Subset, FS_CardinalityType

LEMMA FinishedIs ==
    ASSUME Inv, NEW c
    PROVE  \A a : a \in Finished(c) <=>
              \E t \in Threads : \E i \in DOMAIN prog[t] :
                 /\ a = <<t, i>> /\ i < pc[t]
                 /\ prog[t][i].op \in {"RECV", "WAIT"} /\ prog[t][i].ch = c
  BY ReachedIs DEF Finished

LEMMA FinishedHandles ==
    ASSUME Inv, Inv', prog' = prog, NEW t \in Threads, NEW us, Handles(t, us),
           \A u \in us : Action(u).op = "SEND", NEW c
    PROVE  /\ <<t, pc[t]>> \notin Finished(c)
           /\ Finished(c)' =
                IF /\ pc'[t] = pc[t] + 1
                   /\ Action(t).op \in {"RECV", "WAIT"} /\ Action(t).ch = c
                  THEN Finished(c) \cup {<<t, pc[t]>>} ELSE Finished(c)
<1>1. \A u \in Threads : /\ DOMAIN prog[u] = 1 .. Len(prog[u]) /\ Len(prog[u]) \in Nat
                         /\ pc[u] \in Nat /\ pc'[u] \in Nat
  BY DEF Inv, ThreadsTyped
<1>2. pc[t] \in DOMAIN prog[t]
  BY AtAction DEF Handles
<1>3. <<t, pc[t]>> \notin Finished(c)
  BY <1>1, FinishedIs
<1>4. ASSUME NEW a
      PROVE  a \in Finished(c)' <=>
               \E u \in Threads : \E i \in DOMAIN prog[u] :
                  /\ a = <<u, i>> /\ i < pc'[u]
                  /\ prog[u][i].op \in {"RECV", "WAIT"} /\ prog[u][i].ch = c
  <2>1. a \in Reached' <=>
          \E u \in Threads : \E i \in DOMAIN prog[u] :
            /\ a = <<u, i>>
            /\ i < pc'[u] \/ (i = pc'[u] /\ status'[u] # "ready")
    BY DEF Reached
  <2> QED BY <2>1 DEF Finished
<1>5. ASSUME NEW u \in Threads, NEW i \in DOMAIN prog[u], u # t,
             prog[u][i].op \in {"RECV", "WAIT"}
      PROVE  i < pc'[u] <=> i < pc[u]
  <2>1. CASE u \in us
    <3>1. pc'[u] = pc[u] + 1 /\ prog[u][pc[u]].op = "SEND"
      BY <1>5, <2>1 DEF Handles, Action
    <3>2. i # pc[u]
      BY <1>5, <3>1
    <3> QED BY <1>1, <3>1, <3>2
  <2>2. CASE u \notin us
    BY <1>5, <2>2 DEF Handles
  <2> QED BY <2>1, <2>2
<1>6. CASE pc'[t] = pc[t] + 1
  <2>1. \A i \in DOMAIN prog[t] : i < pc'[t] <=> i < pc[t] \/ i = pc[t]
    BY <1>1, <1>6
  <2>2. ASSUME NEW a
        PROVE  a \in Finished(c)' <=>
                 \/ a \in Finished(c)
                 \/ /\ a = <<t, pc[t]>>
                    /\ Action(t).op \in {"RECV", "WAIT"} /\ Action(t).ch = c
    BY <1>2, <1>4, <1>5, <2>1, FinishedIs DEF Action
  <2> QED BY <1>3, <1>6, <2>2
<1>7. CASE pc'[t] # pc[t] + 1
  <2>1. pc'[t] = pc[t]
    BY <1>7 DEF Handles
  <2>2. ASSUME NEW a PROVE a \in Finished(c)' <=> a \in Finished(c)
    BY <1>4, <1>5, <2>1, FinishedIs
  <2> QED BY <1>3, <1>7, <2>2
<1> QED BY <1>6, <1>7

LEMMA FinishedWakes ==
    ASSUME Inv, Inv', prog' = prog, NEW u \in Threads, Resumes({u}), NEW d,
           Receiving(u, d), NEW c
    PROVE  /\ <<u, pc[u]>> \notin Finished(c)
           /\ Finished(c)' = IF c = d THEN Finished(c) \cup {<<u, pc[u]>>}
                                      ELSE Finished(c)
<1>1. \A v \in Threads : /\ DOMAIN prog[v] = 1 .. Len(prog[v]) /\ Len(prog[v]) \in Nat
                         /\ pc[v] \in Nat /\ pc'[v] \in Nat
  BY DEF Inv, ThreadsTyped
<1>2. pc[u] \in DOMAIN prog[u] /\ pc'[u] = pc[u] + 1
  BY AtAction DEF Receiving, Resumes
<1>3. <<u, pc[u]>> \notin Finished(c)
  BY <1>1, FinishedIs
<1>4. ASSUME NEW a
      PROVE  a \in Finished(c)' <=>
               \E v \in Threads : \E i \in DOMAIN prog[v] :
                  /\ a = <<v, i>> /\ i < pc'[v]
                  /\ prog[v][i].op \in {"RECV", "WAIT"} /\ prog[v][i].ch = c
  <2>1. a \in Reached' <=>
          \E v \in Threads : \E i \in DOMAIN prog[v] :
            /\ a = <<v, i>>
            /\ i < pc'[v] \/ (i = pc'[v] /\ status'[v] # "ready")
    BY DEF Reached
  <2> QED BY <2>1 DEF Finished
<1>5. \A i \in DOMAIN prog[u] : i < pc'[u] <=> i < pc[u] \/ i = pc[u]
  BY <1>1, <1>2
<1>6. \A v \in Threads \ {u} : pc'[v] = pc[v]
  BY DEF Resumes
<1>7. prog[u][pc[u]].op \in {"RECV", "WAIT"} /\ prog[u][pc[u]].ch = d
  BY DEF Receiving, Action
<1>8. ASSUME NEW a
      PROVE  a \in Finished(c)' <=> a \in Finished(c) \/ (a = <<u, pc[u]>> /\ c = d)
  BY <1>2, <1>4, <1>5, <1>6, <1>7, FinishedIs
<1> QED BY <1>3, <1>8

LEMMA FinishedRests ==
    ASSUME prog' = prog, pc' = pc, Reached' = Reached, NEW c
    PROVE  Finished(c)' = Finished(c)
  BY DEF Finished

\* A message that completes a receive is one more of its channel.
LEMMA CompletedGains ==
    ASSUME Places, prog' = prog, NEW h, h \notin received,
           received' = received \cup {h}, NEW c
    PROVE  /\ Cardinality(Completed(c)) \in Nat
           /\ Cardinality(Completed(c)') = Plus(Cardinality(Completed(c)), Chan(h) = c)
<1>1. Completed(c)' = IF Chan(h) = c THEN Completed(c) \cup {h} ELSE Completed(c)
  BY DEF Completed, Chan
<1>2. IsFiniteSet(Completed(c)) /\ h \notin Completed(c)
  BY CountsTyped DEF Completed
<1>3. Cardinality(Completed(c) \cup {h}) = Cardinality(Completed(c)) + 1
      /\ Cardinality(Completed(c)) \in Nat
  BY <1>2, OneMore
<1> QED BY <1>1, <1>3 DEF Plus

LEMMA StepPaired ==
    Inv /\ Inv' /\ Places /\ ReceivesPaired /\ [Next]_vars => ReceivesPaired'
<1> SUFFICES ASSUME Inv, Inv', Places, ReceivesPaired, [Next]_vars, NEW c \in Channels
             PROVE  Cardinality(Completed(c)') = Cardinality(Finished(c)')
  BY DEF ReceivesPaired
<1>1. /\ Cardinality(Completed(c)) = Cardinality(Finished(c))
      /\ Cardinality(Finished(c)) \in Nat /\ IsFiniteSet(Finished(c))
  BY CountsTyped DEF ReceivesPaired
<1>2. CASE UNCHANGED vars
  <2>1. UNCHANGED <<prog, pc, status, received>>
    BY <1>2 DEF vars, queues
  <2>2. Completed(c)' = Completed(c) /\ Finished(c)' = Finished(c)
    BY <2>1 DEF Completed, Chan, Finished, Reached
  <2> QED BY <1>1, <2>2
<1>3. ASSUME NEW t \in Threads, Send(t) \/ Recv(t) \/ Irecv(t) \/ Wait(t)
      PROVE  Cardinality(Completed(c)') = Cardinality(Finished(c)')
  <2> DEFINE d == Action(t).ch
             x == <<t, pc[t]>>
  <2>1. prog' = prog
    BY <1>3, HandlerCases
  <2>2. PICK us : Handles(t, us) /\ \A u \in us : Action(u).op = "SEND"
    BY <1>3, HandlerCases
  <2>3. /\ x \notin Finished(c)
        /\ Finished(c)' = IF /\ pc'[t] = pc[t] + 1
                             /\ Action(t).op \in {"RECV", "WAIT"} /\ d = c
                            THEN Finished(c) \cup {x} ELSE Finished(c)
    BY <2>1, <2>2, FinishedHandles
  <2>4. Cardinality(Finished(c) \cup {x}) = Cardinality(Finished(c)) + 1
    BY <1>1, <2>3, OneMore
  <2>5. CASE Takes(t, d) /\ Action(t).op \in {"RECV", "WAIT"}
    <3>1. PICK h \in Arrived : Chan(h) = d /\ received' = received \cup {h}
      BY <2>5 DEF Takes, Complete
    <3>2. h \notin received
      BY DEF Places, Partition, Apart
    <3>3. Cardinality(Completed(c)') = Plus(Cardinality(Completed(c)), d = c)
      BY <2>1, <3>1, <3>2, CompletedGains
    <3>4. pc'[t] = pc[t] + 1
      BY <2>5 DEF Takes
    <3> HIDE DEF x
    <3> QED BY <1>1, <2>3, <2>4, <2>5, <3>3, <3>4 DEF Plus
  <2>6. CASE received' = received /\ ~(/\ pc'[t] = pc[t] + 1
                                       /\ Action(t).op \in {"RECV", "WAIT"} /\ d = c)
    <3>1. Completed(c)' = Completed(c)
      BY <2>1, <2>6 DEF Completed, Chan
    <3> QED BY <1>1, <2>3, <2>6, <3>1
  <2>7. CASE Rests(t, d)
    <3>1. pc'[t] # pc[t] + 1
      <4>1. pc[t] \in Nat
        BY DEF Inv, ThreadsTyped
      <4> QED BY <2>7, <4>1 DEF Rests
    <3> QED BY <2>6, <2>7, <3>1 DEF Rests
  <2> QED BY <1>3, <2>5, <2>6, <2>7, HandlerCases
<1>4. ASSUME NEW m \in net, Arrive(m)
      PROVE  Cardinality(Completed(c)') = Cardinality(Finished(c)')
  <2>1. prog' = prog /\ ((\E u : Wakes(m, u, Chan(m))) \/ Keeps(m, Chan(m)))
    BY <1>4, ArriveMoves
  <2>2. CASE Keeps(m, Chan(m))
    <3>1. Completed(c)' = Completed(c)
      BY <2>1, <2>2 DEF Keeps, Completed, Chan
    <3>2. Finished(c)' = Finished(c)
      BY <1>4, <2>1, <2>2, ArriveReached, FinishedRests DEF Keeps
    <3> QED BY <1>1, <3>1, <3>2
  <2>3. ASSUME NEW u, Wakes(m, u, Chan(m))
        PROVE  Cardinality(Completed(c)') = Cardinality(Finished(c)')
    <3> DEFINE x == <<u, pc[u]>>
    <3>1. /\ u \in Threads /\ Receiving(u, Chan(m)) /\ Resumes({u})
          /\ received' = received \cup {m}
      BY <2>3 DEF Wakes, Complete
    <3>2. /\ x \notin Finished(c)
          /\ Finished(c)' = IF c = Chan(m) THEN Finished(c) \cup {x} ELSE Finished(c)
      BY <2>1, <3>1, FinishedWakes
    <3>3. m \notin received
      BY DEF Places, Partition, Apart
    <3>4. Cardinality(Completed(c)') = Plus(Cardinality(Completed(c)), Chan(m) = c)
      BY <2>1, <3>1, <3>3, CompletedGains
    <3>5. Cardinality(Finished(c) \cup {x}) = Cardinality(Finished(c)) + 1
      BY <1>1, <3>2, OneMore
    <3> HIDE DEF x
    <3> QED BY <1>1, <3>2, <3>4, <3>5 DEF Plus
  <2> QED BY <2>1, <2>2, <2>3
<1> QED BY <1>2, <1>3, <1>4 DEF Next

\* With waits paired to Irecvs, no more receives are over than were posted:
\* a receive counts itself, a wait the Irecv before it.
LEMMA FinishedPosted ==
    ASSUME WaitsPaired, Inv, Places, NEW c \in Channels
    PROVE  Cardinality(Finished(c)) <= Cardinality(Posted(c))
<1> DEFINE Pairs(t) == Injection(Positions(prog[t], "WAIT", c),
                                 Positions(prog[t], "IRECV", c))
           f == [t \in Threads |->
                    CHOOSE g \in Pairs(t) : \A i \in DOMAIN g : g[i] < i]
           k == [a \in Finished(c) |->
                    IF prog[a[1]][a[2]].op = "RECV" THEN a ELSE <<a[1], f[a[1]][a[2]]>>]
<1>1. ASSUME NEW t \in Threads
      PROVE  /\ \A i \in Positions(prog[t], "WAIT", c) :
                  f[t][i] \in Positions(prog[t], "IRECV", c) /\ f[t][i] < i
             /\ \A i, j \in Positions(prog[t], "WAIT", c) : f[t][i] = f[t][j] => i = j
  <2>1. \E g \in Pairs(t) : \A i \in DOMAIN g : g[i] < i
    BY DEF WaitsPaired, Places
  <2>2. f[t] \in Pairs(t) /\ \A i \in DOMAIN f[t] : f[t][i] < i
    BY <2>1
  <2> HIDE DEF f
  <2> QED BY <2>2 DEF Injection, IsInjective
<1>2. ASSUME NEW a \in Finished(c)
      PROVE  /\ a[1] \in Threads /\ a[2] \in DOMAIN prog[a[1]] /\ a = <<a[1], a[2]>>
             /\ a[2] < pc[a[1]] /\ prog[a[1]][a[2]].ch = c
             /\ prog[a[1]][a[2]].op \in {"RECV", "WAIT"}
             /\ prog[a[1]][a[2]].op = "WAIT" => a[2] \in Positions(prog[a[1]], "WAIT", c)
  BY FinishedIs DEF Positions
<1>3. ASSUME NEW a \in Finished(c), prog[a[1]][a[2]].op = "RECV"
      PROVE  k[a] = a /\ k[a] \in Posted(c)
  BY <1>3 DEF Finished, Posted
<1>4. ASSUME NEW a \in Finished(c), prog[a[1]][a[2]].op = "WAIT"
      PROVE  /\ k[a] = <<a[1], f[a[1]][a[2]]>> /\ k[a] \in Posted(c)
             /\ prog[k[a][1]][k[a][2]].op = "IRECV"
  <2> DEFINE t == a[1]
             j == f[a[1]][a[2]]
  <2>1. k[a] = <<t, j>>
    BY <1>4
  <2>2. t \in Threads /\ j \in Positions(prog[t], "IRECV", c) /\ j < a[2] /\ a[2] < pc[t]
    BY <1>1, <1>2, <1>4
  <2> HIDE DEF j, k, f
  <2>3. j \in DOMAIN prog[t] /\ prog[t][j].op = "IRECV" /\ prog[t][j].ch = c
    BY <2>2 DEF Positions
  <2>4. j < pc[t]
    <3>1. j \in Nat /\ a[2] \in Nat /\ pc[t] \in Nat
      <4>1. DOMAIN prog[t] = 1 .. Len(prog[t]) /\ pc[t] \in Nat
        BY <2>2 DEF Inv, ThreadsTyped
      <4> QED BY <1>2, <2>3, <4>1
    <3> QED BY <2>2, <3>1
  <2>5. <<t, j>> \in Reached
    BY <2>2, <2>3, <2>4, ReachedIs
  <2>6. <<t, j>> \in Posted(c)
    BY <2>3, <2>5 DEF Posted
  <2> QED BY <2>1, <2>3, <2>6 DEF j
<1>5. k \in Injection(Finished(c), Posted(c))
  <2>1. \A a \in Finished(c) : k[a] \in Posted(c)
    BY <1>2, <1>3, <1>4
  <2>2. ASSUME NEW a \in Finished(c), NEW b \in Finished(c), k[a] = k[b] PROVE a = b
    <3>1. CASE prog[a[1]][a[2]].op = "RECV" /\ prog[b[1]][b[2]].op = "RECV"
      BY <1>3, <2>2, <3>1
    <3>2. CASE prog[a[1]][a[2]].op = "WAIT" /\ prog[b[1]][b[2]].op = "WAIT"
      <4>1. k[a] = <<a[1], f[a[1]][a[2]]>> /\ k[b] = <<b[1], f[b[1]][b[2]]>>
        BY <1>4, <3>2
      <4>2. a[1] = b[1] /\ f[a[1]][a[2]] = f[a[1]][b[2]]
        <5> DEFINE x == a[1]
                   y == b[1]
                   v == f[x][a[2]]
                   w == f[y][b[2]]
        <5>1. <<x, v>> = <<y, w>>
          <6> HIDE DEF f, k
          <6> QED BY <2>2, <4>1
        <5>2. x = y /\ v = w
          <6> HIDE DEF x, y, v, w
          <6> QED BY <5>1
        <5> HIDE DEF f, k
        <5> QED BY <5>2
      <4>3. a[2] = b[2]
        <5> HIDE DEF f, k
        <5> QED BY <1>1, <1>2, <3>2, <4>2
      <4> QED BY <1>2, <4>2, <4>3
    <3>3. CASE prog[a[1]][a[2]].op = "RECV" /\ prog[b[1]][b[2]].op = "WAIT"
      BY <1>3, <1>4, <2>2, <3>3
    <3>4. CASE prog[a[1]][a[2]].op = "WAIT" /\ prog[b[1]][b[2]].op = "RECV"
      BY <1>3, <1>4, <2>2, <3>4
    <3> QED BY <1>2, <3>1, <3>2, <3>3, <3>4
  <2>3. k \in [Finished(c) -> Posted(c)]
    BY <2>1
  <2> HIDE DEF k
  <2> QED BY <2>2, <2>3 DEF Injection, IsInjective
<1>6. IsFiniteSet(Posted(c))
  BY CountsTyped
<1> HIDE DEF k
<1> QED BY <1>5, <1>6, FS_Injection

\* Everything the counts rest on.
Accounts ==
    /\ Inv /\ Places
    /\ ReachedQueuesExact /\ BlockedReceiversServed /\ ReceivesPaired

CompletedPosted ==
    \A c \in Channels : Cardinality(Completed(c)) <= Cardinality(Posted(c))

LEMMA NeverTooMany == WaitsPaired /\ Accounts => CompletedPosted
<1> SUFFICES ASSUME WaitsPaired, Accounts, NEW c \in Channels
             PROVE  Cardinality(Completed(c)) <= Cardinality(Posted(c))
  BY DEF CompletedPosted
<1>1. Cardinality(Finished(c)) <= Cardinality(Posted(c))
  BY FinishedPosted DEF Accounts
<1> QED BY <1>1 DEF Accounts, ReceivesPaired

\* Dropping a notification, or none, with each receive that completes.
LEMMA FreshArithmetic ==
    ASSUME NEW i \in Nat, NEW p \in Nat, NEW q \in Nat, NEW n \in Nat, NEW r \in Nat,
           i <= p - q, n >= p, r = q \/ (r = q + 1 /\ r <= n),
           NEW j, IF r = q THEN j = i \/ (j = i + 1 /\ n = p + 1)
                           ELSE j = IF i > 0 THEN i - 1 ELSE 0
    PROVE  j <= n - r
  OBVIOUS

LEMMA StepFresh ==
    ASSUME WaitsPaired, Accounts, Accounts', NotificationsFresh, [Next]_vars
    PROVE  NotificationsFresh'
<1> SUFFICES ASSUME NEW c \in Channels
             PROVE  irecvs'[c] <= Cardinality(Posted(c)') - Cardinality(Completed(c)')
  BY DEF NotificationsFresh
<1> DEFINE i == irecvs[c]
           p == Cardinality(Posted(c))
           q == Cardinality(Completed(c))
           j == irecvs'[c]
           n == Cardinality(Posted(c)')
           r == Cardinality(Completed(c)')
<1>1. Inv /\ Inv' /\ Places /\ Places'
  BY DEF Accounts
<1>2. i \in Nat /\ p \in Nat /\ q \in Nat /\ i <= p - q /\ DOMAIN irecvs = Channels
  BY <1>1, CountsTyped DEF Inv, IrecvsTyped, NotificationsFresh
<1>3. r <= n
  <2>1. WaitsPaired /\ Accounts' => CompletedPosted'
    BY NeverTooMany, PTL
  <2> QED BY <2>1 DEF CompletedPosted
<1>4. CASE UNCHANGED vars
  <2>1. UNCHANGED <<prog, pc, status, received, irecvs>>
    BY <1>4 DEF vars, queues
  <2>2. Posted(c)' = Posted(c) /\ Completed(c)' = Completed(c)
    BY <2>1 DEF Posted, Reached, Completed, Chan
  <2> QED BY <1>2, <2>1, <2>2
<1>5. ASSUME NEW t \in Threads, Send(t) \/ Recv(t) \/ Irecv(t) \/ Wait(t)
      PROVE  j <= n - r
  <2> DEFINE d == Action(t).ch
  <2>1. prog' = prog /\ d \in Channels
    BY <1>1, <1>5, HandlerCases
  <2>2. n = Plus(p, Action(t).op \in {"RECV", "IRECV"} /\ d = c)
    BY <1>1, <1>5, HandlerCases, CountsHandled
  <2>3. n \in Nat /\ n >= p
    <3> HIDE DEF n, p
    <3> QED BY <1>2, <2>2 DEF Plus
  <2>4. CASE Takes(t, d)
    <3>1. PICK h \in Arrived : Chan(h) = d /\ Complete(d, h)
      BY <2>4 DEF Takes
    <3>2. h \notin received /\ received' = received \cup {h}
      BY <1>1, <3>1 DEF Places, Partition, Apart, Complete
    <3>3. r = Plus(q, d = c)
      BY <1>1, <2>1, <3>1, <3>2, CompletedGains
    <3>4. j = IF d = c THEN (IF i > 0 THEN i - 1 ELSE 0) ELSE i
      BY <1>2, <3>1 DEF Complete
    <3> HIDE DEF i, p, q, j, n, r
    <3> QED BY <1>2, <1>3, <2>3, <3>3, <3>4, FreshArithmetic DEF Plus
  <2>5. CASE received' = received /\ irecvs' = irecvs
    <3>1. r = q /\ j = i
      BY <2>1, <2>5 DEF Completed, Chan
    <3> HIDE DEF i, p, q, j, n, r
    <3> QED BY <1>2, <2>3, <3>1
  <2>6. CASE Irecv(t)
    <3>1. r = q
      BY <2>1, <2>6 DEF Irecv, Completed, Chan
    <3>2. j = IF d = c THEN i + 1 ELSE i
      BY <1>2, <2>6 DEF Irecv
    <3>3. Action(t).op = "IRECV"
      BY <2>6 DEF Irecv, Running
    <3> HIDE DEF i, p, q, j, n, r
    <3> QED BY <1>2, <2>2, <2>3, <3>1, <3>2, <3>3 DEF Plus
  <2>7. CASE Send(t)
    BY <2>5, <2>7 DEF Send
  <2>8. CASE Recv(t) \/ Wait(t)
    <3>1. Action(t).op \in {"RECV", "WAIT"}
      BY <2>8 DEF Recv, Wait, Running
    <3> QED BY <1>1, <1>5, <2>4, <2>5, <3>1, HandlerCases DEF Rests
  <2> QED BY <1>5, <2>6, <2>7, <2>8
<1>6. ASSUME NEW m \in net, Arrive(m) PROVE j <= n - r
  <2>1. /\ prog' = prog /\ Reached' = Reached
        /\ (\E u : Wakes(m, u, Chan(m))) \/ Keeps(m, Chan(m))
    BY <1>1, <1>6, ArriveMoves, ArriveReached
  <2>2. n = p
    BY <2>1 DEF Posted
  <2>3. CASE Keeps(m, Chan(m))
    <3>1. r = q /\ j = i
      BY <2>1, <2>3 DEF Keeps, Completed, Chan
    <3> QED BY <1>2, <2>2, <3>1
  <2>4. ASSUME NEW u, Wakes(m, u, Chan(m)) PROVE j <= n - r
    <3>1. m \notin received /\ received' = received \cup {m}
      BY <1>1, <2>4 DEF Wakes, Complete, Places, Partition, Apart
    <3>2. r = Plus(q, Chan(m) = c)
      BY <1>1, <2>1, <3>1, CompletedGains
    <3>3. j = IF Chan(m) = c THEN (IF i > 0 THEN i - 1 ELSE 0) ELSE i
      BY <1>2, <2>4 DEF Wakes, Complete
    <3> HIDE DEF i, p, q, j, n, r
    <3> QED BY <1>2, <1>3, <2>2, <3>2, <3>3, FreshArithmetic DEF Plus
  <2> QED BY <2>1, <2>3, <2>4
<1> QED BY <1>4, <1>5, <1>6 DEF Next

LEMMA InitAccounts == Init => Accounts /\ NotificationsFresh
<1> SUFFICES ASSUME Init PROVE Accounts /\ NotificationsFresh
  OBVIOUS
<1>1. Inv /\ Places
  BY InitInv, InitPlaces
<1>2. Reached = {}
  <2>1. \A t \in Threads : prog[t] \in Seq(SendOp \cup RecvOp)
    BY ProgramsAssumption DEF Init
  <2>2. \A t \in Threads : \A i \in DOMAIN prog[t] : ~(i < pc[t]) /\ status[t] = "ready"
    BY <2>1 DEF Init
  <2> QED BY <2>2, ReachedIs
<1>3. \A c : /\ Sends(c) = {} /\ Posted(c) = {} /\ Finished(c) = {}
             /\ Completed(c) = {}
  BY <1>2 DEF Sends, Issued, Posted, Finished, Completed, Init
<1>4. \A c : /\ Cardinality(Sends(c)) = 0 /\ Cardinality(Posted(c)) = 0
             /\ Cardinality(Finished(c)) = 0 /\ Cardinality(Completed(c)) = 0
  BY <1>3, FS_EmptySet
<1>5. \A c \in Channels : Len(sendNoRecv[c]) = 0 /\ Len(recvNoSend[c]) = 0
                          /\ irecvs[c] = 0 /\ sendQ[c] = <<>>
  BY DEF Init
<1>6. ReachedQueuesExact
  BY <1>4, <1>5 DEF ReachedQueuesExact
<1>7. ReceivesPaired /\ BlockedReceiversServed
  BY <1>4, <1>5 DEF ReceivesPaired, BlockedReceiversServed
<1>8. NotificationsFresh
  <2>1. \A c \in Channels : irecvs[c] = 0 /\ Cardinality(Posted(c)) = 0
                            /\ Cardinality(Completed(c)) = 0
    BY <1>4, <1>5
  <2> QED BY <2>1 DEF NotificationsFresh
<1> QED BY <1>1, <1>6, <1>7, <1>8 DEF Accounts

LEMMA StepAccounts == Accounts /\ [Next]_vars => Accounts'
<1> SUFFICES ASSUME Accounts, [Next]_vars PROVE Accounts'
  OBVIOUS
<1>1. Inv'
  BY StepKeeps DEF Accounts
<1>2. Places'
  BY <1>1, StepPlaces DEF Accounts
<1> QED BY <1>1, <1>2, StepExact, StepServed, StepPaired DEF Accounts

-----------------------------------------------------------------------------
(* Theorems *)

\* The inductive invariant of the counts.
THEOREM AlwaysAccounts == Spec => []Accounts
<1>1. Init => Accounts
  BY InitAccounts
<1>2. Accounts /\ [Next]_vars => Accounts'
  BY StepAccounts
<1> QED BY <1>1, <1>2, PTL DEF Spec

\* COMMUNIC_send, _recv, _Irecv, _wait and message_received never lose or
\* repeat a message: each issued send is in exactly one of task->send, the
\* network, task->mess_recv and the receives that completed.
THEOREM AlwaysConserved == Spec => []MessagesConserved
<1>1. Accounts => MessagesConserved
  BY PlacesConserve DEF Accounts
<1> QED BY <1>1, AlwaysAccounts, PTL

\* send_without_recv and recv_without_send count exactly by how much the sends
\* of a channel are ahead of its receives, or behind.
THEOREM AlwaysExact == Spec => []ReachedQueuesExact
<1>1. Accounts => ReachedQueuesExact
  BY DEF Accounts
<1> QED BY <1>1, AlwaysAccounts, PTL

\* Start_communication_if_partner_ready_for_rendez_vous starves nobody: while
\* a send waits for its receive, every thread blocked in a receive of that
\* channel has a message of its own under way.
THEOREM AlwaysServed == Spec => []BlockedReceiversServed
<1>1. Accounts => BlockedReceiversServed
  BY DEF Accounts
<1> QED BY <1>1, AlwaysAccounts, PTL

\* All of it, with the notifications of irecvs_executed, which stay fresh when
\* every wait of a trace is for an Irecv before it.
THEOREM AlwaysAccounted == ASSUME WaitsPaired PROVE Spec => []MessagesAccounted
<1>1. Init => NotificationsFresh
  BY InitAccounts
<1>2. Accounts /\ Accounts' /\ NotificationsFresh /\ [Next]_vars => NotificationsFresh'
  BY StepFresh
<1>3. Spec => []NotificationsFresh
  BY <1>1, <1>2, AlwaysAccounts, PTL DEF Spec
<1>4. Accounts /\ NotificationsFresh => MessagesAccounted
  BY PlacesConserve DEF Accounts, MessagesAccounted
<1> QED BY <1>3, <1>4, AlwaysAccounts, PTL

-----------------------------------------------------------------------------
(* The refinement *)

Channel == INSTANCE MessageChannel
             WITH Msgs <- Threads \X (Nat \ {0}), sent <- Issued, delivered <- received

LEMMA StepRefines ==
    Accounts /\ Accounts' /\ [Next]_vars => [Channel!Next]_(Channel!vars)
<1> SUFFICES ASSUME Accounts, Accounts', [Next]_vars
             PROVE  Channel!Next \/ (Issued' = Issued /\ received' = received)
  BY DEF Channel!vars
<1>1. Inv /\ Inv' /\ Places /\ Places'
  BY DEF Accounts
<1>2. ASSUME NEW h, h \in (net \cup Arrived), received' = received \cup {h},
             Issued' = Issued
      PROVE  Channel!Next
  <2>1. h \in Issued /\ h \notin received
    BY <1>1, <1>2 DEF Places, Partition, Apart
  <2>2. h \in Threads \X (Nat \ {0})
    <3>1. Chan(h) \in Channels /\ h \in Message(Chan(h))
      <4>1. CASE h \in net
        BY <1>1, <4>1 DEF Inv, SendsTyped
      <4>2. CASE h \in Arrived
        <5>1. Chan(h) \in Channels /\ h \in ToSet(messRecv[Chan(h)])
          BY <1>1, <4>2, Filed DEF ArrivedFiled
        <5> QED BY <1>1, <5>1, ElementsTyped DEF Inv, ReceivesTyped
      <4> QED BY <1>2, <4>1, <4>2
    <3> QED BY <3>1 DEF Message
  <2> QED BY <1>2, <2>1, <2>2 DEF Channel!Next, Channel!Deliver
<1>3. CASE UNCHANGED vars
  BY <1>3 DEF vars, queues, Issued, Reached
<1>4. ASSUME NEW t \in Threads, Send(t) PROVE Channel!Next
  <2> DEFINE m == <<t, pc[t]>>
  <2>1. m \notin Issued /\ Issued' = Issued \cup {m} /\ received' = received
    BY <1>1, <1>4, SendMoves, IssuedHandles DEF Send
  <2>2. m \in Threads \X (Nat \ {0})
    BY <1>1 DEF Inv, ThreadsTyped
  <2> QED BY <2>1, <2>2 DEF Channel!Next, Channel!Send
<1>5. ASSUME NEW t \in Threads, Recv(t) \/ Irecv(t) \/ Wait(t)
      PROVE  Channel!Next \/ (Issued' = Issued /\ received' = received)
  <2>1. Action(t).op \in {"RECV", "IRECV", "WAIT"} /\ prog' = prog
    BY <1>1, <1>5, HandlerCases DEF Recv, Irecv, Wait, Running
  <2>2. Issued' = Issued
    BY <1>1, <1>5, <2>1, HandlerCases, IssuedHandles
  <2>3. \/ received' = received
        \/ \E h \in Arrived : received' = received \cup {h}
    BY <1>1, <1>5, <2>1, HandlerCases DEF Takes, Rests, Complete
  <2> QED BY <1>2, <2>2, <2>3
<1>6. ASSUME NEW m \in net, Arrive(m)
      PROVE  Channel!Next \/ (Issued' = Issued /\ received' = received)
  <2>1. Issued' = Issued
    BY <1>1, <1>6, ArriveReached
  <2>2. received' = received \/ received' = received \cup {m}
    BY <1>1, <1>6, ArriveMoves DEF Wakes, Keeps, Complete
  <2> QED BY <1>2, <2>1, <2>2
<1> QED BY <1>3, <1>4, <1>5, <1>6 DEF Next

\* Whatever queues a message goes through, the matching is a set of message
\* channels: a message is sent once and received at most once, after its send.
THEOREM ImplementsChannels == Spec => Channel!Safety
<1>1. Init => Channel!Init
  <2> SUFFICES ASSUME Init PROVE Issued = {} /\ received = {}
    BY DEF Channel!Init
  <2>1. Reached = {}
    <3>1. \A t \in Threads : prog[t] \in Seq(SendOp \cup RecvOp)
      BY ProgramsAssumption DEF Init
    <3>2. \A t \in Threads : \A i \in DOMAIN prog[t] :
             ~(i < pc[t]) /\ status[t] = "ready"
      BY <3>1 DEF Init
    <3> QED BY <3>2, ReachedIs
  <2> QED BY <2>1 DEF Issued, Init
<1>2. Accounts /\ Accounts' /\ [Next]_vars => [Channel!Next]_(Channel!vars)
  BY StepRefines
<1> QED BY <1>1, <1>2, AlwaysAccounts, PTL DEF Spec, Channel!Safety
=============================================================================
