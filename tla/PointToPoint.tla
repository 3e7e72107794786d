---------------------------- MODULE PointToPoint ----------------------------
(***************************************************************************)
(* Matching of point-to-point messages in Simulator/model/communic.c:      *)
(* COMMUNIC_send, COMMUNIC_recv, COMMUNIC_Irecv, COMMUNIC_wait and         *)
(* message_received, with their real_MPI_transfer helpers.  The twin       *)
(* helpers for dependency_synchronization keep their queues per thread and *)
(* not per task; they are not modelled.                                    *)
(*                                                                         *)
(* A send and a receive match when sender, receiver, tag and communicator  *)
(* agree; that whole tuple is a CHANNEL here.  The code keeps a queue per  *)
(* task and always takes the first entry that matches, so its queues are   *)
(* represented channel by channel.                                         *)
(* Startup, copy and round-trip latencies only delay a handler: a thread   *)
(* whose handler is due is "ready" and runs whenever the event queue says. *)
(* The network (really_send to COM_TIMER_OUT) is a set of messages that    *)
(* arrive in any order.                                                    *)
(***************************************************************************)
EXTENDS Integers, Sequences, SequencesExt, FiniteSets

CONSTANTS
    Threads,    \* simulated threads of all tasks
    Channels,   \* tuples <sender, receiver, tag, communicator>
    Programs,   \* traces: a set of functions from threads to action sequences
    BusyWait    \* busywait_before_block # 0 in the machine of the receivers

SendOp == [op : {"SEND"}, ch : Channels, rdv : BOOLEAN, imm : BOOLEAN]
RecvOp == [op : {"RECV", "IRECV", "WAIT"}, ch : Channels]

ASSUME BusyWaitAssumption == BusyWait \in BOOLEAN
ASSUME ProgramsAssumption == Programs \subseteq [Threads -> Seq(SendOp \cup RecvOp)]

VARIABLES
    prog,        \* the traces of this execution
    pc,          \* pc[t]: thread->action, as a position in prog[t]
    status,      \* "ready", "blocked" in a queue, or doing_busy_wait ("busy")
    sendQ,       \* task->send: rendezvous sends waiting for their receive
    recvQ,       \* task->recv: threads blocked in a receive or a wait
    messRecv,    \* task->mess_recv: messages that arrived before their receive
    sendNoRecv,  \* task->send_without_recv: rendez_vous of each such send
    recvNoSend,  \* task->recv_without_send: action of each such receive
    irecvs,      \* task->irecvs_executed: notifications of Irecvs
    net,         \* messages between really_send and COM_TIMER_OUT
    received     \* history: messages that completed a receive

queues == <<sendQ, recvQ, messRecv, sendNoRecv, recvNoSend, irecvs>>
vars == <<prog, pc, status, queues, net, received>>

\* A message is the thread and the position of the send it comes from.
Chan(m) == prog[m[1]][m[2]].ch
Msgs == {<<t, i>> : t \in Threads, i \in Nat \ {0}}
More(t) == pc[t] <= Len(prog[t])
Action(t) == prog[t][pc[t]]

TypeOK ==
    /\ prog \in [Threads -> Seq(SendOp \cup RecvOp)]
    /\ pc \in [Threads -> Nat \ {0}]
    /\ status \in [Threads -> {"ready", "blocked", "busy"}]
    /\ \A c \in Channels :
          /\ \A i \in DOMAIN sendQ[c] :
                /\ sendQ[c][i].msg[1] \in Threads
                /\ Chan(sendQ[c][i].msg) = c
          /\ \A i \in DOMAIN recvQ[c] : recvQ[c][i] \in Threads
          /\ \A i \in DOMAIN messRecv[c] : Chan(messRecv[c][i]) = c
          /\ sendNoRecv[c] \in Seq(BOOLEAN)
          /\ recvNoSend[c] \in Seq({"RECV", "IRECV"})
          /\ irecvs[c] \in Nat

Init ==
    /\ prog \in Programs
    /\ pc = [t \in Threads |-> 1]
    /\ status = [t \in Threads |-> "ready"]
    /\ sendQ = [c \in Channels |-> <<>>]
    /\ recvQ = [c \in Channels |-> <<>>]
    /\ messRecv = [c \in Channels |-> <<>>]
    /\ sendNoRecv = [c \in Channels |-> <<>>]
    /\ recvNoSend = [c \in Channels |-> <<>>]
    /\ irecvs = [c \in Channels |-> 0]
    /\ net = {}
    /\ received = {}

-----------------------------------------------------------------------------
Running(t, op) == status[t] = "ready" /\ More(t) /\ Action(t).op = op

\* action->next, more_actions, SCHEDULER_thread_to_ready.
Advance(ts) == /\ pc' = [t \in Threads |-> IF t \in ts THEN pc[t] + 1 ELSE pc[t]]
               /\ status' = [t \in Threads |->
                                IF t \in ts THEN "ready" ELSE status[t]]

\* Advance the threads ts and put thread t to rest in state s.
AdvanceAndRest(ts, t, s) ==
    /\ pc' = [u \in Threads |-> IF u \in ts THEN pc[u] + 1 ELSE pc[u]]
    /\ status' = [u \in Threads |-> IF u = t THEN s
                                    ELSE IF u \in ts THEN "ready" ELSE status[u]]

\* Mutant: a send never looks for the receive that waits for it.
SendReachedBlind(c, rdv) ==
    /\ sendNoRecv' = [sendNoRecv EXCEPT ![c] = Append(@, rdv)]
    /\ UNCHANGED recvNoSend

\* COMMUNIC_send_reached_*: cross the send with the oldest receive that was
\* reached without a send, or note that this send has no receive yet.
SendReached(c, rdv) ==
    IF recvNoSend[c] # <<>>
      THEN /\ recvNoSend' = [recvNoSend EXCEPT ![c] = Tail(@)]
           /\ UNCHANGED sendNoRecv
      ELSE /\ sendNoRecv' = [sendNoRecv EXCEPT ![c] = Append(@, rdv)]
           /\ UNCHANGED recvNoSend

\* Its result, hi_ha_irecv.
FindsIrecv(c) == recvNoSend[c] # <<>> /\ Head(recvNoSend[c]) = "IRECV"

\* COMMUNIC_recv_reached_*, the mirror image, and its result hi_ha_send_sync.
RecvReached(c, op) ==
    IF sendNoRecv[c] # <<>>
      THEN /\ sendNoRecv' = [sendNoRecv EXCEPT ![c] = Tail(@)]
           /\ UNCHANGED recvNoSend
      ELSE /\ recvNoSend' = [recvNoSend EXCEPT ![c] = Append(@, op)]
           /\ UNCHANGED sendNoRecv

FindsSyncSend(c) == sendNoRecv[c] # <<>> /\ Head(sendNoRecv[c])

\* Start_communication_if_partner_ready_for_rendez_vous_*: the oldest waiting
\* rendezvous send of the channel, if any, is handed to the network.
StartPartner(c) ==
    IF sendQ[c] # <<>>
      THEN /\ sendQ' = [sendQ EXCEPT ![c] = Tail(@)]
           /\ net' = net \cup {Head(sendQ[c]).msg}
      ELSE UNCHANGED <<sendQ, net>>

\* Mutant: the blocked sender is forgotten once its message is under way.
ReleasedByNobody(c) == {}

\* The thread released by it: only an original thread has more actions.
ReleasedBy(c) ==
    IF sendQ[c] # <<>> /\ Head(sendQ[c]).original
      THEN {Head(sendQ[c]).msg[1]} ELSE {}

\* is_message_awaiting_real_MPI: a message is there for a receive on c.
MessageAwaiting(c) == messRecv[c] # <<>>

\* locate_receiver_real_MPI: a thread is blocked in a receive on c.
ReceiverWaiting(c) == recvQ[c] # <<>>

\* Mutants: the notification count is decremented unconditionally; not at all.
CompleteUnderflow(c, m) ==
    /\ received' = received \cup {m}
    /\ irecvs' = [irecvs EXCEPT ![c] = @ - 1]

\* A receive completes with message m; get_logical_receive drops the oldest
\* Irecv notification of the channel, if there is one.
Complete(c, m) ==
    /\ received' = received \cup {m}
    /\ irecvs' = [irecvs EXCEPT ![c] = IF @ > 0 THEN @ - 1 ELSE 0]

-----------------------------------------------------------------------------
\* Mode RD, nobody to receive: the send waits in task->send, in person or, when
\* it is immediate, as a copy.
WaitsForReceiver(t) ==
    LET a == Action(t)
        entry == [msg |-> <<t, pc[t]>>, original |-> ~a.imm]
    IN  /\ a.rdv /\ ~FindsIrecv(a.ch) /\ ~ReceiverWaiting(a.ch)
        /\ sendQ' = [sendQ EXCEPT ![a.ch] = Append(@, entry)]
        /\ IF a.imm THEN Advance({t}) ELSE AdvanceAndRest({}, t, "blocked")
        /\ UNCHANGED net

\* Mode NORD, or somebody to receive: a copy of the thread carries the message.
GoesOut(t) ==
    LET a == Action(t)
    IN  /\ ~a.rdv \/ FindsIrecv(a.ch) \/ ReceiverWaiting(a.ch)
        /\ net' = net \cup {<<t, pc[t]>>}
        /\ Advance({t})
        /\ UNCHANGED sendQ

\* COMMUNIC_send
Send(t) ==
    /\ Running(t, "SEND")
    /\ SendReached(Action(t).ch, Action(t).rdv)
    /\ WaitsForReceiver(t) \/ GoesOut(t)
    /\ UNCHANGED <<prog, recvQ, messRecv, irecvs, received>>

\* The part COMMUNIC_recv and COMMUNIC_wait share: take a message that is
\* already there, or start the partner and wait, spinning first if so set up.
ReceiveOrWait(t, c) ==
    \/ /\ MessageAwaiting(c)
       /\ messRecv' = [messRecv EXCEPT ![c] = Tail(@)]
       /\ Complete(c, Head(messRecv[c]))
       /\ Advance({t})
       /\ UNCHANGED <<sendQ, recvQ, net>>
    \/ /\ ~MessageAwaiting(c)
       /\ StartPartner(c)
       /\ AdvanceAndRest(ReleasedBy(c), t, IF BusyWait THEN "busy" ELSE "blocked")
       /\ recvQ' = IF BusyWait THEN recvQ
                               ELSE [recvQ EXCEPT ![c] = Append(@, t)]
       /\ UNCHANGED <<messRecv, received, irecvs>>

Recv(t) ==
    /\ Running(t, "RECV")
    /\ RecvReached(Action(t).ch, "RECV")
    /\ ReceiveOrWait(t, Action(t).ch)
    /\ UNCHANGED prog

Wait(t) ==
    /\ Running(t, "WAIT")
    /\ ReceiveOrWait(t, Action(t).ch)
    /\ UNCHANGED <<prog, sendNoRecv, recvNoSend>>

\* COMMUNIC_Irecv: only a matching send that is synchronous is started.
Irecv(t) ==
    /\ Running(t, "IRECV")
    /\ LET c == Action(t).ch IN
       /\ RecvReached(c, "IRECV")
       /\ irecvs' = [irecvs EXCEPT ![c] = @ + 1]
       /\ IF FindsSyncSend(c)
            THEN StartPartner(c) /\ Advance({t} \cup ReleasedBy(c))
            ELSE UNCHANGED <<sendQ, net>> /\ Advance({t})
    /\ UNCHANGED <<prog, recvQ, messRecv, received>>

\* Mutants: the blocked thread is not looked for; the message is not kept; it
\* is both kept and received.
ArriveNoWakeup(m) ==
    /\ m \in net
    /\ net' = net \ {m}
    /\ messRecv' = [messRecv EXCEPT ![Chan(m)] = Append(@, m)]
    /\ UNCHANGED <<prog, pc, status, sendQ, recvQ, sendNoRecv, recvNoSend,
                   irecvs, received>>
ArriveDropped(m) ==
    /\ m \in net
    /\ net' = net \ {m}
    /\ IF recvQ[Chan(m)] = <<>>
         THEN UNCHANGED <<recvQ, irecvs, received, pc, status>>
         ELSE /\ recvQ' = [recvQ EXCEPT ![Chan(m)] = Tail(@)]
              /\ Complete(Chan(m), m)
              /\ Advance({Head(recvQ[Chan(m)])})
    /\ UNCHANGED <<prog, sendQ, messRecv, sendNoRecv, recvNoSend>>
ArriveTwice(m) ==
    /\ m \in net
    /\ net' = net \ {m}
    /\ messRecv' = [messRecv EXCEPT ![Chan(m)] = Append(@, m)]
    /\ received' = received \cup {m}
    /\ UNCHANGED <<prog, pc, status, sendQ, recvQ, sendNoRecv, recvNoSend, irecvs>>

\* The oldest thread blocked on the channel has its message.
WakesReceiver(m, c) ==
    /\ ReceiverWaiting(c)
    /\ recvQ' = [recvQ EXCEPT ![c] = Tail(@)]
    /\ Complete(c, m)
    /\ Advance({Head(recvQ[c])})
    /\ UNCHANGED messRecv

\* Nobody waits for the message: it is kept.
ReceiverNotReady(m, c) ==
    /\ ~ReceiverWaiting(c)
    /\ messRecv' = [messRecv EXCEPT ![c] = Append(@, m)]
    /\ UNCHANGED <<recvQ, irecvs, received, pc, status>>

\* COMMUNIC_COM_TIMER_OUT, message_received
Arrive(m) ==
    /\ m \in net
    /\ net' = net \ {m}
    /\ WakesReceiver(m, Chan(m)) \/ ReceiverNotReady(m, Chan(m))
    /\ UNCHANGED <<prog, sendQ, sendNoRecv, recvNoSend>>

\* The busy wait times out: COMMUNIC_block_after_busy_wait queues the thread
\* and looks at no other queue.
BusyWaitEnds(t) ==
    /\ status[t] = "busy"
    /\ status' = [status EXCEPT ![t] = "blocked"]
    /\ recvQ' = [recvQ EXCEPT ![Action(t).ch] = Append(@, t)]
    /\ UNCHANGED <<prog, pc, sendQ, messRecv, sendNoRecv, recvNoSend, irecvs,
                   net, received>>

Next == \/ \E t \in Threads : Send(t) \/ Recv(t) \/ Irecv(t) \/ Wait(t)
        \/ \E m \in net : Arrive(m)

\* With a machine whose scheduler spins before blocking.
NextBusy == Next \/ \E t \in Threads : BusyWaitEnds(t)

\* The event queue is served until it is empty: every ready thread is run and
\* every message in the network reaches its COM_TIMER_OUT.
Fairness == /\ \A t \in Threads :
                  WF_vars(Send(t) \/ Recv(t) \/ Irecv(t) \/ Wait(t))
            /\ WF_vars(\E m \in net : Arrive(m))

Spec == Init /\ [][Next]_vars /\ Fairness

SpecBusy == Init /\ [][NextBusy]_vars
                 /\ Fairness /\ WF_vars(\E t \in Threads : BusyWaitEnds(t))

-----------------------------------------------------------------------------
(* Properties *)

\* A channel never has both a send noted as lacking its receive and a receive
\* noted as lacking its send: send_reached and recv_reached always cross them.
ReachedQueuesExclusive ==
    \A c \in Channels : sendNoRecv[c] = <<>> \/ recvNoSend[c] = <<>>

\* No lost wakeup: no thread is blocked in task->recv while a message for it
\* lies in task->mess_recv.
NoLostWakeup == \A c \in Channels : recvQ[c] = <<>> \/ messRecv[c] = <<>>

InNet(c) == {m \in net : Chan(m) = c}

\* No rendezvous starves: while a send waits for its receive on a channel,
\* every thread blocked in a receive there has a message under way to it.
BlockedReceiversServed ==
    \A c \in Channels :
        sendQ[c] # <<>> => Cardinality(InNet(c)) >= Len(recvQ[c])

Waiting == UNION {{e.msg : e \in ToSet(sendQ[c])} : c \in Channels}
Arrived == UNION {ToSet(messRecv[c]) : c \in Channels}

\* Actions carried out so far, those that threads are waiting in included.
Reached == UNION {{t} \X {i \in DOMAIN prog[t] :
                            \/ i < pc[t]
                            \/ i = pc[t] /\ status[t] # "ready"} : t \in Threads}
Issued == {m \in Reached : prog[m[1]][m[2]].op = "SEND"}

\* No message is lost or duplicated: each issued send is in exactly one of
\* task->send, the network, task->mess_recv and the completed receives, and
\* each queue holds it once.
MessagesConserved ==
    /\ Issued = Waiting \cup net \cup Arrived \cup received
    /\ Cardinality(Waiting) + Cardinality(net) + Cardinality(Arrived)
         + Cardinality(received) = Cardinality(Issued)

\* Receives (RECV, IRECV) of channel c that were reached.
Posted(c) == {a \in Reached : prog[a[1]][a[2]].op \in {"RECV", "IRECV"}
                                /\ prog[a[1]][a[2]].ch = c}
Completed(c) == {m \in received : Chan(m) = c}
Sends(c) == {m \in Issued : Chan(m) = c}

\* Every remaining Irecv notification belongs to a receive that is still to
\* complete: none goes stale and lends its time to a later message.
NotificationsFresh ==
    \A c \in Channels :
        irecvs[c] <= Cardinality(Posted(c)) - Cardinality(Completed(c))

\* send_without_recv and recv_without_send are the exact difference between
\* the sends and the receives that a channel has seen.
ReachedQueuesExact ==
    \A c \in Channels :
        Cardinality(Sends(c)) - Cardinality(Posted(c))
            = Len(sendNoRecv[c]) - Len(recvNoSend[c])

Done(t) == ~More(t)

\* A trace that sends and receives equally often on every channel, with all
\* sends of a channel on one side of it, runs to its end.
AllFinish == <>(\A t \in Threads : Done(t))

\* No message comes in while the thread that should receive it spins, outside
\* task->recv, before blocking.
BusyWaiterNeverMissed ==
    \A t \in Threads : status[t] = "busy" => messRecv[Action(t).ch] = <<>>

\* Traces in which every wait is for an Irecv of its own, posted before it on
\* the same channel, as an MPI_Wait is.
Positions(q, op, c) == {i \in DOMAIN q : q[i].op = op /\ q[i].ch = c}
WaitsPaired ==
    \A p \in Programs, t \in Threads, c \in Channels :
        \E f \in Injection(Positions(p[t], "WAIT", c), Positions(p[t], "IRECV", c)) :
            \A i \in DOMAIN f : f[i] < i

\* Nothing is lost, repeated or left over in the queues of a task, and no
\* rendezvous starves: task->send, mess_recv, recv, irecv and the notes of both
\* sides always agree on what was sent, what was asked for and what arrived.
MessagesAccounted ==
    /\ MessagesConserved
    /\ NotificationsFresh
    /\ ReachedQueuesExact
    /\ BlockedReceiversServed
=============================================================================
