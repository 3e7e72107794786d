------------------------------ MODULE MCDeadlock ------------------------------
(* Model-checking instances of the recovery from deadlocks.  Tags 1, 2 and *)
(* 3 are above the synchronous limit, tags 8 and 9 below it.               *)
EXTENDS Deadlock

Call(act, u, tag) == [action |-> act, peer |-> u, tag |-> tag]
Send(u, tag) == Call(SEND, u, tag)
Recv(u, tag) == Call(RECV, u, tag)
Irecv(u, tag) == Call(IRECV, u, tag)
Wait(u, tag) == Call(WAIT, u, tag)
Glop(id) == Call(GLOBAL_OP, 0, id)
Burst == Call(WORK, 0, 0)
None == <<Burst>>

\* Every task sends before it receives: a cycle of two and one of three.
HeadToHead == <<<<Send(2, 1), Recv(2, 2), Burst>>, <<Send(1, 2), Recv(1, 1), Burst>>, None>>
Ring == <<<<Send(2, 1), Recv(3, 3), Burst>>, <<Send(3, 2), Recv(1, 1), Burst>>,
          <<Send(1, 3), Recv(2, 2), Burst>>>>
\* Both receive before they send.
ReceiveFirst == <<<<Recv(2, 2), Send(2, 1), Burst>>, <<Recv(1, 1), Send(1, 2), Burst>>, None>>
\* One task is in a collective while another waits for its message.
InCollective == <<<<Glop(5), Burst, Send(2, 1), Burst>>, <<Recv(1, 1), Burst, Glop(5), Burst>>,
                  <<Glop(5), Burst>>>>
\* The two of them while a message of one of them is on its way.
InFlight == <<<<Send(3, 9), Burst, Recv(2, 2), Send(2, 1), Burst>>,
              <<Recv(1, 1), Send(1, 2), Burst>>,
              <<Irecv(1, 9), Burst, Wait(1, 9), Burst>>>>
\* A message that is never sent, and one that is never received.
Orphans == <<<<Recv(2, 1), Burst>>, <<Burst>>, <<Send(2, 2), Burst>>>>
\* Nothing wrong: posted receives, eager and synchronous messages, collectives.
Clean == <<<<Irecv(2, 8), Send(2, 9), Wait(2, 8), Glop(5), Burst>>,
           <<Irecv(1, 9), Send(1, 8), Wait(1, 9), Glop(5), Burst>>,
           <<Glop(5), Burst>>>>
CleanSync == <<<<Irecv(2, 2), Irecv(3, 3), Wait(2, 2), Send(3, 1), Wait(3, 3), Burst>>,
               <<Send(1, 2), Burst>>,
               <<Send(1, 3), Recv(1, 1), Burst>>>>
EagerThenRecv == <<<<Send(2, 9), Burst, Burst, Burst>>, <<Burst, Recv(1, 9), Burst>>, None>>

Pendent(s, r, g) == [send |-> s, recv |-> r, glop |-> g]
Run(ops, percent, estats) == [ops |-> ops, percent |-> percent, estats |-> estats]

\* Every way in which tasks 1 and 2 make two calls, with bursts in between.
TwoCalls ==
    {<<<<v, Burst, w, Burst>>, <<x, Burst, y, Burst>>, None>> :
        v, w \in {Send(2, 1), Recv(2, 2), Glop(5)}, x, y \in {Send(1, 2), Recv(1, 1), Glop(5)}}

MCRuns ==
    {Run(p, 100, NoEstats) : p \in {HeadToHead, Ring, ReceiveFirst, InFlight, InCollective,
                                    Orphans, Clean, CleanSync} \cup TwoCalls}
      \cup {Run(HeadToHead, 100, <<Pendent(0, 0, 0), Pendent(1, 0, 0), Pendent(0, 0, 0)>>),
            Run(Ring, 100, <<Pendent(1, 0, 0), Pendent(1, 0, 0), Pendent(2, 0, 0)>>),
            Run(InCollective, 100, <<Pendent(0, 0, 1), Pendent(0, 2, 0), Pendent(0, 0, 0)>>),
            Run(EagerThenRecv, 50, NoEstats)}

==============================================================================
