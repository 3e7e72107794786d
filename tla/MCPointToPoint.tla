--------------------------- MODULE MCPointToPoint ---------------------------
(* Model-checking instances of the point-to-point matching: the traces.    *)
EXTENDS PointToPoint

CONSTANTS
    MaxMessages,  \* messages a trace exchanges at most on its channel
    s, r1, r2     \* a sending thread and the two threads of the receiving task

Count(q, x) == Cardinality({i \in DOMAIN q : q[i] = x})
SeqsUpTo(S, n) == UNION {[1 .. k -> S] : k \in 0 .. n}

\* Receive sides: every Irecv is followed by its own Wait, in any interleaving.
ReceiveSides ==
    {q \in SeqsUpTo({"RECV", "IRECV", "WAIT"}, 2 * MaxMessages) :
        /\ Count(q, "RECV") + Count(q, "IRECV") <= MaxMessages
        /\ Count(q, "WAIT") = Count(q, "IRECV")
        /\ \A i \in DOMAIN q :
              Count(SubSeq(q, 1, i), "WAIT") <= Count(SubSeq(q, 1, i), "IRECV")}

\* The receive sides that post n receives.
Sizes == 0 .. MaxMessages
Sides == [n \in Sizes |-> {q \in ReceiveSides :
                             Count(q, "RECV") + Count(q, "IRECV") = n}]

\* Send sides: eager, synchronous and immediate rendezvous sends.
SendKinds == {[rdv |-> FALSE, imm |-> FALSE],
              [rdv |-> TRUE,  imm |-> FALSE],
              [rdv |-> TRUE,  imm |-> TRUE]}

SendActions(k, c) == [i \in DOMAIN k |->
    [op |-> "SEND", ch |-> c, rdv |-> k[i].rdv, imm |-> k[i].imm]]
RecvActions(q, c) == [i \in DOMAIN q |-> [op |-> q[i], ch |-> c]]

\* Traces that use one channel in one direction, every send having a receive.
OneWay ==
    {[t \in {s, r1, r2} |->
        CASE t = s  -> SendActions(x[1], "sr")
          [] t = r1 -> RecvActions(x[2], "sr")
          [] t = r2 -> RecvActions(x[3], "sr")] :
       x \in UNION {[1 .. n -> SendKinds] \X Sides[k] \X Sides[n - k] :
                      <<n, k>> \in {y \in Sizes \X Sizes : y[2] <= y[1]}}}

ASSUME WaitsPairedAssumption == WaitsPaired

Channel == INSTANCE MessageChannel
             WITH Msgs <- {s} \X (1 .. MaxMessages),
                  sent <- Issued, delivered <- received

\* The matching implements message channels: whatever queues a message goes
\* through, it is received once, after its send, and in the end.
ImplementsChannel == Channel!Spec
=============================================================================
