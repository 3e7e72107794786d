---------------------------- MODULE MCTranslator ----------------------------
(* Paraver traces for the translator: a host A with its device B, and the  *)
(* tasks C and D.  Calls of a thread do not touch; the endpoints of a      *)
(* message are at every instant of the calls they belong to, the           *)
(* boundaries included.                                                    *)
EXTENDS Translator

A == <<1, 1>>
B == <<1, 2>>
C == <<2, 1>>
D == <<3, 1>>
MCOrder == <<A, B, C, D>>
MCAccTasks == {1}

TV(type, value, n) == [type |-> type, value |-> value, n |-> n]
Ev(who, time, tvs) == [kind |-> "event", who |-> who, time |-> time, tvs |-> tvs]
State(who, time, end, idle) ==
    [kind |-> "state", who |-> who, time |-> time, end |-> end, idle |-> idle]

\* A call: the events of its two ends, from b to e.
Call(who, type, value, b, e) ==
    <<Ev(who, b, <<TV(type, value, 0)>>), Ev(who, e, <<TV(type, "end", 0)>>)>>
MPI(who, value, b, e) == Call(who, "mpi", value, b, e)
Coll(who, value, b, e) ==
    <<Ev(who, b, <<TV("coll", value, 0), TV("size", "send", 1), TV("caller", "f", 1)>>),
      Ev(who, e, <<TV("coll", "end", 0)>>)>>

Msg(src, dst, ls, ps, lr, pr, sop, scall, rop, rcall, wcall) ==
    [src |-> src, dst |-> dst, ls |-> ls, ps |-> ps, lr |-> lr, pr |-> pr,
     sop |-> sop, scall |-> scall, rop |-> rop, rcall |-> rcall, wcall |-> wcall]

\* The trace of the given records, sorted by time, and messages.
Trace(records, comms) ==
    LET sorted == FoldLeft(LAMBDA s, r : Insert(s, r, LAMBDA x, y : x.time < y.time),
                           <<>>, records)
        mine(w) == {r \in ToSet(sorted) : r.who = w}
        opens(r) == IsEvent(r) /\ r.tvs[1].type \in {"mpi", "coll", "cuda", "ocl"}
        sum(S) == MapThenSumSet(LAMBDA r : IF r.tvs[1].value = "end" THEN r.time
                                                                    ELSE -r.time, S)
    IN  [records |-> sorted, comms |-> comms,
         inCalls |-> [w \in Threads |->
            IF w[1] \notin AccTasks
            THEN sum({r \in mine(w) : opens(r) /\ r.tvs[1].type \in {"mpi", "coll"}})
            ELSE sum({r \in mine(w) : opens(r)})],
         glops |-> [w \in Threads |->
            Cardinality({r \in mine(w) :
                /\ opens(r)
                /\ \/ r.tvs[1].type = "coll" /\ r.tvs[1].value # "end"
                   \/ r.tvs[1].value = "Init"})]]

\* One message from A, sent by Send or Isend, to C, d later.
Sends == {[calls |-> MPI(A, "Send", 2, 3), op |-> "send", call |-> "Send", ps |-> 2..3],
          [calls |-> MPI(A, "Isend", 2, 3) \o MPI(A, "Wait", 5, 6),
           op |-> "isend", call |-> "Isend", ps |-> 2..6]}
Receives(d) ==
    {[calls |-> MPI(C, "Recv", 1 + d, 3 + d), op |-> "recv", call |-> "Recv",
      wcall |-> None, lr |-> {1 + d, 2 + d, 3 + d}, pr |-> {2 + d, 3 + d}]}
    \union {[calls |-> MPI(C, x[1], 1 + d, 2 + d) \o MPI(C, x[2], 3 + d, 5 + d),
             op |-> "irecv", call |-> x[1], wcall |-> x[2],
             lr |-> {1 + d, 2 + d}, pr |-> {3 + d, 5 + d}] :
               x \in {<<"Irecv", "Wait">>, <<"Irecv", "Waitall">>, <<"Start", "Test">>}}
OneMessage ==
    UNION {UNION {UNION {
        {Trace(s.calls \o r.calls,
               <<Msg(A, C, x[1], x[2], y[1], y[2], s.op, s.call, r.op, r.call, r.wcall)>>) :
            x \in {z \in (2..3) \X s.ps : z[1] <= z[2]},
            y \in {z \in r.lr \X r.pr : z[1] <= z[2]}}
        : s \in Sends} : r \in Receives(d)} : d \in {0, 2}}

\* Two messages completed by the same Waitall; they cross in the network.
TwoMessages ==
    {Trace(MPI(A, "Isend", 1, 2) \o MPI(A, "Send", 3, 4) \o MPI(A, "Waitall", 5, 6)
           \o MPI(C, "Irecv", 1, 2) \o MPI(C, "Irecv", 3, 4) \o MPI(C, "Waitall", 5, 7),
           <<Msg(A, C, 1, x, lr, y, "isend", "Isend", "irecv", "Irecv", "Waitall"),
             Msg(A, C, 3, 3, 7 - lr - 1, z, "send", "Send", "irecv", "Irecv", "Waitall")>>) :
        x \in {1, 6}, y \in {5, 7}, z \in {6, 7}, lr \in {2, 3}}

\* Both exchange with Sendrecv.
Exchange ==
    {Trace(MPI(A, "Sendrecv", 2, 4) \o MPI(C, "Sendrecv", 2 + d, 4 + d),
           <<Msg(A, C, x, y, 2 + d, z + d, "send", "Sendrecv", "irecv", "Sendrecv", "Sendrecv"),
             Msg(C, A, x + d, y + d, 2, z, "send", "Sendrecv", "irecv", "Sendrecv", "Sendrecv")>>) :
        x \in {2, 3}, y \in {3, 4}, z \in {3, 4}, d \in {0, 1}}

\* A receives from C and D, or sends to them, in either order, and each of them
\* comes before, between or after: what one does may be translated next to
\* what A does with the other.
TwoPartners ==
    UNION {LET at == [w \in {C, D} |-> IF w = C THEN x ELSE y]
           IN  {Trace(MPI(A, "Irecv", 2, 3) \o MPI(A, "Irecv", 6, 7) \o MPI(A, "Waitall", 10, 11)
                      \o MPI(C, "Send", x, x + 1) \o MPI(D, "Send", y, y + 1),
                      [k \in 1..2 |-> Msg(p[k], A, at[p[k]], at[p[k]], 4 * k - 2, 9 + k,
                                          "send", "Send", "irecv", "Irecv", "Waitall")]),
                Trace(MPI(A, "Send", 2, 3) \o MPI(A, "Send", 6, 7)
                      \o MPI(C, "Recv", x, 9) \o MPI(D, "Recv", y, 10),
                      [k \in 1..2 |-> Msg(A, p[k], 4 * k - 2, 4 * k - 2, at[p[k]], 9,
                                          "send", "Send", "recv", "Recv", None)])} :
           x \in {0, 4, 8}, y \in {0, 4, 8}, p \in {<<C, D>>, <<D, C>>}}

\* Collectives, blocking or not, around a message and inside a user function.
Collectives ==
    {Trace(MPI(A, "Init", 1, 2) \o Coll(A, "Barrier", 3, 5) \o
           MPI(C, "Init", 0, 2) \o
           <<Ev(C, 3, <<TV("user", "f", 0)>>)>> \o Coll(C, "Barrier", 3, 5)
           \o <<Ev(C, 6, <<TV("user", "end", 0)>>)>>, <<>>),
     Trace(Coll(A, "Ibarrier", 1, 2) \o MPI(A, "Send", 3, 4) \o MPI(A, "Wait", 5, 6)
           \o Coll(C, "Ibarrier", 1, 2) \o MPI(C, "Irecv", 3, 4)
           \o MPI(C, "Wait", 5, 6) \o MPI(C, "Wait", 8, 9),
           <<Msg(A, C, 3, 3, 4, 6, "send", "Send", "irecv", "Irecv", "Wait")>>),
     Trace(Coll(A, "Ibarrier", 1, 2) \o Coll(A, "Ibarrier", 3, 4)
           \o MPI(A, "Wait", 5, 6) \o MPI(A, "Wait", 7, 8)
           \o Coll(C, "Ibarrier", 2, 3) \o MPI(C, "Wait", 4, 5)
           \o Coll(C, "Ibarrier", 6, 7) \o MPI(C, "Wait", 8, 9), <<>>)}

\* Idle states, idle gaps between states, clusters around a call (the next
\* one begins at its end, before or after the event that ends it), events in
\* the middle of a burst and streams of probes.
Cluster(who, t, v) == Ev(who, t, <<TV("cluster", v, 0)>>)
Computation ==
    {Trace(MPI(A, "Send", 2, 3) \o <<State(C, 0, 2, FALSE), State(C, 3, 5, i),
                                     Ev(C, 5, <<TV("other", "x", 1)>>)>>
           \o MPI(C, "Recv", 6, 8),
           <<Msg(A, C, 2, 2, 6, 8, "send", "Send", "recv", "Recv", None)>>) :
        i \in BOOLEAN}
    \union
    {Trace(<<State(C, 1, 3, TRUE), Ev(C, 1, <<TV("other", "x", 1)>>)>>
           \o MPI(C, "Recv", 4, 5) \o MPI(A, "Send", 1, 2),
           <<Msg(A, C, 1, 2, 4, 5, "send", "Send", "recv", "Recv", None)>>)}
    \union
    {Trace(<<Cluster(C, 1, "c1"), Cluster(C, 3, "end")>> \o mid \o
           <<Cluster(C, 7, "end")>> \o MPI(A, "Send", 3, 4),
           <<Msg(A, C, 3, 3, lr, 5, "send", "Send", "recv", "Recv", None)>>) :
        lr \in 3..5,
        mid \in {MPI(C, "Recv", 3, 5) \o <<Cluster(C, 5, "c2")>>,
                 <<Ev(C, 3, <<TV("mpi", "Recv", 0)>>), Cluster(C, 4, "c2"),
                   Ev(C, 5, <<TV("mpi", "end", 0), TV("caller", "g", 1)>>)>>}}
    \union
    {Trace(<<Ev(C, 1, <<TV("user", "f", 0)>>), Ev(C, 2, <<TV(p, "n", 0)>>),
             Ev(C, 5, <<TV(p, "n", 3)>>)>> \o MPI(C, x, 5, 6)
           \o <<Ev(C, 7, <<TV("user", "end", 0)>>), Ev(A, 0, <<TV("flush", "x", 1)>>)>>, <<>>) :
        p \in {"test", "iprobe"}, x \in {"Test", "Iprobe", "Probe"}}
    \union
    {Trace(<<Ev(C, 2, <<TV("iprobe", "n", 0)>>),
             Ev(C, 5, <<TV("iprobetime", "t", 3), TV("iprobe", "n", 2)>>)>>
           \o MPI(C, "Iprobe", 5, 6), <<>>)}

\* Calls of the accelerator libraries, each with its message to the device.
Cuda(who, v, b, e) == Call(who, "cuda", v, b, e)
Ocl(who, v, b, e) == Call(who, "ocl", v, b, e)
Accelerator ==
    {Trace(Cuda(A, v, 1, 2) \o Cuda(B, v, 2 + d, 4 + d)
           \o <<Ev(A, 6, <<TV("cuda", "sync", 0), TV("stream", "s", n)>>),
                Ev(A, 8, <<TV("cuda", "end", 0)>>)>> \o Cuda(B, "sync", 7, 8),
           <<Msg(A, B, x, x, 2 + d, 4 + d,
                 CASE v = "memcpy" -> "send" [] v = "memcpyasync" -> "isend" [] OTHER -> "syncsend",
                 v,
                 CASE v = "memcpy" -> "recv" [] v = "memcpyasync" -> "irecv" [] OTHER -> None,
                 v, None)>>) :
        v \in {"memcpy", "memcpyasync", "launch", "configure"}, d \in {0, 1}, x \in {1, 2},
        n \in {0, 1}}
    \union
    {Trace(Cuda(A, v, 3, 6) \o Cuda(B, v, 1, 5),
           <<Msg(B, A, x, x, 3, y, IF v = "memcpy" THEN "send" ELSE "isend", v,
                 IF v = "memcpy" THEN "recv" ELSE "irecv", v, None)>>) :
        v \in {"memcpy", "memcpyasync"}, x \in {1, 5}, y \in {5, 6}}
    \union
    {Trace(Ocl(A, "create", 1, 2) \o Ocl(A, "write", 3, 4) \o Ocl(A, "ndrange", 5, 6)
           \o Ocl(A, "finish", 8, 11) \o Ocl(A, "read", 12, 14)
           \o Ocl(B, "write", 3, 5) \o Ocl(B, "ndrange", 7, 10) \o Ocl(B, "read", 12, 13)
           \o Cuda(C, "launch", 1, 2) \o Ocl(C, "ndrange", 3, 4),
           <<Msg(A, B, 3, 3, 3, 5, "send", "write", "recv", "write", None),
             Msg(A, B, x, 6, 7, 7, "syncsend", "ndrange", None, "ndrange", None),
             Msg(B, A, 10, 10, 8, 11, None, "ndrange", "finishrecv", "finish", None),
             Msg(B, A, 12, 13, 12, y, "send", "read", "recv", "read", None)>>) :
        x \in {5, 6}, y \in {13, 14}}

MCTraces == OneMessage \union TwoMessages \union Exchange \union TwoPartners
              \union Collectives \union Computation \union Accelerator
=============================================================================
