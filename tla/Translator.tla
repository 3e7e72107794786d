------------------------------ MODULE Translator ------------------------------
(***************************************************************************)
(* prv2dim: a Paraver trace, one file ordered by time for the whole        *)
(* application, becomes a Dimemas trace, one sequence of actions per       *)
(* thread.  Communication records are split into their four endpoints      *)
(* (SplitCommunications), merged by time with the other records            *)
(* (SelectNextRecord), collected per thread while their times are equal    *)
(* (PushRecord), sorted and translated (ReorderAndFlush, ToDimemas), and   *)
(* the threads' outputs are joined at the end (Merge).                     *)
(*                                                                         *)
(* Sizes, tags and labels are left out.  Times are integers; a communica-  *)
(* tion is its position in the list of communications of the trace, which  *)
(* the code numbers one by one (PseudoCommId).                             *)
(***************************************************************************)
EXTENDS Integers, Sequences, FiniteSets, SequencesExt

CONSTANTS
    ThreadOrder,        \* the threads in the order of their files
    AccTasks,           \* the tasks with accelerator threads (the .row file)
    Traces,             \* the Paraver traces to translate
    GenerateFirstIdle,  \* option: write the time before the first record
    InitBarrier,        \* option: a barrier at the end of MPI_Init
    MissesThreshold     \* option: rate above which a probing area is erased

Threads == ToSet(ThreadOrder)

ASSUME TranslatorAssumption ==
    /\ AccTasks \subseteq {w[1] : w \in Threads}
    /\ GenerateFirstIdle \in BOOLEAN
    /\ InitBarrier \in BOOLEAN
    /\ MissesThreshold \in Nat

VARIABLES
    trace,      \* [records, comms]: the input
    partials,   \* the endpoints of the communications, sorted
    nextRec,    \* position of the next record of the trace
    nextComm,   \* CurrentCommunicationIndex
    lastState,  \* current_state: end of the last state of a thread, or -1
    pushes,     \* records that the main loop is handing to PushRecord
    unsorted,   \* records of a sort still to be placed
    flushing,   \* the thread in ReorderAndFlush, or Nobody
    queue,      \* its sorted records still to be translated
    info,       \* [thread -> TaskTranslationInfo]
    out,        \* [thread -> temporary file]
    pendSend,   \* pendent_i_Send_counter of a thread
    pendRecv,   \* pendent_i_Recv_counter of a thread
    stage,      \* "split", "sort", "translate", "last", "merge", "done"
    file,       \* the Dimemas trace
    offsets     \* OutputOffsets

vars == <<trace, partials, nextRec, nextComm, lastState, pushes, unsorted,
          flushing, queue, info, out, pendSend, pendRecv, stage, file, offsets>>

None == "none"
Nobody == <<0, 0>>

-----------------------------------------------------------------------------
(* Records of the Paraver trace *)

Time(r) == r.time
IsEvent(r) == r.kind = "event"
IsComm(r) == r.kind = "comm"
IsState(r) == r.kind = "state"

\* An event of one type and value; n is the value of a counter or a stream.
Event(who, time, type, value, n, order) ==
    [kind |-> "event", who |-> who, time |-> time, type |-> type,
     value |-> value, n |-> n, order |-> order]

IsMPIBlockEnd(e) == e.type \in {"mpi", "coll"} /\ e.value = "end"
IsCaller(e) == e.type \in {"caller", "callerline"}
IsBlockType(e) == e.type \in {"mpi", "coll", "user", "cluster", "cuda", "ocl"}

\* The four endpoints of communication number i.
LogicalSend(i, c) == [kind |-> "comm", who |-> c.src, partner |-> c.dst,
                      time |-> c.ls, type |-> "LS", id |-> i]
PhysicalSend(i, c) == [kind |-> "comm", who |-> c.src, partner |-> c.dst,
                       time |-> c.ps, type |-> "PS", id |-> i]
LogicalRecv(i, c) == [kind |-> "comm", who |-> c.dst, partner |-> c.src,
                      time |-> c.lr, type |-> "LR", id |-> i]
PhysicalRecv(i, c) == [kind |-> "comm", who |-> c.dst, partner |-> c.src,
                       time |-> c.pr, type |-> "PR", id |-> i]

Rank(type) == CASE type = "LR" -> 1 [] type = "LS" -> 2
                [] type = "PS" -> 3 [] type = "PR" -> 4

\* InBlockComparison: communications first, receives before sends, events in
\* trace order with the callers last.
InBlockLess(r, s) ==
    IF r.time # s.time THEN r.time < s.time
    ELSE CASE IsComm(r) /\ IsEvent(s) -> TRUE
           [] IsEvent(r) /\ IsComm(s) -> FALSE
           [] IsComm(r) /\ IsComm(s) ->
                IF r.type = s.type THEN r.id < s.id
                                   ELSE Rank(r.type) < Rank(s.type)
           [] OTHER ->
                IF r.type = "caller" /\ s.type = "callerline" THEN TRUE
                ELSE IF IsCaller(r) THEN FALSE
                ELSE IF IsCaller(s) THEN TRUE
                ELSE IF {r.type, s.type} = {"iprobe", "iprobetime"}
                     THEN r.type = "iprobe"
                ELSE r.order < s.order

\* OutBlockComparison: a communication after the events that do not end a
\* block, in no order against those that do.
OutBlockLess(r, s) ==
    IF r.time # s.time THEN r.time < s.time
    ELSE CASE IsComm(r) /\ IsEvent(s) -> FALSE
           [] IsEvent(r) /\ IsComm(s) -> ~IsMPIBlockEnd(r)
           [] IsComm(r) /\ IsComm(s) ->
                \/ r.type = "LS" /\ s.type = "PS"
                \/ r.type = "PS" /\ s.type = "PR"
           [] OTHER ->
                IF {r.type, s.type} = {"iprobe", "iprobetime"}
                THEN r.type = "iprobe"
                ELSE IF r.type = "iprobetime" /\ s.type = "cluster" THEN TRUE
                ELSE IF r.type = "cluster" /\ s.type = "iprobetime" THEN FALSE
                ELSE r.order < s.order

\* std::sort on the few records of one instant: insertion from the end, or
\* to the front when less than the first.
Insert(s, r, Less(_, _)) ==
    LET stays == {i \in DOMAIN s : ~Less(r, s[i])}
        at == IF s = <<>> \/ Less(r, s[1]) THEN 1
              ELSE 1 + (CHOOSE i \in stays : \A j \in stays : j <= i)
    IN  InsertAt(s, at, r)

-----------------------------------------------------------------------------
(* What is written: bursts, blocks, endpoints and operations.              *)

Rec(op, call, id, len) == [op |-> op, call |-> call, id |-> id, len |-> len]
Burst(len) == Rec("burst", None, 0, len)
Begin(call) == Rec("begin", call, 0, 0)
End(call) == Rec("end", call, 0, 0)
Endpoint(op, id) == Rec(op, None, id, 0)

\* A thread under translation: its TaskTranslationInfo i, its file o.
Write(s, r) == [s EXCEPT !.o = Append(@, r)]
WriteAll(s, rs) == [s EXCEPT !.o = @ \o rs]

\* GenerateBurst and GenerateGPUBurst without burst counters.
GenerateBurst(s, t) == Write(s, Burst(t - s.i.lastEnd))
BurstUpTo(s, t) == IF t > s.i.lastEnd THEN GenerateBurst(s, t) ELSE s
GenerateGPUBurst(s, t, from) == Write(s, Rec("gpuburst", None, 0, t - from))

\* Threads of an accelerated task: the first one is the host.
Role(who) ==
    CASE who[1] \notin AccTasks -> "task"
      [] who[1] \in AccTasks /\ who[2] = 1 -> "host"
      [] OTHER -> "kernel"

\* The time of the first event or state of a thread; 0 if it has none.
FirstRecordTime(who) ==
    LET mine == {i \in DOMAIN trace.records : trace.records[i].who = who}
    IN  IF mine = {} THEN 0
        ELSE trace.records[CHOOSE i \in mine : \A j \in mine : i <= j].time

\* The state of a thread before its first record.
NewInfo(who) ==
    [stack |-> <<>>, mpi |-> <<>>, user |-> <<>>, cluster |-> <<>>,
     cuda |-> <<>>, ocl |-> <<>>, sync |-> FALSE,
     lastEnd |-> IF GenerateFirstIdle /\ who[2] # 1 THEN 0 ELSE FirstRecordTime(who),
     lastGpu |-> FirstRecordTime(who), printed |-> FALSE, waitComm |-> FALSE,
     glop |-> None, fields |-> 0, inFlight |-> <<>>, flushCluster |-> FALSE,
     stream |-> 0, oclFinish |-> FALSE,
     ongoing |-> [test |-> FALSE, iprobe |-> FALSE],
     flushed |-> [test |-> FALSE, iprobe |-> FALSE],
     warnings |-> {}]

\* The constructor writes the burst every trace must start with and, if asked
\* to, the time before the first record as an idle block.
FirstRecords(who) ==
    (IF who[2] = 1 \/ Role(who) = "kernel" THEN <<Burst(0)>> ELSE <<>>)
    \o (IF GenerateFirstIdle /\ who[2] = 1
        THEN <<Begin("idle"), Burst(FirstRecordTime(who)), End("idle")>>
        ELSE <<>>)

-----------------------------------------------------------------------------
(* Events                                                                  *)

InCall(s) == s.i.mpi # <<>> \/ s.i.cuda # <<>> \/ s.i.ocl # <<>>

\* Event2GlobalOp: a field of the collective being collected.
CollectField(s, e) ==
    IF s.i.glop # None /\ e.type = "size" THEN [s EXCEPT !.i.fields = @ + 1]
                                         ELSE s

\* The event that opens a collective starts its record.
StartGlobalOp(s, e) ==
    IF e.type = "coll" /\ e.value # "end"
    THEN [s EXCEPT !.i.glop = e.value, !.i.fields = 1] ELSE s

IsNonBlocking(op) == op = "Ibarrier"

\* ToDimemas of a collective.
WriteGlobalOp(s, op) ==
    LET w == Write(s, Rec("glop", op, 0, 0))
    IN  IF IsNonBlocking(op) THEN [w EXCEPT !.i.inFlight = Append(@, op)] ELSE w

\* FinalizeGlobalOp: the collective is written when its instant is over.
FinalizeGlobalOp(s) ==
    LET w == IF s.i.fields >= 2 THEN WriteGlobalOp(s, s.i.glop) ELSE s
    IN  IF s.i.glop = None THEN s
        ELSE [w EXCEPT !.i.glop = None, !.i.fields = 0]

\* An area of calls that only tested: opened by a counter of 0, closed by the
\* number of calls; busy areas are erased when a threshold is set.
ProbeArea(s, e, which) ==
    LET len == e.time - s.i.lastEnd
        kept == MissesThreshold = 0 \/ e.n < MissesThreshold * len
        close(w) == [w EXCEPT !.i.ongoing[which] = FALSE,
                              !.i.flushed[which] = TRUE,
                              !.i.lastEnd = e.time]
    IN  CASE e.type = which /\ e.n = 0 ->
               [GenerateBurst(s, e.time) EXCEPT !.i.lastEnd = e.time,
                                                !.i.ongoing[which] = TRUE]
          [] e.type = which /\ e.n # 0 /\ s.i.ongoing[which] ->
               close(Write(s, Burst(IF kept THEN len ELSE 0)))
          [] OTHER -> s

CheckTestCounters(s, e) == ProbeArea(s, e, "test")

\* Iprobe also has the time spent as a counter, used when no rate is asked for.
CheckIprobeCounters(s, e) ==
    IF e.type = "iprobetime" /\ e.n # 0 /\ s.i.ongoing.iprobe
       /\ MissesThreshold = 0
    THEN [Write(s, Burst(e.n)) EXCEPT !.i.ongoing.iprobe = FALSE,
                                      !.i.flushed.iprobe = TRUE,
                                      !.i.lastEnd = e.time]
    ELSE ProbeArea(s, e, "iprobe")

\* Mutant: an event cuts the burst in a call as well.
CutsBurstInCalls(s, e) ==
    /\ s.i.lastEnd # e.time \/ e.time = 0
    /\ e.type \notin {"flush", "iprobe", "iprobetime"}

\* An event in the middle of a burst cuts it.
CutsBurst(s, e) ==
    /\ s.i.lastEnd # e.time \/ e.time = 0
    /\ ~InCall(s)
    /\ e.type \notin {"flush", "iprobe", "iprobetime"}

\* An event that is no block, with the burst before it.
OtherEvent(s, e) ==
    LET b == IF CutsBurst(s, e) THEN [GenerateBurst(s, e.time) EXCEPT !.i.lastEnd = e.time]
             ELSE s
        c == IF e.type = "stream" /\ s.i.sync
             THEN [b EXCEPT !.i.stream = e.n] ELSE b
    IN  Write(c, Rec("event", e.type, 0, 0))

\* The device waits for its host at the start of every call.
KernelWaits == <<Begin("idle"), Rec("syncrecv", None, 0, 0), End("idle")>>

CudaBegin(who, s, e) ==
    LET b == IF Role(who) = "host" THEN BurstUpTo(s, e.time) ELSE s
        w == IF Role(who) = "kernel" /\ e.value # "sync"
             THEN WriteAll(b, KernelWaits) ELSE b
    IN  [Write(w, Begin(e.value)) EXCEPT !.i.cuda = Append(@, e.value),
                                         !.i.sync = @ \/ e.value = "sync",
                                         !.i.lastEnd = e.time]

CudaEnd(who, s, e) ==
    LET call == Last(s.i.cuda)
        closed == [s EXCEPT !.i.cuda = Front(@)]
        w == CASE call \in {"launch", "configure"} /\ Role(who) = "kernel" ->
                    GenerateGPUBurst(closed, e.time, s.i.lastEnd)
               [] call = "sync" ->
                    [Write(closed, Rec("accbarrier", None,
                        IF Role(who) = "host" THEN s.i.stream ELSE 0, 0))
                     EXCEPT !.i.stream = 0, !.i.sync = FALSE]
               [] OTHER -> closed
    IN  IF s.i.cuda = <<>> THEN [Write(s, End("cuda")) EXCEPT !.i.lastEnd = e.time]
        ELSE [Write(w, End(call)) EXCEPT !.i.lastEnd = e.time]

OclBegin(who, s, e) ==
    LET b == IF Role(who) = "host" THEN BurstUpTo(s, e.time) ELSE s
        w == IF Role(who) = "kernel" /\ e.value # "finish"
             THEN WriteAll(b, KernelWaits) ELSE b
        g == IF Role(who) = "kernel" /\ e.value = "ndrange"
             THEN [w EXCEPT !.i.lastGpu = e.time] ELSE w
    IN  [Write(g, Begin(e.value)) EXCEPT !.i.ocl = Append(@, e.value),
                                         !.i.sync = @ \/ e.value = "finish",
                                         !.i.lastEnd = e.time]

\* The send that tells the host that a kernel is over follows its burst.
OclEnd(who, s, e) ==
    LET call == Last(s.i.ocl)
        closed == [s EXCEPT !.i.ocl = Front(@)]
        run == GenerateGPUBurst(closed, e.time, s.i.lastGpu)
        w == CASE call = "ndrange" /\ Role(who) = "kernel" ->
                    IF s.i.oclFinish
                    THEN [Write(run, Rec("finishsend", None, 0, 0))
                          EXCEPT !.i.oclFinish = FALSE]
                    ELSE run
               [] call = "create" /\ Role(who) = "host" ->
                    GenerateGPUBurst(closed, e.time, s.i.lastEnd)
               [] OTHER -> closed
    IN  IF s.i.ocl = <<>> THEN [Write(s, End("ocl")) EXCEPT !.i.lastEnd = e.time]
        ELSE [Write(w, End(call)) EXCEPT !.i.lastEnd = e.time]

\* FlushClusterStack
Late(s) == s.i.mpi # <<>>

\* A cluster that begins inside a call is written after the call.
ClusterEvent(s, e) ==
    LET late == Late(s)
        b == IF late THEN s ELSE Write(s, Begin("cluster"))
        u == BurstUpTo([s EXCEPT !.i.cluster = Front(@)], e.time)
        f == IF e.time > s.i.lastEnd THEN [u EXCEPT !.i.lastEnd = e.time] ELSE u
    IN  CASE e.value # "end" ->
               [b EXCEPT !.i.flushCluster = late, !.i.lastEnd = e.time,
                         !.i.cluster = Append(@, e.value)]
          [] e.value = "end" /\ s.i.cluster = <<>> -> s
          [] OTHER -> Write(f, End("cluster"))

MPIBegin(s, e) ==
    LET skip == \/ e.value = "Iprobe" /\ s.i.flushed.iprobe
                \/ e.value = "Test" /\ s.i.flushed.test
        b == IF skip THEN s ELSE BurstUpTo(s, e.time)
    IN  [Write(b, Begin(e.value)) EXCEPT
            !.i.mpi = Append(@, e.value), !.i.printed = FALSE,
            !.i.waitComm = IF e.value = "Wait" THEN FALSE ELSE @,
            !.i.ongoing = [test |-> FALSE, iprobe |-> FALSE],
            !.i.flushed = [test |-> FALSE, iprobe |-> FALSE]]

\* The end of a call.  A Wait in which nothing was received is taken for the
\* wait of the oldest non-blocking collective.
MPIEnd(s, e) ==
    LET call == Last(s.i.mpi)
        p == [s EXCEPT !.i.mpi = Front(@), !.i.lastEnd = e.time]
        b == IF call = "Init" /\ InitBarrier
             THEN [Write(p, Rec("glop", "initbarrier", 0, 0)) EXCEPT !.i.printed = TRUE]
             ELSE p
        w == IF call = "Wait" /\ ~s.i.waitComm /\ s.i.inFlight # <<>>
             THEN [Write(b, Rec("glopwait", Head(s.i.inFlight), 0, 0))
                   EXCEPT !.i.inFlight = Tail(@)]
             ELSE b
        n == IF w.i.printed THEN w ELSE Write(w, Rec("noop", None, 0, 0))
        x == Write(n, End(call))
    IN  CASE s.i.mpi = <<>> -> s
          [] s.i.mpi # <<>> /\ s.i.flushCluster ->
                [Write(x, Begin("cluster")) EXCEPT !.i.flushCluster = FALSE]
          [] OTHER -> x

UserEvent(s, e) ==
    LET u == [BurstUpTo(s, e.time) EXCEPT !.i.lastEnd = e.time]
    IN  CASE e.value # "end" ->
               [Write(u, Begin("user")) EXCEPT
                    !.i.user = Append(@, e.value),
                    !.i.ongoing = [test |-> FALSE, iprobe |-> FALSE]]
          [] e.value = "end" /\ s.i.user = <<>> -> s
          [] OTHER -> [Write(u, End("user")) EXCEPT !.i.user = Front(@)]

\* ToDimemas of an event: what every event does first, and its block.
Collected(s, e) ==
    CheckTestCounters(CheckIprobeCounters(StartGlobalOp(CollectField(s, e), e), e), e)

EventToDimemas(who, c, e) ==
    LET acc == Role(who) # "task"
    IN  CASE ~IsBlockType(e) -> OtherEvent(c, e)
          [] e.type = "cuda" -> IF ~acc THEN c
                                ELSE IF e.value # "end" THEN CudaBegin(who, c, e)
                                ELSE CudaEnd(who, c, e)
          [] e.type = "ocl" -> IF ~acc THEN c
                               ELSE IF e.value # "end" THEN OclBegin(who, c, e)
                               ELSE OclEnd(who, c, e)
          [] e.type = "cluster" -> ClusterEvent(c, e)
          [] e.type = "user" -> UserEvent(c, e)
          [] OTHER -> IF e.value # "end" THEN MPIBegin(c, e) ELSE MPIEnd(c, e)

-----------------------------------------------------------------------------
(* Endpoints: what a call writes for each of them, and the warning it      *)
(* raises.  A call writes nothing for the endpoints that it leaves out.    *)

Effect(ops, printed, warning) ==
    [ops |-> ops, printed |-> printed, warning |-> warning]
Silent == Effect(<<>>, FALSE, {})
Wrong == Effect(<<>>, FALSE, {"wrong"})

RecvCall(type) ==                           \* Recv, Mrecv
    CASE type = "LR" -> Effect(<<"recv">>, TRUE, {})
      [] type = "PR" -> Silent
      [] OTHER -> Wrong

SendCall(type) ==                           \* Rsend, Send, Ssend, Probe, Mprobe
    CASE type = "LS" -> Effect(<<"send">>, TRUE, {})
      [] type = "PR" -> Effect(<<"wait">>, FALSE, {})
      [] OTHER -> Wrong

IsendCall(type) ==                          \* Bsend, Isend, Issend, Irsend, Iprobe
    CASE type = "LS" -> Effect(<<"isend">>, TRUE, {})
      [] type = "PR" -> Effect(<<"wait">>, FALSE, {})
      [] OTHER -> Wrong

IrecvCall(type) ==                          \* Irecv, Imrecv
    CASE type = "LR" -> Effect(<<"irecv">>, TRUE, {})
      [] type = "PR" -> Silent
      [] OTHER -> Wrong

WaitCall(type) ==
    CASE type = "PR" -> Effect(<<"wait">>, TRUE, {})
      [] type = "LR" -> Silent
      [] OTHER -> Wrong

WaitallCall(type) ==                        \* Waitany, Waitall, Waitsome, Test*
    CASE type = "PR" -> Effect(<<"wait">>, TRUE, {"nondeterministic"})
      [] type = "LR" -> Silent
      [] OTHER -> Wrong

\* Mutant: Sendrecv does not wait for what it receives.
SendrecvCallNoWait(type) ==
    CASE type = "LR" -> Effect(<<"irecv">>, TRUE, {})
      [] type = "LS" -> Effect(<<"send">>, TRUE, {})
      [] OTHER -> Silent

SendrecvCall(type) ==                       \* Sendrecv, Sendrecv_replace
    CASE type = "LR" -> Effect(<<"irecv">>, TRUE, {})
      [] type = "LS" -> Effect(<<"send">>, TRUE, {})
      [] type = "PR" -> Effect(<<"wait">>, TRUE, {})
      [] OTHER -> Silent

StartCall(type) ==                          \* Start, Startall
    CASE type = "LS" -> Effect(<<"send">>, TRUE, {})
      [] type = "LR" -> Effect(<<"irecv">>, TRUE, {})
      [] OTHER -> Silent

MPIEffect(call, type) ==
    CASE call = "Recv" -> RecvCall(type)
      [] call = "Send" -> SendCall(type)
      [] call = "Isend" -> IsendCall(type)
      [] call = "Irecv" -> IrecvCall(type)
      [] call = "Wait" -> WaitCall(type)
      [] call \in {"Waitall", "Test"} -> WaitallCall(type)
      [] call = "Sendrecv" -> SendrecvCall(type)
      [] call = "Start" -> StartCall(type)
      [] OTHER -> Silent

\* A copy between host and device; the host first tells the device.
CudaMemcpy(who, type) ==
    LET tell == IF Role(who) = "host" THEN <<"syncsend">> ELSE <<>>
    IN  CASE type = "LS" -> Effect(tell \o <<"send">>, FALSE, {})
          [] type = "LR" -> Effect(tell \o <<"recv">>, TRUE, {})
          [] OTHER -> Silent

CudaMemcpyAsync(who, type) ==
    LET tell == IF Role(who) = "host" THEN <<"syncsend">> ELSE <<>>
    IN  CASE type = "LS" -> Effect(tell \o <<"isend">>, FALSE, {})
          [] type = "LR" -> Effect(tell \o <<"irecv">>, TRUE, {})
          [] OTHER -> Silent

CudaEffect(who, call, type) ==
    CASE call = "memcpy" -> CudaMemcpy(who, type)
      [] call = "memcpyasync" -> CudaMemcpyAsync(who, type)
      [] call \in {"configure", "launch"} /\ type = "LS" ->
            Effect(<<"syncsend">>, FALSE, {})
      [] OTHER -> Silent

OclHost(call, type) ==
    CASE call = "write" /\ type = "LS" -> Effect(<<"syncsend", "send">>, FALSE, {})
      [] call = "finish" /\ type = "LR" -> Effect(<<"finishrecv">>, FALSE, {})
      [] call = "read" /\ type = "LR" -> Effect(<<"syncsend", "recv">>, FALSE, {})
      [] call = "ndrange" /\ type = "LS" -> Effect(<<"syncsend">>, FALSE, {})
      [] OTHER -> Silent

OclAccelerator(call, type) ==
    CASE call = "write" /\ type = "LR" -> Effect(<<"recv">>, FALSE, {})
      [] call = "read" /\ type = "LS" -> Effect(<<"send">>, FALSE, {})
      [] OTHER -> Silent

\* ToDimemas of an endpoint.
CommEffect(who, s, c) ==
    CASE ~InCall(s) -> Effect(<<>>, FALSE, {"outside"})
      [] s.i.mpi # <<>> -> MPIEffect(Last(s.i.mpi), c.type)
      [] s.i.mpi = <<>> /\ s.i.cuda # <<>> ->
            CudaEffect(who, Last(s.i.cuda), c.type)
      [] OTHER -> IF Role(who) = "host" THEN OclHost(Last(s.i.ocl), c.type)
                                        ELSE OclAccelerator(Last(s.i.ocl), c.type)

CommToDimemas(who, s, c) ==
    LET x == CommEffect(who, s, c)
        device == s.i.mpi = <<>> /\ s.i.cuda = <<>> /\ s.i.ocl # <<>>
                    /\ Role(who) = "kernel"
        w == WriteAll(s, [k \in 1..Len(x.ops) |-> Endpoint(x.ops[k], c.id)])
    IN  [w EXCEPT !.i.printed = @ \/ x.printed,
                  !.i.waitComm = @ \/ (InCall(s) /\ s.i.mpi # <<>>
                                        /\ Last(s.i.mpi) = "Wait" /\ c.type = "PR"),
                  !.i.oclFinish = @ \/ (device /\ Last(s.i.ocl) = "ndrange"),
                  !.i.warnings = @ \union x.warning]

\* The statistics of endpoints still without a partner, which an MPI call
\* updates in its own thread or in the main thread of its partner: one number
\* for each direction, whoever the partner is.
MainThread(who) == <<who[1], 1>>

\* Mutant: the receives of Sendrecv are not counted.
CountsSendsOfSendrecv(s, c) ==
    /\ s.i.mpi # <<>>
    /\ \/ c.type = "LS" /\ Last(s.i.mpi) \in {"Send", "Isend", "Sendrecv", "Start"}
       \/ c.type = "LR" /\ Last(s.i.mpi) \in {"Recv", "Irecv", "Start"}

Counts(s, c) ==
    /\ s.i.mpi # <<>>
    /\ \/ c.type = "LS" /\ Last(s.i.mpi) \in {"Send", "Isend", "Sendrecv", "Start"}
       \/ c.type = "LR" /\ Last(s.i.mpi) \in {"Recv", "Irecv", "Sendrecv", "Start"}

CountEndpoint(who, c) ==
    LET other == MainThread(c.partner)
    IN  IF c.type = "LS"
        THEN IF pendRecv[other] = 0
             THEN /\ pendSend' = [pendSend EXCEPT ![who] = @ + 1]
                  /\ UNCHANGED pendRecv
             ELSE /\ pendRecv' = [pendRecv EXCEPT ![other] = @ - 1]
                  /\ UNCHANGED pendSend
        ELSE IF pendSend[other] = 0
             THEN /\ pendRecv' = [pendRecv EXCEPT ![who] = @ + 1]
                  /\ UNCHANGED pendSend
             ELSE /\ pendSend' = [pendSend EXCEPT ![other] = @ - 1]
                  /\ UNCHANGED pendRecv

-----------------------------------------------------------------------------
(* The main loop                                                           *)

Init ==
    /\ trace \in Traces
    /\ partials = <<>> /\ nextRec = 1 /\ nextComm = 1
    /\ lastState = [w \in Threads |-> -1]
    /\ pushes = <<>> /\ unsorted = <<>> /\ flushing = Nobody /\ queue = <<>>
    /\ info = [w \in Threads |-> NewInfo(w)]
    /\ out = [w \in Threads |-> FirstRecords(w)]
    /\ pendSend = [w \in Threads |-> 0] /\ pendRecv = [w \in Threads |-> 0]
    /\ stage = "split" /\ file = <<>> /\ offsets = <<>>

\* First pass over the trace: every communication becomes its endpoints,
\* and these are sorted.
SplitCommunications ==
    /\ stage = "split"
    /\ unsorted' = FlattenSeq([i \in DOMAIN trace.comms |->
                        LET c == trace.comms[i]
                        IN  <<LogicalSend(i, c), LogicalRecv(i, c),
                              PhysicalSend(i, c), PhysicalRecv(i, c)>>])
    /\ stage' = "sort"
    /\ UNCHANGED <<trace, partials, nextRec, nextComm, lastState, pushes, flushing,
                   queue, info, out, pendSend, pendRecv, file, offsets>>

SortCommunications ==
    /\ stage = "sort"
    /\ IF unsorted = <<>>
       THEN stage' = "translate" /\ UNCHANGED <<unsorted, partials>>
       ELSE /\ partials' = Insert(partials, Head(unsorted), InBlockLess)
            /\ unsorted' = Tail(unsorted)
            /\ UNCHANGED stage
    /\ UNCHANGED <<trace, nextRec, nextComm, lastState, pushes, flushing, queue,
                   info, out, pendSend, pendRecv, file, offsets>>

\* SelectNextRecord: whether the next record comes from the trace.  Of two
\* simultaneous ones of a task the endpoint goes first at the end of a call.
TakesRecord ==
    /\ nextRec <= Len(trace.records)
    /\ \/ nextComm > Len(partials)
       \/ LET r == trace.records[nextRec]
              c == partials[nextComm]
          IN  \/ r.time < c.time
              \/ /\ r.time = c.time
                 /\ r.who[1] = c.who[1]
                 /\ ~(IsEvent(r) /\ IsMPIBlockEnd(r.tvs[1]))

IdleBlock(who, from, to, order) ==
    <<Event(who, from, "idle", "begin", 0, order),
      Event(who, to, "idle", "end", 0, order + 1)>>

\* CheckIdleState: time that no state covers is idle.
IdleGap(r, order) ==
    IF lastState[r.who] # -1 /\ lastState[r.who] < r.time
    THEN IdleBlock(r.who, lastState[r.who], r.time, order + 1) ELSE <<>>

\* An event of several types becomes as many events.
SubEvents(r, order) ==
    [k \in DOMAIN r.tvs |->
        Event(r.who, r.time, r.tvs[k].type, r.tvs[k].value, r.tvs[k].n,
              IF Len(r.tvs) = 1 THEN order ELSE order + 2 + k)]

TranslateNext ==
    /\ stage = "translate" /\ pushes = <<>> /\ flushing = Nobody
    /\ UNCHANGED <<trace, partials, unsorted, flushing, queue, info, out, pendSend,
                   pendRecv, file, offsets>>
    /\ LET r == IF TakesRecord THEN trace.records[nextRec] ELSE partials[nextComm]
           order == 10 * nextRec
       IN  CASE TakesRecord /\ IsState(r) ->
                  /\ nextRec' = nextRec + 1
                  /\ pushes' = IF r.idle THEN IdleBlock(r.who, r.time, r.end, order)
                                         ELSE <<>>
                  /\ lastState' = [lastState EXCEPT ![r.who] = r.end]
                  /\ UNCHANGED <<nextComm, stage>>
             [] TakesRecord /\ IsEvent(r) ->
                  /\ nextRec' = nextRec + 1
                  /\ pushes' = IdleGap(r, order) \o SubEvents(r, order)
                  /\ lastState' = IF IdleGap(r, order) = <<>> THEN lastState
                                  ELSE [lastState EXCEPT ![r.who] = r.time]
                  /\ UNCHANGED <<nextComm, stage>>
             [] ~TakesRecord /\ nextComm <= Len(partials) ->
                  /\ nextComm' = nextComm + 1
                  /\ pushes' = Append(IdleGap(r, order), r)
                  /\ lastState' = IF IdleGap(r, order) = <<>> THEN lastState
                                  ELSE [lastState EXCEPT ![r.who] = r.time]
                  /\ UNCHANGED <<nextRec, stage>>
             [] OTHER ->
                  /\ stage' = "last"
                  /\ UNCHANGED <<nextRec, nextComm, pushes, lastState>>

PushRecord ==
    /\ pushes # <<>> /\ flushing = Nobody
    /\ pushes' = Tail(pushes)
    /\ UNCHANGED <<trace, partials, nextRec, nextComm, lastState, queue, out,
                   pendSend, pendRecv, stage, file, offsets>>
    /\ LET r == Head(pushes)
           stack == info[r.who].stack
           flush(s, rest) == /\ flushing' = r.who
                             /\ unsorted' = s
                             /\ info' = [info EXCEPT ![r.who].stack = rest]
           keep(s) == /\ info' = [info EXCEPT ![r.who].stack = s]
                      /\ UNCHANGED <<flushing, unsorted>>
       IN  CASE stack = <<>> -> keep(<<r>>)
             [] stack # <<>> /\ Last(stack).time < r.time -> flush(stack, <<r>>)
             [] stack # <<>> /\ Last(stack).time = r.time ->
                  IF IsEvent(r) /\ IsMPIBlockEnd(r) THEN flush(Append(stack, r), <<>>)
                                                  ELSE keep(Append(stack, r))
             [] OTHER ->
                  /\ info' = [info EXCEPT ![r.who].warnings = @ \union {"disordered"}]
                  /\ UNCHANGED <<flushing, unsorted>>

\* ReorderAndFlush: the records of the instant are sorted ...
Reorder ==
    /\ flushing # Nobody /\ unsorted # <<>>
    /\ queue' = IF InCall([i |-> info[flushing]])
                THEN Insert(queue, Head(unsorted), InBlockLess)
                ELSE Insert(queue, Head(unsorted), OutBlockLess)
    /\ unsorted' = Tail(unsorted)
    /\ UNCHANGED <<trace, partials, nextRec, nextComm, lastState, pushes, flushing,
                   info, out, pendSend, pendRecv, stage, file, offsets>>

\* ... and translated one by one.
ToDimemas ==
    /\ flushing # Nobody /\ unsorted = <<>> /\ queue # <<>>
    /\ queue' = Tail(queue)
    /\ LET r == Head(queue)
           s == [i |-> info[flushing], o |-> out[flushing]]
       IN  /\ \E c \in {IF IsEvent(r) THEN Collected(s, r) ELSE s} :
              \E t \in {IF IsEvent(r) THEN EventToDimemas(flushing, c, r)
                                     ELSE CommToDimemas(flushing, c, r)} :
                /\ info' = [info EXCEPT ![flushing] = t.i]
                /\ out' = [out EXCEPT ![flushing] = t.o]
           /\ IF IsComm(r) /\ Counts(s, r) THEN CountEndpoint(flushing, r)
                                          ELSE UNCHANGED <<pendSend, pendRecv>>
    /\ UNCHANGED <<trace, partials, nextRec, nextComm, lastState, pushes, unsorted,
                   flushing, stage, file, offsets>>

\* Mutant: a flush that leaves a collective pending is not over.
FlushOverNoCollective ==
    /\ flushing # Nobody /\ unsorted = <<>> /\ queue = <<>>
    /\ info[flushing].glop = None
    /\ flushing' = Nobody
    /\ UNCHANGED <<trace, partials, nextRec, nextComm, lastState, pushes, unsorted,
                   queue, info, out, pendSend, pendRecv, stage, file, offsets>>

FlushOver ==
    /\ flushing # Nobody /\ unsorted = <<>> /\ queue = <<>>
    /\ LET t == FinalizeGlobalOp([i |-> info[flushing], o |-> out[flushing]])
       IN  /\ info' = [info EXCEPT ![flushing] = t.i]
           /\ out' = [out EXCEPT ![flushing] = t.o]
    /\ flushing' = Nobody
    /\ UNCHANGED <<trace, partials, nextRec, nextComm, lastState, pushes, unsorted,
                   queue, pendSend, pendRecv, stage, file, offsets>>

\* After the last record every thread flushes what it has kept.
LastFlush ==
    LET left == SelectSeq(ThreadOrder, LAMBDA w : info[w].stack # <<>>)
    IN  /\ stage = "last" /\ flushing = Nobody
        /\ IF left = <<>>
           THEN /\ stage' = "merge"
                /\ UNCHANGED <<flushing, unsorted, info>>
           ELSE /\ flushing' = Head(left)
                /\ unsorted' = info[Head(left)].stack
                /\ info' = [info EXCEPT ![Head(left)].stack = <<>>]
                /\ UNCHANGED stage
        /\ UNCHANGED <<trace, partials, nextRec, nextComm, lastState, pushes, queue,
                       out, pendSend, pendRecv, file, offsets>>

\* The files of the threads, in order, with the place where each begins.
Merge ==
    /\ stage = "merge"
    /\ IF Len(offsets) = Len(ThreadOrder)
       THEN stage' = "done" /\ UNCHANGED <<file, offsets>>
       ELSE /\ offsets' = Append(offsets, Len(file))
            /\ file' = file \o out[ThreadOrder[Len(offsets) + 1]]
            /\ UNCHANGED stage
    /\ UNCHANGED <<trace, partials, nextRec, nextComm, lastState, pushes, unsorted,
                   flushing, queue, info, out, pendSend, pendRecv>>

Next == SplitCommunications \/ SortCommunications \/ TranslateNext \/ PushRecord
            \/ Reorder \/ ToDimemas \/ FlushOver \/ LastFlush \/ Merge

Spec == Init /\ [][Next]_vars /\ WF_vars(Next)

-----------------------------------------------------------------------------
(* Properties.  A communication of the input also says which operations    *)
(* and calls it came from: sop and scall at its source, rop, rcall and     *)
(* wcall (the call that completed it) at its destination.                  *)

Done == stage = "done"

\* The part of the Dimemas trace that OutputOffsets gives to thread w.
Section(w) ==
    LET k == CHOOSE j \in DOMAIN ThreadOrder : ThreadOrder[j] = w
    IN  SubSeq(file, offsets[k] + 1,
               IF k = Len(ThreadOrder) THEN Len(file) ELSE offsets[k + 1])

\* Positions of operation op of communication id in s.
At(s, op, id) == {p \in DOMAIN s : s[p].op = op /\ s[p].id = id}

Depth(s, p) == Cardinality({q \in 1..p : s[q].op = "begin"})
                 - Cardinality({q \in 1..p : s[q].op = "end"})

\* Position p of s is inside a block of the given call.
Inside(s, p, call) ==
    \E q \in 1..p : /\ s[q] = Begin(call)
                    /\ \A x \in q..p : s[x] # End(call)

WrittenIn(s, op, id, call) ==
    /\ Cardinality(At(s, op, id)) = 1
    /\ \A p \in At(s, op, id) : Inside(s, p, call)

TypeOK ==
    /\ stage \in {"split", "sort", "translate", "last", "merge", "done"}
    /\ nextRec \in 1..Len(trace.records) + 1
    /\ nextComm \in 1..Len(partials) + 1
    /\ flushing \in Threads \union {Nobody}
    /\ DOMAIN info = Threads /\ DOMAIN out = Threads
    /\ \A w \in Threads : /\ lastState[w] \in Nat \union {-1}
                          /\ pendSend[w] \in Nat /\ pendRecv[w] \in Nat
                          /\ \A r \in ToSet(info[w].stack) : r.who = w
    /\ Len(offsets) <= Len(ThreadOrder)

\* Every communication of the input is in the Dimemas trace once at each of
\* its ends, as the operation and inside the block of the call that made it,
\* and is waited for once, inside the call that completed it, exactly when
\* it was received without blocking.
EndpointsKept ==
    Done => \A i \in DOMAIN trace.comms :
        LET c == trace.comms[i]
            s == Section(c.src)
            d == Section(c.dst)
        IN  /\ c.sop # None => WrittenIn(s, c.sop, i, c.scall)
            /\ c.rop # None => WrittenIn(d, c.rop, i, c.rcall)
            /\ IF c.wcall # None
               THEN /\ WrittenIn(d, "wait", i, c.wcall)
                    /\ \A p \in At(d, c.rop, i), q \in At(d, "wait", i) : p < q
               ELSE At(d, "wait", i) = {}

\* The blocks of every thread open and close like brackets, although clusters
\* begin inside calls and records of one instant are sorted twice.
BlocksNested ==
    Done => \A w \in Threads :
        LET s == Section(w)
        IN  /\ \A p \in DOMAIN s : s[p].op = "end" =>
                 \E q \in 1..p : /\ s[q] = Begin(s[p].call)
                                 /\ Depth(s, q) = Depth(s, p) + 1
                                 /\ \A x \in q..(p - 1) : Depth(s, x) > Depth(s, p)
            /\ s # <<>> => Depth(s, Len(s)) = 0

\* The time a thread computes plus the time it was inside calls is the time
\* of its last translated record: no interval is lost or counted twice when
\* events cut a burst.
TimeConserved ==
    Done => \A w \in Threads : Role(w) # "kernel" =>
        FoldLeft(LAMBDA n, r : n + (IF r.op = "burst" THEN r.len ELSE 0),
                 trace.inCalls[w], Section(w)) = info[w].lastEnd

\* Every non-blocking collective is waited for once, in the order of their
\* starts and never before its start, even if other Waits complete messages.
GlopsWaited ==
    Done => \A w \in Threads :
        LET s == Section(w)
            starts == SelectSeq(s, LAMBDA r : r.op = "glop" /\ IsNonBlocking(r.call))
            waits == SelectSeq(s, LAMBDA r : r.op = "glopwait")
        IN  /\ Len(starts) = Len(waits)
            /\ Len(SelectSeq(s, LAMBDA r : r.op = "glop")) = trace.glops[w]
            /\ \A p \in DOMAIN s :
                 Cardinality({q \in 1..p : s[q].op = "glopwait"})
                    <= Cardinality({q \in 1..p : s[q].op = "glop" /\ IsNonBlocking(s[q].call)})

\* Host and device agree: for every synchronisation one writes, the other
\* writes its partner, in both directions, or the simulation would block.
AcceleratorPaired ==
    Done => \A k \in Threads : Role(k) = "kernel" =>
        LET host == Section(MainThread(k))
            device == Section(k)
            n(s, op) == Len(SelectSeq(s, LAMBDA r : r.op = op))
        IN  /\ n(host, "syncsend") = n(device, "syncrecv")
            /\ n(host, "finishrecv") = n(device, "finishsend")
            /\ n(host, "accbarrier") = n(device, "accbarrier")

\* The threads that exchange messages with the task of w.
Peers(w) ==
    LET comms == ToSet(trace.comms)
    IN  {c.dst : c \in {d \in comms : d.src[1] = w[1]}}
            \union {c.src : c \in {d \in comms : d.dst[1] = w[1]}}

SumOf(counter) == FoldFunction(+, 0, counter)

\* The statistics are written when the main loop is over, before the last flush.
StatisticsWritten == stage \in {"last", "merge", "done"}

\* Endpoints counted as without a partner: in the whole application as many
\* sends as receives, and none in two tasks whose first threads only talk to
\* each other, whatever was translated first.  A task with two partners may
\* keep a count though every message is matched, because the endpoint of one
\* partner is taken for that of the other.
CountersSettle ==
    StatisticsWritten =>
        /\ SumOf(pendSend) = SumOf(pendRecv)
        /\ \A w, x \in {MainThread(y) : y \in Threads} :
             Peers(w) = {x} /\ Peers(x) = {w} => pendSend[w] = 0 /\ pendRecv[w] = 0

\* A record is dropped as disordered only when it follows, in the trace, the
\* idle state of its thread in which it happens: that state has already put
\* the end of its idle block on the stack.
DroppedOnlyInIdle ==
    \A w \in Threads : "disordered" \in info[w].warnings =>
        \E i, j \in DOMAIN trace.records :
            LET state == trace.records[i]
                r == trace.records[j]
            IN  /\ i < j /\ state.who = w /\ r.who = w
                /\ IsState(state) /\ state.idle
                /\ state.time <= r.time /\ r.time < state.end

\* The translation ends.
Translated == <>Done

\* The calls of the input trace are in the Dimemas trace with what they did:
\* blocks nest, every endpoint, collective and synchronisation is in its block,
\* once, with its partner, and only records inside an idle state are dropped.
CallsKept ==
    /\ TypeOK
    /\ EndpointsKept
    /\ BlocksNested
    /\ GlopsWaited
    /\ AcceleratorPaired
    /\ CountersSettle
    /\ DroppedOnlyInIdle
=============================================================================
