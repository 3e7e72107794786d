------------------------------- MODULE Paraver -------------------------------
(***************************************************************************)
(* The output trace: Simulator/prv_utils/paraver.cc.  The simulator calls  *)
(* PARAVER_* as simulated time goes on; states and communications are cut  *)
(* to the part of the execution that was asked for, the events of a thread *)
(* at one instant are put together in one record, and all of it goes to    *)
(* the sorter of module TraceSort, also when a deadlock makes the          *)
(* simulation start again (main.cpp).                                      *)
(*                                                                         *)
(* What the simulator calls is given by a program.  A thread prints the    *)
(* state it has been in from where its last one ended (last_paraver) until *)
(* now.  Time is whole nanoseconds.                                        *)
(***************************************************************************)
EXTENDS TraceSort

CONSTANTS
    Threads,   \* numbers
    Inputs     \* size of the buffers, part of the execution to print, calls

NoTime == -1

ASSUME InputsAssumption ==
    \A x \in Inputs :
        /\ x.max \in 1 .. 7  \* small, for Sorted
        /\ x.window.from # NoTime /\ x.window.to # NoTime => x.window.from < x.window.to

VARIABLES
    window,  \* start_paraver and stop_paraver, with their flags
    prog,    \* calls still to be made
    now,     \* current_time
    last,    \* last[t]: thread->last_paraver
    col,     \* EventCollapser
    made     \* what NewRecord has been given in this simulation

paraverVars == <<window, prog, now, last, col, made>>
vars == <<sortVars, paraverVars>>

-----------------------------------------------------------------------------
(* The part of the execution that is printed *)

From == IF window.from = NoTime THEN 0 ELSE window.from
After(t) == window.to # NoTime /\ t > window.to
Before(t) == window.from # NoTime /\ t < window.from

\* A time cut to the part that is printed, and as it is printed.
Cut(t) == IF After(t) THEN window.to ELSE IF Before(t) THEN window.from ELSE t
Printed(t) == Cut(t) - From

Rec(type, who, cpu, time, data) ==
    [type |-> type, who |-> who, cpu |-> cpu, time |-> time, data |-> data]

\* NewState.  What PARAVER_* print in no time is left out.
State(t, type, cpu, init, end) ==
    IF init = end \/ After(init) \/ (Before(init) /\ Before(end)) THEN <<>>
    ELSE <<Rec(type, t, cpu, Printed(init), <<Printed(end)>>)>>

\* The times of a message, given by how long ago they were.
Times(c) == [c EXCEPT !.logS = now - @, !.phyS = now - @, !.logR = now - @]

\* Mutant: the physical times are printed as they are.
CommUncut(c) ==
    IF After(c.logS) \/ (Before(c.logS) /\ Before(c.logR)) THEN <<>>
    ELSE <<Rec(PRV_COMM, c.who, 1, Printed(c.logS), <<c.phyS, c.to, Printed(c.logR), now>>)>>

\* PARAVER_P2P_Comm, for a message received now, and NewCommunication.
Comm(c) ==
    IF \/ After(c.logS) \/ (Before(c.logS) /\ Before(c.logR))
       \/ After(c.phyS) \/ (Before(c.phyS) /\ Before(now)) THEN <<>>
    ELSE <<Rec(PRV_COMM, c.who, 1, Printed(c.logS),
               <<Printed(c.phyS), c.to, Printed(c.logR), Printed(now)>>)>>

-----------------------------------------------------------------------------
(* The event collapser *)

NoEvents == [who |-> -1, time |-> 0, values |-> <<>>]

\* The record of the events put together, if there are any.
Collapsed ==
    IF col.values = <<>> THEN <<>>
    ELSE <<Rec(PRV_EVENT, col.who, 1, col.time, col.values)>>

IsLast(t) == col.who = t /\ col.time = Printed(now)
NewCol(t, values) == [who |-> t, time |-> Printed(now), values |-> values]

-----------------------------------------------------------------------------
(* Calls *)

Init ==
    /\ SortInit
    /\ \E x \in Inputs : max = x.max /\ window = x.window /\ prog = x.prog
    /\ now = 0 /\ last = [t \in Threads |-> 0]
    /\ col = NoEvents /\ made = <<>>

Calls(op) == phase = "fill" /\ prog # <<>> /\ Head(prog).op = op
call == Head(prog)
Give(rs) == NewRecords(rs) /\ made' = made \o rs

Called == prog' = Tail(prog)
Kept == UNCHANGED <<max, side, ops, merge, phase, trace, died, window>>

\* Simulated time goes on.
Tick ==
    /\ Calls("tick")
    /\ now' = now + 1
    /\ Called /\ Kept
    /\ UNCHANGED <<buffer, files, numFiles, last, col, made>>

\* What the state printers share: from the end of the thread's last state, now.
PrintState(kind, type, cpu) ==
    /\ Calls(kind)
    /\ Give(State(call.who, type, cpu, last[call.who], now))
    /\ last' = [last EXCEPT ![call.who] = now]
    /\ Called /\ Kept
    /\ UNCHANGED <<now, col>>

\* PARAVER_Running
PrintRunning == PrintState("running", PRV_STATE_RUN, 1)

\* PARAVER_Startup, _Busy_Wait, _Ctx_Switch, _Data_Copy, _RTT: with a CPU.
PrintOverhead == PrintState("overhead", PRV_STATE, 1)

\* PARAVER_Wait, _Idle and the like: without one.
PrintWait == PrintState("wait", PRV_STATE, 0)

\* PARAVER_Dead
PrintDead ==
    /\ Calls("dead")
    /\ Give(State(call.who, PRV_STATE, 1, now, now + 1))
    /\ Called /\ Kept
    /\ UNCHANGED <<now, last, col>>

\* PARAVER_Event, NewEvent
PrintEvent ==
    /\ Calls("event")
    /\ IF After(now) \/ Before(now) THEN Give(<<>>) /\ UNCHANGED col
       ELSE IF IsLast(call.who)
         THEN Give(<<>>) /\ col' = [col EXCEPT !.values = Append(@, call.value)]
         ELSE Give(Collapsed) /\ col' = NewCol(call.who, <<call.value>>)
    /\ Called /\ Kept
    /\ UNCHANGED <<now, last>>

\* PARAVER_Start_Op, between the events at the start and at the end of an
\* operation: they must not share a record.
StartOp ==
    /\ Calls("start")
    /\ IF ~After(now) /\ ~Before(now) /\ IsLast(call.who)
         THEN Give(Collapsed) /\ col' = NewCol(call.who, <<>>)
         ELSE Give(<<>>) /\ UNCHANGED col
    /\ Called /\ Kept
    /\ UNCHANGED <<now, last>>

PrintComm ==
    /\ Calls("comm")
    /\ Give(Comm(Times(call)))
    /\ Called /\ Kept
    /\ UNCHANGED <<now, last, col>>

\* main.cpp after a deadlock: PARAVER_End(FALSE) closes the files and
\* PARAVER_Init opens the first ones again, empty.  EventCollapser is left as it
\* is, and files other than the first are not removed.
Restart ==
    /\ Calls("restart")
    /\ now' = 0 /\ last' = [t \in Threads |-> 0]
    /\ buffer' = <<>> /\ numFiles' = 0 /\ made' = <<>>
    /\ files' = Opened(Opened(files, EventsFile), File("s", 0))
    /\ Called /\ Kept
    /\ UNCHANGED col

\* PARAVER_End(TRUE): the last events are flushed and the trace is generated.
End ==
    /\ phase = "fill" /\ prog = <<>>
    /\ StartSort([files EXCEPT ![EventsFile] = @ \o Collapsed])
    /\ made' = made \o Collapsed
    /\ UNCHANGED <<window, prog, now, last, col>>

Next == \/ Tick \/ PrintRunning \/ PrintOverhead \/ PrintWait \/ PrintDead \/ PrintEvent \/ StartOp \/ PrintComm \/ Restart \/ End
        \/ SortNext /\ UNCHANGED paraverVars

\* A sequential program that waits for nothing.
Spec == Init /\ [][Next]_vars /\ WF_vars(Next)

-----------------------------------------------------------------------------
(* Properties *)

Written == phase = "end" /\ ops = <<>> /\ merge = NoMerge /\ ~died

\* The state is one the variables of the code can hold.
TypeOK ==
    /\ Len(buffer) <= max /\ numFiles \in Nat /\ side \in {"s", "A"}
    /\ EventsFile \in DOMAIN files \/ phase = "end"
    /\ phase \in {"fill", "sort", "last", "end"} /\ died \in BOOLEAN
    /\ \A t \in Threads : last[t] <= now
    /\ \A i \in DOMAIN made : made[i].type \in {PRV_STATE, PRV_EVENT, PRV_COMM, PRV_STATE_RUN}

\* GenerateFinalTrace: the records of the trace are in the order of their times,
\* although states are printed when they end and communications when they are
\* received.
TimeOrder ==
    Written => \A i \in 1 .. Len(trace) - 1 : trace[i].time <= trace[i + 1].time

Count(s, r) == Len(SelectSeq(s, LAMBDA x : x = r))

\* NewRecord, FlushRecords, SortStatesAndComms, Merge: the trace has every record
\* of the simulation once, whatever the number of temporary files.
NothingLost ==
    Written => \A r \in ToSet(made) \cup ToSet(trace) : Count(trace, r) = Count(made, r)

\* SortStatesAndComms: between two passes, the files that are left are those the
\* next pass reads, and no other.
FilesAreNext ==
    phase = "sort" /\ ops = <<>> /\ merge = NoMerge
        => DOMAIN files = {EventsFile} \cup {File(side, i) : i \in 0 .. numFiles - 1}

\* unlink in SortStatesAndComms and GenerateFinalTrace: no temporary file is left
\* behind.
NoneLeft == Written => DOMAIN files = {}

\* NewState, PARAVER_P2P_Comm, PARAVER_Event: what is printed lies within the
\* part that was asked for, states do not end before they begin and messages are
\* not received before they are sent.
InWindow ==
    \A i \in DOMAIN made :
        LET r == made[i]
            ok(t) == t >= 0 /\ (window.to # NoTime => t <= window.to - From)
        IN  /\ ok(r.time)
            /\ r.type \in {PRV_STATE, PRV_STATE_RUN} => ok(r.data[1]) /\ r.time <= r.data[1]
            /\ r.type = PRV_COMM => /\ ok(r.data[1]) /\ ok(r.data[3]) /\ ok(r.data[4])
                                    /\ r.time <= r.data[1] /\ r.data[1] <= r.data[4]

\* PARAVER_Start_Op: an operation of no duration does not "produce a large record
\* with start and end (0) events"; an end begins its record.
OneOpPerRecord ==
    \A i \in DOMAIN made : made[i].type = PRV_EVENT =>
        \A j \in 2 .. Len(made[i].data) : made[i].data[j] # 0

\* NewEvent, and the file of events in Merge: what a thread prints keeps its
\* order, so an operation that begins ends before the next one does.
Alternate ==
    Written => \A t \in Threads :
        LET of == FlattenSeq([i \in DOMAIN trace |->
                     IF trace[i].type = PRV_EVENT /\ trace[i].who = t THEN trace[i].data ELSE <<>>])
        IN  \A i \in 1 .. Len(of) - 1 : of[i] = 0 <=> of[i + 1] # 0

\* Merge dies for want of a file only when there is no state and no
\* communication to print at all.
DiesOnlyIfEmpty ==
    died => \A i \in DOMAIN made : made[i].type = PRV_EVENT

\* PARAVER_End generates the trace, or says that it cannot.
Generated == <>(Written \/ died)

\* The trace has what the simulation printed, once and in order.
TraceComplete ==
    /\ TimeOrder
    /\ NothingLost
    /\ Alternate

\* What is printed is cut to the part asked for, and operations keep apart.
RecordsCut ==
    /\ TypeOK
    /\ InWindow
    /\ OneOpPerRecord

\* The temporary files are those the next operation needs, and go in the end.
FilesTidy ==
    /\ FilesAreNext
    /\ NoneLeft
    /\ DiesOnlyIfEmpty
==============================================================================
