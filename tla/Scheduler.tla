------------------------------ MODULE Scheduler ------------------------------
(***************************************************************************)
(* The scheduler of a node and the event loop that drives it: schedule.c,  *)
(* events.c and the policies, all in Simulator/sched: FIFO, RR,            *)
(* FIXED_PRIORITY_FIFO, UNIX_SVR4, BOOST and SS_MPI_CP (here PRIO, SVR4    *)
(* and SS).                                                                *)
(*                                                                         *)
(* A handler of the program runs to its end, and is here a chain of steps  *)
(* that phase tells apart: an event is taken from the queue, operations of *)
(* the trace are carried out until one of them needs time or blocks, the   *)
(* scheduler fills one CPU and event_manager fills the others.             *)
(*                                                                         *)
(* Messages and collectives only block threads and wake them up here: all  *)
(* those sent to a thread are alike and arrive Flight after they leave,    *)
(* and a collective is one of all threads (PointToPoint has the matching,  *)
(* Network the flight and GlobalOps the collectives).  Accelerators are    *)
(* left out.                                                               *)
(***************************************************************************)
EXTENDS Integers, Sequences, SequencesExt, FiniteSets, FiniteSetsExt, QueueOps

CONSTANTS
    NThreads, NCpus,
    Prio,       \* Prio[t]: base_priority; the smaller is served first
    Startup,    \* compute_startup of a send or a receive
    Flight,     \* from the send of a message, or the last one in a collective
    Boost,      \* the parameters of BOOST: best, worst, first, last, sender
    Setups      \* a scheduler, conf, and the traces that run under it, prog

Threads == 1 .. NThreads
Cpus == 1 .. NCpus
None == 0    \* TH_NIL

Work(d) == [op |-> "WORK", time |-> d]
Actions == [op : {"WORK"}, time : Nat] \cup [op : {"EVENT", "RECV", "GLOBAL"}]
             \cup [op : {"SEND"}, to : Threads] \cup [op : {"PRIORITY", "TASK"}, value : Nat]

ASSUME SizesAssumption == NThreads \in Nat /\ NCpus \in Nat \ {0}
ASSUME TimesAssumption == Startup \in Nat /\ Flight \in Nat
ASSUME PrioAssumption == Prio \in [Threads -> Nat]
ASSUME BoostAssumption ==
    /\ Boost \in [{"best", "worst", "first", "last", "sender"} -> Int]
    /\ Boost.best <= Boost.worst
\* A quantum of 0 never ends a burst (for SVR4 it is the quantum factor); BOOST,
\* FIXED_PRIORITY_FIFO and SS_MPI_CP set no context switch and no busy wait, and
\* only a UNIX_SVR4 file can ask for preemption.
ConfigSet ==
    [policy : {"FIFO", "RR", "SVR4"}, quantum : Nat \ {0}, switch : Nat, busy : BOOLEAN,
     preempt : BOOLEAN]
      \cup [policy : {"PRIO", "BOOST", "SS"}, quantum : Nat \ {0}, switch : {0},
            busy : {FALSE}, preempt : {FALSE}]
\* SCHEDULER_Init panics when a thread does not begin with work.
ASSUME SetupsAssumption ==
    \A s \in Setups :
        /\ s.conf \in ConfigSet /\ (s.conf.preempt => s.conf.policy = "SVR4")
        /\ s.prog \in [Threads -> Seq(Actions)]
        /\ \A t \in Threads : s.prog[t] # <<>> /\ Head(s.prog[t]).op = "WORK"

VARIABLES
    conf, prog,    \* the machine's scheduler and the traces of this execution
    now,           \* current_time
    events,        \* Event_queue: [at, module, th]
    phase,         \* what the running handler does next
    reloadDone,    \* reload_done
    ready,         \* node->ready
    on,            \* on[c]: cpu->current_thread
    context,       \* context[c]: cpu->current_thread_context
    cpuOf,         \* cpuOf[t]: thread->cpu
    rest,          \* rest[t]: the list thread->action
    loose,         \* thread->loose_cpu
    switching,     \* thread->doing_context_switch
    spinning,      \* thread->doing_busy_wait
    startup,       \* "doing" and "done" are doing_startup and startup_done
    lastQuantum,   \* last_quantum of the policies with one
    params,        \* priority, full_quantum, forces_preemption and sstask_id
    cpuTime,       \* account->cpu_time
    finished,      \* Simulator.finished_threads_count, as a bag of threads
    gathered,      \* communicator->threads: threads blocked in a collective
    receivers,     \* threads blocked in a receive
    mail           \* messages that arrived with nobody waiting

input == <<conf, prog>>
cpuVars == <<on, context, cpuOf, switching>>
runVars == <<rest, loose, lastQuantum, cpuTime, params>>
comVars == <<gathered, receivers, mail>>
vars == <<input, now, events, phase, reloadDone, ready, cpuVars, runVars,
          spinning, startup, finished, comVars>>

Phases == {<<"boot">>, <<"idle">>, <<"dispatch">>, <<"newjob">>, <<"reload">>,
           <<"panic">>} \cup ({"op"} \X Threads)
            \cup ({"wake", "run"} \X Seq(Threads) \X {<<"newjob">>, <<"reload">>})

TypeOK ==
    /\ now \in Nat
    /\ events \in Seq([at : Nat, module : {"SCH", "COM", "GOP"}, th : Threads])
    /\ phase \in Phases
    /\ reloadDone \in BOOLEAN
    /\ ready \in Seq(Threads)
    /\ on \in [Cpus -> Threads \cup {None}]
    /\ context \in [Cpus -> Threads \cup {None}]
    /\ cpuOf \in [Threads -> Cpus \cup {None}]
    /\ rest \in [Threads -> Seq(Actions)]
    /\ loose \in [Threads -> BOOLEAN]
    /\ switching \in [Threads -> BOOLEAN]
    /\ spinning \in [Threads -> BOOLEAN]
    /\ startup \in [Threads -> {"no", "doing", "done"}]
    /\ lastQuantum \in [Threads -> Nat]
    /\ params \in [Threads -> [prio : Int, full : BOOLEAN, forces : BOOLEAN, task : Nat]]
    /\ cpuTime \in [Threads -> Int]
    /\ finished \in [Threads -> Nat]
    /\ gathered \in Seq(Threads)
    /\ receivers \subseteq Threads /\ mail \in [Threads -> Nat]

-----------------------------------------------------------------------------
(* Queues *)

Timer(at, module, t) == [at |-> at, module |-> module, th |-> t]

\* At the first of these positions, at the end if there is none.
InsertBefore(q, x, positions) ==
    IF positions = {} THEN Append(q, x) ELSE InsertAt(q, Min(positions), x)

\* insert_event: behind the events of the same time.
InsertEvent(q, e) == InsertBefore(q, e, {i \in DOMAIN q : q[i].at > e.at})

-----------------------------------------------------------------------------
(* The order of ready *)

BestPrio == 59

\* The smallest goes first; pr are the parameters of the threads.
Order(pr, t) == IF conf.policy = "SVR4" THEN BestPrio - pr[t].prio ELSE pr[t].prio

\* insert_queue: behind the threads of the same priority.
InsertQueue(q, t, pr) ==
    InsertBefore(q, t, {i \in DOMAIN q : Order(pr, q[i]) > Order(pr, t)})

\* insert_first_queue: before them.
InsertFirstQueue(q, t, pr) ==
    InsertBefore(q, t, {i \in DOMAIN q : Order(pr, q[i]) >= Order(pr, t)})

\* insert_queue_from_back.
InsertQueueFromBack(q, t, pr) ==
    InsertAt(q, 1 + Max({0} \cup {i \in DOMAIN q : Order(pr, q[i]) <= Order(pr, t)}), t)

\* Mutant: loose_cpu is not looked at.
FifoToReadyLast(q, t, how) == Append(q, t)

\* FIFO_thread_to_ready and RR_thread_to_ready; how a thread comes: "keep" is
\* the opposite of loose_cpu, "preempted" is loose too.
FifoToReady(q, t, how) == IF how = "keep" THEN <<t>> \o q ELSE Append(q, t)

\* PRIO_FIFO_thread_to_ready, SCH_boost_thread_to_ready and svr4_thread_to_ready.
PrioToReady(q, t, how, pr) ==
    IF how = "keep" THEN InsertFirstQueue(q, t, pr) ELSE InsertQueue(q, t, pr)

\* SS_MPI_CP_thread_to_ready: threads with MPI before those of their priority.
SsToReady(q, t, how, pr) ==
    IF how = "keep" \/ (how = "loose" /\ pr[t].prio = 0)
      THEN InsertFirstQueue(q, t, pr)
      ELSE IF how = "preempted" THEN InsertQueue(q, t, pr) ELSE InsertQueueFromBack(q, t, pr)

Enqueue(q, t, how, pr) ==
    CASE conf.policy \in {"FIFO", "RR"} -> FifoToReady(q, t, how)
      [] conf.policy \in {"PRIO", "BOOST", "SVR4"} -> PrioToReady(q, t, how, pr)
      [] conf.policy = "SS" -> SsToReady(q, t, how, pr)

-----------------------------------------------------------------------------
(* Priorities *)

\* config_ts_dptbl, for the priorities 0 .. 59: the quantum in units of 20000 ns,
\* the priority after a whole quantum and the one after a wait.
TsQuantum(p) == IF p = BestPrio THEN 1 ELSE <<10, 8, 6, 4, 2, 2>>[1 + p \div 10]
TsTqexp(p) == IF p < 10 THEN 0 ELSE p - 10
TsSlpret(p) == 50 + Cardinality({x \in {10, 20, 30, 35, 40, 45, 46, 47, 59} : x <= p})

\* svr4_thread_to_ready first lowers a thread that used a whole quantum.
Demoted(pr, t) ==
    IF conf.policy = "SVR4" /\ pr[t].full
      THEN [pr EXCEPT ![t].prio = TsTqexp(@), ![t].full = FALSE]
      ELSE pr

\* svr4_info: a receiver that must wait is raised.
Svr4Info(info, t) ==
    IF info = "first" THEN [params EXCEPT ![t].prio = TsSlpret(@)] ELSE params

\* SCH_boost_info: a priority moves, within its bounds, with who came first.
BoostInfo(info, t) ==
    LET p == params[t].prio + Boost[info]
    IN  [params EXCEPT ![t].prio = IF p < Boost.best THEN Boost.best
                                   ELSE IF p > Boost.worst THEN Boost.worst ELSE p]

\* SCHEDULER_info: SCH_INFO_RECV_MISS, SCH_INFO_RECV_HIT and SCH_INFO_SEND are
\* "first", "last" and "sender".
SchedulerInfo(info, t) ==
    CASE conf.policy = "SVR4" -> Svr4Info(info, t)
      [] conf.policy = "BOOST" -> BoostInfo(info, t)
      [] OTHER -> params

\* PRIORITY_SET_EVENT gives a task priority 1 / value, here PrioScale \div value,
\* and USER_EVENT_TYPE_TASKID_START_TASK its sstask_id.  Nothing takes the right
\* to preempt away.
PrioScale == 12
AfterEvent(t, a) ==
    CASE a.op = "PRIORITY" /\ conf.policy = "SS" ->
             [params EXCEPT ![t].prio = IF a.value = 0 THEN 0 ELSE PrioScale \div a.value,
                            ![t].forces = @ \/ a.value = 0]
      [] a.op = "TASK" -> [params EXCEPT ![t].task = a.value]
      [] OTHER -> params

\* The init_scheduler_parameters of the policies.
FirstPrio(t) == CASE conf.policy = "SVR4" -> BestPrio
                  [] conf.policy = "SS" -> 0
                  [] OTHER -> Prio[t]

\* SCHEDULER_thread_to_ready_return(M_SCH): a burst of no length goes before
\* what is not a burst.
Padded(s) == IF Head(s).op = "WORK" THEN s ELSE <<Work(0)>> \o s

\* The queue that SCHEDULER_Init fills with the threads, one by one.
FirstReady(pr) ==
    LET filled[n \in 0 .. NThreads] ==
          IF n = 0 THEN <<>> ELSE Enqueue(filled[n - 1], n, "loose", pr)
    IN  filled[NThreads]

\* SCHEDULER_Init; reload_events, called by main, finds nothing more to do.
Init ==
    /\ \E s \in Setups : conf = s.conf /\ prog = s.prog
    /\ now = 0 /\ events = <<>> /\ phase = <<"boot">> /\ reloadDone = TRUE
    /\ params = [t \in Threads |-> [prio |-> FirstPrio(t), full |-> FALSE,
                                    forces |-> FALSE, task |-> 0]]
    /\ ready = FirstReady(params)
    /\ on = [c \in Cpus |-> None] /\ context = on
    /\ cpuOf = [t \in Threads |-> None]
    /\ rest = prog
    /\ loose = [t \in Threads |-> TRUE]
    /\ switching = [t \in Threads |-> FALSE] /\ spinning = switching
    /\ startup = [t \in Threads |-> "no"]
    /\ lastQuantum = [t \in Threads |-> 0] /\ cpuTime = lastQuantum
    /\ finished = [t \in Threads |-> 0]
    /\ gathered = <<>> /\ receivers = {} /\ mail = [t \in Threads |-> 0]

-----------------------------------------------------------------------------
(* Threads and CPUs *)

Free == {c \in Cpus : on[c] = None}

\* With cache affinity if there is one, else the first.
SelectFreeCpu(t) ==
    LET warm == {c \in Free : context[c] = t}
    IN  Min(IF warm # {} THEN warm ELSE Free)

Least(x, y) == IF x < y THEN x ELSE y
One(b) == IF b THEN 1 ELSE 0

\* A thread that kept its CPU has the rest of its quantum, unless it used it
\* all.
Quantum(t) == IF conf.policy = "SVR4" THEN TsQuantum(params[t].prio) * conf.quantum
              ELSE conf.quantum
FreshQuantum(t) == loose[t] \/ lastQuantum[t] >= Quantum(t)

\* RR_get_execution_time.
RRExecutionTime(t) ==
    Least(Head(rest[t]).time,
          IF FreshQuantum(t) THEN Quantum(t) ELSE Quantum(t) - lastQuantum[t])

\* SCH_boost_get_execution_time, which is the same.
BoostExecutionTime(t) == RRExecutionTime(t)

\* svr4_get_execution_time: a quantum can be in part of another priority.
Svr4ExecutionTime(t) == RRExecutionTime(t)

\* The others let a burst run to its end.
GetExecutionTime(t) ==
    CASE conf.policy = "RR" -> RRExecutionTime(t)
      [] conf.policy = "BOOST" -> BoostExecutionTime(t)
      [] conf.policy = "SVR4" -> Svr4ExecutionTime(t)
      [] OTHER -> Head(rest[t]).time

\* SCHEDULER_get_execution_time, and the event at the end of the burst that
\* its two callers set; q is the event queue and at the current time.
Execute(t, q, at) ==
    LET ti == GetExecutionTime(t)
        burst == Head(rest[t]).time
        used == IF FreshQuantum(t) THEN ti ELSE lastQuantum[t] + ti
    IN  /\ rest' = [rest EXCEPT ![t] =
                      IF ti = burst THEN Tail(@) ELSE <<Work(burst - ti)>> \o Tail(@)]
        /\ lastQuantum' = IF conf.policy \in {"RR", "BOOST", "SVR4"}
                            THEN [lastQuantum EXCEPT ![t] = used] ELSE lastQuantum
        /\ params' = [params EXCEPT ![t].full =
                        @ \/ (conf.policy = "SVR4" /\ used = Quantum(t))]
        /\ cpuTime' = [cpuTime EXCEPT ![t] = @ + ti]
        /\ events' = InsertEvent(q, Timer(at + ti, "SCH", t))
        /\ loose' = [loose EXCEPT ![t] = TRUE]

\* put_thread_on_run: a context switch, if it takes time, comes first, also for
\* the thread the CPU had.
PutThreadOnRun(t) ==
    LET c == SelectFreeCpu(t)
    IN  /\ on' = [on EXCEPT ![c] = t]
        /\ context' = [context EXCEPT ![c] = t]
        /\ cpuOf' = [cpuOf EXCEPT ![t] = c]
        /\ IF conf.switch # 0
             THEN /\ switching' = [switching EXCEPT ![t] = TRUE]
                  /\ events' = InsertEvent(events, Timer(now + conf.switch, "SCH", t))
                  /\ loose' = [loose EXCEPT ![t] = TRUE]
                  /\ UNCHANGED <<rest, lastQuantum, cpuTime, params>>
             ELSE Execute(t, events, now) /\ UNCHANGED switching

\* SCHEDULER_next_thread_to_run, with someone in ready.
NextThreadToRun == ready' = Tail(ready) /\ PutThreadOnRun(Head(ready))

CanDispatch == ready # <<>> /\ Free # {}

\* SCHEDULER_thread_to_ready for t, when its actions are r[t] and the parameters
\* pr, without preemption.
ThreadToReady(t, how, r, pr) ==
    /\ rest' = [r EXCEPT ![t] = Padded(@)]
    /\ params' = Demoted(pr, t)
    /\ ready' = Enqueue(ready, t, how, params')
    /\ loose' = [loose EXCEPT ![t] = how # "keep"]
    /\ reloadDone' = TRUE

\* t is done with an operation that does not block it: with more actions it is
\* the next to run, without any it ends.
GoOn(t, r, pr) ==
    IF r[t] = <<>>
      THEN /\ rest' = r /\ params' = pr /\ phase' = <<"op", t>>
           /\ UNCHANGED <<ready, loose, reloadDone>>
      ELSE ThreadToReady(t, "keep", r, pr) /\ phase' = <<"dispatch">>

-----------------------------------------------------------------------------
(* Preemption *)

\* The CPU a policy takes for t when none is free: the first of those whose
\* threads have the greatest priority number above its own.  For SVR4 these are
\* the best threads, not the worst.  pr are the parameters.
VictimCpu(t, pr) ==
    LET wants == \/ conf.preempt
                 \/ conf.policy = "SS" /\ pr[t].forces
        above == {c \in Cpus : pr[on[c]].prio > pr[t].prio}
    IN  IF ~wants \/ Free # {} \/ above = {} THEN None
        ELSE Min({c \in above : \A d \in above : pr[on[d]].prio <= pr[on[c]].prio})

\* The timer thread->event.
TimerOf(u) == CHOOSE i \in DOMAIN events : events[i].module = "SCH" /\ events[i].th = u

\* A context switch is not interrupted before its end: min_time_to_be_preempted,
\* with a minimum quantum of 0.
Delayed(u) == switching[u] /\ events[TimerOf(u)].at > now

\* phase is <<"wake", q, p>>: the threads of q go to ready, and then p.
Waking(t) == phase[1] = "wake" /\ t = Head(phase[2])
Awake == IF Len(phase[2]) = 1 THEN phase[3] ELSE <<"wake", Tail(phase[2]), phase[3]>>

\* Mutant: the CPUs are not reloaded.
WakeUpQuiet(t) ==
    LET pr == Demoted(params, t)
        c == VictimCpu(t, pr)
    IN
    /\ Waking(t)
    /\ c # None => Delayed(on[c])
    /\ rest' = [rest EXCEPT ![t] = Padded(@)]
    /\ params' = pr
    /\ ready' = Enqueue(ready, t, IF c = None THEN "loose" ELSE "preempted", pr)
    /\ loose' = [loose EXCEPT ![t] = TRUE]
    /\ reloadDone' = FALSE
    /\ phase' = Awake
    /\ UNCHANGED <<input, now, events, cpuVars, lastQuantum, cpuTime, spinning, startup,
                   finished, comVars>>

\* The thread_to_ready of a policy that takes nobody's CPU.
WakeUp(t) ==
    LET pr == Demoted(params, t)
        c == VictimCpu(t, pr)
    IN
    /\ Waking(t)
    /\ c # None => Delayed(on[c])
    /\ ThreadToReady(t, IF c = None THEN "loose" ELSE "preempted", rest, params)
    /\ phase' = Awake
    /\ UNCHANGED <<input, now, events, cpuVars, lastQuantum, cpuTime, spinning, startup,
                   finished, comVars>>

\* What a preempted task of a trace with task identifiers does before the rest
\* of its burst.
TaskAgain(u) == IF params[u].task = 0 THEN <<>>
                ELSE <<Work(0), [op |-> "TASK", value |-> params[u].task]>>

\* Mutant: the rest of the burst is still accounted as CPU time.
PreemptedCounted(u, left) == cpuTime

\* account_current->cpu_time without what u did not run.
Preempted(u, left) == [cpuTime EXCEPT ![u] = @ - left]

\* SCHEDULER_preemption: what is left of the burst is put back, or a busy wait
\* ends, and t runs on the CPU.
Preemption(t) ==
    LET pr == Demoted(params, t)
        c == VictimCpu(t, pr)
        u == on[c]
        left == events[TimerOf(u)].at - now
    IN
    /\ Waking(t)
    /\ c # None /\ ~Delayed(u)
    /\ on' = [on EXCEPT ![c] = None]
    /\ events' = RemoveAt(events, TimerOf(u))
    /\ params' = pr
    /\ spinning' = [spinning EXCEPT ![u] = FALSE]
    /\ IF spinning[u]
         THEN /\ receivers' = receivers \cup {u}
              /\ rest' = [rest EXCEPT ![t] = Padded(@)]
              /\ UNCHANGED <<ready, cpuTime>>
         ELSE /\ rest' = [rest EXCEPT ![t] = Padded(@),
                                      ![u] = TaskAgain(u) \o <<Work(left)>> \o @]
              /\ cpuTime' = Preempted(u, left)
              /\ ready' = Enqueue(ready, u, "preempted", pr)
              /\ UNCHANGED receivers
    /\ phase' = <<"run", phase[2], phase[3]>>
    /\ UNCHANGED <<input, now, reloadDone, context, cpuOf, switching, loose, lastQuantum,
                   startup, finished, gathered, mail>>

\* put_thread_on_run at the end of SCHEDULER_preemption.
RunPreemptor ==
    /\ phase[1] = "run"
    /\ PutThreadOnRun(Head(phase[2]))
    /\ reloadDone' = TRUE
    /\ phase' = Awake
    /\ UNCHANGED <<input, now, ready, spinning, startup, finished, comVars>>

-----------------------------------------------------------------------------
(* The event loop *)

\* event_manager takes the first event.
Takes(module) ==
    /\ phase = <<"idle">> /\ events # <<>> /\ Head(events).module = module
    /\ now' = Head(events).at

\* The flags SCHEDULER_general looks at first, a context switch or not.
EndStartup(t) ==
    startup' = [startup EXCEPT ![t] = IF @ = "doing" THEN "done" ELSE @]

\* SCH_TIMER_OUT at the end of a context switch: the burst itself begins.
ContextSwitched ==
    LET t == Head(events).th IN
    /\ Takes("SCH") /\ switching[t]
    /\ EndStartup(t)
    /\ switching' = [switching EXCEPT ![t] = FALSE]
    /\ on' = [on EXCEPT ![cpuOf[t]] = t]
    /\ Execute(t, Tail(events), Head(events).at)
    /\ phase' = <<"reload">>
    /\ UNCHANGED <<input, reloadDone, ready, context, cpuOf, spinning, finished, comVars>>

\* SCH_TIMER_OUT at the end of a busy wait: COMMUNIC_block_after_busy_wait.
BusyWaitOver ==
    LET t == Head(events).th IN
    /\ Takes("SCH") /\ ~switching[t] /\ spinning[t]
    /\ EndStartup(t)
    /\ spinning' = [spinning EXCEPT ![t] = FALSE]
    /\ on' = [on EXCEPT ![cpuOf[t]] = None]
    /\ receivers' = receivers \cup {t}
    /\ events' = Tail(events)
    /\ phase' = IF ready # <<>> THEN <<"newjob">> ELSE <<"reload">>
    /\ UNCHANGED <<input, reloadDone, ready, context, cpuOf, switching, runVars, finished,
                   gathered, mail>>

\* SCH_TIMER_OUT at the end of a burst: the thread is about to do its next
\* operation, off its CPU.
BurstOver ==
    LET t == Head(events).th IN
    /\ Takes("SCH") /\ ~switching[t] /\ ~spinning[t]
    /\ EndStartup(t)
    /\ on' = [on EXCEPT ![cpuOf[t]] = None]
    /\ events' = Tail(events)
    /\ phase' = <<"op", t>>
    /\ UNCHANGED <<input, reloadDone, ready, context, cpuOf, switching, runVars, spinning,
                   finished, comVars>>

\* message_received: the receiver goes to ready if it is blocked.
Arrive ==
    LET t == Head(events).th
        r == [rest EXCEPT ![t] = Tail(@)]
    IN
    /\ Takes("COM")
    /\ events' = Tail(events)
    /\ IF t \notin receivers
         THEN /\ mail' = [mail EXCEPT ![t] = @ + 1]
              /\ phase' = <<"reload">>
              /\ UNCHANGED <<receivers, rest, finished>>
         ELSE /\ receivers' = receivers \ {t}
              /\ rest' = r
              /\ finished' = [finished EXCEPT ![t] = @ + One(r[t] = <<>>)]
              /\ phase' = IF r[t] = <<>> THEN <<"reload">> ELSE <<"wake", <<t>>, <<"newjob">>>>
              /\ UNCHANGED mail
    /\ UNCHANGED <<input, reloadDone, ready, cpuVars, loose, lastQuantum, cpuTime, params,
                   spinning, startup, gathered>>

\* close_global_communication: everyone goes to ready, in the order they came.
CloseGlobal ==
    LET woken == Without(gathered, {t \in Threads : Tail(rest[t]) = <<>>}) IN
    /\ Takes("GOP")
    /\ events' = Tail(events)
    /\ gathered' = <<>>
    /\ rest' = [t \in Threads |-> Tail(rest[t])]
    /\ finished' = [t \in Threads |-> finished[t] + One(rest'[t] = <<>>)]
    /\ phase' = IF woken = <<>> THEN <<"reload">> ELSE <<"wake", woken, <<"reload">>>>
    /\ UNCHANGED <<input, reloadDone, ready, cpuVars, loose, lastQuantum, cpuTime, params,
                   spinning, startup, receivers, mail>>

\* SCH_NEW_JOB, and the end of a busy wait: next_thread_to_run must find a
\* thread.
NewJob ==
    /\ phase = <<"newjob">>
    /\ IF Free # {} /\ ready = <<>>
         THEN phase' = <<"panic">> /\ UNCHANGED <<events, ready, cpuVars, runVars>>
         ELSE /\ phase' = <<"reload">>
              /\ IF Free # {} THEN NextThreadToRun
                              ELSE UNCHANGED <<events, ready, cpuVars, runVars>>
    /\ UNCHANGED <<input, now, reloadDone, spinning, startup, finished, comVars>>

\* The end of SCH_TIMER_OUT: one thread is given a CPU.
Dispatch ==
    /\ phase = <<"dispatch">>
    /\ IF CanDispatch THEN NextThreadToRun
                      ELSE UNCHANGED <<events, ready, cpuVars, runVars>>
    /\ phase' = <<"reload">>
    /\ UNCHANGED <<input, now, reloadDone, spinning, startup, finished, comVars>>

\* The end of event_manager: reload_events gives CPUs to all that can have one.
ReloadEvents ==
    /\ phase \in {<<"boot">>, <<"reload">>}
    /\ IF reloadDone /\ CanDispatch
         THEN NextThreadToRun /\ UNCHANGED <<phase, reloadDone>>
         ELSE /\ phase' = <<"idle">> /\ reloadDone' = (phase = <<"boot">>)
              /\ UNCHANGED <<events, ready, cpuVars, runVars>>
    /\ UNCHANGED <<input, now, spinning, startup, finished, comVars>>

-----------------------------------------------------------------------------
(* The operations of a trace *)

\* next_op, with an action of this kind at hand.
NextOp(t, op) ==
    phase = <<"op", t>> /\ rest[t] # <<>> /\ Head(rest[t]).op = op

Consumed(t) == [rest EXCEPT ![t] = Tail(@)]

\* more_actions finds none.
Finish(t) ==
    /\ phase = <<"op", t>> /\ rest[t] = <<>>
    /\ finished' = [finished EXCEPT ![t] = @ + 1]
    /\ phase' = <<"dispatch">>
    /\ UNCHANGED <<input, now, events, reloadDone, ready, cpuVars, runVars, spinning,
                   startup, comVars>>

\* What is left of a burst, or the next one: to the end of the queue.
Burst(t) ==
    /\ NextOp(t, "WORK")
    /\ ThreadToReady(t, "loose", rest, params)
    /\ phase' = <<"dispatch">>
    /\ UNCHANGED <<input, now, events, cpuVars, lastQuantum, cpuTime, spinning, startup,
                   finished, comVars>>

\* Mutant: the action is not consumed.
EventForgotten(t) ==
    /\ NextOp(t, "EVENT")
    /\ UNCHANGED vars

\* EVENT and NOOP take no time: on to the next operation.
Event(t) ==
    /\ \E op \in {"EVENT", "PRIORITY", "TASK"} : NextOp(t, op)
    /\ LET r == Consumed(t)
           pr == AfterEvent(t, Head(rest[t]))
       IN  IF r[t] # <<>> /\ Head(r[t]).op # "WORK"
             THEN rest' = r /\ params' = pr /\ UNCHANGED <<phase, ready, loose, reloadDone>>
             ELSE GoOn(t, r, pr)
    /\ UNCHANGED <<input, now, events, cpuVars, lastQuantum, cpuTime, spinning, startup,
                   finished, comVars>>

\* GLOBAL_operation: the last one to come sets the timer of the operation.
GlobalOperation(t) ==
    /\ NextOp(t, "GLOBAL")
    /\ gathered' = Append(gathered, t)
    /\ events' = IF Len(gathered') < NThreads THEN events
                 ELSE InsertEvent(events, Timer(now + Flight, "GOP", t))
    /\ phase' = <<"dispatch">>
    /\ UNCHANGED <<input, now, reloadDone, ready, cpuVars, runVars, spinning, startup,
                   finished, receivers, mail>>

\* COMMUNIC_send and COMMUNIC_recv first spend the startup on the CPU, which
\* does not count as CPU time.
SpendStartup(t) ==
    /\ NextOp(t, "SEND") \/ NextOp(t, "RECV")
    /\ startup[t] = "no" /\ Startup # 0
    /\ startup' = [startup EXCEPT ![t] = "doing"]
    /\ cpuTime' = [cpuTime EXCEPT ![t] = @ - Startup]
    /\ ThreadToReady(t, "keep", [rest EXCEPT ![t] = <<Work(Startup)>> \o @], params)
    /\ phase' = <<"dispatch">>
    /\ UNCHANGED <<input, now, events, cpuVars, lastQuantum, spinning, finished, comVars>>

StartupDone(t) ==
    /\ startup[t] = "done" \/ Startup = 0
    /\ startup' = [startup EXCEPT ![t] = "no"]

\* COMMUNIC_send: a copy of the thread takes the message.
Send(t) ==
    /\ NextOp(t, "SEND") /\ StartupDone(t)
    /\ LET to == Head(rest[t]).to IN
           /\ events' = InsertEvent(events, Timer(now + Flight, "COM", to))
           /\ GoOn(t, Consumed(t), IF to \in receivers THEN SchedulerInfo("sender", t)
                                                     ELSE params)
    /\ UNCHANGED <<input, now, cpuVars, lastQuantum, cpuTime, spinning, finished, comVars>>

\* COMMUNIC_recv with the message there.
RecvArrived(t) ==
    /\ NextOp(t, "RECV") /\ StartupDone(t)
    /\ mail[t] > 0
    /\ mail' = [mail EXCEPT ![t] = @ - 1]
    /\ GoOn(t, Consumed(t), SchedulerInfo("last", t))
    /\ UNCHANGED <<input, now, events, cpuVars, lastQuantum, cpuTime, spinning, finished,
                   gathered, receivers>>

\* COMMUNIC_recv without it: SCHEDULER_thread_to_busy_wait, for as long as a
\* context switch takes, or block.
RecvWaits(t) ==
    /\ NextOp(t, "RECV") /\ StartupDone(t)
    /\ mail[t] = 0
    /\ params' = SchedulerInfo("first", t)
    /\ IF conf.busy
         THEN /\ on' = [on EXCEPT ![cpuOf[t]] = t]
              /\ spinning' = [spinning EXCEPT ![t] = TRUE]
              /\ events' = InsertEvent(events, Timer(now + conf.switch, "SCH", t))
              /\ loose' = [loose EXCEPT ![t] = TRUE]
              /\ UNCHANGED receivers
         ELSE /\ receivers' = receivers \cup {t}
              /\ UNCHANGED <<on, spinning, events, loose>>
    /\ phase' = <<"dispatch">>
    /\ UNCHANGED <<input, now, reloadDone, ready, context, cpuOf, switching, rest,
                   lastQuantum, cpuTime, finished, gathered, mail>>

Operation(t) ==
    \/ Finish(t) \/ Burst(t) \/ Event(t) \/ GlobalOperation(t)
    \/ SpendStartup(t) \/ Send(t) \/ RecvArrived(t) \/ RecvWaits(t)

Next ==
    \/ ContextSwitched \/ BusyWaitOver \/ BurstOver \/ Arrive \/ CloseGlobal
    \/ NewJob \/ Dispatch \/ ReloadEvents \/ RunPreemptor
    \/ \E t \in Threads : WakeUp(t) \/ Preemption(t) \/ Operation(t)

\* The main loop goes on while there are events.
Spec == Init /\ [][Next]_vars /\ WF_vars(Next)

-----------------------------------------------------------------------------
(* Properties *)

Idle == phase = <<"idle">>
Times(q, t) == Cardinality({i \in DOMAIN q : q[i] = t})
Timers(t) == {i \in DOMAIN events : events[i].module = "SCH" /\ events[i].th = t}

\* Between events every thread is in one place, once: on the CPU it believes
\* to be on, with its only timer, or in ready, or blocked in a collective
\* or in a receive, or counted as finished.
OnePlace ==
    Idle => \A t \in Threads :
        /\ Cardinality({c \in Cpus : on[c] = t}) + Times(ready, t)
             + Times(gathered, t) + One(t \in receivers) + finished[t] = 1
        /\ IF \E c \in Cpus : on[c] = t THEN on[cpuOf[t]] = t /\ Cardinality(Timers(t)) = 1
                                       ELSE Timers(t) = {}

\* Between events no CPU is idle while a thread is ready to run.
NoIdleCpu == Idle /\ ready # <<>> => Free = {}

\* event_manager never meets an event of the past.
TimeForward == \A i \in DOMAIN events :
    events[i].at >= now /\ \A j \in 1 .. i : events[j].at <= events[i].at

BurstTime(a) == IF a.op = "WORK" THEN a.time ELSE 0
BurstsOf(s) ==
    LET sum[i \in 0 .. Len(s)] == IF i = 0 THEN 0 ELSE sum[i - 1] + BurstTime(s[i])
    IN  sum[Len(s)]

\* The CPU time accounted to a thread and what is left of its bursts are the
\* bursts of its trace, however they were cut into quanta and whatever
\* startups and bursts of no length were put between.
CpuTimeConserved ==
    \A t \in Threads : cpuTime[t] + BurstsOf(rest[t]) = BurstsOf(prog[t])

\* Without priorities, a thread whose operation does not block it is at once
\* back on the CPU it had: nobody else gets in between.
KeepsCpu ==
    [][conf.policy \in {"FIFO", "RR"} =>
         /\ Idle' => \A i \in DOMAIN ready' : loose'[ready'[i]]
         /\ \A t \in Threads : ~loose[t] /\ Contains(ready, t) /\ ~Contains(ready', t)
                                 => cpuOf'[t] = cpuOf[t]]_vars

\* With priorities, a thread that gets a CPU leaves none before it in ready.
BestFirst ==
    [][conf.policy \notin {"FIFO", "RR"} =>
         \A c \in Cpus : on[c] = None /\ Contains(ready, on'[c]) =>
             \A i \in DOMAIN ready : Order(params, on'[c]) <= Order(params, ready[i])]_vars

\* "Null thread scheduled to run!": whoever asks for a thread finds one.
NeverPanics == phase # <<"panic">>

Ended == Idle /\ events = <<>>

\* When the events run out, a thread that is not finished waits for a message
\* that was not sent, busy waiters and the ones they miss aside, or in a
\* collective that not all have reached.
StuckOnlyIfWaiting ==
    Ended => \A t \in Threads :
        \/ finished[t] = 1
        \/ Contains(gathered, t) /\ Len(gathered) < NThreads
        \/ t \in receivers /\ (conf.busy \/ mail[t] = 0)

\* Every simulation ends: however threads take turns, time goes on.
Terminates == <>(Ended \/ phase = <<"panic">>)

\* A thread is in one place, with its only timer, and neither it nor its time is
\* lost or counted twice by quanta, startups, busy waits and collectives.
ThreadsAccounted ==
    /\ TypeOK
    /\ OnePlace
    /\ CpuTimeConserved
    /\ TimeForward

\* SCHEDULER_next_thread_to_run: no thread that can run waits for a free CPU, no
\* CPU looks for a thread in vain, and at the end only waiting threads are left.
NobodyForgotten ==
    /\ NoIdleCpu
    /\ NeverPanics
    /\ StuckOnlyIfWaiting

\* Every policy gives CPUs in the order it promises.
TurnsKept == KeepsCpu /\ BestFirst
==============================================================================
