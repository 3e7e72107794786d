------------------------------ MODULE GlobalOps ------------------------------
(***************************************************************************)
(* Collective operations in Simulator/model/communic.c: GLOBAL_operation   *)
(* (blocking and non-blocking), GLOBAL_wait_operation, the reservation of  *)
(* buses by one thread per machine, start_global_op and the two handlers   *)
(* that free the resources and release the participants.                   *)
(*                                                                         *)
(* A participant is a thread, or for a non-blocking operation a copy of it,*)
(* written <<thread, position of the operation in its trace>>.  The queues *)
(* of a communicator have a key: <<c, 0>> is communicator->threads, and    *)
(* <<c, i + 1>> what nonblock_global_op_threads holds at index i.  Every   *)
(* participant inserts a queue at its index and then uses the first one    *)
(* found there, so all share it and the others stay empty for ever.        *)
(*                                                                         *)
(* When buses are free is up to the network: a thread that reserves gets   *)
(* them at any time.  Collectives of an external model library, which      *)
(* reserve nothing, are left out.                                          *)
(***************************************************************************)
EXTENDS Integers, Sequences, SequencesExt, FiniteSets, QueueOps

CONSTANTS
    Threads,
    Comms,
    Members,      \* Members[c]: communicator->global_ranks
    Machine,      \* Machine[t]: where thread t is mapped
    Programs,     \* traces: a set of functions from threads to action sequences
    MaxIndex,     \* no trace is longer: bounds the indexes of the queues
    ZeroStartup   \* compute_startup answers 0 for non-blocking operations

\* calcula_temps_operacio_global: the time that timer stands for.
Cost == INSTANCE CollectiveCost

GlobalOp == [op : {"SYNC", "ASYN"}, comm : Comms]
OtherOp == [op : {"WAIT", "CPU"}]

ASSUME MembersAssumption ==
    /\ Members \in [Comms -> (SUBSET Threads) \ {{}}]
    /\ \A x \in Comms : IsFiniteSet(Members[x])
ASSUME StartupAssumption == ZeroStartup \in BOOLEAN
ASSUME IndexAssumption == MaxIndex \in Nat
\* thread_in_communicator: anything else is a panic.
ASSUME ProgramsAssumption ==
    \A p \in Programs :
        /\ p \in [Threads -> Seq(GlobalOp \cup OtherOp)]
        /\ \A t \in Threads : /\ Len(p[t]) <= MaxIndex
                              /\ \A i \in DOMAIN p[t] :
                                    p[t][i] \in GlobalOp => t \in Members[p[t][i].comm]

VARIABLES
    prog,            \* the traces of this execution
    pc,              \* thread->action, as a position in prog[t]
    status,          \* "ready" or "blocked"
    master,          \* master[t]: thread->nb_glob_index_master
    flight,          \* thread->n_nonblock_glob_in_flight
    done,            \* thread->n_nonblock_glob_done
    waiting,         \* thread->n_nonblock_glob_waiting
    nested,          \* copies made by the running handler, to be registered
    deeper,          \* SCHEDULER_general, called from it, is to run an action
    opThreads,       \* opThreads[k]: the participants queued at key k
    machineThreads,  \* those that reserve the resources of their machine
    timer,           \* event pending for the operation at key k
    counted,         \* sum of communicator->tasks_per_node
    ran              \* history: operations started

threadVars == <<pc, status, master, flight, done, waiting>>
opVars == <<opThreads, machineThreads, timer, counted, ran>>
vars == <<prog, threadVars, nested, deeper, opVars>>

Size(c) == Cardinality(Members[c])
Keys == Comms \X (0 .. MaxIndex)

TypeOK ==
    /\ pc \in [Threads -> Nat \ {0}]
    /\ status \in [Threads -> {"ready", "blocked"}]
    /\ master \in [Threads -> 0 .. MaxIndex]
    /\ flight \in [Threads -> Nat]
    /\ done \in [Threads -> Nat]
    /\ waiting \in [Threads -> {0, 1}]
    /\ nested \in Seq(Threads \X Nat) /\ deeper \in BOOLEAN
    /\ opThreads \in [Keys -> Seq(Threads \X Nat)]
    /\ machineThreads \in [Keys -> SUBSET (Threads \X Nat)]
    /\ timer \in [Keys -> {"none", "resources", "group"}]
    /\ counted \in [Comms -> Nat]

Init ==
    /\ prog \in Programs
    /\ pc = [t \in Threads |-> 1]
    /\ status = [t \in Threads |-> "ready"]
    /\ master = [t \in Threads |-> 0]
    /\ flight = [t \in Threads |-> 0]
    /\ done = [t \in Threads |-> 0]
    /\ waiting = [t \in Threads |-> 0]
    /\ nested = <<>> /\ deeper = FALSE
    /\ opThreads = [k \in Keys |-> <<>>]
    /\ machineThreads = [k \in Keys |-> {}]
    /\ timer = [k \in Keys |-> "none"]
    /\ counted = [c \in Comms |-> 0]
    /\ ran = {}

-----------------------------------------------------------------------------
More(t) == pc[t] <= Len(prog[t])
Action(p) == prog[p[1]][p[2]]

\* The scheduler runs an action of t: from the event queue, or at once when a
\* non-blocking operation of t calls SCHEDULER_general for its next action.
Running(t, op) ==
    /\ status[t] = "ready" /\ More(t) /\ prog[t][pc[t]].op = op
    /\ nested = <<>> \/ (deeper /\ Last(nested)[1] = t)

\* What SCHEDULER_general carries out at once: operations without a startup.
AtOnce(t, i) ==
    /\ i <= Len(prog[t])
    /\ \/ prog[t][i].op = "SYNC"
       \/ prog[t][i].op \in {"ASYN", "WAIT"} /\ ZeroStartup

\* One thread per machine reserves: the root, for its own, and the first one
\* in the queue for any other.
Reservers(queue, root) ==
    {root} \cup {queue[i] : i \in {j \in DOMAIN queue :
                    /\ Machine[queue[j][1]] # Machine[root[1]]
                    /\ \A h \in 1 .. (j - 1) :
                          Machine[queue[h][1]] # Machine[queue[j][1]]}}

\* The second half of GLOBAL_operation: wait in the queue for the others or,
\* as the last one, send for the resources.  The root is named in the trace.
Arrive(k, p) ==
    /\ counted' = [counted EXCEPT ![k[1]] = @ + 1]
    /\ LET queue == Append(opThreads[k], p) IN
       \/ /\ Len(opThreads[k]) + 1 # Size(k[1])
          /\ opThreads' = [opThreads EXCEPT ![k] = queue]
          /\ UNCHANGED machineThreads
       \/ /\ Len(opThreads[k]) + 1 = Size(k[1])
          /\ \E root \in ToSet(queue) :
                LET reserve == Reservers(queue, root) IN
                /\ machineThreads' = [machineThreads EXCEPT ![k] = reserve]
                /\ opThreads' = [opThreads EXCEPT ![k] = Without(queue, reserve)]
    /\ UNCHANGED <<timer, ran>>

-----------------------------------------------------------------------------
\* A CPU burst goes through the event queue.
Cpu(t) ==
    /\ Running(t, "CPU")
    /\ pc' = [pc EXCEPT ![t] = @ + 1]
    /\ UNCHANGED <<prog, status, master, flight, done, waiting, nested, deeper, opVars>>

\* GLOBAL_operation, blocking.
SyncOp(t) ==
    /\ Running(t, "SYNC")
    /\ Arrive(<<prog[t][pc[t]].comm, 0>>, <<t, pc[t]>>)
    /\ status' = [status EXCEPT ![t] = "blocked"]
    /\ deeper' = FALSE
    /\ UNCHANGED <<prog, pc, master, flight, done, waiting, nested>>

\* GLOBAL_operation, non-blocking, up to the call of SCHEDULER_general: the
\* thread goes on while its copy is still to be given an index.
AsynOp(t) ==
    /\ Running(t, "ASYN")
    /\ pc' = [pc EXCEPT ![t] = @ + 1]
    /\ nested' = Append(nested, <<t, pc[t]>>)
    /\ deeper' = AtOnce(t, pc[t] + 1)
    /\ UNCHANGED <<prog, status, master, flight, done, waiting, opVars>>

\* Mutants: the index is not incremented; the copy is not counted in flight.
RegisterSameIndex ==
    /\ nested # <<>> /\ ~deeper
    /\ LET p == Last(nested)
           t == p[1]
       IN  /\ flight' = [flight EXCEPT ![t] = @ + 1]
           /\ Arrive(<<Action(p).comm, 1>>, p)
    /\ nested' = Front(nested)
    /\ UNCHANGED <<prog, pc, status, master, done, waiting, deeper>>

\* ... and from there on: the copy takes the next index of its thread.
Register ==
    /\ nested # <<>> /\ ~deeper
    /\ LET p == Last(nested)
           t == p[1]
       IN  /\ flight' = [flight EXCEPT ![t] = @ + 1]
           /\ master' = [master EXCEPT ![t] = @ + 1]
           /\ Arrive(<<Action(p).comm, master[t] + 1>>, p)
    /\ nested' = Front(nested)
    /\ UNCHANGED <<prog, pc, status, done, waiting, deeper>>

\* Mutant: operations that are already done are not looked at.
WaitOpBlind(t) ==
    /\ Running(t, "WAIT")
    /\ waiting' = [waiting EXCEPT ![t] = @ + 1]
    /\ status' = [status EXCEPT ![t] = "blocked"]
    /\ deeper' = FALSE
    /\ UNCHANGED <<prog, pc, done, master, flight, nested, opVars>>

\* GLOBAL_wait_operation: any operation that is done will do.
WaitOp(t) ==
    /\ Running(t, "WAIT")
    /\ \/ /\ done[t] = 0
          /\ waiting' = [waiting EXCEPT ![t] = @ + 1]
          /\ status' = [status EXCEPT ![t] = "blocked"]
          /\ UNCHANGED <<pc, done>>
       \/ /\ done[t] > 0
          /\ done' = [done EXCEPT ![t] = @ - 1]
          /\ pc' = [pc EXCEPT ![t] = @ + 1]
          /\ UNCHANGED <<waiting, status>>
    /\ deeper' = FALSE
    /\ UNCHANGED <<prog, master, flight, nested, opVars>>

\* start_global_op: the cost is computed and the end of the reservation, and of
\* the operation, are scheduled.
StartGlobalOp(k, participants) ==
    /\ timer' = [timer EXCEPT ![k] = "resources"]
    /\ ran' = ran \cup {[key |-> k, who |-> participants, tasks |-> counted[k[1]]]}

\* global_op_get_all_buses succeeds for p, and with it the links out of its
\* machine: p is queued again, and the last one starts the operation.
GetAllBuses(k, p) ==
    /\ timer[k] = "none"
    /\ p \in machineThreads[k] /\ ~Contains(opThreads[k], p)
    /\ opThreads' = [opThreads EXCEPT ![k] = Append(@, p)]
    /\ IF Len(opThreads[k]) + 1 = Size(k[1])
         THEN StartGlobalOp(k, ToSet(opThreads[k]) \cup {p})
         ELSE UNCHANGED <<timer, ran>>
    /\ UNCHANGED <<prog, threadVars, nested, deeper, machineThreads, counted>>

\* COM_TIMER_GROUP_RESOURCES, free_global_communication_resources.
GroupResourcesOut(k) ==
    /\ nested = <<>>
    /\ timer[k] = "resources"
    /\ timer' = [timer EXCEPT ![k] = "group"]
    /\ machineThreads' = [machineThreads EXCEPT ![k] = {}]
    /\ UNCHANGED <<prog, threadVars, nested, deeper, opThreads, counted, ran>>

\* COM_TIMER_GROUP, the part both kinds of operation share.
Close(k) ==
    /\ nested = <<>>
    /\ timer[k] = "group"
    /\ timer' = [timer EXCEPT ![k] = "none"]
    /\ opThreads' = [opThreads EXCEPT ![k] = <<>>]
    /\ counted' = [counted EXCEPT ![k[1]] = 0]
    /\ UNCHANGED <<prog, nested, deeper, machineThreads, ran>>

Owners(k) == {p[1] : p \in ToSet(opThreads[k])}

\* close_global_communication: everyone goes on.
CloseSync(k) ==
    /\ k[2] = 0
    /\ Close(k)
    /\ pc' = [t \in Threads |-> IF t \in Owners(k) THEN pc[t] + 1 ELSE pc[t]]
    /\ status' = [t \in Threads |-> IF t \in Owners(k) THEN "ready" ELSE status[t]]
    /\ UNCHANGED <<master, flight, done, waiting>>

CloseAsynTwice(k) ==
    /\ k[2] > 0
    /\ Close(k)
    /\ LET released == {t \in Owners(k) : waiting[t] > 0} IN
       /\ waiting' = [t \in Threads |-> IF t \in released THEN waiting[t] - 1 ELSE waiting[t]]
       /\ pc' = [t \in Threads |-> IF t \in released THEN pc[t] + 1 ELSE pc[t]]
       /\ status' = [t \in Threads |-> IF t \in released THEN "ready" ELSE status[t]]
       /\ done' = [t \in Threads |-> IF t \in Owners(k) THEN done[t] + 1 ELSE done[t]]
       /\ flight' = [t \in Threads |-> IF t \in Owners(k) THEN flight[t] - 1 ELSE flight[t]]
    /\ UNCHANGED master

\* close_global_nonblock_communication: a thread that waits goes on; for any
\* other the operation is left as done.
CloseAsyn(k) ==
    /\ k[2] > 0
    /\ Close(k)
    /\ LET released == {t \in Owners(k) : waiting[t] > 0} IN
       /\ waiting' = [t \in Threads |-> IF t \in released THEN waiting[t] - 1 ELSE waiting[t]]
       /\ pc' = [t \in Threads |-> IF t \in released THEN pc[t] + 1 ELSE pc[t]]
       /\ status' = [t \in Threads |-> IF t \in released THEN "ready" ELSE status[t]]
       /\ done' = [t \in Threads |-> IF t \in Owners(k) \ released THEN done[t] + 1
                                                                  ELSE done[t]]
       /\ flight' = [t \in Threads |-> IF t \in Owners(k) THEN flight[t] - 1 ELSE flight[t]]
    /\ UNCHANGED master

Step(t) == Cpu(t) \/ SyncOp(t) \/ AsynOp(t) \/ WaitOp(t)

Timers(k) == GroupResourcesOut(k) \/ CloseSync(k) \/ CloseAsyn(k)

Next == \/ \E t \in Threads : Step(t)
        \/ Register
        \/ \E k \in Keys : Timers(k) \/ \E p \in machineThreads[k] : GetAllBuses(k, p)

\* Handlers run to their end, threads that are ready are run, timers go off,
\* and the network serves those who wait for buses.
Fairness == /\ \A t \in Threads : WF_vars(Step(t))
            /\ WF_vars(Register)
            /\ \A k \in Keys : /\ WF_vars(Timers(k))
                               /\ WF_vars(\E p \in machineThreads[k] : GetAllBuses(k, p))

Spec == Init /\ [][Next]_vars /\ Fairness

-----------------------------------------------------------------------------
(* Properties *)

\* Which operation of its kind on its communicator participant p is for its
\* thread: MPI matches collectives by this number.
Ordinal(p) == Cardinality({i \in 1 .. p[2] : prog[p[1]][i] = Action(p)})

\* A collective that starts has one participant of each member, all with the
\* same call: the queues, found by index, never mix two operations.
CallsMatch ==
    \A r \in ran :
        /\ {p[1] : p \in r.who} = Members[r.key[1]]
        /\ \A p, q \in r.who : Action(p) = Action(q) /\ Ordinal(p) = Ordinal(q)

\* Traces for which that can hold: the index of a non-blocking operation counts
\* those of its thread on any communicator, so members have to make as many calls
\* on others before each.  It is counted here up to position i of trace s.
Asyns(s, i) == Cardinality({h \in 1 .. i : s[h].op = "ASYN"})
Calls(s, i) == Cardinality({h \in 1 .. i : s[h] = s[i]})
IndexesMatch ==
    \A p \in Programs, x \in Comms : \A t, u \in Members[x] :
        \A i \in DOMAIN p[t], j \in DOMAIN p[u] :
            /\ p[t][i] = p[u][j] /\ p[t][i].op = "ASYN" /\ p[t][i].comm = x
            /\ Asyns(p[t], i) = Asyns(p[u], j)
            => Calls(p[t], i) = Calls(p[u], j)

\* No lost wakeup: no thread is blocked in a wait with an operation done.
NoLostWait == \A t \in Threads : waiting[t] = 0 \/ done[t] = 0

Passed(t, op) == {i \in 1 .. (pc[t] - 1) : prog[t][i].op = op}
InNested(t) == {i \in DOMAIN nested : nested[i][1] = t}

\* The counters are exact: the non-blocking operations a thread has started
\* are in flight, done, or matched by a wait that it has passed.
NonblockingAccounted ==
    \A t \in Threads :
        Cardinality(Passed(t, "ASYN")) =
            Cardinality(InNested(t)) + flight[t] + done[t] + Cardinality(Passed(t, "WAIT"))

\* While an operation holds buses, one participant per machine reserves them.
OneReserverPerMachine ==
    \A k \in Keys : machineThreads[k] # {} =>
        /\ {Machine[p[1]] : p \in machineThreads[k]} = {Machine[t] : t \in Members[k[1]]}
        /\ \A p, q \in machineThreads[k] : Machine[p[1]] = Machine[q[1]] => p = q

\* Traces whose members make the same calls in the same order run to the end.
AllFinish == <>(\A t \in Threads : ~More(t))

\* Participants and operations are counted once in every queue and counter that
\* GLOBAL_operation and close_global_communication keep, however the operations
\* of a communicator overlap.
CountedOnce ==
    /\ TypeOK
    /\ NoLostWait
    /\ NonblockingAccounted
    /\ OneReserverPerMachine

\* They are, and the times of an operation fit together, which does not depend on
\* the state and is evaluated where the simulation begins.
OperationsAccounted == CountedOnce /\ (Init => Cost!CostsRight)
==============================================================================
