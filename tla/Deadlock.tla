------------------------------- MODULE Deadlock -------------------------------
(***************************************************************************)
(* The recovery from deadlocks (--clean-deadlocks):                        *)
(* Simulator/utils/deadlock_analysis.c and graph.c, the restart loop of    *)
(* main.cpp with SIMULATOR_reset_state, and the records that               *)
(* DAP_read_action skips.  A task tells the analyser every communication   *)
(* it begins; the analyser keeps who waits for whom, and when an arc       *)
(* closes a cycle it chooses a record of the trace to be ignored and the   *)
(* simulation starts again.                                                *)
(*                                                                         *)
(* The simulator under it is reduced to what blocks a task: a message of   *)
(* an eager tag leaves at once, another one when its receive is posted,    *)
(* and a transfer holds one link out of and one link into a node.  Every   *)
(* task has one thread and one node.                                       *)
(***************************************************************************)
EXTENDS Integers, Sequences, SequencesExt, FiniteSetsExt

CONSTANTS
    N,         \* total_ranks
    Eager,     \* tags of messages below the synchronous limit
    Runs       \* [ops, percent, estats]: a trace, where the analysis is to
               \* stop, and the counters of the .estats file (or NoEstats)

Tasks == 1 .. N

\* define.h: codes, not bits (the powers of two are commented out there).
WORK == 1
SEND == 2
RECV == 3
GLOBAL_OP == 11
IRECV == 14
WAIT == 15
SOFT_ACTION_RESOLVED == 65536

NoEstats == <<>>

Kinds == {WORK, SEND, RECV, GLOBAL_OP, IRECV, WAIT}
Records == [action : Kinds, peer : Nat, tag : Nat]
Counters == [{"send", "recv", "glop"} -> Nat]

ASSUME TasksAssumption == N \in Nat \ {0, 1}
\* Every task computes after its last communication.  Messages of a task to
\* itself, which need no links, are left out.
ASSUME RunsAssumption ==
    \A r \in Runs :
        /\ r.ops \in [Tasks -> Seq(Records)]
        /\ \A t \in Tasks :
               /\ r.ops[t] # <<>> /\ Last(r.ops[t]).action = WORK
               /\ \A i \in DOMAIN r.ops[t] :
                      r.ops[t][i].action \notin {WORK, GLOBAL_OP}
                          => r.ops[t][i].peer \in Tasks \ {t}
        /\ r.percent \in 0 .. 100
        /\ r.estats = NoEstats \/ r.estats \in [Tasks -> Counters]

VARIABLES
    run,        \* the trace and options of this execution
    action,     \* thread->action: position in the trace; past the end when done
    status,     \* "ready", "blocked" or "done"
    graph,      \* _graph_map: the arcs of each task, by destination
    ignored,    \* ops_to_be_ignored: positions in the trace
    pendent,    \* estats_per_rank: operations without a partner, by kind
    analysing,  \* with_deadlock_analysis
    rebooted,   \* simulation_rebooted
    chan,       \* messages of each source, destination and tag, by stage
    glops,      \* collectives each task has reached
    busyOut,    \* nodes whose output link is taken
    busyIn,
    ended       \* the loop of main has finished

simVars == <<chan, glops, busyOut, busyIn>>
vars == <<run, action, status, graph, ignored, pendent, analysing, rebooted,
          simVars, ended>>

Len_(t) == Len(run.ops[t])
Op(t) == run.ops[t][action[t]]
\* Source, destination and tag of the messages of the traces.
Keys ==
    (UNION {{IF o.action = SEND THEN <<t, o.peer, o.tag>> ELSE <<o.peer, t, o.tag>> :
                o \in {r.ops[t][i] : i \in DOMAIN r.ops[t]}} : r \in Runs, t \in Tasks})
    \cap (Tasks \X Tasks \X Nat)
Stages == {"sent", "posted", "started", "delivered", "done"}

TypeOK ==
    /\ run \in Runs
    /\ \A t \in Tasks : action[t] \in 1 .. Len_(t) + 1
    /\ status \in [Tasks -> {"ready", "blocked", "done"}]
    /\ \A t \in Tasks : \A i \in DOMAIN graph[t] :
           /\ graph[t][i].to \in Tasks \ {t}
           /\ graph[t][i].type \in {"STRG", "SOFT", "GLOP"}
           /\ i > 1 => graph[t][i - 1].to <= graph[t][i].to
    /\ \A t \in Tasks : ignored[t] \subseteq 1 .. Len_(t)
    /\ chan \in [Keys -> [Stages -> Nat]]
    /\ glops \in [Tasks -> Nat]
    /\ busyOut \subseteq Tasks /\ busyIn \subseteq Tasks
    /\ {analysing, rebooted, ended} \subseteq BOOLEAN

-----------------------------------------------------------------------------
(* graph.c *)

\* (d->action & action) != 0, of codes below 16.
MasksMeet(a, m) ==
    \/ a = m
    \/ /\ a < 16 /\ m < 16
       /\ \E b \in {1, 2, 4, 8} : (a \div b) % 2 = 1 /\ (m \div b) % 2 = 1

\* GRAPH_get_dependency: the first arc from t to u that fits, 0 if none does.
\* RECV|WAIT is 15, which is WAIT: the tag is compared there too.
GetDependency(g, t, u, type, mask, tag) ==
    SelectInSeq(g[t], LAMBDA d : /\ d.to = u
                                 /\ d.type = type
                                 /\ MasksMeet(d.action, mask)
                                 /\ d.tag = tag)

\* GRAPH_add_dependency: before the other arcs to the same task.
AddDependency(g, t, u, type, act, tag, offset) ==
    LET next == SelectInSeq(g[t], LAMBDA d : d.to >= u)
    IN [g EXCEPT ![t] = InsertAt(@, IF next = 0 THEN Len(@) + 1 ELSE next,
            [to |-> u, type |-> type, action |-> act, tag |-> tag, offset |-> offset])]

RemoveDependency(g, t, i) == [g EXCEPT ![t] = RemoveAt(@, i)]
ChangeAction(g, t, i) == [g EXCEPT ![t][i].action = SOFT_ACTION_RESOLVED]

Blocks(d) == d.type \in {"STRG", "GLOP"}
Arc(g, t, u) == \E i \in DOMAIN g[t] : g[t][i].to = u /\ Blocks(g[t][i])

\* The ways of arcs that block, from root back to it.
Cycles(g, root) ==
    {c \in UNION {[1 .. k -> Tasks] : k \in 3 .. N + 1} :
        /\ \A i \in DOMAIN c : c[i] = root <=> i \in {1, Len(c)}
        /\ \A i \in 1 .. Len(c) - 1 : Arc(g, c[i], c[i + 1])}

\* GRAPH_look_for_cycle goes down each arc in turn: the least of them.
DepChain(g, root) ==
    CHOOSE c \in Cycles(g, root) : \A o \in Cycles(g, root) \ {c} :
        \E i \in DOMAIN c \cap DOMAIN o :
            c[i] < o[i] /\ \A j \in 1 .. i - 1 : c[j] = o[j]

FirstBlocking(g, t, u) == g[t][SelectInSeq(g[t], LAMBDA d : d.to = u /\ Blocks(d))]

-----------------------------------------------------------------------------
(* deadlock_analysis.c: the graph after an operation, and whether          *)
(* _is_deadlocked is called on it.                                         *)

Result(g, check) == [graph |-> g, check |-> check]

\* Adds the arc of the operation t begins.
NewArc(g, t, type, act) ==
    AddDependency(g, t, Op(t).peer, type, act, Op(t).tag, action[t])

NewSend(t) ==
    LET u == Op(t).peer
        dep == GetDependency(graph, u, t, "STRG", WAIT, Op(t).tag)
        irecv == GetDependency(graph, u, t, "SOFT", IRECV, Op(t).tag)
        waiting == IF dep = 0 THEN SEND ELSE graph[u][dep].action
    IN CASE waiting = RECV -> Result(RemoveDependency(graph, u, dep), FALSE)
         [] waiting = WAIT /\ irecv # 0 ->
                Result(RemoveDependency(RemoveDependency(graph, u, Max({dep, irecv})),
                                        u, Min({dep, irecv})), FALSE)
         [] waiting = SEND /\ irecv # 0 -> Result(ChangeAction(graph, u, irecv), FALSE)
         [] OTHER -> IF Op(t).tag \in Eager /\ waiting = SEND
                     THEN Result(NewArc(graph, t, "SOFT", SOFT_ACTION_RESOLVED), FALSE)
                     ELSE Result(NewArc(graph, t, "STRG", SEND), TRUE)

\* Mutant: a receive that blocks does not look for a cycle.
RecvUnchecked(t) ==
    LET u == Op(t).peer
        dep == GetDependency(graph, u, t, "STRG", SEND, Op(t).tag)
        isend == GetDependency(graph, u, t, "SOFT", SOFT_ACTION_RESOLVED, Op(t).tag)
    IN CASE dep # 0 -> Result(RemoveDependency(graph, u, dep), FALSE)
         [] dep = 0 /\ isend # 0 -> Result(graph, FALSE)
         [] OTHER -> Result(NewArc(graph, t, "STRG", RECV), FALSE)

NewRecv(t) ==
    LET u == Op(t).peer
        dep == GetDependency(graph, u, t, "STRG", SEND, Op(t).tag)
        isend == GetDependency(graph, u, t, "SOFT", SOFT_ACTION_RESOLVED, Op(t).tag)
    IN CASE dep # 0 -> Result(RemoveDependency(graph, u, dep), FALSE)
         [] dep = 0 /\ isend # 0 -> Result(graph, FALSE)
         [] OTHER -> Result(NewArc(graph, t, "STRG", RECV), TRUE)

NewWait(t) ==
    LET u == Op(t).peer
        mine == GetDependency(graph, t, u, "SOFT", SOFT_ACTION_RESOLVED, Op(t).tag)
        theirs == GetDependency(graph, u, t, "SOFT", SOFT_ACTION_RESOLVED, Op(t).tag)
    IN CASE mine # 0 -> Result(RemoveDependency(graph, t, mine), FALSE)
         [] mine = 0 /\ theirs # 0 -> Result(RemoveDependency(graph, u, theirs), FALSE)
         [] OTHER -> Result(NewArc(graph, t, "STRG", WAIT), TRUE)

\* Mutant: a posted receive leaves the arc of the send it matches.
IrecvForgetsSend(t) == Result(NewArc(graph, t, "SOFT", IRECV), FALSE)

NewIrecv(t) ==
    LET u == Op(t).peer
        dep == GetDependency(graph, u, t, "STRG", SEND, Op(t).tag)
        isend == GetDependency(graph, u, t, "SOFT", SOFT_ACTION_RESOLVED, Op(t).tag)
        resolved == NewArc(graph, t, "SOFT", SOFT_ACTION_RESOLVED)
    IN CASE dep # 0 -> Result(RemoveDependency(resolved, u, dep), FALSE)
         [] dep = 0 /\ isend # 0 -> Result(RemoveDependency(resolved, u, isend), FALSE)
         [] OTHER -> Result(NewArc(graph, t, "SOFT", IRECV), FALSE)

\* DEADLOCK_manage_global_dependency.  The tag of such an arc is its glop_id.
NewGlop(t) ==
    LET Came(u) == GetDependency(graph, u, t, "GLOP", GLOBAL_OP, Op(t).tag)
        after[u \in 0 .. N] ==
            IF u = 0 THEN graph
            ELSE IF u = t THEN after[u - 1]
            ELSE IF Came(u) # 0 THEN RemoveDependency(after[u - 1], u, Came(u))
            ELSE AddDependency(after[u - 1], t, u, "GLOP", GLOBAL_OP, Op(t).tag, action[t])
    IN Result(after[N], \E u \in Tasks \ {t} : Came(u) = 0)

\* DEADLOCK_new_communic_event
NewCommunic(t) ==
    CASE Op(t).action = SEND -> NewSend(t)
      [] Op(t).action = RECV -> NewRecv(t)
      [] Op(t).action = WAIT -> NewWait(t)
      [] Op(t).action = IRECV -> NewIrecv(t)
      [] OTHER -> NewGlop(t)

Counter(act) == CASE act = SEND -> "send"
                  [] act = GLOBAL_OP -> "glop"
                  [] OTHER -> "recv"

\* The pendent operations of the kind that task i of the chain waits with.
PendentAt(g, c, i) == pendent[c[i]][Counter(FirstBlocking(g, c[i], c[i + 1]).action)]

\* breakChainFrom: the first with most pendent operations.  With none, or
\* without a file, _get_earlier_task_index: every arc has time 0, so the root.
TaskToMod(g, c) ==
    LET Least(i) == \A j \in 1 .. Len(c) - 1 :
                        /\ PendentAt(g, c, j) <= PendentAt(g, c, i)
                        /\ j < i => PendentAt(g, c, j) < PendentAt(g, c, i)
    IN IF run.estats = NoEstats THEN 1
       ELSE CHOOSE i \in 1 .. Len(c) - 1 : Least(i)

\* _is_deadlocked when there is a cycle: an operation is to be ignored.
BreakChain(g, c) ==
    LET i == TaskToMod(g, c)
        d == FirstBlocking(g, c[i], c[i + 1])
    IN /\ ignored' = [ignored EXCEPT ![c[i]] = @ \cup {d.offset}]
       /\ pendent' = IF run.estats = NoEstats \/ PendentAt(g, c, i) = 0 THEN pendent
                     ELSE [pendent EXCEPT ![c[i]][Counter(d.action)] = @ - 1]
       /\ rebooted' = TRUE

-----------------------------------------------------------------------------
(* file_data_access.c, read.c and schedule.c: the next operation of a      *)
(* task, and what its end does.                                            *)

\* DAP_read_action after record k: one record to be ignored is skipped, and
\* the one after it is read whatever it is.
NextRecord(t, k, on) == IF on /\ k + 1 \in ignored[t] THEN k + 2 ELSE k + 1

\* Mutant: a task that ends gives up arcs that do not block, too.
EndGivesUpAll(t, g, on) ==
    LET next == NextRecord(t, action[t], on)
        fin == next > Len_(t)
        ToMe(u) == {g[u][i].offset : i \in {j \in DOMAIN g[u] : g[u][j].to = t}}
        over == fin /\ on
    IN /\ action' = [action EXCEPT ![t] = next]
       /\ status' = [status EXCEPT ![t] = IF fin THEN "done" ELSE "ready"]
       /\ ignored' = IF over THEN [u \in Tasks |-> ignored[u] \cup ToMe(u)] ELSE ignored
       /\ rebooted' = (over /\ \E u \in Tasks : ToMe(u) # {})
       /\ UNCHANGED pendent

\* more_actions; without any, DEADLOCK_thread_finalized gives up what others
\* wait from the task for.
MoreActions(t, g, on) ==
    LET next == NextRecord(t, action[t], on)
        fin == next > Len_(t)
        WaitForMe(u) == {g[u][i].offset : i \in
                            {j \in DOMAIN g[u] : g[u][j].to = t /\ Blocks(g[u][j])}}
        over == fin /\ on
    IN /\ action' = [action EXCEPT ![t] = next]
       /\ status' = [status EXCEPT ![t] = IF fin THEN "done" ELSE "ready"]
       /\ ignored' = IF over THEN [u \in Tasks |-> ignored[u] \cup WaitForMe(u)]
                     ELSE ignored
       /\ rebooted' = (over /\ \E u \in Tasks : WaitForMe(u) # {})
       /\ UNCHANGED pendent

-----------------------------------------------------------------------------
(* The simulator under the analysis                                        *)

Key(t) == IF Op(t).action = SEND THEN <<t, Op(t).peer, Op(t).tag>>
          ELSE <<Op(t).peer, t, Op(t).tag>>
Count(k, stage) == [chan EXCEPT ![k][stage] = @ + 1]

\* The messages of a key that may leave.
Ready(k) == IF k[3] \in Eager THEN chan[k].sent ELSE Min({chan[k].sent, chan[k].posted})

\* What the operation does at once, and whether the task blocks.
Begin(t) ==
    /\ chan' = CASE Op(t).action = SEND -> Count(Key(t), "sent")
                 [] Op(t).action \in {RECV, IRECV} -> Count(Key(t), "posted")
                 [] OTHER -> chan
    /\ glops' = IF Op(t).action = GLOBAL_OP THEN [glops EXCEPT ![t] = @ + 1] ELSE glops
    /\ UNCHANGED <<busyOut, busyIn>>

GoesOn(t) == \/ Op(t).action = IRECV
             \/ Op(t).action = SEND /\ Op(t).tag \in Eager

\* A blocked task for which everything has arrived.
Satisfied(t) ==
    CASE Op(t).action = SEND -> chan[Key(t)].delivered = chan[Key(t)].sent
      [] Op(t).action \in {RECV, WAIT} -> chan[Key(t)].delivered > chan[Key(t)].done
      [] OTHER -> \A u \in Tasks : glops[u] >= glops[t]

StartTransfer(k) ==
    /\ ~rebooted /\ ~ended
    /\ chan[k].started < Ready(k)
    /\ k[1] \notin busyOut /\ k[2] \notin busyIn
    /\ chan' = Count(k, "started")
    /\ busyOut' = busyOut \cup {k[1]}
    /\ busyIn' = busyIn \cup {k[2]}
    /\ UNCHANGED <<run, action, status, graph, ignored, pendent, analysing,
                   rebooted, glops, ended>>

EndTransfer(k) ==
    /\ ~rebooted /\ ~ended
    /\ chan[k].delivered < chan[k].started
    /\ chan' = Count(k, "delivered")
    /\ busyOut' = busyOut \ {k[1]}
    /\ busyIn' = busyIn \ {k[2]}
    /\ UNCHANGED <<run, action, status, graph, ignored, pendent, analysing,
                   rebooted, glops, ended>>

Unblock(t) ==
    /\ ~rebooted /\ ~ended
    /\ status[t] = "blocked"
    /\ Satisfied(t)
    /\ chan' = IF Op(t).action \in {RECV, WAIT} THEN Count(Key(t), "done") ELSE chan
    /\ MoreActions(t, graph, analysing)
    /\ UNCHANGED <<run, graph, analysing, glops, busyOut, busyIn, ended>>

Work(t) ==
    /\ ~rebooted /\ ~ended
    /\ status[t] = "ready"
    /\ Op(t).action = WORK
    /\ MoreActions(t, graph, analysing)
    /\ UNCHANGED <<run, graph, analysing, simVars, ended>>

\* COMMUNIC_send, recv, Irecv, wait and GLOBAL_operation once the analyser lets
\* them go on, with graph g.
GoOn(t, g, on) ==
    /\ graph' = g
    /\ analysing' = on
    /\ Begin(t)
    /\ \/ /\ GoesOn(t)
          /\ MoreActions(t, g, on)
       \/ /\ ~GoesOn(t)
          /\ status' = [status EXCEPT ![t] = "blocked"]
          /\ UNCHANGED <<action, ignored, pendent, rebooted>>
    /\ UNCHANGED <<run, ended>>

\* DAP_get_progression >= _end_analysis_tpercent
Deactivates(t) == 100 * action[t] >= run.percent * Len_(t)

Communicate(t) ==
    /\ ~rebooted /\ ~ended
    /\ status[t] = "ready"
    /\ Op(t).action # WORK
    /\ \/ /\ ~analysing \/ Deactivates(t)
          /\ GoOn(t, graph, FALSE)
       \/ /\ analysing /\ ~Deactivates(t)
          /\ \E r \in {NewCommunic(t)} :
                IF r.check /\ Cycles(r.graph, t) # {}
                THEN /\ BreakChain(r.graph, DepChain(r.graph, t))
                     /\ graph' = r.graph
                     /\ UNCHANGED <<run, action, status, analysing, simVars, ended>>
                ELSE GoOn(t, r.graph, TRUE)

-----------------------------------------------------------------------------
(* main.cpp: the end of the events, and the restart                        *)

QueueEmpty ==
    /\ \A t \in Tasks : status[t] # "ready" /\ (status[t] = "blocked" => ~Satisfied(t))
    /\ \A k \in Keys : chan[k].delivered = chan[k].started /\ chan[k].started = Ready(k)

NoChan == [k \in Keys |-> [s \in Stages |-> 0]]
Pending(t) == {graph[t][i].offset : i \in DOMAIN graph[t]}
\* Mutant: what is pending at the end is forgotten.
NoCheckEnd == FALSE

CheckEnd == \E t \in Tasks : Pending(t) # {}

\* Mutant: the links in use are not taken back.
ResetKeepsLinks(ign) ==
    /\ action' = [t \in Tasks |-> IF 1 \in ign[t] THEN 2 ELSE 1]
    /\ status' = [t \in Tasks |-> "ready"]
    /\ graph' = [t \in Tasks |-> <<>>]
    /\ chan' = NoChan
    /\ glops' = [t \in Tasks |-> 0]
    /\ rebooted' = FALSE
    /\ ignored' = ign
    /\ UNCHANGED <<busyOut, busyIn>>

\* SIMULATOR_reset_state and COMMUNIC_reset_deadlock.  Its list of operations
\* to be ignored is all that stays.
ResetState(ign) ==
    /\ action' = [t \in Tasks |-> IF 1 \in ign[t] THEN 2 ELSE 1]
    /\ status' = [t \in Tasks |-> "ready"]
    /\ graph' = [t \in Tasks |-> <<>>]
    /\ chan' = NoChan
    /\ glops' = [t \in Tasks |-> 0]
    /\ busyOut' = {}
    /\ busyIn' = {}
    /\ rebooted' = FALSE
    /\ ignored' = ign

\* DEADLOCK_check_end runs when nothing else has asked for a restart.
Reboot ==
    /\ ~ended
    /\ \/ /\ rebooted
          /\ ResetState(ignored)
       \/ /\ ~rebooted /\ QueueEmpty /\ analysing /\ CheckEnd
          /\ ResetState([t \in Tasks |-> ignored[t] \cup Pending(t)])
    /\ UNCHANGED <<run, pendent, analysing, ended>>

End ==
    /\ ~ended /\ ~rebooted /\ QueueEmpty
    /\ analysing => ~CheckEnd
    /\ ended' = TRUE
    /\ UNCHANGED <<run, action, status, graph, ignored, pendent, analysing,
                   rebooted, simVars>>

Init ==
    /\ run \in Runs
    /\ action = [t \in Tasks |-> 1]
    /\ status = [t \in Tasks |-> "ready"]
    /\ graph = [t \in Tasks |-> <<>>]
    /\ ignored = [t \in Tasks |-> {}]
    /\ pendent = run.estats
    /\ analysing = TRUE
    /\ rebooted = FALSE
    /\ chan = NoChan
    /\ glops = [t \in Tasks |-> 0]
    /\ busyOut = {} /\ busyIn = {}
    /\ ended = FALSE

Next ==
    \/ \E t \in Tasks : Work(t) \/ Communicate(t) \/ Unblock(t)
    \/ \E k \in Keys : StartTransfer(k) \/ EndTransfer(k)
    \/ Reboot
    \/ End

\* One thread takes the events in turn until there are none: as long as it
\* can do something it does.
Spec == Init /\ [][Next]_vars /\ WF_vars(Next)

-----------------------------------------------------------------------------
(* Properties                                                              *)

\* The tasks that have not reached what t waits for, or would wait for if it
\* began its operation now: the receive of its message, the message it
\* receives, a collective.  It looks at the simulator only.
Awaited(t) ==
    LET own == IF status[t] = "ready" THEN 1 ELSE 0
    IN CASE status[t] = "done" \/ Op(t).action \in {WORK, IRECV} -> {}
         [] Op(t).action = SEND ->
                IF Op(t).tag \notin Eager /\ chan[Key(t)].posted < chan[Key(t)].sent + own
                THEN {Op(t).peer} ELSE {}
         [] Op(t).action \in {RECV, WAIT} ->
                IF chan[Key(t)].sent <= chan[Key(t)].done THEN {Op(t).peer} ELSE {}
         [] OTHER -> {u \in Tasks \ {t} : glops[u] < glops[t] + own}

\* While it is on, the analyser knows exactly who waits for whom: an arc that
\* blocks for every task a blocked task still waits for, and no other
\* (GRAPH_add_dependency and GRAPH_remove_dependency_p against COMMUNIC_*).
GraphMirrorsBlocking ==
    analysing /\ ~rebooted =>
        \A t, u \in Tasks :
            Arc(graph, t, u) <=> status[t] = "blocked" /\ u \in Awaited(t)

\* Until a cycle is found there is none, so that __look_for_cycle, which marks
\* nothing as visited, comes to an end and its chain fits in total_ranks + 1.
GraphAcyclic == ~rebooted => \A t \in Tasks : Cycles(graph, t) = {}

\* A restart is only asked for when some tasks can never go on: each of them
\* waits for one of them or for a task that is done (_is_deadlocked and
\* DEADLOCK_thread_finalized).  The task at whose operation the cycle was
\* found is still to block.
RestartJustified ==
    rebooted => \E X \in (SUBSET Tasks) \ {{}} :
        \A t \in X : \E u \in Awaited(t) : u \in X \/ status[u] = "done"

\* A restart always ignores something the earlier ones did not: otherwise the
\* same deadlock is met again, for ever ("Has been an incoherence between
\* Dimemas models and deadlock analyzer").
RestartsDiffer ==
    [][~rebooted /\ (rebooted' \/ Reboot) => ignored' # ignored]_vars

\* A restart leaves nothing of the previous simulation: no link is taken that
\* no transfer is using.
LinksOfTransfers ==
    /\ busyOut = {k[1] : k \in {j \in Keys : chan[j].delivered < chan[j].started}}
    /\ busyIn = {k[2] : k \in {j \in Keys : chan[j].delivered < chan[j].started}}

\* The simulation always ends with every task at the end of its trace: every
\* deadlock is detected, at its last arc, at the end of a task or when there
\* are no more events, and cleaned by finitely many restarts, of which none
\* repeats an earlier one.
Recovered == RestartsDiffer /\ <>(ended /\ \A t \in Tasks : status[t] = "done")

\* The graph of dependencies is the one of the simulation, and restarts have a
\* reason.
GraphExact == GraphMirrorsBlocking /\ RestartJustified

\* The graph can be searched at any time, only calls of the trace are ignored,
\* and a restart begins from nothing (GRAPH_look_for_cycle, _is_deadlocked and
\* SIMULATOR_reset_state).
GraphSound == TypeOK /\ GraphAcyclic /\ LinksOfTransfers
==============================================================================
