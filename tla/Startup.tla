-------------------------------- MODULE Startup --------------------------------
(***************************************************************************)
(* The start of the simulator: the records of the configuration file       *)
(* (Simulator/input/new_configuration.c) fill the machines, nodes and      *)
(* dedicated connections of model/simulator.c, machine.c and node.c and    *)
(* create the applications; then TASK_Init of model/task.c loads and maps  *)
(* each application and SCHEDULER_Init starts its threads.                 *)
(*                                                                         *)
(* A record is one line.  The parser takes the lines in any order, so the  *)
(* model reads them in every order; Rank is the one in which the graphical *)
(* editor writes them.  Fields that are only checked for their range are   *)
(* one flag, ok.                                                           *)
(***************************************************************************)
EXTENDS Integers, Sequences, SequencesExt, FiniteSetsExt

CONSTANTS
    Invocations,   \* [opts, records]: a command line and the lines of a file
    Traces,        \* readable traces: name -> [tasks, acc, work]
    MaxNodes,      \* MAX_NODES, given to a machine nobody has described
    Giga,          \* 1e9, seconds to nanoseconds
    Garbage,       \* values malloc may leave in loaded_nodes
    None           \* a name that is not given

\* Not, by chance, the number that would make the machine look complete.
ASSUME GarbageAssumption == Garbage # {} /\ Garbage \subseteq Nat \ {MaxNodes}
ASSUME ConstantsAssumption == /\ MaxNodes \in Nat \ {0}
                              /\ Giga \in Nat \ {0, 1}

Unset == -1        \* DBL_MIN, an option that is not given
Nowhere == -1      \* a task without a node
NoMap == [kind |-> "none"]   \* MAP_NO_PREDEFINED

VARIABLES
    run,        \* the command line and the file
    left,       \* lines not read yet
    history,    \* node records as read, and whether the order is the editor's
    phase,      \* "parse", "tasks", "sched", "running", "dead" or "crashed"
    machines,   \* Machines
    nodes,      \* the vector of nodes; node id i is at i + 1
    conns,      \* Dedicated_Connections: how often each was described
    counters,   \* SIMULATOR_last_node_id, .._machines_loaded, .._connections_loaded
    heap,       \* reallocations of the vector, and writes beyond its end
    apps,       \* Ptask_queue
    cursor      \* Ptask_queue.curr, an index of apps or 0

vars == <<run, left, history, phase, machines, nodes, conns, counters, heap, apps, cursor>>

Opts == run.opts
MachineExists(m) == m >= 0 /\ m < Len(machines)
NodeExists(i) == i >= 0 /\ i < Len(nodes)

------------------------------------------------------------------------------
(* Nodes.  *)

EmptyNode(m) ==
    [machine |-> m, cpus |-> <<>>, in |-> 0, out |-> 0, half |-> FALSE, inf |-> FALSE,
     startup |-> 0, wan |-> 0, acc |-> FALSE, hasAcc |-> FALSE, fills |-> 0, owner |-> 0]

\* insert_queue: by cpuid, after those with the same.
InsertCpu(cpus, c) ==
    SelectSeq(cpus, LAMBDA d : d.id <= c.id) \o <<c>> \o SelectSeq(cpus, LAMBDA d : d.id > c.id)

\* A latency given with -l replaces the one of the record, before it is scaled.
InterNodeStartup(r) == IF Opts.lat # Unset THEN Opts.lat ELSE r.startup

\* The records of eleven fields keep their times as they are; only the multi
\* node record scales the startup of the WAN.
Times(r) ==
    IF r.kind = "node" /\ r.form = 11
    THEN [startup |-> r.startup, wan |-> r.wan]
    ELSE [startup |-> Giga * InterNodeStartup(r),
          wan |-> IF r.kind = "multi" THEN Giga * r.wan ELSE r.wan]

\* No link in one direction: the others serve both.  Nothing is cleared when a
\* node is filled twice.  The links point back to where the node is now.
FillNode(node, r) ==
    LET half == r.in = 0 \/ r.out = 0
    IN [node EXCEPT !.cpus = FoldLeft(InsertCpu, @, [j \in 1 .. r.cpus |-> [id |-> j, gpu |-> FALSE]]),
                    !.in = @ + (IF half THEN Max({r.in, r.out}) ELSE r.in),
                    !.out = @ + (IF half THEN Max({r.in, r.out}) ELSE r.out),
                    !.half = half,
                    !.inf = @ \/ (r.in = 0 /\ r.out = 0),
                    !.startup = Times(r).startup,
                    !.wan = Times(r).wan,
                    !.hasAcc = FALSE,
                    !.fills = @ + 1,
                    !.owner = heap.gen]

Accelerate(node) ==
    [node EXCEPT !.acc = TRUE,
                 !.cpus = InsertCpu(@, [id |-> Len(@) + 1, gpu |-> TRUE])]

------------------------------------------------------------------------------
(* Records.  *)

Die == /\ phase' = "dead"
       /\ UNCHANGED <<machines, nodes, conns, counters, heap, apps>>
Crash == /\ phase' = "crashed"
         /\ UNCHANGED <<machines, nodes, conns, counters, heap, apps>>

\* A line with the wrong fields, or a value out of its range.
Reads(r, kind, SetFields(_)) ==
    /\ r.kind = kind
    /\ \/ ~r.ok /\ Die
       \/ r.ok /\ SetFields(r)

SetWan(r) ==
    /\ \E junk \in Garbage :
          machines' = [m \in 1 .. r.machines |-> [count |-> MaxNodes, loaded |-> junk, bw |-> 0]]
    /\ conns' = [c \in 1 .. r.conns |-> 0]
    /\ UNCHANGED <<phase, nodes, counters, heap, apps>>

WanRecord(r) == Reads(r, "wan", SetWan)

\* The vector of nodes grows: it moves, and what points into it does not.
SetMachine(r) ==
    \/ /\ ~MachineExists(r.machine)
       /\ Die
    \/ /\ MachineExists(r.machine)
       /\ machines' = [machines EXCEPT ![r.machine + 1] =
             [count |-> r.nodes, loaded |-> 0, bw |-> IF Opts.bw # Unset THEN Opts.bw ELSE r.bw]]
       /\ nodes' = nodes \o [i \in 1 .. r.nodes |-> EmptyNode(r.machine)]
       /\ counters' = [counters EXCEPT !.machines = @ + 1]
       /\ heap' = [heap EXCEPT !.gen = @ + 1]
       /\ UNCHANGED <<phase, conns, apps>>

EnvRecord(r) == Reads(r, "env", SetMachine)

\* The places a node record fills: the next ones of the vector, whatever the
\* machine and whatever the identifier in the record.
PlacesOf(r, count) == counters.node + 1 .. counters.node + count

SetNodes(r, count) ==
    /\ nodes' = [i \in DOMAIN nodes |->
                    IF i \in PlacesOf(r, count) THEN FillNode(nodes[i], r) ELSE nodes[i]]
    /\ counters' = [counters EXCEPT !.node = @ + count]
    /\ machines' = [machines EXCEPT ![r.machine + 1].loaded = @ + count]
    /\ heap' = [heap EXCEPT !.overrun = @ \/ ~(PlacesOf(r, count) \subseteq DOMAIN nodes)]

\* A count that the machine has no room for.
TooMany(r, count) == machines[r.machine + 1].loaded + count > machines[r.machine + 1].count

\* Without a vector the first write fails; beyond its end it may not.
SetNodeDefinition(r, count) ==
    \/ /\ ~MachineExists(r.machine)
       /\ Die
    \/ /\ MachineExists(r.machine)
       /\ \/ /\ TooMany(r, count)
             /\ Die
          \/ /\ ~TooMany(r, count)
             /\ ~(PlacesOf(r, count) \subseteq DOMAIN nodes)
             /\ Crash
          \/ /\ ~TooMany(r, count)
             /\ nodes # <<>>
             /\ SetNodes(r, count)
             /\ UNCHANGED <<phase, conns, apps>>

SetMultipleNodes(r) == SetNodeDefinition(r, r.count)

NodeRecord(r) == Reads(r, "node", LAMBDA n : SetNodeDefinition(n, 1))
MultiRecord(r) == Reads(r, "multi", SetMultipleNodes)

SetAccNode(r) ==
    \/ /\ ~NodeExists(r.node)
       /\ Die
    \/ /\ NodeExists(r.node)
       /\ nodes' = [nodes EXCEPT ![r.node + 1] = Accelerate(@)]
       /\ UNCHANGED <<phase, machines, conns, counters, heap, apps>>

AccRecord(r) == Reads(r, "acc", SetAccNode)

\* A connection can be described twice, and another one not at all.
SetDedicated(r) ==
    \E known \in {/\ r.id >= 0 /\ r.id < Len(conns)
                 /\ MachineExists(r.src) /\ MachineExists(r.dst)} :
       \/ /\ ~known
          /\ Die
       \/ /\ known
          /\ conns' = [conns EXCEPT ![r.id + 1] = @ + 1]
          /\ counters' = [counters EXCEPT !.conns = @ + 1]
          /\ UNCHANGED <<phase, machines, nodes, heap, apps>>

DedicatedRecord(r) == Reads(r, "dedicated", SetDedicated)

\* The names of the scheduler and file system files keep their quotation marks
\* and cannot be opened; a name given with an option is kept, and is open.
SetFiles(r) ==
    \/ /\ r.named /\ ~Opts.sched
       /\ Die
    \/ /\ r.named => Opts.sched
       /\ UNCHANGED <<phase, machines, nodes, conns, counters, heap, apps>>

FilesRecord(r) == Reads(r, "files", SetFiles)

\* Modules and file system parameters touch nothing that is modelled.
ModulesRecord(r) ==
    Reads(r, "modules", LAMBDA n : UNCHANGED <<phase, machines, nodes, conns, counters, heap, apps>>)
FileSystemRecord(r) ==
    Reads(r, "fs", LAMBDA n : UNCHANGED <<phase, machines, nodes, conns, counters, heap, apps>>)
UnknownRecord(r) == r.kind = "unknown" /\ Die

------------------------------------------------------------------------------
(* Applications.  *)

AccNodes == {i \in DOMAIN nodes : nodes[i].acc}

\* Its tasks keep a pointer to their node, and links made from its fields.
Ptask(trace, map, place) ==
    [trace |-> trace, map |-> map, place |-> place, loaded |-> FALSE, gen |-> heap.gen,
     blank |-> \E t \in DOMAIN place : NodeExists(place[t]) /\ nodes[place[t] + 1].fills = 0]

\* TASK_New_Ptask: the nodes are not checked to exist.
NewPtask(trace, map) ==
    LET known == trace \in DOMAIN Traces
        tasks == Traces[trace].tasks
        place == SubSeq(map.nodes, 1, tasks)
    IN \/ /\ ~known
          /\ Die
       \/ /\ known
          /\ \/ /\ \/ Len(map.nodes) < tasks
                   \/ Cardinality(AccNodes) < Cardinality(Traces[trace].acc)
                /\ Die
             \/ /\ Len(map.nodes) >= tasks
                /\ Cardinality(AccNodes) >= Cardinality(Traces[trace].acc)
                /\ \/ /\ \E t \in DOMAIN place : ~NodeExists(place[t])
                      /\ Crash
                   \/ /\ nodes # <<>>
                      /\ apps' = Append(apps, Ptask(trace, map, place))
                      /\ UNCHANGED <<phase, machines, nodes, conns, counters, heap>>

\* The first mapping takes the trace and the predefined map of the command line.
EffectiveTrace(r) == IF apps = <<>> /\ Opts.dim # None THEN Opts.dim ELSE r.trace
EffectiveMap(r) == IF apps = <<>> /\ Opts.map # NoMap THEN Opts.map ELSE r.map

\* TASK_New_Ptask_predefined_map: its tasks are made when it is loaded.
NewPtaskPredefined(trace, map) ==
    /\ apps' = Append(apps, Ptask(trace, map, <<>>))
    /\ UNCHANGED <<phase, machines, nodes, conns, counters, heap>>

LoadExplicitMap(r) ==
    \/ /\ EffectiveMap(r).kind = "explicit"
       /\ NewPtask(EffectiveTrace(r), EffectiveMap(r))
    \/ /\ EffectiveMap(r).kind # "explicit"
       /\ NewPtaskPredefined(EffectiveTrace(r), EffectiveMap(r))

\* Only a record with a predefined map may have no trace.
LoadPredefinedMap(r) ==
    \/ /\ EffectiveTrace(r) = None
       /\ Die
    \/ /\ EffectiveTrace(r) # None
       /\ NewPtaskPredefined(EffectiveTrace(r), EffectiveMap(r))

MapRecord(r) == Reads(r, "map", LoadExplicitMap)
PredefMapRecord(r) == Reads(r, "predef", LoadPredefinedMap)

------------------------------------------------------------------------------
(* The file.  *)

\* The order in which the editor writes the records: nodes by machine.
Rank(r) ==
    CASE r.kind = "wan" -> 0
      [] r.kind = "dedicated" -> 1
      [] r.kind = "env" -> 2 + r.machine
      [] r.kind \in {"node", "multi"} -> 10 + r.machine
      [] r.kind = "acc" -> 20
      [] r.kind \in {"map", "predef"} -> 21
      [] r.kind = "files" -> 22
      [] OTHER -> 23

Remember(r) ==
    history' = [rank |-> Rank(r),
                edited |-> history.edited /\ Rank(r) >= history.rank,
                nodes |-> IF r.kind \in {"node", "multi"} THEN Append(history.nodes, r)
                                                         ELSE history.nodes]

ReadRecord ==
    /\ phase = "parse"
    /\ \E k \in left :
          /\ left' = left \ {k}
          /\ \E r \in {run.records[k]} :
                /\ Remember(r)
                /\ \/ WanRecord(r)
                   \/ EnvRecord(r)
                   \/ NodeRecord(r)
                   \/ MultiRecord(r)
                   \/ AccRecord(r)
                   \/ DedicatedRecord(r)
                   \/ FilesRecord(r)
                   \/ ModulesRecord(r)
                   \/ FileSystemRecord(r)
                   \/ UnknownRecord(r)
                   \/ MapRecord(r)
                   \/ PredefMapRecord(r)
    /\ UNCHANGED <<run, cursor>>

\* Mutant: the nodes of the last machine are not counted.
CorrectDefinitionsButLast ==
    /\ counters.machines = Len(machines)
    /\ \A m \in 1 .. Len(machines) - 1 : machines[m].loaded = machines[m].count
    /\ counters.conns = Len(conns)

\* SIMULATOR_check_correct_definitions: three counts.
CorrectDefinitions ==
    /\ counters.machines = Len(machines)
    /\ \A m \in DOMAIN machines : machines[m].loaded = machines[m].count
    /\ counters.conns = Len(conns)

\* The queue of applications has one cursor, which any walk over it moves.
HeadPtask == IF apps = <<>> THEN 0 ELSE 1

NextPtask(curr) == IF curr = 0 \/ curr = Len(apps) THEN 0 ELSE curr + 1

EndOfFile ==
    /\ phase = "parse"
    /\ left = {}
    /\ phase' = IF ~CorrectDefinitions THEN "dead" ELSE IF apps = <<>> THEN "sched" ELSE "tasks"
    /\ cursor' = IF CorrectDefinitions THEN HeadPtask ELSE 0
    /\ UNCHANGED <<run, left, history, machines, nodes, conns, counters, heap, apps>>

------------------------------------------------------------------------------
(* Mapping.  A map is a function from task to node id, from 0.  *)

AccTasksOf(a) == SetToSortSeq(Traces[a.trace].acc, <)

\* The accelerated tasks the mapping walks over: those of every application
\* whose tasks exist, by their number in their own application.
AccWalk(a) ==
    FlattenSeq([i \in DOMAIN apps |->
        IF i = a \/ apps[i].place # <<>> THEN AccTasksOf(apps[i]) ELSE <<>>])

\* Step 1 of the three functions: each takes the first node whose accelerator
\* is free and that has room.
MapAccelerated(walk, total, room) ==
    FoldLeft(LAMBDA s, t :
                LET free == {i \in AccNodes : ~s.has[i] /\ s.used[i] < room}
                    i == Min(free)
                IN IF t >= total \/ free = {} THEN s
                   ELSE [map |-> [s.map EXCEPT ![t] = i - 1],
                         has |-> [s.has EXCEPT ![i] = TRUE],
                         used |-> [s.used EXCEPT ![i] = @ + 1],
                         placed |-> s.placed + 1],
             [map |-> [t \in 0 .. total - 1 |-> Nowhere],
              has |-> [i \in DOMAIN nodes |-> nodes[i].hasAcc],
              used |-> [i \in DOMAIN nodes |-> 0],
              placed |-> 0],
             walk)

\* Step 2: the tasks of ts, in order, one to each slot; the rest to otherwise.
Deal(map, ts, slots, otherwise) ==
    [t \in DOMAIN map |->
        IF t \notin ts THEN map[t]
        ELSE LET k == Cardinality({u \in ts : u <= t})
             IN IF k <= Len(slots) THEN slots[k] ELSE otherwise]

Unmapped(map) == {t \in DOMAIN map : map[t] = Nowhere}

\* The same node id once for each thing counted.
Slots(count) == FlattenSeq([i \in DOMAIN nodes |-> [j \in 1 .. count[i] |-> i - 1]])

\* Mutant: tasks beyond the processors are left out.
FillingNodesLeaving(walk, total) ==
    LET s == MapAccelerated(walk, total, total + 1)
        cpus == [i \in DOMAIN nodes |-> Len(nodes[i].cpus)]
    IN [s EXCEPT !.map = Deal(@, Unmapped(@), Slots(cpus), Nowhere)]

\* A slot is any entry of Cpus, the accelerator too.
TASK_Map_Filling_Nodes(walk, total) ==
    LET s == MapAccelerated(walk, total, total + 1)
        cpus == [i \in DOMAIN nodes |-> Len(nodes[i].cpus)]
    IN [s EXCEPT !.map = Deal(@, Unmapped(@), Slots(cpus), Len(nodes) - 1)]

TASK_Map_N_Tasks_Per_Node(walk, total, n) ==
    LET s == MapAccelerated(walk, total, n)
        room == [i \in DOMAIN nodes |->
                    IF nodes[i].cpus = <<>> \/ s.used[i] > n THEN 0 ELSE n - s.used[i]]
    IN [s EXCEPT !.map = Deal(@, Unmapped(@), Slots(room), Nowhere)]

\* The tasks from the number of accelerated tasks on, in turns.
TASK_Map_Interleaved(walk, total) ==
    LET s == MapAccelerated(walk, total, total + 1)
        turns == [k \in 1 .. total |-> (k - 1) % Len(nodes)]
    IN [s EXCEPT !.map = Deal(@, {t \in Unmapped(@) : t >= s.placed}, turns, Nowhere)]

TotalTasks(a) ==
    FoldLeft(+, Traces[apps[a].trace].tasks,
             [i \in DOMAIN apps |-> IF i = a THEN 0 ELSE Len(apps[i].place)])

PredefinedMap(a) ==
    LET walk == AccWalk(a)
        tasks == Traces[apps[a].trace].tasks
    IN CASE apps[a].map.kind = "fill" -> TASK_Map_Filling_Nodes(walk, tasks)
         [] apps[a].map.kind = "inter" -> TASK_Map_Interleaved(walk, tasks)
         [] OTHER -> TASK_Map_N_Tasks_Per_Node(walk, TotalTasks(a), apps[a].map.n)


Applicable(a) ==
    /\ Cardinality(AccNodes) >= Cardinality(Traces[apps[a].trace].acc)
    /\ apps[a].map.kind = "n" => apps[a].map.n * Len(nodes) >= TotalTasks(a)

------------------------------------------------------------------------------
(* Loading, in the order of the queue.  *)

AdvanceFrom(curr) ==
    /\ cursor' = NextPtask(curr)
    /\ phase' = IF NextPtask(curr) = 0 THEN "sched" ELSE "tasks"

\* Its map was in the file, and its tasks are there.
LoadMapped(a) ==
    /\ apps[a].place # <<>>
    /\ apps' = [apps EXCEPT ![a].loaded = TRUE]
    /\ AdvanceFrom(cursor)
    /\ UNCHANGED nodes

\* The three functions write through a pointer to a CPU that nothing has set
\* for each accelerated task they place; the interleaved one, which has no other,
\* for each of the rest as well.
WritesAstray(map, s) ==
    \/ s.placed > 0
    \/ map.kind = "inter" /\ Unmapped(s.map) # DOMAIN s.map

\* The mapping walks over the queue and leaves the cursor at its end.
LoadPredefined(a) ==
    /\ apps[a].place = <<>>
    /\ apps[a].trace \in DOMAIN Traces
    /\ Applicable(a)
    /\ \E s \in {PredefinedMap(a)} :
          \/ /\ nodes # <<>>
             /\ apps' = [apps EXCEPT ![a].place =
                            [t \in 1 .. Traces[apps[a].trace].tasks |-> s.map[t - 1]],
                                     ![a].gen = heap.gen,
                                     ![a].loaded = TRUE]
             /\ nodes' = [i \in DOMAIN nodes |-> [nodes[i] EXCEPT !.hasAcc = s.has[i]]]
             /\ AdvanceFrom(0)
          \/ /\ WritesAstray(apps[a].map, s) \/ nodes = <<>>
             /\ phase' = "crashed"
             /\ UNCHANGED <<nodes, apps, cursor>>

CannotLoad(a) ==
    /\ apps[a].place = <<>>
    /\ apps[a].trace \in DOMAIN Traces => ~Applicable(a)
    /\ phase' = "dead"
    /\ UNCHANGED <<nodes, apps, cursor>>

LoadApplication ==
    /\ phase = "tasks"
    /\ LoadMapped(cursor) \/ LoadPredefined(cursor) \/ CannotLoad(cursor)
    /\ UNCHANGED <<run, left, history, machines, conns, counters, heap>>

\* A task whose node is not where its pointer says.
Dangling(a) ==
    \/ apps[a].place # <<>> /\ apps[a].gen # heap.gen
    \/ \E t \in DOMAIN apps[a].place : ~NodeExists(apps[a].place[t])

\* SCHEDULER_Init asks the first thread of every task for its node: an
\* application with tasks and no threads ends the program, and a thread has
\* to begin with work.
StartScheduler ==
    /\ phase = "sched"
    /\ \E bad \in {{a \in DOMAIN apps : /\ apps[a].place # <<>>
                                        /\ apps[a].loaded => ~Traces[apps[a].trace].work}} :
          \/ /\ bad = {}
             /\ phase' = "running"
          \/ /\ bad # {}
             /\ phase' = IF apps[Min(bad)].loaded THEN "dead" ELSE "crashed"
          \/ /\ \E a \in DOMAIN apps : Dangling(a)
             /\ phase' = "crashed"
    /\ UNCHANGED <<run, left, history, machines, nodes, conns, counters, heap, apps, cursor>>

------------------------------------------------------------------------------

Init ==
    /\ run \in Invocations
    /\ left = DOMAIN run.records
    /\ history = [rank |-> 0, edited |-> TRUE, nodes |-> <<>>]
    /\ phase = "parse"
    /\ machines = <<>>
    /\ nodes = <<>>
    /\ conns = <<>>
    /\ counters = [node |-> 0, machines |-> 0, conns |-> 0]
    /\ heap = [gen |-> 0, overrun |-> FALSE]
    /\ apps = <<>>
    /\ cursor = 0

Next == ReadRecord \/ EndOfFile \/ LoadApplication \/ StartScheduler

\* The program is sequential and does not wait for anything.
Spec == Init /\ [][Next]_vars /\ WF_vars(LoadApplication) /\ WF_vars(StartScheduler)

------------------------------------------------------------------------------
(* Properties.  *)

Accepted == phase \in {"tasks", "sched", "running"}

\* Every variable keeps its shape; the maps of tasks hold node ids, or Nowhere.
TypeOK ==
    /\ phase \in {"parse", "tasks", "sched", "running", "dead", "crashed"}
    /\ left \subseteq DOMAIN run.records
    /\ \A m \in DOMAIN machines : /\ machines[m].count \in Nat \ {0}
                                  /\ machines[m].loaded \in Nat
    /\ \A i \in DOMAIN nodes : /\ nodes[i].machine \in DOMAIN machines \cup {0}
                               /\ nodes[i].owner \in 0 .. heap.gen
    /\ \A c \in DOMAIN conns : conns[c] \in Nat
    /\ counters.node \in Nat /\ counters.machines \in Nat /\ counters.conns \in Nat
    /\ heap.overrun \in BOOLEAN
    /\ cursor \in 0 .. Len(apps)
    /\ \A a \in DOMAIN apps : \A t \in DOMAIN apps[a].place :
          apps[a].place[t] \in Nat \cup {Nowhere}

\* What a record of a current format says of a node: an absent direction
\* shares the links of the other, and times are in nanoseconds, with the
\* latency of the command line if there is one.
Described(r) ==
    [cpus |-> r.cpus,
     in |-> IF r.in = 0 THEN r.out ELSE r.in,
     out |-> IF r.out = 0 THEN r.in ELSE r.out,
     inf |-> {r.in, r.out} = {0},
     startup |-> Giga * (IF Opts.lat = Unset THEN r.startup ELSE Opts.lat)]

Simulated(node) ==
    [cpus |-> Cardinality({j \in DOMAIN node.cpus : ~node.cpus[j].gpu}),
     in |-> node.in, out |-> node.out, inf |-> node.inf, startup |-> node.startup]

DescribedNodes(m) ==
    FlattenSeq([k \in DOMAIN history.nodes |->
        LET r == history.nodes[k]
        IN IF r.machine # m THEN <<>>
           ELSE [j \in 1 .. (IF r.kind = "multi" THEN r.count ELSE 1) |-> Described(r)]])

Current(r) == r.kind = "multi" \/ r.form # 11

\* A node record fills the next node of one vector whatever machine it names;
\* in a file in the editor's order every machine still has its own nodes.
NodesAsDescribed ==
    Accepted /\ history.edited /\ (\A k \in DOMAIN history.nodes : Current(history.nodes[k]))
    => \A m \in DOMAIN machines :
          LET own == SelectSeq(nodes, LAMBDA node : node.machine = m - 1)
          IN [i \in DOMAIN own |-> Simulated(own[i])] = DescribedNodes(m - 1)

\* The three counts of SIMULATOR_check_correct_definitions are enough: in a file
\* they accept, in any order, every node was described, and only once, unless
\* a record was written beyond the vector.
FilledOnce ==
    Accepted /\ ~heap.overrun => \A i \in DOMAIN nodes : nodes[i].fills = 1

\* Each machine record moves the vector of nodes: in the editor's order nobody
\* has a pointer into the old one, or has read a node not yet described.
OwnersCurrent ==
    Accepted /\ history.edited =>
        /\ \A i \in DOMAIN nodes : nodes[i].owner = heap.gen
        /\ \A a \in DOMAIN apps :
              apps[a].place # <<>> => apps[a].gen = heap.gen /\ ~apps[a].blank

\* The accelerator takes the number after the processors, which only is free
\* when the node was described before; in the editor's order it is.
CpuIdsDistinct ==
    Accepted /\ history.edited =>
        \A i \in DOMAIN nodes : \A j \in DOMAIN nodes[i].cpus :
            nodes[i].cpus[j].id = j

\* The applications whose tasks a predefined map has placed, alone.
Placed(kind) ==
    {a \in DOMAIN apps : Len(apps) = 1 /\ apps[a].loaded /\ apps[a].map.kind = kind}
Accelerated(a) == Traces[apps[a].trace].acc
TasksOn(a, i) == {t \in DOMAIN apps[a].place : apps[a].place[t] = i}

\* The filling map and the quota leave no task without a node; neither does the
\* interleaved one, if the accelerated tasks are the first ones.
EveryTaskMapped ==
    ~heap.overrun =>
    \A a \in Placed("fill") \cup Placed("n")
              \cup {b \in Placed("inter") : Accelerated(b) = 0 .. Cardinality(Accelerated(b)) - 1} :
        \A t \in DOMAIN apps[a].place : NodeExists(apps[a].place[t])

\* A predefined map puts every accelerated task on a node with an accelerator,
\* and no two of them on the same.
AcceleratedOnGpu ==
    \A a \in Placed("fill") \cup Placed("n") \cup Placed("inter") :
        \A t \in Accelerated(a) :
            /\ apps[a].place[t + 1] + 1 \in AccNodes
            /\ \A u \in Accelerated(a) \ {t} : apps[a].place[u + 1] # apps[a].place[t + 1]

\* With n tasks per node no node has more, its accelerated task included.
NodeQuota ==
    ~heap.overrun =>
    \A a \in Placed("n") : \A i \in 0 .. Len(nodes) - 1 :
        Cardinality(TasksOn(a, i)) <= apps[a].map.n

\* Filling nodes, without accelerators, no node but the last has more tasks than
\* processors, and none is used before the one in front of it is full.
FillPacks ==
    AccNodes = {} /\ ~heap.overrun =>
    \A a \in Placed("fill") : \A i \in 0 .. Len(nodes) - 2 :
        /\ Cardinality(TasksOn(a, i)) <= Len(nodes[i + 1].cpus)
        /\ TasksOn(a, i + 1) # {} => Cardinality(TasksOn(a, i)) = Len(nodes[i + 1].cpus)

\* The interleaved map, without accelerators, keeps the nodes within one task.
SpreadEvenly ==
    AccNodes = {} =>
    \A a \in Placed("inter") : \A i, j \in 0 .. Len(nodes) - 1 :
        Cardinality(TasksOn(a, i)) <= Cardinality(TasksOn(a, j)) + 1

\* One application without accelerated tasks that begins with work, and room
\* for its tasks.  Not with an interleaved map, which writes through the pointer
\* that is not set (task.c:2136, 2183) and may crash for every file.
Sound ==
    /\ phase = "tasks" /\ history.edited /\ Len(apps) = 1
    /\ apps[1].trace \in DOMAIN Traces
    /\ Traces[apps[1].trace].work /\ Accelerated(1) = {}
    /\ apps[1].map.kind # "inter"
    /\ apps[1].map.kind = "n" => apps[1].map.n * Len(nodes) >= Traces[apps[1].trace].tasks
    /\ \A t \in DOMAIN apps[1].place : NodeExists(apps[1].place[t])


\* The machines that the simulation uses are those of the configuration file.
MachinesAsDescribed ==
    /\ TypeOK
    /\ FilledOnce
    /\ NodesAsDescribed
    /\ OwnersCurrent
    /\ CpuIdsDistinct

\* The predefined maps of tasks give each task the place they promise.
TasksMapped ==
    /\ EveryTaskMapped
    /\ AcceleratedOnGpu
    /\ NodeQuota
    /\ FillPacks
    /\ SpreadEvenly
================================================================================
