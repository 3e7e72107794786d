------------------------------ MODULE Transfers ------------------------------
(***************************************************************************)
(* What a message or a collective operation needs besides the links of the *)
(* nodes of one machine (module Network): the memory links of tasks and    *)
(* the memory bus of a node, the bus of its accelerator, the links of a    *)
(* machine to the wide area network, dedicated connections.  From          *)
(* Simulator/model/links.c and communic.c: get_communication_type,         *)
(* really_send and its variants, the release of their resources, and the   *)
(* collective operations of several machines, one thread of each machine   *)
(* taking its buses, then its output link and, when all of them have it,   *)
(* its input link.                                                         *)
(*                                                                         *)
(* A link belongs to an end: a task, a machine or a connection.  Links of  *)
(* an end are alike, so they are counted.  As in Network, `calls' holds    *)
(* the calls the running handler has still to make.  Times are left out:   *)
(* resources are released in any order.                                    *)
(***************************************************************************)
EXTENDS Integers, Sequences, SequencesExt, FiniteSets, FiniteSetsExt

CONSTANTS
    Tasks, Nodes, Machines,  \* identifiers, numbers
    NodeOf,       \* NodeOf[t]: the node of task t
    MachineOf,    \* MachineOf[n]: the machine of node n
    Connections,  \* dedicated connections, in the order of their identifiers
    AccTag,       \* CUDA_TAG and OCL_TAG
    Configs,      \* numbers of memory links and limits of the buses
    Msgs,         \* the copies of threads that carry messages
    Gops,         \* collective operations
    Span,         \* Span[g]: machines of the tasks of g
    Comm,         \* Comm[g]: the communicator of g
    Blocking,     \* the collective operations that are not non-blocking
    Batches       \* what is simulated: messages, and who takes part

Ends == {<<"task", t>> : t \in Tasks} \cup {<<"machine", k>> : k \in Machines}
          \cup {<<"conn", i>> : i \in DOMAIN Connections}
Buses == {<<b, n>> : b \in {"mem", "acc"}, n \in Nodes} \cup {<<"net", k>> : k \in Machines}

\* The thread of each machine that reserves the resources of a collective.
Reps == {r \in Gops \X Machines : r[2] \in Span[r[1]]}
Users == Msgs \cup Reps

ASSUME PlacesAssumption == NodeOf \in [Tasks -> Nodes] /\ MachineOf \in [Nodes -> Machines]
ASSUME ConfigsAssumption ==
    Configs \subseteq [mem : [Nodes -> [in : Nat, out : Nat]], limit : [Buses -> Nat]]
ASSUME GopsAssumption ==
    /\ Span \in [Gops -> (SUBSET Machines) \ {{}}]
    /\ Blocking \subseteq Gops /\ DOMAIN Comm = Gops
ASSUME BatchesAssumption ==
    Batches \subseteq [mess : [Msgs -> [from : Tasks, to : Tasks, tag : Nat, size : Nat]],
                       part : SUBSET (Msgs \cup Gops)]

VARIABLES
    config,    \* links and limits, in this execution
    mess,      \* mess[m]: sender, receiver, tag and size of message m
    part,      \* messages and collectives that take part
    todo,      \* those not begun yet
    freeOut,   \* freeOut[e]: count of free_out_links
    freeIn,    \* freeIn[e]: count of free_in_links
    thForOut,  \* thForOut[e]: th_for_out, who waits for an output link
    thForIn,   \* thForIn[e]: th_for_in
    local,     \* threads with local_link # L_NIL
    partner,   \* threads with partner_link # L_NIL
    curr,      \* curr[b]: cur_memory_messages, acc.cur_messages, curr_on_network
    onBus,     \* onBus[b]: threads_in_memory, threads_in_link, threads_on_network
    queue,     \* queue[b]: wait_for_mem_bus, wait_for_link, network.queue
    number,    \* number[r]: thread->number_buses
    withLinks, \* withLinks[g]: m_threads_with_links, those with an output link
    ready,     \* ready[g]: machines with all they need
    moving,    \* with the release of their resources scheduled
    done,      \* resources released
    calls,     \* calls the running handler has still to make
    aborted    \* panic, abort or a null pointer read

input == <<config, mess, part>>
links == <<freeOut, freeIn, thForOut, thForIn, local, partner>>
buses == <<curr, onBus, queue>>
gops == <<number, withLinks, ready>>
vars == <<input, todo, links, buses, gops, moving, done, calls, aborted>>

-----------------------------------------------------------------------------
(* Kinds of communication *)

Node(t) == NodeOf[t]
Machine(t) == MachineOf[NodeOf[t]]

\* COMPROVA_CONDICIO_MIDA_CONNEXIO: 0 is less, 1 is equal, any other more.
SizeCondition(limit, cond, size) ==
    CASE cond = 0 -> size < limit [] cond = 1 -> size = limit [] OTHER -> size > limit

\* connection_can_be_used: operation 0 is AND.
CanBeUsed(c, x) ==
    LET first == SizeCondition(c.firstSize, c.firstCond, x.size)
        second == SizeCondition(c.secondSize, c.secondCond, x.size)
    IN  x.tag \in c.tags /\ (IF c.op = 0 THEN first /\ second ELSE first \/ second)

\* A connection joins its two machines in both directions.
Usable(x) == {i \in DOMAIN Connections :
                /\ {Connections[i].source, Connections[i].destination}
                     = {Machine(x.from), Machine(x.to)}
                /\ CanBeUsed(Connections[i], x)}

\* get_communication_type
CommType(x) ==
    IF Node(x.from) = Node(x.to) THEN IF x.tag = AccTag THEN "acc" ELSE "mem"
    ELSE IF Machine(x.from) = Machine(x.to) THEN "net"
    ELSE IF Usable(x) # {} THEN "ded" ELSE "wan"

-----------------------------------------------------------------------------
(* Links and buses of a user *)

\* TASK_Map: a node without memory links has infinitely many; links of one kind
\* only are half duplex.  The links to the network and those of connections
\* never are, although the code provides for it.
Infinite(n) == config.mem[n].in = 0 /\ config.mem[n].out = 0
Half(e) == e[1] = "task" /\ (config.mem[Node(e[2])].in = 0 \/ config.mem[Node(e[2])].out = 0)

Total(e, side) ==
    IF e[1] # "task" THEN 1
    ELSE LET n == config.mem[Node(e[2])]
         IN  IF Half(e) THEN Max({n.in, n.out}) ELSE n[side]

\* The end whose output link, or input link, u needs.
EndOf(u, side) ==
    IF u \in Reps THEN <<"machine", u[2]>>
    ELSE LET x == mess[u]
             t == IF side = "out" THEN x.from ELSE x.to
         IN  CASE CommType(x) = "mem" -> <<"task", t>>
               [] CommType(x) = "wan" -> <<"machine", Machine(t)>>
               [] CommType(x) = "ded" -> <<"conn", Min(Usable(x))>>

\* LINKS_get_mem_links: none for a message of a task to itself, none on a node
\* with infinite links.  LINKS_get_acc_links: none within a task, which is
\* where messages of accelerators stay.
NeedsLinks(m) ==
    LET x == mess[m] IN
    \/ CommType(x) = "mem" /\ x.from # x.to /\ ~Infinite(Node(x.from))
    \/ CommType(x) \in {"wan", "ded"}

\* Mutant: half-duplex links are taken in the order of the message.
SidesAsSent(m) == IF NeedsLinks(m) THEN <<"out", "in">> ELSE <<>>

\* The links a message takes, in order: half-duplex ones by task, so that two
\* messages that cross cannot wait for each other.
Sides(m) ==
    IF ~NeedsLinks(m) THEN <<>>
    ELSE LET s == EndOf(m, "out")
             d == EndOf(m, "in")
         IN  IF (Half(s) \/ Half(d)) /\ s[2] > d[2] THEN <<"in", "out">>
                                                    ELSE <<"out", "in">>

BusOf(m) == LET x == mess[m] IN
    CASE CommType(x) \in {"mem", "acc"} -> {<<CommType(x), Node(x.from)>>}
      [] CommType(x) = "net" -> {<<"net", Machine(x.from)>>}
      [] OTHER -> {}

Init ==
    /\ config \in Configs
    /\ \E b \in Batches : mess = b.mess /\ part = b.part
    /\ todo = part
    /\ freeOut = [e \in Ends |-> Total(e, "out")]
    /\ freeIn = [e \in Ends |-> Total(e, "in")]
    /\ thForOut = [e \in Ends |-> <<>>] /\ thForIn = [e \in Ends |-> <<>>]
    /\ local = {} /\ partner = {}
    /\ curr = [b \in Buses |-> 0] /\ onBus = [b \in Buses |-> {}]
    /\ queue = [b \in Buses |-> <<>>]
    /\ number = [r \in Reps |-> 0]
    /\ withLinks = [g \in Gops |-> <<>>] /\ ready = [g \in Gops |-> 0]
    /\ moving = {} /\ done = {} /\ calls = <<>> /\ aborted = FALSE

-----------------------------------------------------------------------------
(* Taking links *)

If(p, x) == IF p THEN x ELSE 0
Only(p, x) == IF p THEN <<x>> ELSE <<>>

Has(u, side) == u \in (IF side = "out" THEN local ELSE partner)
Free(u, side) == (IF side = "out" THEN freeOut ELSE freeIn)[EndOf(u, side)] > 0

\* The links u still needs of those in `sides', up to the first one that is not
\* free, and that one.
Obtained(u, sides) ==
    LET missing == SelectSeq(sides, LAMBDA s : ~Has(u, s))
        busy == {i \in DOMAIN missing : ~Free(u, missing[i])}
    IN  IF busy = {} THEN [taken |-> ToSet(missing), waits |-> "no"]
        ELSE [taken |-> {missing[i] : i \in 1 .. Min(busy) - 1}, waits |-> missing[Min(busy)]]

\* Mutant: a half-duplex link is taken without its twin.
TakeNoTwin(u, got) ==
    LET takes(e, side) == If(side \in got.taken /\ e = EndOf(u, side), 1)
        waitsAt(q, side) == IF got.waits # side THEN q
                            ELSE [q EXCEPT ![EndOf(u, side)] = Append(@, u)]
    IN
    /\ freeOut' = [e \in Ends |-> freeOut[e] - takes(e, "out")]
    /\ freeIn' = [e \in Ends |-> freeIn[e] - takes(e, "in")]
    /\ local' = local \cup (IF "out" \in got.taken THEN {u} ELSE {})
    /\ partner' = partner \cup (IF "in" \in got.taken THEN {u} ELSE {})
    /\ thForOut' = waitsAt(thForOut, "out")
    /\ thForIn' = waitsAt(thForIn, "in")

\* Mutant: an end remembers only the last thread that waits.
TakeForgets(u, got) ==
    LET takes(e, side) == If(side \in got.taken /\ e = EndOf(u, side), 1)
        waitsAt(q, side) == IF got.waits # side THEN q ELSE [q EXCEPT ![EndOf(u, side)] = <<u>>]
    IN
    /\ freeOut' = [e \in Ends |-> freeOut[e] - takes(e, "out") - If(Half(e), takes(e, "in"))]
    /\ freeIn' = [e \in Ends |-> freeIn[e] - takes(e, "in") - If(Half(e), takes(e, "out"))]
    /\ local' = local \cup (IF "out" \in got.taken THEN {u} ELSE {})
    /\ partner' = partner \cup (IF "in" \in got.taken THEN {u} ELSE {})
    /\ thForOut' = waitsAt(thForOut, "out")
    /\ thForIn' = waitsAt(thForIn, "in")

\* Take links and wait for the busy one, at the end of its queue.  A half-duplex
\* link comes with its twin in the other direction.
Take(u, got) ==
    LET takes(e, side) == If(side \in got.taken /\ e = EndOf(u, side), 1)
        waitsAt(q, side) == IF got.waits # side THEN q
                            ELSE [q EXCEPT ![EndOf(u, side)] = Append(@, u)]
    IN
    /\ freeOut' = [e \in Ends |-> freeOut[e] - takes(e, "out") - If(Half(e), takes(e, "in"))]
    /\ freeIn' = [e \in Ends |-> freeIn[e] - takes(e, "in") - If(Half(e), takes(e, "out"))]
    /\ local' = local \cup (IF "out" \in got.taken THEN {u} ELSE {})
    /\ partner' = partner \cup (IF "in" \in got.taken THEN {u} ELSE {})
    /\ thForOut' = waitsAt(thForOut, "out")
    /\ thForIn' = waitsAt(thForIn, "in")

\* panic: a half-duplex link whose twin is not there.
TwinMissing(u, got) ==
    \E side \in got.taken : LET e == EndOf(u, side) IN Half(e) /\ freeOut[e] # freeIn[e]

\* The second half of really_send_memory_message, really_send_acc_message and,
\* for a machine whose nodes have infinite links, of
\* really_send_internal_network_message; no limit, no counting.
TakeBus(m) ==
    \A b \in BusOf(m) :
        IF config.limit[b] > 0 /\ curr[b] >= config.limit[b]
          THEN queue' = [queue EXCEPT ![b] = Append(@, m)] /\ UNCHANGED <<curr, onBus, moving>>
          ELSE /\ curr' = [curr EXCEPT ![b] = @ + If(config.limit[b] > 0, 1)]
               /\ onBus' = [onBus EXCEPT ![b] = @ \cup (IF config.limit[b] > 0 THEN {m} ELSE {})]
               /\ moving' = moving \cup {m}
               /\ UNCHANGED queue

\* really_send: links, a bus when the kind of message has one, and the events
\* of the end of the transfer.
ReallySend(m) ==
    \E got \in {Obtained(m, Sides(m))} :
        /\ aborted' = TwinMissing(m, got)
        /\ Take(m, got)
        /\ IF got.waits # "no" THEN UNCHANGED <<buses, moving>>
           ELSE IF BusOf(m) = {} THEN moving' = moving \cup {m} /\ UNCHANGED buses
           ELSE TakeBus(m)

-----------------------------------------------------------------------------
(* Messages *)

Idle == calls = <<>> /\ ~aborted

\* A send starts: really_send is called for a new copy of a thread.
Send(m) ==
    /\ Idle
    /\ m \in todo
    /\ todo' = todo \ {m}
    /\ ReallySend(m)
    /\ UNCHANGED <<input, done, gops, calls>>

\* COMMUNIC_resources_COM_TIMER_OUT: the message leaves its bus, both links are
\* freed and then the bus is.
ResourcesOut(m) ==
    /\ Idle
    /\ m \in moving
    /\ aborted' = \E b \in BusOf(m) : config.limit[b] > 0 /\ m \notin onBus[b]
    /\ onBus' = [b \in Buses |-> onBus[b] \ {m}]
    /\ moving' = moving \ {m} /\ done' = done \cup {m}
    /\ calls' = Only(m \in local, [call |-> "free", who |-> m, side |-> "out"])
                  \o Only(m \in partner, [call |-> "free", who |-> m, side |-> "in"])
                  \o SetToSeq({[call |-> "freeBus", at |-> b] : b \in BusOf(m)})
    /\ UNCHANGED <<input, todo, links, curr, queue, gops>>

-----------------------------------------------------------------------------
(* Collective operations *)

\* machines_threads is ordered by machine.
RepsOf(g) == LET ks == SetToSortSeq(Span[g], <) IN [i \in DOMAIN ks |-> <<g, ks[i]>>]
ManyMachines(g) == Cardinality(Span[g]) > 1

\* GLOBAL_operation, when the last thread gets there: one thread of each machine
\* asks for the buses of its machine.  A communicator has one blocking
\* operation at a time.
GlobalOperation(g) ==
    /\ Idle
    /\ g \in todo
    /\ g \in Blocking => \A h \in (Blocking \cap part) \ todo :
                            Comm[h] = Comm[g] => h \in done
    /\ todo' = todo \ {g}
    /\ calls' = [i \in DOMAIN RepsOf(g) |-> [call |-> "buses", who |-> RepsOf(g)[i]]]
    /\ UNCHANGED <<input, done, links, buses, gops, moving, aborted>>

\* COM_TIMER_GROUP_RESOURCES, free_global_communication_resources: machine by
\* machine, buses, then links, then whoever waits for buses.
GroupResourcesOut(g) ==
    /\ Idle
    /\ g \in moving
    /\ moving' = moving \ {g} /\ done' = done \cup {g}
    /\ calls' = FlattenSeq([i \in DOMAIN RepsOf(g) |->
                    LET r == RepsOf(g)[i] IN
                    <<[call |-> "freeBuses", who |-> r]>>
                      \o (IF ManyMachines(g) THEN <<[call |-> "free", who |-> r, side |-> "out"],
                                                    [call |-> "free", who |-> r, side |-> "in"]>>
                                             ELSE <<>>)
                      \o <<[call |-> "serveAll", at |-> <<"net", r[2]>>]>>])
    /\ UNCHANGED <<input, todo, links, buses, gops, aborted>>

-----------------------------------------------------------------------------
(* The calls a handler makes *)

Calling(name) == calls # <<>> /\ ~aborted /\ Head(calls).call = name
who == Head(calls).who
Then(s) == calls' = s \o Tail(calls)

CallSend ==
    /\ Calling("send")
    /\ ReallySend(who)
    /\ Then(<<>>)
    /\ UNCHANGED <<input, done, todo, gops>>

\* LINKS_free_mem_link, LINKS_free_wan_link, LINKS_free_dedicated_connection_link:
\* the link and its twin are free; who waits for the twin is woken first.
FreeLink ==
    /\ Calling("free")
    /\ LET side == Head(calls).side
           other == IF side = "out" THEN "in" ELSE "out"
           e == EndOf(who, side)
           frees(s) == If(s = side \/ Half(e), 1)
       IN  /\ aborted' = ~Has(who, side)
           /\ freeOut' = [freeOut EXCEPT ![e] = @ + frees("out")]
           /\ freeIn' = [freeIn EXCEPT ![e] = @ + frees("in")]
           /\ local' = IF side = "out" THEN local \ {who} ELSE local
           /\ partner' = IF side = "in" THEN partner \ {who} ELSE partner
           /\ Then(Only(Half(e), [call |-> "wake", at |-> e, side |-> other])
                     \o <<[call |-> "wake", at |-> e, side |-> side]>>)
    /\ UNCHANGED <<input, done, todo, thForOut, thForIn, buses, gops, moving>>

\* The call that makes u try again.
Again(u) == [call |-> IF u \in Reps THEN "reserve" ELSE "send", who |-> u]

\* Wake the first thread that waits for a link of the end, if any.
Wake ==
    /\ Calling("wake")
    /\ LET e == Head(calls).at
           side == Head(calls).side
           q == IF side = "out" THEN thForOut[e] ELSE thForIn[e]
           left(s, th) == IF side = s /\ q # <<>> THEN [th EXCEPT ![e] = Tail(@)] ELSE th
       IN  /\ thForOut' = left("out", thForOut)
           /\ thForIn' = left("in", thForIn)
           /\ Then(IF q = <<>> THEN <<>> ELSE <<Again(Head(q))>>)
    /\ UNCHANGED <<input, done, todo, freeOut, freeIn, local, partner, buses, gops, moving, aborted>>

\* Mutant: the buses of the other machines are taken even when they are in use.
CallBusesAtOnce ==
    /\ Calling("buses")
    /\ LET b == <<"net", who[2]>> IN
       /\ curr' = [curr EXCEPT ![b] = config.limit[b]]
       /\ onBus' = [onBus EXCEPT ![b] = @ \cup (IF config.limit[b] > 0 THEN {who} ELSE {})]
       /\ Then(<<[call |-> IF ManyMachines(who[1]) THEN "outLink" ELSE "start", who |-> who]>>)
    /\ UNCHANGED <<input, done, todo, links, queue, gops, moving, aborted>>

\* global_op_get_all_buses: what is free of the buses is taken and the rest
\* waited for.  With all of them, an output link is sought when there are other
\* machines.
CallBuses ==
    /\ Calling("buses")
    /\ LET b == <<"net", who[2]>>
           limit == config.limit[b]
       IN  IF limit > 0 /\ number[who] = 0 /\ curr[b] # 0
             THEN /\ number' = [number EXCEPT ![who] = limit - curr[b]]
                  /\ curr' = [curr EXCEPT ![b] = limit]
                  /\ queue' = [queue EXCEPT ![b] = Append(@, who)]
                  /\ Then(<<>>)
                  /\ UNCHANGED onBus
             ELSE /\ curr' = [curr EXCEPT ![b] = limit]
                  /\ onBus' = [onBus EXCEPT ![b] = @ \cup (IF limit > 0 THEN {who} ELSE {})]
                  /\ Then(<<[call |-> IF ManyMachines(who[1]) THEN "outLink" ELSE "start",
                             who |-> who]>>)
                  /\ UNCHANGED <<number, queue>>
    /\ UNCHANGED <<input, done, todo, links, withLinks, ready, moving, aborted>>

\* LINKS_get_single_wan_link
SingleLink(side, next) ==
    \E got \in {Obtained(who, <<side>>)} :
        /\ Take(who, got)
        /\ Then(Only(got.waits = "no", [call |-> next, who |-> who]))

CallOutLink ==
    /\ Calling("outLink")
    /\ SingleLink("out", "outLinks")
    /\ UNCHANGED <<input, done, todo, buses, gops, moving, aborted>>

CallInLink ==
    /\ Calling("inLink")
    /\ SingleLink("in", "start")
    /\ UNCHANGED <<input, done, todo, buses, gops, moving, aborted>>

\* global_op_get_all_out_links: when the last machine has its output link, all
\* of them seek an input link.
CallOutLinks ==
    /\ Calling("outLinks")
    /\ LET g == who[1]
           all == Len(withLinks[g]) + 1 = Cardinality(Span[g])
       IN  /\ withLinks' = [withLinks EXCEPT ![g] = Append(@, who)]
           /\ Then(IF all THEN [i \in DOMAIN RepsOf(g) |->
                                  [call |-> "inLink", who |-> RepsOf(g)[i]]]
                          ELSE <<>>)
    /\ UNCHANGED <<input, done, todo, links, buses, number, ready, moving, aborted>>

\* global_op_get_all_in_links: the last machine starts the operation.
CallStart ==
    /\ Calling("start")
    /\ LET g == who[1]
           all == ready[g] + 1 = Cardinality(Span[g])
       IN  /\ ready' = [ready EXCEPT ![g] = @ + 1]
           /\ withLinks' = IF all THEN [withLinks EXCEPT ![g] = <<>>] ELSE withLinks
           /\ moving' = IF all THEN moving \cup {g} ELSE moving
    /\ Then(<<>>)
    /\ UNCHANGED <<input, done, todo, links, buses, number, aborted>>

\* The threads with an output link that global_op_reserva_links counts: those of
\* the blocking operation of the communicator, whatever g is.
Counted(g) ==
    IF g \in Blocking THEN withLinks[g]
    ELSE FlattenSeq(SetToSeq({withLinks[h] : h \in {k \in Blocking : Comm[k] = Comm[g]}}))

\* global_op_reserva_links: a thread woken for a link takes it to be an output
\* link while not all machines have theirs, an input link otherwise.
CallReserve ==
    /\ Calling("reserve")
    /\ Then(<<[call |-> IF Len(Counted(who[1])) # Cardinality(Span[who[1]])
                         THEN "outLink" ELSE "inLink", who |-> who]>>)
    /\ UNCHANGED <<input, done, todo, links, buses, gops, moving, aborted>>

\* The loop of free_global_communication_resources, first half.
FreeBuses ==
    /\ Calling("freeBuses")
    /\ LET b == <<"net", who[2]>> IN
       /\ number' = [number EXCEPT ![who] = 0]
       /\ curr' = [curr EXCEPT ![b] = 0]
       /\ onBus' = [onBus EXCEPT ![b] = @ \ {who}]
    /\ Then(<<>>)
    /\ UNCHANGED <<input, done, todo, links, queue, withLinks, ready, moving, aborted>>

\* Serve the head of the queue of b: a message is sent, a collective is given
\* the buses that are free and goes on when it has them all.
ServeHead(b) ==
    LET h == Head(queue[b])
        limit == config.limit[b]
    IN  IF h \in Msgs
          THEN /\ queue' = [queue EXCEPT ![b] = Tail(@)]
               /\ Then(<<[call |-> "send", who |-> h]>>)
               /\ UNCHANGED <<curr, number>>
          ELSE \E all \in {number[h] + (limit - curr[b]) = limit} :
               /\ number' = [number EXCEPT ![h] = @ + (limit - curr[b])]
               /\ curr' = [curr EXCEPT ![b] = limit]
               /\ queue' = IF all THEN [queue EXCEPT ![b] = Tail(@)] ELSE queue
               /\ Then(IF all THEN <<[call |-> "buses", who |-> h]>> ELSE <<>>)

\* The end of the release of a message: the bus is given back and the head of
\* its queue is served.
FreeBus ==
    /\ Calling("freeBus")
    /\ LET b == Head(calls).at IN
       /\ curr' = [curr EXCEPT ![b] = IF @ > 0 THEN @ - 1 ELSE @]
       /\ Then(Only(config.limit[b] > 0 /\ queue[b] # <<>>, [call |-> "serve", at |-> b]))
    /\ UNCHANGED <<input, done, todo, links, onBus, queue, gops, moving, aborted>>

Serve ==
    /\ Calling("serve")
    /\ ServeHead(Head(calls).at)
    /\ UNCHANGED <<input, done, todo, links, onBus, withLinks, ready, moving, aborted>>

\* The second half: as many are served as there are in the queue, while a bus
\* is free.
ServeAll ==
    /\ Calling("serveAll")
    /\ Then([i \in DOMAIN queue[Head(calls).at] |->
               [call |-> "serveIfFree", at |-> Head(calls).at]])
    /\ UNCHANGED <<input, done, todo, links, buses, gops, moving, aborted>>

ServeIfFree ==
    /\ Calling("serveIfFree")
    /\ LET b == Head(calls).at IN
       IF curr[b] < config.limit[b] THEN ServeHead(b)
                                    ELSE Then(<<>>) /\ UNCHANGED <<curr, queue, number>>
    /\ UNCHANGED <<input, done, todo, links, onBus, withLinks, ready, moving, aborted>>

Handle == \/ CallSend \/ FreeLink \/ Wake
          \/ CallBuses \/ CallOutLink \/ CallInLink \/ CallOutLinks \/ CallStart
          \/ CallReserve \/ FreeBuses \/ FreeBus \/ Serve \/ ServeAll \/ ServeIfFree

Release == \/ \E m \in Msgs : ResourcesOut(m)
           \/ \E g \in Gops : GroupResourcesOut(g)

Next == \/ \E m \in Msgs : Send(m)
        \/ \E g \in Gops : GlobalOperation(g)
        \/ Release
        \/ Handle

\* The loop over events ends with the last of them, and a handler runs to its
\* end.
Fairness == WF_vars(Release \/ Handle)

Spec == Init /\ [][Next]_vars /\ Fairness

-----------------------------------------------------------------------------
(* Properties *)

Places == [thForOut : [Ends -> Seq(Users)], thForIn : [Ends -> Seq(Users)]]

\* The state is one the structures of the code can hold.
TypeOK ==
    /\ freeOut \in [Ends -> Nat] /\ freeIn \in [Ends -> Nat]
    /\ [thForOut |-> thForOut, thForIn |-> thForIn] \in Places
    /\ local \subseteq Users /\ partner \subseteq Users
    /\ curr \in [Buses -> Nat] /\ onBus \in [Buses -> SUBSET Users]
    /\ queue \in [Buses -> Seq(Users)] /\ number \in [Reps -> Nat]
    /\ withLinks \in [Gops -> Seq(Reps)] /\ ready \in [Gops -> Nat]
    /\ moving \subseteq part /\ done \subseteq part /\ todo \subseteq part

\* really_send_*, the release of resources and the collectives never panic, call
\* abort or read a null link: a half-duplex link always has its twin, who
\* releases a bus is on it, and who releases a link of a machine has it.
NeverAborts == ~aborted

\* LINKS_get_*, LINKS_free_*: no link of a task, a machine or a connection is
\* lost or handed out twice, half-duplex twins included.
LinksConserved ==
    \A e \in Ends :
        LET outUsers == Cardinality({u \in local : EndOf(u, "out") = e})
            inUsers == Cardinality({u \in partner : EndOf(u, "in") = e})
        IN  /\ freeOut[e] + outUsers + If(Half(e), inUsers) = Total(e, "out")
            /\ freeIn[e] + inUsers + If(Half(e), outUsers) = Total(e, "in")

AtRest == calls = <<>>

\* cur_memory_messages, acc.cur_messages and curr_on_network count who is on
\* the bus and the buses waiting collectives have put by, and never pass the
\* limit.
BusesConserved ==
    AtRest => \A b \in Buses :
        LET held == {r \in Reps \cap onBus[b] : TRUE}
            put == {r \in Reps \ onBus[b] : b = <<"net", r[2]>>}
        IN  /\ curr[b] = Cardinality(onBus[b] \cap Msgs) + Cardinality(held) * config.limit[b]
                           + MapThenSumSet(LAMBDA r : number[r], put)
            /\ curr[b] <= config.limit[b]

Occurrences(u) ==
    LET in(q) == Len(SelectSeq(q, LAMBDA x : x = u))
    IN  MapThenSumSet(LAMBDA e : in(thForOut[e]) + in(thForIn[e]), Ends)
          + MapThenSumSet(LAMBDA b : in(queue[b]), Buses)

\* A message or the thread of a machine waits in one queue, or has all it needs:
\* nobody drops out when a wake-up fails and the sender must wait again.
NobodyForgotten ==
    AtRest =>
        /\ \A m \in (Msgs \cap part) \ todo : Occurrences(m) = If(m \notin moving \cup done, 1)
        /\ \A r \in Reps : r[1] \in part \ todo =>
              \/ r[1] \in moving \cup done /\ Occurrences(r) = 0
              \/ Occurrences(r) = 1
              \/ /\ r[1] \notin moving \cup done /\ Occurrences(r) = 0 /\ r \in local
                 /\ \E s \in Reps : s[1] = r[1] /\ Occurrences(s) = 1

\* LINKS_free_*, free_*_resources: nobody waits for a link or a bus that is free.
NoIdleResource ==
    AtRest => /\ \A e \in Ends : /\ thForOut[e] # <<>> => freeOut[e] = 0
                                 /\ thForIn[e] # <<>> => freeIn[e] = 0
              /\ \A b \in Buses : queue[b] # <<>> => curr[b] = config.limit[b]

\* communic.c:6344: "first all output links are obtained; when there are all of
\* them, the input links.  It must be so to avoid deadlocks".
OutBeforeIn ==
    AtRest => \A r \in Reps :
        r \in partner \/ Contains(thForIn[<<"machine", r[2]>>], r)
            => \A k \in Span[r[1]] : <<r[1], k>> \in local

\* start_global_op: a collective that runs has the buses of each of its machines
\* to itself and, when they are several, both links of each.
CollectiveHasAll ==
    \A g \in Gops \cap moving : \A k \in Span[g] :
        /\ ManyMachines(g) => <<g, k>> \in local /\ <<g, k>> \in partner
        /\ config.limit[<<"net", k>>] > 0 => onBus[<<"net", k>>] = {<<g, k>>}

\* Every message that is sent and every collective that all its threads have
\* reached gets its resources in the end: no two of them wait for each other.
EveryoneServed == []<>(done = part \ todo)

\* The counters of links and buses agree with who uses them, and no release
\* meets a resource that is not there.
ResourcesConserved ==
    /\ TypeOK
    /\ NeverAborts
    /\ LinksConserved
    /\ BusesConserved

\* Who is not served is in one queue, and for want of something.
NobodyWaitsInVain == NobodyForgotten /\ NoIdleResource

\* A collective takes its buses and links in two rounds, whole, before it runs.
CollectivesWhole == CollectiveHasAll /\ OutBeforeIn
==============================================================================
