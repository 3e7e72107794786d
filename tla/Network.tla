------------------------------- MODULE Network -------------------------------
(***************************************************************************)
(* The links and buses of one machine: Simulator/model/links.c (network    *)
(* links, link stealing) and, in communic.c, really_send_internal_network, *)
(* the release of its resources, and the buses of collective operations.   *)
(*                                                                         *)
(* A message needs an output link of its source node, an input link of its *)
(* destination node and a bus; a collective operation needs every bus.     *)
(* One that must wait is queued, and whoever frees a resource calls        *)
(* really_send again for the head of a queue, in the middle of its own     *)
(* handler.  `calls' holds the calls the running handler has still to make,*)
(* in order; no other handler starts before they are made.                 *)
(*                                                                         *)
(* Links of a node are alike: only their number and, for the output links  *)
(* in use, the order of their owners matters.  The durations that schedule *)
(* the release of resources are left out: releases come in any order.      *)
(***************************************************************************)
EXTENDS Integers, Sequences, SequencesExt, FiniteSets, QueueOps

CONSTANTS
    Nodes,
    Configs,  \* numbers of input and output links of the nodes
    Buses,    \* num_messages_on_network; 0 stands for no limit
    Msgs,     \* the copies of threads that carry messages
    Gops,     \* collective operations, by the thread that holds the buses
    Routes    \* the assignments of a source and a destination to messages

ASSUME ConfigsAssumption == Configs \subseteq [Nodes -> [in : Nat, out : Nat]]
ASSUME BusesAssumption == Buses \in Nat
ASSUME RoutesAssumption ==
    Routes \subseteq {r \in [Msgs -> [src : Nodes, dst : Nodes]] :
                        \A m \in Msgs : r[m].src # r[m].dst}
ASSUME KindsAssumption == Msgs \cap Gops = {}

VARIABLES
    config,    \* config[n]: links of node n, in this execution
    route,     \* route[m].src and route[m].dst, the nodes of message m
    freeOut,   \* freeOut[n]: count of node->free_out_links
    freeIn,    \* freeIn[n]: count of node->free_in_links
    owners,    \* owners[n]: link->thread, in order, in node->busy_out_links
    thForOut,  \* thForOut[n]: messages waiting for an output link of n
    thForIn,   \* thForIn[n]: messages waiting for an input link of n
    local,     \* messages with thread->local_link # L_NIL
    partner,   \* messages with thread->partner_link # L_NIL
    seeking,   \* messages with thread->partner_node # N_NIL
    curr,      \* network.curr_on_network
    onNet,     \* network.threads_on_network
    queue,     \* network.queue: messages and collectives waiting for buses
    number,    \* number[g]: thread->number_buses
    asked,     \* requested so far
    moving,    \* with the release of its resources scheduled
    done,      \* resources released
    calls,     \* calls the running handler has still to make
    aborted    \* an ASSERT failed, panic was called or a null pointer read

input == <<config, route>>
links == <<freeOut, freeIn, owners, thForOut, thForIn, local, partner, seeking>>
buses == <<curr, onNet, queue, number, moving>>
vars == <<input, links, buses, asked, done, calls, aborted>>

\* NODE_Fill_Node_Fields: no link at all means infinitely many; links of one
\* kind only are half duplex, and serve in both directions in pairs.
Infinite(n) == config[n].in = 0 /\ config[n].out = 0
HalfDuplex(n) == config[n].in = 0 \/ config[n].out = 0
LinksIn(n)  == IF config[n].in > 0 THEN config[n].in ELSE config[n].out
LinksOut(n) == IF config[n].out > 0 THEN config[n].out ELSE config[n].in

Users == Msgs \cup Gops

TypeOK ==
    /\ freeOut \in [Nodes -> Nat] /\ freeIn \in [Nodes -> Nat]
    /\ owners \in [Nodes -> Seq(Msgs)]
    /\ thForOut \in [Nodes -> Seq(Msgs)] /\ thForIn \in [Nodes -> Seq(Msgs)]
    /\ local \subseteq Msgs /\ partner \subseteq Msgs /\ seeking \subseteq Msgs
    /\ curr \in Nat /\ number \in [Gops -> Nat]
    /\ onNet \in Seq(Users) /\ queue \in Seq(Users)
    /\ moving \subseteq Users /\ asked \subseteq Users /\ done \subseteq Users
    /\ aborted \in BOOLEAN

Init ==
    /\ config \in Configs /\ route \in Routes
    /\ freeOut = [n \in Nodes |-> LinksOut(n)]
    /\ freeIn = [n \in Nodes |-> LinksIn(n)]
    /\ owners = [n \in Nodes |-> <<>>]
    /\ thForOut = [n \in Nodes |-> <<>>] /\ thForIn = [n \in Nodes |-> <<>>]
    /\ local = {} /\ partner = {} /\ seeking = {}
    /\ curr = 0 /\ onNet = <<>> /\ queue = <<>>
    /\ number = [g \in Gops |-> 0]
    /\ asked = {} /\ moving = {} /\ done = {}
    /\ calls = <<>> /\ aborted = FALSE

-----------------------------------------------------------------------------
(* Links *)

Src(m) == route[m].src
Dst(m) == route[m].dst

Stealable(m) == m \notin partner
Robable(n) == \E i \in DOMAIN owners[n] : Stealable(owners[n][i])
Victim(n) ==
    LET i == CHOOSE i \in DOMAIN owners[n] :
                 /\ Stealable(owners[n][i])
                 /\ \A j \in 1 .. (i - 1) : ~Stealable(owners[n][j])
    IN  owners[n][i]

\* "S'ha d'haver trobat per forca": the victim is in the queue of its partner
\* node, which must not be null.
VictimFound(n) == /\ Victim(n) \in seeking
                  /\ Contains(thForIn[Dst(Victim(n))], Victim(n))

InWayNeverStolen(m) ==
    IF Infinite(Dst(m)) \/ m \in partner THEN "have"
    ELSE IF freeIn[Dst(m)] > 0 THEN "free" ELSE "wait"

\* LINKS_get_network_links: the way m comes by its output and its input link.
OutWay(m) == CASE Infinite(Src(m)) \/ m \in local -> "have"
               [] ~(Infinite(Src(m)) \/ m \in local) /\ freeOut[Src(m)] > 0 -> "free"
               [] OTHER -> IF Robable(Src(m)) THEN "rob" ELSE "wait"

InWay(m) == CASE Infinite(Dst(m)) \/ m \in partner -> "have"
              [] ~(Infinite(Dst(m)) \/ m \in partner) /\ freeIn[Dst(m)] > 0 -> "free"
              [] OTHER -> IF HalfDuplex(Dst(m)) /\ Robable(Dst(m)) THEN "rob" ELSE "wait"

\* An ASSERT fails when a victim is not found; panic is called when a
\* half-duplex link lacks its twin.
Fails(m, out, in) ==
    \/ out = "rob" /\ ~VictimFound(Src(m))
    \/ out # "wait" /\ in = "rob" /\ ~VictimFound(Dst(m))
    \/ out = "free" /\ HalfDuplex(Src(m)) /\ freeIn[Src(m)] = 0
    \/ out # "wait" /\ in = "free" /\ HalfDuplex(Dst(m)) /\ freeOut[Dst(m)] = 0

If(p, x) == IF p THEN x ELSE 0

\* Take links in the given ways.  A free link of a half-duplex node comes with
\* its twin; a victim returns to the front of the queue for an output link; an
\* input link that must be waited for is waited for with the output link held.
Grab(m, out, in) ==
    LET s == Src(m)
        d == Dst(m)
        Robbed(n) == (n = s /\ out = "rob") \/ (n = d /\ in = "rob")
        victims == {Victim(n) : n \in {k \in {s, d} : Robbed(k)}}
    IN
    /\ freeOut' = [n \in Nodes |-> freeOut[n] - If(n = s /\ out = "free", 1)
                                     - If(n = d /\ in = "free" /\ HalfDuplex(n), 1)]
    /\ freeIn' = [n \in Nodes |-> freeIn[n] - If(n = d /\ in = "free", 1)
                                    - If(n = s /\ out = "free" /\ HalfDuplex(n), 1)]
    /\ owners' = [n \in Nodes |->
                    CASE n = s /\ out = "free" -> Append(owners[n], m)
                      [] n = s /\ out = "rob"  -> ReplaceAll(owners[n], Victim(n), m)
                      [] n = d /\ in = "rob"   -> Without(owners[n], victims)
                      [] OTHER -> owners[n]]
    /\ local' = (local \ victims) \cup (IF out \in {"free", "rob"} THEN {m} ELSE {})
    /\ partner' = partner \cup (IF in \in {"free", "rob"} THEN {m} ELSE {})
    /\ thForOut' = [n \in Nodes |-> IF Robbed(n) THEN <<Victim(n)>> \o thForOut[n]
                                                 ELSE thForOut[n]]
    /\ thForIn' = [n \in Nodes |->
                     LET left == Without(thForIn[n], victims)
                     IN  IF n = d /\ in = "wait" THEN Append(left, m) ELSE left]
    /\ seeking' = IF in = "wait" THEN seeking \cup {m} ELSE seeking \ {m}

WaitForOut(m) ==
    /\ thForOut' = [thForOut EXCEPT ![Src(m)] = Append(@, m)]
    /\ seeking' = seeking \cup {m}
    /\ UNCHANGED <<freeOut, freeIn, owners, thForIn, local, partner>>

-----------------------------------------------------------------------------
(* Buses *)

\* The second half of really_send_internal_network: m has its links.
TakeBus(m) ==
    IF Buses > 0 /\ curr >= Buses
      THEN queue' = Append(queue, m) /\ UNCHANGED <<curr, onNet, moving>>
      ELSE /\ curr' = curr + If(Buses > 0, 1)
           /\ onNet' = IF Buses > 0 THEN Append(onNet, m) ELSE onNet
           /\ moving' = moving \cup {m}
           /\ UNCHANGED queue

\* really_send.  A stolen output link is not worth it when the input link must
\* be waited for; it is not taken at all when the destination has infinite
\* links.
ReallySend(m) ==
    LET out == OutWay(m)
        in == InWay(m)
    IN
    /\ aborted' = Fails(m, out, in)
    /\ IF Fails(m, out, in) THEN UNCHANGED <<links, buses>>
       ELSE \/ /\ out = "wait" \/ (out = "rob" /\ in = "wait")
               /\ WaitForOut(m)
               /\ UNCHANGED buses
            \/ /\ out \in {"have", "free"} /\ in = "wait"
               /\ Grab(m, out, in)
               /\ UNCHANGED buses
            \/ /\ out # "wait" /\ in # "wait"
               /\ Grab(m, IF out = "rob" /\ Infinite(Dst(m)) THEN "have" ELSE out, in)
               /\ TakeBus(m)
               /\ UNCHANGED number

\* The rest of global_op_get_all_buses, for a collective within the machine:
\* g has all the buses.
StartGlobalOp(g) ==
    /\ curr' = Buses
    /\ onNet' = onNet \o [i \in 1 .. Buses |-> g]
    /\ moving' = moving \cup {g}

\* Serve the head of network.queue: a message is sent, a collective is given
\* the buses that are free and starts when it has them all.
ServeHead(rest) ==
    LET h == Head(queue) IN
    \/ /\ h \in Msgs
       /\ queue' = Tail(queue)
       /\ calls' = <<[call |-> "send", who |-> h]>> \o rest
       /\ UNCHANGED <<curr, onNet, number, moving>>
    \/ /\ h \in Gops
       /\ number' = [number EXCEPT ![h] = @ + (Buses - curr)]
       /\ IF number[h] + (Buses - curr) = Buses
            THEN queue' = Tail(queue) /\ StartGlobalOp(h)
            ELSE curr' = Buses /\ UNCHANGED <<queue, onNet, moving>>
       /\ calls' = rest

-----------------------------------------------------------------------------
(* Handlers *)

Idle == calls = <<>> /\ ~aborted

\* A send starts: really_send is called for a new copy of a thread.
Send(m) ==
    /\ Idle
    /\ m \notin asked
    /\ asked' = asked \cup {m}
    /\ ReallySend(m)
    /\ UNCHANGED <<input, done, calls>>

Only(p, x) == IF p THEN <<x>> ELSE <<>>

\* COM_TIMER_OUT_RESOURCES_NET, COMMUNIC_internal_resources_COM_TIMER_OUT: both
\* links are freed before the bus is.
InternalResourcesOut(m) ==
    /\ Idle
    /\ m \in moving
    /\ aborted' = (Buses > 0 /\ ~Contains(onNet, m))
    /\ onNet' = Without(onNet, {m})
    /\ moving' = moving \ {m}
    /\ done' = done \cup {m}
    /\ calls' = Only(m \in local, [call |-> "freeOut", who |-> m])
                  \o Only(m \in partner, [call |-> "freeIn", who |-> m])
                  \o <<[call |-> "freeBus"]>>
    /\ UNCHANGED <<input, links, curr, queue, number, asked>>

\* The last thread has reached the collective: global_op_get_all_buses.
GlobalOp(g) ==
    /\ Idle
    /\ g \notin asked
    /\ asked' = asked \cup {g}
    /\ IF Buses > 0 /\ curr # 0
         THEN /\ number' = [number EXCEPT ![g] = Buses - curr]
              /\ curr' = Buses
              /\ queue' = Append(queue, g)
              /\ UNCHANGED <<onNet, moving>>
         ELSE StartGlobalOp(g) /\ UNCHANGED <<number, queue>>
    /\ UNCHANGED <<input, links, done, calls, aborted>>

\* COM_TIMER_GROUP_RESOURCES, free_global_communication_resources: all buses
\* are free again and the queue is served while there is one left.
GroupResourcesOut(g) ==
    /\ Idle
    /\ g \in moving
    /\ number' = [number EXCEPT ![g] = 0]
    /\ curr' = 0
    /\ onNet' = SubSeq(onNet, Buses + 1, Len(onNet))
    /\ moving' = moving \ {g}
    /\ done' = done \cup {g}
    /\ calls' = [i \in 1 .. Len(queue) |-> [call |-> "serveIfFree"]]
    /\ UNCHANGED <<input, links, queue, asked, aborted>>

-----------------------------------------------------------------------------
(* The calls a handler makes *)

Calling(name) == calls # <<>> /\ ~aborted /\ Head(calls).call = name

CallSend ==
    /\ Calling("send")
    /\ ReallySend(Head(calls).who)
    /\ calls' = Tail(calls)
    /\ UNCHANGED <<input, asked, done>>

\* LINKS_free_network_link for an output link: then, when half duplex, a thread
\* that waits for input and, always, one that waits for output is woken.
FreeOutLink ==
    /\ Calling("freeOut")
    /\ LET m == Head(calls).who
           n == Src(m)
       IN  /\ freeOut' = [freeOut EXCEPT ![n] = @ + 1]
           /\ freeIn' = [freeIn EXCEPT ![n] = @ + If(HalfDuplex(n), 1)]
           /\ owners' = [owners EXCEPT ![n] = Without(@, {m})]
           /\ local' = local \ {m}
           /\ calls' = Only(HalfDuplex(n), [call |-> "wakeIn", at |-> n])
                         \o <<[call |-> "wakeOut", at |-> n]>> \o Tail(calls)
    /\ UNCHANGED <<input, thForOut, thForIn, partner, seeking, buses, asked, done,
                   aborted>>

\* Mutant: the twin of a half-duplex link is not freed.
FreeInLinkNoTwin ==
    /\ Calling("freeIn")
    /\ LET n == Dst(Head(calls).who)
       IN  /\ freeIn' = [freeIn EXCEPT ![n] = @ + 1]
           /\ partner' = partner \ {Head(calls).who}
           /\ calls' = <<[call |-> "wakeIn", at |-> n]>> \o Tail(calls)
    /\ UNCHANGED <<input, freeOut, owners, thForOut, thForIn, local, seeking, buses,
                   asked, done, aborted>>

\* The same for an input link, the other way round.
FreeInLink ==
    /\ Calling("freeIn")
    /\ LET m == Head(calls).who
           n == Dst(m)
       IN  /\ freeIn' = [freeIn EXCEPT ![n] = @ + 1]
           /\ freeOut' = [freeOut EXCEPT ![n] = @ + If(HalfDuplex(n), 1)]
           /\ partner' = partner \ {m}
           /\ calls' = Only(HalfDuplex(n), [call |-> "wakeOut", at |-> n])
                         \o <<[call |-> "wakeIn", at |-> n]>> \o Tail(calls)
    /\ UNCHANGED <<input, owners, thForOut, thForIn, local, seeking, buses, asked,
                   done, aborted>>

\* Mutant: nobody is woken.
WakeOutNobody ==
    /\ Calling("wakeOut")
    /\ calls' = Tail(calls)
    /\ UNCHANGED <<input, links, buses, asked, done, aborted>>

\* Wake the first thread that waits for an output link of the node, if any.
WakeOut ==
    /\ Calling("wakeOut")
    /\ LET n == Head(calls).at IN
       IF thForOut[n] = <<>>
         THEN calls' = Tail(calls) /\ UNCHANGED thForOut
         ELSE /\ thForOut' = [thForOut EXCEPT ![n] = Tail(@)]
              /\ calls' = <<[call |-> "send", who |-> Head(thForOut[n])]>> \o Tail(calls)
    /\ UNCHANGED <<input, freeOut, freeIn, owners, thForIn, local, partner, seeking,
                   buses, asked, done, aborted>>

WakeIn ==
    /\ Calling("wakeIn")
    /\ LET n == Head(calls).at IN
       IF thForIn[n] = <<>>
         THEN calls' = Tail(calls) /\ UNCHANGED thForIn
         ELSE /\ thForIn' = [thForIn EXCEPT ![n] = Tail(@)]
              /\ calls' = <<[call |-> "send", who |-> Head(thForIn[n])]>> \o Tail(calls)
    /\ UNCHANGED <<input, freeOut, freeIn, owners, thForOut, local, partner, seeking,
                   buses, asked, done, aborted>>

\* The end of COMMUNIC_internal_resources_COM_TIMER_OUT: the bus is given back
\* and the head of the queue is served.
FreeBus ==
    /\ Calling("freeBus")
    /\ curr' = IF curr > 0 THEN curr - 1 ELSE curr
    /\ calls' = Only(Buses > 0 /\ queue # <<>>, [call |-> "serve"]) \o Tail(calls)
    /\ UNCHANGED <<input, links, onNet, queue, number, moving, asked, done, aborted>>

Serve ==
    /\ Calling("serve")
    /\ ServeHead(Tail(calls))
    /\ UNCHANGED <<input, links, asked, done, aborted>>

\* The loop of free_global_communication_resources.
ServeIfFree ==
    /\ Calling("serveIfFree")
    /\ IF curr < Buses THEN ServeHead(Tail(calls))
                       ELSE calls' = Tail(calls) /\ UNCHANGED buses
    /\ UNCHANGED <<input, links, asked, done, aborted>>

Handle == \/ CallSend \/ FreeOutLink \/ FreeInLink \/ WakeOut \/ WakeIn
          \/ FreeBus \/ Serve \/ ServeIfFree

Next == \/ \E m \in Msgs : Send(m) \/ InternalResourcesOut(m)
        \/ \E g \in Gops : GlobalOp(g) \/ GroupResourcesOut(g)
        \/ Handle

\* Every timer that was set goes off, and a handler runs to its end.
Fairness == /\ \A m \in Msgs : WF_vars(InternalResourcesOut(m))
            /\ \A g \in Gops : WF_vars(GroupResourcesOut(g))
            /\ WF_vars(Handle)

Spec == Init /\ [][Next]_vars /\ Fairness

-----------------------------------------------------------------------------
(* Properties *)

\* No ASSERT of links.c fails and no panic is called: a candidate for stealing
\* is always waiting, a half-duplex link always has its twin, a sender is
\* always in threads_on_network.
NeverAborts == ~aborted

OutUsers(n) == {m \in local : Src(m) = n}
InUsers(n) == {m \in partner : Dst(m) = n}

\* Links are neither lost nor created, through waits and thefts: on every node
\* the free ones and the ones in use, counted in both directions when half
\* duplex, make up the configuration.
LinksConserved ==
    \A n \in {k \in Nodes : ~Infinite(k)} :
        /\ ToSet(owners[n]) = OutUsers(n)
        /\ Len(owners[n]) = Cardinality(OutUsers(n))
        /\ freeOut[n] + Cardinality(OutUsers(n))
             + If(HalfDuplex(n), Cardinality(InUsers(n))) = LinksOut(n)
        /\ freeIn[n] + Cardinality(InUsers(n))
             + If(HalfDuplex(n), Cardinality(OutUsers(n))) = LinksIn(n)

Held == IF queue # <<>> /\ Head(queue) \in Gops THEN number[Head(queue)] ELSE 0

\* Between handlers the bus counter is the buses that moving messages and
\* collectives use and that the collective at the head of the queue holds back,
\* and never exceeds the machine's buses.  Nobody else in the queue holds any.
BusesConserved ==
    Idle /\ Buses > 0 =>
        /\ \A g \in Gops \ moving :
              number[g] > 0 => queue # <<>> /\ Head(queue) = g
        /\ curr = Cardinality(moving \cap Msgs)
                    + Buses * Cardinality(moving \cap Gops) + Held
        /\ curr <= Buses

\* Between handlers everyone who asked is in one queue, or moving, or done.
NobodyForgotten ==
    Idle => \A x \in asked :
        Cardinality({n \in Nodes : Contains(thForOut[n], x)})
          + Cardinality({n \in Nodes : Contains(thForIn[n], x)})
          + If(Contains(queue, x), 1) + If(x \in moving, 1) + If(x \in done, 1) = 1

\* No lost wakeup: between handlers nobody waits for a link or a bus that is
\* free.
NoIdleResource ==
    Idle =>
        /\ \A n \in Nodes : /\ thForOut[n] # <<>> => freeOut[n] = 0
                            /\ thForIn[n] # <<>> => freeIn[n] = 0
        /\ queue # <<>> => curr = Buses

\* A message moves with a link of each of its nodes, unless these have
\* infinitely many.
MovesWithLinks ==
    \A m \in moving \cap Msgs :
        /\ Infinite(Src(m)) \/ m \in local
        /\ Infinite(Dst(m)) \/ m \in partner

\* A collective that moves has the network for itself.
CollectiveAlone ==
    \A g \in moving \cap Gops : Buses > 0 => moving = {g}

\* Whoever asks for resources gets them and gives them back: no deadlock over
\* links, stolen or not, and buses.
EveryoneServed == \A x \in Users : (x \in asked) ~> (x \in done)

\* In every configuration all nodes have infinitely many links, or none has.
\* With nodes of both kinds, a message under way to one of the first has no
\* partner_link, so roba_out_link takes it for one that waits.
Uniform ==
    \A c \in Configs : \/ \A n \in Nodes : c[n].in = 0 /\ c[n].out = 0
                       \/ \A n \in Nodes : ~(c[n].in = 0 /\ c[n].out = 0)

\* The counters and queues of links.c and of the buses always agree with who is
\* using what, through waits and thefts, and no assertion of links.c fails.
ResourcesConserved ==
    /\ TypeOK
    /\ NeverAborts
    /\ LinksConserved
    /\ BusesConserved
    /\ MovesWithLinks
    /\ CollectiveAlone

\* Between handlers, who is not served is in a queue, and for want of something:
\* no wake-up of a freed link or bus is lost.
NobodyWaitsInVain == NobodyForgotten /\ NoIdleResource
==============================================================================
