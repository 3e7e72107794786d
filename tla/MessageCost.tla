----------------------------- MODULE MessageCost -----------------------------
(***************************************************************************)
(* What a message costs, in Simulator/model/communic.c: compute_startup,   *)
(* compute_copy_latency, transferencia with the recompute_*_bandwidth it   *)
(* calls, and the traffic of the wide area network.                        *)
(*                                                                         *)
(* The times of the code are doubles.  Here they are integers: Unit stands *)
(* for 1e9 / 2^20, a bandwidth is one of its divisors, and a quotient that *)
(* is not exact is truncated.  The traffic is in tenths of its maximum     *)
(* value, and so is param_external_net_alfa.                               *)
(***************************************************************************)
EXTENDS Integers, Sequences, SequencesExt, FiniteSets

Larger(x, y) == IF x > y THEN x ELSE y
Smaller(x, y) == IF x < y THEN x ELSE y

Unit == 120
NsPerByte(bandw) == IF bandw = 0 THEN 0 ELSE Unit \div bandw

-----------------------------------------------------------------------------
(* Startup: places are records of what the configuration says of a node,   *)
(* a machine, a connection; noise is what RANDOM_GenerateRandom answers.   *)

\* A transfer block with nothing to transfer is a synchronisation or a launch.
AcceleratorStartup(node, block, size) ==
    IF block = "OCL_TRANSFER" \/ (block = "CUDA_TRANSFER" /\ size # 0)
    THEN node.accMemoryStartup
    ELSE node.accStartup

\* The slowest of the networks that join the members of the communicator.
NonblockingStartup(node, comm) ==
    LET latency(used, startup) == IF used THEN startup ELSE 0
    IN  Larger(latency(~comm.sameMachine, node.externalStartup),
            Larger(latency(~comm.sameNode, node.remoteStartup),
                   latency(comm.sharingNode, node.localStartup)))

\* A startup smaller than a nanosecond is none.
ComputeStartup(kind, node, connection, comm, block, size, noise) ==
    Larger(0,
        CASE kind = "MEMORY" -> node.localStartup + noise
          [] kind = "INTERNAL" -> node.remoteStartup + noise
          [] kind = "EXTERNAL" -> node.externalStartup + noise
          [] kind = "DEDICATED" -> connection.startup
          [] kind = "ACCELERATOR" -> AcceleratorStartup(node, block, size) + noise
          [] kind = "NONBLOCKING" -> NonblockingStartup(node, comm))

ComputeCopyLatency(node, size, kind) ==
    size * NsPerByte(IF kind = "ACCELERATOR" THEN node.accBandwidth ELSE node.bandwidth)

-----------------------------------------------------------------------------
(* Bandwidths, as nanoseconds per byte.                                    *)

\* More messages than there is room for share it; an unlimited resource does
\* not count its messages, so that current is 0 when limit is.
Shared(bandw, current, limit) ==
    IF current <= limit THEN NsPerByte(bandw)
    ELSE (NsPerByte(bandw) * current) \div limit

MemoryPerByte(node) == Shared(node.bandwidth, node.messages, node.maxMessages)
InternalPerByte(machine) == Shared(machine.bandwidth, machine.messages, machine.maxMessages)
AcceleratorPerByte(node) == Shared(node.accBandwidth, node.accMessages, node.accMaxMessages)

\* PeriodicRecompute, every 10 s: the mean of the traffic so far and of the last
\* period, whose bytes recompute_external_network_traffic has added up.
Period == 10
PeriodicRecompute(alfa, sum, bytes) ==
    (sum * alfa + (bytes \div Period) * (10 - alfa)) \div 10

\* The traffic after periods in which the bytes of a sequence were sent.
TrafficAfter(alfa, bytes) ==
    FoldLeft(LAMBDA sum, x : PeriodicRecompute(alfa, sum, x), 0, bytes)

\* The share of the bandwidth that is left, per mille, when the maximum value is
\* MaxTraffic.  From nine tenths of it on the logarithm is not positive: the code
\* panics at 0 and gets a negative bandwidth, or none, after it; 0 is all of them.
MaxTraffic == 10
Exponential == <<1000, 607, 368, 223, 135, 82, 50, 30, 18, 11, 7>>
Logarithmic == <<1000, 954, 903, 845, 778, 699, 602, 477, 301, 0, 0>>
BandwidthRatio(function, traffic) ==
    CASE function = "EXP" -> Exponential[Smaller(traffic, MaxTraffic) + 1]
      [] function = "LOG" -> Logarithmic[Smaller(traffic, MaxTraffic) + 1]
      [] function = "LINEAL" -> (1000 * Larger(MaxTraffic - traffic, 0)) \div MaxTraffic
      [] function = "CONST" -> 1000

\* recompute_external_network_bandwidth answers MB/s, and its callers convert.
RatioPanics(wan) == BandwidthRatio(wan.function, wan.traffic) = 0
ExternalPerByte(wan) ==
    IF wan.bandwidth = 0 THEN 0
    ELSE (1000 * Unit) \div (wan.bandwidth * BandwidthRatio(wan.function, wan.traffic))

-----------------------------------------------------------------------------
(* Transfers: the time of the message and that its resources are in use.   *)

Times(total, resources) == [total |-> total, resources |-> resources]

MemoryTransfer(size, node) ==
    Times(MemoryPerByte(node) * size, NsPerByte(node.bandwidth) * size)

AcceleratorTransfer(size, node) ==
    Times(AcceleratorPerByte(node) * size, NsPerByte(node.accBandwidth) * size)

InternalTransfer(size, machine) ==
    Times(InternalPerByte(machine) * size, NsPerByte(machine.bandwidth) * size)

\* Between machines a message also flies, unless the bandwidth is unlimited.
Flown(bandw, flight) == IF bandw = 0 THEN 0 ELSE flight

ExternalTransfer(size, wan) ==
    Times(ExternalPerByte(wan) * size + Flown(wan.bandwidth, wan.flight),
          NsPerByte(wan.bandwidth) * size)

DedicatedTransfer(size, connection) ==
    LET sent == NsPerByte(connection.bandwidth) * size
    IN  Times(sent + Flown(connection.bandwidth, connection.flight), sent)

-----------------------------------------------------------------------------
(* What the rest of the simulator counts on, over bounded inputs.          *)

Loads == {<<0, 0>>} \cup {<<c, m>> : c \in 0 .. 4, m \in 1 .. 2}
Bandwidths == {0, 1, 3, 4}
SomeNodes ==
    {[bandwidth |-> b, messages |-> l[1], maxMessages |-> l[2],
      accBandwidth |-> b, accMessages |-> l[1], accMaxMessages |-> l[2],
      localStartup |-> s[1], remoteStartup |-> s[2], externalStartup |-> s[3],
      accStartup |-> s[1], accMemoryStartup |-> s[3]] :
       b \in Bandwidths, l \in Loads, s \in {<<0, 0, 0>>, <<1, 2, 3>>, <<3, 2, 1>>}}
SomeWans == {[bandwidth |-> b, function |-> f, traffic |-> t, flight |-> x] :
           b \in Bandwidths, f \in {"EXP", "LOG", "LINEAL", "CONST"}, t \in 0 .. 12, x \in {0, 5}}

\* really_send_*: "resources > transmission time!" is a panic of each of them.
\* Whatever the load and, while the ratio is not a panic of its own, the traffic,
\* a message never arrives before its resources are free.
ResourcesWithinTransfer ==
    LET fits(t) == t.resources <= t.total
    IN  \A size \in 0 .. 2 :
          /\ \A node \in SomeNodes : /\ fits(MemoryTransfer(size, node))
                                     /\ fits(AcceleratorTransfer(size, node))
                                     /\ fits(InternalTransfer(size, node))
          /\ \A wan \in SomeWans : /\ RatioPanics(wan) \/ fits(ExternalTransfer(size, wan))
                                   /\ fits(DedicatedTransfer(size, wan))

\* Sharing: messages above the limit take, all together, as long as in turns.
SharedInTurns ==
    \A b \in Bandwidths, l \in Loads :
        l[1] > l[2] => Shared(b, l[1], l[2]) * l[2] = NsPerByte(b) * l[1]

\* A wide area network in which every period carries less than the maximum does
\* not reach it however long it goes on, and its traffic dies out.
TrafficBounded ==
    \A alfa \in {0, 1, 5, 9} : \A n \in 0 .. 3 :
        \A bytes \in [1 .. n -> {0, 50, MaxTraffic * Period - 1}] :
            /\ ~RatioPanics([function |-> "LINEAL", traffic |-> TrafficAfter(alfa, bytes)])
            /\ TrafficAfter(alfa, bytes \o [i \in 1 .. 9 |-> 0]) = 0

\* A non-blocking collective waits for the slowest network its members use, and
\* no noise makes a startup negative, whose event would lie in the past.
StartupsRight ==
    /\ \A node \in SomeNodes, noise \in {-2, 0, 2}, size \in 0 .. 1 :
          \A kind \in {"MEMORY", "INTERNAL", "EXTERNAL", "ACCELERATOR"} :
              ComputeStartup(kind, node, node, node, "CUDA_TRANSFER", size, noise) \in Nat
    /\ \A node \in SomeNodes, m, n, s \in BOOLEAN :
          LET up(x, y, z) ==
                  ComputeStartup("NONBLOCKING", node, node,
                      [sameMachine |-> x, sameNode |-> y, sharingNode |-> z], "NONE", 0, 0)
          IN  up(m, n, s) <= Smaller(up(FALSE, n, s), Smaller(up(m, FALSE, s), up(m, n, TRUE)))

MessageCostsRight ==
    /\ ResourcesWithinTransfer
    /\ SharedInTurns
    /\ TrafficBounded
    /\ StartupsRight
==============================================================================
