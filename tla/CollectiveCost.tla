---------------------------- MODULE CollectiveCost ----------------------------
(***************************************************************************)
(* What a collective operation costs, in Simulator/model/communic.c:       *)
(* calcula_temps_operacio_global and what it calls.                        *)
(*                                                                         *)
(* An operation is a record: the machines its members run on, in the order *)
(* of the threads that reserve them, the wide area network, the size of    *)
(* the communicator and the bytes sent and received.  A machine has the    *)
(* nodes the members use (their bandwidth, startup and number of tasks)    *)
(* and, of the node of the reserving thread, the startups.                 *)
(***************************************************************************)
EXTENDS MessageCost

\* provide_log: stages of a binary tree over n members.
ProvideLog(n) == Cardinality({i \in 0 .. n : 2 ^ i < n})

\* Messages of stage i, from every member j that is the last of a half.
ParallelComms(i, n) == Cardinality({j \in 2 ^ i - 1 .. n - 2 : (j - 2 ^ i + 1) % 2 ^ (i + 1) = 0})

Rounds(messages, buses) == (messages + buses - 1) \div buses

ContentionStages(n, buses) ==
    IF buses = 0 THEN ProvideLog(n)
    ELSE MapThenSumSet(LAMBDA i : Rounds(ParallelComms(i, n), buses), 0 .. ProvideLog(n) - 1)

\* What new_global_op registers for a machine or the wide area network: no other
\* size than CURR is ever set.
OperationInfo(model) == [model |-> model, size |-> "CURR"]

-----------------------------------------------------------------------------
MessSize(size, fan, sent, received) ==
    CASE size = "CURR" -> IF fan = "IN" THEN sent ELSE received
      [] size = "MIN" -> Smaller(sent, received)
      [] size = "MAX" -> Larger(sent, received)
      [] size = "MEAN" -> (sent + received) \div 2
      [] size = "2MAX" -> 2 * Larger(sent, received)
      [] size = "SIR" -> sent + received

Factor(model, partners, buses) ==
    CASE model = "0" -> 0
      [] model = "CTE" -> 1
      [] model = "LIN" -> partners - 1
      [] model = "LOG" -> ContentionStages(partners, buses)

\* calcula_fan, its bandwidth already in nanoseconds per byte.
CalculaFan(perByte, partners, buses, fan, info, sent, received, startup) ==
    LET factor == Factor(info.model, partners, buses)
    IN  [time |-> (startup + MessSize(info.size, fan, sent, received) * perByte) * factor,
         latency |-> startup * factor]

\* Both fans of a stage of the operation.
Fans(perByte, partners, buses, info, startup, op) ==
    [f \in {"IN", "OUT"} |->
        CalculaFan(perByte, partners, buses, f, info, op.sent, op.received, startup)]

NoFans == [f \in {"IN", "OUT"} |-> [time |-> 0, latency |-> 0]]
TimeOf(fans) == fans["IN"].time + fans["OUT"].time
LatencyOf(fans) == fans["IN"].latency + fans["OUT"].latency
Weight(fans) == TimeOf(fans) + LatencyOf(fans)

\* Within a node messages do not wait for buses.
WithinNode(machine, node, op) ==
    Fans(NsPerByte(node.bandwidth), node.tasks, 0,
         OperationInfo(machine.model), node.localStartup, op)

\* calcula_temps_maxim_intra_nodes: the node of greatest weight, the first of them.
IntraNode(machine, op) ==
    FoldLeft(LAMBDA best, node :
                LET fans == WithinNode(machine, node, op)
                IN  IF Weight(fans) > Weight(best) THEN fans ELSE best,
             NoFans, machine.used)

\* The times between the nodes of a machine.  The variables of the code keep
\* those of the machine before when this one has a single node.
InterNode(machine, before, op) ==
    IF machine.numberOfNodes = 1 THEN before
    ELSE Fans(NsPerByte(machine.bandwidth), Len(machine.used), machine.buses,
              OperationInfo(machine.model), machine.remoteStartup, op)

Heavier(x, y) ==
    IF Weight(y.inter) + Weight(y.intra) > Weight(x.inter) + Weight(x.intra) THEN y ELSE x

\* The machine of greatest weight, the first of them.
SlowestMachine(op) ==
    FoldLeft(LAMBDA acc, machine :
                LET inter == InterNode(machine, acc.inter, op)
                IN  [inter |-> inter,
                     best |-> Heavier(acc.best, [inter |-> inter, intra |-> IntraNode(machine, op)])],
             [inter |-> NoFans, best |-> [inter |-> NoFans, intra |-> NoFans]],
             op.machines).best

\* Over several machines every member counts, and the startup is that of the
\* machine looked at last.
External(op) ==
    IF Len(op.machines) = 1 THEN NoFans
    ELSE Fans(ExternalPerByte(op.wan), op.size, 0, OperationInfo(op.wan.model),
              Last(op.machines).externalStartup, op)

\* calcula_maxim_flight_times, from and to the machine of the last thread.
Flights(op) ==
    LET others == {op.machines[i].id : i \in DOMAIN op.machines} \ {op.home}
        longest(S) == CHOOSE x \in S \cup {0} : \A y \in S \cup {0} : y <= x
    IN  IF Len(op.machines) = 1 THEN 0
        ELSE longest({op.wan.flights[m][op.home] : m \in others})
               + longest({op.wan.flights[op.home][m] : m \in others})

\* calcula_temps_operacio_global
OperationTimes(op) ==
    LET sum(F(_), slowest) == F(slowest.intra) + F(slowest.inter) + F(External(op))
        times(slowest) == [latency |-> sum(LatencyOf, slowest), resources |-> sum(TimeOf, slowest),
                           total |-> sum(TimeOf, slowest) + Flights(op)]
    IN  times(SlowestMachine(op))

-----------------------------------------------------------------------------
(* What start_global_op counts on, over bounded inputs.                    *)

\* compute_contention_stage: every member but the first is reached by one message,
\* one bus carries them one by one, a bus more never costs a stage, and with
\* enough of them, or no limit, there is a stage per doubling of the members.
StagesRight ==
    \A n \in 1 .. 20 :
        /\ MapThenSumSet(LAMBDA i : ParallelComms(i, n), 0 .. ProvideLog(n) - 1) = n - 1
        /\ ContentionStages(n, 1) = n - 1
        /\ ContentionStages(n, n) = ContentionStages(n, 0)
        /\ 2 ^ ContentionStages(n, 0) >= n /\ (n > 1 => 2 ^ (ContentionStages(n, 0) - 1) < n)
        /\ \A buses \in 1 .. 5 :
              ContentionStages(n, buses + 1) \in ContentionStages(n, 0) .. ContentionStages(n, buses)

Models == {"0", "CTE", "LIN", "LOG"}
UsedNodes == {<<[bandwidth |-> 1, localStartup |-> 2, tasks |-> 1]>>,
              <<[bandwidth |-> 2, localStartup |-> 1, tasks |-> 3],
                [bandwidth |-> 0, localStartup |-> 9, tasks |-> 2]>>}
SomeMachines(nodes) ==
    {m \in {[id |-> 1, numberOfNodes |-> n, bandwidth |-> b, buses |-> 1, model |-> m,
             remoteStartup |-> 3, externalStartup |-> 4, used |-> u] :
              n \in nodes, b \in {0, 3}, m \in Models, u \in UsedNodes} :
       Len(m.used) <= m.numberOfNodes}
Joined(machine, other) == <<machine, [other EXCEPT !.id = 2]>>
Operation(machines, model, home) ==
    [machines |-> machines, size |-> 4, sent |-> 1, received |-> 2, home |-> home,
     wan |-> [bandwidth |-> 1, function |-> "CONST", traffic |-> 0, model |-> model,
              flights |-> <<<<0, 5>>, <<7, 0>>>>]]

\* The resources are free before the operation ends, by the flights out and back
\* if it leaves the machine, and a latency is part of the time, or the thread
\* would end its startup after the operation.
OperationsEndLast ==
    \A m, k \in SomeMachines({1, 2}), wan \in {"CTE", "LIN"}, home \in {1, 2} :
        \A ms \in {<<m>>, Joined(m, k)} :
            \A t \in {OperationTimes(Operation(ms, wan, home))} :
                /\ t.latency <= t.resources
                /\ t.total = t.resources + (IF Len(ms) = 1 THEN 0 ELSE 12)

\* With machines of several nodes the operation takes the same whatever machine
\* reserves first, and no less than on one of them alone.
OrderIrrelevant ==
    LET cost(machines) == LET t == OperationTimes(Operation(machines, "LOG", 1))
                          IN  t.resources + t.latency
    IN  \A m, k \in SomeMachines({2}) :
            \A t \in {cost(Joined(m, k))} : t = cost(Joined(k, m)) /\ t >= cost(<<m>>)

\* Within a machine the operation takes what it takes on the slowest node.
SlowestNodeCounts ==
    \A m \in SomeMachines({2}) :
        LET op == Operation(<<m>>, "0", 1)
            weight == Weight(IntraNode(m, op))
            alone == {Weight(WithinNode(m, m.used[i], op)) : i \in DOMAIN m.used}
        IN  weight \in alone /\ \A w \in alone : w <= weight

CostsRight ==
    /\ MessageCostsRight
    /\ StagesRight
    /\ OperationsEndLast
    /\ OrderIrrelevant
    /\ SlowestNodeCounts
==============================================================================
