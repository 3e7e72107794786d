----------------------------- MODULE MCTransfers -----------------------------
(* Model-checking instances of the resources of transfers: tasks 1 to 3 on *)
(* node 1 and task 4 on node 2 of machine 1, task 5 on machine 2 and task  *)
(* 6 on machine 3; a connection joins machines 1 and 2 for tag 7.          *)
EXTENDS Transfers

CONSTANTS m1, m2, m3, near, far

MCTasks == 1 .. 6
MCNodes == 1 .. 4
MCMachines == 1 .. 3
MCNodeOf == <<1, 1, 1, 2, 3, 4>>
MCMachineOf == <<1, 1, 2, 3>>
MCConnections ==
    <<[source |-> 2, destination |-> 1, tags |-> {7}, firstSize |-> 1, firstCond |-> 2,
       secondSize |-> 9, secondCond |-> 0, op |-> 0]>>

MCSpan == near :> {1, 2} @@ far :> {1, 2, 3}
MCComm == near :> 1 @@ far :> 2

Cluster(perTask, mem, acc, net) ==
    [mem |-> [n \in MCNodes |-> perTask],
     limit |-> [b \in {<<k, n>> : k \in {"mem", "acc"}, n \in MCNodes}
                       \cup {<<"net", k>> : k \in MCMachines} |->
                  CASE b[1] = "mem" -> mem [] b[1] = "acc" -> acc [] b[1] = "net" -> net]]

HalfDuplex == Cluster([in |-> 0, out |-> 1], 0, 1, 1)
FullDuplex == Cluster([in |-> 1, out |-> 1], 1, 0, 2)
MCConfigs == {HalfDuplex, FullDuplex}

From(a, b, tag, size) == [from |-> a, to |-> b, tag |-> tag, size |-> size]

\* Messages differ only in their description, so one order of them is enough.
Fill(path, users) ==
    {[mess |-> (m1 :> path[k[1]] @@ m2 :> path[k[2]] @@ m3 :> path[k[3]]),
      part |-> users] :
       k \in {f \in [1 .. 3 -> DOMAIN path] : \A i, j \in 1 .. 3 : i < j => f[i] <= f[j]}}

\* Within the node: memory links and bus, a message of a task to itself, its
\* accelerator.
InNode == <<From(1, 2, 0, 1), From(2, 1, 0, 1), From(2, 3, 0, 1), From(3, 1, 0, 1),
            From(1, 1, 0, 1), From(1, 1, 8, 1)>>
\* Between machines, with collectives: the connection in both directions, once
\* with a message too short for it, the wide area network and the buses.
Wide == <<From(1, 5, 0, 2), From(5, 4, 7, 1), From(6, 5, 0, 2)>>
Conn == <<From(1, 5, 7, 2), From(5, 1, 7, 5), From(1, 4, 0, 1)>>

\* Two messages beside two collectives; the third message does not take part.
Two(batches) == {b \in batches : b.mess[m2] = b.mess[m3]}

MCBatches == Fill(InNode, {m1, m2, m3}) \cup Two(Fill(Wide, {m1, m2, near, far}))
               \cup Fill(Wide, {m1, m2, m3, far}) \cup Fill(Conn, {m1, m2, m3, near})
==============================================================================
