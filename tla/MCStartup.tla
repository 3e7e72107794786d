------------------------------- MODULE MCStartup -------------------------------
(* Model-checking instances of the start of the simulator: command lines     *)
(* and small configuration files, whose lines are read in every order.       *)
EXTENDS Startup

Wan(m, c) == [kind |-> "wan", ok |-> TRUE, machines |-> m, conns |-> c]
Env(m, n) == [kind |-> "env", ok |-> TRUE, machine |-> m, nodes |-> n, bw |-> 7]
Node(m, cpus, in, out) ==
    [kind |-> "node", form |-> 14, ok |-> TRUE, machine |-> m, cpus |-> cpus,
     in |-> in, out |-> out, startup |-> 3, wan |-> 4]
OldNode(m, cpus) == [Node(m, cpus, 1, 1) EXCEPT !.form = 11]
Multi(m, k, cpus) ==
    [kind |-> "multi", ok |-> TRUE, machine |-> m, count |-> k, cpus |-> cpus,
     in |-> 1, out |-> 0, startup |-> 5, wan |-> 6]
Acc(i) == [kind |-> "acc", ok |-> TRUE, node |-> i]
Conn(i) == [kind |-> "dedicated", ok |-> TRUE, id |-> i, src |-> 0, dst |-> 1]
Files(named) == [kind |-> "files", ok |-> TRUE, named |-> named]
Map(trace, map) ==
    [kind |-> IF map.kind = "explicit" THEN "map" ELSE "predef", ok |-> TRUE, trace |-> trace, map |-> map]
Bad(r) == [r EXCEPT !.ok = FALSE]
Unknown == [kind |-> "unknown", ok |-> TRUE]
Modules == [kind |-> "modules", ok |-> TRUE]
FileSystem == [kind |-> "fs", ok |-> TRUE]

Fill == [kind |-> "fill"]
Inter == [kind |-> "inter"]
PerNode(n) == [kind |-> "n", n |-> n]
Explicit(s) == [kind |-> "explicit", nodes |-> s]

MCTraces == [one |-> [tasks |-> 1, acc |-> {}, work |-> TRUE],
             three |-> [tasks |-> 3, acc |-> {}, work |-> TRUE],
             five |-> [tasks |-> 5, acc |-> {}, work |-> TRUE],
             gpuFirst |-> [tasks |-> 3, acc |-> {0}, work |-> TRUE],
             gpuLast |-> [tasks |-> 4, acc |-> {1, 3}, work |-> TRUE],
             sends |-> [tasks |-> 1, acc |-> {}, work |-> FALSE]]

NoOpts == [dim |-> "none", map |-> NoMap, lat |-> Unset, bw |-> Unset, sched |-> FALSE]
Run(opts, records) == [opts |-> opts, records |-> records]

\* Two machines with different nodes, a connection and an accelerator.
Grid(last) == <<Wan(2, 1), Conn(0), Env(0, 1), Env(1, 2), Node(0, 2, 1, 1),
                Node(1, 1, 0, 2), Node(1, 3, 0, 0), last>>
\* One machine, with every map.
Cluster(accs, map) ==
    <<Wan(1, 0), Env(0, 3), Node(0, 2, 1, 0), Multi(0, 2, 1)>> \o accs \o <<map>>
Maps == {Fill, Inter, PerNode(1), PerNode(2), PerNode(3), Explicit(<<0, 2, 1, 1, 0>>)}

\* Files with a mistake: a line missing, repeated, wrong, or of the old format.
Wrong == {<<Wan(1, 0), Env(0, 2), Node(0, 1, 1, 1), Map("one", Fill)>>,
          <<Wan(1, 0), Env(0, 1), Multi(0, 2, 1), Map("one", Fill)>>,
          <<Wan(2, 0), Env(0, 1), Env(0, 1), Multi(0, 1, 1), Map("one", Fill)>>,
          <<Wan(2, 2), Env(0, 1), Env(1, 1), Node(0, 1, 1, 1), OldNode(1, 1), Conn(0), Conn(0)>>,
          <<Wan(1, 0), Env(0, 1), Node(0, 1, 1, 1), Node(0, 1, 1, 1), Map("one", Fill)>>,
          <<Wan(1, 1), Env(0, 1), Node(0, 1, 1, 1), Map("one", Fill)>>,
          <<Wan(1, 0), Env(0, 1), Node(0, 1, 1, 1), Map("one", Explicit(<<5>>))>>,
          <<Wan(1, 0), Env(0, 1), Node(0, 1, 1, 1), Map("five", Explicit(<<0>>))>>,
          <<Wan(1, 0), Env(0, 1), Node(0, 1, 1, 1), Map("sends", Explicit(<<0>>))>>,
          <<Wan(1, 0), Env(0, 1), Node(0, 1, 1, 1), Map("lost", Fill)>>,
          <<Wan(1, 0), Env(0, 1), Node(0, 1, 1, 1), Map("lost", Explicit(<<0>>))>>,
          <<Wan(1, 0), Env(0, 1), Node(0, 1, 1, 1), Files(TRUE), Unknown>>,
          <<Bad(Wan(1, 0)), Bad(Env(0, 1)), Bad(Node(0, 1, 1, 1)), Bad(Multi(0, 1, 1)), Bad(Acc(0)), Bad(Conn(0)),
            Bad(Files(FALSE)), Bad(Map("one", Fill)),
            Bad(Map("one", Explicit(<<0>>))), Bad(Modules), Bad(FileSystem)>>}

Options == {[NoOpts EXCEPT !.lat = 9, !.bw = 8],
            [NoOpts EXCEPT !.dim = "five", !.map = PerNode(2), !.sched = TRUE]}

TwoApplications(m1, m2) ==
    <<Wan(1, 0), Multi(0, 2, 3), Env(0, 2), Map("three", m1), Map("one", m2)>>

MCInvocations ==
    {Run(NoOpts, Grid(r)) : r \in {Acc(1), Map("five", Fill), Map("three", Explicit(<<2, 0, 1>>))}}
    \cup {Run(NoOpts, Cluster(<<>>, Map(t, m))) : t \in {"one", "three", "five"}, m \in Maps}
    \cup {Run(NoOpts, Cluster(<<Acc(2)>>, Map("gpuFirst", m))) : m \in Maps}
    \cup {Run(NoOpts, Cluster(<<Acc(0), Acc(2)>>, Map("gpuLast", m))) : m \in Maps}
    \cup {Run(NoOpts, Cluster(<<Acc(0)>>, Map("gpuLast", m))) : m \in {Fill, Explicit(<<0, 0, 0, 0>>)}}
    \cup {Run(o, Cluster(<<Files(TRUE), Modules, FileSystem>>, Map(t, Fill))) : o \in Options, t \in {"one", "none"}}
    \cup {Run(o, Cluster(<<Files(TRUE)>>, Map("one", Explicit(<<1>>)))) : o \in Options}
    \cup {Run(NoOpts, f) : f \in Wrong}
    \cup {Run(NoOpts, TwoApplications(m1, m2)) : m1, m2 \in {Fill, Explicit(<<0, 1, 1>>)}}
    \cup {Run(NoOpts, TwoApplications(Explicit(<<0, 1, 1>>), PerNode(2)))}
================================================================================
