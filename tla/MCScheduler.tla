----------------------------- MODULE MCScheduler -----------------------------
(* Model-checking instances of the scheduler.                              *)
EXTENDS Scheduler

Ev == [op |-> "EVENT"]
Recv == [op |-> "RECV"]
SendTo(t) == [op |-> "SEND", to |-> t]
Global == [op |-> "GLOBAL"]

Priority(v) == [op |-> "PRIORITY", value |-> v]
Task(n) == [op |-> "TASK", value |-> n]

Sched(policy, quantum, switch, busy, preempt) ==
    [policy |-> policy, quantum |-> quantum, switch |-> switch, busy |-> busy,
     preempt |-> preempt]
Plain == {Sched("FIFO", 1, 0, FALSE, FALSE), Sched("FIFO", 1, 1, TRUE, FALSE),
          Sched("RR", 2, 0, FALSE, FALSE), Sched("RR", 2, 1, FALSE, FALSE),
          Sched("RR", 2, 0, TRUE, FALSE), Sched("PRIO", 1, 0, FALSE, FALSE)}
Changing == {Sched("SVR4", 1, 0, FALSE, FALSE), Sched("SVR4", 1, 1, TRUE, TRUE),
             Sched("BOOST", 2, 0, FALSE, FALSE)}
Preemptive == {Sched("SVR4", 3, 0, FALSE, TRUE), Sched("SVR4", 3, 1, FALSE, TRUE),
               Sched("SVR4", 3, 2, TRUE, TRUE)}
CriticalPath == Sched("SS", 1, 0, FALSE, FALSE)

\* Thread 2 is served first, 1 and 4 are equal.
MCPrio == <<1, 0, 2, 1>>

\* Any change reaches a bound.
MCBoost == [best |-> 0, worst |-> 2, first |-> -1, last |-> 1, sender |-> -1]

\* Threads that compute, send and receive, before and after a collective; some
\* receive in vain.
Programs(firstCalls, calls) ==
    LET first == {<<Work(1), x, Work(3), y, Global>> : x, y \in firstCalls}
        second == {<<Work(2), x, y, Global, SendTo(3)>> : x \in calls, y \in calls \ {Recv}}
        third == {<<Work(1), Recv, Work(2), Global, SendTo(2)>>,
                  <<Work(0), Global, Ev, Recv>>,
                  <<Work(2), Work(3), Ev, Global>>}
        fourth == <<Work(2), Ev, Ev, Work(1), Global, Work(1)>>
    IN  {<<p, q, r, fourth>> : p \in first, q \in second, r \in third}

\* Tasks with and without MPI: those with it preempt the others.
TaskPrograms ==
    {<<<<Work(0), Priority(1), Work(p), x, Global, Work(1)>>,
       <<Work(0), Priority(2), Task(7), Work(4), Work(2), Global, Task(8), Work(2)>>,
       <<Work(0), Priority(0), Work(1), Recv, Work(q), Global, Work(1)>>,
       <<Work(1), Priority(v), Task(9), Work(3), SendTo(3), Global, Recv>>>>
        : p \in 1 .. 4, q \in 1 .. 2, v \in {0, 3}, x \in {SendTo(3), SendTo(4)}}

\* A thread that used whole quanta is woken by a message while threads that did
\* not are running, switching or spinning.
WakePrograms ==
    {<<<<Work(a), Recv, Work(2), Global>>,
       <<Work(p), Ev, Work(8), SendTo(1), Work(3), Global, Work(1)>>,
       <<Work(1), Recv, Work(1), Recv, Work(1), Global>>,
       <<Work(q), SendTo(3), Work(3), Global>>>>
        : a \in {4, 8}, p \in 5 .. 10, q \in {4, 6, 9}}

MCSetups ==
    [conf : Plain, prog : Programs({Ev, SendTo(2), SendTo(3)}, {Ev, Recv, SendTo(3), Work(2)})]
      \cup [conf : Changing, prog : Programs({SendTo(2), SendTo(3)}, {Recv, SendTo(3), Work(2)})]
      \cup [conf : Preemptive, prog : WakePrograms]
      \cup [conf : {CriticalPath}, prog : TaskPrograms]
==============================================================================
