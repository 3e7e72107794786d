------------------------------ MODULE MCParaver ------------------------------
(* Model-checking instances of the output trace: two threads.              *)
EXTENDS Paraver

Tck == [op |-> "tick"]
St(t, kind) == [op |-> kind, who |-> t]
Dd(t) == [op |-> "dead", who |-> t]
Ev(t, v) == [op |-> "event", who |-> t, value |-> v]
Op(t) == [op |-> "start", who |-> t]
Cm(t, u, ls, ps, lr) == [op |-> "comm", who |-> t, to |-> u, logS |-> ls, phyS |-> ps, logR |-> lr]
Again == [op |-> "restart"]

\* What threads do: a burst, an operation in no time and one that waits, two at
\* a time, messages received at once, late, and before they were asked for.
Blocks == {
    <<Tck, St(1, "running")>>,
    <<Tck, St(2, "running"), Tck, St(1, "running")>>,
    <<Ev(1, 5), Op(1), Ev(1, 0)>>,
    <<Ev(2, 5), Ev(1, 6), Op(2), Op(1), Tck, St(1, "wait"), Ev(1, 0), St(2, "wait"), Ev(2, 0)>>,
    <<Ev(2, 7), Op(2), Tck, St(2, "overhead"), Tck, St(2, "wait"), Cm(1, 2, 2, 1, 2), Ev(2, 0)>>,
    <<Tck, St(1, "running"), Cm(1, 1, 1, 0, 0), Cm(2, 1, 0, 0, 1)>>}

Short == {a \o b \o c \o <<Dd(1), Dd(2)>> : a \in Blocks, b \in Blocks, c \in Blocks}

None == [from |-> NoTime, to |-> NoTime]
Windows == {None, [from |-> 1, to |-> NoTime], [from |-> NoTime, to |-> 2],
            [from |-> 1, to |-> 3], [from |-> 9, to |-> NoTime]}

Turn(i) == IF i % 3 = 0 THEN 2 ELSE 1
\* n records, for n or half of n temporary files; every other one is a message
\* that is older than the records before it.
Long(n) == FlattenSeq([i \in 1 .. n |->
               IF i % 2 = 0 THEN <<Ev(2, i), Op(2), Ev(2, 0), Cm(1, 2, (3 * i) \div 4, 0, 0)>>
                            ELSE <<Tck, Tck, St(Turn(i), IF i % 3 = 1 THEN "wait" ELSE "running")>>])

\* A deadlock before any event, with one temporary file at most.
Restarted == {<<Tck, St(1, "wait"), Tck, St(2, "running")>> \o <<Again>> \o Long(n) : n \in 1 .. 4}

MCInputs ==
    [max : {2}, window : Windows, prog : Short]
      \cup [max : {1, 2, 3}, window : {None}, prog : {Long(n) : n \in 1 .. 11}]
      \cup [max : {2, 3}, window : {None}, prog : Restarted]

==============================================================================
