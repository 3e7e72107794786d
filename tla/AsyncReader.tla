---------------------------- MODULE AsyncReader ----------------------------
(***************************************************************************)
(* The asynchronous trace reader of Dimemas (option --asynch-read).        *)
(*                                                                         *)
(* Simulator/input/read.c keeps one circular buffer of actions per         *)
(* simulated thread.  A pthread, "the reader" (READ_fill_buffer_asynch),   *)
(* decodes actions of the trace file and appends them; the simulation      *)
(* thread, "the simulator" (READ_get_next_action), removes them.  There is *)
(* no lock: the two share the head and tail indexes, the slots and the     *)
(* flag eof_reached.  Each access to one of these is a step of its own.    *)
(*                                                                         *)
(* Data abstraction: an action is its position in its thread's part of the *)
(* trace, 1..TraceLen[t]; NULL (0) is a C null pointer or A_NIL.           *)
(***************************************************************************)
EXTENDS Integers

CONSTANTS
    NThreads,    \* simulated threads of the (only) Ptask
    BSize,       \* bsize_per_thread, slots of every circular buffer
    Burst,       \* actions the reader appends per visit (10 in the code)
    TraceLen     \* TraceLen[t]: number of actions of thread t in the trace

Threads == 0 .. (NThreads - 1)
NULL == 0

ASSUME NThreadsAssumption == NThreads \in Nat \ {0}
\* READ_Init_asynch divides the memory by the number of threads; with a
\* single slot (tail + 1) % 1 = head always, and with none % divides by 0.
ASSUME BSizeAssumption == BSize \in Nat /\ BSize > 1
ASSUME BurstAssumption == Burst \in Nat \ {0}
\* SCHEDULER_Init refuses a thread "initialized without actions".
ASSUME TraceAssumption == TraceLen \in [Threads -> Nat \ {0}]

VARIABLES
    \* shared by the two threads
    buf,       \* action_buffer[t][s]
    head,      \* buffer_heads[t], written by the simulator only
    tail,      \* buffer_tails[t], written by the reader only
    eof,       \* thread->eof_reached, written by the reader only
    \* the reader
    pos,       \* cursor of thread t in the trace: actions decoded so far
    rpc,       \* where the reader is in its loop
    ri,        \* buffer_index, the thread being visited
    rk,        \* k, actions appended in this visit
    ract,      \* action, the one decoded and not yet stored
    ended,     \* nthreads_ended
    \* the simulator
    spc,       \* where READ_get_next_action is, "idle" outside it
    st,        \* the thread it was called for
    snew,      \* new_action, the one taken and not yet handed over
    action,    \* thread->action
    finished,  \* more_actions(t) has answered FALSE
    last       \* history: the last action handed to thread t

readerVars == <<rpc, ri, rk, ract, ended>>
simVars    == <<spc, st, snew, action, finished, last>>
vars == <<buf, head, tail, eof, pos, readerVars, simVars>>

TypeOK ==
    /\ buf \in [Threads -> [0 .. (BSize - 1) -> Nat]]
    /\ head \in [Threads -> 0 .. (BSize - 1)]
    /\ tail \in [Threads -> 0 .. (BSize - 1)]
    /\ eof \in [Threads -> BOOLEAN]
    /\ pos \in [Threads -> Nat]
    /\ rpc \in {"loop", "visit", "full", "read", "store", "publish", "done"}
    /\ ri \in 0 .. NThreads
    /\ rk \in 0 .. Burst
    /\ ract \in Nat
    /\ ended \in Nat
    /\ spc \in {"idle", "empty", "eof", "take", "advance"}
    /\ st \in Threads
    /\ snew \in Nat
    /\ action \in [Threads -> Nat]
    /\ finished \in [Threads -> BOOLEAN]
    /\ last \in [Threads -> Nat]

-----------------------------------------------------------------------------
\* READ_Init_asynch: every buffer receives the first action of its thread,
\* "in order to not stall the circular buffer", before the reader starts.
Init ==
    /\ buf = [t \in Threads |->
                [s \in 0 .. (BSize - 1) |-> IF s = 0 THEN 1 ELSE NULL]]
    /\ head = [t \in Threads |-> 0]
    /\ tail = [t \in Threads |-> 1]
    /\ eof = [t \in Threads |-> FALSE]
    /\ pos = [t \in Threads |-> 1]
    /\ rpc = "loop" /\ ri = 0 /\ rk = 0 /\ ract = NULL /\ ended = 0
    /\ spc = "idle" /\ st = 0 /\ snew = NULL
    /\ action = [t \in Threads |-> NULL]
    /\ finished = [t \in Threads |-> FALSE]
    /\ last = [t \in Threads |-> 0]

Succ(i) == (i + 1) % BSize

-----------------------------------------------------------------------------
(* The reader: READ_fill_buffer_asynch *)

\* while (nthreads > nthreads_ended): start a round over all the buffers.
ReaderLoop ==
    /\ rpc = "loop"
    /\ rpc' = IF NThreads > ended THEN "visit" ELSE "done"
    /\ ri' = 0
    /\ UNCHANGED <<buf, head, tail, eof, pos, rk, ract, ended, simVars>>

\* The next thread of the round: one whose trace is exhausted is passed by.
ReaderVisit ==
    /\ rpc = "visit"
    /\ \/ /\ ri = NThreads
          /\ rpc' = "loop" /\ UNCHANGED <<ri, rk>>
       \/ /\ ri < NThreads /\ eof[ri]
          /\ ri' = ri + 1 /\ UNCHANGED <<rpc, rk>>
       \/ /\ ri < NThreads /\ ~eof[ri]
          /\ rpc' = "full" /\ rk' = 0 /\ UNCHANGED ri
    /\ UNCHANGED <<buf, head, tail, eof, pos, ract, ended, simVars>>

NextVisit == rpc' = "visit" /\ ri' = ri + 1

\* Mutant: the full buffer is not recognised.
ReaderTestFullUnchecked ==
    /\ rpc = "full"
    /\ IF rk = Burst THEN NextVisit ELSE rpc' = "read" /\ UNCHANGED ri
    /\ UNCHANGED <<buf, head, tail, eof, pos, rk, ract, ended, simVars>>

\* "Instead of waiting, let's see for the next thread": leave a full buffer.
ReaderTestFull ==
    /\ rpc = "full"
    /\ IF rk = Burst \/ Succ(tail[ri]) = head[ri]
         THEN NextVisit
         ELSE rpc' = "read" /\ UNCHANGED ri
    /\ UNCHANGED <<buf, head, tail, eof, pos, rk, ract, ended, simVars>>

\* Mutants: the end of the trace is not flagged; it is not counted.
ReaderReadNoEof ==
    /\ rpc = "read"
    /\ IF pos[ri] < TraceLen[ri]
         THEN /\ pos' = [pos EXCEPT ![ri] = @ + 1]
              /\ ract' = pos[ri] + 1
              /\ rpc' = "store" /\ UNCHANGED ri
         ELSE NextVisit /\ UNCHANGED <<pos, ract>>
    /\ UNCHANGED <<buf, head, tail, eof, ended, rk, simVars>>

\* _get_next_action: decode one action, or find the end of the thread's trace.
ReaderRead ==
    /\ rpc = "read"
    /\ \/ /\ pos[ri] < TraceLen[ri]
          /\ pos' = [pos EXCEPT ![ri] = @ + 1]
          /\ ract' = pos[ri] + 1
          /\ rpc' = "store"
          /\ UNCHANGED <<eof, ri, ended>>
       \/ /\ pos[ri] >= TraceLen[ri]
          /\ eof' = [eof EXCEPT ![ri] = TRUE]
          /\ ended' = ended + 1
          /\ NextVisit
          /\ UNCHANGED <<pos, ract>>
    /\ UNCHANGED <<buf, head, tail, rk, simVars>>

ReaderStore ==
    /\ rpc = "store"
    /\ buf' = [buf EXCEPT ![ri][tail[ri]] = ract]
    /\ rpc' = "publish"
    /\ UNCHANGED <<head, tail, eof, pos, ri, rk, ract, ended, simVars>>

\* Mutant: the tail runs past the end of the buffer.
ReaderPublishNoWrap ==
    /\ rpc = "publish"
    /\ tail' = [tail EXCEPT ![ri] = @ + 1]
    /\ rk' = rk + 1
    /\ rpc' = "full"
    /\ UNCHANGED <<buf, head, eof, pos, ri, ract, ended, simVars>>

ReaderPublish ==
    /\ rpc = "publish"
    /\ tail' = [tail EXCEPT ![ri] = Succ(@)]
    /\ rk' = rk + 1
    /\ rpc' = "full"
    /\ UNCHANGED <<buf, head, eof, pos, ri, ract, ended, simVars>>

Reader == \/ ReaderLoop \/ ReaderVisit \/ ReaderTestFull
          \/ ReaderRead \/ ReaderStore \/ ReaderPublish

-----------------------------------------------------------------------------
(* The simulator: more_actions and READ_get_next_action *)

\* more_actions(t), or the loading loop of TASK_Init, with thread->action NULL.
GetNextAction(t) ==
    /\ spc = "idle"
    /\ action[t] = NULL /\ ~finished[t]
    /\ st' = t
    /\ spc' = "empty"
    /\ UNCHANGED <<buf, head, tail, eof, pos, readerVars,
                   snew, action, finished, last>>

\* while (*head == *tail)
TestEmpty ==
    /\ spc = "empty"
    /\ spc' = IF head[st] = tail[st] THEN "eof" ELSE "take"
    /\ UNCHANGED <<buf, head, tail, eof, pos, readerVars,
                   st, snew, action, finished, last>>

\* if (thread->eof_reached): A_NIL, which ends the thread; else spin.
TestEof ==
    /\ spc = "eof"
    /\ spc' = IF eof[st] THEN "idle" ELSE "empty"
    /\ finished' = [finished EXCEPT ![st] = eof[st]]
    /\ UNCHANGED <<buf, head, tail, eof, pos, readerVars,
                   st, snew, action, last>>

\* Mutant: the slot is read past the head, as after advancing it.
TakeAfterAdvance ==
    /\ spc = "take"
    /\ snew' = buf[st][Succ(head[st])]
    /\ spc' = "advance"
    /\ UNCHANGED <<buf, head, tail, eof, pos, readerVars,
                   st, action, finished, last>>

Take ==
    /\ spc = "take"
    /\ snew' = buf[st][head[st]]
    /\ spc' = "advance"
    /\ UNCHANGED <<buf, head, tail, eof, pos, readerVars,
                   st, action, finished, last>>

Advance ==
    /\ spc = "advance"
    /\ head' = [head EXCEPT ![st] = Succ(@)]
    /\ action' = [action EXCEPT ![st] = snew]
    /\ last' = [last EXCEPT ![st] = snew]
    /\ spc' = "idle"
    /\ UNCHANGED <<buf, tail, eof, pos, readerVars, st, snew, finished>>

\* The scheduler carries the action out and drops it: thread->action = NULL.
Execute(t) ==
    /\ spc = "idle"
    /\ action[t] # NULL
    /\ action' = [action EXCEPT ![t] = NULL]
    /\ UNCHANGED <<buf, head, tail, eof, pos, readerVars,
                   spc, st, snew, finished, last>>

Simulator == \/ TestEmpty \/ TestEof \/ Take \/ Advance
             \/ \E t \in Threads : GetNextAction(t) \/ Execute(t)

Next == Reader \/ Simulator

\* Both are threads of one process that the operating system keeps running.
Fairness == WF_vars(Reader) /\ WF_vars(Simulator)

Spec == Init /\ [][Next]_vars /\ Fairness

-----------------------------------------------------------------------------
(* Properties *)

\* Actions of t published to the simulator: all that were decoded but the one
\* the reader still holds.
Stored(t) == IF rpc \in {"store", "publish"} /\ ri = t THEN pos[t] - 1
             ELSE pos[t]

\* The slots from head to tail hold, in order, exactly the actions that were
\* decoded and not yet handed over: the lock-free reader never overwrites an
\* action the simulator has not taken.
Window(t) ==
    /\ Stored(t) - last[t] \in 0 .. (BSize - 1)
    /\ head[t] = last[t] % BSize
    /\ tail[t] = Stored(t) % BSize
    /\ \A k \in (last[t] + 1) .. Stored(t) : buf[t][(k - 1) % BSize] = k

WindowIntact == \A t \in Threads : Window(t)

\* A thread receives the actions of the trace one after the other: none is
\* lost, repeated or swapped between two that are handed over.
HandedInOrder == [][\A t \in Threads :
                      last'[t] # last[t] => last'[t] = last[t] + 1]_vars

\* READ_get_next_action always returns: the spin on an empty buffer ends.
EveryCallReturns == (spc # "idle") ~> (spc = "idle")

\* The reader pthread ends, with every trace read to its end.
ReaderEnds == <>[](rpc = "done" /\ \A t \in Threads : pos[t] = TraceLen[t])

\* Reading ahead never hangs: the calls of the simulator return although the
\* reader may be busy with other threads, and the reader ends its traces.
ReadToTheEnd == EveryCallReturns /\ ReaderEnds
=============================================================================
