------------------------------ MODULE TraceSort ------------------------------
(***************************************************************************)
(* The order of the output trace: Simulator/prv_utils/external_sort.cc and *)
(* the order of records of paraver_records.cc.  Records arrive in any      *)
(* order.  States and communications fill a buffer that is sorted and      *)
(* written to a temporary file each time it is full; at the end the files  *)
(* are merged in pairs, to and fro between two families of names, until    *)
(* one is left, which is merged with the file of events, taken to be       *)
(* sorted already.                                                         *)
(*                                                                         *)
(* One action per file operation, and one per record that a merge copies.  *)
(* A merge keeps what is left of its two files and of the buffers that     *)
(* read them; its output buffer is left out, it is always written whole.   *)
(***************************************************************************)
EXTENDS Integers, Sequences, SequencesExt, Functions, TLC

VARIABLES
    max,       \* MAX_IN_FLIGHT_RECORDS, in this execution
    buffer,    \* Records, up to CurrentRecord
    files,     \* the temporary files that exist: name -> records
    numFiles,  \* NumFiles
    side,      \* the family of names the sorted files have: "s", "A"
    ops,       \* operations on files still to be made
    merge,     \* the merge in course, or NoMerge
    phase,     \* "fill", "sort", "last", "end"
    trace,     \* the final trace
    died       \* a file could not be opened

sortVars == <<max, buffer, files, numFiles, side, ops, merge, phase, trace, died>>

-----------------------------------------------------------------------------
(* The order of records *)

PRV_STATE == 1
PRV_EVENT == 2
PRV_COMM == 3
PRV_STATE_RUN == 4

\* The last part of operator<, records of the same time and thread.
TypeBefore(a, b) ==
    CASE a = PRV_STATE_RUN -> b # PRV_EVENT
      [] a = PRV_EVENT -> TRUE
      [] a = PRV_STATE -> b = PRV_COMM
      [] a = PRV_COMM -> FALSE

\* operator<: `who' stands for application, task and thread.
Less(r, s) ==
    LET keys(x) == <<x.time, x.who, x.cpu>>
        differ == {i \in 1 .. 3 : keys(r)[i] # keys(s)[i]}
    IN  IF differ = {} THEN TypeBefore(r.type, s.type)
        ELSE \E i \in differ : /\ \A j \in differ : i <= j
                               /\ keys(r)[i] < keys(s)[i]

\* One step of an insertion: before the records that are not less, at the end.
Inserted(sorted, r) ==
    LET stay == {i \in DOMAIN sorted : ~Less(r, sorted[i])}
        at == IF stay = {} THEN 1 ELSE 1 + CHOOSE i \in stay : \A j \in stay : j <= i
    IN  InsertAt(sorted, at, r)

\* stable_sort, as an insertion.  The library inserts in each half of the buffer
\* and merges the halves, which may order records of one time in another way:
\* Less is no strict order of those, and no property asks for theirs.
Sorted(s) == FoldLeft(Inserted, <<>>, s)

-----------------------------------------------------------------------------
(* Files *)

EventsFile == <<"events", 0>>
AllFile == <<"all", 0>>
FinalTrace == <<"trace", 0>>
File(family, i) == <<family, i>>

NoMerge == [out |-> EventsFile]
Without(fs, name) == [f \in DOMAIN fs \ {name} |-> fs[f]]

Opened(fs, name) == name :> <<>> @@ fs

\* Init
SortInit ==
    /\ buffer = <<>> /\ numFiles = 0
    /\ files = EventsFile :> <<>> @@ File("s", 0) :> <<>>
    /\ side = "s" /\ ops = <<>> /\ merge = NoMerge
    /\ phase = "fill" /\ trace = <<>> /\ died = FALSE

\* FlushRecords
Flushed(fs) == Opened(File("s", numFiles) :> Sorted(buffer) @@ fs, File("s", numFiles + 1))

\* NewRecord, for one record or none: events go to their file at once, the
\* others to the buffer, which is flushed before if it is full.
NewRecords(rs) ==
    LET events == SelectSeq(rs, LAMBDA r : r.type = PRV_EVENT)
        others == SelectSeq(rs, LAMBDA r : r.type # PRV_EVENT)
        full == others # <<>> /\ Len(buffer) = max
        fs == [files EXCEPT ![EventsFile] = @ \o events]
    IN  /\ buffer' = IF full THEN others ELSE buffer \o others
        /\ files' = IF full THEN Flushed(fs) ELSE fs
        /\ numFiles' = IF full THEN numFiles + 1 ELSE numFiles

-----------------------------------------------------------------------------
(* The passes of SortStatesAndComms *)

Merge(a, b, to) == [op |-> "merge", of |-> <<a, b>>, to |-> to]
Rename(a, to) == [op |-> "rename", of |-> <<a>>, to |-> to]
Unlink(a) == [op |-> "unlink", of |-> <<a>>, to |-> a]

\* Mutant: only the first of the files is removed.
MergeAwayOne(a, b, to) == <<Merge(a, b, to), Unlink(a)>>

\* Merge two files and remove them.
MergeAway(a, b, to) == <<Merge(a, b, to), Unlink(a), Unlink(b)>>

\* One pass over n files of a family: forwards from "s" to "A", backwards from
\* "A" to "s".  An odd file is renamed.
Pass(n) ==
    LET pairs == n \div 2
        to == IF side = "s" THEN "A" ELSE "s"
        from(i) == File(side, IF side = "s" THEN i ELSE n - 1 - i)
    IN  [k \in 1 .. pairs |-> Merge(from(2 * k - 2), from(2 * k - 1), File(to, k - 1))]
          \o (IF n % 2 = 1 THEN <<Rename(from(n - 1), File(to, pairs))>> ELSE <<>>)
          \o [i \in 1 .. n |-> Unlink(File(side, i - 1))]

\* Mutant: passes are made until two files are left.
NextPassUntilTwo ==
    /\ phase = "sort" /\ ops = <<>> /\ merge = NoMerge /\ ~died
    /\ IF numFiles # 2
         THEN /\ ops' = Pass(numFiles)
              /\ numFiles' = (numFiles + 1) \div 2
              /\ side' = IF side = "s" THEN "A" ELSE "s"
              /\ UNCHANGED phase
         ELSE /\ ops' = IF numFiles = 2 THEN MergeAway(File(side, 0), File(side, 1), AllFile)
                        ELSE IF numFiles = 1 THEN <<Rename(File(side, 0), AllFile)>> ELSE <<>>
              /\ phase' = "last"
              /\ UNCHANGED <<numFiles, side>>
    /\ UNCHANGED <<max, buffer, files, merge, trace, died>>

\* The loop of SortStatesAndComms: passes until two files are left, which are
\* merged, or one, which is renamed.
NextPass ==
    /\ phase = "sort" /\ ops = <<>> /\ merge = NoMerge /\ ~died
    /\ IF numFiles > 2
         THEN /\ ops' = Pass(numFiles)
              /\ numFiles' = (numFiles + 1) \div 2
              /\ side' = IF side = "s" THEN "A" ELSE "s"
              /\ UNCHANGED phase
         ELSE /\ ops' = IF numFiles = 2 THEN MergeAway(File(side, 0), File(side, 1), AllFile)
                        ELSE IF numFiles = 1 THEN <<Rename(File(side, 0), AllFile)>> ELSE <<>>
              /\ phase' = "last"
              /\ UNCHANGED <<numFiles, side>>
    /\ UNCHANGED <<max, buffer, files, merge, trace, died>>

\* GenerateFinalTrace, after SortStatesAndComms: the events are merged in.
LastMerge ==
    /\ phase = "last" /\ ops = <<>> /\ merge = NoMerge /\ ~died
    /\ ops' = MergeAway(AllFile, EventsFile, FinalTrace)
    /\ phase' = "end"
    /\ UNCHANGED <<max, buffer, files, numFiles, side, merge, trace, died>>

\* The start of SortStatesAndComms: the last records are flushed, and the file
\* that FlushRecords has opened for the next ones is removed.
StartSort(fs) ==
    /\ LET n == IF buffer = <<>> THEN numFiles ELSE numFiles + 1 IN
       /\ files' = Without(IF buffer = <<>> THEN fs ELSE Flushed(fs), File("s", n))
       /\ numFiles' = n
    /\ phase' = "sort"
    /\ UNCHANGED <<max, buffer, side, ops, merge, trace, died>>

RenameOrUnlink ==
    /\ ops # <<>> /\ merge = NoMerge /\ ~died
    /\ LET o == Head(ops)
           a == o.of[1]
       IN  \/ /\ o.op = "unlink"
              /\ files' = Without(files, a) /\ UNCHANGED died
           \/ /\ o.op = "rename"
              /\ died' = (a \notin DOMAIN files)
              /\ files' = IF died' THEN files ELSE o.to :> files[a] @@ Without(files, a)
    /\ ops' = Tail(ops)
    /\ UNCHANGED <<max, buffer, numFiles, side, merge, phase, trace>>

-----------------------------------------------------------------------------
(* Merge *)

Side(s, more) == [rest |-> s, have |-> <<>>, more |-> more]

\* FillBuffer, when the buffer has been used up.  That there is no more is only
\* seen by a buffer that is not filled.
Filled(f) ==
    IF f.have # <<>> \/ ~f.more THEN f
    ELSE LET n == IF Len(f.rest) < max THEN Len(f.rest) ELSE max
         IN  [rest |-> SubSeq(f.rest, n + 1, Len(f.rest)), have |-> SubSeq(f.rest, 1, n),
              more |-> Len(f.rest) >= max]

OpenMerge ==
    /\ ops # <<>> /\ merge = NoMerge /\ ~died
    /\ Head(ops).op = "merge"
    /\ LET o == Head(ops) IN
       IF \E a \in ToSet(o.of) : a \notin DOMAIN files
         THEN died' = TRUE /\ UNCHANGED <<merge, files>>
         ELSE /\ merge' = [in |-> [i \in 1 .. 2 |-> Filled(Side(files[o.of[i]], TRUE))],
                           out |-> o.to, done |-> <<>>]
              /\ files' = IF o.to = FinalTrace THEN files ELSE Opened(files, o.to)
              /\ UNCHANGED died
    /\ ops' = Tail(ops)
    /\ UNCHANGED <<max, buffer, numFiles, side, phase, trace>>

\* The end of Merge: the output is complete.
Close ==
    /\ IF merge.out = FinalTrace
         THEN trace' = merge.done /\ UNCHANGED files
         ELSE files' = [files EXCEPT ![merge.out] = merge.done] /\ UNCHANGED trace
    /\ merge' = NoMerge

Used(f) == [f EXCEPT !.have = Tail(@)]

\* Mutant: what the second file has left is dropped when the first one ends.
CopyFirst ==
    /\ merge # NoMerge
    /\ \E a \in {Filled(merge.in[1])} : \E b \in {Filled(merge.in[2])} :
       IF a.have = <<>>
         THEN Close
         ELSE /\ merge' = IF b.have = <<>> \/ Less(Head(a.have), Head(b.have))
                            THEN [merge EXCEPT !.in = <<Used(a), b>>, !.done = Append(@, Head(a.have))]
                            ELSE [merge EXCEPT !.in = <<a, Used(b)>>, !.done = Append(@, Head(b.have))]
              /\ UNCHANGED <<trace, files>>
    /\ UNCHANGED <<max, buffer, numFiles, side, ops, phase, died>>

\* One turn of the loops of Merge: while both files have records the lesser
\* one is copied, the second file's when neither is less; then what one of them
\* has left.
Copy ==
    /\ merge # NoMerge
    /\ \E a \in {Filled(merge.in[1])} : \E b \in {Filled(merge.in[2])} :
       IF a.have = <<>> /\ b.have = <<>>
         THEN Close
         ELSE /\ merge' = IF b.have = <<>> \/ (a.have # <<>> /\ Less(Head(a.have), Head(b.have)))
                            THEN [merge EXCEPT !.in = <<Used(a), b>>, !.done = Append(@, Head(a.have))]
                            ELSE [merge EXCEPT !.in = <<a, Used(b)>>, !.done = Append(@, Head(b.have))]
              /\ UNCHANGED <<trace, files>>
    /\ UNCHANGED <<max, buffer, numFiles, side, ops, phase, died>>

SortNext == NextPass \/ LastMerge \/ RenameOrUnlink \/ OpenMerge \/ Copy
==============================================================================
