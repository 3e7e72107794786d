--------------------------- MODULE MCAsyncReader ---------------------------
(* Model-checking instance of the asynchronous reader. *)
EXTENDS AsyncReader

\* Two threads with traces of different length, both longer than a buffer.
MCTraceLen == [t \in Threads |-> 4 + t]

=============================================================================
