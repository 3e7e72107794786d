-------------------------------- MODULE MCList -------------------------------
(***************************************************************************)
(* Three cells for two plain queues, whose elements may be moved from one  *)
(* to the other, and a sorted queue.                                       *)
(***************************************************************************)
EXTENDS List, TLC

CONSTANTS busy, free, ready, a, b, c1, c2, c3

MCPlain == {busy, free}
MCSorted == {ready}
MCContents == {a, b}
MCPrios == 1 .. 2
MCCells == {c1, c2, c3}

\* Cells and contents are only compared, and so are the plain queues.
Symmetric == Permutations(MCCells) \cup Permutations(MCContents) \cup Permutations(MCPlain)
=============================================================================
