--------------------------- MODULE MCMemBreakFork ---------------------------
(* Small memories for TLC, with forks.                                     *)
EXTENDS MemBreakFork

MCLib == {MaxAddr}
=============================================================================
