----------------------------- MODULE MCMemBreak -----------------------------
(* Small memories for TLC: a program of a few cells and a library of one.  *)
EXTENDS MemBreak

MCLib == {MaxAddr}
=============================================================================
