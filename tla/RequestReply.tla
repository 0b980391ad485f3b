---------------------------- MODULE RequestReply ----------------------------
(***************************************************************************)
(* What gdb takes the connection to gdbserver for: it asks one request at  *)
(* a time, gdbserver does what was asked last, and the answer gdb takes is *)
(* the one to the request it asked last.  A request may be done more than  *)
(* once, and gdb may give up waiting.                                      *)
(***************************************************************************)
EXTENDS Naturals

VARIABLES asked,    \* the number of the last request
          waiting,  \* does gdb wait for its answer?
          done,     \* the number of the request that gdbserver did last
          taken     \* the number of the request whose answer gdb took last

vars == <<asked, waiting, done, taken>>

Init == asked = 0 /\ waiting = FALSE /\ done = 0 /\ taken = 0

Ask ==
  /\ ~waiting
  /\ asked' = asked + 1
  /\ waiting' = TRUE
  /\ UNCHANGED <<done, taken>>

Do ==
  /\ waiting
  /\ done' = asked
  /\ UNCHANGED <<asked, waiting, taken>>

Take ==
  /\ waiting
  /\ done = asked
  /\ taken' = asked
  /\ waiting' = FALSE
  /\ UNCHANGED <<asked, done>>

GiveUp ==
  /\ waiting
  /\ waiting' = FALSE
  /\ UNCHANGED <<asked, done, taken>>

Next == Ask \/ Do \/ Take \/ GiveUp

Spec == Init /\ [][Next]_vars
=============================================================================
