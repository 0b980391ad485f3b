------------------------------ MODULE TraceLog ------------------------------
(***************************************************************************)
(* What a trace buffer promises: it holds the latest trace frames of a     *)
(* run, in the order in which they were collected.  A frame stays until    *)
(* the run is over, or until it is the oldest one and room is needed.      *)
(***************************************************************************)
EXTENDS Naturals, Sequences

VARIABLES frames,  \* the numbers of the frames
          made     \* how many frames were ever collected

vars == <<frames, made>>

Init == frames = <<>> /\ made = 0

Record ==
  /\ made' = made + 1
  /\ frames' = Append(frames, made + 1)

DropOldest ==
  /\ frames # <<>>
  /\ frames' = Tail(frames)
  /\ UNCHANGED made

Clear ==
  /\ frames' = <<>>
  /\ UNCHANGED made

Next == Record \/ DropOldest \/ Clear

Spec == Init /\ [][Next]_vars
=============================================================================
