---------------------------- MODULE TraceMemory ----------------------------
(***************************************************************************)
(* How trace frames of different lengths lie in one piece of memory        *)
(* (gdb/gdbserver/tracepoint.c): one after another, found by adding up     *)
(* their lengths; the blocks of a frame may go on at the beginning when    *)
(* the end is reached.  gdbserver and the in-process agent are both built  *)
(* from this code.                                                         *)
(*                                                                         *)
(* A frame is a header and its blocks.  Behind the last frame is a header  *)
(* without a tracepoint.  Memory keeps what was in it before, so that the  *)
(* headers of frames that were dropped remain.                             *)
(***************************************************************************)
EXTENDS Integers, Sequences

CONSTANTS Size,       \* of the buffer
          Header,     \* size of struct traceframe, and of the marker of the end
          Blocks,     \* sizes of blocks
          MaxBlocks,  \* bound: blocks of a frame
          MaxFrames   \* bound: frames ever collected

ASSUME TraceMemoryAssumption ==
  /\ Header \in Nat \ {0} /\ Size \in Nat /\ Size >= Header
  /\ Blocks \subseteq Nat \ {0} /\ MaxBlocks \in Nat /\ MaxFrames \in Nat

lo == 0
hi == Size
Cells == lo..(hi - 1)

(* The first cell of a header, the k-th of a frame's data, of which the    *)
(* first one of a block tells the size of the block, and any other cell.   *)
TraceFrame(tp, size) == [tp |-> tp, size |-> size]
Datum(n, k, len) == [of |-> n, k |-> k, len |-> len]
Other == Datum(0, 0, 0)

EndMark == TraceFrame(0, 0)

(* What was never a header is not taken for the end.                       *)
HeaderAt(m, p) == IF "tp" \in DOMAIN m[p] THEN m[p] ELSE TraceFrame(-1, 0)

PutHeader(m, p, h) ==
  [c \in Cells |-> IF c = p THEN h ELSE IF c \in p..(p + Header - 1) THEN Other ELSE m[c]]
PutBlock(m, p, len, n, k) ==
  [c \in Cells |-> IF c \in p..(p + len - 1) THEN Datum(n, k + c - p, IF c = p THEN len ELSE 0) ELSE m[c]]

-----------------------------------------------------------------------------
(* trace_buffer_ctrl: where the frames start, where free space starts and  *)
(* ends, and where data goes on at the beginning.                          *)

Ctrl == [start : lo..hi, free : lo..hi, end_free : lo..hi, wrap : lo..hi]

Cleared == [start |-> lo, free |-> lo, end_free |-> hi, wrap |-> hi]
ClearedMemory == PutHeader([c \in Cells |-> Other], lo, EndMark)

(* Mutant: the wraparound is forgotten when frames are followed.           *)
NextIn_straight(m, ctl, p) == p + Header + HeaderAt(m, p).size

(* NEXT_TRACEFRAME.                                                        *)
NextIn(m, ctl, p) ==
  LET q == p + Header + HeaderAt(m, p).size
  IN  IF q >= ctl.wrap THEN q - (ctl.wrap - lo) ELSE q

(* The oldest frame goes; the next one is at next.                         *)
Without(ctl, next) ==
  [ctl EXCEPT !.start = next, !.end_free = next, !.wrap = IF next < ctl.start THEN hi ELSE @]

(* The search for space in trace_buffer_alloc.  With two free parts the    *)
(* upper one is tried first, and given up when it is too small.            *)
TwoParts(ctl) == ctl.end_free < ctl.free
UpperFits(ctl, amt) == TwoParts(ctl) /\ ctl.free + amt + Header <= hi

(* Mutant: the end of the data in the upper part is not remembered.        *)
Lower_unmarked(ctl) == IF TwoParts(ctl) THEN [ctl EXCEPT !.free = lo] ELSE ctl

Lower(ctl) == IF TwoParts(ctl) THEN [ctl EXCEPT !.wrap = ctl.free, !.free = lo] ELSE ctl
LowerFits(ctl, amt) == Lower(ctl).free + amt + Header <= Lower(ctl).end_free

Fits(ctl, amt) == UpperFits(ctl, amt) \/ LowerFits(ctl, amt)

(* The piece that is found is at Chosen(ctl, amt).free.                    *)
Chosen(ctl, amt) == IF UpperFits(ctl, amt) THEN ctl ELSE Lower(ctl)
Taken(ctl, amt) == [Chosen(ctl, amt) EXCEPT !.free = @ + amt]

-----------------------------------------------------------------------------
(* What a reader finds.                                                    *)

(* The place of the i-th frame from FIRST_TRACEFRAME on.                   *)
Place(m, ctl) ==
  LET at[i \in 1..(MaxFrames + 1)] == IF i = 1 THEN ctl.start ELSE NextIn(m, ctl, at[i - 1])
  IN  at

(* The cell of the k-th byte of the data of the frame at p; data goes on   *)
(* at the beginning behind the wraparound.                                 *)
DataCell(ctl, p, k) ==
  LET c == p + Header + k IN IF c >= ctl.wrap THEN c - (ctl.wrap - lo) ELSE c

Holds(m, c, n, k) == c \in Cells /\ \E len \in Blocks \cup {0} : m[c] = Datum(n, k, len)

(* The n-th frame is at p, with all of its data.                           *)
Intact(m, ctl, p, n) ==
  /\ p \in Cells
  /\ HeaderAt(m, p).tp = n
  /\ \A k \in 0..(HeaderAt(m, p).size - 1) : Holds(m, DataCell(ctl, p, k), n, k)
=============================================================================
