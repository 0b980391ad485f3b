---------------------------- MODULE TraceBuffer ----------------------------
(***************************************************************************)
(* The trace buffer of gdbserver (gdb/gdbserver/tracepoint.c), which only  *)
(* gdbserver uses.  When it is circular, the oldest frames make room for   *)
(* new ones.                                                               *)
(***************************************************************************)
EXTENDS TraceMemory

CONSTANTS Modes,   \* what the client sets circular-trace-buffer to during a run
          Counts   \* traceframe_write_count is an integer modulo this

ASSUME TraceBufferAssumption ==
  /\ Modes \subseteq BOOLEAN
  /\ Counts \in Nat /\ Counts > MaxFrames

VARIABLES mem,       \* the memory of the buffer
          ctl,       \* trace_buffer_ctrl: start, free, end_free and wrap
          count,     \* traceframe_write_count; frames are never read out of this buffer
          circular,  \* circular_trace_buffer
          frame,     \* the frame that is being collected
          made       \* history: the number of the last frame

vars == <<mem, ctl, count, circular, frame, made>>

-----------------------------------------------------------------------------
(* trace_buffer_alloc.                                                     *)

NoFrame == [on |-> FALSE, at |-> -1, want |-> 0, blocks |-> 0]
Allocating == frame.want > 0
Found == Allocating /\ Fits(ctl, frame.want)
NotFound == Allocating /\ ~Fits(ctl, frame.want)

(* The marker of the end goes behind the piece that is taken.              *)
Piece == Chosen(ctl, frame.want).free

(* Mutant: only a new frame is followed by a marker.                       *)
Marked_once(m) == IF frame.at = -1 THEN PutHeader(m, Piece + frame.want, EndMark) ELSE m

Marked(m) == PutHeader(m, Piece + frame.want, EndMark)

(* add_traceframe.                                                         *)
StartFrame ==
  /\ Found /\ frame.at = -1
  /\ ctl' = Taken(ctl, frame.want)
  /\ mem' = PutHeader(Marked(mem), Piece, TraceFrame(made + 1, 0))
  /\ frame' = [frame EXCEPT !.at = Piece, !.want = 0]
  /\ UNCHANGED <<count, circular, made>>

(* add_traceframe_block, and the data that its callers put into the block. *)
AddBlock ==
  /\ Found /\ frame.at # -1
  /\ ctl' = Taken(ctl, frame.want)
  /\ LET size == HeaderAt(mem, frame.at).size
         data == PutBlock(Marked(mem), Piece, frame.want, made + 1, size)
     IN  mem' = [data EXCEPT ![frame.at] = TraceFrame(made + 1, size + frame.want)]
  /\ frame' = [frame EXCEPT !.want = 0]
  /\ UNCHANGED <<count, circular, made>>

(* Mutant: a dropped frame still counts.                                   *)
Discard_counted ==
  /\ NotFound /\ circular
  /\ HeaderAt(mem, ctl.start).tp # 0
  /\ ctl' = Without(Lower(ctl), NextIn(mem, Lower(ctl), ctl.start))
  /\ UNCHANGED <<mem, count, circular, frame, made>>

(* Drop the oldest frame, and try again.                                   *)
Discard ==
  /\ NotFound /\ circular
  /\ HeaderAt(mem, ctl.start).tp # 0
  /\ ctl' = Without(Lower(ctl), NextIn(mem, Lower(ctl), ctl.start))
  /\ count' = (count + Counts - 1) % Counts
  /\ UNCHANGED <<mem, circular, frame, made>>

(* There is no room: no frame, or a block less.                            *)
NoRoom ==
  /\ NotFound
  /\ circular => HeaderAt(mem, ctl.start).tp = 0
  /\ ctl' = Lower(ctl)
  /\ frame' = IF frame.at = -1 THEN NoFrame ELSE [frame EXCEPT !.want = 0]
  /\ UNCHANGED <<mem, count, circular, made>>

-----------------------------------------------------------------------------
(* A tracepoint is hit while a run is on, or a frame of the in-process     *)
(* agent is uploaded, which happens also when the run is being stopped.    *)

Hit ==
  /\ ~frame.on
  /\ made < MaxFrames
  /\ frame' = [NoFrame EXCEPT !.on = TRUE, !.want = Header]
  /\ UNCHANGED <<mem, ctl, count, circular, made>>

(* An action of the tracepoint.                                            *)
Action(size) ==
  /\ frame.on /\ frame.at # -1 /\ ~Allocating
  /\ frame.blocks < MaxBlocks
  /\ frame' = [frame EXCEPT !.want = size, !.blocks = @ + 1]
  /\ UNCHANGED <<mem, ctl, count, circular, made>>

(* finish_traceframe.                                                      *)
Finish ==
  /\ frame.on /\ frame.at # -1 /\ ~Allocating
  /\ count' = (count + 1) % Counts
  /\ made' = made + 1
  /\ frame' = NoFrame
  /\ UNCHANGED <<mem, ctl, circular>>

(* Mutant: only the pointers are reset.                                    *)
Clear_unmarked ==
  /\ ~frame.on
  /\ ctl' = Cleared
  /\ count' = 0
  /\ UNCHANGED <<mem, circular, frame, made>>

(* A new run: clear_trace_buffer.                                          *)
Clear ==
  /\ ~frame.on
  /\ ctl' = Cleared
  /\ mem' = PutHeader(mem, lo, EndMark)
  /\ count' = 0
  /\ UNCHANGED <<circular, frame, made>>

(* QTBuffer:circular, which may come during a run.                         *)
SetCircular(val) ==
  /\ ~frame.on
  /\ circular' = val
  /\ UNCHANGED <<mem, ctl, count, frame, made>>

Init ==
  /\ mem = ClearedMemory
  /\ ctl = Cleared
  /\ count = 0
  /\ circular \in BOOLEAN
  /\ frame = NoFrame
  /\ made = 0

Next ==
  \/ Hit \/ StartFrame \/ AddBlock \/ Discard \/ NoRoom \/ Finish \/ Clear
  \/ \E size \in Blocks : Action(size)
  \/ \E val \in Modes : SetCircular(val)

Spec == Init /\ [][Next]_vars

-----------------------------------------------------------------------------
(* The pointers of trace_buffer_ctrl stay in the buffer, and a frame is    *)
(* started and filled inside it.                                           *)
TypeOK ==
  /\ ctl \in Ctrl
  /\ count \in 0..(Counts - 1)
  /\ circular \in BOOLEAN
  /\ frame \in [on : BOOLEAN, at : {-1} \cup Cells, want : {0, Header} \cup Blocks, blocks : 0..MaxBlocks]
  /\ made \in 0..MaxFrames

(* The place of the i-th frame.                                            *)
At(i) == Place(mem, ctl)[i]

(* Whatever was dropped and wherever the data is wrapped around, following *)
(* the frames, as find_traceframe does, finds as many as are counted, the  *)
(* last ones that were collected, with all of their data, and then the     *)
(* frame that is being collected.                                          *)
FramesIntact ==
  /\ count <= made
  /\ \A i \in 1..count : Intact(mem, ctl, At(i), made - count + i)
  /\ frame.at # -1 => At(count + 1) = frame.at /\ Intact(mem, ctl, frame.at, made + 1)

(* Who follows the frames comes to the marker of the end, and not to the   *)
(* header of a frame that was dropped: find_traceframe stops.              *)
EndMarked ==
  ~frame.on => At(count + 1) \in Cells /\ HeaderAt(mem, At(count + 1)) = EndMark

(* The buffer is a log that drops its oldest frames.                       *)
Log == INSTANCE TraceLog WITH frames <- [i \in 1..count |-> HeaderAt(mem, At(i)).tp]
IsLog == Log!Spec

-----------------------------------------------------------------------------
(* traceframe_walk_blocks: the cells at which it finds blocks, from ptr on *)
(* in data that is taken to be the size cells from base on.                *)
Walk ==
  LET walk[ptr \in Nat, base \in Nat, size \in Int] ==
        LET wrapped == ptr = ctl.wrap
            p == IF wrapped THEN lo ELSE ptr
        IN  IF ptr >= base + size \/ p \notin Cells THEN {}
            ELSE IF "tp" \in DOMAIN mem[p] \/ mem[p].len = 0 THEN {}
            ELSE {p} \cup (IF wrapped THEN walk[p + mem[p].len, lo, ptr - base]
                           ELSE walk[p + mem[p].len, base, size])
  IN  walk

BlocksFoundIn(p) == Walk[p + Header, p + Header, HeaderAt(mem, p).size]
BlocksOf(p) == {c \in {DataCell(ctl, p, k) : k \in 0..(HeaderAt(mem, p).size - 1)} : mem[c].len # 0}

(* The comment on traceframe_walk_blocks: "Walk over all traceframe        *)
(* blocks".                                                                *)
AllBlocksWalked == \A i \in 1..count : BlocksFoundIn(At(i)) = BlocksOf(At(i))
=============================================================================
