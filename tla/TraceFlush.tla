----------------------------- MODULE TraceFlush -----------------------------
(***************************************************************************)
(* The trace buffer that a thread of the program fills in the in-process   *)
(* agent while gdbserver empties it (gdb/gdbserver/tracepoint.c).  No lock *)
(* is shared.  The agent builds a new trace_buffer_ctrl next to the live   *)
(* one and commits it by exchanging a token; gdbserver overwrites the      *)
(* token and the live one, and the agent finds out and tries again.  What  *)
(* makes that sound is a breakpoint, about_to_request_buffer_space, at the *)
(* beginning and at the end of the agent's attempt, which gdbserver sets   *)
(* while it is at it.                                                      *)
(*                                                                         *)
(* One thread is in gdb_collect at a time: the jump pads take a lock.      *)
(* Steps of gdbserver are the reads and writes of the program's memory.    *)
(***************************************************************************)
EXTENDS TraceMemory

CONSTANT Counters   \* the counters of the token are integers modulo this

ASSUME TraceFlushAssumption == Counters \in Nat /\ Counters > 1

VARIABLES
  (* The memory of the program. *)
  mem,      \* the buffer
  ctrl,     \* trace_buffer_ctrl[0..2]
  token,    \* trace_buffer_ctrl_curr
  wrote,    \* traceframe_write_count
  read,     \* traceframe_read_count
  tracing,  \* tracing, of the agent and of gdbserver
  bkpt,     \* is a breakpoint at about_to_request_buffer_space?
  (* The thread that collects, and gdbserver. *)
  ipa,
  gs,
  uploaded, \* the frames in gdbserver's buffer
  made      \* history: the number of the last frame

vars == <<mem, ctrl, token, wrote, read, tracing, bkpt, ipa, gs, uploaded, made>>

-----------------------------------------------------------------------------
(* The token: which trace_buffer_ctrl is live (idx), whether gdbserver was *)
(* the last to write it (gsb), its counter (cc), and the counter of the    *)
(* token that it replaced (pc).                                            *)

Bump(n) == (n + 1) % Counters

(* The token with which the agent commits what it built next to prev.      *)
Commit(prev) == [gsb |-> FALSE, pc |-> prev.cc, cc |-> Bump(prev.cc), idx |-> (prev.idx + 1) % 3]

(* Mutant: the update does not tell which commit it has seen.              *)
Stamp_unseen(old) == [gsb |-> TRUE, pc |-> Bump(old.cc), cc |-> Bump(old.cc), idx |-> old.idx]

(* The token with which gdbserver says that it was there.                  *)
Stamp(old) == [gsb |-> TRUE, pc |-> old.cc, cc |-> Bump(old.cc), idx |-> old.idx]

(* Mutant: only its own token tells the agent that its commit counts.      *)
Effective_own(refetch, prev) == refetch = Commit(prev)

(* Mutant: any later token will do.                                        *)
Effective_any(refetch, prev) == refetch = Commit(prev) \/ refetch.gsb

Effective(refetch, prev) == refetch = Commit(prev) \/ refetch.pc = Commit(prev).cc

-----------------------------------------------------------------------------
(* The agent.                                                              *)

(* Where the thread is; the frame, what it asks for, and what it found.    *)
Idle == [pc |-> "idle", at |-> -1, want |-> 0, blocks |-> 0, prev |-> token, piece |-> 0]
Curr == Commit(ipa.prev).idx

(* gdbserver may stop it anywhere, for a while.                            *)
Runs(pc) == ipa.pc = pc /\ ~gs.paused

(* gdb_collect, collect_data_at_tracepoint: add_traceframe.                *)
Hit ==
  /\ Runs("idle") /\ tracing
  /\ made < MaxFrames
  /\ ipa' = [Idle EXCEPT !.pc = "read", !.want = Header]
  /\ UNCHANGED <<mem, ctrl, token, wrote, read, tracing, bkpt, gs, uploaded, made>>

(* An action of the tracepoint: add_traceframe_block.                      *)
Action(size) ==
  /\ Runs("collect")
  /\ ipa.blocks < MaxBlocks
  /\ ipa' = [ipa EXCEPT !.pc = "read", !.want = size, !.blocks = @ + 1]
  /\ UNCHANGED <<mem, ctrl, token, wrote, read, tracing, bkpt, gs, uploaded, made>>

(* finish_traceframe.                                                      *)
Finish ==
  /\ Runs("collect")
  /\ wrote' = wrote + 1
  /\ made' = made + 1
  /\ ipa' = Idle
  /\ UNCHANGED <<mem, ctrl, token, read, tracing, bkpt, gs, uploaded>>

(* trace_buffer_alloc, step by step.                                       *)
ReadToken ==
  /\ Runs("read")
  /\ ipa' = [ipa EXCEPT !.prev = token, !.pc = "enter"]
  /\ UNCHANGED <<mem, ctrl, token, wrote, read, tracing, bkpt, gs, uploaded, made>>

(* about_to_request_buffer_space, where a thread is held.                  *)
Pass(from, to) ==
  /\ Runs(from) /\ ~bkpt
  /\ ipa' = [ipa EXCEPT !.pc = to]
  /\ UNCHANGED <<mem, ctrl, token, wrote, read, tracing, bkpt, gs, uploaded, made>>

CopyCtrl ==
  /\ Runs("copy")
  /\ ctrl' = [ctrl EXCEPT ![Curr] = ctrl[ipa.prev.idx]]
  /\ ipa' = [ipa EXCEPT !.pc = "find"]
  /\ UNCHANGED <<mem, token, wrote, read, tracing, bkpt, gs, uploaded, made>>

FindSpace ==
  /\ Runs("find")
  /\ Fits(ctrl[Curr], ipa.want)
  /\ ctrl' = [ctrl EXCEPT ![Curr] = Taken(@, ipa.want)]
  /\ ipa' = [ipa EXCEPT !.piece = Chosen(ctrl[Curr], ipa.want).free, !.pc = "commit"]
  /\ UNCHANGED <<mem, token, wrote, read, tracing, bkpt, gs, uploaded, made>>

NoSpace ==
  /\ Runs("find")
  /\ ~Fits(ctrl[Curr], ipa.want)
  /\ ctrl' = [ctrl EXCEPT ![Curr] = Lower(@)]
  /\ ipa' = [ipa EXCEPT !.pc = "flush"]
  /\ UNCHANGED <<mem, token, wrote, read, tracing, bkpt, gs, uploaded, made>>

(* cmpxchg.                                                                *)
CommitToken ==
  /\ Runs("commit")
  /\ IF token = ipa.prev
     THEN token' = Commit(ipa.prev) /\ ipa' = [ipa EXCEPT !.pc = "leave"]
     ELSE token' = token /\ ipa' = [ipa EXCEPT !.pc = "read"]
  /\ UNCHANGED <<mem, ctrl, wrote, read, tracing, bkpt, gs, uploaded, made>>

CheckToken ==
  /\ Runs("check")
  /\ ipa' = [ipa EXCEPT !.pc = IF Effective(token, ipa.prev) THEN "mark" ELSE "read"]
  /\ UNCHANGED <<mem, ctrl, token, wrote, read, tracing, bkpt, gs, uploaded, made>>

(* The marker of the end, behind the piece.                                *)
MarkEnd ==
  /\ Runs("mark")
  /\ mem' = PutHeader(mem, ctrl[Curr].free, EndMark)
  /\ ipa' = [ipa EXCEPT !.pc = "fill"]
  /\ UNCHANGED <<ctrl, token, wrote, read, tracing, bkpt, gs, uploaded, made>>

(* The header of a new frame, or a block and the new size of its frame.    *)
Fill ==
  /\ Runs("fill")
  /\ IF ipa.at = -1
     THEN mem' = PutHeader(mem, ipa.piece, TraceFrame(made + 1, 0))
     ELSE LET size == HeaderAt(mem, ipa.at).size
              data == PutBlock(mem, ipa.piece, ipa.want, made + 1, size)
          IN  mem' = [data EXCEPT ![ipa.at] = TraceFrame(made + 1, size + ipa.want)]
  /\ ipa' = [ipa EXCEPT !.at = IF @ = -1 THEN ipa.piece ELSE @, !.want = 0, !.pc = "collect"]
  /\ UNCHANGED <<ctrl, token, wrote, read, tracing, bkpt, gs, uploaded, made>>

(* flush_trace_buffer has no breakpoint when no trace run is on.           *)
PassFlush ==
  /\ Runs("flush") /\ ~tracing
  /\ ipa' = [ipa EXCEPT !.pc = "flushed"]
  /\ UNCHANGED <<mem, ctrl, token, wrote, read, tracing, bkpt, gs, uploaded, made>>

(* Try again, unless the run was cancelled: then there is no frame, or a   *)
(* block less.                                                             *)
Flushed ==
  /\ Runs("flushed")
  /\ ipa' = IF tracing THEN [ipa EXCEPT !.pc = "read"]
            ELSE IF ipa.at = -1 THEN Idle
            ELSE [ipa EXCEPT !.want = 0, !.pc = "collect"]
  /\ UNCHANGED <<mem, ctrl, token, wrote, read, tracing, bkpt, gs, uploaded, made>>

-----------------------------------------------------------------------------
(* gdbserver: upload_fast_traceframes.                                     *)

(* Where it is, whether it has paused the threads, whether the thread is   *)
(* stopped in flush_trace_buffer; the old token, its copies of the counts  *)
(* and of the live trace_buffer_ctrl.                                      *)
Resting == [pc |-> "rest", paused |-> FALSE, flush |-> FALSE, tok |-> token,
            w |-> 0, r |-> 0, ctrl |-> Cleared]
NothingNew == wrote = read

(* The counts are first looked at while the thread goes on.                *)
Begin(paused, flush) ==
  /\ ~NothingNew
  /\ gs' = [Resting EXCEPT !.pc = "bkpt", !.paused = paused, !.flush = flush]

(* A thread has hit any breakpoint; the others go on.                      *)
Event ==
  /\ gs.pc = "rest"
  /\ Begin(FALSE, FALSE)
  /\ UNCHANGED <<mem, ctrl, token, wrote, read, tracing, bkpt, ipa, uploaded, made>>

(* The thread has hit the breakpoint in flush_trace_buffer.                *)
FlushEvent ==
  /\ gs.pc = "rest" /\ ipa.pc = "flush" /\ tracing
  /\ IF NothingNew
     THEN ipa' = [ipa EXCEPT !.pc = "flushed"] /\ gs' = gs
     ELSE Begin(FALSE, TRUE) /\ ipa' = ipa
  /\ UNCHANGED <<mem, ctrl, token, wrote, read, tracing, bkpt, uploaded, made>>

(* QTStatus pauses all threads.                                            *)
Status ==
  /\ gs.pc = "rest"
  /\ Begin(TRUE, FALSE)
  /\ UNCHANGED <<mem, ctrl, token, wrote, read, tracing, bkpt, ipa, uploaded, made>>

(* So does stop_tracing, which stops the run first.                        *)
StopTracing ==
  /\ gs.pc = "rest" /\ tracing
  /\ tracing' = FALSE
  /\ gs' = IF NothingNew THEN gs ELSE [Resting EXCEPT !.pc = "bkpt", !.paused = TRUE]
  /\ UNCHANGED <<mem, ctrl, token, wrote, read, bkpt, ipa, uploaded, made>>

SetBkpt ==
  /\ gs.pc = "bkpt"
  /\ bkpt' = TRUE
  /\ gs' = [gs EXCEPT !.pc = "token"]
  /\ UNCHANGED <<mem, ctrl, token, wrote, read, tracing, ipa, uploaded, made>>

GetToken ==
  /\ gs.pc = "token"
  /\ gs' = [gs EXCEPT !.tok = token, !.pc = "stamp"]
  /\ UNCHANGED <<mem, ctrl, token, wrote, read, tracing, bkpt, ipa, uploaded, made>>

(* gdbserver always wins.                                                  *)
StampToken ==
  /\ gs.pc = "stamp"
  /\ token' = Stamp(gs.tok)
  /\ gs' = [gs EXCEPT !.pc = "counts"]
  /\ UNCHANGED <<mem, ctrl, wrote, read, tracing, bkpt, ipa, uploaded, made>>

(* The counts again: the thread may have finished a frame since.           *)
GetCounts ==
  /\ gs.pc = "counts"
  /\ gs' = [gs EXCEPT !.w = wrote, !.r = read, !.pc = "ctrl"]
  /\ UNCHANGED <<mem, ctrl, token, wrote, read, tracing, bkpt, ipa, uploaded, made>>

GetCtrl ==
  /\ gs.pc = "ctrl"
  /\ gs' = [gs EXCEPT !.ctrl = ctrl[gs.tok.idx], !.pc = "copy"]
  /\ UNCHANGED <<mem, ctrl, token, wrote, read, tracing, bkpt, ipa, uploaded, made>>

Emptied(c) == IF c.start = c.free /\ c.start = c.end_free THEN Cleared ELSE c

(* The data of the frame at p, in one piece.                               *)
Straight(p) == \A k \in 0..(HeaderAt(mem, p).size - 1) : Holds(mem, p + Header + k, HeaderAt(mem, p).tp, k)
Wraps(p) == p + Header + HeaderAt(mem, p).size > gs.ctrl.wrap

CopyFrame ==
  /\ gs.pc = "copy" /\ gs.r < gs.w
  /\ LET p == gs.ctrl.start IN
     /\ uploaded' = Append(uploaded, [tp |-> HeaderAt(mem, p).tp, whole |-> Straight(p), wraps |-> Wraps(p)])
     /\ gs' = [gs EXCEPT !.ctrl = Emptied(Without(@, NextIn(mem, @, p))), !.r = @ + 1]
  /\ UNCHANGED <<mem, ctrl, token, wrote, read, tracing, bkpt, ipa, made>>

(* The live trace_buffer_ctrl is written word by word.                     *)
Put(c, next) ==
  /\ ctrl' = [ctrl EXCEPT ![gs.tok.idx] = c]
  /\ gs' = [gs EXCEPT !.pc = next]
  /\ UNCHANGED <<mem, token, wrote, read, tracing, bkpt, ipa, uploaded, made>>

PutStart ==
  /\ gs.pc = "copy" /\ gs.r = gs.w
  /\ Put([ctrl[gs.tok.idx] EXCEPT !.start = gs.ctrl.start], "free")

PutRest ==
  LET c == ctrl[gs.tok.idx]
  IN  \/ gs.pc = "free" /\ Put([c EXCEPT !.free = gs.ctrl.free], "end_free")
      \/ gs.pc = "end_free" /\ Put([c EXCEPT !.end_free = gs.ctrl.end_free], "wrap")
      \/ gs.pc = "wrap" /\ Put([c EXCEPT !.wrap = gs.ctrl.wrap], "done")

(* Mutant: the breakpoint is left in.                                      *)
Done_leaving ==
  /\ gs.pc = "done"
  /\ read' = gs.r
  /\ gs' = Resting
  /\ ipa' = IF gs.flush THEN [ipa EXCEPT !.pc = "flushed"] ELSE ipa
  /\ UNCHANGED <<mem, ctrl, token, wrote, tracing, bkpt, uploaded, made>>

(* The breakpoint is taken out while all threads are stopped.              *)
Done ==
  /\ gs.pc = "done"
  /\ read' = gs.r
  /\ bkpt' = FALSE
  /\ gs' = Resting
  /\ ipa' = IF gs.flush THEN [ipa EXCEPT !.pc = "flushed"] ELSE ipa
  /\ UNCHANGED <<mem, ctrl, token, wrote, tracing, uploaded, made>>

(* QTinit: clear_trace_buffer and clear_inferior_trace_buffer.  In all-stop *)
(* mode a packet finds all threads stopped and out of the jump pads.        *)
QTinit ==
  /\ gs.pc = "rest" /\ ~tracing /\ ipa.pc = "idle"
  /\ mem' = PutHeader(mem, lo, EndMark)
  /\ ctrl' = [ctrl EXCEPT ![0] = Cleared]
  /\ token' = [gsb |-> FALSE, pc |-> 0, cc |-> 0, idx |-> 0]
  /\ wrote' = 0 /\ read' = 0
  /\ uploaded' = <<>>
  /\ UNCHANGED <<tracing, bkpt, ipa, gs, made>>

(* QTStart: all threads are out of the jump pads.                          *)
QTStart ==
  /\ gs.pc = "rest" /\ ~tracing /\ ipa.pc = "idle"
  /\ tracing' = TRUE
  /\ UNCHANGED <<mem, ctrl, token, wrote, read, bkpt, ipa, gs, uploaded, made>>

-----------------------------------------------------------------------------
Init ==
  /\ mem = ClearedMemory
  /\ ctrl = [i \in 0..2 |-> Cleared]
  /\ token = [gsb |-> FALSE, pc |-> 0, cc |-> 0, idx |-> 0]
  /\ wrote = 0 /\ read = 0
  /\ tracing = TRUE
  /\ bkpt = FALSE
  /\ ipa = Idle /\ gs = Resting
  /\ uploaded = <<>>
  /\ made = 0

Alloc ==
  \/ ReadToken \/ Pass("enter", "copy") \/ CopyCtrl \/ FindSpace \/ NoSpace \/ CommitToken
  \/ Pass("leave", "check") \/ CheckToken \/ MarkEnd \/ Fill \/ PassFlush \/ Flushed

Upload ==
  SetBkpt \/ GetToken \/ StampToken \/ GetCounts \/ GetCtrl \/ CopyFrame \/ PutStart \/ PutRest \/ Done

Next ==
  \/ Hit \/ Finish \/ Alloc
  \/ \E size \in Blocks : Action(size)
  \/ Event \/ FlushEvent \/ Status \/ StopTracing \/ Upload
  \/ QTinit \/ QTStart

Spec == Init /\ [][Next]_vars

(* The thread runs, gdbserver does what it has begun and handles the       *)
(* breakpoints that are hit.                                               *)
FairSpec == Spec /\ WF_vars(Alloc) /\ WF_vars(Finish) /\ WF_vars(Upload) /\ WF_vars(FlushEvent)

-----------------------------------------------------------------------------
(* What is in the buffer: gdbserver's copies are right until it has put    *)
(* them back.                                                              *)
Uploading == gs.pc \in {"copy", "free", "end_free", "wrap", "done"}
Live == IF Uploading THEN gs.ctrl ELSE ctrl[token.idx]
Unread == wrote - (IF Uploading THEN gs.r ELSE read)
At(i) == Place(mem, Live)[i]

(* An allocation that the agent goes on with is one that the live          *)
(* trace_buffer_ctrl has, and the live one has no other: nothing that      *)
(* gdbserver overwrote is used, and nothing is allocated twice.            *)
End(p) == LET q == p + Header + HeaderAt(mem, p).size
          IN  IF q > Live.wrap THEN q - (Live.wrap - lo) ELSE q
GrantIsLive ==
  /\ ipa.pc \in {"mark", "fill"} => Live.free = ipa.piece + ipa.want
  /\ ipa.pc = "collect" /\ Live.wrap = hi => Live.free = ipa.at + Header + HeaderAt(mem, ipa.at).size

(* What gdbserver uploads are the frames that were collected, in order;    *)
(* and their data, when it is in one piece.                                *)
UploadedInOrder ==
  \A i \in DOMAIN uploaded :
    /\ i > 1 => uploaded[i].tp = uploaded[i - 1].tp + 1
    /\ ~uploaded[i].wraps => uploaded[i].whole

(* A log of frames goes through the buffer into gdbserver's.               *)
Log == INSTANCE TraceLog WITH
  frames <- [i \in 1..Len(uploaded) |-> uploaded[i].tp] \o [i \in 1..Unread |-> HeaderAt(mem, At(i)).tp]
IsLog == Log!Spec

(* A collection ends: gdbserver may make the agent try again only so often.*)
CollectionEnds == ipa.pc # "idle" ~> ipa.pc = "idle"
=============================================================================
