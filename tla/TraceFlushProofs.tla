--------------------------- MODULE TraceFlushProofs ---------------------------
(***************************************************************************)
(* Proofs about TraceFlush, for any sizes, any number of frames and any    *)
(* number of counters but one.                                             *)
(*                                                                         *)
(* The first half is about the token: what the agent can find at each of   *)
(* its steps, when gdbserver may come at any of them.  It does so at most  *)
(* once in one attempt to allocate, since it has seen every frame then.    *)
(* The second half is about the buffer: the live trace_buffer_ctrl has the *)
(* frames that gdbserver has not seen, one after another (Chain), and      *)
(* behind them the piece that was granted, if any.                         *)
(***************************************************************************)
EXTENDS TraceFlush, TraceMemoryProofs

Count == 0..(Counters - 1)
Token == [gsb : BOOLEAN, pc : Count, cc : Count, idx : 0..2]
Fields == [start : Int, free : Int, end_free : Int, wrap : Int]

AgentPcs == {"idle", "read", "enter", "copy", "find", "commit", "leave", "check", "mark", "fill",
             "collect", "flush", "flushed"}
ServerPcs == {"rest", "bkpt", "token", "stamp", "counts", "ctrl", "copy", "free", "end_free", "wrap", "done"}

Agent == [pc : AgentPcs, at : {-1} \cup Cells, want : {0, Header} \cup Blocks, blocks : 0..MaxBlocks,
          prev : Token, piece : Int]
Server == [pc : ServerPcs, paused : BOOLEAN, flush : BOOLEAN, tok : Token, w : Nat, r : Nat, ctrl : Fields]

(* gdbserver has written the token and is not done.                        *)
Stamped == gs.pc \in {"counts", "ctrl", "copy", "free", "end_free", "wrap", "done"}

(* gdbserver has seen, or is going to see, all frames there are; since the *)
(* agent does not finish one, gdbserver has no reason to come again.       *)
Seen ==
  \/ gs.pc = "rest" /\ read = wrote
  \/ gs.pc = "counts"
  \/ gs.pc \in {"ctrl", "copy", "free", "end_free", "wrap", "done"} /\ gs.w = wrote

TypesInv ==
  /\ mem = [c \in Cells |-> mem[c]]
  /\ ctrl \in [0..2 -> Fields]
  /\ token \in Token
  /\ wrote \in Nat /\ read \in Nat /\ made \in Nat
  /\ ipa \in Agent
  /\ gs \in Server

(* The frame that is collected, and what is asked for.                     *)
FrameInv ==
  /\ ipa.pc # "idle" => made < MaxFrames
  /\ ipa.pc = "idle" => ipa.at = -1
  /\ ipa.pc = "collect" => ipa.at # -1
  /\ ipa.pc \notin {"idle", "collect"} => IF ipa.at = -1 THEN ipa.want = Header ELSE ipa.want \in Blocks

CountInv ==
  /\ read <= wrote /\ wrote <= made /\ made <= MaxFrames
  /\ gs.pc \in {"ctrl", "copy", "free", "end_free", "wrap", "done"} => read <= gs.r /\ gs.r <= gs.w /\ gs.w <= wrote
  /\ gs.pc = "ctrl" => gs.r = read
  /\ gs.pc \in {"free", "end_free", "wrap", "done"} => gs.r = gs.w

BkptInv ==
  /\ bkpt = (Stamped \/ gs.pc \in {"token", "stamp"})
  /\ gs.flush => ipa.pc = "flush" /\ tracing /\ gs.pc # "rest"

(* A commit that gdbserver did not see when it read the token is undone by *)
(* what it writes, and the agent is held until then.                       *)
TokenInv ==
  /\ Stamped => token = Stamp(gs.tok)
  /\ gs.pc = "stamp" =>
       \/ token = gs.tok
       \/ ipa.pc = "leave" /\ ipa.prev = gs.tok /\ token = Commit(gs.tok)
  /\ ipa.pc \in {"enter", "copy", "find", "commit"} =>
       \/ token = ipa.prev /\ (Stamped => ipa.pc = "enter")
       \/ token = Stamp(ipa.prev) /\ Seen
  /\ ipa.pc \in {"leave", "check"} =>
       \/ token = Commit(ipa.prev) /\ ~Stamped
       \/ token = Stamp(ipa.prev) /\ Seen
       \/ token = Stamp(Commit(ipa.prev)) /\ Seen
  /\ ipa.pc \in {"mark", "fill"} => token.idx = Curr

ControlInv == TypesInv /\ FrameInv /\ CountInv /\ BkptInv /\ TokenInv

-----------------------------------------------------------------------------
(* Tokens.                                                                 *)

LEMMA BumpFacts == ASSUME NEW n \in Count PROVE Bump(n) \in Count /\ Bump(n) # n
<1>1. Counters \in Nat /\ Counters > 1 /\ n \in Nat /\ n < Counters
  BY TraceFlushAssumption DEF Count
<1>2. CASE n + 1 = Counters
  <2>1. Counters % Counters = 0
    BY <1>1
  <2> QED
    BY <1>1, <1>2, <2>1 DEF Bump, Count
<1>3. CASE n + 1 < Counters
  <2>1. (n + 1) % Counters = n + 1
    BY <1>1, <1>3
  <2> QED
    BY <1>1, <1>3, <2>1 DEF Bump, Count
<1> QED
  BY <1>1, <1>2, <1>3

LEMMA CommitFacts ==
  ASSUME NEW t \in Token
  PROVE  /\ Commit(t) \in Token /\ Commit(t).gsb = FALSE /\ Commit(t).pc = t.cc /\ Commit(t).cc = Bump(t.cc)
         /\ Commit(t).idx # t.idx
<1>1. t.cc \in Count /\ t.idx \in 0..2
  BY DEF Token
<1>2. (t.idx + 1) % 3 \in 0..2 /\ (t.idx + 1) % 3 # t.idx
  BY <1>1
<1> QED
  BY <1>1, <1>2, BumpFacts DEF Token, Commit

LEMMA StampFacts ==
  ASSUME NEW t \in Token
  PROVE  Stamp(t) \in Token /\ Stamp(t).gsb = TRUE /\ Stamp(t).pc = t.cc /\ Stamp(t).cc = Bump(t.cc)
         /\ Stamp(t).idx = t.idx
BY BumpFacts DEF Token, Stamp

(* The agent can tell the tokens that it may find apart, and goes on       *)
(* exactly if its commit was not undone.                                   *)
LEMMA TokenFacts ==
  ASSUME NEW t \in Token
  PROVE  /\ Commit(t) \in Token /\ Stamp(t) \in Token /\ Stamp(Commit(t)) \in Token
         /\ Stamp(t) # t /\ Commit(t) # t /\ Stamp(Commit(t)) # t
         /\ Stamp(t) # Commit(t) /\ Stamp(t) # Stamp(Commit(t)) /\ Stamp(Commit(t)) # Commit(t)
         /\ Stamp(t).idx = t.idx /\ Commit(t).idx # t.idx /\ Stamp(Commit(t)).idx = Commit(t).idx
         /\ Effective(Commit(t), t) /\ Effective(Stamp(Commit(t)), t) /\ ~Effective(Stamp(t), t)
<1>1. t.cc \in Count /\ Commit(t) \in Token /\ Stamp(t) \in Token
  BY CommitFacts, StampFacts DEF Token
<1>2. Bump(t.cc) # t.cc
  BY <1>1, BumpFacts
<1>3. /\ Commit(t).gsb = FALSE /\ Commit(t).pc = t.cc /\ Commit(t).cc = Bump(t.cc) /\ Commit(t).idx # t.idx
      /\ Stamp(t).gsb = TRUE /\ Stamp(t).pc = t.cc /\ Stamp(t).cc = Bump(t.cc) /\ Stamp(t).idx = t.idx
  BY CommitFacts, StampFacts
<1>4. /\ Stamp(Commit(t)) \in Token /\ Stamp(Commit(t)).gsb = TRUE /\ Stamp(Commit(t)).pc = Commit(t).cc
      /\ Stamp(Commit(t)).idx = Commit(t).idx
  BY <1>1, StampFacts
<1>5. Effective(Commit(t), t) /\ Effective(Stamp(Commit(t)), t)
  BY <1>4 DEF Effective
<1>6. ~Effective(Stamp(t), t)
  BY <1>2, <1>3 DEF Effective
<1> QED
  BY <1>1, <1>2, <1>3, <1>4, <1>5, <1>6

-----------------------------------------------------------------------------
(* The agent's and gdbserver's steps, one by one.                          *)

LEMMA FrameInvKept == ASSUME ControlInv, ipa.pc = "fill" => ipa.piece \in Cells, [Next]_vars PROVE FrameInv'
<1> USE TraceMemoryAssumption DEF TypesInv, Agent, Server, FrameInv, BkptInv, ControlInv, Runs
<1>1. CASE Hit
  BY <1>1 DEF Hit, Idle
<1>2. CASE Finish
  BY <1>2 DEF Finish, Idle
<1>3. CASE ReadToken
  BY <1>3 DEF ReadToken
<1>4. CASE Pass("enter", "copy")
  BY <1>4 DEF Pass
<1>5. CASE CopyCtrl
  BY <1>5 DEF CopyCtrl
<1>6. CASE FindSpace
  BY <1>6 DEF FindSpace, Taken
<1>7. CASE NoSpace
  BY <1>7 DEF NoSpace
<1>8. CASE CommitToken
  BY <1>8 DEF CommitToken
<1>9. CASE Pass("leave", "check")
  BY <1>9 DEF Pass
<1>10. CASE CheckToken
  BY <1>10 DEF CheckToken
<1>11. CASE MarkEnd
  BY <1>11 DEF MarkEnd
<1>12. CASE Fill
  BY <1>12 DEF Fill, Cells, lo, hi
<1>13. CASE PassFlush
  BY <1>13 DEF PassFlush
<1>14. CASE Flushed
  BY <1>14 DEF Flushed, Idle
<1>15. CASE SetBkpt
  BY <1>15 DEF SetBkpt
<1>16. CASE GetToken
  BY <1>16 DEF GetToken
<1>17. CASE StampToken
  BY <1>17 DEF StampToken
<1>18. CASE GetCounts
  BY <1>18 DEF GetCounts
<1>19. CASE GetCtrl
  BY <1>19 DEF GetCtrl
<1>20. CASE CopyFrame
  BY <1>20 DEF CopyFrame, Emptied, Without
<1>21. CASE PutStart
  BY <1>21 DEF PutStart, Put
<1>22. CASE PutRest
  BY <1>22 DEF PutRest, Put
<1>23. CASE Done
  BY <1>23 DEF Done, Resting
<1>24. CASE Event
  BY <1>24 DEF Event, Begin, Resting, NothingNew
<1>25. CASE FlushEvent
  BY <1>25 DEF FlushEvent, Begin, Resting, NothingNew
<1>26. CASE Status
  BY <1>26 DEF Status, Begin, Resting, NothingNew
<1>27. CASE StopTracing
  BY <1>27 DEF StopTracing, Begin, Resting, NothingNew
<1>28. CASE QTinit
  BY <1>28 DEF QTinit
<1>29. CASE QTStart
  BY <1>29 DEF QTStart
<1>30. CASE \E size \in Blocks : Action(size)
  BY <1>30 DEF Action
<1>31. CASE UNCHANGED vars
  BY <1>31 DEF vars
<1> QED
  BY <1>1, <1>2, <1>3, <1>4, <1>5, <1>6, <1>7, <1>8, <1>9, <1>10, <1>11, <1>12, <1>13, <1>14, <1>15, <1>16,
     <1>17, <1>18, <1>19, <1>20, <1>21, <1>22, <1>23, <1>24, <1>25, <1>26, <1>27, <1>28, <1>29, <1>30, <1>31 DEF
     Next, Alloc, Upload

LEMMA CountInvKept == ASSUME ControlInv, [Next]_vars PROVE CountInv'
<1> USE TraceMemoryAssumption DEF TypesInv, Agent, Server, CountInv, FrameInv, ControlInv, Runs
<1>1. CASE Hit
  BY <1>1 DEF Hit, Idle
<1>2. CASE Finish
  BY <1>2 DEF Finish, Idle
<1>3. CASE ReadToken
  BY <1>3 DEF ReadToken
<1>4. CASE Pass("enter", "copy")
  BY <1>4 DEF Pass
<1>5. CASE CopyCtrl
  BY <1>5 DEF CopyCtrl
<1>6. CASE FindSpace
  BY <1>6 DEF FindSpace, Taken
<1>7. CASE NoSpace
  BY <1>7 DEF NoSpace
<1>8. CASE CommitToken
  BY <1>8 DEF CommitToken
<1>9. CASE Pass("leave", "check")
  BY <1>9 DEF Pass
<1>10. CASE CheckToken
  BY <1>10 DEF CheckToken
<1>11. CASE MarkEnd
  BY <1>11 DEF MarkEnd
<1>12. CASE Fill
  BY <1>12 DEF Fill, Cells, lo, hi
<1>13. CASE PassFlush
  BY <1>13 DEF PassFlush
<1>14. CASE Flushed
  BY <1>14 DEF Flushed, Idle
<1>15. CASE SetBkpt
  BY <1>15 DEF SetBkpt
<1>16. CASE GetToken
  BY <1>16 DEF GetToken
<1>17. CASE StampToken
  BY <1>17 DEF StampToken
<1>18. CASE GetCounts
  BY <1>18 DEF GetCounts
<1>19. CASE GetCtrl
  BY <1>19 DEF GetCtrl
<1>20. CASE CopyFrame
  BY <1>20, SMTT(30) DEF CopyFrame, Emptied, Without
<1>21. CASE PutStart
  BY <1>21 DEF PutStart, Put
<1>22. CASE PutRest
  BY <1>22 DEF PutRest, Put
<1>23. CASE Done
  BY <1>23 DEF Done, Resting
<1>24. CASE Event
  BY <1>24 DEF Event, Begin, Resting, NothingNew
<1>25. CASE FlushEvent
  BY <1>25 DEF FlushEvent, Begin, Resting, NothingNew
<1>26. CASE Status
  BY <1>26 DEF Status, Begin, Resting, NothingNew
<1>27. CASE StopTracing
  BY <1>27 DEF StopTracing, Begin, Resting, NothingNew
<1>28. CASE QTinit
  BY <1>28 DEF QTinit
<1>29. CASE QTStart
  BY <1>29 DEF QTStart
<1>30. CASE \E size \in Blocks : Action(size)
  BY <1>30 DEF Action
<1>31. CASE UNCHANGED vars
  BY <1>31 DEF vars
<1> QED
  BY <1>1, <1>2, <1>3, <1>4, <1>5, <1>6, <1>7, <1>8, <1>9, <1>10, <1>11, <1>12, <1>13, <1>14, <1>15, <1>16,
     <1>17, <1>18, <1>19, <1>20, <1>21, <1>22, <1>23, <1>24, <1>25, <1>26, <1>27, <1>28, <1>29, <1>30, <1>31 DEF
     Next, Alloc, Upload

LEMMA BkptInvKept == ASSUME ControlInv, [Next]_vars PROVE BkptInv'
<1> USE TraceMemoryAssumption DEF TypesInv, Agent, Server, BkptInv, Stamped, ControlInv, Runs
<1>1. CASE Hit
  BY <1>1 DEF Hit, Idle
<1>2. CASE Finish
  BY <1>2 DEF Finish, Idle
<1>3. CASE ReadToken
  BY <1>3 DEF ReadToken
<1>4. CASE Pass("enter", "copy")
  BY <1>4 DEF Pass
<1>5. CASE CopyCtrl
  BY <1>5 DEF CopyCtrl
<1>6. CASE FindSpace
  BY <1>6 DEF FindSpace, Taken
<1>7. CASE NoSpace
  BY <1>7 DEF NoSpace
<1>8. CASE CommitToken
  BY <1>8 DEF CommitToken
<1>9. CASE Pass("leave", "check")
  BY <1>9 DEF Pass
<1>10. CASE CheckToken
  BY <1>10 DEF CheckToken
<1>11. CASE MarkEnd
  BY <1>11 DEF MarkEnd
<1>12. CASE Fill
  BY <1>12 DEF Fill, Cells, lo, hi
<1>13. CASE PassFlush
  BY <1>13 DEF PassFlush
<1>14. CASE Flushed
  BY <1>14 DEF Flushed, Idle
<1>15. CASE SetBkpt
  BY <1>15 DEF SetBkpt
<1>16. CASE GetToken
  BY <1>16 DEF GetToken
<1>17. CASE StampToken
  BY <1>17 DEF StampToken
<1>18. CASE GetCounts
  BY <1>18 DEF GetCounts
<1>19. CASE GetCtrl
  BY <1>19 DEF GetCtrl
<1>20. CASE CopyFrame
  BY <1>20 DEF CopyFrame, Emptied, Without
<1>21. CASE PutStart
  BY <1>21 DEF PutStart, Put
<1>22. CASE PutRest
  BY <1>22 DEF PutRest, Put
<1>23. CASE Done
  BY <1>23 DEF Done, Resting
<1>24. CASE Event
  BY <1>24 DEF Event, Begin, Resting, NothingNew
<1>25. CASE FlushEvent
  BY <1>25 DEF FlushEvent, Begin, Resting, NothingNew
<1>26. CASE Status
  BY <1>26 DEF Status, Begin, Resting, NothingNew
<1>27. CASE StopTracing
  BY <1>27 DEF StopTracing, Begin, Resting, NothingNew
<1>28. CASE QTinit
  BY <1>28 DEF QTinit
<1>29. CASE QTStart
  BY <1>29 DEF QTStart
<1>30. CASE \E size \in Blocks : Action(size)
  BY <1>30 DEF Action
<1>31. CASE UNCHANGED vars
  BY <1>31 DEF vars
<1> QED
  BY <1>1, <1>2, <1>3, <1>4, <1>5, <1>6, <1>7, <1>8, <1>9, <1>10, <1>11, <1>12, <1>13, <1>14, <1>15, <1>16,
     <1>17, <1>18, <1>19, <1>20, <1>21, <1>22, <1>23, <1>24, <1>25, <1>26, <1>27, <1>28, <1>29, <1>30, <1>31 DEF
     Next, Alloc, Upload

LEMMA TokenInvKept == ASSUME ControlInv, [Next]_vars PROVE TokenInv'
<1>1. /\ token \in Token /\ ipa.prev \in Token /\ gs.tok \in Token
      /\ Stamp(ipa.prev) # ipa.prev /\ Stamp(ipa.prev) # Commit(ipa.prev)
      /\ Stamp(ipa.prev) # Stamp(Commit(ipa.prev)) /\ Stamp(Commit(ipa.prev)) # Commit(ipa.prev)
      /\ Stamp(token).idx = token.idx /\ Stamp(Commit(ipa.prev)).idx = Commit(ipa.prev).idx
      /\ ~Effective(Stamp(ipa.prev), ipa.prev)
  BY TokenFacts DEF ControlInv, TypesInv, Agent, Server
<1> USE DEF TypesInv, Agent, Server, TokenInv, CountInv, BkptInv, Stamped, Seen, Curr, ControlInv, Runs
<1>2. CASE Hit
  BY <1>1, <1>2 DEF Hit, Idle
<1>3. CASE Finish
  BY <1>1, <1>3 DEF Finish, Idle
<1>4. CASE ReadToken
  BY <1>1, <1>4 DEF ReadToken
<1>5. CASE Pass("enter", "copy")
  BY <1>1, <1>5 DEF Pass
<1>6. CASE CopyCtrl
  BY <1>1, <1>6 DEF CopyCtrl
<1>7. CASE FindSpace
  BY <1>1, <1>7 DEF FindSpace, Taken
<1>8. CASE NoSpace
  BY <1>1, <1>8 DEF NoSpace
<1>9. CASE CommitToken
  BY <1>1, <1>9 DEF CommitToken
<1>10. CASE Pass("leave", "check")
  BY <1>1, <1>10 DEF Pass
<1>11. CASE CheckToken
  BY <1>1, <1>11 DEF CheckToken
<1>12. CASE MarkEnd
  BY <1>1, <1>12 DEF MarkEnd
<1>13. CASE Fill
  BY <1>1, <1>13 DEF Fill, Cells, lo, hi
<1>14. CASE PassFlush
  BY <1>1, <1>14 DEF PassFlush
<1>15. CASE Flushed
  BY <1>1, <1>15 DEF Flushed, Idle
<1>16. CASE SetBkpt
  BY <1>1, <1>16 DEF SetBkpt
<1>17. CASE GetToken
  BY <1>1, <1>17 DEF GetToken
<1>18. CASE StampToken
  BY <1>1, <1>18 DEF StampToken
<1>19. CASE GetCounts
  BY <1>1, <1>19 DEF GetCounts
<1>20. CASE GetCtrl
  BY <1>1, <1>20 DEF GetCtrl
<1>21. CASE CopyFrame
  BY <1>1, <1>21 DEF CopyFrame, Emptied, Without
<1>22. CASE PutStart
  BY <1>1, <1>22 DEF PutStart, Put
<1>23. CASE PutRest
  BY <1>1, <1>23 DEF PutRest, Put
<1>24. CASE Done
  BY <1>1, <1>24 DEF Done, Resting
<1>25. CASE Event
  BY <1>1, <1>25 DEF Event, Begin, Resting, NothingNew
<1>26. CASE FlushEvent
  BY <1>1, <1>26 DEF FlushEvent, Begin, Resting, NothingNew
<1>27. CASE Status
  BY <1>1, <1>27 DEF Status, Begin, Resting, NothingNew
<1>28. CASE StopTracing
  BY <1>1, <1>28 DEF StopTracing, Begin, Resting, NothingNew
<1>29. CASE QTinit
  BY <1>1, <1>29 DEF QTinit
<1>30. CASE QTStart
  BY <1>1, <1>30 DEF QTStart
<1>31. CASE \E size \in Blocks : Action(size)
  BY <1>1, <1>31 DEF Action
<1>32. CASE UNCHANGED vars
  BY <1>1, <1>32 DEF vars
<1> QED
  BY <1>2, <1>3, <1>4, <1>5, <1>6, <1>7, <1>8, <1>9, <1>10, <1>11, <1>12, <1>13, <1>14, <1>15, <1>16, <1>17,
     <1>18, <1>19, <1>20, <1>21, <1>22, <1>23, <1>24, <1>25, <1>26, <1>27, <1>28, <1>29, <1>30, <1>31, <1>32 DEF
     Next, Alloc, Upload

-----------------------------------------------------------------------------
(* Types.                                                                  *)

LEMMA Writers ==
  ASSUME [Next]_vars
  PROVE  /\ mem' # mem => MarkEnd \/ Fill \/ QTinit
         /\ ctrl' # ctrl => CopyCtrl \/ FindSpace \/ NoSpace \/ PutStart \/ PutRest \/ QTinit
         /\ token' # token => CommitToken \/ StampToken \/ QTinit
         /\ wrote' # wrote => Finish \/ QTinit
         /\ read' # read => Done \/ QTinit
         /\ made' # made => Finish
         /\ uploaded' # uploaded => CopyFrame \/ QTinit
<1>1. CASE Hit \/ Finish \/ \E size \in Blocks : Action(size)
  BY <1>1 DEF Hit, Finish, Action
<1>2. CASE Alloc
  BY <1>2 DEF Alloc, ReadToken, Pass, CopyCtrl, FindSpace, NoSpace, CommitToken, CheckToken, MarkEnd, Fill, PassFlush,
              Flushed
<1>3. CASE Event \/ FlushEvent \/ Status \/ StopTracing
  BY <1>3 DEF Event, FlushEvent, Status, StopTracing
<1>4. CASE Upload
  BY <1>4 DEF Upload, SetBkpt, GetToken, StampToken, GetCounts, GetCtrl, CopyFrame, PutStart, PutRest, Put, Done
<1>5. CASE QTinit \/ QTStart
  BY <1>5 DEF QTinit, QTStart
<1>6. CASE UNCHANGED vars
  BY <1>6 DEF vars
<1> QED
  BY <1>1, <1>2, <1>3, <1>4, <1>5, <1>6 DEF Next

(* Whatever half of a trace_buffer_ctrl the agent may have copied.         *)
LEMMA FieldsFacts ==
  /\ Cleared \in Fields /\ Header \in Int
  /\ \A c \in Fields : Lower(c) \in Fields /\ (\A q \in Int : Without(c, q) \in Fields)
  /\ \A c \in Fields : \A amt \in Int : Chosen(c, amt) \in Fields /\ Taken(c, amt) \in Fields
<1>1. Cleared \in Fields /\ Header \in Int /\ lo \in Int /\ hi \in Int
  BY TraceMemoryAssumption DEF Cleared, Fields, lo, hi
<1>2. ASSUME NEW c \in Fields PROVE Lower(c) \in Fields
  BY <1>1 DEF Lower, Fields
<1>3. ASSUME NEW c \in Fields, NEW q \in Int PROVE Without(c, q) \in Fields
  BY <1>1 DEF Without, Fields
<1>4. ASSUME NEW c \in Fields, NEW amt \in Int PROVE Chosen(c, amt) \in Fields
  BY <1>2 DEF Chosen
<1>5. ASSUME NEW c \in Fields, NEW amt \in Int PROVE Taken(c, amt) \in Fields
  <2>1. Chosen(c, amt) \in Fields
    BY <1>4
  <2> DEFINE d == Chosen(c, amt)
  <2> HIDE DEF d
  <2>2. d \in Fields => [d EXCEPT !.free = @ + amt] \in Fields
    BY DEF Fields
  <2> QED
    BY <2>1, <2>2 DEF Taken, d
<1> QED
  BY <1>1, <1>2, <1>3, <1>4, <1>5

LEMMA AgentTyped ==
  ASSUME ControlInv, ipa.pc = "fill" => ipa.piece \in Cells, [Next]_vars PROVE ipa' \in Agent
<1>1. /\ ipa \in Agent /\ token \in Token /\ ipa.want \in Int /\ made \in Nat
      /\ 0 \in 0..MaxBlocks /\ MaxBlocks \in Nat
  BY TraceMemoryAssumption DEF ControlInv, TypesInv, Agent
<1>2. Idle \in Agent /\ Idle.at = -1
  BY <1>1 DEF Idle, Agent, AgentPcs
<1>3. \A pc \in AgentPcs : [ipa EXCEPT !.pc = pc] \in Agent
  BY <1>1 DEF Agent
<1>4. \A pc \in AgentPcs : \A t \in Token : [ipa EXCEPT !.prev = t, !.pc = pc] \in Agent
  BY <1>1 DEF Agent
<1>5. {"read", "enter", "copy", "find", "commit", "leave", "check", "mark", "fill", "collect", "flush", "flushed"}
         \subseteq AgentPcs
  BY DEF AgentPcs
<1> HIDE DEF AgentPcs
<1>6. CASE Hit
  <2>1. ipa' = [Idle EXCEPT !.pc = "read", !.want = Header]
    BY <1>6 DEF Hit
  <2> QED
    BY <1>2, <1>5, <2>1 DEF Agent
<1>7. CASE Finish
  BY <1>2, <1>7 DEF Finish
<1>8. CASE ReadToken
  <2>1. ipa' = [ipa EXCEPT !.prev = token, !.pc = "enter"]
    BY <1>8 DEF ReadToken
  <2> QED
    BY <1>1, <1>4, <1>5, <2>1
<1>9. CASE FindSpace
  <2>1. ctrl[Curr] \in Fields
    BY TokenFacts DEF ControlInv, TypesInv, Curr, Agent, Token
  <2>2. Chosen(ctrl[Curr], ipa.want).free \in Int
    BY <1>1, <2>1, FieldsFacts DEF Fields
  <2>3. ipa' = [ipa EXCEPT !.piece = Chosen(ctrl[Curr], ipa.want).free, !.pc = "commit"]
    BY <1>9 DEF FindSpace
  <2> QED
    BY <1>1, <1>5, <2>2, <2>3 DEF Agent
<1>10. CASE \E pc \in AgentPcs : ipa' = [ipa EXCEPT !.pc = pc]
  BY <1>3, <1>10
<1>11. CASE Fill
  <2>1. /\ ipa' = [ipa EXCEPT !.at = IF @ = -1 THEN ipa.piece ELSE @, !.want = 0, !.pc = "collect"]
        /\ ipa.piece \in Cells
    BY <1>11 DEF Fill, Runs
  <2> QED
    BY <1>1, <1>5, <2>1 DEF Agent
<1>12. CASE Flushed
  <2>1. ipa' \in {[ipa EXCEPT !.pc = "read"], Idle, [ipa EXCEPT !.want = 0, !.pc = "collect"]}
    BY <1>12 DEF Flushed
  <2> QED
    BY <1>1, <1>2, <1>3, <1>5, <2>1 DEF Agent
<1>13. ASSUME NEW size \in Blocks, Action(size) PROVE ipa' \in Agent
  <2>1. ipa.blocks < MaxBlocks /\ ipa' = [ipa EXCEPT !.pc = "read", !.want = size, !.blocks = ipa.blocks + 1]
    BY <1>13 DEF Action
  <2>2. ipa.blocks + 1 \in 0..MaxBlocks /\ size \in {0, Header} \cup Blocks
    BY <1>1, <2>1 DEF Agent
  <2>3. "read" \in AgentPcs
    BY <1>5
  <2> QED
    BY <1>1, <2>1, <2>2, <2>3 DEF Agent
<1>14. CASE ipa' = ipa
  BY <1>1, <1>14
<1>15. Pass("enter", "copy") \/ CopyCtrl \/ NoSpace \/ Pass("leave", "check") \/ CheckToken
         \/ MarkEnd \/ PassFlush => \E pc \in AgentPcs : ipa' = [ipa EXCEPT !.pc = pc]
  BY <1>5 DEF Pass, CopyCtrl, NoSpace, CheckToken, MarkEnd, PassFlush
<1>16. CommitToken \/ Done \/ FlushEvent => ipa' = ipa \/ \E pc \in AgentPcs : ipa' = [ipa EXCEPT !.pc = pc]
  BY <1>5 DEF CommitToken, Done, FlushEvent
<1>17. UNCHANGED vars \/ Event \/ Status \/ StopTracing \/ QTinit \/ QTStart => ipa' = ipa
  BY DEF vars, Event, Status, StopTracing, QTinit, QTStart
<1>18. Upload => ipa' = ipa \/ Done
  BY DEF Upload, SetBkpt, GetToken, StampToken, GetCounts, GetCtrl, CopyFrame, PutStart, PutRest, Put
<1> QED
  BY <1>6, <1>7, <1>8, <1>9, <1>10, <1>11, <1>12, <1>13, <1>14, <1>15, <1>16, <1>17, <1>18 DEF Next, Alloc

LEMMA ServerTyped ==
  ASSUME ControlInv, [Next]_vars, CopyFrame => NextIn(mem, gs.ctrl, gs.ctrl.start) \in Int PROVE gs' \in Server
<1>1. gs \in Server /\ token \in Token /\ wrote \in Nat /\ read \in Nat /\ ctrl \in [0..2 -> Fields]
  BY DEF ControlInv, TypesInv
<1>2. {"rest", "bkpt", "token", "stamp", "counts", "ctrl", "copy", "free", "end_free", "wrap", "done"} \subseteq ServerPcs
  BY DEF ServerPcs
<1>3. Resting \in Server
  BY <1>1, <1>2, FieldsFacts DEF Resting, Server
<1> HIDE DEF ServerPcs
<1>4. \A p, f \in BOOLEAN : [Resting EXCEPT !.pc = "bkpt", !.paused = p, !.flush = f] \in Server
  BY <1>2, <1>3 DEF Server
<1>5. CASE Event \/ FlushEvent \/ Status \/ StopTracing
  <2>1. ~Resting.flush /\ Resting \in Server
    BY <1>3 DEF Resting
  <2>2. CASE \E p, f \in BOOLEAN : gs' = [Resting EXCEPT !.pc = "bkpt", !.paused = p, !.flush = f]
    BY <1>4, <2>2
  <2>3. CASE gs' = [Resting EXCEPT !.pc = "bkpt", !.paused = TRUE]
    BY <1>2, <2>1, <2>3 DEF Server
  <2>4. CASE gs' = gs
    BY <1>1, <2>4
  <2> QED
    BY <1>5, <2>2, <2>3, <2>4 DEF Event, FlushEvent, Status, StopTracing, Begin
<1>6. CASE SetBkpt \/ PutStart \/ PutRest \/ StampToken
  <2>1. \E pc \in ServerPcs : gs' = [gs EXCEPT !.pc = pc]
    BY <1>2, <1>6 DEF SetBkpt, PutStart, PutRest, Put, StampToken
  <2> QED
    BY <1>1, <2>1 DEF Server
<1>7. CASE GetToken
  <2>1. gs' = [gs EXCEPT !.tok = token, !.pc = "stamp"]
    BY <1>7 DEF GetToken
  <2> QED
    BY <1>1, <1>2, <2>1 DEF Server
<1>8. CASE GetCounts
  <2>1. gs' = [gs EXCEPT !.w = wrote, !.r = read, !.pc = "ctrl"]
    BY <1>8 DEF GetCounts
  <2> QED
    BY <1>1, <1>2, <2>1 DEF Server
<1>9. CASE GetCtrl
  <2>1. gs' = [gs EXCEPT !.ctrl = ctrl[gs.tok.idx], !.pc = "copy"] /\ ctrl[gs.tok.idx] \in Fields
    BY <1>1, <1>9 DEF GetCtrl, Server, Token
  <2> QED
    BY <1>1, <1>2, <2>1 DEF Server
<1>10. CASE CopyFrame
  <2> DEFINE q == NextIn(mem, gs.ctrl, gs.ctrl.start)
             w == Emptied(Without(gs.ctrl, q))
  <2>1. q \in Int /\ gs.ctrl \in Fields /\ gs.r \in Nat
    BY <1>1, <1>10 DEF Server
  <2>2. gs' = [gs EXCEPT !.ctrl = w, !.r = gs.r + 1]
    BY <1>10 DEF CopyFrame
  <2> HIDE DEF q
  <2>3. w \in Fields
    BY <2>1, FieldsFacts DEF Emptied
  <2> HIDE DEF w
  <2>4. gs.r + 1 \in Nat
    BY <2>1
  <2> QED
    BY <1>1, <2>2, <2>3, <2>4 DEF Server
<1>11. CASE Done
  BY <1>3, <1>11 DEF Done
<1>12. CASE gs' = gs
  BY <1>1, <1>12
<1>13. UNCHANGED vars \/ QTinit \/ QTStart \/ Hit \/ Finish \/ (\E size \in Blocks : Action(size)) => gs' = gs
  BY DEF vars, QTinit, QTStart, Hit, Finish, Action
<1>14. Alloc => gs' = gs
  BY DEF Alloc, ReadToken, Pass, CopyCtrl, FindSpace, NoSpace, CommitToken, CheckToken, MarkEnd, Fill, PassFlush, Flushed
<1> QED
  BY <1>5, <1>6, <1>7, <1>8, <1>9, <1>10, <1>11, <1>12, <1>13, <1>14 DEF Next, Upload

LEMMA TypesInvKept ==
  ASSUME ControlInv, ipa.pc = "fill" => ipa.piece \in Cells, [Next]_vars,
         CopyFrame => NextIn(mem, gs.ctrl, gs.ctrl.start) \in Int
  PROVE  TypesInv'
<1>1. /\ mem = [c \in Cells |-> mem[c]] /\ ctrl \in [0..2 -> Fields] /\ token \in Token
      /\ wrote \in Nat /\ read \in Nat /\ made \in Nat
      /\ ipa \in Agent /\ gs \in Server
  BY DEF ControlInv, TypesInv
<1>2. ipa' \in Agent /\ gs' \in Server
  BY AgentTyped, ServerTyped
<1>3. /\ ipa.prev \in Token /\ gs.tok \in Token /\ ipa.want \in Int
      /\ gs.ctrl \in Fields /\ gs.r \in Nat /\ ipa.prev.idx \in 0..2 /\ gs.tok.idx \in 0..2 /\ Curr \in 0..2
  <2>1. ipa.prev \in Token /\ gs.tok \in Token /\ ipa.want \in Int /\ gs.ctrl \in Fields /\ gs.r \in Nat
    BY <1>1, TraceMemoryAssumption DEF Agent, Server
  <2>2. \A t \in Token : t.idx \in 0..2
    BY DEF Token
  <2>3. Commit(ipa.prev) \in Token
    BY <2>1, CommitFacts
  <2> QED
    BY <2>1, <2>2, <2>3 DEF Curr
<1>4. mem' = [c \in Cells |-> mem'[c]]
  <2>1. CASE mem' = mem
    BY <1>1, <2>1
  <2>2. CASE MarkEnd \/ QTinit
    <3>1. \E p, h : mem' = PutHeader(mem, p, h)
      BY <2>2 DEF MarkEnd, QTinit
    <3> QED
      BY <3>1 DEF PutHeader
  <2>3. CASE Fill
    <3>1. CASE ipa.at = -1
      BY <2>3, <3>1 DEF Fill, PutHeader
    <3>2. CASE ipa.at # -1
      BY <2>3, <3>2 DEF Fill, PutBlock
    <3> QED
      BY <3>1, <3>2
  <2> QED
    BY <2>1, <2>2, <2>3, Writers
<1>5. ctrl' \in [0..2 -> Fields]
  <2>1. CASE CopyCtrl
    BY <1>1, <1>3, <2>1 DEF CopyCtrl
  <2>2. CASE FindSpace \/ NoSpace
    <3>1. \E f \in Fields : ctrl' = [ctrl EXCEPT ![Curr] = f]
      BY <1>1, <1>3, <2>2, FieldsFacts DEF FindSpace, NoSpace
    <3> QED
      BY <1>1, <3>1
  <2>3. CASE PutStart \/ PutRest
    <3>1. gs.ctrl \in Fields /\ ctrl[gs.tok.idx] \in Fields
      BY <1>1, <1>3
    <3> DEFINE c == ctrl[gs.tok.idx]
    <3>2. /\ [c EXCEPT !.start = gs.ctrl.start] \in Fields /\ [c EXCEPT !.free = gs.ctrl.free] \in Fields
          /\ [c EXCEPT !.end_free = gs.ctrl.end_free] \in Fields /\ [c EXCEPT !.wrap = gs.ctrl.wrap] \in Fields
      BY <3>1 DEF Fields
    <3>3. \E f \in Fields : ctrl' = [ctrl EXCEPT ![gs.tok.idx] = f]
      BY <2>3, <3>2 DEF PutStart, PutRest, Put
    <3> QED
      BY <1>1, <3>3
  <2>5. CASE QTinit
    BY <1>1, <2>5, FieldsFacts DEF QTinit
  <2> QED
    BY <1>1, <2>1, <2>2, <2>3, <2>5, Writers
<1>6. token' \in Token
  <2>1. CASE QTinit
    BY <2>1, TraceFlushAssumption DEF QTinit, Token, Count
  <2>2. CommitToken \/ StampToken => token' \in {token, Commit(ipa.prev), Stamp(gs.tok)}
    BY DEF CommitToken, StampToken
  <2> QED
    BY <1>1, <1>3, <2>1, <2>2, Writers, TokenFacts
<1>7. wrote' \in Nat /\ read' \in Nat /\ made' \in Nat
  <2>1. /\ Finish => wrote' \in Nat /\ made' \in Nat
        /\ Done => read' \in Nat
        /\ QTinit => wrote' \in Nat /\ read' \in Nat
    BY <1>1, <1>3 DEF Finish, Done, QTinit
  <2>2. /\ wrote' # wrote => Finish \/ QTinit
        /\ read' # read => Done \/ QTinit
        /\ made' # made => Finish
    BY Writers
  <2> QED
    BY <1>1, <2>1, <2>2
<1> QED
  BY <1>2, <1>4, <1>5, <1>6, <1>7 DEF TypesInv

LEMMA InitControl == ASSUME Init PROVE ControlInv
<1>1. TypesInv
  <2>1. token \in Token
    BY TraceFlushAssumption DEF Init, Token, Count
  <2>2. ipa \in Agent /\ gs \in Server
    BY <2>1, FieldsFacts, TraceMemoryAssumption DEF Init, Idle, Resting, Agent, Server, AgentPcs, ServerPcs
  <2>3. ctrl \in [0..2 -> Fields] /\ mem = [c \in Cells |-> mem[c]]
    BY FieldsFacts DEF Init, ClearedMemory, PutHeader
  <2> QED
    BY <2>1, <2>2, <2>3 DEF TypesInv, Init
<1>2. FrameInv /\ CountInv /\ BkptInv /\ TokenInv
  <2>1. ipa.pc = "idle" /\ ipa.at = -1 /\ gs.pc = "rest" /\ ~gs.flush /\ ~Stamped
    BY DEF Init, Idle, Resting, Stamped
  <2>2. FrameInv /\ TokenInv
    BY <2>1 DEF FrameInv, TokenInv
  <2>3. CountInv
    BY <2>1, TraceMemoryAssumption DEF CountInv, Init
  <2>4. BkptInv
    BY <2>1 DEF BkptInv, Init
  <2> QED
    BY <2>2, <2>3, <2>4
<1> QED
  BY <1>1, <1>2 DEF ControlInv

LEMMA ControlInvKept ==
  ASSUME ControlInv, ipa.pc = "fill" => ipa.piece \in Cells, [Next]_vars,
         CopyFrame => NextIn(mem, gs.ctrl, gs.ctrl.start) \in Int
  PROVE  ControlInv'
BY FrameInvKept, CountInvKept, BkptInvKept, TokenInvKept, TypesInvKept DEF ControlInv

-----------------------------------------------------------------------------
(* What a trace_buffer_ctrl that is, was or may become the live one says.  *)
(* Unlike in TraceBuffer there is always room for the marker in front of   *)
(* what is in use.                                                         *)
Ring(c) == CtlOK(c) /\ (c.wrap < hi => c.free + Header <= c.start)

LEMMA RingFacts ==
  ASSUME NEW c, Ring(c)
  PROVE  /\ c.free \in Cells
         /\ \A x \in Nat : x < Used(c) => Cell(c, x) \in Cells /\ Cell(c, x) \notin c.free..(c.free + Header - 1)
         /\ Used(c) > 0 => c.start # c.free
<1>1. /\ c.start \in 0..Size /\ c.free \in 0..Size /\ c.end_free \in 0..Size /\ c.wrap \in 0..Size
      /\ Size \in Nat /\ Header \in Nat /\ Header > 0 /\ lo = 0 /\ hi = Size /\ CtlOK(c)
  BY CtrlFields DEF CtlOK, Ring
<1>2. c.free \in Cells /\ \A x \in Nat : x < Used(c) => Cell(c, x) \in Cells
  BY <1>1, CellFacts
<1>3. CASE c.wrap = hi
  BY <1>1, <1>2, <1>3 DEF CtlOK, Used, Cell, Folded
<1>4. CASE c.wrap < hi
  BY <1>1, <1>2, <1>4 DEF CtlOK, Used, Cell, Folded, Ring
<1>5. c.wrap = hi \/ c.wrap < hi
  BY <1>1
<1> QED
  BY <1>3, <1>4, <1>5

LEMMA RingTaken ==
  ASSUME NEW c, CtlOK(c), NEW amt \in Nat, amt > 0, Fits(c, amt)
  PROVE  Ring(Taken(c, amt))
<1>1. Size \in Nat /\ Header \in Nat /\ lo = 0 /\ hi = Size /\ c \in Ctrl
  BY CtrlFields DEF CtlOK
<1>2. CtlOK(Taken(c, amt))
  BY TakenFacts
<1>3. CASE UpperFits(c, amt)
  <2>1. Taken(c, amt) = [c EXCEPT !.free = @ + amt] /\ c.wrap = hi
    BY <1>1, <1>3 DEF Taken, Chosen, UpperFits, TwoParts, CtlOK, Ctrl
  <2>2. Taken(c, amt).wrap = hi
    BY <1>1, <2>1 DEF Ctrl
  <2> QED
    BY <1>1, <1>2, <2>2 DEF Ring
<1>4. CASE ~UpperFits(c, amt)
  <2> DEFINE l == Lower(c)
  <2>1. CtlOK(l) /\ l.free + amt + Header <= l.end_free /\ Taken(c, amt) = [l EXCEPT !.free = @ + amt]
    BY <1>4, LowerFacts DEF Fits, LowerFits, Taken, Chosen
  <2> HIDE DEF l
  <2>2. l \in Ctrl /\ l.free \in Int /\ l.end_free \in Int
    BY <2>1, CtrlFields DEF CtlOK
  <2>3. /\ Taken(c, amt).free = l.free + amt /\ Taken(c, amt).start = l.start
        /\ Taken(c, amt).wrap = l.wrap
    BY <2>1, <2>2 DEF Ctrl
  <2>4. l.wrap < hi => l.end_free = l.start
    BY <2>1 DEF CtlOK
  <2> QED
    BY <1>1, <1>2, <2>1, <2>2, <2>3, <2>4 DEF Ring
<1> QED
  BY <1>3, <1>4

LEMMA RingWithout ==
  ASSUME NEW c, Ring(c), NEW x \in Nat, 0 < x, x < Used(c)
  PROVE  Ring(Without(c, Cell(c, x)))
<1> DEFINE n == Cell(c, x)
           w == Without(c, n)
<1>1. /\ c.start \in 0..Size /\ c.free \in 0..Size /\ c.wrap \in 0..Size /\ c \in Ctrl /\ CtlOK(c)
      /\ Size \in Nat /\ Header \in Nat /\ hi = Size
  BY CtrlFields DEF CtlOK, Ring
<1>2. CtlOK(w) /\ w.free = c.free /\ (w.wrap < hi => w.wrap = c.wrap)
  BY <1>1, WithoutFacts
<1>3. n \in Int
  BY <1>1, CellFacts, CtrlFields DEF Cells
<1> HIDE DEF n
<1>4. w.start = n /\ (n < c.start => w.wrap = hi)
  BY <1>1 DEF Without, Ctrl
<1> HIDE DEF w
<1> QED
  BY <1>1, <1>2, <1>3, <1>4 DEF Ring, w, n

LEMMA RingCleared == Ring(Cleared) /\ Used(Cleared) = 0
BY TraceMemoryAssumption DEF Ring, CtlOK, Used, Cleared, Ctrl, lo, hi

(* The dropped one was all there was.                                      *)
LEMMA RingEmptied ==
  ASSUME NEW c, Ring(c)
  PROVE  /\ Emptied(Without(c, Cell(c, Used(c)))) = Cleared
         /\ Used(c) > 0 => Emptied(c) = c
<1>1. Cell(c, Used(c)) = c.free /\ c \in Ctrl
  BY CellFacts DEF Ring, CtlOK
<1>2. Without(c, c.free).start = c.free /\ Without(c, c.free).end_free = c.free /\ Without(c, c.free).free = c.free
  BY <1>1 DEF Without, Ctrl
<1> QED
  BY <1>1, <1>2, RingFacts DEF Emptied

-----------------------------------------------------------------------------
(* The frames n + 1, ..., n + k in the buffer, of which the last one is    *)
(* collected if at # -1, and behind them a piece of g cells that was       *)
(* granted at p and is not filled.                                         *)
Holding(m, c, o, k, n, at, p, g) ==
  /\ Ring(c)
  /\ Chain(m, c, o, k, n)
  /\ o[k + 1] + g = Used(c)
  /\ at # -1 => k > 0 /\ at = Cell(c, o[k])
  /\ g > 0 => p \in Cells /\ Follows(c, o[k + 1], p, g) /\ c.free = p + g
Stocked(m, c, k, n, at, p, g) == \E o : Holding(m, c, o, k, n, at, p, g)

LEMMA HoldingFacts ==
  ASSUME NEW m, NEW c, NEW o, NEW k \in Nat, NEW n \in Int, NEW at, NEW p, NEW g \in Nat,
         Holding(m, c, o, k, n, at, p, g)
  PROVE  /\ CtlOK(c) /\ Ring(c) /\ Used(c) \in Nat /\ o[k + 1] \in Nat /\ o[k + 1] <= Used(c)
         /\ Chain(m, c, o, k, n) /\ o[k + 1] + g = Used(c) /\ o \in [Nat -> Nat]
BY CellFacts DEF Holding, Ring, Chain

(* Without frames.                                                         *)
LEMMA StockedCleared ==
  ASSUME NEW m, NEW n \in Int, NEW p PROVE Stocked(m, Cleared, 0, n, -1, p, 0)
<1> DEFINE o == [i \in Nat |-> 0]
<1>1. Chain(m, Cleared, o, 0, n) /\ o[1] = 0
  BY RingCleared DEF Chain
<1>2. Holding(m, Cleared, o, 0, n, -1, p, 0)
  BY <1>1, RingCleared DEF Holding
<1> QED
  BY <1>2 DEF Stocked

(* An allocation.                                                          *)
LEMMA StockedTaken ==
  ASSUME NEW m, NEW c, NEW k \in Nat, NEW n \in Int, NEW at, NEW p, Stocked(m, c, k, n, at, p, 0),
         NEW amt \in Nat, amt > 0, Fits(c, amt)
  PROVE  Stocked(m, Taken(c, amt), k, n, at, Chosen(c, amt).free, amt)
<1> DEFINE t == Taken(c, amt)
           q == Chosen(c, amt).free
<1>1. PICK o : Holding(m, c, o, k, n, at, p, 0)
  BY DEF Stocked
<1>2. CtlOK(c) /\ Used(c) \in Nat /\ o[k + 1] \in Nat /\ Chain(m, c, o, k, n) /\ o[k + 1] = Used(c)
  <2>1. 0 \in Nat
    OBVIOUS
  <2>2. /\ CtlOK(c) /\ Used(c) \in Nat /\ o[k + 1] \in Nat /\ Chain(m, c, o, k, n)
        /\ o[k + 1] + 0 = Used(c)
    BY <1>1, <2>1, HoldingFacts
  <2> QED
    BY <2>2
<1>3. /\ CtlOK(t) /\ Used(t) = Used(c) + amt /\ t.free = q + amt /\ q \in Cells
      /\ \A x \in Nat : x < Used(c) => Cell(t, x) = Cell(c, x)
      /\ \A j \in Nat : j < amt => Cell(t, Used(c) + j) = q + j
  BY <1>2, TakenFacts
<1>4. Ring(t)
  BY <1>2, RingTaken
<1> HIDE DEF t, q
<1>5. Moved(m, c, m, t, 0, o[k + 1])
  BY <1>2, <1>3 DEF Moved
<1>6. Chain(m, t, o, k, n)
  <2>1. o[k + 1] <= Used(t)
    BY <1>2, <1>3
  <2> QED
    BY <1>2, <1>5, <2>1, ChainKept
<1>7. at # -1 => k > 0 /\ at = Cell(t, o[k])
  <2> SUFFICES ASSUME at # -1 PROVE k > 0 /\ at = Cell(t, o[k])
    OBVIOUS
  <2>1. k > 0 /\ at = Cell(c, o[k])
    BY <1>1 DEF Holding
  <2>2. Framed(m, c, o, k, n) /\ Ordered(c, o, k)
    BY <1>2, ChainFacts
  <2>3. o[k] < Used(c) /\ o[k] \in Nat
    BY <2>1, <2>2 DEF Framed, Ordered
  <2> QED
    BY <1>3, <2>1, <2>3
<1>8. Follows(t, o[k + 1], q, amt) /\ o[k + 1] + amt = Used(t)
  BY <1>2, <1>3 DEF Follows
<1>9. Holding(m, t, o, k, n, at, q, amt)
  BY <1>3, <1>4, <1>6, <1>7, <1>8 DEF Holding
<1> QED
  BY <1>9 DEF Stocked, t, q

(* The marker of the end is written behind what is in use.                 *)
LEMMA StockedMarked ==
  ASSUME NEW m, NEW c, NEW k \in Nat, NEW n \in Int, NEW at, NEW p, NEW g \in Nat, Stocked(m, c, k, n, at, p, g), NEW h
  PROVE  Stocked(PutHeader(m, c.free, h), c, k, n, at, p, g)
<1> DEFINE m2 == PutHeader(m, c.free, h)
<1>1. PICK o : Holding(m, c, o, k, n, at, p, g)
  BY DEF Stocked
<1>2. CtlOK(c) /\ Ring(c) /\ Used(c) \in Nat /\ o[k + 1] \in Nat /\ o[k + 1] <= Used(c) /\ Chain(m, c, o, k, n)
  BY <1>1, HoldingFacts
<1>3. \A a \in Cells : a \notin c.free..(c.free + Header - 1) => m2[a] = m[a]
  BY <1>2, RingFacts, PutHeaderFacts
<1> HIDE DEF m2
<1>4. Moved(m, c, m2, c, 0, o[k + 1])
  <2> SUFFICES ASSUME NEW x \in Nat, x < o[k + 1] PROVE Cell(c, x - 0) = Cell(c, x) /\ m2[Cell(c, x)] = m[Cell(c, x)]
    BY DEF Moved
  <2>1. x - 0 = x /\ x < Used(c)
    BY <1>2
  <2> QED
    BY <1>2, <1>3, <2>1, RingFacts
<1>5. Chain(m2, c, o, k, n)
  BY <1>2, <1>4, ChainKept
<1>6. Holding(m2, c, o, k, n, at, p, g)
  BY <1>1, <1>5 DEF Holding
<1> QED
  BY <1>6 DEF Stocked, m2

(* The piece is filled, with the header of a frame or with a block.        *)
LEMMA StockedFrame ==
  ASSUME NEW m, NEW c, NEW k \in Nat, NEW n \in Int, NEW p, NEW q, Stocked(m, c, k, n, -1, p, Header)
  PROVE  Stocked(PutHeader(m, p, TraceFrame(n + k + 1, 0)), c, k + 1, n, p, q, 0)
<1> DEFINE m2 == PutHeader(m, p, TraceFrame(n + k + 1, 0))
<1>1. PICK o : Holding(m, c, o, k, n, -1, p, Header)
  BY DEF Stocked
<1> DEFINE o2 == [o EXCEPT ![k + 2] = Used(c)]
<1>2. Header \in Nat /\ Header > 0 /\ k + 1 \in Nat
  BY TraceMemoryAssumption
<1>3. /\ CtlOK(c) /\ Ring(c) /\ Used(c) \in Nat /\ o[k + 1] \in Nat /\ Chain(m, c, o, k, n)
      /\ o[k + 1] + Header = Used(c) /\ o \in [Nat -> Nat]
  BY <1>1, <1>2, HoldingFacts
<1>4. p \in Cells /\ Follows(c, o[k + 1], p, Header)
  BY <1>1, <1>2 DEF Holding
<1>5. Chain(m2, c, o2, k + 1, n)
  BY <1>3, <1>4, ChainAdd
<1>6. o2[k + 1] = o[k + 1] /\ o2[(k + 1) + 1] = Used(c)
  BY <1>3
<1> HIDE DEF m2, o2
<1>7. Cell(c, o2[k + 1]) = p
  <2>1. Cell(c, o[k + 1] + 0) = p + 0
    BY <1>2, <1>4 DEF Follows
  <2>2. o[k + 1] + 0 = o[k + 1] /\ p + 0 = p
    BY <1>3, <1>4, TraceMemoryAssumption DEF Cells, lo, hi
  <2> QED
    BY <1>6, <2>1, <2>2
<1>8. Holding(m2, c, o2, k + 1, n, p, q, 0)
  BY <1>2, <1>3, <1>5, <1>6, <1>7 DEF Holding
<1> QED
  BY <1>8 DEF Stocked, m2

LEMMA StockedBlock ==
  ASSUME NEW m, m = [a \in Cells |-> m[a]], NEW c, NEW k \in Nat, NEW n \in Int, NEW at, at # -1, NEW p, NEW q,
         NEW len \in Blocks, Stocked(m, c, k, n, at, p, len)
  PROVE  LET size == HeaderAt(m, at).size
             data == PutBlock(m, p, len, n + k, size)
         IN  Stocked([data EXCEPT ![at] = TraceFrame(n + k, size + len)], c, k, n, at, q, 0)
<1>1. PICK o : Holding(m, c, o, k, n, at, p, len)
  BY DEF Stocked
<1> DEFINE size == SizeIn(o, k)
           data == PutBlock(m, p, len, n + k, size)
           m2 == [data EXCEPT ![at] = TraceFrame(n + k, size + len)]
           o2 == [o EXCEPT ![k + 1] = Used(c)]
<1>2. len \in Nat /\ len > 0
  BY TraceMemoryAssumption
<1>3. /\ CtlOK(c) /\ Ring(c) /\ Used(c) \in Nat /\ o[k + 1] \in Nat /\ Chain(m, c, o, k, n)
      /\ o[k + 1] + len = Used(c) /\ o \in [Nat -> Nat]
  BY <1>1, <1>2, HoldingFacts
<1>4. p \in Cells /\ Follows(c, o[k + 1], p, len) /\ k > 0 /\ at = Cell(c, o[k])
  BY <1>1, <1>2 DEF Holding
<1>5. Chain(m2, c, o2, k, n)
  BY <1>3, <1>4, ChainGrow
<1>6. o2[k] = o[k] /\ o2[k + 1] = Used(c)
  BY <1>3
<1>7. HeaderAt(m, at).size = size
  <2>1. Framed(m, c, o, k, n)
    BY <1>3, ChainFacts
  <2>2. k \in 1..k
    BY <1>4
  <2>3. HeaderAt(m, Cell(c, o[k])) = TraceFrame(n + k, size)
    BY <2>1, <2>2 DEF Framed
  <2> HIDE DEF size
  <2> QED
    BY <1>4, <2>3 DEF TraceFrame
<1> HIDE DEF o2
<1>8. Holding(m2, c, o2, k, n, at, q, 0)
  BY <1>3, <1>4, <1>5, <1>6 DEF Holding
<1>9. Stocked(m2, c, k, n, at, q, 0)
  BY <1>8 DEF Stocked
<1> QED
  BY <1>7, <1>9

(* The first frame is uploaded.  When it was all there was, and no piece   *)
(* is granted, gdbserver starts from scratch.                              *)
LEMMA FirstFrame ==
  ASSUME NEW m, NEW c, CtlOK(c), NEW o, NEW k \in Nat, k > 0, NEW n \in Int, Chain(m, c, o, k, n)
  PROVE  /\ NextIn(m, c, c.start) = Cell(c, o[2]) /\ NextIn(m, c, c.start) \in Int
         /\ c.start \in Cells /\ HeaderAt(m, c.start) = TraceFrame(n + 1, SizeIn(o, 1))
         /\ SizeIn(o, 1) \in Nat /\ o[1] = 0 /\ o[2] \in Nat /\ o[2] = Header + SizeIn(o, 1) /\ o[2] <= Used(c)
<1>1. Ordered(c, o, k) /\ Framed(m, c, o, k, n) /\ o[1] = 0 /\ Cell(c, 0) = c.start
  BY ChainFacts, CellFacts DEF Chain
<1>2. 1 \in 1..k /\ 1 + 1 = 2 /\ 2 \in 1..(k + 1)
  OBVIOUS
<1>3. /\ HeaderAt(m, c.start) = TraceFrame(n + 1, SizeIn(o, 1)) /\ c.start \in Cells
      /\ SizeIn(o, 1) \in Nat /\ o[1] + Header + SizeIn(o, 1) = o[2] /\ o[2] \in Nat /\ o[2] <= Used(c)
  BY <1>1, <1>2 DEF Framed, Ordered
<1>4. Header \in Nat /\ Header > 0 /\ o[2] = Header + SizeIn(o, 1) /\ Used(c) \in Nat /\ c.start \in Int
  BY <1>1, <1>3, TraceMemoryAssumption, CellFacts DEF Cells, lo, hi
<1>5. HeaderAt(m, c.start).size = SizeIn(o, 1)
  BY <1>3 DEF TraceFrame
<1>6. NextIn(m, c, c.start) = Folded(c, Cell(c, 0) + o[2])
  <2>1. c.start + Header + SizeIn(o, 1) = Cell(c, 0) + o[2]
    <3> HIDE DEF SizeIn
    <3> QED
      BY <1>1, <1>3, <1>4
  <2> QED
    BY <1>5, <2>1 DEF NextIn, Folded
<1>7. Folded(c, Cell(c, 0) + o[2]) = Cell(c, 0 + o[2]) /\ 0 + o[2] = o[2]
  BY <1>3, FoldAdds
<1>8. Cell(c, o[2]) \in Int
  <2>1. CASE o[2] = Used(c)
    BY <2>1, CellFacts, TraceMemoryAssumption DEF Cells, lo, hi
  <2>2. CASE o[2] < Used(c)
    BY <1>3, <2>2, CellFacts, TraceMemoryAssumption DEF Cells, lo, hi
  <2> QED
    BY <1>3, <1>4, <2>1, <2>2
<1> QED
  BY <1>1, <1>3, <1>4, <1>6, <1>7, <1>8

LEMMA StockedDropped ==
  ASSUME NEW m, NEW c, NEW k \in Nat, NEW n \in Int, NEW at, NEW p, NEW g \in Nat, Stocked(m, c, k, n, at, p, g),
         k > 0, at # -1 => k > 1
  PROVE  LET w == Emptied(Without(c, NextIn(m, c, c.start)))
         IN  /\ NextIn(m, c, c.start) \in Int
             /\ Stocked(m, w, k - 1, n + 1, at, p, g)
             /\ w.free = c.free \/ Used(w) = 0
<1> DEFINE w == Emptied(Without(c, NextIn(m, c, c.start)))
<1>1. PICK o : Holding(m, c, o, k, n, at, p, g)
  BY DEF Stocked
<1>2. /\ CtlOK(c) /\ Ring(c) /\ Used(c) \in Nat /\ o[k + 1] \in Nat /\ Chain(m, c, o, k, n)
      /\ o[k + 1] <= Used(c) /\ o[k + 1] + g = Used(c) /\ o \in [Nat -> Nat]
  BY <1>1, HoldingFacts
<1>3. /\ NextIn(m, c, c.start) = Cell(c, o[2]) /\ NextIn(m, c, c.start) \in Int
      /\ o[2] \in Nat /\ o[2] > 0 /\ o[2] <= Used(c)
  <2>1. /\ NextIn(m, c, c.start) = Cell(c, o[2]) /\ NextIn(m, c, c.start) \in Int
        /\ SizeIn(o, 1) \in Nat /\ o[2] \in Nat /\ o[2] = Header + SizeIn(o, 1) /\ o[2] <= Used(c)
    BY <1>2, FirstFrame
  <2>2. Header \in Nat /\ Header > 0
    BY TraceMemoryAssumption
  <2> HIDE DEF SizeIn
  <2> QED
    BY <2>1, <2>2
<1>4. Ordered(c, o, k) /\ Framed(m, c, o, k, n)
  BY <1>2, ChainFacts
<1>5. CASE o[2] = Used(c)
  <2>1. w = Cleared
    BY <1>2, <1>3, <1>5, RingEmptied
  <2>2. k = 1 /\ g = 0 /\ at = -1
    <3>1. CASE k > 1
      <4>1. 2 \in 1..k
        BY <3>1
      <4> QED
        BY <1>2, <1>4, <1>5, <4>1 DEF Framed
    <3>2. CASE k = 1
      BY <1>2, <1>5, <3>2
    <3> QED
      BY <3>1, <3>2
  <2>3. Stocked(m, Cleared, 0, n + 1, -1, p, 0) /\ k - 1 = 0
    BY <2>2, StockedCleared
  <2> QED
    BY <1>3, <2>1, <2>2, <2>3, RingCleared
<1>6. CASE o[2] < Used(c)
  <2> DEFINE v == Without(c, Cell(c, o[2]))
             r == Rest(o, k)
  <2>1. /\ CtlOK(v) /\ Used(v) = Used(c) - o[2] /\ v.free = c.free
        /\ Chain(m, v, r, k - 1, n + 1)
        /\ \A i \in 1..k : Cell(v, r[i]) = Cell(c, o[i + 1]) \/ i = k
        /\ o[k + 1] < Used(c) => Cell(v, r[k]) = Cell(c, o[k + 1])
    BY <1>2, <1>6, ChainWithout
  <2>2. Ring(v)
    BY <1>2, <1>3, <1>6, RingWithout
  <2>3. Used(v) > 0
    BY <1>2, <1>3, <1>6, <2>1
  <2>4. w = v
    BY <1>3, <2>2, <2>3, RingEmptied
  <2>5. r[k] = o[k + 1] - o[2] /\ (k - 1) + 1 = k
    BY DEF Rest
  <2>6. r[k] + g = Used(v)
    BY <1>2, <1>3, <2>1, <2>5
  <2>7. \A y \in Nat : o[2] + y < Used(c) => Cell(v, y) = Cell(c, o[2] + y)
    BY <1>2, <1>3, <1>6, WithoutFacts
  <2> HIDE DEF v, r
  <2>8. at # -1 => k - 1 > 0 /\ at = Cell(v, r[k - 1])
    <3> SUFFICES ASSUME at # -1 PROVE k - 1 > 0 /\ at = Cell(v, r[k - 1])
      OBVIOUS
    <3>1. at = Cell(c, o[k]) /\ k - 1 \in 1..k /\ k - 1 # k /\ (k - 1) + 1 = k
      BY <1>1 DEF Holding
    <3> QED
      BY <2>1, <3>1
  <2>9. g > 0 => p \in Cells /\ Follows(v, r[k], p, g) /\ v.free = p + g
    <3> SUFFICES ASSUME g > 0 PROVE p \in Cells /\ Follows(v, r[k], p, g) /\ v.free = p + g
      OBVIOUS
    <3>1. p \in Cells /\ Follows(c, o[k + 1], p, g) /\ c.free = p + g
      BY <1>1 DEF Holding
    <3>2. ASSUME NEW j \in Nat, j < g PROVE Cell(v, r[k] + j) = p + j
      <4>1. 2 \in 1..(k + 1)
        OBVIOUS
      <4>2. o[2] <= o[k + 1]
        BY <1>4, <4>1 DEF Ordered
      <4>3. r[k] + j \in Nat /\ o[2] + (r[k] + j) = o[k + 1] + j /\ o[2] + (r[k] + j) < Used(c)
        BY <1>2, <1>3, <2>5, <3>2, <4>2
      <4>4. Cell(v, r[k] + j) = Cell(c, o[k + 1] + j)
        BY <2>7, <4>3
      <4> QED
        BY <3>1, <3>2, <4>4 DEF Follows
    <3>3. r[k] + g <= Used(v)
      BY <1>2, <1>3, <2>1, <2>6
    <3> QED
      BY <2>1, <3>1, <3>2, <3>3 DEF Follows
  <2>10. Holding(m, v, r, k - 1, n + 1, at, p, g)
    BY <2>1, <2>2, <2>5, <2>6, <2>8, <2>9 DEF Holding
  <2> QED
    BY <1>3, <2>1, <2>4, <2>10 DEF Stocked
<1> QED
  BY <1>2, <1>3, <1>5, <1>6

-----------------------------------------------------------------------------
(* What a reader finds.                                                    *)

LEMMA StockedRead ==
  ASSUME NEW m, NEW c, NEW k \in Nat, k <= MaxFrames, NEW n \in Int, NEW at, NEW p, NEW g \in Nat,
         Stocked(m, c, k, n, at, p, g)
  PROVE  \A i \in 1..k : HeaderAt(m, Place(m, c)[i]).tp = n + i
<1>1. PICK o : Holding(m, c, o, k, n, at, p, g)
  BY DEF Stocked
<1>2. CtlOK(c) /\ Chain(m, c, o, k, n)
  BY <1>1, HoldingFacts
<1>3. ASSUME NEW i \in 1..k PROVE HeaderAt(m, Place(m, c)[i]).tp = n + i
  <2>1. Place(m, c)[i] = Cell(c, o[i])
    <3>1. i \in 1..(k + 1)
      OBVIOUS
    <3> QED
      BY <1>2, <3>1, PlaceFacts
  <2>2. Intact(m, c, Cell(c, o[i]), n + i)
    BY <1>2, ChainIntact
  <2> QED
    BY <2>1, <2>2 DEF Intact
<1> QED
  BY <1>3

(* The first frame can be read as it is when it does not go on at the      *)
(* beginning.                                                              *)
LEMMA StockedFirst ==
  ASSUME NEW m, NEW c, NEW k \in Nat, k > 0, NEW n \in Int, NEW at, NEW p, NEW g \in Nat,
         Stocked(m, c, k, n, at, p, g)
  PROVE  LET h == HeaderAt(m, c.start)
         IN  /\ h.tp = n + 1
             /\ ~(c.start + Header + h.size > c.wrap) =>
                  \A j \in 0..(h.size - 1) : Holds(m, c.start + Header + j, h.tp, j)
<1> DEFINE h == HeaderAt(m, c.start)
<1>1. PICK o : Holding(m, c, o, k, n, at, p, g)
  BY DEF Stocked
<1>2. CtlOK(c) /\ Chain(m, c, o, k, n)
  BY <1>1, HoldingFacts
<1>3. c.start \in Cells /\ h = TraceFrame(n + 1, SizeIn(o, 1)) /\ SizeIn(o, 1) \in Nat /\ o[1] = 0
  BY <1>2, FirstFrame
<1>4. h.tp = n + 1 /\ h.size \in Nat /\ h.size = SizeIn(o, 1)
  BY <1>3 DEF TraceFrame
<1>5. Intact(m, c, c.start, n + 1)
  <2>1. 1 \in 1..k
    OBVIOUS
  <2>2. Intact(m, c, Cell(c, o[1]), n + 1)
    BY <1>2, <2>1, ChainIntact
  <2> QED
    BY <1>2, <1>3, <2>2, CellFacts
<1>6. c.start \in Int /\ c.wrap \in Int /\ Header \in Nat
  BY <1>2, CtrlFields DEF CtlOK
<1> HIDE DEF h
<1>7. ASSUME ~(c.start + Header + h.size > c.wrap), NEW j \in 0..(h.size - 1)
      PROVE  Holds(m, c.start + Header + j, h.tp, j)
  <2>1. c.start + Header + j < c.wrap
    BY <1>4, <1>6, <1>7
  <2>2. DataCell(c, c.start, j) = c.start + Header + j
    BY <2>1, <1>6 DEF DataCell
  <2>3. Holds(m, DataCell(c, c.start, j), n + 1, j)
    BY <1>5 DEF Intact, h
  <2> QED
    BY <1>4, <2>2, <2>3
<1> QED
  BY <1>4, <1>7 DEF h

(* Where the last frame ends, when nothing is granted behind it.           *)
LEMMA StockedEnd ==
  ASSUME NEW m, NEW c, NEW k \in Nat, NEW n \in Int, NEW at, at # -1, NEW p, Stocked(m, c, k, n, at, p, 0), c.wrap = hi
  PROVE  c.free = at + Header + HeaderAt(m, at).size
<1>1. PICK o : Holding(m, c, o, k, n, at, p, 0)
  BY DEF Stocked
<1>2. CtlOK(c) /\ Used(c) \in Nat /\ Chain(m, c, o, k, n) /\ o[k + 1] + 0 = Used(c) /\ o[k + 1] \in Nat
  <2>1. 0 \in Nat
    OBVIOUS
  <2> QED
    BY <1>1, <2>1, HoldingFacts
<1>3. k > 0 /\ at = Cell(c, o[k])
  BY <1>1 DEF Holding
<1>4. Ordered(c, o, k) /\ Framed(m, c, o, k, n) /\ k \in 1..k
  BY <1>2, <1>3, ChainFacts
<1>5. /\ HeaderAt(m, at) = TraceFrame(n + k, SizeIn(o, k)) /\ SizeIn(o, k) \in Nat
      /\ o[k] + Header + SizeIn(o, k) = o[k + 1] /\ o[k] \in Nat /\ o[k] < Used(c)
  BY <1>3, <1>4 DEF Ordered, Framed
<1>6. HeaderAt(m, at).size = SizeIn(o, k)
  BY <1>5 DEF TraceFrame
<1>7. /\ c.start \in Int /\ c.free \in Int /\ c.wrap = Size /\ Header \in Nat /\ Size \in Nat
      /\ Used(c) = c.free - c.start /\ c.free <= Size
  BY <1>2, CtrlFields DEF CtlOK, Used
<1>8. at = c.start + o[k]
  BY <1>3, <1>5, <1>7 DEF Cell, Folded
<1> HIDE DEF SizeIn
<1> QED
  BY <1>2, <1>5, <1>6, <1>7, <1>8

LEMMA StockedFacts ==
  ASSUME NEW m, NEW c, NEW k \in Nat, NEW n \in Int, NEW at, NEW p, NEW g \in Nat, Stocked(m, c, k, n, at, p, g)
  PROVE  /\ k > 0 \/ g > 0 => Used(c) > 0
         /\ g > 0 => p \in Cells /\ c.free = p + g
         /\ g = 0 => \A q : Stocked(m, c, k, n, at, q, 0)
<1>1. PICK o : Holding(m, c, o, k, n, at, p, g)
  BY DEF Stocked
<1>2. CtlOK(c) /\ Used(c) \in Nat /\ Chain(m, c, o, k, n) /\ o[k + 1] + g = Used(c) /\ o[k + 1] \in Nat
  BY <1>1, HoldingFacts
<1>3. k > 0 => Used(c) > 0
  <2> SUFFICES ASSUME k > 0 PROVE Used(c) > 0
    OBVIOUS
  <2>1. Framed(m, c, o, k, n) /\ Ordered(c, o, k) /\ 1 \in 1..k
    BY <1>2, ChainFacts
  <2>2. o[1] < Used(c) /\ o[1] = 0
    BY <1>2, <2>1 DEF Framed, Chain
  <2> QED
    BY <2>2
<1>4. g > 0 => Used(c) > 0
  BY <1>2
<1>5. g = 0 => \A q : Holding(m, c, o, k, n, at, q, 0)
  BY <1>1 DEF Holding
<1> QED
  BY <1>1, <1>3, <1>4, <1>5 DEF Stocked, Holding

-----------------------------------------------------------------------------
(* The invariant.                                                          *)

(* Has the live trace_buffer_ctrl a piece that the agent did not fill yet? *)
Unfilled == ipa.pc \in {"mark", "fill"} \/ (ipa.pc \in {"leave", "check"} /\ token # Stamp(ipa.prev))
Granted == IF Unfilled THEN ipa.want ELSE 0
Held == IF ipa.at = -1 THEN Unread ELSE Unread + 1
Before == made - Unread

Has(c, g) == Stocked(mem, c, Held, Before, ipa.at, ipa.piece, g)

LiveInv == Has(Live, Granted)

(* What becomes live when gdbserver undoes the commit.                     *)
UndoneInv == ipa.pc = "leave" /\ token = Commit(ipa.prev) => Has(ctrl[ipa.prev.idx], 0)

(* What becomes live when gdbserver does not come.                         *)
CopiedInv ==
  /\ ipa.pc = "find" /\ token = ipa.prev => ctrl[Curr] = ctrl[ipa.prev.idx]
  /\ ipa.pc = "commit" /\ token = ipa.prev => Has(ctrl[Curr], ipa.want)

(* The agent reads the live one while gdbserver writes it.                 *)
ServerCtrlInv ==
  /\ Uploading => gs.ctrl.free = ctrl[gs.tok.idx].free \/ Used(gs.ctrl) = 0
  /\ gs.pc \in {"free", "end_free", "wrap", "done"} => ctrl[gs.tok.idx].start = gs.ctrl.start
  /\ gs.pc \in {"end_free", "wrap", "done"} => ctrl[gs.tok.idx].free = gs.ctrl.free
  /\ gs.pc \in {"wrap", "done"} => ctrl[gs.tok.idx].end_free = gs.ctrl.end_free
  /\ gs.pc = "done" => ctrl[gs.tok.idx] = gs.ctrl

BufferInv == LiveInv /\ UndoneInv /\ CopiedInv /\ ServerCtrlInv

LEMMA IndexFacts ==
  ASSUME ControlInv
  PROVE  /\ token.idx \in 0..2 /\ ipa.prev.idx \in 0..2 /\ gs.tok.idx \in 0..2 /\ Curr \in 0..2
         /\ Curr # ipa.prev.idx /\ Commit(ipa.prev).idx = Curr
         /\ Stamped => gs.tok.idx = token.idx
         /\ ipa.pc \in {"enter", "copy", "find", "commit"} => token.idx = ipa.prev.idx
         /\ Unfilled => token.idx = Curr
<1>1. token \in Token /\ ipa.prev \in Token /\ gs.tok \in Token
  BY DEF ControlInv, TypesInv, Agent, Server
<1>2. Commit(ipa.prev) \in Token /\ Stamp(ipa.prev) \in Token /\ Stamp(gs.tok) \in Token
  BY <1>1, TokenFacts
<1>3. \A t \in Token : t.idx \in 0..2
  BY DEF Token
<1>4. /\ Stamp(gs.tok).idx = gs.tok.idx /\ Stamp(ipa.prev).idx = ipa.prev.idx
      /\ Commit(ipa.prev).idx # ipa.prev.idx /\ Stamp(Commit(ipa.prev)).idx = Commit(ipa.prev).idx
  BY <1>1, TokenFacts
<1>5. TokenInv
  BY DEF ControlInv
<1> QED
  BY <1>1, <1>2, <1>3, <1>4, <1>5 DEF TokenInv, Unfilled, Curr

LEMMA CountFacts ==
  ASSUME ControlInv
  PROVE  /\ Unread \in Nat /\ made \in Nat /\ Unread <= made /\ Unread <= MaxFrames /\ MaxFrames \in Nat
         /\ Held \in Nat /\ Before \in Int /\ Before + Unread = made
         /\ Granted \in Nat /\ ipa.want \in Nat
         /\ Unfilled => Granted > 0 /\ Granted = ipa.want
         /\ ~Unfilled => Granted = 0
         /\ ipa.pc \notin {"idle", "collect"} => ipa.want > 0
<1>1. made \in Nat /\ wrote \in Nat /\ read \in Nat /\ gs.r \in Nat /\ gs.w \in Nat /\ ipa.want \in Nat
  BY TraceMemoryAssumption DEF ControlInv, TypesInv, Agent, Server
<1>2. Unread \in Nat /\ Unread <= wrote /\ wrote <= made /\ made <= MaxFrames
  BY <1>1 DEF ControlInv, CountInv, Unread, Uploading
<1>3. ipa.pc \notin {"idle", "collect"} => ipa.want > 0
  <2>1. ipa.pc \notin {"idle", "collect"} => ipa.want = Header \/ ipa.want \in Blocks
    BY DEF ControlInv, FrameInv
  <2>2. Header \in Nat /\ Header > 0 /\ \A b \in Blocks : b \in Nat /\ b > 0
    BY TraceMemoryAssumption
  <2> QED
    BY <2>1, <2>2
<1>4. Unfilled => ipa.pc \notin {"idle", "collect"}
  BY DEF Unfilled
<1> QED
  BY <1>1, <1>2, <1>3, <1>4, TraceMemoryAssumption DEF Held, Before, Granted

LEMMA QuietKept ==
  ASSUME ControlInv, LiveInv, mem' = mem, Live' = Live, Held' = Held, Before' = Before, Granted' = Granted,
         ipa'.at \in {ipa.at, -1}, Granted > 0 => ipa'.piece = ipa.piece
  PROVE  LiveInv'
<1>1. Stocked(mem, Live, Held, Before, ipa.at, ipa.piece, Granted)
  BY DEF LiveInv, Has
<1>2. Held \in Nat /\ Before \in Int /\ Granted \in Nat
  BY CountFacts
<1>3. Stocked(mem, Live, Held, Before, ipa.at, ipa'.piece, Granted)
  <2>1. CASE Granted > 0
    BY <1>1, <2>1
  <2>2. CASE Granted = 0
    <3> DEFINE l == Live
               k == Held
               n == Before
    <3>1. Stocked(mem, l, k, n, ipa.at, ipa.piece, 0) /\ k \in Nat /\ n \in Int /\ 0 \in Nat
      BY <1>1, <1>2, <2>2
    <3> HIDE DEF l, k, n
    <3>2. \A q : Stocked(mem, l, k, n, ipa.at, q, 0)
      BY <3>1, StockedFacts
    <3> QED
      BY <2>2, <3>2 DEF l, k, n
  <2> QED
    BY <1>2, <2>1, <2>2
<1>4. Stocked(mem, Live, Held, Before, -1, ipa'.piece, Granted)
  BY <1>3 DEF Stocked, Holding
<1> QED
  BY <1>3, <1>4 DEF LiveInv, Has
-----------------------------------------------------------------------------
(* Most steps neither fill the buffer nor empty it.                        *)

QuietStep ==
  \/ Hit
  \/ Finish
  \/ ReadToken
  \/ Pass("enter", "copy")
  \/ CopyCtrl
  \/ NoSpace
  \/ FindSpace
  \/ Pass("leave", "check")
  \/ CheckToken
  \/ PassFlush
  \/ Flushed
  \/ SetBkpt
  \/ GetToken
  \/ GetCounts
  \/ GetCtrl
  \/ PutStart
  \/ PutRest
  \/ Done
  \/ Event
  \/ FlushEvent
  \/ Status
  \/ StopTracing
  \/ QTStart
  \/ \E size \in Blocks : Action(size)
  \/ UNCHANGED vars

SameBuffer == mem' = mem /\ Live' = Live
SameFrames == Held' = Held /\ Before' = Before /\ ipa'.at \in {ipa.at, -1}
SameGrant == Granted' = Granted /\ (Granted > 0 => ipa'.piece = ipa.piece)

LEMMA QuietBuffer == ASSUME ControlInv, ServerCtrlInv, QuietStep PROVE SameBuffer
<1>1. gs \in [pc : ServerPcs, paused : BOOLEAN, flush : BOOLEAN, tok : Token, w : Nat, r : Nat, ctrl : Fields]
  BY DEF ControlInv, TypesInv, Server
<1>2. ipa \in [pc : AgentPcs, at : {-1} \cup Cells, want : {0, Header} \cup Blocks, blocks : 0..MaxBlocks,
              prev : Token, piece : Int]
  BY DEF ControlInv, TypesInv, Agent
<1>3. ctrl \in [0..2 -> Fields]
  BY DEF ControlInv, TypesInv
<1>4. BkptInv /\ TokenInv /\ Curr # ipa.prev.idx /\ Curr \in 0..2
  BY IndexFacts DEF ControlInv
<1> USE DEF Runs, SameBuffer, Live, Uploading, Stamped, ServerCtrlInv
<1>5. CASE Hit
  BY <1>1, <1>2, <1>3, <1>4, IndexFacts, <1>5 DEF Hit, Idle
<1>6. CASE Finish
  BY <1>1, <1>2, <1>3, <1>4, IndexFacts, <1>6 DEF Finish, Idle
<1>7. CASE ReadToken
  BY <1>1, <1>2, <1>3, <1>4, IndexFacts, <1>7 DEF ReadToken
<1>8. CASE Pass("enter", "copy")
  BY <1>1, <1>2, <1>3, <1>4, IndexFacts, <1>8 DEF Pass
<1>9. CASE CopyCtrl
  BY <1>1, <1>2, <1>3, <1>4, IndexFacts, <1>9 DEF CopyCtrl
<1>10. CASE NoSpace
  BY <1>1, <1>2, <1>3, <1>4, IndexFacts, <1>10 DEF NoSpace
<1>11. CASE FindSpace
  BY <1>1, <1>2, <1>3, <1>4, IndexFacts, <1>11 DEF FindSpace
<1>12. CASE Pass("leave", "check")
  BY <1>1, <1>2, <1>3, <1>4, IndexFacts, <1>12 DEF Pass
<1>13. CASE CheckToken
  BY <1>1, <1>2, <1>3, <1>4, IndexFacts, <1>13 DEF CheckToken
<1>14. CASE PassFlush
  BY <1>1, <1>2, <1>3, <1>4, IndexFacts, <1>14 DEF PassFlush
<1>15. CASE Flushed
  BY <1>1, <1>2, <1>3, <1>4, IndexFacts, <1>15 DEF Flushed, Idle
<1>16. CASE SetBkpt
  BY <1>1, <1>2, <1>3, <1>4, IndexFacts, <1>16 DEF SetBkpt
<1>17. CASE GetToken
  BY <1>1, <1>2, <1>3, <1>4, IndexFacts, <1>17 DEF GetToken
<1>18. CASE GetCounts
  BY <1>1, <1>2, <1>3, <1>4, IndexFacts, <1>18 DEF GetCounts
<1>19. CASE GetCtrl
  BY <1>1, <1>2, <1>3, <1>4, IndexFacts, <1>19 DEF GetCtrl
<1>20. CASE PutStart
  BY <1>1, <1>2, <1>3, <1>4, IndexFacts, <1>20 DEF PutStart, Put
<1>21. CASE PutRest
  BY <1>1, <1>2, <1>3, <1>4, IndexFacts, <1>21 DEF PutRest, Put
<1>22. CASE Done
  BY <1>1, <1>2, <1>3, <1>4, IndexFacts, <1>22 DEF Done, Resting
<1>23. CASE Event
  BY <1>1, <1>2, <1>3, <1>4, IndexFacts, <1>23 DEF Event, Begin, Resting, NothingNew
<1>24. CASE FlushEvent
  BY <1>1, <1>2, <1>3, <1>4, IndexFacts, <1>24 DEF FlushEvent, Begin, Resting, NothingNew
<1>25. CASE Status
  BY <1>1, <1>2, <1>3, <1>4, IndexFacts, <1>25 DEF Status, Begin, Resting, NothingNew
<1>26. CASE StopTracing
  BY <1>1, <1>2, <1>3, <1>4, IndexFacts, <1>26 DEF StopTracing, Begin, Resting, NothingNew
<1>27. CASE QTStart
  BY <1>1, <1>2, <1>3, <1>4, IndexFacts, <1>27 DEF QTStart
<1>28. CASE \E size \in Blocks : Action(size)
  BY <1>1, <1>2, <1>3, <1>4, IndexFacts, <1>28 DEF Action
<1>29. CASE UNCHANGED vars
  BY <1>1, <1>2, <1>3, <1>4, IndexFacts, <1>29 DEF vars
<1> QED
  BY <1>5, <1>6, <1>7, <1>8, <1>9, <1>10, <1>11, <1>12, <1>13, <1>14, <1>15, <1>16, <1>17, <1>18, <1>19,
     <1>20, <1>21, <1>22, <1>23, <1>24, <1>25, <1>26, <1>27, <1>28, <1>29 DEF QuietStep

LEMMA QuietFrames == ASSUME ControlInv, ServerCtrlInv, QuietStep PROVE SameFrames
<1>1. gs \in [pc : ServerPcs, paused : BOOLEAN, flush : BOOLEAN, tok : Token, w : Nat, r : Nat, ctrl : Fields]
  BY DEF ControlInv, TypesInv, Server
<1>2. ipa \in [pc : AgentPcs, at : {-1} \cup Cells, want : {0, Header} \cup Blocks, blocks : 0..MaxBlocks,
              prev : Token, piece : Int]
  BY DEF ControlInv, TypesInv, Agent
<1>3. made \in Nat /\ wrote \in Nat /\ read \in Nat
  BY DEF ControlInv, TypesInv
<1>4. FrameInv /\ CountInv
  BY DEF ControlInv
<1> USE DEF Runs, SameFrames, Unread, Uploading, Held, Before, FrameInv, CountInv
<1>5. CASE Hit
  BY <1>1, <1>2, <1>3, <1>4, <1>5 DEF Hit, Idle
<1>6. CASE Finish
  BY <1>1, <1>2, <1>3, <1>4, <1>6 DEF Finish, Idle
<1>7. CASE ReadToken
  BY <1>1, <1>2, <1>3, <1>4, <1>7 DEF ReadToken
<1>8. CASE Pass("enter", "copy")
  BY <1>1, <1>2, <1>3, <1>4, <1>8 DEF Pass
<1>9. CASE CopyCtrl
  BY <1>1, <1>2, <1>3, <1>4, <1>9 DEF CopyCtrl
<1>10. CASE NoSpace
  BY <1>1, <1>2, <1>3, <1>4, <1>10 DEF NoSpace
<1>11. CASE FindSpace
  BY <1>1, <1>2, <1>3, <1>4, <1>11 DEF FindSpace
<1>12. CASE Pass("leave", "check")
  BY <1>1, <1>2, <1>3, <1>4, <1>12 DEF Pass
<1>13. CASE CheckToken
  BY <1>1, <1>2, <1>3, <1>4, <1>13 DEF CheckToken
<1>14. CASE PassFlush
  BY <1>1, <1>2, <1>3, <1>4, <1>14 DEF PassFlush
<1>15. CASE Flushed
  BY <1>1, <1>2, <1>3, <1>4, <1>15 DEF Flushed, Idle
<1>16. CASE SetBkpt
  BY <1>1, <1>2, <1>3, <1>4, <1>16 DEF SetBkpt
<1>17. CASE GetToken
  BY <1>1, <1>2, <1>3, <1>4, <1>17 DEF GetToken
<1>18. CASE GetCounts
  BY <1>1, <1>2, <1>3, <1>4, <1>18 DEF GetCounts
<1>19. CASE GetCtrl
  BY <1>1, <1>2, <1>3, <1>4, <1>19 DEF GetCtrl
<1>20. CASE PutStart
  BY <1>1, <1>2, <1>3, <1>4, <1>20 DEF PutStart, Put
<1>21. CASE PutRest
  BY <1>1, <1>2, <1>3, <1>4, <1>21 DEF PutRest, Put
<1>22. CASE Done
  BY <1>1, <1>2, <1>3, <1>4, <1>22 DEF Done, Resting
<1>23. CASE Event
  BY <1>1, <1>2, <1>3, <1>4, <1>23 DEF Event, Begin, Resting, NothingNew
<1>24. CASE FlushEvent
  BY <1>1, <1>2, <1>3, <1>4, <1>24 DEF FlushEvent, Begin, Resting, NothingNew
<1>25. CASE Status
  BY <1>1, <1>2, <1>3, <1>4, <1>25 DEF Status, Begin, Resting, NothingNew
<1>26. CASE StopTracing
  BY <1>1, <1>2, <1>3, <1>4, <1>26 DEF StopTracing, Begin, Resting, NothingNew
<1>27. CASE QTStart
  BY <1>1, <1>2, <1>3, <1>4, <1>27 DEF QTStart
<1>28. CASE \E size \in Blocks : Action(size)
  BY <1>1, <1>2, <1>3, <1>4, <1>28 DEF Action
<1>29. CASE UNCHANGED vars
  BY <1>1, <1>2, <1>3, <1>4, <1>29 DEF vars
<1> QED
  BY <1>5, <1>6, <1>7, <1>8, <1>9, <1>10, <1>11, <1>12, <1>13, <1>14, <1>15, <1>16, <1>17, <1>18, <1>19,
     <1>20, <1>21, <1>22, <1>23, <1>24, <1>25, <1>26, <1>27, <1>28, <1>29 DEF QuietStep

LEMMA QuietGrant == ASSUME ControlInv, ServerCtrlInv, QuietStep PROVE SameGrant
<1>1. gs \in [pc : ServerPcs, paused : BOOLEAN, flush : BOOLEAN, tok : Token, w : Nat, r : Nat, ctrl : Fields]
  BY DEF ControlInv, TypesInv, Server
<1>2. ipa \in [pc : AgentPcs, at : {-1} \cup Cells, want : {0, Header} \cup Blocks, blocks : 0..MaxBlocks,
              prev : Token, piece : Int]
  BY DEF ControlInv, TypesInv, Agent
<1>3. /\ token \in Token /\ ipa.prev \in Token /\ gs.tok \in Token
      /\ Stamp(ipa.prev) # ipa.prev /\ Stamp(ipa.prev) # Commit(ipa.prev)
      /\ Stamp(ipa.prev) # Stamp(Commit(ipa.prev)) /\ Stamp(Commit(ipa.prev)) # Commit(ipa.prev)
      /\ Effective(Commit(ipa.prev), ipa.prev) /\ Effective(Stamp(Commit(ipa.prev)), ipa.prev)
      /\ ~Effective(Stamp(ipa.prev), ipa.prev)
  BY TokenFacts DEF ControlInv, TypesInv, Agent, Server
<1>4. BkptInv /\ TokenInv
  BY DEF ControlInv
<1> USE DEF Runs, SameGrant, Unfilled, Granted, BkptInv, TokenInv
<1>5. CASE Hit
  BY <1>1, <1>2, <1>3, <1>4, <1>5 DEF Hit, Idle
<1>6. CASE Finish
  BY <1>1, <1>2, <1>3, <1>4, <1>6 DEF Finish, Idle
<1>7. CASE ReadToken
  BY <1>1, <1>2, <1>3, <1>4, <1>7 DEF ReadToken
<1>8. CASE Pass("enter", "copy")
  BY <1>1, <1>2, <1>3, <1>4, <1>8 DEF Pass
<1>9. CASE CopyCtrl
  BY <1>1, <1>2, <1>3, <1>4, <1>9 DEF CopyCtrl
<1>10. CASE NoSpace
  BY <1>1, <1>2, <1>3, <1>4, <1>10 DEF NoSpace
<1>11. CASE FindSpace
  BY <1>1, <1>2, <1>3, <1>4, <1>11 DEF FindSpace
<1>12. CASE Pass("leave", "check")
  BY <1>1, <1>2, <1>3, <1>4, <1>12 DEF Pass
<1>13. CASE CheckToken
  BY <1>1, <1>2, <1>3, <1>4, <1>13 DEF CheckToken
<1>14. CASE PassFlush
  BY <1>1, <1>2, <1>3, <1>4, <1>14 DEF PassFlush
<1>15. CASE Flushed
  BY <1>1, <1>2, <1>3, <1>4, <1>15 DEF Flushed, Idle
<1>16. CASE SetBkpt
  BY <1>1, <1>2, <1>3, <1>4, <1>16 DEF SetBkpt
<1>17. CASE GetToken
  BY <1>1, <1>2, <1>3, <1>4, <1>17 DEF GetToken
<1>18. CASE GetCounts
  BY <1>1, <1>2, <1>3, <1>4, <1>18 DEF GetCounts
<1>19. CASE GetCtrl
  BY <1>1, <1>2, <1>3, <1>4, <1>19 DEF GetCtrl
<1>20. CASE PutStart
  BY <1>1, <1>2, <1>3, <1>4, <1>20 DEF PutStart, Put
<1>21. CASE PutRest
  BY <1>1, <1>2, <1>3, <1>4, <1>21 DEF PutRest, Put
<1>22. CASE Done
  BY <1>1, <1>2, <1>3, <1>4, <1>22 DEF Done, Resting
<1>23. CASE Event
  BY <1>1, <1>2, <1>3, <1>4, <1>23 DEF Event, Begin, Resting, NothingNew
<1>24. CASE FlushEvent
  BY <1>1, <1>2, <1>3, <1>4, <1>24 DEF FlushEvent, Begin, Resting, NothingNew
<1>25. CASE Status
  BY <1>1, <1>2, <1>3, <1>4, <1>25 DEF Status, Begin, Resting, NothingNew
<1>26. CASE StopTracing
  BY <1>1, <1>2, <1>3, <1>4, <1>26 DEF StopTracing, Begin, Resting, NothingNew
<1>27. CASE QTStart
  BY <1>1, <1>2, <1>3, <1>4, <1>27 DEF QTStart
<1>28. CASE \E size \in Blocks : Action(size)
  BY <1>1, <1>2, <1>3, <1>4, <1>28 DEF Action
<1>29. CASE UNCHANGED vars
  BY <1>1, <1>2, <1>3, <1>4, <1>29 DEF vars
<1> QED
  BY <1>5, <1>6, <1>7, <1>8, <1>9, <1>10, <1>11, <1>12, <1>13, <1>14, <1>15, <1>16, <1>17, <1>18, <1>19,
     <1>20, <1>21, <1>22, <1>23, <1>24, <1>25, <1>26, <1>27, <1>28, <1>29 DEF QuietStep

LEMMA QuietSteps == ASSUME ControlInv, ServerCtrlInv, LiveInv, QuietStep PROVE LiveInv'
BY QuietBuffer, QuietFrames, QuietGrant, QuietKept DEF SameBuffer, SameFrames, SameGrant

-----------------------------------------------------------------------------
(* The steps that do.                                                      *)

(* What the records of the agent and of gdbserver are made of.             *)
LEMMA Records ==
  ASSUME ControlInv
  PROVE  /\ gs \in [pc : ServerPcs, paused : BOOLEAN, flush : BOOLEAN, tok : Token, w : Nat, r : Nat, ctrl : Fields]
         /\ ipa \in [pc : AgentPcs, at : {-1} \cup Cells, want : {0, Header} \cup Blocks, blocks : 0..MaxBlocks,
                     prev : Token, piece : Int]
         /\ ctrl \in [0..2 -> Fields] /\ token \in Token /\ mem = [c \in Cells |-> mem[c]]
         /\ wrote \in Nat /\ read \in Nat /\ made \in Nat
BY DEF ControlInv, TypesInv, Agent, Server

LEMMA CommitLive == ASSUME ControlInv, BufferInv, CommitToken PROVE LiveInv'
<1>1. /\ Stamp(ipa.prev) # ipa.prev /\ Stamp(ipa.prev) # Commit(ipa.prev) /\ ipa.prev \in Token
      /\ LiveInv /\ CopiedInv /\ TokenInv
  BY Records, TokenFacts DEF ControlInv, BufferInv
<1>2. CASE token = ipa.prev
  <2>1. ~Stamped
    BY <1>1, <1>2 DEF CommitToken, Runs, TokenInv
  <2>2. /\ mem' = mem /\ Live' = ctrl[Curr] /\ Held' = Held /\ Before' = Before
        /\ ipa'.at = ipa.at /\ ipa'.piece = ipa.piece
    BY <1>2, <2>1, Records DEF CommitToken, Runs, Live, Uploading, Stamped, Held, Before, Unread, Curr
  <2>3. Granted' = ipa.want
    BY <1>1, <1>2, Records DEF CommitToken, Runs, Granted, Unfilled
  <2>4. Stocked(mem, ctrl[Curr], Held, Before, ipa.at, ipa.piece, ipa.want)
    BY <1>1, <1>2 DEF CommitToken, Runs, CopiedInv, Has
  <2> QED
    BY <2>2, <2>3, <2>4 DEF LiveInv, Has
<1>3. CASE token # ipa.prev
  <2>1. /\ mem' = mem /\ Live' = Live /\ Held' = Held /\ Before' = Before
        /\ ipa'.at = ipa.at /\ ipa'.piece = ipa.piece
    BY <1>3, Records DEF CommitToken, Runs, Live, Uploading, Held, Before, Unread
  <2>2. Granted' = Granted
    BY <1>3, Records DEF CommitToken, Runs, Granted, Unfilled
  <2> QED
    BY <1>1, <2>1, <2>2, QuietKept
<1> QED
  BY <1>2, <1>3

(* A piece is granted: the agent sees the end of the live one.             *)
LEMMA GrantedFacts ==
  ASSUME ControlInv, BufferInv, ipa.pc \in {"mark", "fill"}
  PROVE  /\ Granted = ipa.want /\ ipa.want > 0 /\ Stocked(mem, Live, Held, Before, ipa.at, ipa.piece, ipa.want)
         /\ ipa.piece \in Cells /\ Live.free = ipa.piece + ipa.want /\ ctrl[Curr].free = Live.free
<1>1. Unfilled /\ Granted = ipa.want /\ ipa.want > 0 /\ ipa.want \in Nat /\ Held \in Nat /\ Before \in Int
  BY CountFacts DEF Unfilled
<1>2. Stocked(mem, Live, Held, Before, ipa.at, ipa.piece, ipa.want)
  BY <1>1 DEF BufferInv, LiveInv, Has
<1>3. Used(Live) > 0 /\ ipa.piece \in Cells /\ Live.free = ipa.piece + ipa.want
  <2> DEFINE l == Live
             k == Held
             n == Before
  <2>1. Stocked(mem, l, k, n, ipa.at, ipa.piece, ipa.want) /\ k \in Nat /\ n \in Int
    BY <1>1, <1>2
  <2> HIDE DEF l, k, n
  <2>2. Used(l) > 0 /\ ipa.piece \in Cells /\ l.free = ipa.piece + ipa.want
    BY <1>1, <2>1, StockedFacts
  <2> QED
    BY <2>2 DEF l
<1>4. token.idx = Curr /\ (Stamped => gs.tok.idx = token.idx)
  BY <1>1, IndexFacts
<1>5. CASE Uploading
  <2>1. gs.ctrl.free = ctrl[Curr].free \/ Used(gs.ctrl) = 0
    BY <1>4, <1>5 DEF Live, Uploading, Stamped, BufferInv, ServerCtrlInv
  <2>2. Live = gs.ctrl
    BY <1>5 DEF Live
  <2> QED
    BY <1>1, <1>2, <1>3, <2>1, <2>2
<1>6. CASE ~Uploading
  BY <1>1, <1>2, <1>3, <1>4, <1>6 DEF Live
<1> QED
  BY <1>5, <1>6

LEMMA MarkLive == ASSUME ControlInv, BufferInv, MarkEnd PROVE LiveInv'
<1>1. /\ Stocked(mem, Live, Held, Before, ipa.at, ipa.piece, ipa.want) /\ ctrl[Curr].free = Live.free
      /\ Held \in Nat /\ Before \in Int /\ ipa.want \in Nat
  BY GrantedFacts, CountFacts DEF MarkEnd, Runs
<1>2. Stocked(PutHeader(mem, Live.free, EndMark), Live, Held, Before, ipa.at, ipa.piece, ipa.want)
  <2> DEFINE l == Live
             k == Held
             n == Before
  <2>1. Stocked(mem, l, k, n, ipa.at, ipa.piece, ipa.want) /\ k \in Nat /\ n \in Int
    BY <1>1
  <2> HIDE DEF l, k, n
  <2>2. Stocked(PutHeader(mem, l.free, EndMark), l, k, n, ipa.at, ipa.piece, ipa.want)
    BY <1>1, <2>1, StockedMarked
  <2> QED
    BY <2>2 DEF l, k, n
<1>3. /\ mem' = PutHeader(mem, Live.free, EndMark) /\ Live' = Live /\ Held' = Held /\ Before' = Before
      /\ ipa'.at = ipa.at /\ ipa'.piece = ipa.piece
  BY <1>1, Records DEF MarkEnd, Runs, Live, Uploading, Held, Before, Unread
<1>4. Granted' = ipa.want
  BY Records DEF MarkEnd, Runs, Granted, Unfilled
<1> QED
  BY <1>2, <1>3, <1>4 DEF LiveInv, Has

LEMMA FillLive == ASSUME ControlInv, BufferInv, Fill PROVE LiveInv'
<1>1. /\ Stocked(mem, Live, Held, Before, ipa.at, ipa.piece, ipa.want) /\ ipa.piece \in Cells /\ ipa.piece # -1
      /\ Held \in Nat /\ Before \in Int /\ ipa.want \in Nat /\ Unread \in Nat /\ Before + Unread = made /\ made \in Nat
  <2>1. -1 \notin Cells
    BY TraceMemoryAssumption DEF Cells, lo, hi
  <2> QED
    BY <2>1, GrantedFacts, CountFacts DEF Fill, Runs
<1>2. IF ipa.at = -1 THEN ipa.want = Header ELSE ipa.want \in Blocks
  BY DEF ControlInv, FrameInv, Fill, Runs
<1>3. /\ Live' = Live /\ Unread' = Unread /\ Before' = Before
      /\ ipa'.at = (IF ipa.at = -1 THEN ipa.piece ELSE ipa.at) /\ ipa'.piece = ipa.piece
  BY Records DEF Fill, Runs, Live, Uploading, Before, Unread
<1>4. Granted' = 0
  BY Records DEF Fill, Runs, Granted, Unfilled
<1> DEFINE l == Live
           u == Unread
           n == Before
<1>5. CASE ipa.at = -1
  <2>1. Stocked(mem, l, u, n, -1, ipa.piece, Header) /\ u \in Nat /\ n \in Int /\ n + u = made
    BY <1>1, <1>2, <1>5 DEF Held
  <2>2. mem' = PutHeader(mem, ipa.piece, TraceFrame(made + 1, 0))
    BY <1>5 DEF Fill
  <2>3. Held' = u + 1
    BY <1>1, <1>3, <1>5 DEF Held
  <2> HIDE DEF l, u, n
  <2>4. n + u + 1 = made + 1
    BY <2>1
  <2>5. Stocked(PutHeader(mem, ipa.piece, TraceFrame(n + u + 1, 0)), l, u + 1, n, ipa.piece, ipa.piece, 0)
    BY <2>1, StockedFrame
  <2>6. Stocked(mem', l, u + 1, n, ipa.piece, ipa.piece, 0)
    BY <2>2, <2>4, <2>5
  <2> QED
    BY <1>3, <1>4, <1>5, <2>3, <2>6 DEF LiveInv, Has, l, n
<1>6. CASE ipa.at # -1
  <2>1. Stocked(mem, l, u + 1, n, ipa.at, ipa.piece, ipa.want) /\ u \in Nat /\ n \in Int /\ n + u = made
    BY <1>1, <1>6 DEF Held
  <2>2. mem' = LET size == HeaderAt(mem, ipa.at).size
                   data == PutBlock(mem, ipa.piece, ipa.want, made + 1, size)
               IN  [data EXCEPT ![ipa.at] = TraceFrame(made + 1, size + ipa.want)]
    BY <1>6 DEF Fill
  <2>3. Held' = u + 1
    BY <1>1, <1>3, <1>6 DEF Held
  <2>4. mem = [c \in Cells |-> mem[c]] /\ ipa.want \in Blocks
    BY <1>2, <1>6, Records
  <2> HIDE DEF l, u, n
  <2>5. n + (u + 1) = made + 1 /\ u + 1 \in Nat
    BY <2>1
  <2> DEFINE s == HeaderAt(mem, ipa.at).size
             d(j) == [PutBlock(mem, ipa.piece, ipa.want, j, s) EXCEPT ![ipa.at] = TraceFrame(j, s + ipa.want)]
  <2>6. Stocked(d(n + (u + 1)), l, u + 1, n, ipa.at, ipa.piece, 0)
    BY <1>6, <2>1, <2>4, <2>5, StockedBlock
  <2>7. mem' = d(made + 1)
    BY <2>2
  <2> HIDE DEF d
  <2>8. Stocked(mem', l, u + 1, n, ipa.at, ipa.piece, 0)
    BY <2>5, <2>6, <2>7
  <2> QED
    BY <1>3, <1>4, <1>6, <2>3, <2>8 DEF LiveInv, Has, l, n
<1> QED
  BY <1>5, <1>6

(* gdbserver overwrites a token that it has read, or the one after it.     *)
LEMMA StampLive == ASSUME ControlInv, BufferInv, StampToken PROVE LiveInv'
<1>1. /\ TokenInv /\ UndoneInv /\ LiveInv /\ token \in Token /\ gs.tok \in Token /\ ipa.prev \in Token
      /\ token.idx \in 0..2
  BY Records, IndexFacts DEF ControlInv, BufferInv
<1>2. Stamp(gs.tok).idx = gs.tok.idx /\ Stamp(ipa.prev) # Stamp(Commit(ipa.prev)) /\ Stamp(ipa.prev) # Commit(ipa.prev)
  BY <1>1, TokenFacts
<1>3. /\ mem' = mem /\ Held' = Held /\ Before' = Before /\ ipa' = ipa
      /\ Live = ctrl[token.idx] /\ Live' = ctrl[gs.tok.idx]
  BY <1>2, Records DEF StampToken, Live, Uploading, Held, Before, Unread
<1>4. CASE token = gs.tok
  <2>1. Live' = Live
    BY <1>3, <1>4
  <2>2. ipa.pc \in {"leave", "check"} => token = Commit(ipa.prev)
    <3>1. gs.pc = "stamp" => ~Seen
      BY DEF Seen
    <3> QED
      BY <1>1, <1>4, <3>1 DEF StampToken, TokenInv
  <2>3. Granted' = Granted
    BY <1>2, <1>3, <1>4, <2>2 DEF StampToken, Granted, Unfilled
  <2> QED
    BY <1>1, <1>3, <2>1, <2>3, QuietKept
<1>5. CASE ipa.pc = "leave" /\ ipa.prev = gs.tok /\ token = Commit(gs.tok)
  <2>1. Stocked(mem, ctrl[gs.tok.idx], Held, Before, ipa.at, ipa.piece, 0)
    BY <1>1, <1>5 DEF UndoneInv, Has
  <2>2. Granted' = 0
    BY <1>3, <1>5 DEF StampToken, Granted, Unfilled
  <2> QED
    BY <1>3, <2>1, <2>2 DEF LiveInv, Has
<1> QED
  BY <1>1, <1>4, <1>5 DEF StampToken, TokenInv

(* gdbserver copies a frame out of the buffer.                             *)
LEMMA CopyFacts ==
  ASSUME ControlInv, BufferInv, CopyFrame
  PROVE  /\ Live = gs.ctrl /\ Live' = Emptied(Without(gs.ctrl, NextIn(mem, gs.ctrl, gs.ctrl.start)))
         /\ Unread > 0 /\ Unread' = Unread - 1 /\ Held > 0 /\ Held' = Held - 1 /\ Before' = Before + 1
         /\ mem' = mem /\ Granted' = Granted /\ ipa' = ipa
         /\ NextIn(mem, gs.ctrl, gs.ctrl.start) \in Int
         /\ Stocked(mem, Live, Held, Before, ipa.at, ipa.piece, Granted)
         /\ Stocked(mem, Live', Held - 1, Before + 1, ipa.at, ipa.piece, Granted)
         /\ Live'.free = gs.ctrl.free \/ Used(Live') = 0
<1>1. Live = gs.ctrl /\ Live' = Emptied(Without(gs.ctrl, NextIn(mem, gs.ctrl, gs.ctrl.start)))
  BY Records DEF CopyFrame, Live, Uploading
<1>2. Unread > 0 /\ Unread' = Unread - 1 /\ Unread = wrote - gs.r /\ Unread \in Nat
  <2>1. gs.r < wrote
    BY Records DEF CopyFrame, ControlInv, CountInv
  <2> QED
    BY <2>1, Records DEF CopyFrame, Unread, Uploading
<1>3. Held > 0 /\ Held' = Held - 1 /\ Before' = Before + 1 /\ (ipa.at # -1 => Held > 1)
  <2>1. made' = made /\ ipa' = ipa /\ made \in Nat
    BY Records DEF CopyFrame
  <2>2. Before' = made' - Unread' /\ Before = made - Unread
    BY DEF Before
  <2>3. /\ Held' = (IF ipa'.at = -1 THEN Unread' ELSE Unread' + 1)
        /\ Held = (IF ipa.at = -1 THEN Unread ELSE Unread + 1)
    BY DEF Held
  <2> QED
    BY <1>2, <2>1, <2>2, <2>3
<1>4. mem' = mem /\ ipa' = ipa /\ Granted' = Granted
  BY DEF CopyFrame, Granted, Unfilled
<1>5. Stocked(mem, Live, Held, Before, ipa.at, ipa.piece, Granted) /\ Held \in Nat /\ Before \in Int /\ Granted \in Nat
  BY CountFacts DEF BufferInv, LiveInv, Has
<1>6. /\ NextIn(mem, gs.ctrl, gs.ctrl.start) \in Int
      /\ Stocked(mem, Emptied(Without(gs.ctrl, NextIn(mem, gs.ctrl, gs.ctrl.start))), Held - 1, Before + 1,
                 ipa.at, ipa.piece, Granted)
      /\ \/ Emptied(Without(gs.ctrl, NextIn(mem, gs.ctrl, gs.ctrl.start))).free = gs.ctrl.free
         \/ Used(Emptied(Without(gs.ctrl, NextIn(mem, gs.ctrl, gs.ctrl.start)))) = 0
  <2> DEFINE c == gs.ctrl
             k == Held
             n == Before
             g == Granted
  <2>1. Stocked(mem, c, k, n, ipa.at, ipa.piece, g) /\ k \in Nat /\ n \in Int /\ g \in Nat /\ k > 0 /\ (ipa.at # -1 => k > 1)
    BY <1>1, <1>3, <1>5
  <2> HIDE DEF c, k, n, g
  <2>2. /\ NextIn(mem, c, c.start) \in Int
        /\ Stocked(mem, Emptied(Without(c, NextIn(mem, c, c.start))), k - 1, n + 1, ipa.at, ipa.piece, g)
        /\ \/ Emptied(Without(c, NextIn(mem, c, c.start))).free = c.free
           \/ Used(Emptied(Without(c, NextIn(mem, c, c.start)))) = 0
    BY <2>1, StockedDropped
  <2> QED
    BY <2>2 DEF c, k, n, g
<1> QED
  BY <1>1, <1>2, <1>3, <1>4, <1>5, <1>6

LEMMA CopyLive == ASSUME ControlInv, BufferInv, CopyFrame PROVE LiveInv'
BY CopyFacts DEF LiveInv, Has

LEMMA InitLive == ASSUME ControlInv, BufferInv, QTinit PROVE LiveInv'
<1>1. made \in Nat /\ ipa.at = -1
  BY Records DEF QTinit, ControlInv, FrameInv
<1>2. Live' = Cleared /\ Held' = 0 /\ Before' = made /\ ipa' = ipa /\ Granted' = 0
  BY <1>1, Records DEF QTinit, Live, Uploading, Held, Before, Unread, Granted, Unfilled
<1>3. Stocked(mem', Cleared, 0, made, -1, ipa.piece, 0)
  BY <1>1, StockedCleared
<1> QED
  BY <1>1, <1>2, <1>3 DEF LiveInv, Has

LEMMA LiveInvKept == ASSUME ControlInv, BufferInv, [Next]_vars PROVE LiveInv'
<1>1. QuietStep \/ CommitToken \/ MarkEnd \/ Fill \/ StampToken \/ CopyFrame \/ QTinit
  BY DEF Next, Alloc, Upload, QuietStep
<1>2. CASE QuietStep
  BY <1>2, QuietSteps DEF BufferInv
<1> QED
  BY <1>1, <1>2, CommitLive, MarkLive, FillLive, StampLive, CopyLive, InitLive

-----------------------------------------------------------------------------
(* What the agent has built, or replaced, stays as it is until gdbserver   *)
(* has written the token.                                                  *)

LEMMA AgentMoves ==
  ASSUME ControlInv, [Next]_vars
  PROVE  /\ ipa'.pc = "leave" => CommitToken \/ ipa' = ipa
         /\ ipa'.pc = "find" => CopyCtrl \/ ipa' = ipa
         /\ ipa'.pc = "commit" => FindSpace \/ ipa' = ipa
<1>1. CASE Hit
  BY <1>1 DEF Hit, Idle
<1>2. CASE Finish
  BY <1>2 DEF Finish, Idle
<1>3. CASE \E size \in Blocks : Action(size)
  BY <1>3, Records DEF Action
<1>4. CASE ReadToken
  BY <1>4, Records DEF ReadToken
<1>5. CASE Pass("enter", "copy") \/ Pass("leave", "check")
  BY <1>5, Records DEF Pass
<1>6. CASE CopyCtrl \/ NoSpace \/ FindSpace
  BY <1>6, Records DEF CopyCtrl, NoSpace, FindSpace
<1>7. CASE CommitToken
  BY <1>7, Records DEF CommitToken
<1>8. CASE CheckToken \/ MarkEnd \/ Fill \/ PassFlush
  BY <1>8, Records DEF CheckToken, MarkEnd, Fill, PassFlush
<1>9. CASE Flushed
  BY <1>9, Records DEF Flushed, Idle
<1>10. CASE Event \/ Status \/ StopTracing \/ QTinit \/ QTStart
  BY <1>10 DEF Event, Status, StopTracing, QTinit, QTStart
<1>11. CASE FlushEvent
  BY <1>11, Records DEF FlushEvent
<1>12. CASE Done
  BY <1>12, Records DEF Done
<1>13. CASE SetBkpt \/ GetToken \/ StampToken \/ GetCounts \/ GetCtrl \/ CopyFrame \/ PutStart \/ PutRest
  BY <1>13 DEF SetBkpt, GetToken, StampToken, GetCounts, GetCtrl, CopyFrame, PutStart, PutRest, Put
<1>14. CASE UNCHANGED vars
  BY <1>14 DEF vars
<1> QED
  BY <1>1, <1>2, <1>3, <1>4, <1>5, <1>6, <1>7, <1>8, <1>9, <1>10, <1>11, <1>12, <1>13, <1>14 DEF Next, Alloc, Upload

LEMMA Frozen ==
  ASSUME ControlInv, [Next]_vars, ipa' = ipa, ipa.pc \in {"find", "commit", "leave"}, ~Stamped
  PROVE  mem' = mem /\ ctrl' = ctrl /\ Held' = Held /\ Before' = Before /\ Curr' = Curr
<1>1. /\ ~MarkEnd /\ ~Fill /\ ~QTinit /\ ~CopyCtrl /\ ~Finish /\ ~PutStart /\ ~PutRest /\ ~Done
      /\ ~FindSpace /\ ~NoSpace
  BY Records DEF MarkEnd, Fill, QTinit, CopyCtrl, FindSpace, NoSpace, Finish, PutStart, PutRest, Put, Done, Stamped, Runs
<1>2. mem' = mem /\ ctrl' = ctrl /\ wrote' = wrote /\ read' = read /\ made' = made
  BY <1>1, Writers
<1>3. ~Uploading /\ ~Uploading'
  <2>1. CASE gs' = gs
    BY <2>1 DEF Uploading, Stamped
  <2>2. CASE Event \/ FlushEvent \/ Status \/ StopTracing
    BY <2>2 DEF Event, FlushEvent, Status, StopTracing, Begin, Resting, Uploading, Stamped
  <2>3. CASE SetBkpt \/ GetToken \/ StampToken
    BY <2>3, Records DEF SetBkpt, GetToken, StampToken, Uploading, Stamped
  <2>4. ~GetCounts /\ ~GetCtrl /\ ~CopyFrame
    BY DEF GetCounts, GetCtrl, CopyFrame, Stamped
  <2>5. \/ gs' = gs \/ Event \/ FlushEvent \/ Status \/ StopTracing \/ SetBkpt \/ GetToken \/ StampToken
    BY <1>1, <2>4 DEF Next, Alloc, Upload, vars, Hit, Action, ReadToken, Pass, CommitToken, CheckToken, PassFlush, Flushed,
                      QTStart
  <2> QED
    BY <2>1, <2>2, <2>3, <2>5
<1> QED
  BY <1>2, <1>3 DEF Held, Before, Unread, Curr

LEMMA UndoneInvKept == ASSUME ControlInv, BufferInv, [Next]_vars PROVE UndoneInv'
<1> SUFFICES ASSUME ipa'.pc = "leave", token' = Commit(ipa'.prev)
             PROVE  Stocked(mem', ctrl'[ipa'.prev.idx], Held', Before', ipa'.at, ipa'.piece, 0)
  BY DEF UndoneInv, Has
<1>1. /\ TokenInv /\ LiveInv /\ UndoneInv /\ ipa.prev \in Token /\ gs.tok \in Token /\ token \in Token
      /\ Held \in Nat /\ Before \in Int
  BY Records, CountFacts DEF ControlInv, BufferInv
<1>2. /\ Stamp(ipa.prev) # Commit(ipa.prev) /\ Stamp(Commit(ipa.prev)) # Commit(ipa.prev) /\ Stamp(ipa.prev) # ipa.prev
      /\ Stamp(gs.tok) # Commit(ipa.prev) /\ Commit(ipa.prev) # ipa.prev
  <2>1. Stamp(gs.tok).gsb = TRUE /\ Commit(ipa.prev).gsb = FALSE
    BY <1>1, CommitFacts, StampFacts
  <2> QED
    BY <1>1, <2>1, TokenFacts
<1>3. CASE CommitToken
  <2>1. token = ipa.prev /\ ipa.pc = "commit" /\ ~Stamped
    BY <1>1, <1>2, <1>3, Records DEF CommitToken, Runs, TokenInv
  <2>2. Live = ctrl[ipa.prev.idx] /\ Granted = 0
    BY <2>1 DEF Live, Uploading, Stamped, Granted, Unfilled
  <2>3. /\ mem' = mem /\ ctrl' = ctrl /\ Held' = Held /\ Before' = Before
        /\ ipa'.at = ipa.at /\ ipa'.piece = ipa.piece /\ ipa'.prev = ipa.prev
    BY <1>3, Records DEF CommitToken, Runs, Held, Before, Unread, Uploading
  <2> QED
    BY <1>1, <2>2, <2>3 DEF LiveInv, Has
<1>4. CASE ipa' = ipa /\ ~CommitToken
  <2>1. token = Commit(ipa.prev)
    BY <1>1, <1>2, <1>4, Writers DEF StampToken, QTinit
  <2>2. ~Stamped
    BY <1>1, <1>2, <1>4, <2>1 DEF TokenInv
  <2>3. mem' = mem /\ ctrl' = ctrl /\ Held' = Held /\ Before' = Before
    BY <1>4, <2>2, Frozen
  <2> QED
    BY <1>1, <1>4, <2>1, <2>3 DEF UndoneInv, Has
<1> QED
  BY <1>3, <1>4, AgentMoves

LEMMA CopiedInvKept == ASSUME ControlInv, BufferInv, [Next]_vars PROVE CopiedInv'
<1>1. /\ TokenInv /\ LiveInv /\ CopiedInv /\ ipa.prev \in Token /\ gs.tok \in Token /\ token \in Token
      /\ Held \in Nat /\ Before \in Int /\ Curr # ipa.prev.idx /\ Curr \in 0..2 /\ ipa.prev.idx \in 0..2
  BY Records, CountFacts, IndexFacts DEF ControlInv, BufferInv
<1>2. Stamp(ipa.prev) # ipa.prev
  BY <1>1, TokenFacts
<1>3. ASSUME ipa.pc \in {"copy", "find", "commit"}, token' = ipa.prev, ~CommitToken
      PROVE  token = ipa.prev /\ ~Stamped
  <2>1. ~QTinit
    BY <1>3 DEF QTinit
  <2>2. ~StampToken
    <3> SUFFICES ASSUME StampToken PROVE FALSE
      OBVIOUS
    <3>1. ~Seen /\ gs.pc = "stamp"
      BY DEF StampToken, Seen
    <3> QED
      BY <1>1, <1>2, <1>3, <3>1 DEF StampToken, TokenInv
  <2>3. token' = token
    BY <1>3, <2>1, <2>2, Writers
  <2> QED
    BY <1>1, <1>2, <1>3, <2>3 DEF TokenInv
<1>4. ipa'.pc = "find" /\ token' = ipa'.prev => ctrl'[Curr'] = ctrl'[ipa'.prev.idx]
  <2> SUFFICES ASSUME ipa'.pc = "find", token' = ipa'.prev PROVE ctrl'[Curr'] = ctrl'[ipa'.prev.idx]
    OBVIOUS
  <2>1. CASE CopyCtrl
    BY <1>1, <2>1, Records DEF CopyCtrl, Runs, Curr
  <2>2. CASE ipa' = ipa
    <3>1. ~CommitToken
      BY <2>2 DEF CommitToken, Runs
    <3>2. token = ipa.prev /\ ~Stamped
      BY <1>3, <2>2, <3>1
    <3>3. ctrl' = ctrl /\ Curr' = Curr
      BY <2>2, <3>2, Frozen
    <3> QED
      BY <1>1, <2>2, <3>2, <3>3 DEF CopiedInv
  <2> QED
    BY <2>1, <2>2, AgentMoves
<1>5. ipa'.pc = "commit" /\ token' = ipa'.prev =>
        Stocked(mem', ctrl'[Curr'], Held', Before', ipa'.at, ipa'.piece, ipa'.want)
  <2> SUFFICES ASSUME ipa'.pc = "commit", token' = ipa'.prev
               PROVE  Stocked(mem', ctrl'[Curr'], Held', Before', ipa'.at, ipa'.piece, ipa'.want)
    OBVIOUS
  <2>1. CASE FindSpace
    <3>1. /\ mem' = mem /\ ipa'.prev = ipa.prev /\ ipa'.at = ipa.at /\ ipa'.want = ipa.want /\ ipa.pc = "find"
          /\ ipa'.piece = Chosen(ctrl[Curr], ipa.want).free /\ Curr' = Curr /\ ctrl'[Curr] = Taken(ctrl[Curr], ipa.want)
          /\ Held' = Held /\ Before' = Before /\ Fits(ctrl[Curr], ipa.want)
      BY <1>1, <2>1, Records DEF FindSpace, Runs, Curr, Held, Before, Unread, Uploading
    <3>2. token = ipa.prev /\ ~Stamped
      <4>1. ~CommitToken
        BY <3>1 DEF CommitToken, Runs
      <4> QED
        BY <1>3, <3>1, <4>1
    <3>3. Live = ctrl[Curr] /\ Granted = 0
      BY <1>1, <3>1, <3>2 DEF Live, Uploading, Stamped, Granted, Unfilled, CopiedInv
    <3>4. Stocked(mem, ctrl[Curr], Held, Before, ipa.at, ipa.piece, 0)
      BY <1>1, <3>3 DEF LiveInv, Has
    <3>5. ipa.want \in Nat /\ ipa.want > 0
      BY <3>1, CountFacts
    <3> DEFINE c == ctrl[Curr]
               k == Held
               n == Before
    <3>6. Stocked(mem, c, k, n, ipa.at, ipa.piece, 0) /\ k \in Nat /\ n \in Int /\ Fits(c, ipa.want)
      BY <1>1, <3>1, <3>4
    <3> HIDE DEF c, k, n
    <3>7. Stocked(mem, Taken(c, ipa.want), k, n, ipa.at, Chosen(c, ipa.want).free, ipa.want)
      BY <3>5, <3>6, StockedTaken
    <3> QED
      BY <3>1, <3>7 DEF c, k, n
  <2>2. CASE ipa' = ipa /\ ~CommitToken
    <3>1. token = ipa.prev /\ ~Stamped
      BY <1>3, <2>2
    <3>2. mem' = mem /\ ctrl' = ctrl /\ Held' = Held /\ Before' = Before /\ Curr' = Curr
      BY <2>2, <3>1, Frozen
    <3> QED
      BY <1>1, <2>2, <3>1, <3>2 DEF CopiedInv, Has
  <2>3. ~CommitToken
    BY Records DEF CommitToken
  <2> QED
    BY <2>1, <2>2, <2>3, AgentMoves
<1> QED
  BY <1>4, <1>5 DEF CopiedInv, Has

(* What gdbserver has copied differs from the live one in the frames that  *)
(* are gone, unless it starts from scratch.                                *)
LEMMA ServerCtrlInvKept == ASSUME ControlInv, BufferInv, [Next]_vars PROVE ServerCtrlInv'
<1>1. /\ ServerCtrlInv /\ gs.tok.idx \in 0..2 /\ Curr \in 0..2 /\ TokenInv
      /\ Stamped => gs.tok.idx = token.idx
      /\ ipa.pc \in {"enter", "copy", "find", "commit"} => token.idx = ipa.prev.idx
      /\ Curr # ipa.prev.idx
  BY IndexFacts DEF BufferInv, ControlInv
<1>2. CASE GetCtrl
  BY <1>2, Records DEF GetCtrl, ServerCtrlInv, Uploading
<1>3. CASE CopyFrame
  <2>1. Used(gs.ctrl) > 0
    <3>1. /\ Stocked(mem, gs.ctrl, Held, Before, ipa.at, ipa.piece, Granted) /\ Held > 0
          /\ Held \in Nat /\ Before \in Int /\ Granted \in Nat
      BY <1>3, CopyFacts, CountFacts
    <3> DEFINE k == Held
               n == Before
               g == Granted
    <3>2. Stocked(mem, gs.ctrl, k, n, ipa.at, ipa.piece, g) /\ k > 0 /\ k \in Nat /\ n \in Int /\ g \in Nat
      BY <3>1
    <3> HIDE DEF k, n, g
    <3> QED
      BY <3>2, StockedFacts
  <2>2. gs.ctrl.free = ctrl[gs.tok.idx].free
    BY <1>1, <1>3, <2>1 DEF CopyFrame, ServerCtrlInv, Uploading
  <2>3. /\ gs'.ctrl = Live' /\ gs'.pc = "copy" /\ gs'.tok = gs.tok /\ ctrl' = ctrl
        /\ Live'.free = gs.ctrl.free \/ Used(Live') = 0
    BY <1>3, CopyFacts, Records DEF CopyFrame
  <2> QED
    BY <2>2, <2>3 DEF ServerCtrlInv, Uploading
<1>4. CASE PutStart
  BY <1>1, <1>4, Records DEF PutStart, Put, ServerCtrlInv, Uploading
<1>5. CASE PutRest
  <2> DEFINE i == gs.tok.idx
             c == ctrl[i]
             g == gs.ctrl
  <2>1. c \in Fields /\ g \in Fields /\ ctrl \in [0..2 -> Fields] /\ gs.pc # "done" /\ Uploading
    BY <1>1, <1>5, Records DEF ControlInv, TypesInv, PutRest, Put, Uploading
  <2>2. gs'.ctrl = g /\ gs'.tok = gs.tok
    BY <1>5, Records DEF PutRest, Put
  <2>3. CASE gs.pc = "free"
    <3>1. gs'.pc = "end_free" /\ ctrl'[i] = [c EXCEPT !.free = g.free]
      BY <1>1, <1>5, <2>1, <2>3, Records DEF PutRest, Put
    <3> QED
      BY <1>1, <2>1, <2>2, <2>3, <3>1 DEF ServerCtrlInv, Uploading, Fields
  <2>4. CASE gs.pc = "end_free"
    <3>1. gs'.pc = "wrap" /\ ctrl'[i] = [c EXCEPT !.end_free = g.end_free]
      BY <1>1, <1>5, <2>1, <2>4, Records DEF PutRest, Put
    <3> QED
      BY <1>1, <2>1, <2>2, <2>4, <3>1 DEF ServerCtrlInv, Uploading, Fields
  <2>5. CASE gs.pc = "wrap"
    <3>1. gs'.pc = "done" /\ ctrl'[i] = [c EXCEPT !.wrap = g.wrap]
      BY <1>1, <1>5, <2>1, <2>5, Records DEF PutRest, Put
    <3>2. c.start = g.start /\ c.free = g.free /\ c.end_free = g.end_free
      BY <1>1, <2>5 DEF ServerCtrlInv
    <3>3. ctrl'[i] = g
      BY <2>1, <3>1, <3>2 DEF Fields
    <3> QED
      BY <2>2, <3>1, <3>3 DEF ServerCtrlInv, Uploading
  <2> QED
    BY <1>5, <2>3, <2>4, <2>5 DEF PutRest
<1>6. CASE Done
  BY <1>6 DEF Done, Resting, ServerCtrlInv, Uploading
<1>7. CASE Event \/ Status \/ StopTracing \/ FlushEvent
  BY <1>1, <1>7 DEF Event, Status, StopTracing, FlushEvent, Begin, Resting, ServerCtrlInv, Uploading
<1>8. CASE SetBkpt \/ GetToken \/ StampToken \/ GetCounts \/ QTinit
  BY <1>8, Records DEF SetBkpt, GetToken, StampToken, GetCounts, QTinit, ServerCtrlInv, Uploading
<1>9. CASE CopyCtrl \/ FindSpace \/ NoSpace
  <2>1. gs' = gs /\ token.idx # Curr
    BY <1>1, <1>9 DEF CopyCtrl, FindSpace, NoSpace, Runs
  <2>2. Stamped => ctrl'[gs.tok.idx] = ctrl[gs.tok.idx]
    BY <1>1, <1>9, <2>1, Records DEF CopyCtrl, FindSpace, NoSpace
  <2> QED
    BY <1>1, <2>1, <2>2 DEF ServerCtrlInv, Uploading, Stamped
<1>10. CASE gs' = gs /\ ctrl' = ctrl
  BY <1>1, <1>10 DEF ServerCtrlInv, Uploading
<1>11. \/ GetCtrl \/ CopyFrame \/ PutStart \/ PutRest \/ Done \/ Event \/ Status \/ StopTracing \/ FlushEvent
       \/ SetBkpt \/ GetToken \/ StampToken \/ GetCounts \/ QTinit \/ CopyCtrl \/ FindSpace \/ NoSpace
       \/ gs' = gs /\ ctrl' = ctrl
  BY DEF Next, Alloc, Upload, vars, Hit, Finish, Action, ReadToken, Pass, CommitToken, CheckToken, MarkEnd, Fill,
         PassFlush, Flushed, QTStart
<1> QED
  BY <1>2, <1>3, <1>4, <1>5, <1>6, <1>7, <1>8, <1>9, <1>10, <1>11

LEMMA BufferInvKept == ASSUME ControlInv, BufferInv, [Next]_vars PROVE BufferInv'
BY LiveInvKept, UndoneInvKept, CopiedInvKept, ServerCtrlInvKept DEF BufferInv

-----------------------------------------------------------------------------
(* gdbserver's buffer: the latest frames, the last of which is the one     *)
(* before those that are still in the program's.                           *)
UploadInv ==
  /\ uploaded \in Seq([tp : Int, whole : BOOLEAN, wraps : BOOLEAN])
  /\ \A i \in 1..Len(uploaded) :
       uploaded[i].tp = Before - Len(uploaded) + i /\ (uploaded[i].wraps \/ uploaded[i].whole)

IInv == ControlInv /\ BufferInv /\ UploadInv

(* No other step changes how many frames there are in both buffers.        *)
LEMMA TotalKept ==
  ASSUME ControlInv, ControlInv', BufferInv, [Next]_vars, ~Finish, ~QTinit
  PROVE  /\ made' = made
         /\ ~CopyFrame => Before' = Before /\ Unread' = Unread /\ uploaded' = uploaded
<1>1. made' = made /\ (~CopyFrame => uploaded' = uploaded)
  BY Writers
<1>2. made \in Nat /\ Unread \in Nat
  BY CountFacts
<1>3. CASE QuietStep
  <2>1. Before' = Before
    BY <1>3, QuietFrames DEF SameFrames, BufferInv
  <2>2. made - Unread' = made - Unread
    BY <1>1, <2>1 DEF Before
  <2>3. wrote' \in Int /\ read' \in Int /\ gs'.r \in Int
    BY DEF ControlInv, TypesInv, Server
  <2>4. Unread' \in Int
    BY <2>3 DEF Unread
  <2>5. Unread' = Unread
    <3> DEFINE u == Unread
               v == Unread'
    <3>1. made - v = made - u
      BY <2>2
    <3>2. v \in Int
      BY <2>4
    <3>3. u \in Int /\ made \in Int
      BY <1>2
    <3> HIDE DEF u, v
    <3>4. v = u
      BY <3>1, <3>2, <3>3
    <3> QED
      BY <3>4 DEF u, v
  <2> QED
    BY <1>1, <2>1, <2>5
<1>4. CASE CommitToken \/ MarkEnd \/ Fill \/ StampToken
  <2>1. Unread' = Unread
    BY <1>4, Records DEF CommitToken, MarkEnd, Fill, StampToken, Unread, Uploading
  <2> QED
    BY <1>1, <2>1 DEF Before
<1>5. QuietStep \/ CommitToken \/ MarkEnd \/ Fill \/ StampToken \/ CopyFrame
  BY DEF Next, Alloc, Upload, QuietStep
<1> QED
  BY <1>1, <1>3, <1>4, <1>5

LEMMA UploadInvKept == ASSUME IInv, ControlInv', [Next]_vars PROVE UploadInv'
<1>1. /\ ControlInv /\ BufferInv /\ Before \in Int
      /\ uploaded \in Seq([tp : Int, whole : BOOLEAN, wraps : BOOLEAN])
      /\ \A i \in 1..Len(uploaded) :
           uploaded[i].tp = Before - Len(uploaded) + i /\ (uploaded[i].wraps \/ uploaded[i].whole)
  BY CountFacts DEF IInv, UploadInv
<1>2. CASE CopyFrame
  <2> DEFINE p == gs.ctrl.start
             new == [tp |-> HeaderAt(mem, p).tp, whole |-> Straight(p), wraps |-> Wraps(p)]
  <2>1. uploaded' = Append(uploaded, new) /\ Before' = Before + 1
    BY <1>1, <1>2, CopyFacts DEF CopyFrame
  <2>2. HeaderAt(mem, p).tp = Before + 1 /\ (Wraps(p) \/ Straight(p))
    <3>1. /\ Stocked(mem, gs.ctrl, Held, Before, ipa.at, ipa.piece, Granted) /\ Held > 0
          /\ Held \in Nat /\ Before \in Int /\ Granted \in Nat
      BY <1>1, <1>2, CopyFacts, CountFacts
    <3> DEFINE c == gs.ctrl
               k == Held
               n == Before
               g == Granted
               h == HeaderAt(mem, c.start)
    <3>2. Stocked(mem, c, k, n, ipa.at, ipa.piece, g) /\ k > 0 /\ k \in Nat /\ n \in Int /\ g \in Nat
      BY <3>1
    <3> HIDE DEF c, k, n, g
    <3>3. /\ h.tp = n + 1
          /\ ~(c.start + Header + h.size > c.wrap) =>
               \A j \in 0..(h.size - 1) : Holds(mem, c.start + Header + j, h.tp, j)
      BY <3>2, StockedFirst
    <3> QED
      BY <3>3 DEF Wraps, Straight, c, n
  <2>3. new \in [tp : Int, whole : BOOLEAN, wraps : BOOLEAN] /\ new.tp = Before + 1 /\ (new.wraps \/ new.whole)
    <3>1. HeaderAt(mem, p).tp \in Int /\ Straight(p) \in BOOLEAN /\ Wraps(p) \in BOOLEAN
      BY <1>1, <2>2 DEF Straight, Wraps
    <3> HIDE DEF p
    <3> QED
      BY <2>2, <3>1
  <2> HIDE DEF new
  <2>4. /\ uploaded' \in Seq([tp : Int, whole : BOOLEAN, wraps : BOOLEAN]) /\ Len(uploaded') = Len(uploaded) + 1
        /\ \A i \in 1..Len(uploaded') : uploaded'[i] = IF i <= Len(uploaded) THEN uploaded[i] ELSE new
    BY <1>1, <2>1, <2>3
  <2>5. ASSUME NEW i \in 1..Len(uploaded')
        PROVE  uploaded'[i].tp = Before' - Len(uploaded') + i /\ (uploaded'[i].wraps \/ uploaded'[i].whole)
    <3>1. Len(uploaded) \in Nat
      BY <1>1
    <3>2. CASE i <= Len(uploaded)
      <4>1. uploaded'[i] = uploaded[i] /\ i \in 1..Len(uploaded)
        BY <2>4, <3>1, <3>2
      <4> QED
        BY <1>1, <2>1, <2>4, <3>1, <4>1
    <3>3. CASE i > Len(uploaded)
      <4>1. uploaded'[i] = new /\ i = Len(uploaded) + 1
        BY <2>4, <3>1, <3>3
      <4> QED
        BY <1>1, <2>1, <2>3, <2>4, <3>1, <4>1
    <3> QED
      BY <3>1, <3>2, <3>3
  <2> QED
    BY <2>4, <2>5 DEF UploadInv
<1>3. CASE QTinit
  <2>1. uploaded' = <<>>
    BY <1>3 DEF QTinit
  <2> QED
    BY <2>1 DEF UploadInv
<1>4. CASE Finish
  <2>1. uploaded' = uploaded /\ ~CopyFrame /\ ~QTinit
    BY <1>1, <1>4, Records, Writers DEF Finish, CopyFrame, QTinit, Runs
  <2>2. Before' = Before
    BY <1>1, <1>4, QuietFrames DEF SameFrames, QuietStep, BufferInv
  <2> QED
    BY <1>1, <2>1, <2>2 DEF UploadInv
<1>5. CASE ~CopyFrame /\ ~QTinit /\ ~Finish
  BY <1>1, <1>5, TotalKept DEF UploadInv
<1> QED
  BY <1>2, <1>3, <1>4, <1>5

-----------------------------------------------------------------------------
(* The invariant holds.                                                    *)

LEMMA IInvKept == ASSUME IInv, [Next]_vars PROVE IInv'
<1>1. ControlInv /\ BufferInv
  BY DEF IInv
<1>2. ipa.pc = "fill" => ipa.piece \in Cells
  BY <1>1, GrantedFacts
<1>3. CopyFrame => NextIn(mem, gs.ctrl, gs.ctrl.start) \in Int
  BY <1>1, CopyFacts
<1>4. ControlInv'
  BY <1>1, <1>2, <1>3, ControlInvKept
<1> QED
  BY <1>1, <1>4, BufferInvKept, UploadInvKept DEF IInv

LEMMA InitIInv == ASSUME Init PROVE IInv
<1>1. ControlInv
  BY InitControl
<1>2. /\ Live = Cleared /\ Held = 0 /\ Before = 0 /\ ipa.at = -1 /\ Granted = 0
      /\ ipa.pc = "idle" /\ gs.pc = "rest" /\ uploaded = <<>>
  BY DEF Init, Idle, Resting, Live, Uploading, Held, Before, Unread, Granted, Unfilled
<1>3. Stocked(mem, Cleared, 0, 0, -1, ipa.piece, 0)
  BY StockedCleared
<1>4. LiveInv
  BY <1>2, <1>3 DEF LiveInv, Has
<1>5. UndoneInv /\ CopiedInv /\ ServerCtrlInv
  BY <1>2 DEF UndoneInv, CopiedInv, ServerCtrlInv, Uploading
<1>6. UploadInv
  BY <1>2 DEF UploadInv
<1> QED
  BY <1>1, <1>4, <1>5, <1>6 DEF IInv, BufferInv

LEMMA SpecIInv == Spec => []IInv
BY InitIInv, IInvKept, PTL DEF Spec

(* What the agent fills is a piece that the live trace_buffer_ctrl has:    *)
(* nothing that gdbserver overwrote is used, and nothing is allocated      *)
(* twice, wherever gdbserver comes between the agent's steps.              *)
THEOREM GrantIsLiveCorrect == Spec => []GrantIsLive
<1>1. IInv => GrantIsLive
  <2> SUFFICES ASSUME IInv PROVE GrantIsLive
    OBVIOUS
  <2>1. ControlInv /\ BufferInv
    BY DEF IInv
  <2>2. ipa.pc \in {"mark", "fill"} => Live.free = ipa.piece + ipa.want
    BY <2>1, GrantedFacts
  <2>3. ASSUME ipa.pc = "collect", Live.wrap = hi
        PROVE  Live.free = ipa.at + Header + HeaderAt(mem, ipa.at).size
    <3>1. Granted = 0 /\ ipa.at # -1 /\ Held \in Nat /\ Before \in Int
      BY <2>1, <2>3, CountFacts DEF Granted, Unfilled, ControlInv, FrameInv
    <3> DEFINE l == Live
               k == Held
               n == Before
    <3>2. Stocked(mem, l, k, n, ipa.at, ipa.piece, 0) /\ k \in Nat /\ n \in Int /\ l.wrap = hi
      BY <2>1, <2>3, <3>1 DEF BufferInv, LiveInv, Has
    <3> HIDE DEF l, k, n
    <3>3. l.free = ipa.at + Header + HeaderAt(mem, ipa.at).size
      BY <3>1, <3>2, StockedEnd
    <3> QED
      BY <3>3 DEF l
  <2> QED
    BY <2>2, <2>3 DEF GrantIsLive
<1> QED
  BY <1>1, SpecIInv, PTL

(* gdbserver gets the frames that were collected, in the order in which    *)
(* they were, and with their data if it lies in one piece.                 *)
THEOREM UploadedInOrderCorrect == Spec => []UploadedInOrder
<1>1. IInv => UploadedInOrder
  <2> SUFFICES ASSUME IInv, NEW i \in DOMAIN uploaded
               PROVE  /\ i > 1 => uploaded[i].tp = uploaded[i - 1].tp + 1
                      /\ ~uploaded[i].wraps => uploaded[i].whole
    BY DEF UploadedInOrder
  <2>3. Before \in Int
    BY CountFacts DEF IInv
  <2>4. Len(uploaded) \in Nat /\ DOMAIN uploaded = 1..Len(uploaded)
    BY DEF IInv, UploadInv
  <2>1. /\ Before \in Int /\ Len(uploaded) \in Nat /\ i \in 1..Len(uploaded)
        /\ \A j \in 1..Len(uploaded) :
             uploaded[j].tp = Before - Len(uploaded) + j /\ (uploaded[j].wraps \/ uploaded[j].whole)
    BY <2>3, <2>4 DEF IInv, UploadInv
  <2>2. ASSUME i > 1 PROVE uploaded[i].tp = uploaded[i - 1].tp + 1
    <3>1. i - 1 \in 1..Len(uploaded)
      BY <2>1, <2>2
    <3>2. uploaded[i - 1].tp = Before - Len(uploaded) + (i - 1) /\ uploaded[i].tp = Before - Len(uploaded) + i
      BY <2>1, <3>1
    <3> QED
      BY <2>1, <3>2
  <2> QED
    BY <2>1, <2>2
<1> QED
  BY <1>1, SpecIInv, PTL

-----------------------------------------------------------------------------
(* The log: the frames in gdbserver's buffer and then those in the         *)
(* program's.                                                              *)

Frames == [i \in 1..Len(uploaded) |-> uploaded[i].tp] \o [i \in 1..Unread |-> HeaderAt(mem, At(i)).tp]
Total == Len(uploaded) + Unread

LEMMA FramesAre == IInv => Frames = Numbers(Total, made - Total)
<1> SUFFICES ASSUME IInv PROVE Frames = Numbers(Total, made - Total)
  OBVIOUS
<1>1. /\ Unread \in Nat /\ Held \in Nat /\ Before \in Int /\ Before + Unread = made /\ made \in Nat
      /\ Granted \in Nat /\ Unread <= made /\ Unread <= MaxFrames /\ MaxFrames \in Nat /\ Len(uploaded) \in Nat
  BY CountFacts DEF IInv, UploadInv
<1>2. Held <= MaxFrames
  <2>1. CASE ipa.at = -1
    BY <1>1, <2>1 DEF Held
  <2>2. CASE ipa.at # -1
    <3>1. made < MaxFrames
      BY <2>2 DEF IInv, ControlInv, FrameInv
    <3> QED
      BY <1>1, <2>2, <3>1 DEF Held
  <2> QED
    BY <2>1, <2>2
<1>3. \A i \in 1..Unread : HeaderAt(mem, At(i)).tp = Before + i
  <2> DEFINE l == Live
             k == Held
             n == Before
             g == Granted
  <2>1. Stocked(mem, l, k, n, ipa.at, ipa.piece, g) /\ k \in Nat /\ n \in Int /\ g \in Nat /\ k <= MaxFrames
    BY <1>1, <1>2 DEF IInv, BufferInv, LiveInv, Has
  <2> HIDE DEF l, k, n, g
  <2>2. \A i \in 1..k : HeaderAt(mem, Place(mem, l)[i]).tp = n + i
    BY <2>1, StockedRead
  <2>3. 1..Unread \subseteq 1..Held
    BY <1>1 DEF Held
  <2> QED
    BY <2>2, <2>3 DEF At, l, k, n
<1>4. [i \in 1..Unread |-> HeaderAt(mem, At(i)).tp] = Numbers(Unread, Before)
  BY <1>3 DEF Numbers
<1>5. [i \in 1..Len(uploaded) |-> uploaded[i].tp] = Numbers(Len(uploaded), Before - Len(uploaded))
  <2>1. \A i \in 1..Len(uploaded) : uploaded[i].tp = Before - Len(uploaded) + i
    BY DEF IInv, UploadInv
  <2> QED
    BY <2>1 DEF Numbers
<1> DEFINE a == Len(uploaded)
           b == Before - Len(uploaded)
           u == Unread
<1>6. a \in Nat /\ b \in Int /\ u \in Nat /\ b + a = Before /\ a + u = Total /\ b = made - Total
  BY <1>1 DEF Total
<1> HIDE DEF a, b, u
<1>7. Numbers(a, b) \o Numbers(u, b + a) = Numbers(a + u, b)
  BY <1>6, NumbersJoin
<1>8. Frames = Numbers(a, b) \o Numbers(u, b + a)
  BY <1>4, <1>5, <1>6 DEF Frames, a, b, u
<1> QED
  BY <1>6, <1>7, <1>8

(* The two buffers together are a log: a collection that ends adds a frame *)
(* at its end, however the upload goes on meanwhile, and no frame is lost, *)
(* duplicated or overwritten before the next run.                          *)
THEOREM LogCorrect == Spec => IsLog
<1>1. Init => Log!Init
  <2> SUFFICES ASSUME Init PROVE Frames = <<>> /\ made = 0
    BY DEF Log!Init, Frames
  <2>1. IInv /\ Total = 0 /\ made = 0
    <3>1. IInv
      BY InitIInv
    <3>2. Unread = 0 /\ Len(uploaded) = 0 /\ made = 0
      BY DEF Init, Resting, Unread, Uploading
    <3> QED
      BY <3>1, <3>2 DEF Total
  <2>2. 0 \in Nat /\ made - Total = 0 /\ 0 \in Int
    BY <2>1
  <2> QED
    BY <2>1, <2>2, FramesAre, NumbersFacts
<1> DEFINE AreNumbers == Frames = Numbers(Total, made - Total)
<1>2. IInv => AreNumbers
  BY FramesAre
<1>3. IInv /\ IInv' /\ AreNumbers /\ AreNumbers' /\ [Next]_vars => [Log!Next]_(Log!vars)
  <2> SUFFICES ASSUME IInv, IInv', AreNumbers, AreNumbers', [Next]_vars PROVE [Log!Next]_(Log!vars)
    OBVIOUS
  <2>1. Frames = Numbers(Total, made - Total) /\ Frames' = Numbers(Total', made' - Total')
    BY DEF Numbers
  <2>2. /\ ControlInv /\ ControlInv' /\ BufferInv
        /\ Unread \in Nat /\ made \in Nat /\ Len(uploaded) \in Nat /\ Total \in Nat
    BY CountFacts DEF IInv, UploadInv, Total
  <2> HIDE DEF Frames
  <2>3. CASE Finish
    <3>1. made' = made + 1 /\ uploaded' = uploaded /\ Unread' = Unread + 1
      <4> DEFINE x == IF Uploading THEN gs.r ELSE read
      <4>1. wrote' = wrote + 1 /\ made' = made + 1 /\ uploaded' = uploaded /\ x' = x
        BY <2>3 DEF Finish, Uploading
      <4>2. wrote \in Nat /\ x \in Nat
        BY <2>2, Records
      <4>3. Unread = wrote - x /\ Unread' = wrote' - x'
        BY DEF Unread
      <4> HIDE DEF x
      <4> QED
        BY <4>1, <4>2, <4>3
    <3>2. Total' = Total + 1 /\ made' - Total' = made - Total /\ made - Total + Total + 1 = made + 1
      BY <2>2, <3>1 DEF Total
    <3>3. Frames' = Append(Frames, made + 1)
      <4> DEFINE n == Total
                 b == made - Total
      <4>1. n \in Nat /\ b \in Int /\ b + n + 1 = made + 1
        BY <2>2, <3>2
      <4>2. Frames = Numbers(n, b) /\ Frames' = Numbers(n + 1, b)
        BY <2>1, <3>2
      <4> HIDE DEF n, b
      <4>3. Append(Numbers(n, b), b + n + 1) = Numbers(n + 1, b)
        BY <4>1, NumbersFacts
      <4> QED
        BY <4>1, <4>2, <4>3
    <3> QED
      BY <3>1, <3>3 DEF Log!Next, Log!Record, Frames
  <2>4. CASE QTinit
    <3>1. made' = made /\ uploaded' = <<>> /\ Unread' = 0
      BY <2>4 DEF QTinit, Unread, Uploading
    <3>2. Total' = 0 /\ made' - Total' = made
      BY <2>2, <3>1 DEF Total
    <3>3. Frames' = <<>>
      BY <2>1, <2>2, <3>2, NumbersFacts
    <3> QED
      BY <3>1, <3>3 DEF Log!Next, Log!Clear, Frames
  <2>5. CASE ~Finish /\ ~QTinit
    <3>1. made' = made /\ Total' = Total
      <4>1. CASE CopyFrame
        <5>1. Unread' = Unread - 1 /\ made' = made
          BY <2>2, <2>5, <4>1, CopyFacts, TotalKept
        <5>2. Len(uploaded') = Len(uploaded) + 1
          BY <4>1 DEF CopyFrame, IInv, UploadInv
        <5> QED
          BY <2>2, <5>1, <5>2 DEF Total
      <4>2. CASE ~CopyFrame
        BY <2>2, <2>5, <4>2, TotalKept DEF Total
      <4> QED
        BY <4>1, <4>2
    <3>2. Frames' = Frames
      BY <2>1, <3>1
    <3> QED
      BY <3>1, <3>2 DEF Log!vars, Frames
  <2> QED
    BY <2>3, <2>4, <2>5
<1> HIDE DEF AreNumbers
<1> QED
  BY <1>1, <1>2, <1>3, SpecIInv, PTL DEF Spec, IsLog, Log!Spec
=============================================================================
