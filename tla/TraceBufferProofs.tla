-------------------------- MODULE TraceBufferProofs --------------------------
(***************************************************************************)
(* Proofs about TraceBuffer, for any sizes and any number of frames, while *)
(* the buffer is circular or has been linear from the beginning of the     *)
(* run, and has room for two frames.                                       *)
(*                                                                         *)
(* The invariant is TraceMemoryProofs' Chain: there are offsets at which   *)
(* the frames that are counted lie, one after another, and fill what is in *)
(* use.                                                                    *)
(***************************************************************************)
EXTENDS TraceBuffer, TraceMemoryProofs

(* Room for nearly two of the largest frames, so that there is always an   *)
(* old one to drop: one with MaxBlocks blocks of at most L cells, a block  *)
(* more, and four headers.                                                 *)
Room(L) ==
  /\ L \in Nat
  /\ \A b \in Blocks \cup {Header} : b <= L
  /\ Size >= 4 * Header + (MaxBlocks * L + L) - 1
Roomy == \E L \in Nat : Room(L)
Largest == CHOOSE L \in Nat : Room(L)
MostIn(b) == b * Largest

(* The frames in the buffer, with the one that is being collected.         *)
Held == IF frame.at = -1 THEN count ELSE count + 1
Before == made - count

FrameInv ==
  /\ frame \in [on : BOOLEAN, at : {-1} \cup Cells, want : {0, Header} \cup Blocks, blocks : 0..MaxBlocks]
  /\ frame.on => made < MaxFrames
  /\ ~frame.on => frame = NoFrame
  /\ frame.on /\ frame.at = -1 => frame.want = Header
  /\ frame.at # -1 => frame.want \in {0} \cup Blocks

CountInv ==
  /\ count \in Nat /\ made \in Nat
  /\ count <= made /\ made <= MaxFrames
  /\ circular \in BOOLEAN

CtlInv ==
  /\ mem = [c \in Cells |-> mem[c]]
  /\ CtlOK(ctl)
  /\ ctl.wrap < hi => ctl.wrap + Largest + Header > hi
  /\ ~circular => ctl.start = lo /\ ctl.end_free = hi
  /\ Held = 0 => ctl = Cleared
  /\ frame.want = 0 \/ ~circular => mem[ctl.free] = EndMark

Frames(o) ==
  /\ Chain(mem, ctl, o, Held, Before)
  /\ o[Held + 1] = Used(ctl)
  /\ \A i \in 1..Held : SizeIn(o, i) <= MostIn(MaxBlocks)
  /\ frame.at # -1 => /\ frame.at = Cell(ctl, o[Held])
                      /\ SizeIn(o, Held) + frame.want <= MostIn(frame.blocks)

IInv == FrameInv /\ CountInv /\ CtlInv /\ \E o : Frames(o)

-----------------------------------------------------------------------------
LEMMA LargestFacts ==
  ASSUME Roomy
  PROVE  /\ Largest \in Nat /\ Header \in Nat /\ Header > 0 /\ Header <= Largest
         /\ \A b \in Blocks : b \in Nat /\ b > 0 /\ b <= Largest
         /\ MaxBlocks \in Nat /\ MostIn(MaxBlocks) \in Nat
         /\ Size \in Nat /\ Size >= 4 * Header + (MostIn(MaxBlocks) + Largest) - 1
         /\ \A b \in Nat : MostIn(b) \in Nat /\ MostIn(b + 1) = MostIn(b) + Largest
         /\ \A b \in 0..MaxBlocks : MostIn(b) \in Nat /\ MostIn(b) <= MostIn(MaxBlocks)
<1>1. Largest \in Nat /\ Room(Largest)
  BY DEF Roomy, Largest
<1>2. /\ Header \in Nat /\ Header > 0 /\ MaxBlocks \in Nat /\ Size \in Nat
      /\ \A b \in Blocks : b \in Nat /\ b > 0
  BY TraceMemoryAssumption
<1> HIDE DEF Largest
<1>3. ASSUME NEW a \in Nat, NEW b \in Nat PROVE a * b \in Nat
  BY <1>3
<1>4. ASSUME NEW b \in 0..MaxBlocks PROVE MostIn(b) \in Nat /\ MostIn(b) <= MostIn(MaxBlocks)
  <2>1. b \in Nat /\ MaxBlocks - b \in Nat /\ MaxBlocks = b + (MaxBlocks - b)
    BY <1>2
  <2>2. b * Largest \in Nat /\ (MaxBlocks - b) * Largest \in Nat
    BY <1>1, <1>3, <2>1
  <2>3. MaxBlocks * Largest = b * Largest + (MaxBlocks - b) * Largest
    BY <1>1, <2>1
  <2> QED
    BY <2>2, <2>3 DEF MostIn
<1>5. ASSUME NEW b \in Nat PROVE MostIn(b) \in Nat /\ MostIn(b + 1) = MostIn(b) + Largest
  BY <1>1, <1>3 DEF MostIn
<1>6. MostIn(MaxBlocks) \in Nat
  BY <1>2, <1>5
<1>7. Size >= 4 * Header + (MostIn(MaxBlocks) + Largest) - 1
  BY <1>1 DEF Room, MostIn
<1> QED
  BY <1>1, <1>2, <1>4, <1>5, <1>6, <1>7 DEF Room

(* There is no space for amt only when much is in use.                     *)
LEMMA FullFacts ==
  ASSUME NEW c, CtlOK(c), NEW l \in Nat, NEW amt \in Nat, 0 < amt, amt <= l, ~Fits(c, amt),
         c.wrap < hi => c.wrap + l + Header > hi,
         Used(c) > 0 \/ c = Cleared
  PROVE  Used(c) + l + amt + 2 * Header >= Size + 2
<1>1. /\ c.start \in 0..Size /\ c.free \in 0..Size /\ c.end_free \in 0..Size /\ c.wrap \in 0..Size
      /\ Size \in Nat /\ Header \in Nat /\ Header > 0 /\ lo = 0 /\ hi = Size /\ c \in Ctrl
  BY CtrlFields DEF CtlOK
<1>2. CASE c.wrap < hi
  <2>1. c.free <= c.start /\ c.start < c.wrap /\ c.end_free = c.start
    BY <1>2 DEF CtlOK
  <2>2. Lower(c) = c
    BY <1>1, <2>1 DEF Lower, TwoParts
  <2>3. c.free + amt + Header > c.start
    BY <1>1, <2>1, <2>2 DEF Fits, LowerFits
  <2> QED
    BY <1>1, <1>2, <2>1, <2>3 DEF Used
<1>3. CASE c.wrap = hi /\ ~TwoParts(c)
  <2>1. Lower(c) = c
    BY <1>3 DEF Lower
  <2>2. c.free + amt + Header > c.end_free /\ c.end_free >= c.free
    BY <1>1, <1>3, <2>1 DEF Fits, LowerFits, TwoParts
  <2>3. CASE c.start = lo /\ c.end_free = hi
    BY <1>1, <1>3, <2>2, <2>3 DEF Used
  <2>4. CASE c.end_free = c.start
    <3>1. Used(c) = 0
      BY <1>1, <1>3, <2>2, <2>4 DEF CtlOK, Used
    <3>2. c = Cleared
      BY <3>1
    <3> QED
      BY <1>1, <2>3, <3>2 DEF Cleared
  <2> QED
    BY <1>3, <2>3, <2>4 DEF CtlOK
<1>4. CASE c.wrap = hi /\ TwoParts(c)
  <2>1. c.end_free = c.start /\ c.start < c.free
    BY <1>1, <1>4 DEF CtlOK, TwoParts
  <2>2. Lower(c).free = lo /\ Lower(c).end_free = c.start
    BY <1>1, <1>4, <2>1 DEF Lower, Ctrl
  <2>3. c.free + amt + Header > hi /\ lo + amt + Header > c.start
    BY <1>1, <1>4, <2>2 DEF Fits, UpperFits, LowerFits
  <2> QED
    BY <1>1, <1>4, <2>1, <2>3 DEF Used
<1> QED
  BY <1>1, <1>2, <1>3, <1>4

(* Who asks for space in vain is not alone in the buffer.                  *)
LEMMA NotAlone ==
  ASSUME Roomy, IInv, NotFound
  PROVE  Held \in Nat /\ Held >= 2
<1>1. /\ Largest \in Nat /\ Header \in Nat /\ Header > 0 /\ Header <= Largest
      /\ \A b \in Blocks : b \in Nat /\ b > 0 /\ b <= Largest
      /\ MaxBlocks \in Nat /\ MostIn(MaxBlocks) \in Nat
      /\ Size \in Nat /\ Size >= 4 * Header + (MostIn(MaxBlocks) + Largest) - 1
      /\ \A b \in 0..MaxBlocks : MostIn(b) \in Nat /\ MostIn(b) <= MostIn(MaxBlocks)
  BY LargestFacts
<1>2. PICK o : Frames(o)
  BY DEF IInv
<1>3. frame.want \in Nat /\ 0 < frame.want /\ frame.want <= Largest
  BY <1>1 DEF IInv, FrameInv, NotFound, Allocating
<1>4. CtlOK(ctl) /\ Used(ctl) \in Nat
  BY CellFacts DEF IInv, CtlInv
<1>5. Held \in Nat /\ Before \in Int
  BY DEF IInv, CountInv, Held, Before
<1>6. Ordered(ctl, o, Held) /\ Framed(mem, ctl, o, Held, Before)
  BY <1>2, <1>4, <1>5, ChainFacts DEF Frames
<1>7. o[Held + 1] = Used(ctl) /\ o[1] = 0
  BY <1>2 DEF Frames, Chain
<1>8. Held # 0 => Used(ctl) > 0
  <2> SUFFICES ASSUME Held # 0 PROVE Used(ctl) > 0
    OBVIOUS
  <2>1. 1 \in 1..Held /\ 1 \in 1..(Held + 1)
    BY <1>5
  <2>2. o[1] < Used(ctl)
    BY <1>6, <2>1 DEF Framed
  <2> QED
    BY <1>4, <1>7, <2>2
<1>9. Used(ctl) > 0 \/ ctl = Cleared
  BY <1>8 DEF IInv, CtlInv
<1>10. ctl.wrap < hi => ctl.wrap + Largest + Header > hi
  BY DEF IInv, CtlInv
<1>11. Used(ctl) + Largest + frame.want + 2 * Header >= Size + 2
  <2>1. ~Fits(ctl, frame.want)
    BY DEF NotFound
  <2> HIDE DEF Largest
  <2> QED
    BY <1>1, <1>3, <1>4, <1>9, <1>10, <2>1, FullFacts
<1> HIDE DEF Largest
<1>12. ASSUME Held = 0 PROVE FALSE
  <2>1. Used(ctl) = 0 /\ frame.at = -1
    BY <1>7, <1>12 DEF Held, IInv, CountInv
  <2>2. frame.want = Header
    BY <1>3, <2>1 DEF IInv, FrameInv, NoFrame
  <2> QED
    BY <1>1, <1>11, <2>1, <2>2
<1>13. ASSUME Held = 1 PROVE FALSE
  <2>1. /\ SizeIn(o, 1) \in Nat /\ Used(ctl) = Header + SizeIn(o, 1)
        /\ SizeIn(o, 1) <= MostIn(MaxBlocks)
    <3>1. 1 \in 1..Held /\ 1 + 1 = Held + 1
      BY <1>13
    <3>2. SizeIn(o, 1) \in Nat /\ o[1] + Header + SizeIn(o, 1) = o[1 + 1]
      BY <1>6, <3>1 DEF Framed
    <3>3. SizeIn(o, 1) <= MostIn(MaxBlocks)
      BY <1>2, <3>1 DEF Frames
    <3> QED
      BY <1>1, <1>7, <3>1, <3>2, <3>3
  <2>2. CASE frame.at = -1
    <3>1. frame.want = Header
      BY <1>3, <2>2 DEF IInv, FrameInv, NoFrame
    <3> QED
      BY <1>1, <1>11, <2>1, <3>1
  <2>3. CASE frame.at # -1
    <3>1. SizeIn(o, 1) + frame.want <= MostIn(frame.blocks) /\ frame.blocks \in 0..MaxBlocks
      BY <1>2, <1>13, <2>3 DEF Frames, IInv, FrameInv
    <3>2. SizeIn(o, 1) + frame.want <= MostIn(MaxBlocks)
      BY <1>1, <1>3, <2>1, <3>1
    <3> QED
      BY <1>1, <1>3, <1>11, <2>1, <3>2
  <2> QED
    BY <2>2, <2>3
<1> QED
  BY <1>5, <1>12, <1>13

-----------------------------------------------------------------------------
(* A piece is taken, and the end marked behind it: the frames stay.        *)
MarksEnd(m, c, o, k, n, amt, t, p, m2) ==
  /\ CtlOK(t) /\ t.free = p + amt /\ p \in Cells /\ p + amt \in Cells
  /\ t.wrap < hi => t.wrap = c.wrap \/ t.wrap + amt + Header > hi
  /\ c.start = lo /\ c.end_free = hi => t.start = lo /\ t.end_free = hi
  /\ Follows(t, o[k + 1], p, amt) /\ o[k + 1] + amt = Used(t)
  /\ m2 = [d \in Cells |-> m2[d]] /\ m2[t.free] = EndMark
  /\ Chain(m2, t, o, k, n)
  /\ \A i \in 1..k : Cell(t, o[i]) = Cell(c, o[i])

LEMMA TakeAndMark ==
  ASSUME NEW m, NEW c, CtlOK(c), NEW o, NEW k \in Nat, NEW n \in Int, Chain(m, c, o, k, n), o[k + 1] = Used(c),
         NEW amt \in Nat, amt > 0, Fits(c, amt)
  PROVE  MarksEnd(m, c, o, k, n, amt, Taken(c, amt), Chosen(c, amt).free,
                  PutHeader(m, Chosen(c, amt).free + amt, EndMark))
<1> DEFINE t == Taken(c, amt)
           p == Chosen(c, amt).free
           m2 == PutHeader(m, p + amt, EndMark)
           u == o[k + 1]
<1>1. /\ CtlOK(t) /\ Used(t) = Used(c) + amt /\ t.start = c.start /\ t.free = p + amt
      /\ p \in Cells /\ p + amt \in Cells
      /\ t.wrap < hi => t.wrap = c.wrap \/ t.wrap + amt + Header > hi
      /\ c.start = lo /\ c.end_free = hi => t.start = lo /\ t.end_free = hi
      /\ \A x \in Nat : x < Used(c) =>
           /\ Cell(t, x) = Cell(c, x)
           /\ Cell(c, x) \notin p..(p + amt + Header - 1)
      /\ \A j \in Nat : j < amt => Cell(t, Used(c) + j) = p + j
  BY TakenFacts
<1>2. Used(c) \in Nat /\ Header \in Nat /\ p \in Int /\ \A x \in Nat : x < Used(c) => Cell(c, x) \in Cells
  BY <1>1, CellFacts, TraceMemoryAssumption DEF Cells, lo, hi
<1>3. u = Used(c)
  OBVIOUS
<1> HIDE DEF t, p, u
<1>4. /\ m2 = [d \in Cells |-> m2[d]] /\ m2[p + amt] = EndMark
      /\ \A d \in Cells : d \notin (p + amt)..(p + amt + Header - 1) => m2[d] = m[d]
  <2> DEFINE q == p + amt
  <2>1. q \in Cells
    BY <1>1
  <2> HIDE DEF EndMark, q
  <2>2. /\ PutHeader(m, q, EndMark) = [d \in Cells |-> PutHeader(m, q, EndMark)[d]]
        /\ PutHeader(m, q, EndMark)[q] = EndMark
        /\ \A d \in Cells : d \notin q..(q + Header - 1) => PutHeader(m, q, EndMark)[d] = m[d]
    <3>1. q \in q..(q + Header - 1)
      BY <2>1, TraceMemoryAssumption DEF Cells, lo, hi
    <3> QED
      BY <2>1, <3>1 DEF PutHeader
  <2> QED
    BY <2>2 DEF q
<1> HIDE DEF m2
<1>5. Moved(m, c, m2, t, 0, u)
  <2> SUFFICES ASSUME NEW x \in Nat, x < u PROVE Cell(t, x - 0) = Cell(c, x) /\ m2[Cell(c, x)] = m[Cell(c, x)]
    BY DEF Moved
  <2>1. x - 0 = x /\ Cell(t, x) = Cell(c, x) /\ Cell(c, x) \notin p..(p + amt + Header - 1) /\ Cell(c, x) \in Cells
    BY <1>1, <1>2, <1>3
  <2>2. Cell(c, x) \notin (p + amt)..(p + amt + Header - 1)
    BY <1>2, <2>1
  <2> QED
    BY <1>4, <2>1, <2>2
<1>6. u <= Used(t) /\ u + amt = Used(t)
  BY <1>1, <1>2, <1>3
<1>7. Chain(m2, t, o, k, n)
  BY <1>5, <1>6, ChainKept DEF u
<1>8. Follows(t, u, p, amt)
  <2> SUFFICES ASSUME NEW j \in Nat, j < amt PROVE Cell(t, u + j) = p + j
    BY <1>2, <1>3, <1>6, CellFacts, <1>1 DEF Follows
  <2> QED
    BY <1>1, <1>3
<1>9. ASSUME NEW i \in 1..k PROVE Cell(t, o[i]) = Cell(c, o[i])
  <2>1. Ordered(c, o, k) /\ Framed(m, c, o, k, n)
    BY ChainFacts
  <2>2. o[i] \in Nat /\ o[i] < Used(c)
    BY <2>1 DEF Ordered, Framed
  <2> QED
    BY <1>1, <2>2
<1>10. MarksEnd(m, c, o, k, n, amt, t, p, m2)
  BY <1>1, <1>4, <1>6, <1>7, <1>8, <1>9 DEF MarksEnd, u
<1> QED
  BY <1>10 DEF t, p, m2

-----------------------------------------------------------------------------
(* The invariant.                                                          *)

LEMMA InitIInv == ASSUME Roomy, Init PROVE IInv
<1>1. /\ lo \in Cells /\ lo = 0 /\ hi = Size /\ Size \in Nat /\ Header \in Nat /\ Header > 0 /\ Size >= Header
      /\ MaxFrames \in Nat /\ MaxBlocks \in Nat
  BY TraceMemoryAssumption DEF lo, hi, Cells
<1>2. /\ mem = PutHeader([c \in Cells |-> Other], lo, EndMark)
      /\ ctl = [start |-> lo, free |-> lo, end_free |-> hi, wrap |-> hi] /\ count = 0 /\ made = 0
      /\ circular \in BOOLEAN /\ frame = [on |-> FALSE, at |-> -1, want |-> 0, blocks |-> 0]
  BY DEF Init, ClearedMemory, Cleared, NoFrame
<1>3. FrameInv
  BY <1>1, <1>2 DEF FrameInv, NoFrame
<1>4. CountInv
  BY <1>1, <1>2 DEF CountInv
<1>5. mem = [c \in Cells |-> mem[c]] /\ mem[lo] = EndMark
  <2> HIDE DEF EndMark, lo
  <2> QED
    BY <1>1, <1>2 DEF PutHeader
<1>6. CtlOK(ctl)
  BY <1>1, <1>2 DEF CtlOK, Ctrl
<1>7. Held = 0 /\ Before = 0
  BY <1>2 DEF Held, Before
<1>8. CtlInv
  BY <1>1, <1>2, <1>5, <1>6 DEF CtlInv, Cleared
<1>9. \E o : Frames(o)
  <2> DEFINE o == [i \in Nat |-> 0]
  <2>1. Used(ctl) = 0 /\ o \in [Nat -> Nat] /\ o[1] = 0 /\ o[0 + 1] = 0
    BY <1>1, <1>2 DEF Used
  <2> HIDE DEF o
  <2>2. 1..0 = {} /\ \A i, j \in 1..(0 + 1) : ~(i < j)
    OBVIOUS
  <2>3. Chain(mem, ctl, o, 0, 0)
    BY <2>1, <2>2 DEF Chain
  <2>4. frame.at = -1
    BY <1>2
  <2> QED
    BY <1>7, <2>1, <2>2, <2>3, <2>4 DEF Frames
<1> QED
  BY <1>3, <1>4, <1>8, <1>9 DEF IInv

(* A frame is begun or ended, or a block is asked for.                     *)
LEMMA HitIInv == ASSUME Roomy, IInv, Hit PROVE IInv'
<1>1. /\ frame = NoFrame /\ made < MaxFrames
      /\ frame' = [on |-> TRUE, at |-> -1, want |-> Header, blocks |-> 0]
      /\ mem' = mem /\ ctl' = ctl /\ count' = count /\ circular' = circular /\ made' = made
  BY DEF IInv, FrameInv, Hit, NoFrame
<1>2. MaxBlocks \in Nat
  BY TraceMemoryAssumption
<1>3. FrameInv'
  BY <1>1, <1>2 DEF FrameInv
<1>4. CountInv'
  BY <1>1 DEF IInv, CountInv
<1>5. Held' = Held /\ Before' = Before /\ frame.want = 0 /\ frame'.at = -1
  BY <1>1 DEF Held, Before, NoFrame
<1>6. CtlInv'
  BY <1>1, <1>5 DEF IInv, CtlInv
<1>7. (\E o : Frames(o))'
  <2>1. PICK o : Frames(o)
    BY DEF IInv
  <2>2. Frames(o)'
    BY <1>1, <1>5, <2>1 DEF Frames
  <2> QED
    BY <2>2
<1> QED
  BY <1>3, <1>4, <1>6, <1>7 DEF IInv

LEMMA ActionIInv == ASSUME Roomy, IInv, NEW size \in Blocks, Action(size) PROVE IInv'
<1>1. /\ frame.on /\ frame.at # -1 /\ ~(frame.want > 0) /\ frame.blocks < MaxBlocks
      /\ frame' = [frame EXCEPT !.want = size, !.blocks = @ + 1]
      /\ mem' = mem /\ ctl' = ctl /\ count' = count /\ circular' = circular /\ made' = made
  BY DEF Action, Allocating
<1>2. /\ MaxBlocks \in Nat /\ Header \in Nat /\ Largest \in Nat
      /\ \A b \in Blocks : b \in Nat /\ b > 0 /\ b <= Largest
      /\ \A b \in Nat : MostIn(b) \in Nat /\ MostIn(b + 1) = MostIn(b) + Largest
  BY LargestFacts
<1> HIDE DEF Largest
<1>3. /\ frame \in [on : BOOLEAN, at : {-1} \cup Cells, want : {0, Header} \cup Blocks, blocks : 0..MaxBlocks]
      /\ made < MaxFrames
  BY <1>1 DEF IInv, FrameInv
<1>4. frame.want = 0 /\ frame.blocks + 1 \in 0..MaxBlocks
  BY <1>1, <1>2, <1>3
<1>5. /\ frame'.on = frame.on /\ frame'.at = frame.at /\ frame'.want = size /\ frame'.blocks = frame.blocks + 1
      /\ frame' \in [on : BOOLEAN, at : {-1} \cup Cells, want : {0, Header} \cup Blocks, blocks : 0..MaxBlocks]
  BY <1>1, <1>3, <1>4
<1>6. FrameInv'
  BY <1>1, <1>3, <1>5 DEF FrameInv
<1>7. CountInv'
  BY <1>1 DEF IInv, CountInv
<1>8. Held' = Held /\ Before' = Before
  BY <1>1, <1>5 DEF Held, Before
<1>9. CtlInv'
  BY <1>1, <1>4, <1>8 DEF IInv, CtlInv
<1>10. (\E o : Frames(o))'
  <2>1. PICK o : Frames(o)
    BY DEF IInv
  <2>2. SizeIn(o, Held) + 0 <= MostIn(frame.blocks)
    BY <1>1, <1>4, <2>1 DEF Frames
  <2>3. SizeIn(o, Held) + size <= MostIn(frame.blocks + 1)
    <3>1. frame.blocks \in Nat /\ MostIn(frame.blocks + 1) = MostIn(frame.blocks) + Largest
      BY <1>2, <1>3
    <3>2. SizeIn(o, Held) \in Int
      <4>1. Held \in Nat /\ Held > 0
        BY <1>1 DEF Held, IInv, CountInv
      <4>2. Before \in Int
        BY DEF Before, IInv, CountInv
      <4>3. Framed(mem, ctl, o, Held, Before)
        BY <2>1, <4>1, <4>2, ChainFacts DEF IInv, CtlInv, Frames
      <4> QED
        BY <4>1, <4>3 DEF Framed
    <3>3. MostIn(frame.blocks) \in Int
      BY <1>2, <3>1
    <3> QED
      BY <1>2, <2>2, <3>1, <3>2, <3>3
  <2>4. Frames(o)'
    <3>1. Chain(mem, ctl, o, Held, Before)'
      BY <1>1, <1>8, <2>1 DEF Frames
    <3>2. (o[Held + 1] = Used(ctl))' /\ (\A i \in 1..Held : SizeIn(o, i) <= MostIn(MaxBlocks))'
      BY <1>1, <1>8, <2>1 DEF Frames
    <3>3. frame'.at = Cell(ctl', o[Held'])
      BY <1>1, <1>5, <1>8, <2>1 DEF Frames
    <3>4. SizeIn(o, Held') + frame'.want <= MostIn(frame'.blocks)
      BY <1>5, <1>8, <2>3
    <3> QED
      BY <3>1, <3>2, <3>3, <3>4 DEF Frames
  <2> QED
    BY <2>4
<1> QED
  BY <1>6, <1>7, <1>9, <1>10 DEF IInv

LEMMA CountsFacts ==
  ASSUME IInv
  PROVE  /\ Counts \in Nat /\ Counts > made
         /\ made < MaxFrames => (count + 1) % Counts = count + 1
         /\ count > 0 => (count + Counts - 1) % Counts = count - 1
<1>1. Counts \in Nat /\ Counts > MaxFrames /\ MaxFrames \in Nat
  BY TraceBufferAssumption, TraceMemoryAssumption
<1>2. count \in Nat /\ made \in Nat /\ count <= made /\ made <= MaxFrames
  BY DEF IInv, CountInv
<1>3. ASSUME NEW a \in Nat, NEW b \in Nat, a < b PROVE a % b = a /\ (a + b) % b = a
  BY <1>3
<1>4. count > 0 => count - 1 \in Nat /\ count - 1 < Counts /\ count + Counts - 1 = (count - 1) + Counts
  BY <1>1, <1>2
<1>5. made < MaxFrames => count + 1 \in Nat /\ count + 1 < Counts
  BY <1>1, <1>2
<1> QED
  BY <1>1, <1>2, <1>3, <1>4, <1>5

LEMMA FinishIInv == ASSUME Roomy, IInv, Finish PROVE IInv'
<1>1. /\ frame.on /\ frame.at # -1 /\ ~(frame.want > 0)
      /\ count' = (count + 1) % Counts /\ made' = made + 1
      /\ frame' = [on |-> FALSE, at |-> -1, want |-> 0, blocks |-> 0]
      /\ mem' = mem /\ ctl' = ctl /\ circular' = circular
  BY DEF Finish, Allocating, NoFrame
<1>2. made < MaxFrames
  BY <1>1 DEF IInv, FrameInv
<1>3. count' = count + 1
  BY <1>1, <1>2, CountsFacts
<1>4. frame.want = 0
  <2>1. \A b \in Blocks : b \in Nat /\ b > 0
    BY TraceMemoryAssumption
  <2> QED
    BY <1>1, <2>1 DEF IInv, FrameInv
<1>5. FrameInv'
  BY <1>1, TraceMemoryAssumption DEF FrameInv, NoFrame
<1>6. CountInv'
  BY <1>1, <1>2, <1>3, TraceMemoryAssumption DEF IInv, CountInv
<1>7. Held' = Held /\ Before' = Before
  BY <1>1, <1>3 DEF IInv, CountInv, Held, Before
<1>8. CtlInv'
  BY <1>1, <1>4, <1>7 DEF IInv, CtlInv
<1>9. (\E o : Frames(o))'
  <2>1. PICK o : Frames(o)
    BY DEF IInv
  <2>2. frame'.at = -1
    BY <1>1
  <2>3. Frames(o)'
    BY <1>1, <1>7, <2>1, <2>2 DEF Frames
  <2> QED
    BY <2>3
<1> QED
  BY <1>5, <1>6, <1>8, <1>9 DEF IInv

LEMMA SetCircularIInv ==
  ASSUME Roomy, FALSE \notin Modes, IInv, NEW val \in Modes, SetCircular(val)
  PROVE  IInv'
<1>1. /\ circular' = val /\ ~frame.on
      /\ mem' = mem /\ ctl' = ctl /\ count' = count /\ frame' = frame /\ made' = made
  BY DEF SetCircular
<1>2. val \in BOOLEAN /\ val # FALSE
  BY TraceBufferAssumption
<1>3. FrameInv' /\ CountInv'
  BY <1>1, <1>2 DEF IInv, FrameInv, CountInv
<1>4. Held' = Held /\ Before' = Before
  BY <1>1 DEF Held, Before
<1>5. frame.want = 0
  BY <1>1 DEF IInv, FrameInv, NoFrame
<1>6. CtlInv'
  BY <1>1, <1>2, <1>4, <1>5 DEF IInv, CtlInv
<1>7. (\E o : Frames(o))'
  <2>1. PICK o : Frames(o)
    BY DEF IInv
  <2>2. Frames(o)'
    BY <1>1, <1>4, <2>1 DEF Frames
  <2> QED
    BY <2>2
<1> QED
  BY <1>3, <1>6, <1>7 DEF IInv

LEMMA ClearIInv == ASSUME Roomy, IInv, Clear PROVE IInv'
<1>1. /\ lo \in Cells /\ lo = 0 /\ hi = Size /\ Size \in Nat /\ Header \in Nat /\ Header > 0 /\ Size >= Header
  BY TraceMemoryAssumption DEF lo, hi, Cells
<1>2. /\ ~frame.on /\ frame = NoFrame
      /\ ctl' = [start |-> lo, free |-> lo, end_free |-> hi, wrap |-> hi]
      /\ mem' = PutHeader(mem, lo, EndMark) /\ count' = 0
      /\ circular' = circular /\ frame' = frame /\ made' = made
  BY DEF IInv, FrameInv, Clear, Cleared
<1>3. FrameInv' /\ CountInv'
  BY <1>2 DEF IInv, FrameInv, CountInv
<1>4. mem' = [c \in Cells |-> mem'[c]] /\ mem'[lo] = EndMark
  <2> HIDE DEF EndMark, lo
  <2> QED
    BY <1>1, <1>2 DEF PutHeader
<1>5. CtlOK(ctl)'
  BY <1>1, <1>2 DEF CtlOK, Ctrl
<1>6. Held' = 0 /\ Before' = made /\ made \in Nat /\ frame'.at = -1
  BY <1>2 DEF Held, Before, IInv, CountInv, NoFrame
<1>7. CtlInv'
  BY <1>1, <1>2, <1>4, <1>5 DEF CtlInv, Cleared
<1>8. (\E o : Frames(o))'
  <2> DEFINE o == [i \in Nat |-> 0]
  <2>1. Used(ctl)' = 0 /\ o \in [Nat -> Nat] /\ o[1] = 0 /\ o[0 + 1] = 0
    BY <1>1, <1>2 DEF Used
  <2> HIDE DEF o
  <2>2. 1..0 = {} /\ \A i, j \in 1..(0 + 1) : ~(i < j)
    OBVIOUS
  <2>3. Chain(mem', ctl', o, 0, made)
    BY <2>1, <2>2 DEF Chain
  <2>4. Frames(o)'
    BY <1>6, <2>1, <2>2, <2>3 DEF Frames
  <2> QED
    BY <2>4
<1> QED
  BY <1>3, <1>7, <1>8 DEF IInv

(* Space is found.                                                         *)
LEMMA StartFrameIInv == ASSUME Roomy, IInv, StartFrame PROVE IInv'
<1> DEFINE t == Taken(ctl, Header)
           p == Chosen(ctl, Header).free
           m1 == PutHeader(mem, p + Header, EndMark)
           m2 == PutHeader(m1, p, TraceFrame(made + 1, 0))
           k == count
           n == Before
<1>1. /\ Largest \in Nat /\ Header \in Nat /\ Header > 0 /\ Header <= Largest /\ MaxBlocks \in Nat
      /\ MostIn(MaxBlocks) \in Nat
      /\ \A b \in 0..MaxBlocks : MostIn(b) \in Nat
  BY LargestFacts
<1>2. /\ frame.on /\ frame.at = -1 /\ frame.want = Header /\ Fits(ctl, Header)
      /\ made < MaxFrames
  BY DEF IInv, FrameInv, NoFrame, StartFrame, Found, Allocating
<1>3. /\ ctl' = t /\ mem' = m2 /\ frame' = [frame EXCEPT !.at = p, !.want = 0]
      /\ count' = count /\ circular' = circular /\ made' = made
  BY <1>2 DEF StartFrame, Marked, Piece
<1>4. Held = k /\ k \in Nat /\ n \in Int /\ n + k + 1 = made + 1 /\ made \in Nat
  BY <1>2 DEF Held, Before, IInv, CountInv
<1>5. PICK o : Frames(o)
  BY DEF IInv
<1>6. Chain(mem, ctl, o, k, n) /\ o[k + 1] = Used(ctl) /\ CtlOK(ctl)
  BY <1>4, <1>5 DEF Frames, IInv, CtlInv
<1> HIDE DEF Largest, k, n
<1>7. /\ CtlOK(t) /\ t.free = p + Header /\ p \in Cells /\ p + Header \in Cells
      /\ t.wrap < hi => t.wrap = ctl.wrap \/ t.wrap + Header + Header > hi
      /\ ctl.start = lo /\ ctl.end_free = hi => t.start = lo /\ t.end_free = hi
      /\ Follows(t, o[k + 1], p, Header) /\ o[k + 1] + Header = Used(t)
      /\ m1 = [d \in Cells |-> m1[d]] /\ m1[t.free] = EndMark
      /\ Chain(m1, t, o, k, n)
  <2>1. MarksEnd(mem, ctl, o, k, n, Header, t, p, m1)
    BY <1>1, <1>2, <1>4, <1>6, TakeAndMark
  <2> HIDE DEF t, p, m1
  <2> QED
    BY <2>1 DEF MarksEnd
<1> HIDE DEF t, p, m1
<1> DEFINE o2 == [o EXCEPT ![k + 2] = Used(t)]
<1>8. Chain(m2, t, o2, k + 1, n) /\ SizeIn(o2, k + 1) = 0
  BY <1>4, <1>7, ChainAdd
<1>9. m2 = [d \in Cells |-> m2[d]] /\ m2[t.free] = EndMark
  <2> DEFINE h == TraceFrame(made + 1, 0)
  <2>1. p + Header \notin p..(p + Header - 1)
    BY <1>1, <1>7, TraceMemoryAssumption DEF Cells, lo, hi
  <2> HIDE DEF h
  <2>2. PutHeader(m1, p, h) = [d \in Cells |-> PutHeader(m1, p, h)[d]]
    BY DEF PutHeader
  <2>3. PutHeader(m1, p, h)[p + Header] = m1[p + Header]
    BY <1>1, <1>7, <2>1, TraceMemoryAssumption DEF PutHeader, Cells, lo, hi
  <2> QED
    BY <1>7, <2>2, <2>3 DEF h
<1> HIDE DEF m2
<1>10. o \in [Nat -> Nat] /\ Used(t) \in Nat
  BY <1>6, <1>7, CellFacts DEF Chain
<1>11. o2[(k + 1) + 1] = Used(t) /\ \A i \in 1..(k + 1) : o2[i] = o[i]
  BY <1>4, <1>10
<1> HIDE DEF o2
<1>12. /\ frame'.on /\ frame'.at = p /\ frame'.want = 0 /\ frame'.blocks = frame.blocks
       /\ frame' \in [on : BOOLEAN, at : {-1} \cup Cells, want : {0, Header} \cup Blocks, blocks : 0..MaxBlocks]
  BY <1>2, <1>3, <1>7 DEF IInv, FrameInv
<1>13. p # -1
  BY <1>7, TraceMemoryAssumption DEF Cells, lo, hi
<1>14. FrameInv'
  BY <1>2, <1>3, <1>12, <1>13 DEF FrameInv
<1>15. CountInv'
  BY <1>3 DEF IInv, CountInv
<1>16. Held' = k + 1 /\ Before' = n
  BY <1>3, <1>12, <1>13 DEF Held, Before, k, n
<1>17. t.wrap < hi => t.wrap + Largest + Header > hi
  <2>1. ctl.wrap < hi => ctl.wrap + Largest + Header > hi
    BY DEF IInv, CtlInv
  <2>2. t.wrap \in Int /\ hi \in Int
    BY <1>7, TraceMemoryAssumption, CtrlFields DEF CtlOK, hi
  <2> QED
    BY <1>1, <1>7, <2>1, <2>2
<1>18. CtlInv'
  <2>1. Held' # 0
    BY <1>4, <1>16
  <2> QED
    BY <1>3, <1>7, <1>9, <1>17, <2>1 DEF IInv, CtlInv
<1>19. (\E q : Frames(q))'
  <2>1. ASSUME NEW i \in 1..(k + 1) PROVE SizeIn(o2, i) <= MostIn(MaxBlocks)
    <3>1. CASE i = k + 1
      BY <1>1, <1>8, <3>1
    <3>2. CASE i # k + 1
      <4>1. i \in 1..k /\ i \in 1..(k + 1) /\ i + 1 \in 1..(k + 1)
        BY <1>4, <3>2
      <4>2. SizeIn(o2, i) = SizeIn(o, i)
        BY <1>11, <4>1 DEF SizeIn
      <4> QED
        BY <1>4, <1>5, <4>1, <4>2 DEF Frames
    <3> QED
      BY <3>1, <3>2
  <2>2. p = Cell(t, o2[k + 1])
    <3>0. o[k + 1] \in Nat /\ p \in Int
      <4>1. o[k + 1] \in Nat
        BY <1>4, <1>10
      <4>2. p \in Int
        BY <1>7, TraceMemoryAssumption DEF Cells, lo, hi
      <4> QED
        BY <4>1, <4>2
    <3>1. k + 1 \in 1..(k + 1) /\ 0 \in Nat /\ 0 < Header /\ o[k + 1] + 0 = o[k + 1] /\ p + 0 = p
      BY <1>1, <1>4, <3>0
    <3>2. Cell(t, o[k + 1] + 0) = p + 0
      BY <1>7, <3>1 DEF Follows
    <3> QED
      BY <1>11, <3>1, <3>2
  <2>3. SizeIn(o2, k + 1) + 0 <= MostIn(frame.blocks)
    <3>1. frame.blocks \in 0..MaxBlocks
      BY DEF IInv, FrameInv
    <3>2. MostIn(frame.blocks) \in Nat
      BY <1>1, <3>1
    <3> QED
      BY <1>8, <3>2
  <2>7. PICK q : q = o2
    OBVIOUS
  <2>4. Chain(mem, ctl, q, Held, Before)'
    BY <2>7, <1>3, <1>8, <1>16
  <2>5. (q[Held + 1] = Used(ctl))' /\ \A i \in 1..Held' : SizeIn(q, i) <= MostIn(MaxBlocks)
    BY <2>7, <1>3, <1>11, <1>16, <2>1
  <2>6. frame'.at = Cell(ctl', q[Held']) /\ SizeIn(q, Held') + frame'.want <= MostIn(frame'.blocks)
    BY <2>7, <1>3, <1>12, <1>16, <2>2, <2>3
  <2>8. Frames(q)'
    BY <2>4, <2>5, <2>6 DEF Frames
  <2> QED
    BY <2>8
<1> QED
  BY <1>14, <1>15, <1>18, <1>19 DEF IInv

LEMMA AddBlockIInv == ASSUME Roomy, IInv, AddBlock PROVE IInv'
<1> DEFINE len == frame.want
           t == Taken(ctl, len)
           p == Chosen(ctl, len).free
           m1 == PutHeader(mem, p + len, EndMark)
           k == count + 1
           n == Before
           a == frame.at
           size == HeaderAt(mem, a).size
           m2 == [PutBlock(m1, p, len, made + 1, size) EXCEPT ![a] = TraceFrame(made + 1, size + len)]
<1>1. /\ Largest \in Nat /\ Header \in Nat /\ Header > 0 /\ MaxBlocks \in Nat
      /\ MostIn(MaxBlocks) \in Nat
      /\ \A b \in Blocks : b \in Nat /\ b > 0 /\ b <= Largest
      /\ \A b \in 0..MaxBlocks : MostIn(b) \in Nat /\ MostIn(b) <= MostIn(MaxBlocks)
  BY LargestFacts
<1>2. /\ frame.at # -1 /\ frame.want > 0 /\ Fits(ctl, len)
      /\ frame.on /\ made < MaxFrames /\ frame.want \in Blocks
      /\ frame \in [on : BOOLEAN, at : {-1} \cup Cells, want : {0, Header} \cup Blocks, blocks : 0..MaxBlocks]
  BY DEF IInv, FrameInv, NoFrame, AddBlock, Found, Allocating
<1>3. /\ ctl' = t /\ mem' = m2 /\ frame' = [frame EXCEPT !.want = 0]
      /\ count' = count /\ circular' = circular /\ made' = made
  BY DEF AddBlock, Marked, Piece
<1>4. Held = k /\ k \in Nat /\ k > 0 /\ n \in Int /\ n + k = made + 1 /\ made \in Nat
  BY <1>2 DEF Held, Before, IInv, CountInv
<1>5. PICK o : Frames(o)
  BY DEF IInv
<1>6. Chain(mem, ctl, o, k, n) /\ o[k + 1] = Used(ctl) /\ CtlOK(ctl) /\ a = Cell(ctl, o[k])
  BY <1>2, <1>4, <1>5 DEF Frames, IInv, CtlInv
<1>7. size = SizeIn(o, k) /\ size \in Nat
  <2>1. Framed(mem, ctl, o, k, n)
    BY <1>4, <1>6, ChainFacts
  <2>2. k \in 1..k
    BY <1>4
  <2>3. HeaderAt(mem, a) = TraceFrame(n + k, SizeIn(o, k)) /\ SizeIn(o, k) \in Nat
    BY <1>6, <2>1, <2>2 DEF Framed
  <2> QED
    BY <2>3 DEF TraceFrame
<1>8. size + len <= MostIn(frame.blocks)
  BY <1>2, <1>4, <1>5, <1>7 DEF Frames
<1>9. \A i \in 1..k : SizeIn(o, i) <= MostIn(MaxBlocks)
  BY <1>4, <1>5 DEF Frames
<1>10. len \in Blocks /\ len \in Nat /\ len > 0 /\ len <= Largest
  BY <1>1, <1>2
<1> HIDE DEF Largest, k, n, a, size, len
<1>11. /\ CtlOK(t) /\ t.free = p + len /\ p \in Cells /\ p + len \in Cells
       /\ t.wrap < hi => t.wrap = ctl.wrap \/ t.wrap + len + Header > hi
       /\ ctl.start = lo /\ ctl.end_free = hi => t.start = lo /\ t.end_free = hi
       /\ Follows(t, o[k + 1], p, len) /\ o[k + 1] + len = Used(t)
       /\ m1 = [d \in Cells |-> m1[d]] /\ m1[t.free] = EndMark
       /\ Chain(m1, t, o, k, n)
       /\ \A i \in 1..k : Cell(t, o[i]) = Cell(ctl, o[i])
  <2>1. MarksEnd(mem, ctl, o, k, n, len, t, p, m1)
    BY <1>2, <1>4, <1>6, <1>10, TakeAndMark
  <2> HIDE DEF t, p, m1
  <2> QED
    BY <2>1 DEF MarksEnd
<1> HIDE DEF t, p, m1
<1>12. a = Cell(t, o[k])
  BY <1>4, <1>6, <1>11
<1> DEFINE o2 == [o EXCEPT ![k + 1] = Used(t)]
<1>13. /\ Chain(m2, t, o2, k, n) /\ SizeIn(o2, k) = size + len
       /\ m2 = [c \in Cells |-> m2[c]]
       /\ \A c \in Cells : c # a /\ c \notin p..(p + len - 1) => m2[c] = m1[c]
  <2> DEFINE size1 == SizeIn(o, k)
             a1 == Cell(t, o[k])
             m3 == [PutBlock(m1, p, len, n + k, size1) EXCEPT ![a1] = TraceFrame(n + k, size1 + len)]
  <2>1. /\ Chain(m3, t, o2, k, n) /\ SizeIn(o2, k) = size1 + len
        /\ m3 = [c \in Cells |-> m3[c]]
        /\ \A c \in Cells : c # a1 /\ c \notin p..(p + len - 1) => m3[c] = m1[c]
    BY <1>4, <1>10, <1>11, ChainGrow
  <2>2. m3 = m2
    BY <1>4, <1>7, <1>12
  <2> HIDE DEF m2, m3
  <2> QED
    BY <1>7, <1>12, <2>1, <2>2
<1> HIDE DEF m2
<1>14. o \in [Nat -> Nat] /\ Used(t) \in Nat
  BY <1>6, <1>11, CellFacts DEF Chain
<1>15. o2[k + 1] = Used(t) /\ \A i \in 1..k : o2[i] = o[i]
  BY <1>4, <1>14
<1> HIDE DEF o2
(* The marker is not where the frame is: that is in use.                   *)
<1>16. m2[t.free] = EndMark
  <2>1. p + len \notin p..(p + len - 1) /\ p + len \in Cells
    BY <1>10, <1>11, TraceMemoryAssumption DEF Cells, lo, hi
  <2>2. p + len # a
    <3>1. m1[a] = TraceFrame(n + k, SizeIn(o, k))
      BY <1>4, <1>11, <1>12 DEF Chain, Lies
    <3>2. TraceFrame(n + k, SizeIn(o, k)).tp = n + k /\ EndMark.tp = 0 /\ n + k # 0
      BY <1>4 DEF TraceFrame, EndMark
    <3> QED
      BY <1>11, <3>1, <3>2
  <2> QED
    BY <1>11, <1>13, <2>1, <2>2
<1>17. /\ frame'.on /\ frame'.at = a /\ frame'.want = 0 /\ frame'.blocks = frame.blocks /\ a # -1
       /\ frame' \in [on : BOOLEAN, at : {-1} \cup Cells, want : {0, Header} \cup Blocks, blocks : 0..MaxBlocks]
  BY <1>2, <1>3 DEF a
<1>18. FrameInv'
  BY <1>2, <1>3, <1>17 DEF FrameInv
<1>19. CountInv'
  BY <1>3 DEF IInv, CountInv
<1>20. Held' = k /\ Before' = n
  BY <1>3, <1>17 DEF Held, Before, k, n
<1>21. t.wrap < hi => t.wrap + Largest + Header > hi
  <2>1. ctl.wrap < hi => ctl.wrap + Largest + Header > hi
    BY DEF IInv, CtlInv
  <2>2. t.wrap \in Int /\ hi \in Int
    BY <1>11, TraceMemoryAssumption, CtrlFields DEF CtlOK, hi
  <2> QED
    BY <1>1, <1>10, <1>11, <2>1, <2>2
<1>22. CtlInv'
  <2>1. Held' # 0
    BY <1>4, <1>20
  <2> QED
    BY <1>3, <1>11, <1>13, <1>16, <1>21, <2>1 DEF IInv, CtlInv
<1>23. (\E q : Frames(q))'
  <2>0. size + len <= MostIn(MaxBlocks)
    <3>1. frame.blocks \in 0..MaxBlocks
      BY <1>2
    <3>2. MostIn(frame.blocks) \in Nat /\ MostIn(frame.blocks) <= MostIn(MaxBlocks)
      BY <1>1, <3>1
    <3> QED
      BY <1>1, <1>7, <1>8, <1>10, <3>2
  <2>1. ASSUME NEW i \in 1..k PROVE SizeIn(o2, i) <= MostIn(MaxBlocks)
    <3>1. CASE i = k
      BY <1>13, <2>0, <3>1
    <3>2. CASE i # k
      <4>1. i \in 1..k /\ i + 1 \in 1..k
        BY <1>4, <3>2
      <4>2. SizeIn(o2, i) = SizeIn(o, i)
        BY <1>15, <4>1 DEF SizeIn
      <4> QED
        BY <1>9, <4>2
    <3> QED
      BY <3>1, <3>2
  <2>2. a = Cell(t, o2[k])
    BY <1>4, <1>12, <1>15
  <2>3. SizeIn(o2, k) + 0 <= MostIn(frame.blocks)
    BY <1>7, <1>8, <1>10, <1>13
  <2>7. PICK q : q = o2
    OBVIOUS
  <2>4. Chain(mem, ctl, q, Held, Before)'
    BY <2>7, <1>3, <1>13, <1>20
  <2>5. (q[Held + 1] = Used(ctl))' /\ \A i \in 1..Held' : SizeIn(q, i) <= MostIn(MaxBlocks)
    BY <2>7, <1>3, <1>15, <1>20, <2>1
  <2>6. frame'.at = Cell(ctl', q[Held']) /\ SizeIn(q, Held') + frame'.want <= MostIn(frame'.blocks)
    BY <2>7, <1>3, <1>17, <1>20, <2>2, <2>3
  <2>8. Frames(q)'
    BY <2>4, <2>5, <2>6 DEF Frames
  <2> QED
    BY <2>8
<1> QED
  BY <1>18, <1>19, <1>22, <1>23 DEF IInv

(* No space is found.                                                      *)

(* The first frame is the oldest that is counted.                          *)
LEMMA FirstFrame ==
  ASSUME NEW m, NEW c, CtlOK(c), NEW o, NEW k \in Nat, k > 0, NEW n \in Int, Chain(m, c, o, k, n), k <= MaxFrames
  PROVE  HeaderAt(m, c.start).tp = n + 1 /\ NextIn(m, c, c.start) = Cell(c, o[2])
<1>1. Framed(m, c, o, k, n) /\ 1 \in 1..k /\ 1 + 1 = 2
  BY ChainFacts
<1>2. o[1] = 0 /\ Cell(c, 0) = c.start
  BY CellFacts DEF Chain
<1>3. /\ HeaderAt(m, c.start) = TraceFrame(n + 1, SizeIn(o, 1)) /\ SizeIn(o, 1) \in Nat
      /\ o[1] + Header + SizeIn(o, 1) = o[1 + 1] /\ 1 + 1 \in 1..(k + 1)
  BY <1>1, <1>2 DEF Framed
<1>4. HeaderAt(m, c.start).tp = n + 1 /\ HeaderAt(m, c.start).size = SizeIn(o, 1)
  BY <1>3 DEF TraceFrame
<1>5. Header \in Nat /\ Header + SizeIn(o, 1) \in Nat /\ 0 + (Header + SizeIn(o, 1)) = o[2]
  BY <1>2, <1>3, TraceMemoryAssumption
<1>6. o[2] <= Used(c)
  <2>1. Ordered(c, o, k)
    BY ChainFacts
  <2> QED
    BY <1>1, <1>3, <2>1 DEF Ordered
<1>7. Folded(c, Cell(c, 0) + (Header + SizeIn(o, 1))) = Cell(c, 0 + (Header + SizeIn(o, 1)))
  <2>1. 0 \in Nat /\ 0 + (Header + SizeIn(o, 1)) <= Used(c)
    BY <1>5, <1>6
  <2> HIDE DEF SizeIn
  <2> QED
    BY <1>5, <2>1, FoldAdds
<1>8. NextIn(m, c, c.start) = Folded(c, c.start + Header + SizeIn(o, 1))
  BY <1>4 DEF NextIn, Folded
<1>9. c.start + Header + SizeIn(o, 1) = c.start + (Header + SizeIn(o, 1))
  BY <1>3, <1>5, CtrlFields DEF CtlOK
<1> QED
  BY <1>2, <1>4, <1>5, <1>7, <1>8, <1>9

(* Giving up the upper part changes nothing for the frames.                *)
LowersTo(m, c, o, k, n, amt, l) ==
  /\ CtlOK(l) /\ Used(l) = Used(c) /\ l.start = c.start
  /\ l.wrap < hi => l.wrap = c.wrap \/ l.wrap + amt + Header > hi
  /\ Chain(m, l, o, k, n)
  /\ \A i \in 1..k : Cell(l, o[i]) = Cell(c, o[i])

LEMMA ChainLower ==
  ASSUME NEW m, NEW c, CtlOK(c), NEW o, NEW k \in Nat, NEW n \in Int, Chain(m, c, o, k, n),
         NEW amt \in Nat, ~Fits(c, amt)
  PROVE  LowersTo(m, c, o, k, n, amt, Lower(c))
<1> DEFINE l == Lower(c)
<1>1. /\ CtlOK(l) /\ Used(l) = Used(c) /\ l.start = c.start
      /\ l.wrap < hi => l.wrap = c.wrap \/ l.wrap + amt + Header > hi
      /\ \A x \in Nat : x < Used(c) => Cell(l, x) = Cell(c, x)
  BY LowerFacts DEF Fits
<1> HIDE DEF l
<1>2. Ordered(c, o, k) /\ Framed(m, c, o, k, n)
  BY ChainFacts
<1>3. o[k + 1] <= Used(c) /\ o[k + 1] \in Nat /\ Used(c) \in Nat
  BY CellFacts DEF Chain
<1>4. Moved(m, c, m, l, 0, o[k + 1])
  <2> SUFFICES ASSUME NEW x \in Nat, x < o[k + 1] PROVE Cell(l, x - 0) = Cell(c, x)
    BY DEF Moved
  <2>1. x - 0 = x /\ x < Used(c)
    BY <1>3
  <2> QED
    BY <1>1, <2>1
<1>5. Chain(m, l, o, k, n)
  BY <1>1, <1>3, <1>4, ChainKept
<1>6. \A i \in 1..k : Cell(l, o[i]) = Cell(c, o[i])
  BY <1>1, <1>2 DEF Ordered, Framed
<1>7. LowersTo(m, c, o, k, n, amt, l)
  BY <1>1, <1>5, <1>6 DEF LowersTo
<1> QED
  BY <1>7 DEF l

LEMMA HeldFacts ==
  ASSUME IInv
  PROVE  /\ Held \in Nat /\ Held <= MaxFrames /\ Before \in Int /\ 0 <= Before /\ MaxFrames \in Nat
         /\ frame.at # -1 => Held = count + 1
         /\ frame.at = -1 => Held = count
<1>1. MaxFrames \in Nat
  BY TraceMemoryAssumption
<1>2. frame.at # -1 => made < MaxFrames
  BY DEF IInv, FrameInv, NoFrame
<1> QED
  BY <1>1, <1>2 DEF IInv, CountInv, Held, Before

LEMMA NoRoomIInv == ASSUME Roomy, IInv, NoRoom PROVE IInv'
<1>1. /\ NotFound /\ (circular => HeaderAt(mem, ctl.start).tp = 0)
      /\ ctl' = Lower(ctl)
      /\ frame' = IF frame.at = -1 THEN NoFrame ELSE [frame EXCEPT !.want = 0]
      /\ mem' = mem /\ count' = count /\ circular' = circular /\ made' = made
  BY DEF NoRoom
<1>2. PICK o : Frames(o)
  BY DEF IInv
<1>3. CtlOK(ctl) /\ Held >= 2
  BY <1>1, NotAlone DEF IInv, CtlInv
<1>4. ~circular
  <2>1. HeaderAt(mem, ctl.start).tp = Before + 1
    BY <1>2, <1>3, HeldFacts, FirstFrame DEF Frames
  <2> QED
    BY <1>1, <2>1, HeldFacts
<1>5. ctl' = ctl
  <2>1. ctl.end_free = hi /\ ctl.free \in 0..Size /\ hi = Size /\ Size \in Nat
    BY <1>3, <1>4, CtrlFields DEF IInv, CtlInv, CtlOK
  <2> QED
    BY <1>1, <2>1 DEF Lower, TwoParts
<1>6. FrameInv'
  <2>1. CASE frame.at = -1
    BY <1>1, <2>1, TraceMemoryAssumption DEF FrameInv, NoFrame
  <2>2. CASE frame.at # -1
    <3>1. /\ frame' = [frame EXCEPT !.want = 0] /\ frame.on /\ made < MaxFrames
          /\ frame \in [on : BOOLEAN, at : {-1} \cup Cells, want : {0, Header} \cup Blocks, blocks : 0..MaxBlocks]
      BY <1>1, <2>2 DEF IInv, FrameInv, NoFrame
    <3>2. /\ frame'.on /\ frame'.at = frame.at /\ frame'.want = 0
          /\ frame' \in [on : BOOLEAN, at : {-1} \cup Cells, want : {0, Header} \cup Blocks, blocks : 0..MaxBlocks]
      BY <3>1
    <3> QED
      BY <1>1, <2>2, <3>1, <3>2 DEF FrameInv
  <2> QED
    BY <2>1, <2>2
<1>7. CountInv'
  BY <1>1 DEF IInv, CountInv
<1>8. frame'.at = frame.at /\ Held' = Held /\ Before' = Before
  <2>1. frame'.at = frame.at
    BY <1>1 DEF NoFrame, IInv, FrameInv
  <2> QED
    BY <1>1, <2>1 DEF Held, Before
<1>9. CtlInv'
  BY <1>1, <1>4, <1>5, <1>8 DEF IInv, CtlInv
<1>10. frame.at # -1 => frame'.want = 0 /\ frame'.blocks = frame.blocks /\ frame.want \in Nat
  BY <1>1, TraceMemoryAssumption DEF IInv, FrameInv, NotFound, Allocating
<1>11. Frames(o)'
  <2>1. Chain(mem, ctl, o, Held, Before)' /\ (o[Held + 1] = Used(ctl))'
    BY <1>1, <1>2, <1>5, <1>8 DEF Frames
  <2>2. (\A i \in 1..Held : SizeIn(o, i) <= MostIn(MaxBlocks))'
    BY <1>2, <1>8 DEF Frames
  <2>3. ASSUME frame'.at # -1
        PROVE  (frame.at = Cell(ctl, o[Held]) /\ SizeIn(o, Held) + frame.want <= MostIn(frame.blocks))'
    <3>1. frame'.at = Cell(ctl', o[Held'])
      BY <1>2, <1>5, <1>8, <2>3 DEF Frames
    <3>2. SizeIn(o, Held) + frame.want <= MostIn(frame.blocks)
      BY <1>2, <1>8, <2>3 DEF Frames
    <3>3. SizeIn(o, Held) \in Nat
      <4>1. Framed(mem, ctl, o, Held, Before) /\ Held \in 1..Held
        BY <1>2, <1>3, HeldFacts, ChainFacts DEF Frames
      <4> QED
        BY <4>1 DEF Framed
    <3>4. MostIn(frame.blocks) \in Nat
      <4>1. \A b \in 0..MaxBlocks : MostIn(b) \in Nat
        BY LargestFacts
      <4> QED
        BY <4>1 DEF IInv, FrameInv
    <3>5. SizeIn(o, Held) + 0 <= MostIn(frame.blocks)
      BY <1>8, <1>10, <2>3, <3>2, <3>3, <3>4
    <3>6. SizeIn(o, Held') + frame'.want <= MostIn(frame'.blocks)
      BY <1>8, <1>10, <2>3, <3>5
    <3> QED
      BY <3>1, <3>6
  <2> QED
    BY <2>1, <2>2, <2>3 DEF Frames
<1> QED
  BY <1>6, <1>7, <1>9, <1>11 DEF IInv

LEMMA DiscardIInv == ASSUME Roomy, IInv, Discard PROVE IInv' /\ count > 0 /\ count' = count - 1
<1> DEFINE l == Lower(ctl)
           k == Held
           n == Before
<1>1. /\ NotFound /\ circular /\ frame.want > 0
      /\ ctl' = Without(l, NextIn(mem, l, ctl.start))
      /\ count' = (count + Counts - 1) % Counts
      /\ mem' = mem /\ circular' = circular /\ frame' = frame /\ made' = made
  BY DEF Discard, NotFound, Allocating
<1>2. /\ Largest \in Nat /\ Header \in Nat /\ Header > 0 /\ Header <= Largest
      /\ \A b \in Blocks : b \in Nat /\ b > 0 /\ b <= Largest
  BY LargestFacts
<1>3. PICK o : Frames(o)
  BY DEF IInv
<1>4. frame.want \in Nat /\ frame.want <= Largest
  BY <1>1, <1>2 DEF IInv, FrameInv
<1> HIDE DEF Largest
<1>5. /\ CtlOK(ctl) /\ k \in Nat /\ k >= 2 /\ k <= MaxFrames /\ n \in Int
      /\ (frame.at # -1 => k = count + 1) /\ (frame.at = -1 => k = count)
  BY <1>1, NotAlone, HeldFacts DEF IInv, CtlInv
<1>6. count > 0 /\ count \in Nat /\ count' = count - 1
  <2>1. count > 0 /\ count \in Nat
    BY <1>5 DEF IInv, CountInv
  <2> QED
    BY <1>1, <2>1, CountsFacts
<1>7. Chain(mem, ctl, o, k, n) /\ o[k + 1] = Used(ctl)
  BY <1>3 DEF Frames
<1>8. \A i \in 1..k : SizeIn(o, i) <= MostIn(MaxBlocks)
  BY <1>3 DEF Frames
<1>9. frame.at # -1 => frame.at = Cell(ctl, o[k]) /\ SizeIn(o, k) + frame.want <= MostIn(frame.blocks)
  BY <1>3 DEF Frames
<1>10. Held' = k - 1 /\ Before' = n + 1
  BY <1>1, <1>5, <1>6 DEF Held, Before, IInv, CountInv
<1> HIDE DEF k, n
<1>11. /\ CtlOK(l) /\ Used(l) = Used(ctl) /\ l.start = ctl.start
       /\ l.wrap < hi => l.wrap = ctl.wrap \/ l.wrap + frame.want + Header > hi
       /\ Chain(mem, l, o, k, n)
       /\ \A i \in 1..k : Cell(l, o[i]) = Cell(ctl, o[i])
  <2>1. LowersTo(mem, ctl, o, k, n, frame.want, l)
    BY <1>1, <1>4, <1>5, <1>7, ChainLower DEF NotFound
  <2> HIDE DEF l
  <2> QED
    BY <2>1 DEF LowersTo
<1> HIDE DEF l
<1>12. NextIn(mem, l, ctl.start) = Cell(l, o[2])
  BY <1>5, <1>11, FirstFrame
<1> DEFINE w == Without(l, Cell(l, o[2]))
<1>13. ctl' = w
  BY <1>1, <1>12
<1>14. o[2] < Used(l)
  <2>1. Framed(mem, l, o, k, n) /\ 2 \in 1..k
    BY <1>5, <1>11, ChainFacts
  <2> QED
    BY <2>1 DEF Framed
<1>15. /\ CtlOK(w) /\ Used(w) = Used(l) - o[2] /\ w.free = l.free
       /\ w.wrap < hi => w.wrap = l.wrap
       /\ Chain(mem, w, Rest(o, k), k - 1, n + 1)
       /\ \A i \in 1..k : Cell(w, Rest(o, k)[i]) = Cell(l, o[i + 1]) \/ i = k
  BY <1>5, <1>11, <1>14, ChainWithout
<1> HIDE DEF w
<1>16. PICK r : r = Rest(o, k)
  OBVIOUS
<1>17. /\ r[(k - 1) + 1] = Used(w)
       /\ \A i \in 1..(k - 1) : SizeIn(r, i) = SizeIn(o, i + 1)
  <2>1. \A i \in 1..k : r[i] = o[i + 1] - o[2]
    BY <1>16 DEF Rest
  <2>2. k \in 1..k /\ (k - 1) + 1 = k
    BY <1>5
  <2>3. r[(k - 1) + 1] = Used(w)
    BY <1>7, <1>11, <1>15, <2>1, <2>2
  <2>4. ASSUME NEW i \in 1..(k - 1) PROVE SizeIn(r, i) = SizeIn(o, i + 1)
    <3>1. i \in 1..k /\ i + 1 \in 1..k
      BY <1>5
    <3>2. o \in [Nat -> Nat] /\ o[2] \in Nat /\ o[i + 1] \in Nat /\ o[(i + 1) + 1] \in Nat /\ Header \in Nat
      BY <1>2, <1>7, <3>1 DEF Chain
    <3> QED
      BY <2>1, <3>1, <3>2 DEF SizeIn
  <2> QED
    BY <2>3, <2>4
<1>18. FrameInv' /\ CountInv'
  BY <1>1, <1>6 DEF IInv, FrameInv, CountInv
<1>19. CtlInv'
  <2>1. w.wrap < hi => w.wrap + Largest + Header > hi
    <3>1. ctl.wrap < hi => ctl.wrap + Largest + Header > hi
      BY DEF IInv, CtlInv
    <3>2. l.wrap \in Int /\ hi \in Int
      BY <1>11, TraceMemoryAssumption, CtrlFields DEF CtlOK, hi
    <3> QED
      BY <1>2, <1>4, <1>11, <1>15, <3>1, <3>2
  <2>2. Held' # 0 /\ frame'.want # 0 /\ circular'
    BY <1>1, <1>5, <1>10
  <2> QED
    BY <1>1, <1>13, <1>15, <2>1, <2>2 DEF IInv, CtlInv
<1>20. Frames(r)'
  <2>1. Chain(mem, ctl, r, Held, Before)'
    BY <1>1, <1>10, <1>13, <1>15, <1>16
  <2>2. (r[Held + 1] = Used(ctl))'
    BY <1>10, <1>13, <1>17
  <2>3. \A i \in 1..Held' : SizeIn(r, i) <= MostIn(MaxBlocks)
    <3> SUFFICES ASSUME NEW i \in 1..(k - 1) PROVE SizeIn(r, i) <= MostIn(MaxBlocks)
      BY <1>10
    <3>1. i + 1 \in 1..k
      BY <1>5
    <3> QED
      BY <1>8, <1>17, <3>1
  <2>4. ASSUME frame'.at # -1
        PROVE  frame'.at = Cell(ctl', r[Held']) /\ SizeIn(r, Held') + frame'.want <= MostIn(frame'.blocks)
    <3>1. k - 1 \in 1..k /\ k - 1 \in 1..(k - 1) /\ k - 1 # k /\ (k - 1) + 1 = k /\ k \in 1..k
      BY <1>5
    <3>2. Cell(w, r[k - 1]) = Cell(l, o[k])
      BY <1>15, <1>16, <3>1
    <3>3. Cell(l, o[k]) = Cell(ctl, o[k])
      BY <1>11, <3>1
    <3>4. SizeIn(r, k - 1) = SizeIn(o, k)
      BY <1>17, <3>1
    <3> QED
      BY <1>1, <1>9, <1>10, <1>13, <2>4, <3>2, <3>3, <3>4
  <2> QED
    BY <2>1, <2>2, <2>3, <2>4 DEF Frames
<1> QED
  BY <1>6, <1>18, <1>19, <1>20 DEF IInv

LEMMA NextIInv == ASSUME Roomy, FALSE \notin Modes, IInv, [Next]_vars PROVE IInv'
<1>1. CASE Hit
  BY <1>1, HitIInv
<1>2. CASE StartFrame
  BY <1>2, StartFrameIInv
<1>3. CASE AddBlock
  BY <1>3, AddBlockIInv
<1>4. CASE Discard
  BY <1>4, DiscardIInv
<1>5. CASE NoRoom
  BY <1>5, NoRoomIInv
<1>6. CASE Finish
  BY <1>6, FinishIInv
<1>7. CASE Clear
  BY <1>7, ClearIInv
<1>8. ASSUME NEW size \in Blocks, Action(size) PROVE IInv'
  BY <1>8, ActionIInv
<1>9. ASSUME NEW val \in Modes, SetCircular(val) PROVE IInv'
  BY <1>9, SetCircularIInv
<1>10. CASE UNCHANGED vars
  <2>1. /\ mem' = mem /\ ctl' = ctl /\ count' = count /\ circular' = circular /\ frame' = frame /\ made' = made
    BY <1>10 DEF vars
  <2>2. Held' = Held /\ Before' = Before
    BY <2>1 DEF Held, Before
  <2>3. FrameInv' /\ CountInv' /\ CtlInv'
    BY <2>1, <2>2 DEF IInv, FrameInv, CountInv, CtlInv
  <2>4. PICK o : Frames(o)
    BY DEF IInv
  <2>5. Frames(o)'
    BY <2>1, <2>2, <2>4 DEF Frames
  <2> QED
    BY <2>3, <2>5 DEF IInv
<1> QED
  BY <1>1, <1>2, <1>3, <1>4, <1>5, <1>6, <1>7, <1>8, <1>9, <1>10 DEF Next

LEMMA SpecIInv == ASSUME Roomy, FALSE \notin Modes PROVE Spec => []IInv
<1>1. Init => IInv
  BY InitIInv
<1>2. IInv /\ [Next]_vars => IInv'
  BY NextIInv
<1> QED
  BY <1>1, <1>2, PTL DEF Spec

(* What a reader finds, by the invariant.                                  *)
LEMMA ReaderFinds ==
  ASSUME IInv
  PROVE  /\ \A i \in 1..count : Intact(mem, ctl, At(i), Before + i) /\ HeaderAt(mem, At(i)).tp = Before + i
         /\ frame.at # -1 => At(count + 1) = frame.at /\ Intact(mem, ctl, frame.at, made + 1)
         /\ frame.at = -1 => At(count + 1) = ctl.free
<1>1. PICK o : Frames(o)
  BY DEF IInv
<1>2. /\ Held \in Nat /\ Held <= MaxFrames /\ Before \in Int /\ MaxFrames \in Nat
      /\ frame.at # -1 => Held = count + 1
      /\ frame.at = -1 => Held = count
  BY HeldFacts
<1>3. CtlOK(ctl) /\ Chain(mem, ctl, o, Held, Before) /\ o[Held + 1] = Used(ctl)
  BY <1>1 DEF IInv, CtlInv, Frames
<1>4. ASSUME NEW i \in 1..(Held + 1) PROVE At(i) = Cell(ctl, o[i])
  <2>1. \A j \in 1..(Held + 1) : Place(mem, ctl)[j] = Cell(ctl, o[j])
    BY <1>2, <1>3, PlaceFacts
  <2> QED
    BY <2>1 DEF At
<1>5. ASSUME NEW i \in 1..Held PROVE Intact(mem, ctl, At(i), Before + i)
  <2>1. i \in 1..(Held + 1)
    BY <1>2
  <2>2. Intact(mem, ctl, Cell(ctl, o[i]), Before + i)
    BY <1>2, <1>3, ChainIntact
  <2> QED
    BY <1>4, <2>1, <2>2
<1>6. count \in Nat /\ count <= Held /\ Before + (count + 1) = made + 1
  BY <1>2 DEF Before, IInv, CountInv
<1>7. ASSUME NEW i \in 1..count
      PROVE  Intact(mem, ctl, At(i), Before + i) /\ HeaderAt(mem, At(i)).tp = Before + i
  <2>1. i \in 1..Held
    BY <1>2, <1>6
  <2> QED
    BY <1>5, <2>1 DEF Intact
<1>8. ASSUME frame.at # -1 PROVE At(count + 1) = frame.at /\ Intact(mem, ctl, frame.at, made + 1)
  <2>1. Held \in 1..Held /\ Held \in 1..(Held + 1) /\ Held = count + 1
    BY <1>2, <1>6, <1>8
  <2>2. At(Held) = Cell(ctl, o[Held]) /\ frame.at = Cell(ctl, o[Held])
    BY <1>1, <1>4, <1>8, <2>1 DEF Frames
  <2>3. Intact(mem, ctl, At(Held), Before + Held)
    BY <1>5, <2>1
  <2> QED
    BY <1>6, <2>1, <2>2, <2>3
<1>9. ASSUME frame.at = -1 PROVE At(count + 1) = ctl.free
  <2>1. Held + 1 \in 1..(Held + 1) /\ Held = count
    BY <1>2, <1>9
  <2>2. At(Held + 1) = Cell(ctl, Used(ctl))
    BY <1>3, <1>4, <2>1
  <2> QED
    BY <1>3, <2>1, <2>2, CellFacts
<1> QED
  BY <1>7, <1>8, <1>9

-----------------------------------------------------------------------------
(* In a buffer with room, the pointers of trace_buffer_ctrl stay inside,   *)
(* the count of frames does not wrap around, and a frame is started and    *)
(* filled inside the buffer, for any sizes of blocks, headers and buffer.  *)
THEOREM TypeCorrect ==
  ASSUME Roomy, FALSE \notin Modes
  PROVE  Spec => []TypeOK
<1>1. IInv => TypeOK
  <2> SUFFICES ASSUME IInv PROVE TypeOK
    OBVIOUS
  <2>1. count \in 0..(Counts - 1)
    BY CountsFacts DEF IInv, CountInv
  <2>2. made \in 0..MaxFrames
    BY TraceMemoryAssumption DEF IInv, CountInv
  <2> QED
    BY <2>1, <2>2 DEF IInv, CountInv, FrameInv, CtlInv, CtlOK, TypeOK
<1> QED
  BY <1>1, SpecIInv, PTL

(* However often the buffer wraps around and whatever is dropped, a reader *)
(* who follows the frames finds the last ones that were collected, as many *)
(* as are counted and with all of their data, and then the one that is     *)
(* being collected.                                                        *)
THEOREM FramesCorrect ==
  ASSUME Roomy, FALSE \notin Modes
  PROVE  Spec => []FramesIntact
<1>1. IInv => FramesIntact
  <2> SUFFICES ASSUME IInv PROVE FramesIntact
    OBVIOUS
  <2>1. \A i \in 1..count : Intact(mem, ctl, At(i), made - count + i)
    BY ReaderFinds DEF Before
  <2>2. frame.at # -1 => At(count + 1) = frame.at /\ Intact(mem, ctl, frame.at, made + 1)
    BY ReaderFinds
  <2>3. count <= made
    BY DEF IInv, CountInv
  <2> QED
    BY <2>1, <2>2, <2>3 DEF FramesIntact
<1> QED
  BY <1>1, SpecIInv, PTL

(* Between frames, behind the last one is the marker of the end, and never *)
(* what is left of a frame that was dropped.                               *)
THEOREM EndCorrect ==
  ASSUME Roomy, FALSE \notin Modes
  PROVE  Spec => []EndMarked
<1>1. IInv => EndMarked
  <2> SUFFICES ASSUME IInv, ~frame.on PROVE At(count + 1) \in Cells /\ HeaderAt(mem, At(count + 1)) = EndMark
    BY DEF EndMarked
  <2>1. frame.at = -1 /\ frame.want = 0
    BY DEF IInv, FrameInv, NoFrame
  <2>2. At(count + 1) = ctl.free /\ ctl.free \in Cells
    BY <2>1, ReaderFinds, CellFacts DEF IInv, CtlInv
  <2>3. mem[ctl.free] = TraceFrame(0, 0)
    BY <2>1 DEF IInv, CtlInv, EndMark
  <2>4. HeaderAt(mem, ctl.free) = TraceFrame(0, 0)
    BY <2>3, HeaderIs
  <2> QED
    BY <2>2, <2>4 DEF EndMark
<1> QED
  BY <1>1, SpecIInv, PTL

-----------------------------------------------------------------------------
(* The log.                                                                *)

InBuffer == [i \in 1..count |-> HeaderAt(mem, At(i)).tp]

LEMMA InBufferIs == IInv => InBuffer = Numbers(count, Before)
BY ReaderFinds DEF InBuffer, Numbers

(* The buffer of gdbserver implements a log that drops its oldest frames:  *)
(* whatever it does, frames are added at the end, in the order in which    *)
(* they are collected, and only the oldest one goes.                       *)
THEOREM LogCorrect ==
  ASSUME Roomy, FALSE \notin Modes
  PROVE  Spec => IsLog
<1>1. Init => Log!Init
  <2> SUFFICES ASSUME Init PROVE InBuffer = <<>> /\ made = 0
    BY DEF Log!Init, InBuffer
  <2>1. IInv /\ count = 0 /\ made = 0 /\ Before \in Int
    BY InitIInv DEF Init, Before
  <2> QED
    BY <2>1, InBufferIs, NumbersFacts
<1> DEFINE AreNumbers == InBuffer = Numbers(count, Before)
<1>3. IInv => AreNumbers
  BY InBufferIs
<1>2. IInv /\ AreNumbers /\ AreNumbers' /\ [Next]_vars => [Log!Next]_(Log!vars)
  <2> SUFFICES ASSUME IInv, AreNumbers, AreNumbers', [Next]_vars PROVE [Log!Next]_(Log!vars)
    OBVIOUS
  <2>1. InBuffer = Numbers(count, Before) /\ InBuffer' = Numbers(count', Before')
    BY DEF Numbers
  <2>2. count \in Nat /\ Before \in Int /\ made \in Nat /\ Before + count = made
    BY DEF IInv, CountInv, Before
  <2> HIDE DEF InBuffer
  <2>3. CASE Finish
    <3>1. count' = count + 1 /\ made' = made + 1 /\ Before' = Before
      <4>1. made < MaxFrames
        BY <2>3 DEF Finish, IInv, FrameInv
      <4> QED
        BY <2>2, <2>3, <4>1, CountsFacts DEF Finish, Before
    <3>2. InBuffer' = Append(InBuffer, made + 1)
      <4> DEFINE n == count
                 b == Before
      <4>1. n \in Nat /\ b \in Int /\ b + n + 1 = made + 1
        BY <2>2
      <4>2. InBuffer = Numbers(n, b) /\ InBuffer' = Numbers(n + 1, b)
        BY <2>1, <3>1
      <4> HIDE DEF n, b
      <4>3. Append(Numbers(n, b), b + n + 1) = Numbers(n + 1, b)
        BY <4>1, NumbersFacts
      <4> QED
        BY <4>1, <4>2, <4>3
    <3> QED
      BY <3>1, <3>2 DEF Log!Next, Log!Record, InBuffer
  <2>4. CASE Discard
    <3>1. count > 0 /\ count' = count - 1 /\ made' = made /\ Before' = Before + 1
      BY <2>2, <2>4, DiscardIInv DEF Discard, Before
    <3>2. InBuffer # <<>> /\ InBuffer' = Tail(InBuffer)
      <4> DEFINE n == count
                 b == Before
      <4>1. n \in Nat /\ b \in Int /\ n > 0
        BY <2>2, <3>1
      <4>2. InBuffer = Numbers(n, b) /\ InBuffer' = Numbers(n - 1, b + 1)
        BY <2>1, <3>1
      <4> HIDE DEF n, b
      <4>3. Numbers(n, b) # <<>> /\ Tail(Numbers(n, b)) = Numbers(n - 1, b + 1)
        BY <4>1, NumbersFacts
      <4> QED
        BY <4>2, <4>3
    <3> QED
      BY <3>1, <3>2 DEF Log!Next, Log!DropOldest, InBuffer
  <2>5. CASE Clear
    <3>1. count' = 0 /\ made' = made /\ Before' \in Int
      BY <2>2, <2>5 DEF Clear, Before
    <3>2. InBuffer' = <<>>
      BY <2>1, <3>1, NumbersFacts
    <3> QED
      BY <3>1, <3>2 DEF Log!Next, Log!Clear, InBuffer
  <2>6. CASE UNCHANGED <<count, made>>
    <3>1. InBuffer' = InBuffer
      BY <2>1, <2>6 DEF Before
    <3> QED
      BY <2>6, <3>1 DEF Log!vars, InBuffer
  <2>7. Hit \/ StartFrame \/ AddBlock \/ NoRoom => UNCHANGED <<count, made>>
    BY DEF Hit, StartFrame, AddBlock, NoRoom
  <2>8. (\E size \in Blocks : Action(size)) \/ (\E val \in Modes : SetCircular(val)) => UNCHANGED <<count, made>>
    BY DEF Action, SetCircular
  <2>9. UNCHANGED vars => UNCHANGED <<count, made>>
    BY DEF vars
  <2> QED
    BY <2>3, <2>4, <2>5, <2>6, <2>7, <2>8, <2>9 DEF Next
<1> HIDE DEF AreNumbers
<1> QED
  BY <1>1, <1>2, <1>3, SpecIInv, PTL DEF Spec, IsLog, Log!Spec
=============================================================================
