-------------------------- MODULE TraceMemoryProofs --------------------------
(***************************************************************************)
(* Proofs about TraceMemory, for any sizes.                                *)
(*                                                                         *)
(* What is in use is numbered from start on, as if the buffer had no end:  *)
(* Cell(c, x) is the x-th cell in use, and Used(c) is how many there are.  *)
(* The search for space, the wraparound and dropping the oldest frame are  *)
(* arithmetic on these numbers.                                            *)
(***************************************************************************)
EXTENDS TraceMemory, WellFoundedInduction, TLAPS

Folded(c, q) == IF q >= c.wrap THEN q - (c.wrap - lo) ELSE q
Cell(c, x) == Folded(c, c.start + x)
Used(c) == IF c.wrap = hi THEN c.free - c.start ELSE (c.wrap - c.start) + (c.free - lo)

(* One piece is in use, and behind it is room for the marker; or an upper  *)
(* and a lower piece, with free space between them.                        *)
CtlOK(c) ==
  /\ c \in Ctrl
  /\ c.free + Header <= hi
  /\ c.wrap = hi => /\ c.start <= c.free
                    /\ c.end_free = c.start \/ (c.start = lo /\ c.end_free = hi)
  /\ c.wrap < hi => c.wrap + Header <= hi /\ c.free <= c.start /\ c.start < c.wrap /\ c.end_free = c.start

LEMMA CtrlFields ==
  ASSUME NEW c \in Ctrl
  PROVE  /\ c.start \in Int /\ c.free \in Int /\ c.end_free \in Int /\ c.wrap \in Int
         /\ c.start \in 0..Size /\ c.free \in 0..Size /\ c.end_free \in 0..Size /\ c.wrap \in 0..Size
         /\ Size \in Nat /\ Header \in Nat /\ Header > 0 /\ lo = 0 /\ hi = Size
BY TraceMemoryAssumption DEF Ctrl, lo, hi

-----------------------------------------------------------------------------
(* The numbers of the cells in use.                                        *)

LEMMA CellFacts ==
  ASSUME NEW c, CtlOK(c)
  PROVE  /\ Used(c) \in Nat /\ c.free \in Cells
         /\ Cell(c, Used(c)) = c.free
         /\ Cell(c, 0) = c.start
         /\ \A x \in Nat : x < Used(c) => Cell(c, x) \in Cells
         /\ \A x, y \in Nat : x < Used(c) /\ y < Used(c) /\ Cell(c, x) = Cell(c, y) => x = y
<1>1. /\ c.start \in 0..Size /\ c.free \in 0..Size /\ c.end_free \in 0..Size /\ c.wrap \in 0..Size
      /\ Size \in Nat /\ Header \in Nat /\ Header > 0 /\ lo = 0 /\ hi = Size
  BY CtrlFields DEF CtlOK
<1>2. CASE c.wrap = hi
  BY <1>1, <1>2 DEF CtlOK, Used, Cell, Folded, Cells
<1>3. CASE c.wrap < hi
  BY <1>1, <1>3 DEF CtlOK, Used, Cell, Folded, Cells
<1> QED
  BY <1>1, <1>2, <1>3

LEMMA FoldAdds ==
  ASSUME NEW c, CtlOK(c), NEW x \in Nat, NEW d \in Nat, x + d <= Used(c)
  PROVE  Folded(c, Cell(c, x) + d) = Cell(c, x + d)
<1>1. /\ c.start \in 0..Size /\ c.free \in 0..Size /\ c.end_free \in 0..Size /\ c.wrap \in 0..Size
      /\ Size \in Nat /\ Header \in Nat /\ Header > 0 /\ lo = 0 /\ hi = Size
  BY CtrlFields DEF CtlOK
<1>2. CASE c.wrap = hi
  BY <1>1, <1>2 DEF CtlOK, Used, Cell, Folded, Cells
<1>3. CASE c.wrap < hi
  BY <1>1, <1>3 DEF CtlOK, Used, Cell, Folded, Cells
<1> QED
  BY <1>1, <1>2, <1>3

-----------------------------------------------------------------------------
(* The search for space.                                                   *)

(* Lower gives up the upper part, if it is too small for amt.              *)
LEMMA LowerFacts ==
  ASSUME NEW c, CtlOK(c), NEW amt \in Nat, ~UpperFits(c, amt)
  PROVE  /\ CtlOK(Lower(c)) /\ Used(Lower(c)) = Used(c) /\ Lower(c).start = c.start
         /\ Lower(c).wrap < hi => Lower(c).wrap = c.wrap \/ Lower(c).wrap + amt + Header > hi
         /\ \A x \in Nat : x < Used(c) => Cell(Lower(c), x) = Cell(c, x)
<1>1. /\ c.start \in 0..Size /\ c.free \in 0..Size /\ c.end_free \in 0..Size /\ c.wrap \in 0..Size
      /\ Size \in Nat /\ Header \in Nat /\ Header > 0 /\ lo = 0 /\ hi = Size /\ c \in Ctrl
  BY CtrlFields DEF CtlOK
<1>2. CASE ~TwoParts(c)
  BY <1>1, <1>2 DEF CtlOK, Lower
<1>3. CASE TwoParts(c)
  <2>1. c.wrap = hi /\ c.end_free = c.start /\ c.start < c.free /\ c.free < hi
    BY <1>1, <1>3 DEF CtlOK, TwoParts
  <2>2. Lower(c) = [start |-> c.start, free |-> lo, end_free |-> c.end_free, wrap |-> c.free]
    BY <1>1, <1>3 DEF Lower, Ctrl
  <2>3. c.free + amt + Header > hi
    BY <1>1, <1>3 DEF UpperFits
  <2>4. CtlOK(Lower(c))
    BY <1>1, <2>1, <2>2 DEF CtlOK, Ctrl
  <2>5. Used(Lower(c)) = Used(c)
    BY <1>1, <2>1, <2>2 DEF Used
  <2>6. \A x \in Nat : x < Used(c) => Cell(Lower(c), x) = Cell(c, x)
    BY <1>1, <2>1, <2>2 DEF Used, Cell, Folded
  <2> QED
    BY <2>2, <2>3, <2>4, <2>5, <2>6
<1> QED
  BY <1>2, <1>3

(* The piece that is found follows what is in use, and neither it nor the  *)
(* marker behind it is in use.                                             *)
LEMMA TakenFacts ==
  ASSUME NEW c, CtlOK(c), NEW amt \in Nat, amt > 0, Fits(c, amt)
  PROVE  LET t == Taken(c, amt)
             p == Chosen(c, amt).free
         IN  /\ CtlOK(t) /\ Used(t) = Used(c) + amt /\ t.start = c.start /\ t.free = p + amt
             /\ p \in Cells /\ p + amt \in Cells
             /\ t.wrap < hi => t.wrap = c.wrap \/ t.wrap + amt + Header > hi
             /\ c.start = lo /\ c.end_free = hi => t.start = lo /\ t.end_free = hi
             /\ \A x \in Nat : x < Used(c) =>
                  /\ Cell(t, x) = Cell(c, x)
                  /\ Cell(c, x) \notin p..(p + amt + Header - 1)
             /\ \A k \in Nat : k < amt => Cell(t, Used(c) + k) = p + k
<1>1. /\ c.start \in 0..Size /\ c.free \in 0..Size /\ c.end_free \in 0..Size /\ c.wrap \in 0..Size
      /\ Size \in Nat /\ Header \in Nat /\ Header > 0 /\ lo = 0 /\ hi = Size /\ c \in Ctrl
  BY CtrlFields DEF CtlOK
<1> DEFINE t == Taken(c, amt)
           p == Chosen(c, amt).free
<1>2. CASE UpperFits(c, amt)
  <2>1. c.wrap = hi /\ c.end_free = c.start /\ c.start < c.free /\ c.free + amt + Header <= hi
    BY <1>1, <1>2 DEF CtlOK, UpperFits, TwoParts
  <2>2. p = c.free /\ t = [start |-> c.start, free |-> c.free + amt, end_free |-> c.end_free, wrap |-> c.wrap]
    BY <1>1, <1>2 DEF Chosen, Taken, Ctrl
  <2> HIDE DEF t, p
  <2>3. CtlOK(t)
    BY <1>1, <2>1, <2>2 DEF CtlOK, Ctrl
  <2>4. Used(t) = Used(c) + amt
    BY <1>1, <2>1, <2>2 DEF Used
  <2>5. \A x \in Nat : x < Used(c) => Cell(t, x) = Cell(c, x) /\ Cell(c, x) \notin p..(p + amt + Header - 1)
    BY <1>1, <2>1, <2>2 DEF Used, Cell, Folded
  <2>6. \A k \in Nat : k < amt => Cell(t, Used(c) + k) = p + k
    BY <1>1, <2>1, <2>2 DEF Used, Cell, Folded
  <2>7. p \in Cells /\ p + amt \in Cells
    BY <1>1, <2>1, <2>2 DEF Cells
  <2> QED
    BY <1>1, <2>1, <2>2, <2>3, <2>4, <2>5, <2>6, <2>7 DEF t, p
<1>3. CASE ~UpperFits(c, amt)
  <2> DEFINE l == Lower(c)
  <2>1. /\ CtlOK(l) /\ Used(l) = Used(c) /\ l.start = c.start
        /\ l.wrap < hi => l.wrap = c.wrap \/ l.wrap + amt + Header > hi
        /\ \A x \in Nat : x < Used(c) => Cell(l, x) = Cell(c, x)
    BY <1>3, LowerFacts
  <2>2. l.free + amt + Header <= l.end_free
    BY <1>3 DEF Fits, LowerFits
  <2>3. c.start = lo /\ c.end_free = hi => l = c
    BY <1>1 DEF Lower, TwoParts
  <2>4. p = l.free /\ t = [l EXCEPT !.free = @ + amt]
    BY <1>3 DEF Chosen, Taken
  <2> HIDE DEF l, t, p
  <2>5. /\ l.start \in 0..Size /\ l.free \in 0..Size /\ l.end_free \in 0..Size /\ l.wrap \in 0..Size /\ l \in Ctrl
    BY <2>1, CtrlFields DEF CtlOK
  <2>6. t = [start |-> l.start, free |-> l.free + amt, end_free |-> l.end_free, wrap |-> l.wrap]
    BY <1>1, <2>4, <2>5 DEF Ctrl
  <2>7. l.wrap = hi => l.start = lo /\ l.end_free = hi
    BY <1>1, <2>1, <2>2, <2>5 DEF CtlOK
  <2>8. l.wrap < hi => l.end_free = l.start
    BY <2>1 DEF CtlOK
  <2>9. CtlOK(t)
    BY <1>1, <2>1, <2>2, <2>5, <2>6, <2>7, <2>8 DEF CtlOK, Ctrl
  <2>10. Used(t) = Used(l) + amt
    BY <1>1, <2>2, <2>5, <2>6, <2>7, <2>8 DEF Used
  <2>11. \A x \in Nat : x < Used(l) => Cell(t, x) = Cell(l, x) /\ Cell(l, x) \notin p..(p + amt + Header - 1)
    <3> SUFFICES ASSUME NEW x \in Nat, x < Used(l)
                 PROVE  Cell(t, x) = Cell(l, x) /\ Cell(l, x) \notin p..(p + amt + Header - 1)
      OBVIOUS
    <3>1. CASE l.wrap = hi
      BY <1>1, <2>1, <2>2, <2>4, <2>5, <2>6, <2>7, <3>1 DEF Used, Cell, Folded, CtlOK
    <3>2. CASE l.wrap < hi
      BY <1>1, <2>1, <2>2, <2>4, <2>5, <2>6, <2>8, <3>2 DEF Used, Cell, Folded, CtlOK
    <3> QED
      BY <1>1, <2>5, <3>1, <3>2
  <2>12. \A k \in Nat : k < amt => Cell(t, Used(l) + k) = p + k
    <3> SUFFICES ASSUME NEW k \in Nat, k < amt PROVE Cell(t, Used(l) + k) = p + k
      OBVIOUS
    <3>1. CASE l.wrap = hi
      BY <1>1, <2>1, <2>2, <2>4, <2>5, <2>6, <2>7, <3>1 DEF Used, Cell, Folded, CtlOK
    <3>2. CASE l.wrap < hi
      BY <1>1, <2>1, <2>2, <2>4, <2>5, <2>6, <2>8, <3>2 DEF Used, Cell, Folded, CtlOK
    <3> QED
      BY <1>1, <2>5, <3>1, <3>2
  <2>13. p \in Cells /\ p + amt \in Cells
    BY <1>1, <2>2, <2>4, <2>5 DEF Cells
  <2>14. c.start = lo /\ c.end_free = hi => t.start = lo /\ t.end_free = hi
    BY <2>3, <2>6
  <2>15. t.start = c.start /\ t.free = p + amt /\ t.wrap = l.wrap
    BY <2>1, <2>4, <2>6
  <2>16. \A x \in Nat : x < Used(c) => Cell(t, x) = Cell(c, x) /\ Cell(c, x) \notin p..(p + amt + Header - 1)
    BY <2>1, <2>11
  <2>17. Used(t) = Used(c) + amt /\ \A k \in Nat : k < amt => Cell(t, Used(c) + k) = p + k
    BY <2>1, <2>10, <2>12
  <2> QED
    BY <2>1, <2>9, <2>13, <2>14, <2>15, <2>16, <2>17 DEF t, p
<1> QED
  BY <1>2, <1>3

(* Dropping what comes before the x-th cell in use.                        *)
LEMMA WithoutFacts ==
  ASSUME NEW c, CtlOK(c), NEW x \in Nat, 0 < x, x < Used(c)
  PROVE  LET w == Without(c, Cell(c, x))
         IN  /\ CtlOK(w) /\ Used(w) = Used(c) - x /\ w.free = c.free
             /\ w.wrap < hi => w.wrap = c.wrap
             /\ \A y \in Nat : x + y < Used(c) => Cell(w, y) = Cell(c, x + y)
<1>1. /\ c.start \in 0..Size /\ c.free \in 0..Size /\ c.end_free \in 0..Size /\ c.wrap \in 0..Size
      /\ Size \in Nat /\ Header \in Nat /\ Header > 0 /\ lo = 0 /\ hi = Size /\ c \in Ctrl
  BY CtrlFields DEF CtlOK
<1> DEFINE n == Cell(c, x)
           w == Without(c, n)
<1>2. n \in 0..Size
  BY <1>1, CellFacts DEF Cells
<1>4. n = IF c.start + x >= c.wrap THEN c.start + x - c.wrap ELSE c.start + x
  BY <1>1 DEF Cell, Folded
<1> HIDE DEF n
<1>3. w = [start |-> n, free |-> c.free, end_free |-> n, wrap |-> IF n < c.start THEN hi ELSE c.wrap]
  <2>1. CASE n < c.start
    <3>1. w = [c EXCEPT !.start = n, !.end_free = n, !.wrap = hi]
      BY <2>1 DEF Without
    <3> HIDE DEF w
    <3> QED
      BY <1>1, <2>1, <3>1 DEF Ctrl
  <2>2. CASE ~(n < c.start)
    <3>1. w = [c EXCEPT !.start = n, !.end_free = n, !.wrap = @]
      BY <2>2 DEF Without
    <3> HIDE DEF w
    <3> QED
      BY <1>1, <2>2, <3>1 DEF Ctrl
  <2> HIDE DEF w
  <2> QED
    BY <2>1, <2>2
<1> HIDE DEF w
<1>5. CASE c.wrap = hi
  <2>1. c.start + x < c.free /\ n = c.start + x /\ Used(c) = c.free - c.start
    BY <1>1, <1>4, <1>5 DEF CtlOK, Used
  <2>2. w = [start |-> n, free |-> c.free, end_free |-> n, wrap |-> hi]
    BY <1>1, <1>3, <1>5, <2>1
  <2>3. CtlOK(w)
    BY <1>1, <1>2, <1>5, <2>1, <2>2 DEF CtlOK, Ctrl
  <2>4. Used(w) = Used(c) - x
    BY <1>1, <2>1, <2>2 DEF Used
  <2>5. \A y \in Nat : x + y < Used(c) => Cell(w, y) = Cell(c, x + y)
    BY <1>1, <1>5, <2>1, <2>2 DEF Cell, Folded
  <2> QED
    BY <1>1, <2>2, <2>3, <2>4, <2>5 DEF w, n
<1>6. CASE c.wrap < hi
  <2>1. /\ Used(c) = (c.wrap - c.start) + c.free /\ c.free <= c.start /\ c.start < c.wrap /\ c.free + Header <= hi
        /\ c.wrap + Header <= hi
    BY <1>1, <1>6 DEF CtlOK, Used
  <2>2. CASE c.start + x < c.wrap
    <3>1. n = c.start + x /\ w = [start |-> n, free |-> c.free, end_free |-> n, wrap |-> c.wrap]
      BY <1>1, <1>3, <1>4, <2>2
    <3>2. CtlOK(w)
      BY <1>1, <1>2, <1>6, <2>1, <2>2, <3>1 DEF CtlOK, Ctrl
    <3>3. Used(w) = Used(c) - x
      BY <1>1, <1>6, <2>1, <3>1 DEF Used
    <3>4. \A y \in Nat : x + y < Used(c) => Cell(w, y) = Cell(c, x + y)
      BY <1>1, <1>6, <2>1, <3>1 DEF Cell, Folded
    <3> QED
      BY <3>1, <3>2, <3>3, <3>4 DEF w, n
  <2>3. CASE ~(c.start + x < c.wrap)
    <3>1. n = c.start + x - c.wrap /\ n < c.free /\ n < c.start
      BY <1>1, <1>4, <2>1, <2>3
    <3>2. w = [start |-> n, free |-> c.free, end_free |-> n, wrap |-> hi]
      BY <1>3, <3>1
    <3>3. CtlOK(w)
      BY <1>1, <1>2, <2>1, <3>1, <3>2 DEF CtlOK, Ctrl
    <3>4. Used(w) = Used(c) - x
      BY <1>1, <2>1, <3>1, <3>2 DEF Used
    <3>5. \A y \in Nat : x + y < Used(c) => Cell(w, y) = Cell(c, x + y)
      BY <1>1, <1>6, <2>1, <2>3, <3>1, <3>2 DEF Cell, Folded
    <3> QED
      BY <1>1, <3>2, <3>3, <3>4, <3>5 DEF w, n
  <2> QED
    BY <2>2, <2>3
<1> QED
  BY <1>1, <1>5, <1>6

-----------------------------------------------------------------------------
(* Memory.                                                                 *)

LEMMA PutHeaderFacts ==
  ASSUME NEW m, NEW p \in Cells, NEW h
  PROVE  LET m2 == PutHeader(m, p, h)
         IN  /\ m2 = [c \in Cells |-> m2[c]]
             /\ m2[p] = h
             /\ \A c \in Cells : c \notin p..(p + Header - 1) => m2[c] = m[c]
<1>1. p \in p..(p + Header - 1)
  BY TraceMemoryAssumption DEF Cells, lo, hi
<1> QED
  BY <1>1 DEF PutHeader

LEMMA PutBlockFacts ==
  ASSUME NEW m, NEW p \in Cells, NEW len \in Nat, NEW n, NEW k \in Int
  PROVE  LET m2 == PutBlock(m, p, len, n, k)
         IN  /\ m2 = [c \in Cells |-> m2[c]]
             /\ \A c \in Cells : c \notin p..(p + len - 1) => m2[c] = m[c]
             /\ \A j \in Nat : j < len /\ p + j \in Cells =>
                  m2[p + j] = Datum(n, k + j, IF j = 0 THEN len ELSE 0)
<1>1. p \in Int
  BY TraceMemoryAssumption DEF Cells, lo, hi
<1>2. ASSUME NEW j \in Nat, j < len, p + j \in Cells
      PROVE  PutBlock(m, p, len, n, k)[p + j] = Datum(n, k + j, IF j = 0 THEN len ELSE 0)
  <2>1. p + j \in p..(p + len - 1) /\ k + (p + j) - p = k + j /\ (p + j = p <=> j = 0)
    BY <1>1, <1>2
  <2>2. PutBlock(m, p, len, n, k)[p + j] = Datum(n, k + (p + j) - p, IF p + j = p THEN len ELSE 0)
    BY <1>2, <2>1 DEF PutBlock
  <2> QED
    BY <2>1, <2>2
<1> QED
  BY <1>2 DEF PutBlock

LEMMA HeaderIs ==
  ASSUME NEW m, NEW p, NEW n, NEW d, m[p] = TraceFrame(n, d)
  PROVE  HeaderAt(m, p) = TraceFrame(n, d) /\ HeaderAt(m, p).tp = n /\ HeaderAt(m, p).size = d
BY DEF HeaderAt, TraceFrame

-----------------------------------------------------------------------------
(* Frames.                                                                 *)

(* The n-th frame, with d cells of data, is in the cells from x on.        *)
Lies(m, c, x, d, n) ==
  /\ m[Cell(c, x)] = TraceFrame(n, d)
  /\ \A k \in 0..(d - 1) : Holds(m, Cell(c, x + Header + k), n, k)

(* The frames n + 1, ..., n + k lie one after another, the i-th from o[i]  *)
(* up to o[i + 1].                                                         *)
SizeIn(o, i) == o[i + 1] - o[i] - Header
Chain(m, c, o, k, n) ==
  /\ o \in [Nat -> Nat]
  /\ o[1] = 0 /\ o[k + 1] <= Used(c)
  /\ \A i, j \in 1..(k + 1) : i < j => o[i] + Header <= o[j]
  /\ \A i \in 1..k : Lies(m, c, o[i], SizeIn(o, i), n + i)

Ordered(c, o, k) ==
  \A i \in 1..(k + 1) : o[i] \in Nat /\ o[i] <= o[k + 1] /\ o[i] <= Used(c)
Framed(m, c, o, k, n) ==
  \A i \in 1..k : /\ i \in 1..(k + 1) /\ i + 1 \in 1..(k + 1)
                  /\ SizeIn(o, i) \in Nat
                  /\ o[i] + Header + SizeIn(o, i) = o[i + 1]
                  /\ o[i] < o[i + 1] /\ o[i] < Used(c)
                  /\ Cell(c, o[i]) \in Cells
                  /\ HeaderAt(m, Cell(c, o[i])) = TraceFrame(n + i, SizeIn(o, i))

LEMMA ChainFacts ==
  ASSUME NEW m, NEW c, CtlOK(c), NEW o, NEW k \in Nat, NEW n \in Int, Chain(m, c, o, k, n)
  PROVE  Ordered(c, o, k) /\ Framed(m, c, o, k, n)
<1>1. Header \in Nat /\ Header > 0 /\ Used(c) \in Nat
  BY TraceMemoryAssumption, CellFacts
<1>2. ASSUME NEW i \in 1..(k + 1) PROVE o[i] \in Nat /\ o[i] <= o[k + 1] /\ o[i] <= Used(c)
  <2>1. o[i] \in Nat /\ o[k + 1] \in Nat
    BY DEF Chain
  <2>2. k + 1 \in 1..(k + 1) /\ (i = k + 1 \/ i < k + 1)
    OBVIOUS
  <2>3. i < k + 1 => o[i] + Header <= o[k + 1]
    BY <2>2 DEF Chain
  <2> QED
    BY <1>1, <2>1, <2>2, <2>3 DEF Chain
<1>3. ASSUME NEW i \in 1..k
      PROVE  /\ i \in 1..(k + 1) /\ i + 1 \in 1..(k + 1)
             /\ SizeIn(o, i) \in Nat
             /\ o[i] + Header + SizeIn(o, i) = o[i + 1]
             /\ o[i] < o[i + 1] /\ o[i] < Used(c)
             /\ Cell(c, o[i]) \in Cells
             /\ HeaderAt(m, Cell(c, o[i])) = TraceFrame(n + i, SizeIn(o, i))
  <2>1. i \in 1..(k + 1) /\ i + 1 \in 1..(k + 1) /\ i < i + 1
    OBVIOUS
  <2>2. o[i] + Header <= o[i + 1] /\ o[i] \in Nat /\ o[i + 1] \in Nat /\ o[i + 1] <= Used(c)
    BY <1>2, <2>1 DEF Chain
  <2>3. SizeIn(o, i) \in Nat /\ o[i] + Header + SizeIn(o, i) = o[i + 1] /\ o[i] < o[i + 1] /\ o[i] < Used(c)
    BY <1>1, <2>2 DEF SizeIn
  <2>4. Cell(c, o[i]) \in Cells
    BY <2>2, <2>3, CellFacts
  <2>5. m[Cell(c, o[i])] = TraceFrame(n + i, SizeIn(o, i))
    BY DEF Chain, Lies
  <2> QED
    BY <2>1, <2>3, <2>4, <2>5, HeaderIs
<1> QED
  BY <1>2, <1>3 DEF Ordered, Framed

(* What was in the cells from s on, up to u, is still there and is now in  *)
(* the first cells.                                                        *)
Moved(m, c, m2, c2, s, u) ==
  \A x \in Nat : s <= x /\ x < u => Cell(c2, x - s) = Cell(c, x) /\ m2[Cell(c, x)] = m[Cell(c, x)]

LEMMA LiesMoved ==
  ASSUME NEW m, NEW c, NEW m2, NEW c2, NEW s \in Nat, NEW u \in Nat, Moved(m, c, m2, c2, s, u),
         NEW x \in Nat, NEW d \in Nat, NEW n, s <= x, x + Header + d <= u, Lies(m, c, x, d, n)
  PROVE  Lies(m2, c2, x - s, d, n)
<1>1. Header \in Nat /\ Header > 0
  BY TraceMemoryAssumption
<1>2. m2[Cell(c2, x - s)] = TraceFrame(n, d)
  <2>1. x < u
    BY <1>1
  <2> QED
    BY <2>1 DEF Moved, Lies
<1>3. ASSUME NEW k \in 0..(d - 1) PROVE Holds(m2, Cell(c2, (x - s) + Header + k), n, k)
  <2>1. x + Header + k \in Nat /\ s <= x + Header + k /\ x + Header + k < u /\ (x - s) + Header + k = (x + Header + k) - s
    BY <1>1
  <2>2. Cell(c2, (x + Header + k) - s) = Cell(c, x + Header + k) /\ m2[Cell(c, x + Header + k)] = m[Cell(c, x + Header + k)]
    BY <2>1 DEF Moved
  <2>3. Holds(m, Cell(c, x + Header + k), n, k)
    BY DEF Lies
  <2> QED
    BY <2>1, <2>2, <2>3 DEF Holds
<1> QED
  BY <1>2, <1>3 DEF Lies

(* Frames stay when their cells and what is in them stays.                 *)
LEMMA ChainKept ==
  ASSUME NEW m, NEW c, CtlOK(c), NEW o, NEW k \in Nat, NEW n \in Int, Chain(m, c, o, k, n),
         NEW m2, NEW c2, Moved(m, c, m2, c2, 0, o[k + 1]), o[k + 1] <= Used(c2)
  PROVE  Chain(m2, c2, o, k, n)
<1>1. Header \in Nat /\ k + 1 \in 1..(k + 1)
  BY TraceMemoryAssumption
<1>2. ASSUME NEW i \in 1..k PROVE Lies(m2, c2, o[i], SizeIn(o, i), n + i)
  <2>6. Ordered(c, o, k) /\ Framed(m, c, o, k, n)
    BY ChainFacts
  <2>4. /\ i \in 1..(k + 1) /\ i + 1 \in 1..(k + 1) /\ SizeIn(o, i) \in Nat
        /\ o[i] + Header + SizeIn(o, i) = o[i + 1]
    BY <2>6 DEF Framed
  <2>5. o[i] \in Nat /\ o[k + 1] \in Nat /\ o[i + 1] <= o[k + 1]
    BY <1>1, <2>4, <2>6 DEF Ordered
  <2>1. /\ o[i] \in Nat /\ SizeIn(o, i) \in Nat /\ o[k + 1] \in Nat
        /\ o[i] + Header + SizeIn(o, i) <= o[k + 1] /\ o[i] - 0 = o[i] /\ 0 <= o[i]
    BY <2>4, <2>5
  <2>2. Lies(m, c, o[i], SizeIn(o, i), n + i)
    BY DEF Chain
  <2> DEFINE x == o[i]
             d == SizeIn(o, i)
             u == o[k + 1]
  <2>7. /\ x \in Nat /\ d \in Nat /\ u \in Nat /\ 0 \in Nat /\ 0 <= x /\ x + Header + d <= u
        /\ Lies(m, c, x, d, n + i) /\ Moved(m, c, m2, c2, 0, u)
    BY <2>1, <2>2
  <2> HIDE DEF x, d, u
  <2>8. Lies(m2, c2, x - 0, d, n + i)
    BY ONLY <2>7, LiesMoved
  <2>3. Lies(m2, c2, o[i] - 0, SizeIn(o, i), n + i)
    BY <2>8 DEF x, d
  <2> QED
    BY <2>1, <2>3
<1> QED
  BY <1>2 DEF Chain

(* Without the first one, the others are left.                             *)
Rest(o, k) == [i \in Nat |-> IF i \in 1..k THEN o[i + 1] - o[2] ELSE 0]
LEMMA ChainWithout ==
  ASSUME NEW m, NEW c, CtlOK(c), NEW o, NEW k \in Nat, k > 0, NEW n \in Int, Chain(m, c, o, k, n),
         o[2] < Used(c)
  PROVE  LET w == Without(c, Cell(c, o[2]))
         IN  /\ CtlOK(w) /\ Used(w) = Used(c) - o[2] /\ w.free = c.free
             /\ w.wrap < hi => w.wrap = c.wrap
             /\ Chain(m, w, Rest(o, k), k - 1, n + 1)
             /\ \A i \in 1..k : Cell(w, Rest(o, k)[i]) = Cell(c, o[i + 1]) \/ i = k
             /\ o[k + 1] < Used(c) => Cell(w, Rest(o, k)[k]) = Cell(c, o[k + 1])
<1> DEFINE w == Without(c, Cell(c, o[2]))
           r == Rest(o, k)
<1>1. Header \in Nat /\ Header > 0 /\ Used(c) \in Nat
  BY TraceMemoryAssumption, CellFacts
<1>0. Ordered(c, o, k) /\ Framed(m, c, o, k, n)
  BY ChainFacts
<1>2. /\ \A i \in 1..(k + 1) : o[i] \in Nat /\ o[i] <= o[k + 1] /\ o[i] <= Used(c)
      /\ \A i \in 1..k : /\ i \in 1..(k + 1) /\ i + 1 \in 1..(k + 1)
                         /\ SizeIn(o, i) \in Nat
                         /\ o[i] + Header + SizeIn(o, i) = o[i + 1]
                         /\ o[i] < o[i + 1] /\ o[i] < Used(c)
  BY <1>0 DEF Ordered, Framed
<1>3. o[2] \in Nat /\ 2 \in 1..(k + 1) /\ o[1] = 0 /\ 1 \in 1..k /\ 1 + 1 = 2
  <2>1. 2 \in 1..(k + 1) /\ 1 \in 1..k /\ 1 + 1 = 2
    OBVIOUS
  <2>2. o[1] = 0
    BY DEF Chain
  <2> QED
    BY <1>2, <2>1, <2>2
<1>4. 0 < o[2]
  BY <1>2, <1>3
<1>5. /\ CtlOK(w) /\ Used(w) = Used(c) - o[2] /\ w.free = c.free
      /\ w.wrap < hi => w.wrap = c.wrap
      /\ \A y \in Nat : o[2] + y < Used(c) => Cell(w, y) = Cell(c, o[2] + y)
  BY <1>3, <1>4, WithoutFacts
<1> HIDE DEF w
<1>6. ASSUME NEW i \in 1..k PROVE i + 1 \in 1..(k + 1) /\ o[2] <= o[i + 1] /\ r[i] = o[i + 1] - o[2] /\ r[i] \in Nat
  <2>1. i + 1 \in 1..(k + 1) /\ (i + 1 = 2 \/ 2 < i + 1)
    OBVIOUS
  <2>2. 2 < i + 1 => o[2] + Header <= o[i + 1]
    BY <1>3, <2>1 DEF Chain
  <2>3. o[i + 1] \in Nat
    BY <1>2, <2>1
  <2>4. o[2] <= o[i + 1]
    BY <1>1, <1>3, <2>1, <2>2, <2>3
  <2> QED
    BY <1>3, <2>1, <2>3, <2>4 DEF Rest
<1>7. r \in [Nat -> Nat]
  BY <1>6 DEF Rest
<1> HIDE DEF r
<1>8. Moved(m, c, m, w, o[2], Used(c))
  <2> SUFFICES ASSUME NEW x \in Nat, o[2] <= x, x < Used(c) PROVE Cell(w, x - o[2]) = Cell(c, x)
    BY DEF Moved
  <2>1. x - o[2] \in Nat /\ o[2] + (x - o[2]) = x
    BY <1>3
  <2> QED
    BY <1>5, <2>1
<1>9. k - 1 \in Nat /\ (k - 1) + 1 = k
  OBVIOUS
<1>10. ASSUME NEW i \in 1..(k - 1) PROVE Lies(m, w, r[i], SizeIn(r, i), (n + 1) + i)
  <2>1. i \in 1..k /\ i + 1 \in 1..k /\ (n + 1) + i = n + (i + 1)
    OBVIOUS
  <2>2. r[i] = o[i + 1] - o[2] /\ r[i + 1] = o[(i + 1) + 1] - o[2] /\ o[2] <= o[i + 1]
    BY <1>6, <2>1
  <2>3. o[i + 1] \in Nat /\ o[(i + 1) + 1] \in Nat /\ SizeIn(o, i + 1) \in Nat
        /\ o[i + 1] + Header + SizeIn(o, i + 1) <= Used(c)
    BY <1>2, <1>6, <2>1
  <2>4. SizeIn(r, i) = SizeIn(o, i + 1)
    BY <1>1, <1>3, <2>2, <2>3 DEF SizeIn
  <2>5. Lies(m, c, o[i + 1], SizeIn(o, i + 1), n + (i + 1))
    BY <2>1 DEF Chain
  <2>6. Lies(m, w, o[i + 1] - o[2], SizeIn(o, i + 1), n + (i + 1))
    BY <1>1, <1>3, <1>8, <2>2, <2>3, <2>5, LiesMoved
  <2> QED
    BY <2>1, <2>2, <2>4, <2>6
<1>11. \A i, j \in 1..((k - 1) + 1) : i < j => r[i] + Header <= r[j]
  <2> SUFFICES ASSUME NEW i \in 1..k, NEW j \in 1..k, i < j PROVE r[i] + Header <= r[j]
    BY <1>9
  <2>1. i + 1 < j + 1 /\ i + 1 \in 1..(k + 1) /\ j + 1 \in 1..(k + 1)
    OBVIOUS
  <2>2. o[i + 1] + Header <= o[j + 1] /\ o[i + 1] \in Nat /\ o[j + 1] \in Nat
    BY <1>2, <2>1 DEF Chain
  <2> QED
    BY <1>1, <1>3, <1>6, <2>2
<1>12. r[1] = 0 /\ r[(k - 1) + 1] = o[k + 1] - o[2] /\ r[(k - 1) + 1] <= Used(w)
  <2>1. k \in 1..k /\ o[k + 1] <= Used(c) /\ o[k + 1] \in Nat
    BY <1>2, <1>9
  <2> QED
    BY <1>1, <1>3, <1>5, <1>6, <1>9, <2>1
<1>13. Chain(m, w, r, k - 1, n + 1)
  BY <1>7, <1>10, <1>11, <1>12 DEF Chain
<1>14. ASSUME NEW i \in 1..k, o[i + 1] < Used(c) PROVE Cell(w, r[i]) = Cell(c, o[i + 1])
  <2>1. r[i] \in Nat /\ o[2] + r[i] = o[i + 1]
    BY <1>2, <1>3, <1>6
  <2> QED
    BY <1>5, <1>14, <2>1
<1>15. \A i \in 1..k : Cell(w, r[i]) = Cell(c, o[i + 1]) \/ i = k
  <2> SUFFICES ASSUME NEW i \in 1..k, i # k PROVE o[i + 1] < Used(c)
    BY <1>14
  <2>1. i + 1 \in 1..k
    OBVIOUS
  <2> QED
    BY <1>2, <2>1
<1>16. o[k + 1] < Used(c) => Cell(w, r[k]) = Cell(c, o[k + 1])
  BY <1>9, <1>14
<1> QED
  BY <1>5, <1>13, <1>15, <1>16 DEF w, r

-----------------------------------------------------------------------------
(* A piece that follows the frames is filled.                              *)

Follows(t, u, p, amt) ==
  /\ u + amt <= Used(t)
  /\ \A j \in Nat : j < amt => Cell(t, u + j) = p + j

LEMMA PieceApart ==
  ASSUME NEW t, CtlOK(t), NEW u \in Nat, NEW p \in Cells, NEW amt \in Nat, Follows(t, u, p, amt)
  PROVE  \A x \in Nat : x < u => Cell(t, x) \in Cells /\ Cell(t, x) \notin p..(p + amt - 1)
<1> SUFFICES ASSUME NEW x \in Nat, x < u PROVE Cell(t, x) \in Cells /\ Cell(t, x) \notin p..(p + amt - 1)
  OBVIOUS
<1>1. Used(t) \in Nat /\ x < Used(t) /\ p \in Int
  BY CellFacts, TraceMemoryAssumption DEF Follows, Cells, lo, hi
<1>2. Cell(t, x) \in Cells
  BY <1>1, CellFacts
<1>3. ASSUME Cell(t, x) \in p..(p + amt - 1) PROVE FALSE
  <2> DEFINE j == Cell(t, x) - p
  <2>1. j \in Nat /\ j < amt /\ p + j = Cell(t, x)
    BY <1>1, <1>3
  <2> HIDE DEF j
  <2>2. Cell(t, u + j) = Cell(t, x) /\ u + j \in Nat /\ u + j < Used(t)
    BY <1>1, <2>1 DEF Follows
  <2>3. u + j = x
    BY <1>1, <2>2, CellFacts
  <2> QED
    BY <2>1, <2>3
<1> QED
  BY <1>2, <1>3

LEMMA ChainAdd ==
  ASSUME NEW m, NEW t, CtlOK(t), NEW o, NEW k \in Nat, NEW n \in Int, Chain(m, t, o, k, n),
         NEW p \in Cells, Follows(t, o[k + 1], p, Header), o[k + 1] + Header = Used(t)
  PROVE  LET m2 == PutHeader(m, p, TraceFrame(n + k + 1, 0))
             o2 == [o EXCEPT ![k + 2] = Used(t)]
         IN  Chain(m2, t, o2, k + 1, n) /\ SizeIn(o2, k + 1) = 0
<1> DEFINE m2 == PutHeader(m, p, TraceFrame(n + k + 1, 0))
           o2 == [o EXCEPT ![k + 2] = Used(t)]
           u == o[k + 1]
<1>1. Header \in Nat /\ Header > 0 /\ Used(t) \in Nat /\ o \in [Nat -> Nat] /\ u \in Nat /\ o[1] = 0
  BY TraceMemoryAssumption, CellFacts DEF Chain
<1>2. /\ m2 = [c \in Cells |-> m2[c]] /\ m2[p] = TraceFrame(n + k + 1, 0)
      /\ \A c \in Cells : c \notin p..(p + Header - 1) => m2[c] = m[c]
  <2> DEFINE h == TraceFrame(n + k + 1, 0)
  <2> HIDE DEF h
  <2>1. m2 = PutHeader(m, p, h)
    BY DEF h
  <2> HIDE DEF m2
  <2>2. /\ PutHeader(m, p, h) = [c \in Cells |-> PutHeader(m, p, h)[c]] /\ PutHeader(m, p, h)[p] = h
        /\ \A c \in Cells : c \notin p..(p + Header - 1) => PutHeader(m, p, h)[c] = m[c]
    BY PutHeaderFacts
  <2> QED
    BY <2>1, <2>2 DEF h
<1>3. Follows(t, u, p, Header)
  OBVIOUS
<1>4. \A x \in Nat : x < u => Cell(t, x) \in Cells /\ Cell(t, x) \notin p..(p + Header - 1)
  BY <1>1, <1>3, PieceApart
<1>5. o2 \in [Nat -> Nat] /\ o2[k + 2] = Used(t) /\ \A i \in 1..(k + 1) : o2[i] = o[i]
  BY <1>1
<1>6. u + Header = Used(t)
  OBVIOUS
<1> HIDE DEF m2, o2, u
<1>7. Moved(m, t, m2, t, 0, u)
  <2> SUFFICES ASSUME NEW x \in Nat, x < u PROVE Cell(t, x - 0) = Cell(t, x) /\ m2[Cell(t, x)] = m[Cell(t, x)]
    BY DEF Moved
  <2>1. x - 0 = x
    OBVIOUS
  <2> QED
    BY <1>2, <1>4, <2>1
<1>8. u <= Used(t)
  BY <1>1, <1>6
<1>9. Chain(m2, t, o, k, n)
  BY <1>7, <1>8, ChainKept DEF u
<1>10. Ordered(t, o, k)
  BY ChainFacts
<1>11. SizeIn(o2, k + 1) = 0
  <2>1. (k + 1) + 1 = k + 2 /\ k + 1 \in 1..(k + 1)
    OBVIOUS
  <2> QED
    BY <1>1, <1>5, <1>6, <2>1 DEF SizeIn, u
<1>12. ASSUME NEW i \in 1..(k + 1) PROVE Lies(m2, t, o2[i], SizeIn(o2, i), n + i)
  <2>1. CASE i = k + 1
    <3>1. o2[i] = u /\ SizeIn(o2, i) = 0 /\ n + i = n + k + 1
      BY <1>5, <1>11, <2>1 DEF u
    <3>2. Cell(t, u) = p
      <4>1. 0 < Header /\ u + 0 = u /\ p + 0 = p
        BY <1>1, TraceMemoryAssumption DEF Cells, lo, hi
      <4> QED
        BY <1>3, <4>1 DEF Follows
    <3>3. 0..(0 - 1) = {}
      OBVIOUS
    <3> QED
      BY <1>2, <3>1, <3>2, <3>3 DEF Lies
  <2>2. CASE i # k + 1
    <3>1. i \in 1..k /\ i + 1 \in 1..(k + 1)
      BY <2>2
    <3>2. o2[i] = o[i] /\ SizeIn(o2, i) = SizeIn(o, i)
      BY <1>5, <3>1 DEF SizeIn
    <3> QED
      BY <1>9, <3>1, <3>2 DEF Chain
  <2> QED
    BY <2>1, <2>2
<1>13. ASSUME NEW i \in 1..(k + 2), NEW j \in 1..(k + 2), i < j PROVE o2[i] + Header <= o2[j]
  <2>1. i \in 1..(k + 1) /\ o2[i] = o[i] /\ o[i] \in Nat /\ o[i] <= u
    BY <1>5, <1>10, <1>13 DEF Ordered, u
  <2>2. CASE j = k + 2
    BY <1>1, <1>5, <1>6, <2>1, <2>2
  <2>3. CASE j # k + 2
    <3>1. j \in 1..(k + 1) /\ o2[j] = o[j]
      BY <1>5, <2>3
    <3> QED
      BY <1>13, <2>1, <3>1 DEF Chain
  <2> QED
    BY <2>2, <2>3
<1>14. (k + 1) + 1 = k + 2 /\ 1 \in 1..(k + 1)
  OBVIOUS
<1>15. o2[1] = 0 /\ o2[(k + 1) + 1] <= Used(t)
  BY <1>1, <1>5, <1>14
<1>16. Chain(m2, t, o2, k + 1, n)
  BY <1>5, <1>12, <1>13, <1>14, <1>15 DEF Chain
<1> QED
  BY <1>11, <1>16 DEF m2, o2

LEMMA ChainGrow ==
  ASSUME NEW m, NEW t, CtlOK(t), NEW o, NEW k \in Nat, k > 0, NEW n \in Int, Chain(m, t, o, k, n),
         m = [c \in Cells |-> m[c]],
         NEW len \in Blocks, NEW p \in Cells, Follows(t, o[k + 1], p, len), o[k + 1] + len = Used(t)
  PROVE  LET a == Cell(t, o[k])
             data == PutBlock(m, p, len, n + k, SizeIn(o, k))
             m2 == [data EXCEPT ![a] = TraceFrame(n + k, SizeIn(o, k) + len)]
             o2 == [o EXCEPT ![k + 1] = Used(t)]
         IN  /\ Chain(m2, t, o2, k, n) /\ SizeIn(o2, k) = SizeIn(o, k) + len
             /\ m2 = [c \in Cells |-> m2[c]]
             /\ \A c \in Cells : c # a /\ c \notin p..(p + len - 1) => m2[c] = m[c]
<1> DEFINE a == Cell(t, o[k])
           size == SizeIn(o, k)
           data == PutBlock(m, p, len, n + k, size)
           m2 == [data EXCEPT ![a] = TraceFrame(n + k, size + len)]
           o2 == [o EXCEPT ![k + 1] = Used(t)]
           u == o[k + 1]
<1>1. /\ Header \in Nat /\ Header > 0 /\ Used(t) \in Nat /\ o \in [Nat -> Nat] /\ u \in Nat /\ o[1] = 0
      /\ len \in Nat /\ len > 0 /\ k \in 1..k
  BY TraceMemoryAssumption, CellFacts DEF Chain
<1>2. Ordered(t, o, k) /\ Framed(m, t, o, k, n)
  BY ChainFacts
<1>3. /\ size \in Nat /\ o[k] + Header + size = u /\ o[k] < Used(t) /\ a \in Cells /\ o[k] \in Nat
      /\ k \in 1..(k + 1)
  BY <1>1, <1>2 DEF Ordered, Framed
<1>4. Follows(t, u, p, len) /\ u + len = Used(t)
  OBVIOUS
<1>5. /\ data = [c \in Cells |-> data[c]]
      /\ \A c \in Cells : c \notin p..(p + len - 1) => data[c] = m[c]
      /\ \A j \in Nat : j < len /\ p + j \in Cells =>
           data[p + j] = Datum(n + k, size + j, IF j = 0 THEN len ELSE 0)
  <2>1. n + k \in Int /\ size \in Int
    BY <1>3
  <2> HIDE DEF size
  <2> QED
    BY <1>1, <2>1, PutBlockFacts
<1>6. o2 \in [Nat -> Nat] /\ o2[k + 1] = Used(t) /\ \A i \in 1..k : o2[i] = o[i]
  BY <1>1
<1> HIDE DEF data, o2, size, u
<1>7. /\ m2 = [c \in Cells |-> m2[c]] /\ m2[a] = TraceFrame(n + k, size + len)
      /\ \A c \in Cells : c # a => m2[c] = data[c]
  BY <1>3, <1>5
<1> HIDE DEF m2
<1>8. \A x \in Nat : x < u => Cell(t, x) \in Cells /\ Cell(t, x) \notin p..(p + len - 1)
  BY <1>1, <1>4, PieceApart
<1>9. ASSUME NEW x \in Nat, x < Used(t), x # o[k] PROVE Cell(t, x) \in Cells /\ Cell(t, x) # a
  BY <1>3, <1>9, CellFacts DEF a
<1> HIDE DEF a
<1>10. ASSUME NEW x \in Nat, x < u, x # o[k] PROVE m2[Cell(t, x)] = m[Cell(t, x)]
  <2>1. x < Used(t)
    BY <1>1, <1>4, <1>10
  <2>2. Cell(t, x) \in Cells /\ Cell(t, x) # a /\ Cell(t, x) \notin p..(p + len - 1)
    BY <1>8, <1>9, <1>10, <2>1
  <2> QED
    BY <1>5, <1>7, <2>2
<1>11. SizeIn(o2, k) = size + len
  <2>1. o2[k + 1] = u + len /\ o2[k] = o[k]
    BY <1>1, <1>4, <1>6
  <2> QED
    BY <1>1, <1>3, <2>1 DEF SizeIn
<1>12. Moved(m, t, m2, t, 0, o[k])
  <2> SUFFICES ASSUME NEW x \in Nat, x < o[k] PROVE Cell(t, x - 0) = Cell(t, x) /\ m2[Cell(t, x)] = m[Cell(t, x)]
    BY DEF Moved
  <2>1. x - 0 = x /\ x < u /\ x # o[k]
    BY <1>1, <1>3
  <2> QED
    BY <1>10, <2>1
<1>13. ASSUME NEW j \in 0..((size + len) - 1) PROVE Holds(m2, Cell(t, o[k] + Header + j), n + k, j)
  <2>1. o[k] + Header + j \in Nat /\ o[k] + Header + j < Used(t) /\ o[k] + Header + j # o[k] /\ j \in Nat
    BY <1>1, <1>3, <1>4
  <2>2. Cell(t, o[k] + Header + j) \in Cells /\ Cell(t, o[k] + Header + j) # a
    BY <1>9, <2>1
  <2>3. CASE j < size
    <3>1. j \in 0..(size - 1) /\ o[k] + Header + j < u
      BY <1>1, <1>3, <2>3
    <3>2. Holds(m, Cell(t, o[k] + Header + j), n + k, j)
      BY <1>1, <3>1 DEF Chain, Lies, size
    <3> QED
      BY <1>10, <2>1, <3>1, <3>2 DEF Holds
  <2>4. CASE ~(j < size)
    <3> DEFINE i == j - size
    <3>1. i \in Nat /\ i < len /\ size + i = j /\ o[k] + Header + j = u + i
      BY <1>1, <1>3, <2>4
    <3> HIDE DEF i
    <3>2. Cell(t, o[k] + Header + j) = p + i
      BY <1>4, <3>1 DEF Follows
    <3>3. m2[p + i] = Datum(n + k, size + i, IF i = 0 THEN len ELSE 0)
      BY <1>5, <1>7, <2>2, <3>1, <3>2
    <3>4. (IF i = 0 THEN len ELSE 0) \in Blocks \cup {0}
      OBVIOUS
    <3> QED
      BY <2>2, <3>1, <3>2, <3>3, <3>4 DEF Holds
  <2> QED
    BY <2>3, <2>4
<1>14. ASSUME NEW i \in 1..k PROVE Lies(m2, t, o2[i], SizeIn(o2, i), n + i)
  <2>1. CASE i = k
    <3>1. o2[k] = o[k] /\ m2[Cell(t, o[k])] = TraceFrame(n + k, size + len)
      BY <1>1, <1>6, <1>7 DEF a
    <3>2. Lies(m2, t, o[k], size + len, n + k)
      <4>1. \A j \in 0..((size + len) - 1) : Holds(m2, Cell(t, o[k] + Header + j), n + k, j)
        BY <1>13
      <4> QED
        BY <3>1, <4>1 DEF Lies
    <3> QED
      BY <1>11, <2>1, <3>1, <3>2
  <2>2. CASE i # k
    <3>1. i \in 1..k /\ i + 1 \in 1..k /\ i + 1 \in 1..(k + 1) /\ k \in 1..(k + 1)
      BY <2>2
    <3>2. /\ SizeIn(o, i) \in Nat /\ o[i] + Header + SizeIn(o, i) = o[i + 1] /\ o[i] \in Nat
          /\ o[i + 1] \in Nat
      BY <1>2, <3>1 DEF Ordered, Framed
    <3>3. o[i + 1] <= o[k]
      <4>1. CASE i + 1 = k
        BY <1>3, <4>1
      <4>2. CASE i + 1 # k
        <5>1. i + 1 < k
          BY <3>1, <4>2
        <5>2. o[i + 1] + Header <= o[k]
          BY <3>1, <5>1 DEF Chain
        <5> QED
          BY <1>1, <1>3, <3>2, <5>2
      <4> QED
        BY <4>1, <4>2
    <3>4. Lies(m, t, o[i], SizeIn(o, i), n + i)
      BY DEF Chain
    <3>5. 0 \in Nat /\ 0 <= o[i] /\ o[i] - 0 = o[i] /\ o[i] + Header + SizeIn(o, i) <= o[k]
      BY <3>2, <3>3
    <3>6. Lies(m2, t, o[i] - 0, SizeIn(o, i), n + i)
      BY <1>3, <1>12, <3>2, <3>4, <3>5, LiesMoved
    <3>7. o2[i] = o[i] /\ SizeIn(o2, i) = SizeIn(o, i)
      BY <1>6, <3>1 DEF SizeIn
    <3> QED
      BY <3>5, <3>6, <3>7
  <2> QED
    BY <2>1, <2>2
<1>15. ASSUME NEW i \in 1..(k + 1), NEW j \in 1..(k + 1), i < j PROVE o2[i] + Header <= o2[j]
  <2>1. i \in 1..k /\ o2[i] = o[i] /\ o[i] \in Nat
    BY <1>2, <1>6, <1>15 DEF Ordered
  <2>2. o[i] + Header <= o[j] /\ o[j] \in Nat
    BY <1>2, <1>15 DEF Chain, Ordered
  <2>3. CASE j = k + 1
    BY <1>1, <1>4, <1>6, <2>1, <2>2, <2>3 DEF u
  <2>4. CASE j # k + 1
    <3>1. j \in 1..k
      BY <2>4
    <3> QED
      BY <1>6, <2>1, <2>2, <3>1
  <2> QED
    BY <2>3, <2>4
<1>16. o2[1] = 0 /\ o2[k + 1] <= Used(t)
  <2>1. 1 \in 1..k
    OBVIOUS
  <2> QED
    BY <1>1, <1>6, <2>1
<1>17. Chain(m2, t, o2, k, n)
  BY <1>6, <1>14, <1>15, <1>16 DEF Chain
<1>18. \A c \in Cells : c # a /\ c \notin p..(p + len - 1) => m2[c] = m[c]
  BY <1>5, <1>7
<1> QED
  BY <1>7, <1>11, <1>17, <1>18 DEF m2, o2, data, size, a

-----------------------------------------------------------------------------
(* Following the frames.                                                   *)

LEMMA Induction ==
  ASSUME NEW S, 0 \in S, \A n \in Nat : n \in S => n + 1 \in S
  PROVE  \A n \in Nat : n \in S
<1> DEFINE T == {n \in Nat : n \notin S}
<1> SUFFICES ASSUME T # {} PROVE FALSE
  OBVIOUS
<1>1. PICK x \in T : \A y \in T : ~ (<<y, x>> \in OpToRel(<, Nat))
  BY NatLessThanWellFounded, WFMin
<1>2. x # 0 /\ x \in Nat
  OBVIOUS
<1>3. x - 1 \in Nat /\ x - 1 < x
  BY <1>2
<1>4. <<x - 1, x>> \in OpToRel(<, Nat)
  BY <1>2, <1>3 DEF OpToRel
<1>5. x - 1 \in S
  BY <1>1, <1>3, <1>4
<1>6. x - 1 + 1 = x
  BY <1>2
<1> QED
  BY <1>3, <1>5, <1>6

(* One step of Place.                                                      *)
Reached(m, c, f, i) == IF i = 1 THEN c.start ELSE NextIn(m, c, f[i - 1])

LEMMA ReachedExists ==
  ASSUME NEW m, NEW c
  PROVE  \A n \in Nat : \E f : f = [i \in 1..n |-> Reached(m, c, f, i)]
<1> DEFINE S == {n \in Nat : \E f : f = [i \in 1..n |-> Reached(m, c, f, i)]}
<1>1. 0 \in S
  <2> DEFINE f == [i \in 1..0 |-> 0]
  <2>1. \A i \in 1..0 : f[i] = Reached(m, c, f, i)
    OBVIOUS
  <2>2. f = [i \in 1..0 |-> Reached(m, c, f, i)]
    BY <2>1
  <2> QED
    BY <2>2
<1>2. ASSUME NEW n \in Nat, n \in S PROVE n + 1 \in S
  <2>1. PICK f : f = [i \in 1..n |-> Reached(m, c, f, i)]
    BY <1>2
  <2> DEFINE g == [i \in 1..(n + 1) |-> IF i = n + 1 THEN Reached(m, c, f, i) ELSE f[i]]
  <2>2. ASSUME NEW i \in 1..(n + 1) PROVE g[i] = Reached(m, c, g, i)
    <3>1. i # 1 => i - 1 \in 1..n /\ g[i - 1] = f[i - 1]
      OBVIOUS
    <3>2. Reached(m, c, g, i) = Reached(m, c, f, i)
      BY <3>1 DEF Reached
    <3>3. i # n + 1 => i \in 1..n /\ f[i] = Reached(m, c, f, i)
      BY <2>1
    <3> QED
      BY <3>2, <3>3
  <2>3. g = [i \in 1..(n + 1) |-> Reached(m, c, g, i)]
    BY <2>2
  <2> HIDE DEF g
  <2> QED
    BY <2>3
<1> HIDE DEF S
<1>3. \A n \in Nat : n \in S
  BY <1>1, <1>2, Induction
<1> QED
  BY <1>3 DEF S

LEMMA PlaceFacts ==
  ASSUME NEW m, NEW c, CtlOK(c), NEW o, NEW k \in Nat, k <= MaxFrames, NEW n \in Int, Chain(m, c, o, k, n)
  PROVE  \A i \in 1..(k + 1) : Place(m, c)[i] = Cell(c, o[i])
<1> DEFINE f == CHOOSE f : f = [i \in 1..(MaxFrames + 1) |-> Reached(m, c, f, i)]
<1>1. MaxFrames \in Nat /\ MaxFrames + 1 \in Nat /\ Header \in Nat
  BY TraceMemoryAssumption
<1>2. f = [i \in 1..(MaxFrames + 1) |-> Reached(m, c, f, i)]
  BY <1>1, ReachedExists
<1>3. Place(m, c) = f
  BY DEF Place, Reached
<1> HIDE DEF f
<1>4. Ordered(c, o, k) /\ Framed(m, c, o, k, n)
  BY ChainFacts
<1> DEFINE S == {i \in Nat : i + 1 \in 1..(k + 1) => f[i + 1] = Cell(c, o[i + 1])}
<1>5. 0 \in S
  <2>1. 0 + 1 = 1 /\ 1 \in 1..(MaxFrames + 1)
    BY <1>1
  <2>2. f[1] = c.start
    BY <1>2, <2>1 DEF Reached
  <2>3. o[1] = 0 /\ Cell(c, 0) = c.start
    BY CellFacts DEF Chain
  <2> QED
    BY <2>1, <2>2, <2>3
<1>6. ASSUME NEW i \in Nat, i \in S PROVE i + 1 \in S
  <2> DEFINE j == i + 1
  <2> SUFFICES ASSUME j + 1 \in 1..(k + 1) PROVE f[j + 1] = Cell(c, o[j + 1])
    OBVIOUS
  <2>1. j \in 1..k /\ j \in 1..(k + 1) /\ j + 1 \in 1..(MaxFrames + 1) /\ j + 1 # 1 /\ (j + 1) - 1 = j
    BY <1>1
  <2>2. f[j] = Cell(c, o[j])
    BY <1>6, <2>1
  <2> HIDE DEF j
  <2>3. f[j + 1] = NextIn(m, c, f[j])
    BY <1>2, <2>1 DEF Reached
  <2>4. /\ HeaderAt(m, Cell(c, o[j])) = TraceFrame(n + j, SizeIn(o, j))
        /\ SizeIn(o, j) \in Nat /\ o[j] + Header + SizeIn(o, j) = o[j + 1]
        /\ o[j] \in Nat /\ o[j + 1] <= Used(c) /\ Cell(c, o[j]) \in Cells
    BY <1>4, <2>1 DEF Ordered, Framed
  <2>5. HeaderAt(m, Cell(c, o[j])).size = SizeIn(o, j)
    BY <2>4 DEF TraceFrame
  <2>6. NextIn(m, c, f[j]) = Folded(c, Cell(c, o[j]) + Header + SizeIn(o, j))
    BY <2>2, <2>5 DEF NextIn, Folded
  <2>7. Cell(c, o[j]) + Header + SizeIn(o, j) = Cell(c, o[j]) + (Header + SizeIn(o, j))
    BY <1>1, <2>4, TraceMemoryAssumption DEF Cells, lo, hi
  <2>8. Folded(c, Cell(c, o[j]) + (Header + SizeIn(o, j))) = Cell(c, o[j] + (Header + SizeIn(o, j)))
    <3>1. Header + SizeIn(o, j) \in Nat /\ o[j] + (Header + SizeIn(o, j)) <= Used(c)
      BY <1>1, <2>4
    <3> HIDE DEF SizeIn
    <3> QED
      BY <2>4, <3>1, FoldAdds
  <2>9. o[j] + (Header + SizeIn(o, j)) = o[j + 1]
    BY <1>1, <2>4
  <2> QED
    BY <2>3, <2>6, <2>7, <2>8, <2>9
<1> HIDE DEF S
<1>7. \A i \in Nat : i \in S
  BY <1>5, <1>6, Induction
<1>8. ASSUME NEW i \in 1..(k + 1) PROVE f[i] = Cell(c, o[i])
  <2>1. i - 1 \in Nat /\ (i - 1) + 1 = i
    OBVIOUS
  <2> QED
    BY <1>7, <2>1 DEF S
<1> QED
  BY <1>3, <1>8

(* What the frames are for a reader.                                       *)
LEMMA ChainIntact ==
  ASSUME NEW m, NEW c, CtlOK(c), NEW o, NEW k \in Nat, NEW n \in Int, Chain(m, c, o, k, n), NEW i \in 1..k
  PROVE  Intact(m, c, Cell(c, o[i]), n + i)
<1>1. Ordered(c, o, k) /\ Framed(m, c, o, k, n)
  BY ChainFacts
<1>2. /\ HeaderAt(m, Cell(c, o[i])) = TraceFrame(n + i, SizeIn(o, i))
      /\ SizeIn(o, i) \in Nat /\ o[i] + Header + SizeIn(o, i) = o[i + 1]
      /\ o[i] \in Nat /\ o[i + 1] <= Used(c) /\ Cell(c, o[i]) \in Cells
      /\ Used(c) \in Nat /\ o[i + 1] \in Nat /\ Header \in Nat
  BY <1>1, CellFacts, TraceMemoryAssumption DEF Ordered, Framed
<1>3. HeaderAt(m, Cell(c, o[i])).size = SizeIn(o, i) /\ HeaderAt(m, Cell(c, o[i])).tp = n + i
  BY <1>2 DEF TraceFrame
<1>4. ASSUME NEW k2 \in 0..(SizeIn(o, i) - 1) PROVE Holds(m, DataCell(c, Cell(c, o[i]), k2), n + i, k2)
  <2>1. DataCell(c, Cell(c, o[i]), k2) = Folded(c, Cell(c, o[i]) + Header + k2)
    BY DEF DataCell, Folded
  <2>2. /\ Cell(c, o[i]) + Header + k2 = Cell(c, o[i]) + (Header + k2)
        /\ Header + k2 \in Nat /\ o[i] + (Header + k2) <= Used(c) /\ o[i] + (Header + k2) = o[i] + Header + k2
    BY <1>2, TraceMemoryAssumption DEF Cells, lo, hi
  <2>3. Folded(c, Cell(c, o[i]) + (Header + k2)) = Cell(c, o[i] + (Header + k2))
    BY <1>2, <2>2, FoldAdds
  <2>4. Holds(m, Cell(c, o[i] + Header + k2), n + i, k2)
    BY DEF Chain, Lies
  <2> QED
    BY <2>1, <2>2, <2>3, <2>4
<1> QED
  BY <1>2, <1>3, <1>4 DEF Intact

-----------------------------------------------------------------------------
(* The numbers of n frames, b being the one before them.                   *)
Numbers(n, b) == [i \in 1..n |-> b + i]

LEMMA NumbersFacts ==
  ASSUME NEW n \in Nat, NEW b \in Int
  PROVE  /\ Append(Numbers(n, b), b + n + 1) = Numbers(n + 1, b)
         /\ n > 0 => Numbers(n, b) # <<>> /\ Tail(Numbers(n, b)) = Numbers(n - 1, b + 1)
         /\ Numbers(0, b) = <<>>
<1> DEFINE s == Numbers(n, b)
<1>1. s \in Seq(Int) /\ Len(s) = n /\ \A i \in 1..n : s[i] = b + i
  BY DEF Numbers
<1> HIDE DEF s
<1>2. Append(s, b + n + 1) = Numbers(n + 1, b)
  <2> DEFINE u == Append(s, b + n + 1)
  <2>1. u \in Seq(Int) /\ Len(u) = n + 1 /\ (\A i \in 1..n : u[i] = s[i]) /\ u[n + 1] = b + n + 1
    BY <1>1
  <2> HIDE DEF u
  <2>2. \A i \in 1..(n + 1) : u[i] = b + i
    BY <1>1, <2>1
  <2>3. u = [i \in 1..(n + 1) |-> u[i]]
    BY <2>1
  <2> QED
    BY <2>2, <2>3 DEF u, Numbers
<1>3. ASSUME n > 0 PROVE s # <<>> /\ Tail(s) = Numbers(n - 1, b + 1)
  <2> DEFINE u == Tail(s)
  <2>1. s # <<>>
    BY <1>1, <1>3
  <2>2. u \in Seq(Int) /\ Len(u) = n - 1 /\ \A i \in 1..(n - 1) : u[i] = s[i + 1]
    BY <1>1, <2>1
  <2> HIDE DEF u
  <2>3. \A i \in 1..(n - 1) : u[i] = (b + 1) + i
    BY <1>1, <2>2
  <2>4. u = [i \in 1..(n - 1) |-> u[i]]
    BY <2>2
  <2> QED
    BY <2>1, <2>3, <2>4 DEF u, Numbers
<1>4. Numbers(0, b) = <<>>
  BY DEF Numbers
<1> QED
  BY <1>2, <1>3, <1>4 DEF s

LEMMA NumbersJoin ==
  ASSUME NEW n \in Nat, NEW b \in Int, NEW k \in Nat
  PROVE  Numbers(n, b) \o Numbers(k, b + n) = Numbers(n + k, b)
<1> DEFINE s == Numbers(n, b)
           t == Numbers(k, b + n)
           u == s \o t
<1>1. s \in Seq(Int) /\ Len(s) = n /\ \A i \in 1..n : s[i] = b + i
  BY DEF Numbers
<1>2. t \in Seq(Int) /\ Len(t) = k /\ \A i \in 1..k : t[i] = b + n + i
  BY DEF Numbers
<1> HIDE DEF s, t
<1>3. u \in Seq(Int) /\ Len(u) = n + k /\ \A i \in 1..(n + k) : u[i] = IF i <= n THEN s[i] ELSE t[i - n]
  <2>1. s \in Seq(Int) /\ t \in Seq(Int) /\ Len(s) = n /\ Len(t) = k
    BY <1>1, <1>2
  <2> QED
    BY <2>1
<1> HIDE DEF u
<1>4. ASSUME NEW i \in 1..(n + k) PROVE u[i] = b + i
  <2>1. CASE i <= n
    BY <1>1, <1>3, <1>4, <2>1
  <2>2. CASE i > n
    <3>1. i - n \in 1..k /\ b + n + (i - n) = b + i
      BY <1>4, <2>2
    <3>2. u[i] = t[i - n]
      BY <1>3, <1>4, <2>2
    <3> QED
      BY <1>2, <3>1, <3>2
  <2> QED
    BY <2>1, <2>2
<1>5. u = [i \in 1..(n + k) |-> u[i]]
  BY <1>3
<1> QED
  BY <1>4, <1>5 DEF u, s, t, Numbers
=============================================================================
