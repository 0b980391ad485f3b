--------------------------- MODULE MemBreakProofs ---------------------------
(***************************************************************************)
(* Proofs about MemBreak and MemBreakFork, for every memory, library, set  *)
(* of kinds and number of breakpoints: types and reference counts; what    *)
(* gdbserver reads and what the threads run into; a forked child.          *)
(***************************************************************************)
EXTENDS MemBreakFork, FiniteSetTheorems, TLAPS

(* What most operations of a process leave: memory and breakpoints that    *)
(* are well formed, none that was not there before, each where it was, of  *)
(* the kind it was, and as inserted as it was or known to be gone.         *)
Keeps(s, t) ==
  /\ t \in Process
  /\ t.mapped = s.mapped
  /\ \A b \in BpIds : t.bp[b] \in {s.bp[b], FreeBp}
  /\ \A r \in RawIds : t.raw[r].refcount > 0 =>
       /\ s.raw[r].refcount > 0
       /\ t.raw[r].pc = s.raw[r].pc
       /\ t.raw[r].inserted \in {s.raw[r].inserted, -1}

LEMMA Constants ==
  /\ AnyKind \in Kinds /\ AnyData \in Data
  /\ Data \subseteq Byte /\ Kinds \subseteq Byte /\ Jump \in Byte
  /\ 0 \in Addr /\ NoStep \notin Addr /\ Addr \subseteq Nat
  /\ FreeRaw \in Raw /\ FreeJump \in JumpRec /\ FreeRaw.refcount = 0
BY MemBreakAssumption DEF AnyKind, AnyData, Byte, Addr, NoStep, FreeRaw, Raw, FreeJump, JumpRec

LEMMA KeepsRefl == ASSUME NEW s \in Process PROVE Keeps(s, s)
BY DEF Keeps

LEMMA KeepsTrans ==
  ASSUME NEW s, NEW t, NEW u, Keeps(s, t), Keeps(t, u) PROVE Keeps(s, u)
BY DEF Keeps

LEMMA TagKeeps == ASSUME NEW s \in Process, NEW R PROVE Keeps(s, Tag(s, R))
<1> DEFINE raw == [r \in RawIds |-> IF r \in R THEN [s.raw[r] EXCEPT !.inserted = -1] ELSE s.raw[r]]
<1>1. raw \in [RawIds -> Raw]
  BY DEF Process, Raw
<1>2. Tag(s, R) = [s EXCEPT !.raw = raw]
  BY DEF Tag
<1>3. \A r \in RawIds : raw[r].refcount = s.raw[r].refcount /\ raw[r].pc = s.raw[r].pc
                        /\ raw[r].inserted \in {s.raw[r].inserted, -1}
  BY DEF Process, Raw
<1> HIDE DEF raw
<1> QED
  BY <1>1, <1>2, <1>3 DEF Keeps, Process

LEMMA DeleteDisabledKeeps ==
  ASSUME NEW s \in Process PROVE Keeps(s, DeleteDisabled(s))
<1> DEFINE dead == {b \in Bps(s) : s.raw[s.bp[b].raw].inserted = -1}
           dropped(r) == Cardinality({b \in dead : s.bp[b].raw = r})
           bp == [b \in BpIds |-> IF b \in dead THEN FreeBp ELSE s.bp[b]]
           raw == [r \in RawIds |->
                     IF dropped(r) = 0 THEN s.raw[r]
                     ELSE IF dropped(r) >= s.raw[r].refcount THEN FreeRaw
                     ELSE [s.raw[r] EXCEPT !.refcount = @ - dropped(r)]]
<1>1. ASSUME NEW r PROVE dropped(r) \in Nat
  <2>1. IsFiniteSet(BpIds)
    BY MemBreakAssumption, FS_Interval DEF BpIds
  <2>2. {b \in dead : s.bp[b].raw = r} \subseteq BpIds
    BY DEF Bps
  <2> QED
    BY <2>1, <2>2, FS_Subset, FS_CardinalityType
<1>2. DeleteDisabled(s) = [s EXCEPT !.bp = bp, !.raw = raw]
  BY DEF DeleteDisabled
<1>3. bp \in [BpIds -> Bp \cup {FreeBp}] /\ \A b \in BpIds : bp[b] \in {s.bp[b], FreeBp}
  BY DEF Process
<1> HIDE DEF dropped, dead
<1>4. raw \in [RawIds -> Raw]
  BY <1>1, Constants DEF Process, Raw
<1>5. \A r \in RawIds : raw[r].refcount > 0 =>
        /\ s.raw[r].refcount > 0
        /\ raw[r].pc = s.raw[r].pc
        /\ raw[r].inserted = s.raw[r].inserted
  BY <1>1, Constants DEF Process, Raw
<1> HIDE DEF bp, raw
<1> QED
  BY <1>2, <1>3, <1>4, <1>5 DEF Keeps, Process

LEMMA ValidateKeeps == ASSUME NEW s \in Process, NEW C PROVE Keeps(s, Validate(s, C))
BY KeepsRefl, TagKeeps, DeleteDisabledKeeps, KeepsTrans DEF Validate, Keeps

LEMMA ValidateAllKeeps == ASSUME NEW s \in Process PROVE Keeps(s, ValidateAll(s))
BY TagKeeps, DeleteDisabledKeeps, KeepsTrans DEF ValidateAll, Keeps

LEMMA WriteKeeps ==
  ASSUME NEW s \in Process, NEW C, NEW new \in [C -> Byte] PROVE Keeps(s, Write(s, C, new))
<1> DEFINE raw == [r \in RawIds |-> IF r \in Live(s) /\ s.raw[r].pc \in C
                                    THEN [s.raw[r] EXCEPT !.old_data = new[s.raw[r].pc]]
                                    ELSE s.raw[r]]
           jump == [j \in Addr |->
                      IF s.jump[j].refcount = 0 THEN s.jump[j]
                      ELSE [s.jump[j] EXCEPT !.shadow =
                              [i \in 0..(JumpLength - 1) |-> IF j + i \in C THEN new[j + i] ELSE @[i]]]]
           valid == Validate([s EXCEPT !.raw = raw, !.jump = jump], C)
           layered(a) == IF OnTop(valid, a) # {} THEN s.mem[a]
                         ELSE IF \E j \in Over(s, a) : s.jump[j].inserted THEN Jump
                         ELSE new[a]
           mem == [a \in Addr |-> IF a \in C THEN layered(a) ELSE s.mem[a]]
<1>1. raw \in [RawIds -> Raw]
  BY DEF Process, Raw
<1>2. \A r \in RawIds : raw[r].refcount = s.raw[r].refcount /\ raw[r].pc = s.raw[r].pc
                        /\ raw[r].inserted = s.raw[r].inserted
  BY DEF Process, Raw
<1>3. jump \in [Addr -> JumpRec]
  BY DEF Process, JumpRec
<1> HIDE DEF raw, jump
<1>4. Keeps(s, [s EXCEPT !.raw = raw, !.jump = jump])
  BY <1>1, <1>2, <1>3 DEF Keeps, Process
<1>5. Keeps([s EXCEPT !.raw = raw, !.jump = jump], valid)
  BY <1>4, ValidateKeeps DEF Keeps
<1> HIDE DEF valid
<1>6. Keeps(s, valid)
  BY <1>4, <1>5, KeepsTrans
<1>7. ASSUME NEW a \in Addr, a \in C PROVE layered(a) \in Byte
  <2>1. new[a] \in Byte /\ s.mem[a] \in Byte /\ Jump \in Byte
    BY <1>7, Constants DEF Process
  <2> QED
    BY <2>1
<1> HIDE DEF layered
<1>8. mem \in [Addr -> Byte]
  BY <1>7 DEF Process
<1> HIDE DEF mem
<1>9. Keeps(s, [valid EXCEPT !.mem = mem])
  BY <1>6, <1>8 DEF Keeps, Process
<1> QED
  BY <1>6, <1>9 DEF Write, valid, layered, mem, raw, jump

LEMMA ViewType ==
  ASSUME NEW s \in Process, NEW a \in Addr PROVE View(s, a) \in Byte
<1>1. ASSUME NEW j \in Over(s, a) PROVE s.jump[j].shadow[a - j] \in Byte
  <2>1. j \in Addr /\ a - j \in 0..(JumpLength - 1)
    BY MemBreakAssumption DEF Over, Addr
  <2> QED
    BY <2>1 DEF Process, JumpRec
<1>2. Unjumped(s, a) \in Byte
  BY <1>1 DEF Unjumped, Process
<1>3. ASSUME NEW r \in OnTop(s, a) PROVE s.raw[r].old_data \in Byte
  BY DEF OnTop, At, Live, Process, Raw
<1> QED
  BY <1>2, <1>3 DEF View

(* The same, but for how inserted r is.                                    *)
Changes(s, t, r, I) ==
  /\ t \in Process
  /\ t.mapped = s.mapped
  /\ \A b \in BpIds : t.bp[b] \in {s.bp[b], FreeBp}
  /\ \A q \in RawIds : t.raw[q].refcount > 0 =>
       /\ s.raw[q].refcount > 0
       /\ t.raw[q].pc = s.raw[q].pc
       /\ q = r => t.raw[q].inserted \in I
       /\ q # r => t.raw[q].inserted \in {s.raw[q].inserted, -1}

LEMMA InsertChanges ==
  ASSUME NEW s \in Process, NEW r \in RawIds, Accessible(s, s.raw[r].pc)
  PROVE  Changes(s, Insert(s, r), r, {1})
<1> DEFINE a == s.raw[r].pc
           valid == Validate(s, {a})
<1>1. a \in Addr /\ s.raw[r].kind \in Byte
  BY Constants DEF Process, Raw
<1>2. Keeps(s, valid)
  BY ValidateKeeps
<1>3. View(s, a) \in Byte
  BY <1>1, ViewType
<1> HIDE DEF valid
<1> DEFINE planted == [valid.raw[r] EXCEPT !.old_data = View(s, a), !.inserted = 1]
           raw == [valid.raw EXCEPT ![r] = planted]
           mem == [valid.mem EXCEPT ![a] = s.raw[r].kind]
<1>4. raw \in [RawIds -> Raw]
  <2>1. valid.raw \in [RawIds -> Raw]
    BY <1>2 DEF Keeps, Process
  <2>2. planted \in Raw
    BY <1>3, <2>1 DEF Raw
  <2> QED
    BY <2>1, <2>2
<1>5. mem \in [Addr -> Byte]
  BY <1>1, <1>2 DEF Keeps, Process
<1>6. \A q \in RawIds : raw[q].refcount = valid.raw[q].refcount /\ raw[q].pc = valid.raw[q].pc
                        /\ raw[q].inserted = IF q = r THEN 1 ELSE valid.raw[q].inserted
  BY <1>2 DEF Keeps, Process, Raw
<1>7. Insert(s, r) = [valid EXCEPT !.raw = raw, !.mem = mem]
  BY <1>2 DEF Insert, valid, Keeps, Process
<1> HIDE DEF raw, mem, a
<1>8. \A q \in RawIds : raw[q].refcount > 0 =>
        /\ s.raw[q].refcount > 0 /\ raw[q].pc = s.raw[q].pc
        /\ q = r => raw[q].inserted \in {1}
        /\ q # r => raw[q].inserted \in {s.raw[q].inserted, -1}
  BY <1>2, <1>6 DEF Keeps
<1> QED
  BY <1>2, <1>4, <1>5, <1>7, <1>8 DEF Changes, Keeps, Process

LEMMA UninsertChanges ==
  ASSUME NEW s \in Process, NEW r \in RawIds
  PROVE  Changes(s, Uninsert(s, r), r, {-1, 0, 1})
<1> DEFINE a == s.raw[r].pc
           lifted == [s EXCEPT !.raw[r].inserted = 0]
           out == Write(lifted, {a}, [x \in {a} |-> s.raw[r].old_data])
<1>1. Changes(s, lifted, r, {-1, 0, 1})
  BY ZenonT(60) DEF Changes, Process, Raw
<1>2. [x \in {a} |-> s.raw[r].old_data] \in [{a} -> Byte]
  BY DEF Process, Raw
<1>3. Keeps(lifted, out)
  BY <1>1, <1>2, WriteKeeps DEF Changes
<1> HIDE DEF lifted, out
<1>4. Changes(s, out, r, {-1, 0, 1})
  BY <1>1, <1>3 DEF Changes, Keeps
<1>5. Changes(s, [out EXCEPT !.raw[r].inserted = 1], r, {-1, 0, 1})
  <2> DEFINE raw == [out.raw EXCEPT ![r].inserted = 1]
  <2>1. raw \in [RawIds -> Raw]
    BY <1>4 DEF Changes, Process, Raw
  <2>2. \A q \in RawIds : raw[q].refcount = out.raw[q].refcount /\ raw[q].pc = out.raw[q].pc
                        /\ raw[q].inserted = IF q = r THEN 1 ELSE out.raw[q].inserted
    BY <1>4 DEF Changes, Process, Raw
  <2> HIDE DEF raw
  <2>3. Changes(s, [out EXCEPT !.raw = raw], r, {-1, 0, 1})
    BY <1>4, <2>1, <2>2 DEF Changes, Process
  <2> QED
    BY <1>4, <2>3 DEF Changes, Process, raw
<1> QED
  BY <1>4, <1>5 DEF Uninsert, lifted, out

(* The invariants, of any state of a process: at most one breakpoint at an *)
(* address is not known to be gone, and those out of memory are at p.      *)
OneEnabled(s) ==
  \A r, q \in RawIds :
    /\ s.raw[r].refcount > 0 /\ s.raw[q].refcount > 0
    /\ s.raw[r].pc = s.raw[q].pc
    /\ s.raw[r].inserted >= 0 /\ s.raw[q].inserted >= 0
    => r = q

OutOnlyAt(s, p) ==
  \A r \in RawIds : s.raw[r].refcount > 0 /\ s.raw[r].inserted = 0 => s.raw[r].pc = p

Good(s, p) == s \in Process /\ OneEnabled(s) /\ OutOnlyAt(s, p)

LEMMA KeepsGood ==
  ASSUME NEW s, NEW t, NEW p, Good(s, p), Keeps(s, t) PROVE Good(t, p)
<1>1. t \in Process
  BY DEF Keeps
<1>2. \A r \in RawIds : t.raw[r].refcount > 0 /\ t.raw[r].inserted >= 0 =>
         /\ s.raw[r].refcount > 0 /\ s.raw[r].pc = t.raw[r].pc
         /\ s.raw[r].inserted = t.raw[r].inserted
  BY DEF Keeps
<1> QED
  BY <1>1, <1>2 DEF Good, OneEnabled, OutOnlyAt

LEMMA ChangesOneEnabled ==
  ASSUME NEW s, NEW t, NEW r \in RawIds, NEW I, s \in Process, OneEnabled(s),
         Changes(s, t, r, I), s.raw[r].inserted >= 0
  PROVE  OneEnabled(t)
<1>1. \A q \in RawIds : t.raw[q].refcount > 0 /\ t.raw[q].inserted >= 0 =>
         /\ s.raw[q].refcount > 0 /\ s.raw[q].pc = t.raw[q].pc
         /\ s.raw[q].inserted >= 0
  BY DEF Changes, Process, Raw
<1> QED
  BY <1>1 DEF OneEnabled

LEMMA InsertGood ==
  ASSUME NEW s \in Process, NEW r \in RawIds, NEW p, OneEnabled(s),
         s.raw[r].inserted = 0, Accessible(s, s.raw[r].pc),
         \A q \in RawIds \ {r} : s.raw[q].refcount > 0 /\ s.raw[q].inserted = 0 => s.raw[q].pc = p
  PROVE  Good(Insert(s, r), p)
<1> DEFINE t == Insert(s, r)
<1>1. Changes(s, t, r, {1})
  BY InsertChanges
<1> HIDE DEF t
<1>2. OneEnabled(t)
  <2>1. s.raw[r].inserted >= 0
    OBVIOUS
  <2> QED
    BY <1>1, <2>1, ChangesOneEnabled
<1>3. OutOnlyAt(t, p)
  BY <1>1 DEF Changes, OutOnlyAt
<1> QED
  BY <1>1, <1>2, <1>3 DEF Good, Changes, t

(* What is deleted makes room.                                             *)
LEMMA KeepsRoom ==
  ASSUME NEW s, NEW t, Keeps(s, t), Room(s) PROVE Room(t)
BY DEF Keeps, Room, Live, Bps, FreeBp

LEMMA ChangesRoom ==
  ASSUME NEW s, NEW t, NEW r, NEW I, Changes(s, t, r, I), Room(s) PROVE Room(t)
<1>1. Live(t) \subseteq Live(s)
  BY DEF Changes, Live
<1>2. Bps(t) \subseteq Bps(s)
  BY DEF Changes, Bps, FreeBp
<1>3. Live(s) \subseteq RawIds /\ Bps(s) \subseteq BpIds
  BY DEF Live, Bps
<1> QED
  BY <1>1, <1>2, <1>3 DEF Room

LEMMA DeleteKeeps ==
  ASSUME NEW s \in Process, NEW b \in Bps(s) PROVE Keeps(s, Delete(s, b))
<1> DEFINE r == s.bp[b].raw
           a == s.raw[r].pc
           unlinked == [s EXCEPT !.bp[b] = FreeBp]
           removed == [unlinked EXCEPT !.raw[r] = FreeRaw]
           out == Write(removed, {a}, [x \in {a} |-> s.raw[r].old_data])
<1>1. b \in BpIds /\ r \in RawIds
  BY DEF Bps, Process, Bp, FreeBp
<1>2. s.raw[r] \in Raw
  BY <1>1 DEF Process
<1>3. Keeps(s, unlinked)
  BY <1>1 DEF Keeps, Process
<1> DEFINE freed == [s.raw EXCEPT ![r] = FreeRaw]
           dropped == [s.raw EXCEPT ![r].refcount = @ - 1]
<1>4. Keeps(s, removed)
  <2>1. /\ freed \in [RawIds -> Raw]
        /\ \A q \in RawIds : freed[q].refcount > 0 => freed[q] = s.raw[q]
    BY <1>1, Constants DEF Process
  <2> HIDE DEF freed
  <2>2. Keeps(s, [unlinked EXCEPT !.raw = freed])
    BY <1>3, <2>1 DEF Keeps, Process
  <2> QED
    BY <2>2 DEF freed
<1>5. s.raw[r].refcount > 1 => Keeps(s, [unlinked EXCEPT !.raw[r].refcount = @ - 1])
  <2> SUFFICES ASSUME s.raw[r].refcount > 1 PROVE Keeps(s, [unlinked EXCEPT !.raw = dropped])
    OBVIOUS
  <2>1. dropped \in [RawIds -> Raw]
    BY <1>1, <1>2 DEF Process, Raw
  <2>2. \A q \in RawIds : dropped[q].refcount > 0 =>
          s.raw[q].refcount > 0 /\ dropped[q].pc = s.raw[q].pc /\ dropped[q].inserted = s.raw[q].inserted
    BY <1>1, <1>2 DEF Process, Raw
  <2> HIDE DEF dropped
  <2> QED
    BY <1>3, <2>1, <2>2 DEF Keeps, Process
<1>6. [x \in {a} |-> s.raw[r].old_data] \in [{a} -> Byte]
  BY <1>2 DEF Raw
<1>7. Keeps(s, out)
  <2>1. Keeps(removed, out)
    BY <1>4, <1>6, WriteKeeps DEF Keeps
  <2> QED
    BY <1>4, <2>1, KeepsTrans
<1> HIDE DEF out
<1>8. Keeps(s, [out EXCEPT !.raw[r] = s.raw[r]])
  <2> DEFINE back == [out.raw EXCEPT ![r] = s.raw[r]]
  <2>1. back \in [RawIds -> Raw] /\ \A q \in RawIds : back[q] = IF q = r THEN s.raw[q] ELSE out.raw[q]
    BY <1>1, <1>2, <1>7 DEF Keeps, Process
  <2> HIDE DEF back
  <2>2. Keeps(s, [out EXCEPT !.raw = back])
    BY <1>1, <1>7, <2>1 DEF Keeps, Process
  <2> QED
    BY <2>2 DEF back
<1> QED
  BY <1>4, <1>5, <1>7, <1>8 DEF Delete, out
-----------------------------------------------------------------------------
(* Setting breakpoints.                                                    *)

LEMMA SetRawGood ==
  ASSUME NEW s, NEW p, Good(s, p), Room(s), NEW a \in Addr, NEW k \in Kinds
  PROVE  LET set == SetRaw(s, a, k)
         IN  /\ Good(set.st, p)
             /\ set.raw \in RawIds \cup {0}
             /\ set.st.mapped = s.mapped
             /\ \A b \in BpIds : set.st.bp[b] \in {s.bp[b], FreeBp}
<1> DEFINE same == {r \in Enabled(s, a) : s.raw[r].kind = k}
           R == Enabled(s, a) \ same
           tagged == Tag(s, R)
           r == IF same # {} THEN CHOOSE q \in same : TRUE ELSE CHOOSE q \in RawIds \ Live(s) : TRUE
           new == [FreeRaw EXCEPT !.pc = a, !.kind = k, !.refcount = 1]
           linked == IF same # {} THEN [tagged EXCEPT !.raw[r].refcount = @ + 1]
                     ELSE [tagged EXCEPT !.raw[r] = new]
<1>1. Good(tagged, p) /\ Keeps(s, tagged)
  BY TagKeeps, KeepsGood DEF Good
<1>2. r \in RawIds /\ (same # {} => r \in same) /\ (same = {} => r \notin Live(s))
  BY DEF Room, Live, Enabled, At
<1> HIDE DEF r
<1>3. Good(Validate(tagged, {a}), p) /\ Keeps(s, Validate(tagged, {a}))
  BY <1>1, ValidateKeeps, KeepsGood, KeepsTrans DEF Good
<1>4. tagged.raw \in [RawIds -> Raw] /\ tagged \in Process
  BY <1>1 DEF Keeps, Process
<1>5. \A q \in RawIds : /\ tagged.raw[q].refcount = s.raw[q].refcount
                        /\ tagged.raw[q].pc = s.raw[q].pc
                        /\ tagged.raw[q].inserted = IF q \in R THEN -1 ELSE s.raw[q].inserted
  BY DEF Tag, Good, Process, Raw
<1>6. tagged.mapped = s.mapped /\ tagged.bp = s.bp
  BY DEF Tag, Good, Process
<1>7. R = {q \in RawIds : /\ s.raw[q].refcount > 0 /\ s.raw[q].pc = a
                          /\ s.raw[q].inserted >= 0} \ same
  BY DEF Enabled, At, Live
<1>8. same # {} => s.raw[r].pc = a /\ s.raw[r].refcount > 0 /\ s.raw[r].inserted >= 0
  BY <1>2 DEF Enabled, At, Live
<1>9. same = {} => ~(s.raw[r].refcount > 0)
  BY <1>2 DEF Live
<1> HIDE DEF tagged, R
<1>10. CASE same # {}
  <2> DEFINE more == [tagged.raw[r] EXCEPT !.refcount = @ + 1]
             raw == [tagged.raw EXCEPT ![r] = more]
  <2>1. tagged.raw[r] \in Raw
    BY <1>2, <1>4
  <2>2. more \in Raw /\ more.pc = s.raw[r].pc /\ more.inserted = tagged.raw[r].inserted
    BY <1>2, <1>5, <2>1 DEF Raw
  <2>3. raw \in [RawIds -> Raw]
    BY <1>2, <1>4, <2>2
  <2>4. linked = [tagged EXCEPT !.raw = raw]
    BY <1>10
  <2>5. /\ linked \in Process /\ linked.raw = raw /\ linked.mapped = s.mapped /\ linked.bp = s.bp
    BY <1>4, <1>6, <2>3, <2>4 DEF Process
  <2> HIDE DEF linked, more
  <2>6. \A q \in RawIds : linked.raw[q] = IF q = r THEN more ELSE tagged.raw[q]
    BY <1>2, <1>4, <2>5
  <2> HIDE DEF raw
  <2>7. \A q \in RawIds : linked.raw[q].pc = tagged.raw[q].pc
                          /\ linked.raw[q].inserted = tagged.raw[q].inserted
                          /\ (linked.raw[q].refcount > 0 => tagged.raw[q].refcount > 0)
    BY <1>2, <1>5, <1>8, <1>10, <2>2, <2>6
  <2>8. Good(linked, p)
    BY <1>1, <2>5, <2>7 DEF Good, OneEnabled, OutOnlyAt
  <2>9. linked.raw[r].inserted = s.raw[r].inserted /\ linked.raw[r].pc = a
    <3>1. r \notin R
      BY <1>2, <1>10 DEF R
    <3> QED
      BY <1>2, <1>5, <1>8, <1>10, <2>7, <3>1
  <2>10. ASSUME s.raw[r].inserted = 0, Accessible(s, a)
         PROVE  Good(Insert(linked, r), p) /\ Changes(linked, Insert(linked, r), r, {1})
    <3>1. Accessible(linked, linked.raw[r].pc) /\ linked.raw[r].inserted = 0
      BY <2>5, <2>9, <2>10 DEF Accessible
    <3>2. OneEnabled(linked)
            /\ \A q \in RawIds \ {r} : linked.raw[q].refcount > 0 /\ linked.raw[q].inserted = 0
                                   => linked.raw[q].pc = p
      BY <2>8 DEF Good, OutOnlyAt
    <3> QED
      BY <1>2, <2>5, <3>1, <3>2, InsertGood, InsertChanges
  <2> QED
    BY <1>2, <1>3, <1>10, <2>5, <2>8, <2>10 DEF SetRaw, r, linked, tagged, R, Changes, Keeps
<1>11. CASE same = {}
  <2>1. new \in Raw /\ new.pc = a /\ new.inserted = 0
    BY Constants DEF FreeRaw, Raw
  <2> HIDE DEF new
  <2> DEFINE raw == [tagged.raw EXCEPT ![r] = new]
  <2>2. raw \in [RawIds -> Raw]
    BY <1>2, <1>4, <2>1
  <2>3. linked = [tagged EXCEPT !.raw = raw]
    BY <1>11
  <2>4. /\ linked \in Process /\ linked.raw = raw /\ linked.mapped = s.mapped /\ linked.bp = s.bp
    BY <1>4, <1>6, <2>2, <2>3 DEF Process
  <2> HIDE DEF linked
  <2>5. \A q \in RawIds \ {r} : linked.raw[q] = tagged.raw[q]
    BY <1>4, <2>4
  <2>6. linked.raw[r] = new
    BY <1>2, <1>4, <2>4
  <2>7. \A q \in RawIds \ {r} : linked.raw[q].refcount > 0 /\ linked.raw[q].inserted >= 0
                              => linked.raw[q].pc # a
    BY <1>5, <1>7, <1>11, <2>5
  <2>8. OneEnabled(linked)
    BY <1>1, <2>1, <2>5, <2>6, <2>7 DEF Good, OneEnabled
  <2>9. ASSUME Accessible(s, a)
        PROVE  Good(Insert(linked, r), p) /\ Changes(linked, Insert(linked, r), r, {1})
    <3>1. Accessible(linked, linked.raw[r].pc) /\ linked.raw[r].inserted = 0
      BY <2>1, <2>4, <2>6, <2>9 DEF Accessible
    <3>2. \A q \in RawIds \ {r} : linked.raw[q].refcount > 0 /\ linked.raw[q].inserted = 0
                                => linked.raw[q].pc = p
      BY <1>1, <2>5 DEF Good, OutOnlyAt
    <3> QED
      BY <1>2, <2>4, <2>8, <3>1, <3>2, InsertGood, InsertChanges
  <2> QED
    BY <1>2, <1>3, <1>11, <2>4, <2>9 DEF SetRaw, r, linked, tagged, R, new, Changes, Keeps
<1> QED
  BY <1>10, <1>11

LEMMA SetBreakpointGood ==
  ASSUME NEW s, NEW p, Good(s, p), Room(s), NEW a \in Addr, NEW k \in Kinds,
         NEW type \in {"gdb", "other", "step"}
  PROVE  LET t == SetBreakpoint(s, type, a, k) IN Good(t, p) /\ t.mapped = s.mapped
<1> DEFINE set == SetRaw(s, a, k)
           b == CHOOSE q \in BpIds \ Bps(set.st) : TRUE
           t == [set.st EXCEPT !.bp[b] = [type |-> type, raw |-> set.raw]]
<1>1. /\ Good(set.st, p) /\ set.raw \in RawIds \cup {0} /\ set.st.mapped = s.mapped
      /\ \A q \in BpIds : set.st.bp[q] \in {s.bp[q], FreeBp}
  BY SetRawGood
<1> HIDE DEF set
<1>2. b \in BpIds
  BY <1>1 DEF Room, Bps, FreeBp
<1> HIDE DEF b
<1>3. ASSUME set.raw # 0 PROVE Good(t, p) /\ t.mapped = s.mapped
  <2> DEFINE bp == [set.st.bp EXCEPT ![b] = [type |-> type, raw |-> set.raw]]
  <2>1. bp \in [BpIds -> Bp \cup {FreeBp}]
    BY <1>1, <1>2, <1>3 DEF Good, Process, Bp
  <2> HIDE DEF bp
  <2>2. t = [set.st EXCEPT !.bp = bp]
    BY DEF bp
  <2>3. t \in Process /\ t.raw = set.st.raw /\ t.mapped = s.mapped
    BY <1>1, <2>1, <2>2 DEF Good, Process
  <2> QED
    BY <1>1, <2>3 DEF Good, OneEnabled, OutOnlyAt
<1> QED
  BY <1>1, <1>3 DEF SetBreakpoint, set, b

LEMMA SetGdbGood ==
  ASSUME NEW s, NEW p, Good(s, p), Room(s), NEW a \in Addr, NEW k \in Kinds
  PROVE  LET t == SetGdb(s, a, k) IN Good(t, p) /\ t.mapped = s.mapped
<1> DEFINE b == CHOOSE q \in GdbBpsAt(s, a) : TRUE
           tagged == Tag(s, {s.bp[b].raw})
           valid == ValidateAll(s)
<1>1. ASSUME GdbBpsAt(s, a) # {}
      PROVE  Good(Delete(tagged, b), p) /\ Room(Delete(tagged, b)) /\ Delete(tagged, b).mapped = s.mapped
  <2>1. b \in Bps(s)
    BY <1>1 DEF GdbBpsAt
  <2> HIDE DEF b
  <2>2. Keeps(s, tagged) /\ tagged.bp = s.bp
    BY TagKeeps DEF Tag, Good, Process
  <2>3. b \in Bps(tagged)
    BY <2>1, <2>2 DEF Bps
  <2>4. Keeps(tagged, Delete(tagged, b))
    BY <2>2, <2>3, DeleteKeeps DEF Keeps
  <2>5. Keeps(s, Delete(tagged, b))
    BY <2>2, <2>4, KeepsTrans
  <2> QED
    BY <2>5, KeepsGood, KeepsRoom DEF Keeps
<1>2. Good(valid, p) /\ Room(valid) /\ valid.mapped = s.mapped
  BY ValidateAllKeeps, KeepsGood, KeepsRoom DEF Keeps, Good
<1> HIDE DEF b, tagged, valid
<1>3. ASSUME NEW u, Good(u, p), Room(u), u.mapped = s.mapped
      PROVE  LET t == SetBreakpoint(u, "gdb", a, k) IN Good(t, p) /\ t.mapped = s.mapped
  BY <1>3, SetBreakpointGood
<1> QED
  BY <1>1, <1>2, <1>3 DEF SetGdb, b, tagged, valid
-----------------------------------------------------------------------------
(* Deleting them, and jumps.                                               *)

LEMMA DeleteGdbKeeps ==
  ASSUME NEW s \in Process, NEW a, NEW k PROVE Keeps(s, DeleteGdb(s, a, k))
<1> DEFINE mine == {b \in GdbBpsAt(s, a) : s.raw[s.bp[b].raw].kind = k}
<1>1. mine \subseteq Bps(s)
  BY DEF GdbBpsAt
<1>2. CASE mine = {}
  BY <1>2, KeepsRefl DEF DeleteGdb
<1>3. CASE mine # {}
  BY <1>1, <1>3, DeleteKeeps DEF DeleteGdb
<1> QED
  BY <1>2, <1>3

LEMMA DeleteStepBpsKeeps ==
  ASSUME NEW s \in Process PROVE Keeps(s, DeleteStepBps(s))
<1>1. StepBps(s) \subseteq Bps(s)
  BY DEF StepBps
<1>2. CASE StepBps(s) = {}
  BY <1>2, KeepsRefl DEF DeleteStepBps
<1>3. CASE StepBps(s) # {}
  BY <1>1, <1>3, DeleteKeeps DEF DeleteStepBps
<1> QED
  BY <1>2, <1>3

LEMMA ShadowType ==
  ASSUME NEW s \in Process, NEW j \in Addr PROVE Shadow(s, j) \in [Cells(j) -> Byte]
<1>1. ASSUME NEW a \in Cells(j) PROVE s.jump[j].shadow[a - j] \in Byte
  <2>1. a - j \in 0..(JumpLength - 1)
    BY Constants, MemBreakAssumption DEF Cells
  <2>2. s.jump[j].shadow \in [0..(JumpLength - 1) -> Byte]
    BY DEF Process, JumpRec
  <2> QED
    BY <2>1, <2>2
<1> QED
  BY <1>1 DEF Shadow

(* A jump that changes in any way.                                         *)
LEMMA JumpKeeps ==
  ASSUME NEW s \in Process, NEW j \in Addr, NEW new \in JumpRec
  PROVE  Keeps(s, [s EXCEPT !.jump[j] = new])
BY DEF Keeps, Process

LEMMA RewriteKeeps ==
  ASSUME NEW s, NEW t, Keeps(s, t), NEW C, NEW bytes \in [C -> Byte]
  PROVE  Keeps(s, Write(t, C, bytes))
BY WriteKeeps, KeepsTrans DEF Keeps

LEMMA SetJumpKeeps ==
  ASSUME NEW s \in Process, NEW j \in Addr, Cells(j) \subseteq Addr
  PROVE  Keeps(s, SetJump(s, j))
<1> DEFINE valid == Validate(s, Cells(j))
           old == [a \in Cells(j) |-> View(s, a)]
           new == [inserted |-> TRUE, refcount |-> 1,
                   shadow |-> [i \in 0..(JumpLength - 1) |-> old[j + i]]]
<1>1. Keeps(s, valid)
  BY ValidateKeeps
<1>2. old \in [Cells(j) -> Byte]
  BY ViewType
<1>3. \A i \in 0..(JumpLength - 1) : j + i \in Cells(j)
  BY Constants, MemBreakAssumption DEF Cells
<1> HIDE DEF valid, old
<1>4. new \in JumpRec
  BY <1>2, <1>3 DEF JumpRec
<1> HIDE DEF new
<1>5. Keeps(s, [valid EXCEPT !.jump[j] = new])
  BY <1>1, <1>4, JumpKeeps, KeepsTrans DEF Keeps
<1> QED
  BY <1>2, <1>5, RewriteKeeps DEF SetJump, valid, old, new

LEMMA DeleteJumpKeeps ==
  ASSUME NEW s \in Process, NEW j \in Addr PROVE Keeps(s, DeleteJump(s, j))
BY Constants, JumpKeeps, ShadowType, RewriteKeeps DEF DeleteJump

LEMMA MoveJumpKeeps ==
  ASSUME NEW s \in Process, NEW j \in Addr
  PROVE  Keeps(s, UninsertJumpAt(s, j)) /\ Keeps(s, ReinsertJumpAt(s, j))
<1>1. ASSUME NEW v \in BOOLEAN PROVE Keeps(s, [s EXCEPT !.jump[j].inserted = v])
  BY ZenonT(60) DEF Keeps, Process, JumpRec
<1> QED
  BY <1>1, KeepsRefl, ShadowType, RewriteKeeps DEF UninsertJumpAt, ReinsertJumpAt

-----------------------------------------------------------------------------
(* Stepping over.                                                          *)

(* While nobody steps, nothing is out.                                     *)
LEMMA NoneOut ==
  ASSUME NEW s, Good(s, NoStep), NEW p PROVE Good(s, p)
<1>1. \A r \in RawIds : s.raw[r].pc \in Addr
  BY DEF Good, Process, Raw
<1> QED
  BY <1>1, Constants DEF Good, OutOnlyAt

LEMMA UninsertAtGood ==
  ASSUME NEW s, Good(s, NoStep), NEW a \in Addr, Room(s)
  PROVE  LET t == UninsertAt(s, a) IN Good(t, a) /\ Room(t) /\ t.mapped = s.mapped
<1>1. CASE InsertedAt(s, a) = {}
  BY <1>1, NoneOut DEF UninsertAt
<1>2. CASE InsertedAt(s, a) # {}
  <2> DEFINE r == CHOOSE r \in InsertedAt(s, a) : TRUE
             t == Uninsert(s, r)
  <2>1. r \in RawIds /\ s.raw[r].pc = a /\ s.raw[r].inserted >= 0
    BY <1>2 DEF InsertedAt, At, Live
  <2> HIDE DEF r
  <2>2. Changes(s, t, r, {-1, 0, 1})
    BY <2>1, UninsertChanges DEF Good
  <2> HIDE DEF t
  <2>3. OneEnabled(t)
    BY <2>1, <2>2, ChangesOneEnabled DEF Good
  <2>4. OutOnlyAt(t, a)
    <3>1. OutOnlyAt(s, a)
      BY NoneOut DEF Good
    <3>2. ASSUME NEW q \in RawIds, t.raw[q].refcount > 0, t.raw[q].inserted = 0
          PROVE  t.raw[q].pc = a
      <4>1. CASE q = r
        BY <2>1, <2>2, <3>2, <4>1 DEF Changes
      <4>2. CASE q # r
        <5>1. s.raw[q].inserted = 0 /\ s.raw[q].refcount > 0 /\ s.raw[q].pc = t.raw[q].pc
          BY <2>2, <3>2, <4>2 DEF Changes
        <5> QED
          BY <3>1, <5>1 DEF OutOnlyAt
      <4> QED
        BY <4>1, <4>2
    <3> QED
      BY <3>2 DEF OutOnlyAt
  <2>5. Room(t)
    BY <2>2, ChangesRoom
  <2> QED
    BY <1>2, <2>2, <2>3, <2>4, <2>5 DEF UninsertAt, r, t, Good, Changes
<1> QED
  BY <1>1, <1>2

LEMMA ReinsertAtGood ==
  ASSUME NEW s, NEW p \in Addr, Good(s, p), Accessible(s, p)
  PROVE  LET t == ReinsertAt(s, p) IN Good(t, NoStep) /\ t.mapped = s.mapped
<1>1. CASE OutAt(s, p) = {}
  BY <1>1 DEF ReinsertAt, OutAt, At, Live, Good, OutOnlyAt
<1>2. CASE OutAt(s, p) # {}
  <2> DEFINE r == CHOOSE r \in OutAt(s, p) : TRUE
  <2>1. r \in RawIds /\ s.raw[r].refcount > 0 /\ s.raw[r].pc = p /\ s.raw[r].inserted = 0
    BY <1>2 DEF OutAt, At, Live
  <2> HIDE DEF r
  <2>2. \A q \in RawIds \ {r} : ~(s.raw[q].refcount > 0 /\ s.raw[q].inserted = 0)
    BY <2>1 DEF Good, OneEnabled, OutOnlyAt
  <2>3. Good(Insert(s, r), NoStep) /\ Changes(s, Insert(s, r), r, {1})
    BY <2>1, <2>2, InsertGood, InsertChanges DEF Good
  <2> QED
    BY <1>2, <2>3 DEF ReinsertAt, r, Changes
<1> QED
  BY <1>1, <1>2

-----------------------------------------------------------------------------
(* The inductive invariant: the three invariants need, besides each other, *)
(* that the code a thread steps over stays where it is.                    *)
SteppedIsMapped == stepping # NoStep => Accessible(proc, stepping)

IInv == TypeOK /\ OneEnabledPerAddress /\ OutOnlyWhileStepping /\ SteppedIsMapped

(* The same, in the terms of the lemmas.                                   *)
GoodInv ==
  /\ Good(proc, stepping)
  /\ mode \in Kinds
  /\ stepping \in Addr \cup {NoStep}
  /\ accepted \subseteq Addr
  /\ program \in [Addr -> Data \cup {Absent}]
  /\ SteppedIsMapped

LEMMA IInvIsGood == (IInv <=> GoodInv) /\ (IInv <=> GoodInv)'
BY DEF IInv, GoodInv, TypeOK, OneEnabledPerAddress, OutOnlyWhileStepping, Good, OneEnabled,
       OutOnlyAt, Live

LEMMA InitIInv == Init => IInv
<1> SUFFICES ASSUME Init PROVE IInv
  OBVIOUS
<1>1. proc \in Process
  <2>1. program \in [Addr -> Byte]
    BY Constants DEF Init
  <2> QED
    BY <2>1, Constants DEF Init, Process
<1>2. \A r \in RawIds : ~(proc.raw[r].refcount > 0)
  BY Constants DEF Init
<1>3. Good(proc, stepping)
  BY <1>1, <1>2 DEF Good, OneEnabled, OutOnlyAt
<1> QED
  BY <1>3, IInvIsGood DEF Init, SteppedIsMapped, GoodInv

(* A step that neither maps nor unmaps anything while nobody starts or     *)
(* finishes to step over.                                                  *)
LEMMA GoodStep ==
  ASSUME IInv, Good(proc', stepping), proc'.mapped = proc.mapped,
         stepping' = stepping, mode' = mode, accepted' \subseteq Addr,
         program' \in [Addr -> Data \cup {Absent}]
  PROVE  IInv'
BY IInvIsGood DEF SteppedIsMapped, Accessible, GoodInv

LEMMA KeepsStep ==
  ASSUME IInv, Keeps(proc, proc'),
         stepping' = stepping, mode' = mode, accepted' \subseteq Addr,
         program' \in [Addr -> Data \cup {Absent}]
  PROVE  IInv'
BY IInvIsGood, KeepsGood, GoodStep DEF Keeps, GoodInv

LEMMA ClientIInv == IInv /\ Client => IInv'
<1> SUFFICES ASSUME IInv, Client PROVE IInv'
  OBVIOUS
<1>1. /\ Good(proc, stepping) /\ mode \in Kinds /\ accepted \subseteq Addr
      /\ program \in [Addr -> Data \cup {Absent}] /\ proc \in Process
  BY IInvIsGood DEF Good, GoodInv
<1>2. ASSUME NEW a \in Addr, ClientSet(a) PROVE IInv'
  <2>1. CodeKind(a) \in Kinds
    BY <1>1, Constants DEF CodeKind
  <2>2. Good(proc', stepping) /\ proc'.mapped = proc.mapped
    BY <1>1, <1>2, <2>1, SetGdbGood DEF ClientSet
  <2> QED
    BY <1>1, <1>2, <2>2, GoodStep DEF ClientSet
<1>3. ASSUME NEW a \in Addr, ClientDelete(a) PROVE IInv'
  <2>1. Keeps(proc, proc')
    BY <1>1, <1>3, DeleteGdbKeeps DEF ClientDelete
  <2> QED
    BY <1>1, <1>3, <2>1, KeepsStep DEF ClientDelete
<1>4. ASSUME NEW a \in Addr, NEW d \in Data, ClientWrite(a, d) PROVE IInv'
  <2>1. [x \in {a} |-> d] \in [{a} -> Byte]
    BY Constants
  <2>2. Keeps(proc, proc')
    BY <1>1, <1>4, <2>1, WriteKeeps DEF ClientWrite
  <2> QED
    BY <1>1, <1>4, <2>2, KeepsStep DEF ClientWrite
<1>5. ASSUME NEW a \in Addr, ClientRead(a) PROVE IInv'
  BY <1>1, <1>5, ValidateKeeps, KeepsStep DEF ClientRead
<1>6. CASE ClientSymbols
  BY <1>1, <1>6, ValidateAllKeeps, KeepsStep DEF ClientSymbols
<1> QED
  BY <1>2, <1>3, <1>4, <1>5, <1>6 DEF Client

LEMMA InternalIInv == IInv /\ Internal => IInv'
<1> SUFFICES ASSUME IInv, Internal PROVE IInv'
  OBVIOUS
<1>1. /\ Good(proc, stepping) /\ mode \in Kinds /\ accepted \subseteq Addr
      /\ program \in [Addr -> Data \cup {Absent}] /\ proc \in Process
  BY IInvIsGood DEF Good, GoodInv
<1>2. ASSUME NEW a \in Addr, SetInternal(a) PROVE IInv'
  <2>1. CodeKind(a) \in Kinds
    BY <1>1, Constants DEF CodeKind
  <2>2. Good(proc', stepping) /\ proc'.mapped = proc.mapped
    BY <1>1, <1>2, <2>1, SetBreakpointGood DEF SetInternal
  <2> QED
    BY <1>1, <1>2, <2>2, GoodStep DEF SetInternal
<1>3. ASSUME NEW b \in BpIds, DeleteInternal(b) PROVE IInv'
  <2>1. b \in Bps(proc)
    BY <1>3 DEF DeleteInternal, Bps
  <2> QED
    BY <1>1, <1>3, <2>1, DeleteKeeps, KeepsStep DEF DeleteInternal
<1>4. ASSUME NEW j \in Addr, NEW n \in Nat
      PROVE  Keeps(proc, [proc EXCEPT !.jump[j].refcount = n])
  <2> DEFINE new == [proc.jump[j] EXCEPT !.refcount = n]
  <2>1. new \in JumpRec
    BY <1>1, ZenonT(60) DEF Process, JumpRec
  <2> HIDE DEF new
  <2>2. Keeps(proc, [proc EXCEPT !.jump[j] = new])
    BY <1>1, <2>1, JumpKeeps
  <2> QED
    BY <2>2 DEF new
<1>5. ASSUME NEW j \in Addr PROVE proc.jump[j].refcount \in Nat
  BY <1>1 DEF Process, JumpRec
<1>6. ASSUME NEW j \in Addr, InstallJump(j) PROVE IInv'
  <2>1. Keeps(proc, SetJump(proc, j))
    BY <1>1, <1>6, SetJumpKeeps DEF InstallJump
  <2>2. Keeps(proc, [proc EXCEPT !.jump[j].refcount = @ + 1])
    BY <1>4, <1>5
  <2> QED
    BY <1>1, <1>6, <2>1, <2>2, KeepsStep DEF InstallJump
<1>7. ASSUME NEW j \in Addr, DropJump(j) PROVE IInv'
  <2>1. Keeps(proc, DeleteJump(proc, j))
    BY <1>1, DeleteJumpKeeps
  <2>2. proc.jump[j].refcount > 1 => Keeps(proc, [proc EXCEPT !.jump[j].refcount = @ - 1])
    BY <1>4, <1>5
  <2> QED
    BY <1>1, <1>7, <2>1, <2>2, KeepsStep DEF DropJump
<1> QED
  BY <1>2, <1>3, <1>6, <1>7 DEF Internal

LEMMA SteppingIInv == IInv /\ Stepping => IInv'
<1> SUFFICES ASSUME IInv, Stepping PROVE IInv'
  OBVIOUS
<1>1. /\ Good(proc, stepping) /\ mode \in Kinds /\ accepted \subseteq Addr
      /\ stepping \in Addr \cup {NoStep} /\ SteppedIsMapped
      /\ program \in [Addr -> Data \cup {Absent}] /\ proc \in Process
  BY IInvIsGood DEF Good, GoodInv
<1>2. ASSUME NEW a \in Addr, NEW next \in Addr, StartStepOver(a, next) PROVE IInv'
  <2> DEFINE up == UninsertAt(proc, a)
             out == UninsertJumpAt(up, a)
  <2>1. Good(up, a) /\ Room(up) /\ up.mapped = proc.mapped
    BY <1>1, <1>2, UninsertAtGood DEF StartStepOver
  <2>2. Good(out, a) /\ Room(out) /\ out.mapped = proc.mapped
    BY <2>1, MoveJumpKeeps, KeepsGood, KeepsRoom DEF Good, Keeps
  <2> HIDE DEF out
  <2>3. CodeKind(next) \in Kinds
    BY <1>1, Constants DEF CodeKind
  <2>4. LET t == SetBreakpoint(out, "step", next, CodeKind(next)) IN Good(t, a) /\ t.mapped = out.mapped
    BY <2>2, <2>3, SetBreakpointGood
  <2>5. Good(proc', a) /\ proc'.mapped = proc.mapped /\ Accessible(proc, a) /\ stepping' = a
    BY <1>2, <2>2, <2>4 DEF StartStepOver, out
  <2> QED
    BY <1>1, <1>2, <2>5, IInvIsGood DEF StartStepOver, SteppedIsMapped, Accessible, GoodInv
<1>3. CASE FinishStepOver
  <2> DEFINE in == ReinsertAt(proc, stepping)
             t == ReinsertJumpAt(in, stepping)
  <2>1. stepping \in Addr /\ Accessible(proc, stepping)
    BY <1>1, <1>3 DEF FinishStepOver, SteppedIsMapped
  <2>2. Good(in, NoStep) /\ in.mapped = proc.mapped
    BY <1>1, <2>1, ReinsertAtGood
  <2> HIDE DEF in
  <2>3. Keeps(in, t)
    BY <2>1, <2>2, MoveJumpKeeps DEF Good
  <2>4. Keeps(in, DeleteStepBps(t))
    BY <2>3, DeleteStepBpsKeeps, KeepsTrans DEF Keeps
  <2>5. Good(DeleteStepBps(t), NoStep) /\ DeleteStepBps(t).mapped = proc.mapped
    BY <2>2, <2>4, KeepsGood DEF Keeps
  <2>6. Good(in, stepping)
    BY <2>2, NoneOut
  <2> HIDE DEF t
  <2>7. Good(proc', stepping') /\ proc'.mapped = proc.mapped /\ stepping' \in {stepping, NoStep}
    BY <1>3, <2>2, <2>5, <2>6 DEF FinishStepOver, in, t
  <2> QED
    BY <1>1, <1>3, <2>1, <2>7, IInvIsGood DEF FinishStepOver, SteppedIsMapped, Accessible, GoodInv
<1> QED
  BY <1>2, <1>3 DEF Stepping

LEMMA ProgramIInv == IInv /\ Program => IInv'
<1> SUFFICES ASSUME IInv, Program PROVE IInv'
  OBVIOUS
<1>1. /\ Good(proc, stepping) /\ mode \in Kinds /\ accepted \subseteq Addr
      /\ program \in [Addr -> Data \cup {Absent}]
  BY IInvIsGood DEF GoodInv
<1>2. ASSUME NEW mem \in [Addr -> Byte], NEW v \in BOOLEAN,
             proc' = [proc EXCEPT !.mapped = v, !.mem = mem]
      PROVE  Good(proc', stepping)
  <2>1. proc' \in Process /\ proc'.raw = proc.raw
    BY <1>1, <1>2 DEF Good, Process
  <2> QED
    BY <1>1, <2>1 DEF Good, OneEnabled, OutOnlyAt
<1>3. CASE Unload
  <2> DEFINE mem == [a \in Addr |-> IF a \in Lib THEN AnyData ELSE proc.mem[a]]
  <2>1. mem \in [Addr -> Byte]
    BY <1>1, Constants DEF Good, Process
  <2>2. proc' = [proc EXCEPT !.mapped = FALSE, !.mem = mem]
    BY <1>3 DEF Unload
  <2> HIDE DEF mem
  <2>3. Good(proc', stepping)
    BY <1>2, <2>1, <2>2
  <2>4. program' \in [Addr -> Data \cup {Absent}]
    BY <1>1, <1>3 DEF Unload
  <2> QED
    BY <1>1, <1>3, <2>3, <2>4, IInvIsGood DEF Unload, SteppedIsMapped, GoodInv
<1>4. ASSUME NEW code \in [Lib -> Data], NEW m \in Kinds, Load(code, m) PROVE IInv'
  <2> DEFINE mem == [a \in Addr |-> IF a \in Lib THEN code[a] ELSE proc.mem[a]]
  <2>1. mem \in [Addr -> Byte]
    BY <1>1, Constants DEF Good, Process
  <2>2. proc' = [proc EXCEPT !.mapped = TRUE, !.mem = mem]
    BY <1>4 DEF Load
  <2> HIDE DEF mem
  <2>3. Good(proc', stepping)
    BY <1>2, <2>1, <2>2
  <2>4. program' \in [Addr -> Data \cup {Absent}]
    BY <1>1, <1>4 DEF Load
  <2> QED
    BY <1>1, <1>4, <2>3, <2>4, IInvIsGood DEF Load, SteppedIsMapped, GoodInv
<1> QED
  BY <1>3, <1>4 DEF Program

LEMMA StutterIInv == IInv /\ UNCHANGED vars => IInv'
BY DEF IInv, TypeOK, OneEnabledPerAddress, OutOnlyWhileStepping, SteppedIsMapped, vars, Live,
       Accessible

LEMMA SpecIInv == Spec => []IInv
<1>1. IInv /\ [Next]_vars => IInv'
  BY ClientIInv, InternalIInv, SteppingIInv, ProgramIInv, StutterIInv DEF Next
<1> QED
  BY InitIInv, <1>1, PTL DEF Spec

-----------------------------------------------------------------------------
(* Every operation leaves well-formed lists of breakpoints and jumps, for  *)
(* any memory, any kinds and any number of breakpoints.                    *)
THEOREM TypeCorrect == Spec => []TypeOK
<1>1. IInv => TypeOK
  BY DEF IInv
<1> QED
  BY SpecIInv, <1>1, PTL

(* set_raw_breakpoint_at always finds the one raw breakpoint it should     *)
(* share, even when code is replaced below inserted breakpoints.           *)
THEOREM OneEnabledCorrect == Spec => []OneEnabledPerAddress
<1>1. IInv => OneEnabledPerAddress
  BY DEF IInv
<1> QED
  BY SpecIInv, <1>1, PTL

(* No breakpoint stays out of memory once the step over it is finished.    *)
THEOREM OutOnlyCorrect == Spec => []OutOnlyWhileStepping
<1>1. IInv => OutOnlyWhileStepping
  BY DEF IInv
<1> QED
  BY SpecIInv, <1>1, PTL

-----------------------------------------------------------------------------
(***************************************************************************)
(* NoDanglingBreakpoint of MemBreak, for every memory, library, set of     *)
(* kinds and number of breakpoints: the reference counts of raw            *)
(* breakpoints cover the high-level breakpoints that refer to them.        *)
(***************************************************************************)

Counted(s) == \A r \in RawIds : Cardinality(BpsOf(s, r)) <= s.raw[r].refcount

(* Of each raw breakpoint, t refers to no more than s does and counts no   *)
(* less; or t does not refer to it at all.                                 *)
Drops(s, t) ==
  \A r \in RawIds :
    \/ BpsOf(t, r) = {}
    \/ BpsOf(t, r) \subseteq BpsOf(s, r) /\ t.raw[r].refcount >= s.raw[r].refcount

LEMMA BpsOfFinite ==
  ASSUME NEW s, NEW r PROVE IsFiniteSet(BpsOf(s, r)) /\ Cardinality(BpsOf(s, r)) \in Nat
<1>1. IsFiniteSet(BpIds)
  BY MemBreakAssumption, FS_Interval DEF BpIds
<1>2. BpsOf(s, r) \subseteq BpIds
  BY DEF BpsOf, Bps
<1> QED
  BY <1>1, <1>2, FS_Subset, FS_CardinalityType

LEMMA SameBps ==
  ASSUME NEW s, NEW t, t.bp = s.bp, NEW r PROVE BpsOf(t, r) = BpsOf(s, r)
BY DEF BpsOf, Bps

LEMMA DropsCounted ==
  ASSUME NEW s \in Process, NEW t \in Process, Counted(s), Drops(s, t) PROVE Counted(t)
<1> SUFFICES ASSUME NEW r \in RawIds PROVE Cardinality(BpsOf(t, r)) <= t.raw[r].refcount
  BY DEF Counted
<1>1. t.raw[r].refcount \in Nat /\ s.raw[r].refcount \in Nat
  BY DEF Process, Raw
<1>2. CASE BpsOf(t, r) = {}
  BY <1>1, <1>2, FS_EmptySet
<1>3. CASE BpsOf(t, r) \subseteq BpsOf(s, r) /\ t.raw[r].refcount >= s.raw[r].refcount
  <2>1. Cardinality(BpsOf(t, r)) <= Cardinality(BpsOf(s, r))
    BY <1>3, BpsOfFinite, FS_Subset
  <2>2. Cardinality(BpsOf(s, r)) <= s.raw[r].refcount
    BY DEF Counted
  <2> QED
    BY <1>1, <1>3, <2>1, <2>2, BpsOfFinite
<1> QED
  BY <1>2, <1>3 DEF Drops

LEMMA DropsTrans ==
  ASSUME NEW s \in Process, NEW t \in Process, NEW u \in Process, Drops(s, t), Drops(t, u)
  PROVE  Drops(s, u)
<1>1. \A r \in RawIds : /\ s.raw[r].refcount \in Nat /\ t.raw[r].refcount \in Nat
                        /\ u.raw[r].refcount \in Nat
  BY DEF Process, Raw
<1> QED
  BY <1>1 DEF Drops

(* What leaves the high-level breakpoints and all counts alone.            *)
LEMMA SameDrops ==
  ASSUME NEW s \in Process, NEW t, t.bp = s.bp,
         \A r \in RawIds : t.raw[r].refcount = s.raw[r].refcount
  PROVE  Drops(s, t)
<1>1. \A r \in RawIds : s.raw[r].refcount \in Nat
  BY DEF Process, Raw
<1> QED
  BY <1>1, SameBps DEF Drops

-----------------------------------------------------------------------------
(* Validating and writing.                                                 *)

LEMMA TagDrops ==
  ASSUME NEW s \in Process, NEW R
  PROVE  /\ Drops(s, Tag(s, R))
         /\ \A r \in RawIds \ R : Tag(s, R).raw[r] = s.raw[r]
<1>1. Tag(s, R).bp = s.bp
  BY DEF Tag, Process
<1>2. \A r \in RawIds : Tag(s, R).raw[r].refcount = s.raw[r].refcount
  BY DEF Tag, Process, Raw
<1>3. \A r \in RawIds \ R : Tag(s, R).raw[r] = s.raw[r]
  BY DEF Tag, Process
<1> QED
  BY <1>1, <1>2, <1>3, SameDrops

(* All references to a raw breakpoint go at once, or none does.            *)
LEMMA DeleteDisabledDrops ==
  ASSUME NEW s \in Process
  PROVE  /\ Drops(s, DeleteDisabled(s))
         /\ \A r \in RawIds : s.raw[r].inserted # -1 => DeleteDisabled(s).raw[r] = s.raw[r]
<1> DEFINE t == DeleteDisabled(s)
           dead == {b \in Bps(s) : s.raw[s.bp[b].raw].inserted = -1}
           dropped(r) == Cardinality({b \in dead : s.bp[b].raw = r})
           bp == [b \in BpIds |-> IF b \in dead THEN FreeBp ELSE s.bp[b]]
           raw == [r \in RawIds |->
                     IF dropped(r) = 0 THEN s.raw[r]
                     ELSE IF dropped(r) >= s.raw[r].refcount THEN FreeRaw
                     ELSE [s.raw[r] EXCEPT !.refcount = @ - dropped(r)]]
<1>1. t = [s EXCEPT !.bp = bp, !.raw = raw]
  BY DEF DeleteDisabled
<1>2. ASSUME NEW r \in RawIds, s.raw[r].inserted = -1 PROVE BpsOf(t, r) = {}
  <2> SUFFICES ASSUME NEW b \in BpsOf(t, r) PROVE FALSE
    OBVIOUS
  <2>1. b \in BpIds /\ bp[b].type # "none" /\ bp[b].raw = r
    BY <1>1 DEF BpsOf, Bps, Process
  <2>2. bp[b] = IF b \in dead THEN FreeBp ELSE s.bp[b]
    BY <2>1
  <2>3. b \notin dead /\ s.bp[b].type # "none" /\ s.bp[b].raw = r
    BY <2>1, <2>2 DEF FreeBp
  <2> QED
    BY <1>2, <2>1, <2>3 DEF Bps
<1>3. ASSUME NEW r \in RawIds, s.raw[r].inserted # -1
      PROVE  t.raw[r] = s.raw[r] /\ BpsOf(t, r) \subseteq BpsOf(s, r)
  <2>1. {b \in dead : s.bp[b].raw = r} = {}
    BY <1>3
  <2>2. dropped(r) = 0
    BY <2>1, FS_EmptySet
  <2> HIDE DEF dropped
  <2>3. t.raw[r] = s.raw[r]
    BY <1>1, <2>2 DEF Process
  <2>4. t.bp = bp
    BY <1>1 DEF Process
  <2> HIDE DEF dead, t
  <2>5. \A b \in BpIds : t.bp[b] \in {s.bp[b], FreeBp}
    BY <2>4
  <2> QED
    BY <2>3, <2>5 DEF BpsOf, Bps, FreeBp
<1> HIDE DEF t
<1>4. \A r \in RawIds : s.raw[r].refcount \in Nat
  BY DEF Process, Raw
<1> QED
  BY <1>2, <1>3, <1>4 DEF Drops, t

(* Validation spares what is out of memory.                                *)
LEMMA ValidateDrops ==
  ASSUME NEW s \in Process, NEW C
  PROVE  /\ Drops(s, Validate(s, C))
         /\ \A r \in RawIds : s.raw[r].inserted = 0 => Validate(s, C).raw[r] = s.raw[r]
<1>1. CASE Gone(s, C) = {}
  BY <1>1, SameDrops DEF Validate
<1>2. CASE Gone(s, C) # {}
  <2> DEFINE t == Tag(s, Gone(s, C))
             u == DeleteDisabled(t)
  <2>1. t \in Process /\ u \in Process
    BY TagKeeps, DeleteDisabledKeeps DEF Keeps
  <2>2. \A r \in RawIds : s.raw[r].inserted = 0 => r \notin Gone(s, C)
    BY DEF Gone
  <2>3. Drops(s, t) /\ \A r \in RawIds : s.raw[r].inserted = 0 => t.raw[r] = s.raw[r]
    BY <2>2, TagDrops
  <2> HIDE DEF t
  <2>4. Drops(t, u) /\ \A r \in RawIds : t.raw[r].inserted # -1 => u.raw[r] = t.raw[r]
    BY <2>1, DeleteDisabledDrops
  <2> HIDE DEF u
  <2>5. Drops(s, u) /\ \A r \in RawIds : s.raw[r].inserted = 0 => u.raw[r] = s.raw[r]
    BY <2>1, <2>3, <2>4, DropsTrans
  <2> QED
    BY <1>2, <2>5 DEF Validate, t, u
<1> QED
  BY <1>1, <1>2

LEMMA ValidateAllDrops == ASSUME NEW s \in Process PROVE Drops(s, ValidateAll(s))
<1> DEFINE t == Tag(s, {r \in Gone(s, Addr) : BpsOf(s, r) # {}})
<1>1. Drops(s, t) /\ t \in Process
  BY TagDrops, TagKeeps DEF Keeps
<1> HIDE DEF t
<1>2. Drops(t, DeleteDisabled(t)) /\ DeleteDisabled(t) \in Process
  BY <1>1, DeleteDisabledDrops, DeleteDisabledKeeps DEF Keeps
<1> QED
  BY <1>1, <1>2, DropsTrans DEF ValidateAll, t

LEMMA WriteDrops ==
  ASSUME NEW s \in Process, NEW C, NEW new \in [C -> Byte] PROVE Drops(s, Write(s, C, new))
<1> DEFINE raw == [r \in RawIds |-> IF r \in Live(s) /\ s.raw[r].pc \in C
                                    THEN [s.raw[r] EXCEPT !.old_data = new[s.raw[r].pc]]
                                    ELSE s.raw[r]]
           jump == [j \in Addr |->
                      IF s.jump[j].refcount = 0 THEN s.jump[j]
                      ELSE [s.jump[j] EXCEPT !.shadow =
                              [i \in 0..(JumpLength - 1) |-> IF j + i \in C THEN new[j + i] ELSE @[i]]]]
           shadowed == [s EXCEPT !.raw = raw, !.jump = jump]
           valid == Validate(shadowed, C)
           t == Write(s, C, new)
<1>1. raw \in [RawIds -> Raw] /\ \A r \in RawIds : raw[r].refcount = s.raw[r].refcount
  BY DEF Process, Raw
<1>2. jump \in [Addr -> JumpRec]
  BY DEF Process, JumpRec
<1>3. t.bp = valid.bp /\ t.raw = valid.raw
  <2>1. valid \in Process
    <3>1. shadowed \in Process
      BY <1>1, <1>2, ZenonT(60) DEF Process
    <3> QED
      BY <3>1, ValidateKeeps DEF Keeps
  <2> HIDE DEF valid
  <2>2. t = valid \/ \E mem : t = [valid EXCEPT !.mem = mem]
    BY DEF Write, valid
  <2> QED
    BY <2>1, <2>2 DEF Process
<1> HIDE DEF raw, jump, t
<1>4. shadowed \in Process /\ Drops(s, shadowed)
  <2>1. shadowed \in Process
    BY <1>1, <1>2 DEF Process
  <2>2. shadowed.bp = s.bp /\ shadowed.raw = raw
    BY DEF Process
  <2> HIDE DEF shadowed
  <2> QED
    BY <1>1, <2>1, <2>2, SameDrops
<1> HIDE DEF shadowed
<1>5. Drops(shadowed, valid) /\ valid \in Process
  BY <1>4, ValidateDrops, ValidateKeeps DEF Keeps
<1> HIDE DEF valid
<1>6. Drops(s, valid)
  BY <1>4, <1>5, DropsTrans
<1> QED
  BY <1>3, <1>6 DEF Drops, BpsOf, Bps, t

-----------------------------------------------------------------------------
(* Raw breakpoints.                                                        *)

(* Insert keeps the count of what it inserts.                              *)
LEMMA InsertDrops ==
  ASSUME NEW s \in Process, NEW r \in RawIds
  PROVE  /\ Drops(s, Insert(s, r))
         /\ s.raw[r].inserted = 0 => Insert(s, r).raw[r].refcount = s.raw[r].refcount
<1> DEFINE a == s.raw[r].pc
           valid == Validate(s, {a})
           t == Insert(s, r)
           planted == [valid.raw[r] EXCEPT !.old_data = View(s, a), !.inserted = 1]
           raw == [valid.raw EXCEPT ![r] = planted]
           mem == [valid.mem EXCEPT ![a] = s.raw[r].kind]
<1>1. valid \in Process /\ Drops(s, valid) /\ (s.raw[r].inserted = 0 => valid.raw[r] = s.raw[r])
  BY ValidateKeeps, ValidateDrops DEF Keeps
<1>2. t = valid \/ t = [valid EXCEPT !.raw = raw, !.mem = mem]
  BY <1>1 DEF Insert, Process
<1> HIDE DEF valid, t, mem, a
<1>3. \A q \in RawIds : raw[q].refcount = valid.raw[q].refcount
  BY <1>1 DEF Process, Raw
<1> HIDE DEF raw
<1>4. t.bp = valid.bp /\ (t.raw = valid.raw \/ t.raw = raw)
  BY <1>1, <1>2 DEF Process
<1>5. \A q \in RawIds : t.raw[q].refcount = valid.raw[q].refcount
  BY <1>3, <1>4
<1>6. Drops(s, t)
  BY <1>1, <1>4, <1>5 DEF Drops, BpsOf, Bps
<1> QED
  BY <1>1, <1>5, <1>6 DEF t

LEMMA UninsertDrops ==
  ASSUME NEW s \in Process, NEW r \in RawIds PROVE Drops(s, Uninsert(s, r))
<1> DEFINE a == s.raw[r].pc
           lifted == [s EXCEPT !.raw[r].inserted = 0]
           out == Write(lifted, {a}, [x \in {a} |-> s.raw[r].old_data])
           back == [out EXCEPT !.raw[r].inserted = 1]
<1>1. lifted \in Process /\ Drops(s, lifted)
  <2>1. lifted \in Process /\ lifted.bp = s.bp
        /\ \A q \in RawIds : lifted.raw[q].refcount = s.raw[q].refcount
    BY ZenonT(60) DEF Process, Raw
  <2> QED
    BY <2>1, SameDrops
<1>2. [x \in {a} |-> s.raw[r].old_data] \in [{a} -> Byte]
  BY DEF Process, Raw
<1> HIDE DEF lifted
<1>3. out \in Process /\ Drops(lifted, out)
  BY <1>1, <1>2, WriteKeeps, WriteDrops DEF Keeps
<1> HIDE DEF out
<1>4. Drops(s, out)
  BY <1>1, <1>3, DropsTrans
<1>5. back.bp = out.bp /\ \A q \in RawIds : back.raw[q].refcount = out.raw[q].refcount
  BY <1>3 DEF Process, Raw
<1> HIDE DEF back
<1>6. Drops(s, back)
  BY <1>4, <1>5 DEF Drops, BpsOf, Bps
<1> QED
  BY <1>4, <1>6 DEF Uninsert, lifted, out, back

(* Deleting a high-level breakpoint drops its reference and its count.     *)
LEMMA DeleteCounted ==
  ASSUME NEW s \in Process, Counted(s), NEW b \in Bps(s) PROVE Counted(Delete(s, b))
<1> DEFINE r == s.bp[b].raw
           a == s.raw[r].pc
           unlinked == [s EXCEPT !.bp[b] = FreeBp]
           removed == [unlinked EXCEPT !.raw[r] = FreeRaw]
           out == Write(removed, {a}, [x \in {a} |-> s.raw[r].old_data])
           back == [out EXCEPT !.raw[r] = s.raw[r]]
           less == [unlinked EXCEPT !.raw[r].refcount = @ - 1]
<1>1. b \in BpIds /\ r \in RawIds /\ b \in BpsOf(s, r)
  BY DEF Bps, BpsOf, Process, Bp, FreeBp
<1>2. s.raw[r] \in Raw /\ s.raw[r].refcount \in Nat
  BY <1>1 DEF Process, Raw
<1>3. \A t : t.bp = unlinked.bp => \A q : BpsOf(t, q) = BpsOf(s, q) \ {b}
  <2>1. unlinked.bp = [s.bp EXCEPT ![b] = FreeBp]
    BY DEF Process
  <2>2. \A q \in BpIds : unlinked.bp[q] = IF q = b THEN FreeBp ELSE s.bp[q]
    BY <1>1, <2>1 DEF Process
  <2> HIDE DEF unlinked
  <2> QED
    BY <2>2 DEF BpsOf, Bps, FreeBp
<1>4. /\ Cardinality(BpsOf(s, r) \ {b}) = Cardinality(BpsOf(s, r)) - 1
      /\ Cardinality(BpsOf(s, r)) <= s.raw[r].refcount
  <2> HIDE DEF r
  <2>1. IsFiniteSet(BpsOf(s, r))
    BY BpsOfFinite
  <2>2. Cardinality(BpsOf(s, r) \ {b}) = Cardinality(BpsOf(s, r)) - 1
    BY <1>1, <2>1, FS_RemoveElement
  <2>3. Cardinality(BpsOf(s, r)) <= s.raw[r].refcount
    BY <1>1 DEF Counted
  <2> QED
    BY <2>2, <2>3
<1>5. CASE s.raw[r].refcount > 1
  <2>1. less.bp = unlinked.bp
        /\ \A q \in RawIds : less.raw[q].refcount = IF q = r THEN s.raw[q].refcount - 1
                                                             ELSE s.raw[q].refcount
    BY <1>1 DEF Process, Raw
  <2>2. \A q : BpsOf(less, q) = BpsOf(s, q) \ {b}
    BY <1>3, <2>1
  <2>3. \A q \in RawIds \ {r} : BpsOf(less, q) = BpsOf(s, q)
    BY <2>2 DEF BpsOf
  <2> HIDE DEF less
  <2>4. Cardinality(BpsOf(less, r)) <= less.raw[r].refcount
    <3>1. less.raw[r].refcount = s.raw[r].refcount - 1 /\ BpsOf(less, r) = BpsOf(s, r) \ {b}
      BY <1>1, <2>1, <2>2
    <3>2. Cardinality(BpsOf(s, r)) \in Nat
      BY BpsOfFinite
    <3> HIDE DEF r
    <3> QED
      BY <1>2, <1>4, <3>1, <3>2
  <2>5. \A q \in RawIds \ {r} : Cardinality(BpsOf(less, q)) <= less.raw[q].refcount
    BY <2>1, <2>3 DEF Counted
  <2>6. Counted(less)
    BY <2>4, <2>5 DEF Counted
  <2> QED
    BY <1>5, <2>6 DEF Delete, less
<1>6. CASE ~(s.raw[r].refcount > 1)
  <2>1. BpsOf(s, r) \ {b} = {}
    <3>1. Cardinality(BpsOf(s, r) \ {b}) <= 0
      BY <1>2, <1>4, <1>6, BpsOfFinite
    <3>2. IsFiniteSet(BpsOf(s, r) \ {b}) /\ Cardinality(BpsOf(s, r) \ {b}) \in Nat
      BY BpsOfFinite, FS_Subset, FS_CardinalityType
    <3> QED
      BY <3>1, <3>2, FS_EmptySet
  <2>2. removed \in Process /\ removed.bp = unlinked.bp
        /\ \A q \in RawIds \ {r} : removed.raw[q] = s.raw[q]
    <3>1. unlinked.bp \in [BpIds -> Bp \cup {FreeBp}]
      BY <1>1 DEF Process
    <3> QED
      BY <1>1, <3>1, Constants DEF Process
  <2>3. \A q : BpsOf(removed, q) = BpsOf(s, q) \ {b}
    BY <1>3, <2>2
  <2>4. Drops(s, removed) /\ BpsOf(removed, r) = {}
    <3>1. \A q \in RawIds : s.raw[q].refcount \in Nat
      BY DEF Process, Raw
    <3> QED
      BY <2>1, <2>2, <2>3, <3>1 DEF Drops
  <2>5. [x \in {a} |-> s.raw[r].old_data] \in [{a} -> Byte]
    BY <1>2 DEF Raw
  <2> HIDE DEF removed
  <2>6. Drops(removed, out) /\ out \in Process
    BY <2>2, <2>5, WriteDrops, WriteKeeps DEF Keeps
  <2> HIDE DEF out
  <2>7. Drops(s, out) /\ BpsOf(out, r) = {}
    BY <1>1, <2>2, <2>4, <2>6, DropsTrans DEF Drops
  <2>8. Drops(s, back) /\ back \in Process
    <3>1. back \in Process /\ back.bp = out.bp
          /\ \A q \in RawIds \ {r} : back.raw[q] = out.raw[q]
      BY <1>1, <1>2, <2>6 DEF Process
    <3> HIDE DEF back
    <3>2. \A q : BpsOf(back, q) = BpsOf(out, q)
      BY <3>1, SameBps
    <3> QED
      BY <1>1, <2>7, <3>1, <3>2 DEF Drops
  <2> HIDE DEF back
  <2>9. Counted(removed) /\ Counted(out) /\ Counted(back)
    BY <2>2, <2>4, <2>6, <2>7, <2>8, DropsCounted
  <2> QED
    BY <1>6, <2>9 DEF Delete, removed, out, back
<1> QED
  BY <1>5, <1>6

-----------------------------------------------------------------------------
(* Setting breakpoints.                                                    *)

(* set_raw_breakpoint_at counts one reference that nobody holds yet.       *)
Spare(s, r) == Cardinality(BpsOf(s, r)) + 1 <= s.raw[r].refcount

LEMMA InsertSpare ==
  ASSUME NEW s \in Process, NEW r \in RawIds, Counted(s), Spare(s, r),
         s.raw[r].inserted = 0, Accessible(s, s.raw[r].pc)
  PROVE  Counted(Insert(s, r)) /\ Spare(Insert(s, r), r)
<1> DEFINE t == Insert(s, r)
<1>1. t \in Process
  BY InsertChanges DEF Changes
<1>2. Drops(s, t) /\ t.raw[r].refcount = s.raw[r].refcount
  BY InsertDrops
<1> HIDE DEF t
<1>3. Cardinality(BpsOf(t, r)) <= Cardinality(BpsOf(s, r))
  BY <1>2, BpsOfFinite, FS_Subset, FS_EmptySet DEF Drops
<1>4. s.raw[r].refcount \in Nat /\ Cardinality(BpsOf(s, r)) \in Nat /\ Cardinality(BpsOf(t, r)) \in Nat
  BY BpsOfFinite DEF Process, Raw
<1>5. Spare(t, r)
  BY <1>2, <1>3, <1>4 DEF Spare
<1> QED
  BY <1>1, <1>2, <1>5, DropsCounted DEF t

LEMMA SetRawCounted ==
  ASSUME NEW s \in Process, Counted(s), Room(s), NEW a \in Addr, NEW k \in Kinds
  PROVE  LET set == SetRaw(s, a, k)
         IN  Counted(set.st) /\ (set.raw # 0 => set.raw \in RawIds /\ Spare(set.st, set.raw))
<1> DEFINE same == {r \in Enabled(s, a) : s.raw[r].kind = k}
           R == Enabled(s, a) \ same
           tagged == Tag(s, R)
           r == IF same # {} THEN CHOOSE q \in same : TRUE ELSE CHOOSE q \in RawIds \ Live(s) : TRUE
           new == [FreeRaw EXCEPT !.pc = a, !.kind = k, !.refcount = 1]
           linked == IF same # {} THEN [tagged EXCEPT !.raw[r].refcount = @ + 1]
                     ELSE [tagged EXCEPT !.raw[r] = new]
           valid == Validate(tagged, {a})
<1>1. r \in RawIds /\ (same # {} => r \in same) /\ (same = {} => r \notin Live(s))
  BY DEF Room, Live, Enabled, At
<1> HIDE DEF r
<1>2. tagged \in Process /\ Drops(s, tagged) /\ \A q \in RawIds \ R : tagged.raw[q] = s.raw[q]
  BY TagKeeps, TagDrops DEF Keeps
<1>3. tagged.mapped = s.mapped /\ tagged.bp = s.bp
      /\ \A q \in RawIds : tagged.raw[q].refcount = s.raw[q].refcount
  BY DEF Tag, Process, Raw
<1>4. valid \in Process /\ Counted(valid)
  <2>1. Counted(tagged)
    BY <1>2, DropsCounted
  <2> HIDE DEF tagged
  <2> QED
    BY <1>2, <2>1, ValidateKeeps, ValidateDrops, DropsCounted DEF Keeps
<1>5. same # {} => s.raw[r].pc = a /\ r \notin R
  BY <1>1 DEF Enabled, At
<1>6. same = {} => s.raw[r].refcount = 0
  BY <1>1 DEF Live, Process, Raw
<1> HIDE DEF tagged, R, valid
<1>7. new \in Raw /\ new.pc = a /\ new.inserted = 0 /\ new.refcount = 1
  BY Constants DEF FreeRaw, Raw
<1> HIDE DEF new
<1>8. /\ linked \in Process /\ linked.bp = s.bp /\ linked.mapped = s.mapped
      /\ \A q \in RawIds \ {r} : linked.raw[q].refcount = s.raw[q].refcount
      /\ linked.raw[r].refcount = s.raw[r].refcount + 1
      /\ linked.raw[r].pc = a
      /\ same # {} => linked.raw[r].inserted = s.raw[r].inserted
      /\ same = {} => linked.raw[r].inserted = 0
  <2>1. CASE same # {}
    <3> DEFINE raw == [tagged.raw EXCEPT ![r].refcount = @ + 1]
    <3>1. raw \in [RawIds -> Raw]
          /\ raw[r].refcount = s.raw[r].refcount + 1
          /\ raw[r].pc = a /\ raw[r].inserted = s.raw[r].inserted
          /\ \A q \in RawIds \ {r} : raw[q].refcount = s.raw[q].refcount
      BY <1>1, <1>2, <1>3, <1>5, <2>1 DEF Process, Raw
    <3> HIDE DEF raw
    <3>2. linked = [tagged EXCEPT !.raw = raw]
      BY <2>1 DEF raw
    <3> QED
      BY <1>2, <1>3, <2>1, <3>1, <3>2 DEF Process
  <2>2. CASE same = {}
    <3> DEFINE raw == [tagged.raw EXCEPT ![r] = new]
    <3>1. raw \in [RawIds -> Raw] /\ raw[r] = new
          /\ \A q \in RawIds \ {r} : raw[q].refcount = s.raw[q].refcount
      BY <1>1, <1>2, <1>3, <1>7 DEF Process
    <3> HIDE DEF raw
    <3>2. linked = [tagged EXCEPT !.raw = raw]
      BY <2>2 DEF raw
    <3> HIDE DEF linked, same
    <3>3. /\ linked \in Process /\ linked.raw = raw
          /\ linked.bp = tagged.bp /\ linked.mapped = tagged.mapped
      BY <1>2, <3>1, <3>2 DEF Process
    <3> QED
      BY <1>3, <1>6, <1>7, <2>2, <3>1, <3>3
  <2> QED
    BY <2>1, <2>2
<1> HIDE DEF linked
<1>9. Counted(linked) /\ Spare(linked, r)
  <2>1. \A q : BpsOf(linked, q) = BpsOf(s, q)
    BY <1>8, SameBps
  <2>2. \A q \in RawIds : Cardinality(BpsOf(s, q)) <= s.raw[q].refcount
                          /\ Cardinality(BpsOf(s, q)) \in Nat /\ s.raw[q].refcount \in Nat
    BY BpsOfFinite DEF Counted, Process, Raw
  <2>3. \A q \in RawIds : Cardinality(BpsOf(linked, q)) <= linked.raw[q].refcount
    BY <1>1, <1>8, <2>1, <2>2
  <2> QED
    BY <1>1, <1>8, <2>1, <2>2, <2>3 DEF Counted, Spare
<1>10. ASSUME same = {} \/ s.raw[r].inserted = 0, Accessible(s, a)
       PROVE  Counted(Insert(linked, r)) /\ Spare(Insert(linked, r), r)
  <2>1. linked.raw[r].inserted = 0 /\ Accessible(linked, linked.raw[r].pc)
    BY <1>8, <1>10 DEF Accessible
  <2> QED
    BY <1>1, <1>8, <1>9, <2>1, InsertSpare
<1> DEFINE set == SetRaw(s, a, k)
<1> HIDE DEF same
<1>11. \/ set = [st |-> linked, raw |-> r]
       \/ set = [st |-> Insert(linked, r), raw |-> r] /\ (same = {} \/ s.raw[r].inserted = 0) /\ Accessible(s, a)
       \/ set = [st |-> valid, raw |-> 0]
  <2>1. set = CASE same # {} /\ s.raw[r].inserted = 1 -> [st |-> linked, raw |-> r]
                [] (same = {} \/ s.raw[r].inserted = 0) /\ Accessible(s, a)
                     -> [st |-> Insert(linked, r), raw |-> r]
                [] OTHER -> [st |-> valid, raw |-> 0]
    BY DEF SetRaw, linked, r, tagged, R, new, valid, same
  <2> HIDE DEF set
  <2> QED
    BY <2>1
<1> HIDE DEF set
<1> QED
  BY <1>1, <1>4, <1>9, <1>10, <1>11 DEF set

LEMMA SetBreakpointCounted ==
  ASSUME NEW s, NEW p, Good(s, p), Counted(s), Room(s), NEW a \in Addr, NEW k \in Kinds,
         NEW type \in {"gdb", "other", "step"}
  PROVE  Counted(SetBreakpoint(s, type, a, k))
<1> DEFINE set == SetRaw(s, a, k)
           b == CHOOSE q \in BpIds \ Bps(set.st) : TRUE
           t == [set.st EXCEPT !.bp[b] = [type |-> type, raw |-> set.raw]]
<1>1. /\ set.st \in Process /\ Counted(set.st)
      /\ \A q \in BpIds : set.st.bp[q] \in {s.bp[q], FreeBp}
      /\ set.raw # 0 => set.raw \in RawIds /\ Spare(set.st, set.raw)
  BY SetRawGood, SetRawCounted DEF Good
<1> HIDE DEF set
<1>2. b \in BpIds /\ b \notin Bps(set.st)
  BY <1>1 DEF Room, Bps, FreeBp
<1> HIDE DEF b
<1>3. ASSUME set.raw # 0 PROVE Counted(t)
  <2>1. t.raw = set.st.raw /\ t.bp = [set.st.bp EXCEPT ![b] = [type |-> type, raw |-> set.raw]]
    BY <1>1 DEF Process
  <2>2. \A q \in BpIds : t.bp[q] = IF q = b THEN [type |-> type, raw |-> set.raw] ELSE set.st.bp[q]
    BY <1>1, <1>2, <2>1 DEF Process
  <2> HIDE DEF t
  <2>3. BpsOf(t, set.raw) = BpsOf(set.st, set.raw) \cup {b}
    BY <1>2, <2>2 DEF BpsOf, Bps
  <2>4. \A q \in RawIds \ {set.raw} : BpsOf(t, q) = BpsOf(set.st, q)
    BY <1>2, <2>2 DEF BpsOf, Bps
  <2>5. Cardinality(BpsOf(t, set.raw)) = Cardinality(BpsOf(set.st, set.raw)) + 1
    <3>1. IsFiniteSet(BpsOf(set.st, set.raw)) /\ b \notin BpsOf(set.st, set.raw)
      BY <1>2, BpsOfFinite DEF BpsOf
    <3> QED
      BY <2>3, <3>1, FS_AddElement
  <2> QED
    BY <1>1, <1>3, <2>1, <2>4, <2>5 DEF Counted, Spare
<1> QED
  BY <1>1, <1>3 DEF SetBreakpoint, set, b

LEMMA SetGdbCounted ==
  ASSUME NEW s, NEW p, Good(s, p), Counted(s), Room(s), NEW a \in Addr, NEW k \in Kinds
  PROVE  Counted(SetGdb(s, a, k))
<1> DEFINE b == CHOOSE q \in GdbBpsAt(s, a) : TRUE
           tagged == Tag(s, {s.bp[b].raw})
           deleted == Delete(tagged, b)
           valid == ValidateAll(s)
<1> s \in Process
  BY DEF Good
<1>1. ASSUME GdbBpsAt(s, a) # {} PROVE Good(deleted, p) /\ Counted(deleted) /\ Room(deleted)
  <2>1. b \in Bps(s)
    BY <1>1 DEF GdbBpsAt
  <2> HIDE DEF b
  <2>2. Keeps(s, tagged) /\ tagged.bp = s.bp /\ tagged \in Process
    <3>1. Keeps(s, tagged)
      BY TagKeeps
    <3>2. tagged.bp = s.bp
      BY DEF Tag, Process
    <3> QED
      BY <3>1, <3>2 DEF Keeps
  <2>3. Counted(tagged)
    BY <2>2, TagDrops, DropsCounted DEF Good
  <2>4. b \in Bps(tagged)
    BY <2>1, <2>2 DEF Bps
  <2> HIDE DEF tagged
  <2>5. Keeps(s, deleted)
    BY <2>2, <2>4, DeleteKeeps, KeepsTrans
  <2> QED
    BY <2>2, <2>3, <2>4, <2>5, DeleteCounted, KeepsGood, KeepsRoom
<1>2. Good(valid, p) /\ Counted(valid) /\ Room(valid)
  BY ValidateAllKeeps, ValidateAllDrops, DropsCounted, KeepsGood, KeepsRoom DEF Keeps, Good
<1> HIDE DEF b, tagged, deleted, valid
<1>3. ASSUME NEW u, Good(u, p), Counted(u), Room(u) PROVE Counted(SetBreakpoint(u, "gdb", a, k))
  BY <1>3, SetBreakpointCounted
<1> QED
  BY <1>1, <1>2, <1>3 DEF SetGdb, b, tagged, deleted, valid

-----------------------------------------------------------------------------
(* Deleting, moving and rewriting what is there.                           *)

LEMMA DeleteGdbCounted ==
  ASSUME NEW s \in Process, Counted(s), NEW a, NEW k PROVE Counted(DeleteGdb(s, a, k))
<1> DEFINE mine == {b \in GdbBpsAt(s, a) : s.raw[s.bp[b].raw].kind = k}
           b == CHOOSE b \in mine : TRUE
<1>1. mine # {} => b \in Bps(s)
  BY DEF GdbBpsAt
<1> HIDE DEF b
<1> QED
  BY <1>1, DeleteCounted DEF DeleteGdb, b

LEMMA DeleteStepBpsCounted ==
  ASSUME NEW s \in Process, Counted(s) PROVE Counted(DeleteStepBps(s))
<1> DEFINE b == CHOOSE b \in StepBps(s) : TRUE
<1>1. StepBps(s) # {} => b \in Bps(s)
  BY DEF StepBps
<1> HIDE DEF b
<1> QED
  BY <1>1, DeleteCounted DEF DeleteStepBps, b

LEMMA UninsertAtCounted ==
  ASSUME NEW s, Good(s, NoStep), Room(s), Counted(s), NEW a \in Addr
  PROVE  Counted(UninsertAt(s, a))
<1> DEFINE r == CHOOSE r \in InsertedAt(s, a) : TRUE
<1> s \in Process
  BY DEF Good
<1>1. InsertedAt(s, a) # {} => r \in RawIds
  BY DEF InsertedAt, At, Live
<1>2. UninsertAt(s, a) \in Process
  BY UninsertAtGood DEF Good
<1> HIDE DEF r
<1> QED
  BY <1>1, <1>2, UninsertDrops, DropsCounted DEF UninsertAt, r

LEMMA ReinsertAtCounted ==
  ASSUME NEW s, NEW p \in Addr, Good(s, p), Accessible(s, p), Counted(s)
  PROVE  Counted(ReinsertAt(s, p))
<1> DEFINE r == CHOOSE r \in OutAt(s, p) : TRUE
<1> s \in Process
  BY DEF Good
<1>1. OutAt(s, p) # {} => r \in RawIds
  BY DEF OutAt, At, Live
<1>2. ReinsertAt(s, p) \in Process
  BY ReinsertAtGood DEF Good
<1> HIDE DEF r
<1> QED
  BY <1>1, <1>2, InsertDrops, DropsCounted DEF ReinsertAt, r

(* What becomes of jumps touches no count of a breakpoint.                 *)
LEMMA RewriteCounted ==
  ASSUME NEW s, Counted(s), NEW t \in Process, t.bp = s.bp, t.raw = s.raw,
         NEW C, NEW bytes \in [C -> Byte]
  PROVE  Counted(Write(t, C, bytes))
<1>1. Counted(t)
  BY DEF Counted, BpsOf, Bps
<1> QED
  BY <1>1, WriteKeeps, WriteDrops, DropsCounted DEF Keeps

LEMMA JumpSame ==
  ASSUME NEW s \in Process, NEW j, NEW new
  PROVE  LET t == [s EXCEPT !.jump[j] = new] IN t.bp = s.bp /\ t.raw = s.raw
BY DEF Process

LEMMA SetJumpCounted ==
  ASSUME NEW s \in Process, Counted(s), NEW j \in Addr, Cells(j) \subseteq Addr
  PROVE  Counted(SetJump(s, j))
<1> DEFINE valid == Validate(s, Cells(j))
           old == [a \in Cells(j) |-> View(s, a)]
           new == [inserted |-> TRUE, refcount |-> 1,
                   shadow |-> [i \in 0..(JumpLength - 1) |-> old[j + i]]]
           linked == [valid EXCEPT !.jump[j] = new]
<1>1. valid \in Process /\ Counted(valid)
  BY ValidateKeeps, ValidateDrops, DropsCounted DEF Keeps
<1>2. old \in [Cells(j) -> Byte]
  BY ViewType
<1>3. \A i \in 0..(JumpLength - 1) : j + i \in Cells(j)
  BY Constants, MemBreakAssumption DEF Cells
<1> HIDE DEF valid, old
<1>4. new \in JumpRec
  BY <1>2, <1>3 DEF JumpRec
<1> HIDE DEF new
<1>5. linked \in Process
  BY <1>1, <1>4, JumpKeeps DEF Keeps
<1>6. linked.bp = valid.bp /\ linked.raw = valid.raw
  BY <1>1, JumpSame
<1> HIDE DEF linked
<1> QED
  BY <1>1, <1>2, <1>5, <1>6, RewriteCounted DEF SetJump, valid, old, new, linked

LEMMA DeleteJumpCounted ==
  ASSUME NEW s \in Process, Counted(s), NEW j \in Addr PROVE Counted(DeleteJump(s, j))
<1> DEFINE t == [s EXCEPT !.jump[j] = FreeJump]
<1>1. t \in Process /\ t.bp = s.bp /\ t.raw = s.raw
  BY Constants, JumpKeeps, JumpSame DEF Keeps
<1> HIDE DEF t
<1> QED
  BY <1>1, ShadowType, RewriteCounted DEF DeleteJump, t

LEMMA MoveJumpCounted ==
  ASSUME NEW s \in Process, Counted(s), NEW j \in Addr
  PROVE  Counted(UninsertJumpAt(s, j)) /\ Counted(ReinsertJumpAt(s, j))
<1>1. ASSUME NEW v \in BOOLEAN
      PROVE  LET t == [s EXCEPT !.jump[j].inserted = v]
             IN  t \in Process /\ t.bp = s.bp /\ t.raw = s.raw
  BY ZenonT(60) DEF Process, JumpRec
<1> QED
  BY <1>1, ShadowType, RewriteCounted DEF UninsertJumpAt, ReinsertJumpAt

-----------------------------------------------------------------------------
(* The steps.                                                              *)

LEMMA ClientCounted == IInv /\ Counted(proc) /\ Client => Counted(proc')
<1> SUFFICES ASSUME IInv, Counted(proc), Client PROVE Counted(proc')
  OBVIOUS
<1>1. Good(proc, stepping) /\ mode \in Kinds /\ proc \in Process
  BY IInvIsGood DEF Good, GoodInv
<1>2. ASSUME NEW a \in Addr, ClientSet(a) PROVE Counted(proc')
  <2>1. CodeKind(a) \in Kinds
    BY <1>1, Constants DEF CodeKind
  <2> QED
    BY <1>1, <1>2, <2>1, SetGdbCounted DEF ClientSet
<1>3. ASSUME NEW a \in Addr, ClientDelete(a) PROVE Counted(proc')
  BY <1>1, <1>3, DeleteGdbCounted DEF ClientDelete
<1>4. ASSUME NEW a \in Addr, NEW d \in Data, ClientWrite(a, d) PROVE Counted(proc')
  <2>1. [x \in {a} |-> d] \in [{a} -> Byte]
    BY Constants
  <2> QED
    BY <1>1, <1>4, <2>1, RewriteCounted DEF ClientWrite
<1>5. ASSUME NEW a \in Addr, ClientRead(a) PROVE Counted(proc')
  BY <1>1, <1>5, ValidateKeeps, ValidateDrops, DropsCounted DEF ClientRead, Keeps
<1>6. CASE ClientSymbols
  BY <1>1, <1>6, ValidateAllKeeps, ValidateAllDrops, DropsCounted DEF ClientSymbols, Keeps
<1> QED
  BY <1>2, <1>3, <1>4, <1>5, <1>6 DEF Client

LEMMA InternalCounted == IInv /\ Counted(proc) /\ Internal => Counted(proc')
<1> SUFFICES ASSUME IInv, Counted(proc), Internal PROVE Counted(proc')
  OBVIOUS
<1>1. Good(proc, stepping) /\ mode \in Kinds /\ proc \in Process
  BY IInvIsGood DEF Good, GoodInv
<1>2. ASSUME NEW a \in Addr, SetInternal(a) PROVE Counted(proc')
  <2>1. CodeKind(a) \in Kinds
    BY <1>1, Constants DEF CodeKind
  <2> QED
    BY <1>1, <1>2, <2>1, SetBreakpointCounted DEF SetInternal
<1>3. ASSUME NEW b \in BpIds, DeleteInternal(b) PROVE Counted(proc')
  <2>1. b \in Bps(proc)
    BY <1>3 DEF DeleteInternal, Bps
  <2> QED
    BY <1>1, <1>3, <2>1, DeleteCounted DEF DeleteInternal
<1>4. ASSUME NEW j, NEW n PROVE Counted([proc EXCEPT !.jump[j].refcount = n])
  <2> DEFINE t == [proc EXCEPT !.jump[j].refcount = n]
  <2>1. t.bp = proc.bp /\ t.raw = proc.raw
    BY <1>1 DEF Process
  <2> QED
    BY <2>1 DEF Counted, BpsOf, Bps
<1>5. ASSUME NEW j \in Addr, InstallJump(j) PROVE Counted(proc')
  BY <1>1, <1>4, <1>5, SetJumpCounted DEF InstallJump
<1>6. ASSUME NEW j \in Addr, DropJump(j) PROVE Counted(proc')
  BY <1>1, <1>4, <1>6, DeleteJumpCounted DEF DropJump
<1> QED
  BY <1>2, <1>3, <1>5, <1>6 DEF Internal

LEMMA SteppingCounted == IInv /\ Counted(proc) /\ Stepping => Counted(proc')
<1> SUFFICES ASSUME IInv, Counted(proc), Stepping PROVE Counted(proc')
  OBVIOUS
<1>1. /\ Good(proc, stepping) /\ mode \in Kinds /\ proc \in Process
      /\ stepping \in Addr \cup {NoStep} /\ SteppedIsMapped
  BY IInvIsGood DEF Good, GoodInv
<1>2. ASSUME NEW a \in Addr, NEW next \in Addr, StartStepOver(a, next) PROVE Counted(proc')
  <2> DEFINE up == UninsertAt(proc, a)
             out == UninsertJumpAt(up, a)
  <2>1. Good(up, a) /\ Room(up) /\ Counted(up)
    BY <1>1, <1>2, UninsertAtGood, UninsertAtCounted DEF StartStepOver
  <2> HIDE DEF up
  <2>2. Good(out, a) /\ Room(out) /\ Counted(out)
    BY <2>1, MoveJumpKeeps, MoveJumpCounted, KeepsGood, KeepsRoom DEF Good, Keeps
  <2> HIDE DEF out
  <2>3. CodeKind(next) \in Kinds
    BY <1>1, Constants DEF CodeKind
  <2>4. Counted(SetBreakpoint(out, "step", next, CodeKind(next)))
    BY <2>2, <2>3, SetBreakpointCounted
  <2> QED
    BY <1>2, <2>2, <2>4 DEF StartStepOver, up, out
<1>3. CASE FinishStepOver
  <2> DEFINE in == ReinsertAt(proc, stepping)
             t == ReinsertJumpAt(in, stepping)
  <2>1. stepping \in Addr /\ Accessible(proc, stepping)
    BY <1>1, <1>3 DEF FinishStepOver, SteppedIsMapped
  <2>2. in \in Process /\ Counted(in)
    BY <1>1, <2>1, ReinsertAtGood, ReinsertAtCounted DEF Good
  <2> HIDE DEF in
  <2>3. t \in Process /\ Counted(t)
    BY <2>1, <2>2, MoveJumpKeeps, MoveJumpCounted DEF Keeps
  <2> HIDE DEF t
  <2>4. Counted(DeleteStepBps(t))
    BY <2>3, DeleteStepBpsCounted
  <2> QED
    BY <1>3, <2>2, <2>4 DEF FinishStepOver, in, t
<1> QED
  BY <1>2, <1>3 DEF Stepping

LEMMA ProgramCounted == IInv /\ Counted(proc) /\ Program => Counted(proc')
<1> SUFFICES ASSUME IInv, Counted(proc), Program PROVE Counted(proc')
  OBVIOUS
<1>1. proc \in Process
  BY IInvIsGood DEF Good, GoodInv
<1>2. ASSUME NEW v, NEW mem, proc' = [proc EXCEPT !.mapped = v, !.mem = mem]
      PROVE  Counted(proc')
  <2>1. proc'.bp = proc.bp /\ proc'.raw = proc.raw
    BY <1>1, <1>2 DEF Process
  <2> QED
    BY <2>1 DEF Counted, BpsOf, Bps
<1>3. CASE Unload
  BY <1>2, <1>3 DEF Unload
<1>4. ASSUME NEW code \in [Lib -> Data], NEW m \in Kinds, Load(code, m) PROVE Counted(proc')
  BY <1>2, <1>4 DEF Load
<1> QED
  BY <1>3, <1>4 DEF Program

LEMMA InitCounted == Init => Counted(proc)
<1> SUFFICES ASSUME Init, NEW r \in RawIds PROVE Cardinality(BpsOf(proc, r)) <= proc.raw[r].refcount
  BY DEF Counted
<1>1. BpsOf(proc, r) = {} /\ proc.raw[r].refcount = 0
  BY DEF Init, BpsOf, Bps, FreeBp, FreeRaw
<1> QED
  BY <1>1, FS_EmptySet

(* No order of setting, sharing, validating, stepping over and deleting,   *)
(* with code that comes and goes, frees a raw breakpoint in use.           *)
THEOREM NoDanglingCorrect == Spec => []NoDanglingBreakpoint
<1> DEFINE CInv == Counted(proc)
<1>1. Init => CInv
  BY InitCounted
<1>2. IInv /\ CInv /\ [Next]_vars => CInv'
  <2>1. IInv /\ CInv /\ Next => CInv'
    BY ClientCounted, InternalCounted, SteppingCounted, ProgramCounted DEF Next, Counted
  <2>2. CInv /\ UNCHANGED vars => CInv'
    BY DEF vars, Counted
  <2> QED
    BY <2>1, <2>2
<1>3. CInv <=> NoDanglingBreakpoint
  BY DEF Counted, NoDanglingBreakpoint
<1> HIDE DEF CInv
<1> QED
  BY SpecIInv, <1>1, <1>2, <1>3, PTL DEF Spec

-----------------------------------------------------------------------------
(* The counts are exact: of a raw breakpoint that is not known to be gone, *)
(* in code that is mapped, every reference belongs to a high-level one.    *)
Held(s) == {r \in Live(s) : s.raw[r].inserted >= 0 /\ Accessible(s, s.raw[r].pc)}

(* One reference to r0 may not have its high-level breakpoint yet.         *)
Owes(s, r0) ==
  \A r \in Held(s) :
    s.raw[r].refcount <= Cardinality(BpsOf(s, r)) + (IF r = r0 THEN 1 ELSE 0)
Owned(s) == Owes(s, 0)

(* What is held in t was so in s, by no other breakpoints and no less.     *)
Sheds(s, t) ==
  \A r \in Held(t) : /\ r \in Held(s) /\ t.raw[r].refcount <= s.raw[r].refcount
                    /\ BpsOf(s, r) \subseteq BpsOf(t, r)

LEMMA ShedsOwes ==
  ASSUME NEW s \in Process, NEW t \in Process, Sheds(s, t), NEW r0, Owes(s, r0) PROVE Owes(t, r0)
<1> DEFINE more(r) == IF r = r0 THEN 1 ELSE 0
<1>1. \A r : more(r) \in Nat
  OBVIOUS
<1> SUFFICES ASSUME NEW r \in Held(t) PROVE t.raw[r].refcount <= Cardinality(BpsOf(t, r)) + more(r)
  BY DEF Owes
<1>2. r \in RawIds /\ t.raw[r].refcount \in Nat /\ s.raw[r].refcount \in Nat
  BY DEF Held, Live, Process, Raw
<1>3. s.raw[r].refcount <= Cardinality(BpsOf(s, r)) + more(r)
  BY DEF Sheds, Owes
<1> HIDE DEF more
<1>4. Cardinality(BpsOf(s, r)) <= Cardinality(BpsOf(t, r))
  BY BpsOfFinite, FS_Subset DEF Sheds
<1>5. Cardinality(BpsOf(s, r)) \in Nat /\ Cardinality(BpsOf(t, r)) \in Nat /\ more(r) \in Nat
  BY <1>1, BpsOfFinite
<1> QED
  BY <1>2, <1>3, <1>4, <1>5 DEF Sheds

LEMMA ShedsTrans ==
  ASSUME NEW s \in Process, NEW t \in Process, NEW u \in Process, Sheds(s, t), Sheds(t, u)
  PROVE  Sheds(s, u)
<1>1. \A r \in RawIds : /\ s.raw[r].refcount \in Nat /\ t.raw[r].refcount \in Nat
                        /\ u.raw[r].refcount \in Nat
  BY DEF Process, Raw
<1> QED
  BY <1>1 DEF Sheds, Held, Live

LEMMA SameSheds ==
  ASSUME NEW s \in Process, NEW t, t.bp = s.bp, t.mapped = s.mapped,
         \A r \in RawIds : /\ t.raw[r].refcount = s.raw[r].refcount /\ t.raw[r].pc = s.raw[r].pc
                           /\ t.raw[r].inserted >= 0 => s.raw[r].inserted >= 0
  PROVE  Sheds(s, t)
<1>1. \A r \in RawIds : s.raw[r].refcount \in Nat
  BY DEF Process, Raw
<1> QED
  BY <1>1, SameBps DEF Sheds, Held, Live, Accessible

LEMMA TagSheds == ASSUME NEW s \in Process, NEW R PROVE Sheds(s, Tag(s, R))
<1> DEFINE t == Tag(s, R)
<1>1. /\ t.bp = s.bp /\ t.mapped = s.mapped
      /\ \A r \in RawIds : /\ t.raw[r].refcount = s.raw[r].refcount /\ t.raw[r].pc = s.raw[r].pc
                           /\ t.raw[r].inserted >= 0 => s.raw[r].inserted >= 0
  BY DEF Tag, Process, Raw
<1> HIDE DEF t
<1> QED
  BY <1>1, SameSheds DEF t

LEMMA DeleteDisabledSheds == ASSUME NEW s \in Process PROVE Sheds(s, DeleteDisabled(s))
<1> DEFINE t == DeleteDisabled(s)
           dead == {b \in Bps(s) : s.raw[s.bp[b].raw].inserted = -1}
<1>1. Keeps(s, t) /\ \A r \in RawIds : s.raw[r].inserted # -1 => t.raw[r] = s.raw[r]
  BY DeleteDisabledKeeps, DeleteDisabledDrops
<1>2. \A b \in BpIds : b \notin dead => t.bp[b] = s.bp[b]
  BY DEF DeleteDisabled, Process
<1> HIDE DEF t
<1> SUFFICES ASSUME NEW r \in Held(t)
             PROVE  /\ r \in Held(s) /\ t.raw[r].refcount <= s.raw[r].refcount
                    /\ BpsOf(s, r) \subseteq BpsOf(t, r)
  BY DEF Sheds, t
<1>3. r \in RawIds /\ t.raw[r].refcount > 0 /\ t.raw[r].inserted >= 0 /\ Accessible(t, t.raw[r].pc)
  BY DEF Held, Live
<1>4. s.raw[r].inserted # -1 /\ t.raw[r] = s.raw[r]
  BY <1>1, <1>3 DEF Keeps
<1>5. r \in Held(s) /\ t.raw[r].refcount <= s.raw[r].refcount
  <2>1. s.raw[r].refcount \in Nat
    BY <1>3 DEF Process, Raw
  <2> QED
    BY <1>1, <1>3, <1>4, <2>1 DEF Held, Live, Accessible, Keeps
<1>6. \A b \in BpsOf(s, r) : b \in BpIds /\ b \notin dead
  BY <1>4 DEF BpsOf, Bps
<1> QED
  BY <1>2, <1>5, <1>6 DEF BpsOf, Bps

LEMMA DisabledSheds == ASSUME NEW s \in Process, NEW R PROVE Sheds(s, DeleteDisabled(Tag(s, R)))
<1>1. Tag(s, R) \in Process /\ Sheds(s, Tag(s, R))
  BY TagKeeps, TagSheds DEF Keeps
<1> QED
  BY <1>1, DeleteDisabledSheds, DeleteDisabledKeeps, ShedsTrans DEF Keeps

LEMMA ValidateSheds ==
  ASSUME NEW s \in Process PROVE (\A C : Sheds(s, Validate(s, C))) /\ Sheds(s, ValidateAll(s))
<1>1. Sheds(s, s)
  BY SameSheds
<1> QED
  BY <1>1, DisabledSheds DEF Validate, ValidateAll

LEMMA WriteSheds ==
  ASSUME NEW s \in Process, NEW C, NEW new \in [C -> Byte] PROVE Sheds(s, Write(s, C, new))
<1> DEFINE raw == [r \in RawIds |-> IF r \in Live(s) /\ s.raw[r].pc \in C
                                    THEN [s.raw[r] EXCEPT !.old_data = new[s.raw[r].pc]]
                                    ELSE s.raw[r]]
           jump == [j \in Addr |->
                      IF s.jump[j].refcount = 0 THEN s.jump[j]
                      ELSE [s.jump[j] EXCEPT !.shadow =
                              [i \in 0..(JumpLength - 1) |-> IF j + i \in C THEN new[j + i] ELSE @[i]]]]
           shadowed == [s EXCEPT !.raw = raw, !.jump = jump]
           valid == Validate(shadowed, C)
           t == Write(s, C, new)
<1>1. /\ raw \in [RawIds -> Raw]
      /\ \A r \in RawIds : /\ raw[r].refcount = s.raw[r].refcount /\ raw[r].pc = s.raw[r].pc
                           /\ raw[r].inserted >= 0 => s.raw[r].inserted >= 0
  BY DEF Process, Raw
<1>2. jump \in [Addr -> JumpRec]
  BY DEF Process, JumpRec
<1>3. t.bp = valid.bp /\ t.raw = valid.raw /\ t.mapped = valid.mapped
  <2>1. valid \in Process
    <3>1. shadowed \in Process
      BY <1>1, <1>2, ZenonT(60) DEF Process
    <3> QED
      BY <3>1, ValidateKeeps DEF Keeps
  <2> HIDE DEF valid
  <2>2. t = valid \/ \E mem : t = [valid EXCEPT !.mem = mem]
    BY DEF Write, valid
  <2> QED
    BY <2>1, <2>2 DEF Process
<1> HIDE DEF raw, jump, t
<1>4. shadowed \in Process /\ Sheds(s, shadowed)
  <2>1. shadowed \in Process
    BY <1>1, <1>2 DEF Process
  <2>2. shadowed.bp = s.bp /\ shadowed.raw = raw /\ shadowed.mapped = s.mapped
    BY DEF Process
  <2> HIDE DEF shadowed
  <2> QED
    BY <1>1, <2>1, <2>2, SameSheds
<1> HIDE DEF shadowed
<1>5. Sheds(shadowed, valid) /\ valid \in Process
  BY <1>4, ValidateSheds, ValidateKeeps DEF Keeps
<1> HIDE DEF valid
<1>6. Sheds(s, valid)
  BY <1>4, <1>5, ShedsTrans
<1> QED
  BY <1>3, <1>6 DEF Sheds, Held, Live, Accessible, BpsOf, Bps, t

LEMMA InsertSheds ==
  ASSUME NEW s \in Process, NEW r \in RawIds, s.raw[r].inserted = 0 PROVE Sheds(s, Insert(s, r))
<1> DEFINE a == s.raw[r].pc
           valid == Validate(s, {a})
           t == Insert(s, r)
           planted == [valid.raw[r] EXCEPT !.old_data = View(s, a), !.inserted = 1]
           raw == [valid.raw EXCEPT ![r] = planted]
           mem == [valid.mem EXCEPT ![a] = s.raw[r].kind]
<1>1. valid \in Process /\ Sheds(s, valid) /\ valid.raw[r] = s.raw[r]
  BY ValidateKeeps, ValidateSheds, ValidateDrops DEF Keeps
<1>2. t = valid \/ t = [valid EXCEPT !.raw = raw, !.mem = mem]
  BY <1>1 DEF Insert, Process
<1> HIDE DEF valid, t, mem, a
<1>3. \A q \in RawIds : /\ raw[q].refcount = valid.raw[q].refcount /\ raw[q].pc = valid.raw[q].pc
                        /\ raw[q].inserted >= 0 => valid.raw[q].inserted >= 0
  BY <1>1 DEF Process, Raw
<1> HIDE DEF raw
<1>4. t.bp = valid.bp /\ (t.raw = valid.raw \/ t.raw = raw) /\ t.mapped = valid.mapped
  BY <1>1, <1>2 DEF Process
<1>5. \A q \in Held(t) : /\ q \in Held(valid) /\ t.raw[q].refcount = valid.raw[q].refcount
                        /\ BpsOf(t, q) = BpsOf(valid, q)
  BY <1>3, <1>4, SameBps DEF Held, Live, Accessible
<1> QED
  BY <1>1, <1>5 DEF Sheds, t

LEMMA UninsertSheds ==
  ASSUME NEW s \in Process, NEW r \in RawIds, s.raw[r].inserted >= 0 PROVE Sheds(s, Uninsert(s, r))
<1> DEFINE a == s.raw[r].pc
           lifted == [s EXCEPT !.raw[r].inserted = 0]
           out == Write(lifted, {a}, [x \in {a} |-> s.raw[r].old_data])
           back == [out EXCEPT !.raw[r].inserted = 1]
<1>1. lifted \in Process /\ Sheds(s, lifted) /\ lifted.mapped = s.mapped /\ lifted.raw[r].pc = a
  <2>1. /\ lifted \in Process /\ lifted.bp = s.bp /\ lifted.mapped = s.mapped
        /\ \A q \in RawIds : /\ lifted.raw[q].refcount = s.raw[q].refcount
                             /\ lifted.raw[q].pc = s.raw[q].pc
                             /\ lifted.raw[q].inserted >= 0 => s.raw[q].inserted >= 0
    <3> DEFINE one == [s.raw[r] EXCEPT !.inserted = 0]
               raw == [s.raw EXCEPT ![r] = one]
    <3>1. /\ one \in Raw /\ one.refcount = s.raw[r].refcount /\ one.pc = s.raw[r].pc
      BY DEF Process, Raw
    <3>2. lifted = [s EXCEPT !.raw = raw]
      BY DEF Process
    <3> HIDE DEF one, lifted
    <3>3. /\ raw \in [RawIds -> Raw] /\ raw[r] = one
          /\ \A q \in RawIds : q # r => raw[q] = s.raw[q]
      BY <3>1 DEF Process
    <3> HIDE DEF raw
    <3>4. lifted \in Process /\ lifted.raw = raw /\ lifted.bp = s.bp /\ lifted.mapped = s.mapped
      BY <3>2, <3>3 DEF Process
    <3> QED
      BY <3>1, <3>3, <3>4
  <2> HIDE DEF lifted
  <2> QED
    BY <2>1, SameSheds
<1>2. [x \in {a} |-> s.raw[r].old_data] \in [{a} -> Byte]
  BY DEF Process, Raw
<1> HIDE DEF lifted
<1>3. out \in Process /\ Sheds(lifted, out) /\ Keeps(lifted, out)
  BY <1>1, <1>2, WriteKeeps, WriteSheds, ZenonT(60) DEF Keeps
<1> HIDE DEF out
<1>4. Sheds(s, out)
  BY <1>1, <1>3, ShedsTrans
<1>5. ASSUME ~Accessible(s, a) PROVE Sheds(s, back)
  <2>1. /\ back.bp = out.bp /\ back.mapped = out.mapped
        /\ \A q \in RawIds : /\ back.raw[q].refcount = out.raw[q].refcount
                             /\ back.raw[q].pc = out.raw[q].pc
                             /\ q # r => back.raw[q].inserted = out.raw[q].inserted
    BY <1>3 DEF Process, Raw
  <2> HIDE DEF back
  <2>2. r \notin Held(back)
    BY <1>1, <1>3, <1>5, <2>1 DEF Held, Live, Keeps, Accessible
  <2>3. \A q \in Held(back) : /\ q \in Held(out) /\ back.raw[q].refcount = out.raw[q].refcount
                             /\ BpsOf(back, q) = BpsOf(out, q)
    BY <2>1, <2>2, SameBps DEF Held, Live, Accessible
  <2> QED
    BY <1>4, <2>3 DEF Sheds
<1> HIDE DEF back
<1> QED
  BY <1>4, <1>5 DEF Uninsert, lifted, out, back, a

LEMMA OwnedIs ==
  ASSUME NEW s
  PROVE  Owned(s) <=> \A r \in Held(s) : s.raw[r].refcount <= Cardinality(BpsOf(s, r))
<1>1. \A r \in Held(s) : r # 0
  BY DEF Held, Live, RawIds
<1>2. \A r : Cardinality(BpsOf(s, r)) + 0 = Cardinality(BpsOf(s, r))
  BY BpsOfFinite
<1>3. ASSUME NEW r \in Held(s)
      PROVE  Cardinality(BpsOf(s, r)) + (IF r = 0 THEN 1 ELSE 0) = Cardinality(BpsOf(s, r))
  BY <1>1, <1>2
<1> QED
  BY <1>3 DEF Owned, Owes

LEMMA DeleteOwned ==
  ASSUME NEW s \in Process, Owned(s), NEW b \in Bps(s) PROVE Owned(Delete(s, b))
<1> DEFINE r == s.bp[b].raw
           a == s.raw[r].pc
           unlinked == [s EXCEPT !.bp[b] = FreeBp]
           removed == [unlinked EXCEPT !.raw[r] = FreeRaw]
           out == Write(removed, {a}, [x \in {a} |-> s.raw[r].old_data])
           back == [out EXCEPT !.raw[r] = s.raw[r]]
           less == [unlinked EXCEPT !.raw[r].refcount = @ - 1]
<1>1. b \in BpIds /\ r \in RawIds /\ b \in BpsOf(s, r)
  BY DEF Bps, BpsOf, Process, Bp, FreeBp
<1>2. s.raw[r] \in Raw /\ s.raw[r].refcount \in Nat
  BY <1>1 DEF Process, Raw
<1>3. \A t : t.bp = unlinked.bp => \A q : BpsOf(t, q) = BpsOf(s, q) \ {b}
  <2>1. unlinked.bp = [s.bp EXCEPT ![b] = FreeBp]
    BY DEF Process
  <2>2. \A q \in BpIds : unlinked.bp[q] = IF q = b THEN FreeBp ELSE s.bp[q]
    BY <1>1, <2>1 DEF Process
  <2> HIDE DEF unlinked
  <2> QED
    BY <2>2 DEF BpsOf, Bps, FreeBp
<1>4. Cardinality(BpsOf(s, r) \ {b}) = Cardinality(BpsOf(s, r)) - 1
  <2> HIDE DEF r
  <2>1. IsFiniteSet(BpsOf(s, r))
    BY BpsOfFinite
  <2> QED
    BY <1>1, <2>1, FS_RemoveElement
<1>5. CASE s.raw[r].refcount > 1
  <2>1. /\ less.bp = unlinked.bp /\ less.mapped = s.mapped
        /\ \A q \in RawIds : /\ less.raw[q].refcount = IF q = r THEN s.raw[q].refcount - 1
                                                               ELSE s.raw[q].refcount
                             /\ less.raw[q].pc = s.raw[q].pc
                             /\ less.raw[q].inserted = s.raw[q].inserted
    BY <1>1 DEF Process, Raw
  <2>2. \A q : BpsOf(less, q) = BpsOf(s, q) \ {b}
    BY <1>3, <2>1
  <2>3. \A q \in RawIds \ {r} : BpsOf(less, q) = BpsOf(s, q)
    BY <2>2 DEF BpsOf
  <2> HIDE DEF less
  <2>4. \A q \in RawIds : s.raw[q].refcount \in Nat
    BY DEF Process, Raw
  <2>5. \A q \in Held(less) : q \in Held(s)
    <3> HIDE DEF r
    <3> QED
      BY <1>5, <2>1, <2>4 DEF Held, Live, Accessible
  <2>6. \A q \in Held(s) : s.raw[q].refcount <= Cardinality(BpsOf(s, q))
    BY OwnedIs
  <2>7. r \in Held(less) => less.raw[r].refcount <= Cardinality(BpsOf(less, r))
    <3> HIDE DEF r
    <3>1. r \in Held(less) => s.raw[r].refcount <= Cardinality(BpsOf(s, r))
      BY <2>5, <2>6
    <3>2. BpsOf(less, r) = BpsOf(s, r) \ {b} /\ less.raw[r].refcount = s.raw[r].refcount - 1
      BY <1>1, <2>1, <2>2
    <3> QED
      BY <1>2, <1>4, <3>1, <3>2, BpsOfFinite
  <2>8. \A q \in Held(less) \ {r} : less.raw[q].refcount <= Cardinality(BpsOf(less, q))
    <3> HIDE DEF r
    <3> QED
      BY <2>1, <2>3, <2>5, <2>6 DEF Held, Live
  <2>9. Owned(less)
    <3> HIDE DEF r
    <3> QED
      BY <2>7, <2>8, OwnedIs
  <2> QED
    BY <1>5, <2>9 DEF Delete, less
<1>6. CASE ~(s.raw[r].refcount > 1)
  <2>1. /\ removed \in Process /\ removed.bp = unlinked.bp /\ removed.mapped = s.mapped
        /\ \A q \in RawIds \ {r} : removed.raw[q] = s.raw[q]
        /\ removed.raw[r] = FreeRaw
    <3>1. unlinked.bp \in [BpIds -> Bp \cup {FreeBp}]
      BY <1>1 DEF Process
    <3> QED
      BY <1>1, <3>1, Constants DEF Process
  <2>2. \A q : BpsOf(removed, q) = BpsOf(s, q) \ {b}
    BY <1>3, <2>1
  <2> HIDE DEF removed
  <2>3. Sheds(s, removed)
    <3>1. r \notin Held(removed)
      BY <2>1 DEF Held, Live, FreeRaw
    <3>2. \A q \in RawIds : q # r => BpsOf(removed, q) = BpsOf(s, q)
      BY <2>2 DEF BpsOf
    <3>3. \A q \in RawIds : s.raw[q].refcount \in Nat
      BY DEF Process, Raw
    <3> HIDE DEF r
    <3> QED
      BY <2>1, <3>1, <3>2, <3>3 DEF Sheds, Held, Live, Accessible
  <2>4. [x \in {a} |-> s.raw[r].old_data] \in [{a} -> Byte]
    BY <1>2 DEF Raw
  <2>5. Keeps(removed, out) /\ out \in Process /\ Sheds(removed, out)
    BY <2>1, <2>4, WriteSheds, WriteKeeps, ZenonT(60) DEF Keeps
  <2> HIDE DEF out
  <2>6. Sheds(s, out) /\ out.mapped = s.mapped
    BY <2>1, <2>3, <2>5, ShedsTrans DEF Keeps
  <2>7. ASSUME ~Accessible(s, a) PROVE back \in Process /\ Sheds(s, back)
    <3>1. back \in Process /\ back.bp = out.bp /\ back.mapped = out.mapped
          /\ back.raw[r] = s.raw[r] /\ \A q \in RawIds \ {r} : back.raw[q] = out.raw[q]
      BY <1>1, <1>2, <2>5 DEF Process
    <3> HIDE DEF back
    <3>2. r \notin Held(back)
      BY <2>6, <2>7, <3>1 DEF Held, Accessible
    <3> HIDE DEF r
    <3>3. \A q \in Held(back) : /\ q \in Held(out) /\ back.raw[q].refcount = out.raw[q].refcount
                               /\ BpsOf(back, q) = BpsOf(out, q)
      BY <3>1, <3>2, SameBps DEF Held, Live, Accessible
    <3> QED
      BY <2>6, <3>1, <3>3 DEF Sheds
  <2> HIDE DEF back
  <2>8. Owned(removed) /\ Owned(out) /\ (~Accessible(s, a) => Owned(back))
    BY <2>1, <2>3, <2>5, <2>6, <2>7, ShedsOwes DEF Owned
  <2> QED
    BY <1>6, <2>8 DEF Delete, removed, out, back
<1> QED
  BY <1>5, <1>6

-----------------------------------------------------------------------------
(* Setting breakpoints owes one reference, until the high-level breakpoint *)
(* is there.                                                               *)

LEMMA SetRawOwes ==
  ASSUME NEW s \in Process, Owned(s), Room(s), NEW a \in Addr, NEW k \in Kinds
  PROVE  LET set == SetRaw(s, a, k)
         IN  set.st \in Process /\ set.raw \in RawIds \cup {0} /\ Owes(set.st, set.raw)
<1> DEFINE same == {r \in Enabled(s, a) : s.raw[r].kind = k}
           R == Enabled(s, a) \ same
           tagged == Tag(s, R)
           r == IF same # {} THEN CHOOSE q \in same : TRUE ELSE CHOOSE q \in RawIds \ Live(s) : TRUE
           new == [FreeRaw EXCEPT !.pc = a, !.kind = k, !.refcount = 1]
           linked == IF same # {} THEN [tagged EXCEPT !.raw[r].refcount = @ + 1]
                     ELSE [tagged EXCEPT !.raw[r] = new]
           valid == Validate(tagged, {a})
<1>1. /\ r \in RawIds
      /\ same # {} => r \in same /\ r \in Live(s) /\ s.raw[r].pc = a /\ s.raw[r].inserted >= 0
  BY DEF Room, Live, Enabled, At
<1> HIDE DEF r
<1>2. /\ tagged \in Process /\ Sheds(s, tagged)
      /\ tagged.mapped = s.mapped /\ tagged.bp = s.bp
      /\ same # {} => tagged.raw[r] = s.raw[r]
  <2>1. same # {} => r \notin R
    BY <1>1
  <2>2. tagged.mapped = s.mapped /\ tagged.bp = s.bp
    BY DEF Tag, Process
  <2> QED
    BY <1>1, <2>1, <2>2, TagKeeps, TagSheds, TagDrops DEF Keeps
<1>3. Owned(tagged) /\ Owned(valid) /\ valid \in Process
  <2>1. Owned(tagged)
    BY <1>2, ShedsOwes DEF Owned
  <2> HIDE DEF tagged
  <2> QED
    BY <1>2, <2>1, ShedsOwes, ValidateSheds, ValidateKeeps DEF Owned, Keeps
<1> HIDE DEF tagged, R, valid
<1>4. new \in Raw /\ new.pc = a /\ new.inserted = 0 /\ new.refcount = 1
  BY Constants DEF FreeRaw, Raw
<1> HIDE DEF new
<1>5. /\ linked \in Process /\ linked.bp = tagged.bp /\ linked.mapped = tagged.mapped
      /\ \A q \in RawIds \ {r} : linked.raw[q] = tagged.raw[q]
      /\ linked.raw[r].pc = a
      /\ same # {} => /\ linked.raw[r].inserted = s.raw[r].inserted
                      /\ linked.raw[r].refcount = s.raw[r].refcount + 1
      /\ same = {} => linked.raw[r].inserted = 0 /\ linked.raw[r].refcount = 1
  <2>1. CASE same # {}
    <3> DEFINE raw == [tagged.raw EXCEPT ![r].refcount = @ + 1]
    <3>1. raw \in [RawIds -> Raw]
          /\ raw[r].refcount = s.raw[r].refcount + 1
          /\ raw[r].pc = a /\ raw[r].inserted = s.raw[r].inserted
          /\ \A q \in RawIds \ {r} : raw[q] = tagged.raw[q]
      BY <1>1, <1>2, <2>1 DEF Process, Raw
    <3> HIDE DEF raw
    <3>2. linked = [tagged EXCEPT !.raw = raw]
      BY <2>1 DEF raw
    <3> QED
      BY <1>2, <2>1, <3>1, <3>2 DEF Process
  <2>2. CASE same = {}
    <3> DEFINE raw == [tagged.raw EXCEPT ![r] = new]
    <3>1. raw \in [RawIds -> Raw] /\ raw[r] = new
          /\ \A q \in RawIds \ {r} : raw[q] = tagged.raw[q]
      BY <1>1, <1>2, <1>4 DEF Process
    <3> HIDE DEF raw
    <3>2. linked = [tagged EXCEPT !.raw = raw]
      BY <2>2 DEF raw
    <3> HIDE DEF linked, same
    <3>3. /\ linked \in Process /\ linked.raw = raw
          /\ linked.bp = tagged.bp /\ linked.mapped = tagged.mapped
      BY <1>2, <3>1, <3>2 DEF Process
    <3> QED
      BY <1>4, <2>2, <3>1, <3>3
  <2> QED
    BY <2>1, <2>2
<1> HIDE DEF linked
<1>6. Owes(linked, r)
  <2>1. \A q : BpsOf(linked, q) = BpsOf(s, q) /\ BpsOf(tagged, q) = BpsOf(s, q)
               /\ Cardinality(BpsOf(s, q)) \in Nat
    BY <1>2, <1>5, SameBps, BpsOfFinite
  <2>2. r \in Held(linked) => linked.raw[r].refcount <= Cardinality(BpsOf(linked, r)) + 1
    <3>1. CASE same # {}
      <4>1. r \in Held(linked) => r \in Held(s)
        BY <1>1, <1>2, <1>5, <3>1 DEF Held, Accessible
      <4>2. r \in Held(s) => s.raw[r].refcount <= Cardinality(BpsOf(s, r))
        BY OwnedIs
      <4>3. s.raw[r].refcount \in Nat
        BY <1>1 DEF Process, Raw
      <4> QED
        BY <1>5, <2>1, <3>1, <4>1, <4>2, <4>3
    <3>2. CASE same = {}
      BY <1>5, <2>1, <3>2
    <3> QED
      BY <3>1, <3>2
  <2>3. \A q \in Held(linked) : q # r =>
           /\ q \in Held(tagged) /\ linked.raw[q].refcount = tagged.raw[q].refcount
           /\ tagged.raw[q].refcount \in Nat
    BY <1>2, <1>5 DEF Held, Live, Accessible, Process, Raw
  <2>4. \A q \in Held(linked) : q # r =>
           linked.raw[q].refcount <= Cardinality(BpsOf(linked, q)) + 0
    BY <1>3, <2>1, <2>3, OwnedIs
  <2> QED
    BY <2>2, <2>4 DEF Owes
<1>7. ASSUME same = {} \/ s.raw[r].inserted = 0, Accessible(s, a)
      PROVE  Insert(linked, r) \in Process /\ Owes(Insert(linked, r), r)
  <2>1. linked.raw[r].inserted = 0 /\ Accessible(linked, linked.raw[r].pc)
    BY <1>2, <1>5, <1>7 DEF Accessible
  <2>2. Insert(linked, r) \in Process
    BY <1>1, <1>5, <2>1, InsertChanges DEF Changes
  <2> QED
    BY <1>1, <1>5, <1>6, <2>1, <2>2, InsertSheds, ShedsOwes
<1> DEFINE set == SetRaw(s, a, k)
<1> HIDE DEF same
<1>8. \/ set = [st |-> linked, raw |-> r]
      \/ /\ set = [st |-> Insert(linked, r), raw |-> r]
         /\ (same = {} \/ s.raw[r].inserted = 0) /\ Accessible(s, a)
      \/ set = [st |-> valid, raw |-> 0]
  <2>1. set = CASE same # {} /\ s.raw[r].inserted = 1 -> [st |-> linked, raw |-> r]
                [] (same = {} \/ s.raw[r].inserted = 0) /\ Accessible(s, a)
                     -> [st |-> Insert(linked, r), raw |-> r]
                [] OTHER -> [st |-> valid, raw |-> 0]
    BY DEF SetRaw, linked, r, tagged, R, new, valid, same
  <2> HIDE DEF set
  <2> QED
    BY <2>1
<1> HIDE DEF set
<1> QED
  BY <1>1, <1>3, <1>5, <1>6, <1>7, <1>8 DEF set, Owned

LEMMA SetBreakpointOwned ==
  ASSUME NEW s, NEW p, Good(s, p), Owned(s), Room(s), NEW a \in Addr, NEW k \in Kinds,
         NEW type \in {"gdb", "other", "step"}
  PROVE  Owned(SetBreakpoint(s, type, a, k))
<1> DEFINE set == SetRaw(s, a, k)
           b == CHOOSE q \in BpIds \ Bps(set.st) : TRUE
           t == [set.st EXCEPT !.bp[b] = [type |-> type, raw |-> set.raw]]
<1>1. /\ set.st \in Process /\ Owes(set.st, set.raw)
      /\ \A q \in BpIds : set.st.bp[q] \in {s.bp[q], FreeBp}
      /\ set.raw \in RawIds \cup {0}
  BY SetRawGood, SetRawOwes DEF Good
<1> HIDE DEF set
<1>2. b \in BpIds /\ b \notin Bps(set.st)
  BY <1>1 DEF Room, Bps, FreeBp
<1> HIDE DEF b
<1>3. ASSUME set.raw # 0 PROVE Owned(t)
  <2>1. /\ t.raw = set.st.raw /\ t.bp = [set.st.bp EXCEPT ![b] = [type |-> type, raw |-> set.raw]]
        /\ t.mapped = set.st.mapped
    BY <1>1 DEF Process
  <2>2. \A q \in BpIds : t.bp[q] = IF q = b THEN [type |-> type, raw |-> set.raw] ELSE set.st.bp[q]
    BY <1>1, <1>2, <2>1 DEF Process
  <2> HIDE DEF t
  <2>3. BpsOf(t, set.raw) = BpsOf(set.st, set.raw) \cup {b}
    BY <1>2, <2>2 DEF BpsOf, Bps
  <2>4. \A q \in RawIds \ {set.raw} : BpsOf(t, q) = BpsOf(set.st, q)
    BY <1>2, <2>2 DEF BpsOf, Bps
  <2>5. Cardinality(BpsOf(t, set.raw)) = Cardinality(BpsOf(set.st, set.raw)) + 1
    <3>1. IsFiniteSet(BpsOf(set.st, set.raw)) /\ b \notin BpsOf(set.st, set.raw)
      BY <1>2, BpsOfFinite DEF BpsOf
    <3> QED
      BY <2>3, <3>1, FS_AddElement
  <2>6. Held(t) = Held(set.st) /\ Held(t) \subseteq RawIds
    BY <2>1 DEF Held, Live, Accessible
  <2>7. \A q \in RawIds : Cardinality(BpsOf(set.st, q)) + 0 = Cardinality(BpsOf(set.st, q))
    BY BpsOfFinite
  <2>8. \A q \in Held(t) : t.raw[q].refcount <= Cardinality(BpsOf(t, q))
    BY <1>1, <2>1, <2>4, <2>5, <2>6, <2>7 DEF Owes
  <2> QED
    BY <2>8, OwnedIs
<1> QED
  BY <1>1, <1>3 DEF SetBreakpoint, set, b, Owned

LEMMA SetGdbOwned ==
  ASSUME NEW s, NEW p, Good(s, p), Owned(s), Room(s), NEW a \in Addr, NEW k \in Kinds
  PROVE  Owned(SetGdb(s, a, k))
<1> DEFINE b == CHOOSE q \in GdbBpsAt(s, a) : TRUE
           tagged == Tag(s, {s.bp[b].raw})
           deleted == Delete(tagged, b)
           valid == ValidateAll(s)
<1> s \in Process
  BY DEF Good
<1>1. ASSUME GdbBpsAt(s, a) # {} PROVE Good(deleted, p) /\ Owned(deleted) /\ Room(deleted)
  <2>1. b \in Bps(s)
    BY <1>1 DEF GdbBpsAt
  <2> HIDE DEF b
  <2>2. Keeps(s, tagged) /\ tagged.bp = s.bp /\ tagged \in Process
    <3>1. Keeps(s, tagged)
      BY TagKeeps
    <3>2. tagged.bp = s.bp
      BY DEF Tag, Process
    <3> QED
      BY <3>1, <3>2 DEF Keeps
  <2>3. Owned(tagged)
    BY <2>2, TagSheds, ShedsOwes DEF Good, Owned
  <2>4. b \in Bps(tagged)
    BY <2>1, <2>2 DEF Bps
  <2> HIDE DEF tagged
  <2>5. Keeps(s, deleted)
    BY <2>2, <2>4, DeleteKeeps, KeepsTrans
  <2> QED
    BY <2>2, <2>3, <2>4, <2>5, DeleteOwned, KeepsGood, KeepsRoom
<1>2. Good(valid, p) /\ Owned(valid) /\ Room(valid)
  <2>1. Keeps(s, valid) /\ Sheds(s, valid)
    BY ValidateAllKeeps, ValidateSheds
  <2> HIDE DEF valid
  <2> QED
    BY <2>1, ShedsOwes, KeepsGood, KeepsRoom DEF Keeps, Owned
<1> HIDE DEF b, tagged, deleted, valid
<1>3. ASSUME NEW u, Good(u, p), Owned(u), Room(u) PROVE Owned(SetBreakpoint(u, "gdb", a, k))
  BY <1>3, SetBreakpointOwned
<1> QED
  BY <1>1, <1>2, <1>3 DEF SetGdb, b, tagged, deleted, valid

-----------------------------------------------------------------------------
(* Deleting, moving and rewriting what is there.                           *)

LEMMA DeleteGdbOwned ==
  ASSUME NEW s \in Process, Owned(s), NEW a, NEW k PROVE Owned(DeleteGdb(s, a, k))
<1> DEFINE mine == {b \in GdbBpsAt(s, a) : s.raw[s.bp[b].raw].kind = k}
           b == CHOOSE b \in mine : TRUE
<1>1. mine # {} => b \in Bps(s)
  BY DEF GdbBpsAt
<1> HIDE DEF b
<1> QED
  BY <1>1, DeleteOwned DEF DeleteGdb, b

LEMMA DeleteStepBpsOwned ==
  ASSUME NEW s \in Process, Owned(s) PROVE Owned(DeleteStepBps(s))
<1> DEFINE b == CHOOSE b \in StepBps(s) : TRUE
<1>1. StepBps(s) # {} => b \in Bps(s)
  BY DEF StepBps
<1> HIDE DEF b
<1> QED
  BY <1>1, DeleteOwned DEF DeleteStepBps, b

LEMMA UninsertAtOwned ==
  ASSUME NEW s, Good(s, NoStep), Room(s), Owned(s), NEW a \in Addr
  PROVE  Owned(UninsertAt(s, a))
<1> DEFINE r == CHOOSE r \in InsertedAt(s, a) : TRUE
<1> s \in Process
  BY DEF Good
<1>1. InsertedAt(s, a) # {} => r \in RawIds /\ s.raw[r].inserted >= 0
  BY DEF InsertedAt, At, Live
<1>2. UninsertAt(s, a) \in Process
  BY UninsertAtGood DEF Good
<1> HIDE DEF r
<1> QED
  BY <1>1, <1>2, UninsertSheds, ShedsOwes DEF UninsertAt, Owned, r

LEMMA ReinsertAtOwned ==
  ASSUME NEW s, NEW p \in Addr, Good(s, p), Accessible(s, p), Owned(s)
  PROVE  Owned(ReinsertAt(s, p))
<1> DEFINE r == CHOOSE r \in OutAt(s, p) : TRUE
<1> s \in Process
  BY DEF Good
<1>1. OutAt(s, p) # {} => r \in RawIds /\ s.raw[r].inserted = 0
  BY DEF OutAt, At, Live
<1>2. ReinsertAt(s, p) \in Process
  BY ReinsertAtGood DEF Good
<1> HIDE DEF r
<1> QED
  BY <1>1, <1>2, InsertSheds, ShedsOwes DEF ReinsertAt, Owned, r

LEMMA RewriteOwned ==
  ASSUME NEW s \in Process, Owned(s), NEW t \in Process,
         t.bp = s.bp, t.raw = s.raw, t.mapped = s.mapped,
         NEW C, NEW bytes \in [C -> Byte]
  PROVE  Owned(Write(t, C, bytes))
<1>1. Owned(t)
  BY SameSheds, ShedsOwes DEF Owned
<1> QED
  BY <1>1, WriteKeeps, WriteSheds, ShedsOwes DEF Keeps, Owned

LEMMA SetJumpOwned ==
  ASSUME NEW s \in Process, Owned(s), NEW j \in Addr, Cells(j) \subseteq Addr
  PROVE  Owned(SetJump(s, j))
<1> DEFINE valid == Validate(s, Cells(j))
           old == [a \in Cells(j) |-> View(s, a)]
           new == [inserted |-> TRUE, refcount |-> 1,
                   shadow |-> [i \in 0..(JumpLength - 1) |-> old[j + i]]]
           linked == [valid EXCEPT !.jump[j] = new]
<1>1. valid \in Process /\ Owned(valid)
  BY ValidateKeeps, ValidateSheds, ShedsOwes DEF Keeps, Owned
<1>2. old \in [Cells(j) -> Byte]
  BY ViewType
<1>3. \A i \in 0..(JumpLength - 1) : j + i \in Cells(j)
  BY Constants, MemBreakAssumption DEF Cells
<1> HIDE DEF valid, old
<1>4. new \in JumpRec
  BY <1>2, <1>3 DEF JumpRec
<1> HIDE DEF new
<1>5. linked \in Process
  BY <1>1, <1>4, JumpKeeps DEF Keeps
<1>6. linked.bp = valid.bp /\ linked.raw = valid.raw /\ linked.mapped = valid.mapped
  BY <1>1 DEF Process
<1> HIDE DEF linked
<1> QED
  BY <1>1, <1>2, <1>5, <1>6, RewriteOwned DEF SetJump, valid, old, new, linked

LEMMA DeleteJumpOwned ==
  ASSUME NEW s \in Process, Owned(s), NEW j \in Addr PROVE Owned(DeleteJump(s, j))
<1> DEFINE t == [s EXCEPT !.jump[j] = FreeJump]
<1>1. t \in Process /\ t.bp = s.bp /\ t.raw = s.raw /\ t.mapped = s.mapped
  BY Constants, JumpKeeps, JumpSame DEF Keeps
<1> HIDE DEF t
<1> QED
  BY <1>1, ShadowType, RewriteOwned DEF DeleteJump, t

LEMMA MoveJumpOwned ==
  ASSUME NEW s \in Process, Owned(s), NEW j \in Addr
  PROVE  Owned(UninsertJumpAt(s, j)) /\ Owned(ReinsertJumpAt(s, j))
<1>1. ASSUME NEW v \in BOOLEAN
      PROVE  LET t == [s EXCEPT !.jump[j].inserted = v]
             IN  t \in Process /\ t.bp = s.bp /\ t.raw = s.raw /\ t.mapped = s.mapped
  BY ZenonT(60) DEF Process, JumpRec
<1> QED
  BY <1>1, ShadowType, RewriteOwned DEF UninsertJumpAt, ReinsertJumpAt

-----------------------------------------------------------------------------
(* The steps.                                                              *)

LEMMA ClientOwned == IInv /\ Owned(proc) /\ Client => Owned(proc')
<1> SUFFICES ASSUME IInv, Owned(proc), Client PROVE Owned(proc')
  OBVIOUS
<1>1. Good(proc, stepping) /\ mode \in Kinds /\ proc \in Process
  BY IInvIsGood DEF Good, GoodInv
<1>2. ASSUME NEW a \in Addr, ClientSet(a) PROVE Owned(proc')
  <2>1. CodeKind(a) \in Kinds
    BY <1>1, Constants DEF CodeKind
  <2> QED
    BY <1>1, <1>2, <2>1, SetGdbOwned DEF ClientSet
<1>3. ASSUME NEW a \in Addr, ClientDelete(a) PROVE Owned(proc')
  BY <1>1, <1>3, DeleteGdbOwned DEF ClientDelete
<1>4. ASSUME NEW a \in Addr, NEW d \in Data, ClientWrite(a, d) PROVE Owned(proc')
  <2>1. [x \in {a} |-> d] \in [{a} -> Byte]
    BY Constants
  <2> QED
    BY <1>1, <1>4, <2>1, RewriteOwned DEF ClientWrite
<1>5. ASSUME NEW a \in Addr, ClientRead(a) PROVE Owned(proc')
  BY <1>1, <1>5, ValidateKeeps, ValidateSheds, ShedsOwes DEF ClientRead, Keeps, Owned
<1>6. CASE ClientSymbols
  BY <1>1, <1>6, ValidateAllKeeps, ValidateSheds, ShedsOwes DEF ClientSymbols, Keeps, Owned
<1> QED
  BY <1>2, <1>3, <1>4, <1>5, <1>6 DEF Client

LEMMA InternalOwned == IInv /\ Owned(proc) /\ Internal => Owned(proc')
<1> SUFFICES ASSUME IInv, Owned(proc), Internal PROVE Owned(proc')
  OBVIOUS
<1>1. Good(proc, stepping) /\ mode \in Kinds /\ proc \in Process
  BY IInvIsGood DEF Good, GoodInv
<1>2. ASSUME NEW a \in Addr, SetInternal(a) PROVE Owned(proc')
  <2>1. CodeKind(a) \in Kinds
    BY <1>1, Constants DEF CodeKind
  <2> QED
    BY <1>1, <1>2, <2>1, SetBreakpointOwned DEF SetInternal
<1>3. ASSUME NEW b \in BpIds, DeleteInternal(b) PROVE Owned(proc')
  <2>1. b \in Bps(proc)
    BY <1>3 DEF DeleteInternal, Bps
  <2> QED
    BY <1>1, <1>3, <2>1, DeleteOwned DEF DeleteInternal
<1>4. ASSUME NEW j, NEW n PROVE Owned([proc EXCEPT !.jump[j].refcount = n])
  <2> DEFINE t == [proc EXCEPT !.jump[j].refcount = n]
  <2>1. t.bp = proc.bp /\ t.raw = proc.raw /\ t.mapped = proc.mapped
    BY <1>1 DEF Process
  <2> QED
    BY <2>1, SameBps, OwnedIs DEF Held, Live, Accessible
<1>5. ASSUME NEW j \in Addr, InstallJump(j) PROVE Owned(proc')
  BY <1>1, <1>4, <1>5, SetJumpOwned DEF InstallJump
<1>6. ASSUME NEW j \in Addr, DropJump(j) PROVE Owned(proc')
  BY <1>1, <1>4, <1>6, DeleteJumpOwned DEF DropJump
<1> QED
  BY <1>2, <1>3, <1>5, <1>6 DEF Internal

LEMMA SteppingOwned == IInv /\ Owned(proc) /\ Stepping => Owned(proc')
<1> SUFFICES ASSUME IInv, Owned(proc), Stepping PROVE Owned(proc')
  OBVIOUS
<1>1. /\ Good(proc, stepping) /\ mode \in Kinds /\ proc \in Process
      /\ stepping \in Addr \cup {NoStep} /\ SteppedIsMapped
  BY IInvIsGood DEF Good, GoodInv
<1>2. ASSUME NEW a \in Addr, NEW next \in Addr, StartStepOver(a, next) PROVE Owned(proc')
  <2> DEFINE up == UninsertAt(proc, a)
             out == UninsertJumpAt(up, a)
  <2>1. Good(up, a) /\ Room(up) /\ Owned(up)
    BY <1>1, <1>2, UninsertAtGood, UninsertAtOwned DEF StartStepOver
  <2> HIDE DEF up
  <2>2. Good(out, a) /\ Room(out) /\ Owned(out)
    BY <2>1, MoveJumpKeeps, MoveJumpOwned, KeepsGood, KeepsRoom DEF Good, Keeps
  <2> HIDE DEF out
  <2>3. CodeKind(next) \in Kinds
    BY <1>1, Constants DEF CodeKind
  <2>4. Owned(SetBreakpoint(out, "step", next, CodeKind(next)))
    BY <2>2, <2>3, SetBreakpointOwned
  <2> QED
    BY <1>2, <2>2, <2>4 DEF StartStepOver, up, out
<1>3. CASE FinishStepOver
  <2> DEFINE in == ReinsertAt(proc, stepping)
             t == ReinsertJumpAt(in, stepping)
  <2>1. stepping \in Addr /\ Accessible(proc, stepping)
    BY <1>1, <1>3 DEF FinishStepOver, SteppedIsMapped
  <2>2. in \in Process /\ Owned(in)
    BY <1>1, <2>1, ReinsertAtGood, ReinsertAtOwned DEF Good
  <2> HIDE DEF in
  <2>3. t \in Process /\ Owned(t)
    BY <2>1, <2>2, MoveJumpKeeps, MoveJumpOwned DEF Keeps
  <2> HIDE DEF t
  <2>4. Owned(DeleteStepBps(t))
    BY <2>3, DeleteStepBpsOwned
  <2> QED
    BY <1>3, <2>2, <2>4 DEF FinishStepOver, in, t
<1> QED
  BY <1>2, <1>3 DEF Stepping

(* Nothing that is not known to be gone is in a library that is unmapped.  *)
LEMMA ProgramOwned == ~Reload /\ IInv /\ Owned(proc) /\ Program => Owned(proc')
<1> SUFFICES ASSUME ~Reload, IInv, Owned(proc), Program PROVE Owned(proc')
  OBVIOUS
<1>1. proc \in Process /\ Good(proc, stepping)
  BY IInvIsGood DEF Good, GoodInv
<1>2. ASSUME NEW v \in BOOLEAN, NEW mem, proc' = [proc EXCEPT !.mapped = v, !.mem = mem],
             \A r \in Live(proc) : v /\ proc.raw[r].pc \in Lib => proc.mapped \/ proc.raw[r].inserted < 0
      PROVE  Owned(proc')
  <2>1. proc'.bp = proc.bp /\ proc'.raw = proc.raw /\ proc'.mapped = v
    BY <1>1, <1>2 DEF Process
  <2>2. \A r : BpsOf(proc', r) = BpsOf(proc, r)
    BY <2>1, SameBps
  <2>3. \A r \in RawIds : proc.raw[r].inserted \in {-1, 0, 1}
    BY <1>1 DEF Process, Raw
  <2>4. \A r \in Held(proc') : r \in Held(proc)
    BY <1>2, <2>1, <2>3 DEF Held, Live, Accessible
  <2>5. \A r \in Held(proc') : proc'.raw[r].refcount <= Cardinality(BpsOf(proc', r))
    BY <2>1, <2>2, <2>4, OwnedIs
  <2> QED
    BY <2>5, OwnedIs
<1>3. CASE Unload
  BY <1>2, <1>3 DEF Unload
<1>4. ASSUME NEW code \in [Lib -> Data], NEW m \in Kinds, Load(code, m) PROVE Owned(proc')
  <2>1. \A r \in Live(proc) : proc.raw[r].pc \in Lib => proc.raw[r].inserted # 1
    BY <1>4 DEF Load
  <2>2. \A r \in Live(proc) : proc.raw[r].inserted # 0
    <3>1. \A r \in RawIds : proc.raw[r].pc \in Addr
      BY <1>1 DEF Process, Raw
    <3> QED
      BY <1>1, <1>4, <3>1, Constants DEF Load, Good, OutOnlyAt, Live
  <2>3. \A r \in Live(proc) : proc.raw[r].pc \in Lib => proc.raw[r].inserted < 0
    BY <1>1, <2>1, <2>2 DEF Live, Process, Raw
  <2> QED
    BY <1>2, <1>4, <2>3 DEF Load
<1> QED
  BY <1>3, <1>4 DEF Program

LEMMA InitOwned == Init => Owned(proc)
<1> SUFFICES ASSUME Init, NEW r \in Held(proc) PROVE FALSE
  BY OwnedIs
<1>1. \A q \in RawIds : proc.raw[q].refcount = 0
  BY DEF Init, FreeRaw
<1> QED
  BY <1>1 DEF Held, Live

(* Nothing leaks: as long as code is not replaced below an inserted        *)
(* breakpoint, every reference that delete_breakpoint has yet to drop      *)
(* belongs to a high-level breakpoint, so that no order of setting,        *)
(* sharing, failing and deleting leaves a trap that nobody can take out.   *)
THEOREM OwnedCorrect == ASSUME ~Reload PROVE Spec => []Owned(proc)
<1> DEFINE OInv == Owned(proc)
<1>1. Init => OInv
  BY InitOwned
<1>2. IInv /\ OInv /\ [Next]_vars => OInv'
  <2>1. IInv /\ OInv /\ Next => OInv'
    BY ClientOwned, InternalOwned, SteppingOwned, ProgramOwned DEF Next
  <2>2. OInv /\ UNCHANGED vars => OInv'
    BY DEF vars, Owned, Owes, Held, Live, Accessible, BpsOf, Bps
  <2> QED
    BY <2>1, <2>2
<1> HIDE DEF OInv
<1>4. Spec => []OInv
  BY SpecIInv, <1>1, <1>2, PTL DEF Spec
<1> QED
  BY <1>4 DEF OInv

-----------------------------------------------------------------------------
(***************************************************************************)
(* What gdbserver reads is what the program has in memory, and a trap is   *)
(* where the client was told that there is one: Transparent, Honoured and  *)
(* StepBreakpointPlanted of MemBreak, as long as code is not replaced      *)
(* below an inserted breakpoint.                                           *)
(*                                                                         *)
(* In a cell that is mapped there is the instruction of the breakpoint     *)
(* that is inserted there; else a part of the jump that is inserted over   *)
(* it; else what the program has.  The shadows of both hold the latter.    *)
(***************************************************************************)

Traps(s) == {r \in Live(s) : s.raw[r].inserted = 1 /\ Accessible(s, s.raw[r].pc)}
TrapsAt(s, a) == {r \in Traps(s) : s.raw[r].pc = a}
Jumped(s, a) == \E j \in Over(s, a) : s.jump[j].inserted

(* Cell a, where the program has p[a].                                     *)
CellOK(s, p, a) ==
  /\ \A r \in TrapsAt(s, a) : s.mem[a] = s.raw[r].kind /\ s.raw[r].old_data = p[a]
  /\ TrapsAt(s, a) = {} => s.mem[a] = IF Jumped(s, a) THEN Jump ELSE p[a]

ProgramOK(s, p) == \A a \in Addr : IF Accessible(s, a) THEN p[a] \in Byte ELSE p[a] = Absent

(* Jumps are in code that stays, and do not overlap.                       *)
JumpsOK(s) ==
  /\ \A j \in Addr : s.jump[j].refcount > 0 => Cells(j) \subseteq Addr \ Lib
  /\ \A i, j \in Addr : s.jump[i].refcount > 0 /\ s.jump[j].refcount > 0 /\ i # j
                          => Cells(i) \cap Cells(j) = {}
ShadowsOK(s, p, C) ==
  \A j \in Addr : s.jump[j].refcount > 0 =>
    \A i \in 0..(JumpLength - 1) : j + i \in C => s.jump[j].shadow[i] = p[j + i]

Coherent(s, p) ==
  /\ ProgramOK(s, p) /\ JumpsOK(s) /\ ShadowsOK(s, p, Addr)
  /\ \A a \in Addr : Accessible(s, a) => CellOK(s, p, a)

(* A breakpoint that is not known to be gone is of the kind of its code.   *)
KindsOK(s) == \A r \in Live(s) : s.raw[r].inserted >= 0 => s.raw[r].kind = CodeKind(s.raw[r].pc)

-----------------------------------------------------------------------------
(* States of a process that differ in what is not inserted only.           *)

RawsStay(s, t) ==
  /\ t \in Process /\ t.mapped = s.mapped
  /\ \A r \in RawIds : t.raw[r].refcount > 0 /\ t.raw[r].inserted >= 0 =>
       /\ s.raw[r].refcount > 0 /\ t.raw[r].inserted = s.raw[r].inserted
       /\ t.raw[r].kind = s.raw[r].kind /\ t.raw[r].pc = s.raw[r].pc
  /\ \A r \in Held(s) : t.raw[r].refcount > 0 /\ t.raw[r].inserted = s.raw[r].inserted
  /\ \A b \in BpIds : s.bp[b].raw \in Held(s) => t.bp[b] = s.bp[b]

Quiet(s, t) ==
  /\ RawsStay(s, t)
  /\ \A r \in Traps(s) : t.raw[r].old_data = s.raw[r].old_data
  /\ t.mem = s.mem /\ t.jump = s.jump

TrapsPlanted(s) == \A r \in Traps(s) : s.mem[s.raw[r].pc] = s.raw[r].kind

LEMMA TrapsSame ==
  ASSUME NEW s, NEW t, RawsStay(s, t)
  PROVE  /\ Traps(t) = Traps(s) /\ Held(t) = Held(s) /\ Traps(s) \subseteq Held(s)
         /\ \A r \in Held(s) : t.raw[r].pc = s.raw[r].pc /\ t.raw[r].kind = s.raw[r].kind
         /\ \A a : TrapsAt(t, a) = TrapsAt(s, a) /\ (Accessible(t, a) <=> Accessible(s, a))
<1>1. \A a : Accessible(t, a) <=> Accessible(s, a)
  BY DEF RawsStay, Accessible
<1>2. ASSUME NEW r \in Held(t) PROVE r \in Held(s) /\ t.raw[r].inserted = s.raw[r].inserted
  BY <1>1 DEF RawsStay, Held, Live
<1>3. ASSUME NEW r \in Held(s)
      PROVE  /\ r \in Held(t) /\ t.raw[r].pc = s.raw[r].pc /\ t.raw[r].kind = s.raw[r].kind
             /\ t.raw[r].inserted = s.raw[r].inserted
  BY <1>1 DEF RawsStay, Held, Live
<1>4. \A u : Traps(u) = {r \in Held(u) : u.raw[r].inserted = 1}
  BY DEF Traps, Held
<1>5. Held(t) = Held(s)
  BY <1>2, <1>3
<1>6. Traps(t) = Traps(s) /\ Traps(s) \subseteq Held(s)
  BY <1>3, <1>4, <1>5
<1> QED
  BY <1>1, <1>3, <1>5, <1>6 DEF TrapsAt

LEMMA RawsStayTrans ==
  ASSUME NEW s, NEW t, NEW u, RawsStay(s, t), RawsStay(t, u) PROVE RawsStay(s, u)
<1>1. Held(t) = Held(s)
  BY TrapsSame
<1> QED
  BY <1>1 DEF RawsStay, Held, Live

LEMMA QuietTrans ==
  ASSUME NEW s, NEW t, NEW u, Quiet(s, t), Quiet(t, u) PROVE Quiet(s, u)
<1>1. Traps(t) = Traps(s)
  BY TrapsSame DEF Quiet
<1> QED
  BY <1>1, RawsStayTrans DEF Quiet

LEMMA StayKinds ==
  ASSUME NEW s, NEW t, RawsStay(s, t), KindsOK(s) PROVE KindsOK(t)
BY DEF RawsStay, KindsOK, Live

LEMMA QuietCoherent ==
  ASSUME NEW s, NEW t, NEW p, Quiet(s, t), Coherent(s, p) PROVE Coherent(t, p)
<1>1. /\ Traps(t) = Traps(s)
      /\ \A r \in Traps(s) : t.raw[r].pc = s.raw[r].pc /\ t.raw[r].kind = s.raw[r].kind
                             /\ t.raw[r].old_data = s.raw[r].old_data
      /\ \A a : TrapsAt(t, a) = TrapsAt(s, a) /\ (Accessible(t, a) <=> Accessible(s, a))
      /\ t.mem = s.mem /\ t.jump = s.jump
  BY TrapsSame DEF Quiet
<1>2. \A a : Jumped(t, a) <=> Jumped(s, a)
  BY <1>1 DEF Jumped, Over
<1>3. \A a \in Addr : CellOK(s, p, a) => CellOK(t, p, a)
  BY <1>1, <1>2 DEF CellOK, TrapsAt
<1>4. ProgramOK(t, p) /\ JumpsOK(t) /\ ShadowsOK(t, p, Addr)
  BY <1>1 DEF Coherent, ProgramOK, JumpsOK, ShadowsOK
<1> QED
  BY <1>1, <1>3, <1>4 DEF Coherent

LEMMA CoherentPlanted ==
  ASSUME NEW s \in Process, NEW p, Coherent(s, p) PROVE TrapsPlanted(s)
<1> SUFFICES ASSUME NEW r \in Traps(s) PROVE s.mem[s.raw[r].pc] = s.raw[r].kind
  BY DEF TrapsPlanted
<1>1. s.raw[r].pc \in Addr /\ Accessible(s, s.raw[r].pc) /\ r \in TrapsAt(s, s.raw[r].pc)
  BY DEF Traps, TrapsAt, Live, Process, Raw
<1> QED
  BY <1>1 DEF Coherent, CellOK

(* What check_mem_read and check_mem_write find is not gone.               *)
LEMMA OnTopIsTraps ==
  ASSUME NEW s \in Process, TrapsPlanted(s)
  PROVE  /\ \A a : OnTop(s, a) = TrapsAt(s, a)
         /\ \A C : Gone(s, C) \cap Held(s) = {}
BY DEF OnTop, At, TrapsAt, Traps, Held, Planted, TrapsPlanted, Gone

LEMMA ViewIs ==
  ASSUME NEW s \in Process, NEW p, Coherent(s, p), NEW a \in Addr, Accessible(s, a)
  PROVE  View(s, a) = p[a]
<1>1. OnTop(s, a) = TrapsAt(s, a) /\ CellOK(s, p, a)
  BY CoherentPlanted, OnTopIsTraps DEF Coherent
<1>2. CASE TrapsAt(s, a) # {}
  BY <1>1, <1>2 DEF View, CellOK
<1>3. CASE TrapsAt(s, a) = {}
  <2>1. View(s, a) = Unjumped(s, a)
    BY <1>1, <1>3 DEF View
  <2>2. CASE Jumped(s, a)
    <3> DEFINE j == CHOOSE j \in Over(s, a) : s.jump[j].inserted
    <3>1. j \in Addr /\ s.jump[j].refcount > 0 /\ j <= a /\ a < j + JumpLength
      BY <2>2 DEF Jumped, Over
    <3> HIDE DEF j
    <3>2. a - j \in 0..(JumpLength - 1) /\ j + (a - j) = a
      BY <3>1, MemBreakAssumption DEF Addr
    <3>3. s.jump[j].shadow[a - j] = p[a]
      BY <3>1, <3>2 DEF Coherent, ShadowsOK
    <3>4. Unjumped(s, a) = s.jump[j].shadow[a - j]
      BY <2>2 DEF Unjumped, Jumped, j
    <3> QED
      BY <2>1, <3>3, <3>4
  <2>3. CASE ~Jumped(s, a)
    BY <1>1, <1>3, <2>1, <2>3 DEF Unjumped, Jumped, CellOK
  <2> QED
    BY <2>2, <2>3
<1> QED
  BY <1>2, <1>3

-----------------------------------------------------------------------------
(* Tagging and validating.                                                 *)

LEMMA TagQuiet ==
  ASSUME NEW s \in Process, NEW R, R \cap Held(s) = {} PROVE Quiet(s, Tag(s, R))
<1> DEFINE t == Tag(s, R)
<1>1. t \in Process /\ t.mapped = s.mapped
  BY TagKeeps DEF Keeps
<1>2. /\ t.mem = s.mem /\ t.jump = s.jump /\ t.bp = s.bp
      /\ t.raw = [r \in RawIds |-> IF r \in R THEN [s.raw[r] EXCEPT !.inserted = -1] ELSE s.raw[r]]
  BY DEF Tag, Process
<1>3. \A r \in RawIds : s.raw[r] \in Raw
  BY DEF Process
<1>4. \A r \in RawIds : /\ r \in R => t.raw[r].inserted = -1
                        /\ r \notin R => t.raw[r] = s.raw[r]
  BY <1>2, <1>3 DEF Raw
<1> HIDE DEF t
<1>5. Traps(s) \subseteq Held(s) /\ Held(s) \subseteq RawIds
  BY DEF Traps, Held, Live
<1>6. RawsStay(s, t)
  BY <1>1, <1>2, <1>4, <1>5 DEF RawsStay, Held, Live
<1> QED
  BY <1>2, <1>4, <1>5, <1>6 DEF Quiet, t

LEMMA DeleteDisabledQuiet == ASSUME NEW s \in Process PROVE Quiet(s, DeleteDisabled(s))
<1> DEFINE t == DeleteDisabled(s)
<1>1. /\ t \in Process /\ t.mapped = s.mapped
      /\ \A r \in RawIds : t.raw[r].refcount > 0 =>
           s.raw[r].refcount > 0 /\ t.raw[r].inserted \in {s.raw[r].inserted, -1}
  BY DeleteDisabledKeeps DEF Keeps
<1>2. \A r \in RawIds : s.raw[r].inserted # -1 => t.raw[r] = s.raw[r]
  BY DeleteDisabledDrops
<1>3. t.mem = s.mem /\ t.jump = s.jump
  BY DEF DeleteDisabled, Process
<1>8. \A b \in BpIds : s.raw[s.bp[b].raw].inserted # -1 => t.bp[b] = s.bp[b]
  BY DEF DeleteDisabled, Process
<1> HIDE DEF t
<1>4. ASSUME NEW r \in RawIds, t.raw[r].refcount > 0, t.raw[r].inserted >= 0
      PROVE  s.raw[r].refcount > 0 /\ t.raw[r] = s.raw[r]
  BY <1>1, <1>2, <1>4
<1>5. ASSUME NEW r \in Held(s) PROVE r \in RawIds /\ s.raw[r].refcount > 0 /\ t.raw[r] = s.raw[r]
  BY <1>2 DEF Held, Live
<1>6. \A r \in Held(s) : s.raw[r].inserted # -1
  BY DEF Held
<1>7. RawsStay(s, t) /\ Traps(s) \subseteq Held(s)
  BY <1>1, <1>4, <1>5, <1>6, <1>8 DEF RawsStay, Traps, Held
<1> QED
  BY <1>3, <1>5, <1>7 DEF Quiet, t

LEMMA QuietRefl == ASSUME NEW s \in Process PROVE Quiet(s, s)
BY DEF Quiet, RawsStay, Held, Live

LEMMA DisabledQuiet ==
  ASSUME NEW s \in Process, NEW R, R \cap Held(s) = {} PROVE Quiet(s, DeleteDisabled(Tag(s, R)))
BY TagQuiet, DeleteDisabledQuiet, QuietTrans DEF Quiet, RawsStay

LEMMA ValidateQuiet ==
  ASSUME NEW s \in Process, TrapsPlanted(s)
  PROVE  (\A C : Quiet(s, Validate(s, C))) /\ Quiet(s, ValidateAll(s))
<1>1. \A C : Gone(s, C) \cap Held(s) = {}
  BY OnTopIsTraps
<1>2. ASSUME NEW C PROVE Quiet(s, Validate(s, C))
  BY <1>1, QuietRefl, DisabledQuiet DEF Validate
<1>3. {r \in Gone(s, Addr) : BpsOf(s, r) # {}} \cap Held(s) = {}
  BY <1>1
<1>4. Quiet(s, ValidateAll(s))
  BY <1>3, DisabledQuiet DEF ValidateAll
<1> QED
  BY <1>2, <1>4

-----------------------------------------------------------------------------
(* Writing.                                                                *)

(* The shadows have taken the new bytes.                                   *)
WriteShadows(s, C, new) ==
  [s EXCEPT
    !.raw = [r \in RawIds |-> IF r \in Live(s) /\ s.raw[r].pc \in C
                              THEN [s.raw[r] EXCEPT !.old_data = new[s.raw[r].pc]]
                              ELSE s.raw[r]],
    !.jump = [j \in Addr |->
                IF s.jump[j].refcount = 0 THEN s.jump[j]
                ELSE [s.jump[j] EXCEPT !.shadow =
                        [i \in 0..(JumpLength - 1) |-> IF j + i \in C THEN new[j + i] ELSE @[i]]]]]

LEMMA ShadowsStay ==
  ASSUME NEW s \in Process, NEW C, NEW new \in [C -> Byte]
  PROVE  LET u == WriteShadows(s, C, new)
         IN  /\ RawsStay(s, u) /\ u.mem = s.mem
             /\ \A r \in Traps(s) : u.raw[r].old_data = IF s.raw[r].pc \in C THEN new[s.raw[r].pc]
                                                        ELSE s.raw[r].old_data
             /\ \A j \in Addr :
                  /\ u.jump[j].refcount = s.jump[j].refcount /\ u.jump[j].inserted = s.jump[j].inserted
                  /\ s.jump[j].refcount > 0 =>
                       \A i \in 0..(JumpLength - 1) :
                         u.jump[j].shadow[i] = IF j + i \in C THEN new[j + i] ELSE s.jump[j].shadow[i]
<1> DEFINE raw == [r \in RawIds |-> IF r \in Live(s) /\ s.raw[r].pc \in C
                                    THEN [s.raw[r] EXCEPT !.old_data = new[s.raw[r].pc]]
                                    ELSE s.raw[r]]
           jump == [j \in Addr |->
                      IF s.jump[j].refcount = 0 THEN s.jump[j]
                      ELSE [s.jump[j] EXCEPT !.shadow =
                              [i \in 0..(JumpLength - 1) |-> IF j + i \in C THEN new[j + i] ELSE @[i]]]]
           u == WriteShadows(s, C, new)
<1>1. raw \in [RawIds -> Raw]
  BY DEF Process, Raw
<1>2. \A r \in RawIds : raw[r].refcount = s.raw[r].refcount /\ raw[r].pc = s.raw[r].pc
                        /\ raw[r].inserted = s.raw[r].inserted /\ raw[r].kind = s.raw[r].kind
  BY DEF Process, Raw
<1>3. \A r \in Traps(s) : raw[r].old_data = IF s.raw[r].pc \in C THEN new[s.raw[r].pc]
                                            ELSE s.raw[r].old_data
  BY DEF Traps, Live, Process, Raw
<1>4. jump \in [Addr -> JumpRec]
  BY DEF Process, JumpRec
<1>5. \A j \in Addr :
        /\ jump[j].refcount = s.jump[j].refcount /\ jump[j].inserted = s.jump[j].inserted
        /\ s.jump[j].refcount > 0 =>
             \A i \in 0..(JumpLength - 1) :
               jump[j].shadow[i] = IF j + i \in C THEN new[j + i] ELSE s.jump[j].shadow[i]
  BY DEF Process, JumpRec
<1>6. u = [s EXCEPT !.raw = raw, !.jump = jump]
  BY DEF WriteShadows
<1> HIDE DEF raw, jump, u
<1>7. /\ u \in Process /\ u.raw = raw /\ u.jump = jump /\ u.mem = s.mem /\ u.mapped = s.mapped
      /\ u.bp = s.bp
  BY <1>1, <1>4, <1>6 DEF Process
<1>8. RawsStay(s, u)
  BY <1>2, <1>7 DEF RawsStay, Held, Live
<1> QED
  BY <1>3, <1>5, <1>7, <1>8 DEF u

(* What is written where everything is mapped: outside of C the state was  *)
(* coherent, and new is what the program has from now on.                  *)
LEMMA WriteCoherent ==
  ASSUME NEW s \in Process, NEW C \in SUBSET Addr, NEW new \in [C -> Byte], NEW p,
         TrapsPlanted(s), JumpsOK(s), ProgramOK(s, p), ShadowsOK(s, p, Addr \ C),
         \A a \in C : Accessible(s, a) /\ new[a] = p[a],
         \A a \in Addr \ C : Accessible(s, a) => CellOK(s, p, a)
  PROVE  RawsStay(s, Write(s, C, new)) /\ Coherent(Write(s, C, new), p)
<1> DEFINE u == WriteShadows(s, C, new)
           valid == Validate(u, C)
           mem == [a \in Addr |-> IF a \in C
                                  THEN IF OnTop(valid, a) # {} THEN s.mem[a]
                                       ELSE IF Jumped(s, a) THEN Jump ELSE new[a]
                                  ELSE s.mem[a]]
           t == [valid EXCEPT !.mem = mem]
<1>1. Write(s, C, new) = t
  BY DEF Write, WriteShadows, Jumped
<1>2. /\ RawsStay(s, u) /\ u.mem = s.mem
      /\ \A r \in Traps(s) : u.raw[r].old_data = IF s.raw[r].pc \in C THEN new[s.raw[r].pc]
                                                 ELSE s.raw[r].old_data
      /\ \A j \in Addr :
           /\ u.jump[j].refcount = s.jump[j].refcount /\ u.jump[j].inserted = s.jump[j].inserted
           /\ s.jump[j].refcount > 0 =>
                \A i \in 0..(JumpLength - 1) :
                  u.jump[j].shadow[i] = IF j + i \in C THEN new[j + i] ELSE s.jump[j].shadow[i]
  BY ShadowsStay
<1> HIDE DEF u
<1>3. u \in Process /\ TrapsPlanted(u)
  BY <1>2, TrapsSame DEF TrapsPlanted, RawsStay
<1>4. Quiet(u, valid)
  BY <1>3, ValidateQuiet
<1> HIDE DEF valid
<1>5. RawsStay(s, valid) /\ valid.mem = s.mem /\ valid.jump = u.jump /\ valid \in Process
  BY <1>2, <1>4, RawsStayTrans DEF Quiet, RawsStay
<1>6. /\ Traps(valid) = Traps(s)
      /\ \A r \in Traps(s) : valid.raw[r].pc = s.raw[r].pc /\ valid.raw[r].kind = s.raw[r].kind
      /\ \A a : TrapsAt(valid, a) = TrapsAt(s, a)
  BY <1>5, TrapsSame
<1>7. \A r \in Traps(s) : valid.raw[r].old_data = IF s.raw[r].pc \in C THEN new[s.raw[r].pc]
                                                  ELSE s.raw[r].old_data
  BY <1>2, <1>4, TrapsSame DEF Quiet
<1>8. TrapsPlanted(valid)
  BY <1>5, <1>6 DEF TrapsPlanted
<1>9. \A a : OnTop(valid, a) = TrapsAt(s, a)
  BY <1>5, <1>6, <1>8, OnTopIsTraps
<1>10. mem \in [Addr -> Byte]
  <2>1. s.mem \in [Addr -> Byte] /\ Jump \in Byte
    BY Constants DEF Process
  <2> QED
    BY <2>1
<1>11. \A a \in Addr :
         mem[a] = IF a \in C THEN IF TrapsAt(s, a) # {} THEN s.mem[a]
                                  ELSE IF Jumped(s, a) THEN Jump ELSE new[a]
                  ELSE s.mem[a]
  BY <1>9
<1> HIDE DEF mem
<1>12. /\ t \in Process /\ t.mem = mem /\ t.raw = valid.raw /\ t.jump = u.jump
       /\ t.bp = valid.bp /\ t.mapped = s.mapped
  BY <1>5, <1>10 DEF Process, RawsStay
<1> HIDE DEF t
<1>13. RawsStay(s, t)
  BY <1>5, <1>12 DEF RawsStay, Held, Live
<1>14. /\ \A a : TrapsAt(t, a) = TrapsAt(s, a) /\ (Accessible(t, a) <=> Accessible(s, a))
       /\ \A r \in Traps(s) : t.raw[r].pc = s.raw[r].pc /\ t.raw[r].kind = s.raw[r].kind
  BY <1>13, TrapsSame
<1>15. \A a \in Addr : Jumped(t, a) <=> Jumped(s, a)
  BY <1>2, <1>12 DEF Jumped, Over
<1>16. ProgramOK(t, p) /\ JumpsOK(t)
  BY <1>2, <1>12, <1>14 DEF ProgramOK, JumpsOK
<1>17. ShadowsOK(t, p, Addr)
  BY <1>2, <1>12 DEF ShadowsOK
<1>18. ASSUME NEW a \in C PROVE CellOK(t, p, a)
  <2>1. \A r \in TrapsAt(s, a) : r \in Traps(s) /\ s.raw[r].pc = a
    BY DEF TrapsAt
  <2>2. \A r \in TrapsAt(s, a) : t.mem[a] = s.raw[r].kind /\ t.raw[r].old_data = p[a]
    BY <1>7, <1>11, <1>12, <2>1 DEF TrapsPlanted
  <2> QED
    BY <1>11, <1>12, <1>14, <1>15, <2>1, <2>2 DEF CellOK
<1>19. ASSUME NEW a \in Addr \ C, Accessible(s, a) PROVE CellOK(t, p, a)
  <2>1. \A r \in TrapsAt(s, a) : r \in Traps(s) /\ s.raw[r].pc = a
    BY DEF TrapsAt
  <2>2. CellOK(s, p, a)
    BY <1>19
  <2>3. \A r \in TrapsAt(s, a) : t.raw[r].old_data = s.raw[r].old_data
    BY <1>7, <1>12, <2>1
  <2> QED
    BY <1>11, <1>12, <1>14, <1>15, <2>1, <2>2, <2>3 DEF CellOK
<1> QED
  BY <1>1, <1>13, <1>14, <1>16, <1>17, <1>18, <1>19 DEF Coherent

(* A cell that is not mapped cannot be written.                            *)
LEMMA WriteUnmapped ==
  ASSUME NEW s \in Process, NEW p, Coherent(s, p),
         NEW C \in SUBSET Addr, \A a \in C : ~Accessible(s, a), C # {}, NEW new \in [C -> Byte]
  PROVE  Quiet(s, Write(s, C, new))
<1> DEFINE u == WriteShadows(s, C, new)
<1>1. Write(s, C, new) = Validate(u, C)
  BY DEF Write, WriteShadows
<1>2. /\ RawsStay(s, u) /\ u.mem = s.mem
      /\ \A r \in Traps(s) : u.raw[r].old_data = IF s.raw[r].pc \in C THEN new[s.raw[r].pc]
                                                 ELSE s.raw[r].old_data
  BY ShadowsStay
<1>3. \A r \in Traps(s) : u.raw[r].old_data = s.raw[r].old_data
  BY <1>2 DEF Traps
<1>4. u.jump = s.jump
  <2> DEFINE jump == [j \in Addr |->
                       IF s.jump[j].refcount = 0 THEN s.jump[j]
                       ELSE [s.jump[j] EXCEPT !.shadow =
                               [i \in 0..(JumpLength - 1) |-> IF j + i \in C THEN new[j + i] ELSE @[i]]]]
  <2>1. u.jump = jump
    BY DEF WriteShadows, Process
  <2>2. ASSUME NEW j \in Addr PROVE jump[j] = s.jump[j]
    <3>1. CASE s.jump[j].refcount = 0
      BY <3>1
    <3>2. CASE s.jump[j].refcount # 0
      <4>1. s.jump[j].refcount > 0 /\ s.jump[j] \in JumpRec
        BY <3>2 DEF Process, JumpRec
      <4>2. C \cap Cells(j) = {}
        BY <4>1 DEF Coherent, JumpsOK, Accessible
      <4>3. \A i \in 0..(JumpLength - 1) : j + i \in Cells(j)
        BY Constants, MemBreakAssumption DEF Cells
      <4>4. [i \in 0..(JumpLength - 1) |-> IF j + i \in C THEN new[j + i] ELSE s.jump[j].shadow[i]]
              = s.jump[j].shadow
        BY <4>1, <4>2, <4>3 DEF JumpRec
      <4>5. jump[j] = [s.jump[j] EXCEPT !.shadow = s.jump[j].shadow]
        BY <3>2, <4>4
      <4> QED
        BY <4>1, <4>5 DEF JumpRec
    <3> QED
      BY <3>1, <3>2
  <2>3. s.jump = [j \in Addr |-> s.jump[j]]
    BY DEF Process
  <2> QED
    BY <2>1, <2>2, <2>3
<1> HIDE DEF u
<1>5. Quiet(s, u) /\ u \in Process
  BY <1>2, <1>3, <1>4 DEF Quiet, RawsStay
<1>6. TrapsPlanted(u)
  BY <1>5, QuietCoherent, CoherentPlanted
<1> QED
  BY <1>1, <1>5, <1>6, ValidateQuiet, QuietTrans

(* Writing one cell.                                                       *)
LEMMA WriteCell ==
  ASSUME NEW s \in Process, NEW a \in Addr, NEW d \in Byte, NEW p,
         TrapsPlanted(s), JumpsOK(s), ProgramOK(s, p), ShadowsOK(s, p, Addr \ {a}),
         Accessible(s, a), p[a] = d, \A x \in Addr \ {a} : Accessible(s, x) => CellOK(s, p, x)
  PROVE  LET t == Write(s, {a}, [x \in {a} |-> d]) IN RawsStay(s, t) /\ Coherent(t, p)
<1> DEFINE C == {a}
           new == [x \in C |-> d]
<1>1. /\ C \in SUBSET Addr /\ new \in [C -> Byte]
      /\ \A x \in C : Accessible(s, x) /\ new[x] = p[x]
  OBVIOUS
<1>2. ShadowsOK(s, p, Addr \ C) /\ \A x \in Addr \ C : Accessible(s, x) => CellOK(s, p, x)
  OBVIOUS
<1> HIDE DEF C, new
<1>3. RawsStay(s, Write(s, C, new)) /\ Coherent(Write(s, C, new), p)
  BY <1>1, <1>2, WriteCoherent
<1> QED
  BY <1>3 DEF C, new

LEMMA WriteUnmappedCell ==
  ASSUME NEW s \in Process, NEW p, Coherent(s, p), NEW a \in Addr, ~Accessible(s, a), NEW d \in Byte
  PROVE  Quiet(s, Write(s, {a}, [x \in {a} |-> d]))
<1> DEFINE C == {a}
           new == [x \in C |-> d]
<1>1. C \in SUBSET Addr /\ new \in [C -> Byte] /\ C # {} /\ \A x \in C : ~Accessible(s, x)
  OBVIOUS
<1> HIDE DEF C, new
<1>2. Quiet(s, Write(s, C, new))
  BY <1>1, WriteUnmapped
<1> QED
  BY <1>2 DEF C, new

-----------------------------------------------------------------------------
(* What every operation of a process keeps.                                *)
V(s, p) == s \in Process /\ Coherent(s, p) /\ KindsOK(s)

(* The high-level breakpoints of such raw ones, but for those in B, are    *)
(* still there, and those that were inserted are.                          *)
Firm(s) == {b \in Bps(s) : s.bp[b].raw \in Held(s)}
Remains(s, t, B) ==
  \A b \in Firm(s) \ B : /\ b \in Firm(t) /\ t.bp[b] = s.bp[b]
                        /\ t.raw[t.bp[b].raw].pc = s.raw[s.bp[b].raw].pc
Holds(s, t, B) ==
  /\ Remains(s, t, B)
  /\ \A b \in Firm(s) \ B : s.raw[s.bp[b].raw].inserted = 1 => t.raw[t.bp[b].raw].inserted = 1

LEMMA HoldsTrans ==
  ASSUME NEW s, NEW t, NEW u, NEW B PROVE
         /\ Remains(s, t, B) /\ Remains(t, u, B) => Remains(s, u, B)
         /\ Holds(s, t, B) /\ Holds(t, u, B) => Holds(s, u, B)
BY DEF Remains, Holds

LEMMA HoldsRefl == ASSUME NEW s, NEW B PROVE Holds(s, s, B)
BY DEF Remains, Holds

LEMMA HoldsMore ==
  ASSUME NEW s, NEW t, NEW B, NEW C, Holds(s, t, B), B \subseteq C PROVE Holds(s, t, C)
BY DEF Remains, Holds

LEMMA StayHolds == ASSUME NEW s, NEW t, RawsStay(s, t) PROVE Holds(s, t, {})
<1> SUFFICES ASSUME NEW b \in Firm(s)
             PROVE  /\ b \in Firm(t) /\ t.bp[b] = s.bp[b]
                    /\ t.raw[t.bp[b].raw].pc = s.raw[s.bp[b].raw].pc
                    /\ t.raw[t.bp[b].raw].inserted = s.raw[s.bp[b].raw].inserted
  BY DEF Holds, Remains
<1>1. b \in Bps(s) /\ b \in BpIds /\ s.bp[b].raw \in Held(s)
  BY DEF Firm, Bps
<1>2. t.bp[b] = s.bp[b] /\ t.raw[s.bp[b].raw].inserted = s.raw[s.bp[b].raw].inserted
  BY <1>1 DEF RawsStay
<1>3. s.bp[b].raw \in Held(t) /\ t.raw[s.bp[b].raw].pc = s.raw[s.bp[b].raw].pc
  BY <1>1, TrapsSame
<1> QED
  BY <1>1, <1>2, <1>3 DEF Firm, Bps

LEMMA QuietV ==
  ASSUME NEW s, NEW t, NEW p, V(s, p), Quiet(s, t) PROVE V(t, p) /\ Holds(s, t, {})
BY QuietCoherent, StayKinds, StayHolds DEF V, Quiet, RawsStay

(* Inserting a raw breakpoint where none is.                               *)
LEMMA InsertV ==
  ASSUME NEW s, NEW p, V(s, p), NEW r \in RawIds, s.raw[r].refcount > 0, s.raw[r].inserted = 0,
         Accessible(s, s.raw[r].pc), TrapsAt(s, s.raw[r].pc) = {}
  PROVE  LET t == Insert(s, r)
         IN  /\ V(t, p) /\ Holds(s, t, {})
             /\ t.raw[r].inserted = 1 /\ t.raw[r].refcount > 0 /\ t.raw[r].pc = s.raw[r].pc
<1> DEFINE a == s.raw[r].pc
           valid == Validate(s, {a})
           planted == [valid.raw[r] EXCEPT !.old_data = View(s, a), !.inserted = 1]
           raw == [valid.raw EXCEPT ![r] = planted]
           mem == [valid.mem EXCEPT ![a] = s.raw[r].kind]
           t == Insert(s, r)
<1>1. /\ s \in Process /\ Coherent(s, p) /\ KindsOK(s) /\ a \in Addr /\ Accessible(s, a)
      /\ s.raw[r].kind \in Byte /\ s.raw[r].kind \in Kinds
  BY Constants DEF V, Process, Raw
<1>2. Quiet(s, valid)
  BY <1>1, CoherentPlanted, ValidateQuiet
<1>3. valid.raw[r] = s.raw[r]
  BY <1>1, ValidateDrops
<1>4. View(s, a) = p[a]
  BY <1>1, ViewIs
<1>5. V(valid, p) /\ Holds(s, valid, {}) /\ valid \in Process
  BY <1>2, QuietV DEF V
<1>7. t = [valid EXCEPT !.raw = raw, !.mem = mem]
  BY <1>1, <1>5 DEF Insert, Process
<1> HIDE DEF valid
<1>6. TrapsAt(valid, a) = {} /\ Accessible(valid, a) /\ valid.mapped = s.mapped
  BY <1>2, TrapsSame DEF Quiet, RawsStay
<1>8. p[a] \in Byte
  BY <1>1, <1>4, ViewType
<1>9. /\ raw \in [RawIds -> Raw] /\ \A q \in RawIds \ {r} : raw[q] = valid.raw[q]
      /\ raw[r].old_data = p[a] /\ raw[r].inserted = 1 /\ raw[r].pc = a
      /\ raw[r].kind = s.raw[r].kind /\ raw[r].refcount = s.raw[r].refcount
  BY <1>3, <1>4, <1>5, <1>8, ZenonT(60) DEF Process, Raw
<1>10. /\ mem \in [Addr -> Byte] /\ mem[a] = s.raw[r].kind
       /\ \A x \in Addr \ {a} : mem[x] = valid.mem[x]
  BY <1>1, <1>5 DEF Process
<1> HIDE DEF planted, raw, mem, t, a
<1>11. /\ t \in Process /\ t.raw = raw /\ t.mem = mem /\ t.jump = valid.jump /\ t.bp = valid.bp
       /\ t.mapped = valid.mapped
  BY <1>5, <1>7, <1>9, <1>10 DEF Process
<1>12. \A x : Accessible(t, x) <=> Accessible(valid, x)
  BY <1>11 DEF Accessible
<1>13. \A x : Jumped(t, x) <=> Jumped(valid, x)
  BY <1>11 DEF Jumped, Over
<1>14. \A q \in RawIds \ {r} : q \in Traps(t) <=> q \in Traps(valid)
  BY <1>9, <1>11, <1>12 DEF Traps, Live
<1>15. TrapsAt(t, a) \subseteq {r}
  BY <1>6, <1>9, <1>11, <1>14 DEF TrapsAt, Traps, Live
<1>16. r \in TrapsAt(t, a)
  BY <1>6, <1>9, <1>11, <1>12 DEF TrapsAt, Traps, Live
<1>17. \A x \in Addr \ {a} : TrapsAt(t, x) = TrapsAt(valid, x)
  <2> SUFFICES ASSUME NEW x \in Addr \ {a}, NEW q PROVE q \in TrapsAt(t, x) <=> q \in TrapsAt(valid, x)
    OBVIOUS
  <2>1. CASE q = r
    BY <1>3, <1>9, <1>11, <2>1 DEF TrapsAt, a
  <2>2. CASE q # r
    BY <1>9, <1>11, <1>14, <2>2 DEF TrapsAt, Traps, Live
  <2> QED
    BY <2>1, <2>2
<1>18. CellOK(t, p, a)
  BY <1>9, <1>10, <1>11, <1>15, <1>16 DEF CellOK
<1>19. ASSUME NEW x \in Addr \ {a}, Accessible(t, x) PROVE CellOK(t, p, x)
  <2>1. CellOK(valid, p, x)
    BY <1>5, <1>12, <1>19 DEF V, Coherent
  <2>2. \A q \in TrapsAt(valid, x) : q # r /\ q \in RawIds
    BY <1>3, <1>19 DEF TrapsAt, Traps, Live, a
  <2>3. \A q \in TrapsAt(t, x) : t.raw[q] = valid.raw[q]
    BY <1>9, <1>11, <1>17, <2>2
  <2> QED
    BY <1>10, <1>11, <1>13, <1>17, <2>1, <2>3 DEF CellOK
<1>20. ProgramOK(t, p) /\ JumpsOK(t) /\ ShadowsOK(t, p, Addr)
  BY <1>5, <1>11, <1>12 DEF V, Coherent, ProgramOK, JumpsOK, ShadowsOK
<1>21. KindsOK(t)
  <2> SUFFICES ASSUME NEW q \in Live(t), t.raw[q].inserted >= 0
               PROVE  t.raw[q].kind = CodeKind(t.raw[q].pc)
    BY DEF KindsOK
  <2>1. CASE q = r
    BY <1>1, <1>9, <1>11, <2>1 DEF KindsOK, Live, a
  <2>2. CASE q # r
    BY <1>5, <1>9, <1>11, <2>2 DEF V, KindsOK, Live
  <2> QED
    BY <2>1, <2>2
<1>22. Holds(valid, t, {})
  <2> SUFFICES ASSUME NEW b \in Firm(valid)
               PROVE  /\ b \in Firm(t) /\ t.bp[b] = valid.bp[b]
                      /\ t.raw[t.bp[b].raw].pc = valid.raw[valid.bp[b].raw].pc
                      /\ valid.raw[valid.bp[b].raw].inserted = 1 => t.raw[t.bp[b].raw].inserted = 1
    BY DEF Holds, Remains
  <2> DEFINE q == valid.bp[b].raw
  <2>1. q \in Held(valid) /\ b \in Bps(valid) /\ q \in RawIds
    BY DEF Firm, Held, Live
  <2> HIDE DEF q
  <2>2. t.raw[q].pc = valid.raw[q].pc /\ t.raw[q].refcount = valid.raw[q].refcount
        /\ t.raw[q].inserted >= 0 /\ (valid.raw[q].inserted = 1 => t.raw[q].inserted = 1)
    BY <1>3, <1>9, <1>11, <2>1 DEF Held, Live, a
  <2> QED
    BY <1>11, <1>12, <2>1, <2>2 DEF Firm, Held, Live, Bps, q
<1>23. Coherent(t, p)
  BY <1>1, <1>18, <1>19, <1>20 DEF Coherent
<1>24. V(t, p) /\ Holds(s, t, {})
  BY <1>5, <1>11, <1>21, <1>22, <1>23, HoldsTrans DEF V
<1> QED
  BY <1>9, <1>11, <1>24 DEF t, a

-----------------------------------------------------------------------------
(* Taking a raw breakpoint out, and deleting high-level breakpoints.       *)

(* What is planted stays the same.                                         *)
LEMMA SameTraps ==
  ASSUME NEW s, NEW t, NEW p, Coherent(s, p),
         t.mapped = s.mapped, t.mem = s.mem, t.jump = s.jump, Traps(t) = Traps(s),
         \A r \in Traps(s) : /\ t.raw[r].pc = s.raw[r].pc /\ t.raw[r].kind = s.raw[r].kind
                            /\ t.raw[r].old_data = s.raw[r].old_data
  PROVE  Coherent(t, p)
<1>1. \A x : (Accessible(t, x) <=> Accessible(s, x)) /\ (Jumped(t, x) <=> Jumped(s, x))
  BY DEF Accessible, Jumped, Over
<1>2. \A x : TrapsAt(t, x) = TrapsAt(s, x)
  BY DEF TrapsAt
<1>3. \A x \in Addr : CellOK(s, p, x) => CellOK(t, p, x)
  BY <1>1, <1>2 DEF CellOK, TrapsAt
<1>4. ProgramOK(t, p) /\ JumpsOK(t) /\ ShadowsOK(t, p, Addr)
  BY <1>1 DEF Coherent, ProgramOK, JumpsOK, ShadowsOK
<1> QED
  BY <1>1, <1>3, <1>4 DEF Coherent

(* In u, r is not inserted any more, but its trap is still in memory.      *)
LEMMA LiftCoherent ==
  ASSUME NEW s \in Process, NEW p, Coherent(s, p), NEW r \in Traps(s),
         NEW u \in Process, u.mapped = s.mapped, u.mem = s.mem, u.jump = s.jump,
         \A q \in RawIds \ {r} : u.raw[q] = s.raw[q], r \notin Traps(u)
  PROVE  LET a == s.raw[r].pc
             t == Write(u, {a}, [x \in {a} |-> s.raw[r].old_data])
         IN  RawsStay(u, t) /\ Coherent(t, p)
<1> DEFINE a == s.raw[r].pc
           d == s.raw[r].old_data
<1>1. a \in Addr /\ d \in Byte /\ Accessible(s, a) /\ r \in TrapsAt(s, a) /\ r \in RawIds
  BY DEF Traps, TrapsAt, Live, Process, Raw
<1>2. p[a] = d
  BY <1>1 DEF Coherent, CellOK
<1>3. \A x : (Accessible(u, x) <=> Accessible(s, x)) /\ (Jumped(u, x) <=> Jumped(s, x))
  BY DEF Accessible, Jumped, Over
<1>4. \A q \in Traps(u) : q \in Traps(s) /\ q # r /\ u.raw[q] = s.raw[q]
  BY <1>3 DEF Traps, Live
<1>5. TrapsPlanted(u)
  BY <1>4, CoherentPlanted DEF TrapsPlanted
<1>6. \A q \in Traps(s) \ {r} : q \in Traps(u)
  BY <1>3 DEF Traps, Live
<1>7. ASSUME NEW x \in Addr \ {a} PROVE TrapsAt(u, x) = TrapsAt(s, x)
  BY <1>4, <1>6, <1>7 DEF TrapsAt
<1>8. JumpsOK(u) /\ ProgramOK(u, p) /\ ShadowsOK(u, p, Addr \ {a})
  BY <1>3 DEF Coherent, ProgramOK, JumpsOK, ShadowsOK
<1>9. ASSUME NEW x \in Addr \ {a}, Accessible(u, x) PROVE CellOK(u, p, x)
  <2>1. CellOK(s, p, x)
    BY <1>3, <1>9 DEF Coherent
  <2>2. \A q \in TrapsAt(u, x) : u.raw[q] = s.raw[q]
    BY <1>4 DEF TrapsAt
  <2> QED
    BY <1>3, <1>7, <1>9, <2>1, <2>2 DEF CellOK
<1> HIDE DEF a, d
<1>10. LET t == Write(u, {a}, [x \in {a} |-> d]) IN RawsStay(u, t) /\ Coherent(t, p)
  BY <1>1, <1>2, <1>3, <1>5, <1>8, <1>9, WriteCell
<1> QED
  BY <1>10 DEF a, d

LEMMA UninsertV ==
  ASSUME NEW s, NEW p, V(s, p), NEW r \in Traps(s)
  PROVE  V(Uninsert(s, r), p) /\ Remains(s, Uninsert(s, r), {})
<1> DEFINE a == s.raw[r].pc
           u == [s EXCEPT !.raw[r].inserted = 0]
           t == Write(u, {a}, [x \in {a} |-> s.raw[r].old_data])
<1>1. /\ s \in Process /\ r \in RawIds /\ s.raw[r].refcount > 0 /\ s.raw[r].inserted = 1
      /\ Accessible(s, a)
  BY DEF V, Traps, Live
<1>2. Uninsert(s, r) = t
  BY <1>1 DEF Uninsert
<1>3. /\ u \in Process /\ u.mapped = s.mapped /\ u.mem = s.mem /\ u.jump = s.jump /\ u.bp = s.bp
      /\ \A q \in RawIds \ {r} : u.raw[q] = s.raw[q]
      /\ u.raw[r].inserted = 0 /\ u.raw[r].pc = s.raw[r].pc /\ u.raw[r].kind = s.raw[r].kind
      /\ u.raw[r].refcount = s.raw[r].refcount
  BY <1>1 DEF Process, Raw
<1> HIDE DEF u
<1>4. r \notin Traps(u)
  BY <1>3 DEF Traps
<1>5. RawsStay(u, t) /\ Coherent(t, p)
  BY <1>1, <1>3, <1>4, LiftCoherent DEF V
<1>6. KindsOK(u)
  BY <1>1, <1>3 DEF V, KindsOK, Live
<1> HIDE DEF t, a
<1>7. V(t, p)
  BY <1>5, <1>6, StayKinds DEF V, RawsStay
<1>8. Remains(s, u, {})
  BY <1>1, <1>3 DEF Remains, Firm, Held, Live, Bps, Accessible
<1>9. Remains(s, t, {})
  BY <1>5, <1>8, StayHolds, HoldsTrans DEF Holds
<1> QED
  BY <1>2, <1>7, <1>9

(* A raw breakpoint with one reference has one high-level breakpoint.      *)
LEMMA OnlyBp ==
  ASSUME NEW s \in Process, Counted(s), NEW b \in Bps(s), NEW c \in Bps(s),
         s.bp[b].raw = s.bp[c].raw, ~(s.raw[s.bp[b].raw].refcount > 1)
  PROVE  b = c
<1> DEFINE r == s.bp[b].raw
<1>1. r \in RawIds /\ b \in BpsOf(s, r) /\ c \in BpsOf(s, r)
  BY DEF Bps, BpsOf, Process, Bp, FreeBp
<1>2. Cardinality(BpsOf(s, r)) <= 1
  BY <1>1, BpsOfFinite DEF Counted, Process, Raw
<1> HIDE DEF r
<1> SUFFICES ASSUME b # c PROVE FALSE
  OBVIOUS
<1>3. IsFiniteSet(BpsOf(s, r)) /\ {b, c} \subseteq BpsOf(s, r)
  BY <1>1, BpsOfFinite
<1>4. Cardinality({b, c}) <= Cardinality(BpsOf(s, r))
  BY <1>3, FS_Subset
<1>5. Cardinality({b, c}) = 2
  <2>1. IsFiniteSet({b}) /\ Cardinality({b}) = 1
    BY FS_Singleton
  <2>2. Cardinality({b} \cup {c}) = 1 + 1
    BY <2>1, FS_AddElement
  <2>3. {b} \cup {c} = {b, c}
    OBVIOUS
  <2> QED
    BY <2>2, <2>3
<1> QED
  BY <1>2, <1>4, <1>5, BpsOfFinite

LEMMA BpLive ==
  ASSUME NEW s \in Process, Counted(s), NEW b \in Bps(s)
  PROVE  b \in BpIds /\ s.bp[b].raw \in RawIds /\ s.raw[s.bp[b].raw].refcount > 0
<1> DEFINE r == s.bp[b].raw
<1>1. b \in BpIds /\ r \in RawIds /\ b \in BpsOf(s, r)
  BY DEF Bps, BpsOf, Process, Bp, FreeBp
<1>2. Cardinality(BpsOf(s, r)) # 0
  BY <1>1, BpsOfFinite, FS_EmptySet
<1>3. s.raw[r].refcount \in Nat /\ Cardinality(BpsOf(s, r)) <= s.raw[r].refcount
  BY <1>1 DEF Counted, Process, Raw
<1> QED
  BY <1>1, <1>2, <1>3, BpsOfFinite

LEMMA DeleteV ==
  ASSUME NEW s, NEW p, V(s, p), Counted(s), NEW b \in Bps(s)
  PROVE  V(Delete(s, b), p) /\ Holds(s, Delete(s, b), {b})
<1> DEFINE r == s.bp[b].raw
           a == s.raw[r].pc
           d == s.raw[r].old_data
           unlinked == [s EXCEPT !.bp[b] = FreeBp]
           fewer == [unlinked EXCEPT !.raw[r].refcount = @ - 1]
           removed == [unlinked EXCEPT !.raw[r] = FreeRaw]
           out == Write(removed, {a}, [x \in {a} |-> d])
           back == [out EXCEPT !.raw[r] = s.raw[r]]
           t == Delete(s, b)
<1>1. /\ s \in Process /\ b \in BpIds /\ r \in RawIds /\ s.raw[r].refcount > 0 /\ s.raw[r] \in Raw
      /\ a \in Addr /\ d \in Byte /\ Coherent(s, p) /\ KindsOK(s)
  BY BpLive DEF V, Process, Raw
<1>2. t = IF s.raw[r].refcount > 1 THEN fewer
          ELSE IF s.raw[r].inserted # 1 THEN removed
          ELSE IF Accessible(s, a) THEN out ELSE back
  BY DEF Delete
<1>3. /\ unlinked \in Process /\ unlinked.mapped = s.mapped /\ unlinked.mem = s.mem
      /\ unlinked.jump = s.jump /\ unlinked.raw = s.raw
      /\ \A c \in BpIds \ {b} : unlinked.bp[c] = s.bp[c]
  BY <1>1 DEF Process
<1> HIDE DEF t, r, unlinked
<1>4. ASSUME s.raw[r].refcount > 1 PROVE V(fewer, p) /\ Holds(s, fewer, {b})
  <2>1. /\ fewer \in Process /\ fewer.mapped = s.mapped /\ fewer.mem = s.mem
        /\ fewer.jump = s.jump /\ fewer.bp = unlinked.bp
        /\ \A q \in RawIds \ {r} : fewer.raw[q] = s.raw[q]
        /\ fewer.raw[r] = [s.raw[r] EXCEPT !.refcount = @ - 1]
    <3> DEFINE less == [s.raw[r] EXCEPT !.refcount = @ - 1]
               raw == [s.raw EXCEPT ![r] = less]
    <3>1. less \in Raw
      BY <1>1, <1>4 DEF Raw
    <3>2. fewer = [unlinked EXCEPT !.raw = raw]
      BY <1>3
    <3> HIDE DEF less, fewer
    <3>3. /\ raw \in [RawIds -> Raw] /\ raw[r] = less
          /\ \A q \in RawIds \ {r} : raw[q] = s.raw[q]
      BY <1>1, <3>1 DEF Process
    <3> HIDE DEF raw
    <3>4. /\ fewer \in Process /\ fewer.raw = raw /\ fewer.mapped = unlinked.mapped
          /\ fewer.mem = unlinked.mem /\ fewer.jump = unlinked.jump /\ fewer.bp = unlinked.bp
      BY <1>3, <3>2, <3>3 DEF Process
    <3> QED
      BY <1>3, <3>3, <3>4 DEF less
  <2>2. /\ fewer.raw[r].refcount > 0 /\ fewer.raw[r].pc = s.raw[r].pc
        /\ fewer.raw[r].inserted = s.raw[r].inserted /\ fewer.raw[r].kind = s.raw[r].kind
        /\ fewer.raw[r].old_data = s.raw[r].old_data
    BY <1>1, <1>4, <2>1 DEF Raw
  <2> HIDE DEF fewer
  <2>3. \A q \in RawIds : /\ fewer.raw[q].refcount > 0 <=> s.raw[q].refcount > 0
                         /\ fewer.raw[q].pc = s.raw[q].pc /\ fewer.raw[q].kind = s.raw[q].kind
                         /\ fewer.raw[q].inserted = s.raw[q].inserted
                         /\ fewer.raw[q].old_data = s.raw[q].old_data
    BY <1>1, <1>4, <2>1, <2>2
  <2>4. Traps(fewer) = Traps(s) /\ Traps(s) \subseteq RawIds
    BY <2>1, <2>3 DEF Traps, Live, Accessible
  <2>5. Coherent(fewer, p)
    BY <1>1, <2>1, <2>3, <2>4, SameTraps
  <2>6. V(fewer, p)
    BY <1>1, <2>1, <2>3, <2>5 DEF V, KindsOK, Live
  <2>7. Held(fewer) = Held(s) /\ Held(s) \subseteq RawIds
    BY <2>1, <2>3 DEF Held, Live, Accessible
  <2>8. \A c \in Firm(s) \ {b} : c \in BpIds /\ fewer.bp[c] = s.bp[c] /\ s.bp[c].raw \in Held(s)
    BY <1>3, <2>1 DEF Firm, Bps
  <2>9. Holds(s, fewer, {b})
    BY <2>3, <2>7, <2>8 DEF Holds, Remains, Firm, Bps
  <2> QED
    BY <2>6, <2>9
<1>5. ASSUME ~(s.raw[r].refcount > 1)
      PROVE  /\ removed \in Process /\ removed.mapped = s.mapped /\ removed.mem = s.mem
             /\ removed.jump = s.jump /\ KindsOK(removed)
             /\ \A q \in RawIds \ {r} : removed.raw[q] = s.raw[q]
             /\ r \notin Traps(removed) /\ r \notin Held(removed)
             /\ Holds(s, removed, {b})
             /\ r \notin Traps(s) => Coherent(removed, p)
  <2>1. /\ removed \in Process /\ removed.mapped = s.mapped /\ removed.mem = s.mem
        /\ removed.jump = s.jump /\ removed.bp = unlinked.bp
        /\ \A q \in RawIds \ {r} : removed.raw[q] = s.raw[q]
        /\ removed.raw[r].refcount = 0
    BY <1>1, <1>3, Constants DEF Process
  <2> HIDE DEF removed
  <2>2. r \notin Traps(removed) /\ r \notin Held(removed)
    BY <2>1 DEF Traps, Held, Live
  <2>3. KindsOK(removed)
    BY <1>1, <2>1 DEF KindsOK, Live
  <2>4. ASSUME NEW c \in Firm(s) \ {b}
        PROVE  /\ c \in Firm(removed) /\ removed.bp[c] = s.bp[c]
               /\ removed.raw[s.bp[c].raw] = s.raw[s.bp[c].raw]
    <3>1. c \in Bps(s) /\ c \in BpIds /\ s.bp[c].raw \in Held(s)
      BY <2>4 DEF Firm, Bps
    <3>2. s.bp[c].raw # r
      BY <1>1, <1>5, <2>4, <3>1, OnlyBp DEF r
    <3>3. removed.bp[c] = s.bp[c] /\ removed.raw[s.bp[c].raw] = s.raw[s.bp[c].raw]
      BY <1>3, <2>1, <2>4, <3>1, <3>2 DEF Held, Live
    <3> QED
      BY <2>1, <3>1, <3>3 DEF Firm, Bps, Held, Live, Accessible
  <2>5. Holds(s, removed, {b})
    BY <2>4 DEF Holds, Remains
  <2>6. ASSUME r \notin Traps(s) PROVE Coherent(removed, p)
    <3>1. Traps(removed) = Traps(s) /\ \A q \in Traps(s) : q \in RawIds \ {r}
      BY <2>1, <2>2, <2>6 DEF Traps, Live, Accessible
    <3> QED
      BY <1>1, <2>1, <3>1, SameTraps
  <2> QED
    BY <2>1, <2>2, <2>3, <2>5, <2>6
<1> HIDE DEF removed
<1>6. ASSUME ~(s.raw[r].refcount > 1), s.raw[r].inserted # 1
      PROVE  V(removed, p) /\ Holds(s, removed, {b})
  BY <1>5, <1>6 DEF V, Traps
<1>7. ASSUME ~(s.raw[r].refcount > 1), s.raw[r].inserted = 1, Accessible(s, a)
      PROVE  V(out, p) /\ Holds(s, out, {b})
  <2>1. r \in Traps(s)
    BY <1>1, <1>7 DEF Traps, Live
  <2>2. RawsStay(removed, out) /\ Coherent(out, p)
    BY <1>1, <1>5, <1>7, <2>1, LiftCoherent
  <2> HIDE DEF out
  <2>3. V(out, p)
    BY <1>5, <1>7, <2>2, StayKinds DEF V, RawsStay
  <2> QED
    BY <1>5, <1>7, <2>2, <2>3, StayHolds, HoldsMore, HoldsTrans
<1>8. ASSUME ~(s.raw[r].refcount > 1), s.raw[r].inserted = 1, ~Accessible(s, a)
      PROVE  V(back, p) /\ Holds(s, back, {b})
  <2>1. r \notin Traps(s)
    BY <1>8 DEF Traps
  <2>2. ~Accessible(removed, a)
    BY <1>5, <1>8 DEF Accessible
  <2>3. Quiet(removed, out)
    BY <1>1, <1>5, <1>8, <2>1, <2>2, WriteUnmappedCell
  <2> HIDE DEF out
  <2>4. V(removed, p)
    BY <1>5, <1>8, <2>1 DEF V
  <2>5. V(out, p) /\ Holds(removed, out, {b})
    BY <2>3, <2>4, QuietV, HoldsMore
  <2>6. out.mapped = s.mapped /\ r \notin Traps(out) /\ r \notin Held(out)
    BY <1>5, <1>8, <2>3, TrapsSame DEF Quiet, RawsStay
  <2>7. /\ back \in Process /\ back.mapped = s.mapped /\ back.mem = out.mem
        /\ back.jump = out.jump /\ back.bp = out.bp
        /\ \A q \in RawIds \ {r} : back.raw[q] = out.raw[q]
        /\ back.raw[r] = s.raw[r]
    BY <1>1, <2>5, <2>6 DEF V, Process
  <2> HIDE DEF back
  <2>8. r \notin Traps(back)
    BY <1>8, <2>7 DEF Traps, Accessible
  <2>9. Traps(back) = Traps(out) /\ \A q \in Traps(out) : q \in RawIds \ {r}
    BY <2>6, <2>7, <2>8 DEF Traps, Live, Accessible
  <2>10. Coherent(back, p)
    BY <2>5, <2>6, <2>7, <2>9, SameTraps DEF V
  <2>11. KindsOK(back)
    BY <1>1, <2>5, <2>7 DEF V, KindsOK, Live
  <2>12. Holds(out, back, {b})
    <3>1. \A q \in Held(out) : q \in RawIds \ {r} /\ q \in Held(back) /\ back.raw[q] = out.raw[q]
      BY <2>6, <2>7 DEF Held, Live, Accessible
    <3> QED
      BY <2>7, <3>1 DEF Holds, Remains, Firm, Bps
  <2> QED
    BY <1>5, <1>8, <2>5, <2>7, <2>10, <2>11, <2>12, HoldsTrans DEF V
<1> HIDE DEF fewer, out, back
<1>9. V(t, p) /\ Holds(s, t, {b})
  BY <1>2, <1>4, <1>6, <1>7, <1>8
<1> QED
  BY <1>9 DEF t

-----------------------------------------------------------------------------
(* Setting breakpoints.                                                    *)

(* Of the high-level breakpoints, nothing but that some may be deleted.    *)
Shrinks(s, t) ==
  \A q \in Bps(t) : /\ q \in Bps(s) /\ t.bp[q] = s.bp[q]
                   /\ t.raw[t.bp[q].raw].pc = s.raw[s.bp[q].raw].pc

LEMMA ShrinksTrans ==
  ASSUME NEW s, NEW t, NEW u, Shrinks(s, t), Shrinks(t, u) PROVE Shrinks(s, u)
BY DEF Shrinks

LEMMA KeepsShrinks ==
  ASSUME NEW s, NEW t, Keeps(s, t), Counted(t) PROVE Shrinks(s, t)
<1> SUFFICES ASSUME NEW q \in Bps(t)
             PROVE  /\ q \in Bps(s) /\ t.bp[q] = s.bp[q]
                    /\ t.raw[t.bp[q].raw].pc = s.raw[s.bp[q].raw].pc
  BY DEF Shrinks
<1>1. q \in BpIds /\ t.bp[q].raw \in RawIds /\ t.raw[t.bp[q].raw].refcount > 0
  BY BpLive DEF Keeps
<1>2. t.bp[q] = s.bp[q] /\ q \in Bps(s)
  BY <1>1 DEF Keeps, Bps, FreeBp
<1> QED
  BY <1>1, <1>2 DEF Keeps

LEMMA ChangesShrinks ==
  ASSUME NEW s, NEW t, NEW r, NEW I, Changes(s, t, r, I), Counted(t) PROVE Shrinks(s, t)
<1> SUFFICES ASSUME NEW q \in Bps(t)
             PROVE  /\ q \in Bps(s) /\ t.bp[q] = s.bp[q]
                    /\ t.raw[t.bp[q].raw].pc = s.raw[s.bp[q].raw].pc
  BY DEF Shrinks
<1>1. q \in BpIds /\ t.bp[q].raw \in RawIds /\ t.raw[t.bp[q].raw].refcount > 0
  BY BpLive DEF Changes
<1>2. t.bp[q] = s.bp[q] /\ q \in Bps(s)
  BY <1>1 DEF Changes, Bps, FreeBp
<1> QED
  BY <1>1, <1>2 DEF Changes

LEMMA TagNone == ASSUME NEW s \in Process PROVE Tag(s, {}) = s
<1>1. Tag(s, {}) = [s EXCEPT !.raw = [r \in RawIds |-> s.raw[r]]]
  BY DEF Tag
<1>2. [r \in RawIds |-> s.raw[r]] = s.raw
  BY DEF Process
<1> QED
  BY <1>1, <1>2 DEF Process

LEMMA SetRawV ==
  ASSUME NEW s, NEW p, NEW x, V(s, p), Good(s, x), Counted(s), Room(s), NEW a \in Addr,
         CodeKind(a) \in Kinds
  PROVE  LET set == SetRaw(s, a, CodeKind(a))
             t == set.st
             r == set.raw
         IN  /\ V(t, p) /\ Holds(s, t, {}) /\ Shrinks(s, t)
             /\ Accessible(s, a) => r # 0
             /\ r # 0 => /\ r \in RawIds /\ t.raw[r].refcount > 0 /\ t.raw[r].pc = a
                         /\ t.raw[r].inserted = 1
<1> DEFINE k == CodeKind(a)
           same == {r \in Enabled(s, a) : s.raw[r].kind = k}
           R == Enabled(s, a) \ same
           r == IF same # {} THEN CHOOSE q \in same : TRUE ELSE CHOOSE q \in RawIds \ Live(s) : TRUE
           new == [FreeRaw EXCEPT !.pc = a, !.kind = k, !.refcount = 1]
           more == [s.raw[r] EXCEPT !.refcount = @ + 1]
           linked == IF same # {} THEN [s EXCEPT !.raw[r] = more] ELSE [s EXCEPT !.raw[r] = new]
           valid == Validate(s, {a})
           set == SetRaw(s, a, k)
<1>1. s \in Process /\ Coherent(s, p) /\ KindsOK(s)
  BY DEF V
<1>2. R = {}
  BY <1>1 DEF KindsOK, Enabled, At
<1>3. Tag(s, R) = s
  BY <1>1, <1>2, TagNone
<1>4. r \in RawIds /\ (same # {} => r \in same) /\ (same = {} => r \notin Live(s))
  BY DEF Room, Live, Enabled, At
<1>5. set = CASE same # {} /\ s.raw[r].inserted = 1 -> [st |-> linked, raw |-> r]
              [] (same = {} \/ s.raw[r].inserted = 0) /\ Accessible(s, a)
                   -> [st |-> Insert(linked, r), raw |-> r]
              [] OTHER -> [st |-> valid, raw |-> 0]
  BY <1>3 DEF SetRaw
<1> HIDE DEF r, set
<1>6. /\ V(valid, p) /\ Holds(s, valid, {}) /\ Shrinks(s, valid)
  <2>1. Quiet(s, valid)
    BY <1>1, CoherentPlanted, ValidateQuiet
  <2>2. Keeps(s, valid) /\ Counted(valid)
    BY <1>1, ValidateKeeps, ValidateDrops, DropsCounted DEF Keeps
  <2> QED
    BY <2>1, <2>2, QuietV, KeepsShrinks
<1> HIDE DEF valid
<1> HIDE DEF k
<1>7. new \in Raw /\ new.pc = a /\ new.inserted = 0 /\ new.refcount = 1 /\ new.kind = k
  BY Constants DEF FreeRaw, Raw, k
<1> HIDE DEF new
<1>8. same # {} => s.raw[r].pc = a /\ s.raw[r].refcount > 0 /\ s.raw[r].inserted >= 0
                   /\ s.raw[r].kind = k
  BY <1>4 DEF Enabled, At, Live
<1>9. same # {} => more \in Raw /\ more.pc = a /\ more.inserted = s.raw[r].inserted /\ more.refcount > 0
                   /\ more.kind = k /\ more.old_data = s.raw[r].old_data
  <2> SUFFICES ASSUME same # {}
               PROVE  more \in Raw /\ more.pc = a /\ more.inserted = s.raw[r].inserted /\ more.refcount > 0
                      /\ more.kind = k /\ more.old_data = s.raw[r].old_data
    OBVIOUS
  <2>1. s.raw[r] \in Raw
    BY <1>1, <1>4 DEF Process
  <2> HIDE DEF same
  <2> QED
    BY <1>8, <2>1 DEF Raw
<1> HIDE DEF more
<1> DEFINE rec == IF same # {} THEN more ELSE new
           raw == [s.raw EXCEPT ![r] = rec]
<1>10. linked = [s EXCEPT !.raw = raw]
  OBVIOUS
<1>11. rec \in Raw /\ rec.pc = a /\ rec.kind = k /\ rec.refcount > 0
       /\ (same # {} => rec.inserted = s.raw[r].inserted /\ rec.old_data = s.raw[r].old_data)
       /\ (same = {} => rec.inserted = 0)
  BY <1>7, <1>9
<1>12. same = {} => r \notin Live(s)
  BY <1>4
<1>13. same = {q \in RawIds : s.raw[q].refcount > 0 /\ s.raw[q].pc = a /\ s.raw[q].inserted >= 0}
  BY <1>2 DEF Enabled, At, Live
<1> HIDE DEF linked, rec, same
<1>14. raw \in [RawIds -> Raw] /\ raw[r] = rec /\ \A q \in RawIds \ {r} : raw[q] = s.raw[q]
  BY <1>1, <1>4, <1>11 DEF Process
<1> HIDE DEF raw
<1>15. /\ linked \in Process /\ linked.mapped = s.mapped /\ linked.mem = s.mem
       /\ linked.jump = s.jump /\ linked.bp = s.bp
       /\ linked.raw[r] = rec /\ \A q \in RawIds \ {r} : linked.raw[q] = s.raw[q]
  BY <1>1, <1>10, <1>14 DEF Process
<1>16. \A q \in Live(s) : /\ q \in Live(linked) /\ linked.raw[q].pc = s.raw[q].pc
                         /\ linked.raw[q].kind = s.raw[q].kind
                         /\ linked.raw[q].inserted = s.raw[q].inserted
                         /\ linked.raw[q].old_data = s.raw[q].old_data
  <2> SUFFICES ASSUME NEW q \in Live(s)
               PROVE  /\ q \in Live(linked) /\ linked.raw[q].pc = s.raw[q].pc
                      /\ linked.raw[q].kind = s.raw[q].kind
                      /\ linked.raw[q].inserted = s.raw[q].inserted
                      /\ linked.raw[q].old_data = s.raw[q].old_data
    OBVIOUS
  <2>1. CASE q = r
    BY <1>8, <1>11, <1>12, <1>15, <2>1 DEF Live
  <2>2. CASE q # r
    BY <1>15, <2>2 DEF Live
  <2> QED
    BY <2>1, <2>2
<1>17. \A q \in Live(linked) : q \in Live(s) \/ (q = r /\ linked.raw[q].inserted = 0)
  <2> SUFFICES ASSUME NEW q \in Live(linked)
               PROVE  q \in Live(s) \/ (q = r /\ linked.raw[q].inserted = 0)
    OBVIOUS
  <2>1. CASE q = r
    BY <1>4, <1>8, <1>11, <1>15, <2>1 DEF Live
  <2>2. CASE q # r
    BY <1>15, <2>2 DEF Live
  <2> QED
    BY <2>1, <2>2
<1>18. Traps(linked) = Traps(s) /\ Traps(s) \subseteq Live(s)
  BY <1>15, <1>16, <1>17 DEF Traps, Accessible
<1>19. Coherent(linked, p)
  BY <1>1, <1>15, <1>16, <1>18, SameTraps
<1>20. KindsOK(linked)
  <2> SUFFICES ASSUME NEW q \in Live(linked), linked.raw[q].inserted >= 0
               PROVE  linked.raw[q].kind = CodeKind(linked.raw[q].pc)
    BY DEF KindsOK
  <2>1. CASE q = r
    BY <1>11, <1>15, <2>1 DEF k
  <2>2. CASE q # r
    BY <1>1, <1>15, <2>2 DEF KindsOK, Live
  <2> QED
    BY <2>1, <2>2
<1>21. V(linked, p)
  BY <1>15, <1>19, <1>20 DEF V
<1>22. Holds(s, linked, {})
  <2> SUFFICES ASSUME NEW b \in Firm(s)
               PROVE  /\ b \in Firm(linked) /\ linked.bp[b] = s.bp[b]
                      /\ linked.raw[s.bp[b].raw].pc = s.raw[s.bp[b].raw].pc
                      /\ linked.raw[s.bp[b].raw].inserted = s.raw[s.bp[b].raw].inserted
    BY DEF Holds, Remains
  <2>1. b \in Bps(s) /\ s.bp[b].raw \in Held(s) /\ s.bp[b].raw \in Live(s)
    BY DEF Firm, Held
  <2> QED
    BY <1>15, <1>16, <2>1 DEF Firm, Bps, Held, Accessible
<1>23. Shrinks(s, linked)
  <2> SUFFICES ASSUME NEW b \in Bps(linked)
               PROVE  /\ b \in Bps(s) /\ linked.bp[b] = s.bp[b]
                      /\ linked.raw[s.bp[b].raw].pc = s.raw[s.bp[b].raw].pc
    BY <1>15 DEF Shrinks
  <2>1. b \in Bps(s)
    BY <1>15 DEF Bps
  <2>2. s.bp[b].raw \in Live(s)
    BY <1>1, <2>1, BpLive DEF Live
  <2> QED
    BY <1>15, <1>16, <2>1, <2>2
<1>24. ASSUME same = {} \/ s.raw[r].inserted = 0, Accessible(s, a), Counted(Insert(linked, r))
       PROVE  LET t == Insert(linked, r)
              IN  /\ V(t, p) /\ Holds(s, t, {}) /\ Shrinks(s, t)
                  /\ t.raw[r].inserted = 1 /\ t.raw[r].refcount > 0 /\ t.raw[r].pc = a
  <2>1. linked.raw[r].inserted = 0 /\ linked.raw[r].refcount > 0 /\ linked.raw[r].pc = a
    BY <1>11, <1>15, <1>24
  <2>2. Accessible(linked, a)
    BY <1>15, <1>24 DEF Accessible
  <2>3. TrapsAt(linked, a) = {}
    <3> SUFFICES ASSUME NEW q \in TrapsAt(linked, a) PROVE FALSE
      OBVIOUS
    <3>1. q \in Traps(s) /\ q # r /\ q \in RawIds
      BY <1>18, <2>1 DEF TrapsAt, Traps, Live
    <3>2. s.raw[q].refcount > 0 /\ s.raw[q].pc = a /\ s.raw[q].inserted >= 0
      BY <1>15, <3>1 DEF TrapsAt, Traps, Live
    <3>3. q \in same
      BY <1>13, <3>1, <3>2
    <3> QED
      BY <1>4, <1>8, <3>1, <3>2, <3>3 DEF Good, OneEnabled
  <2> DEFINE t == Insert(linked, r)
  <2>4. /\ V(t, p) /\ Holds(linked, t, {})
        /\ t.raw[r].inserted = 1 /\ t.raw[r].refcount > 0 /\ t.raw[r].pc = linked.raw[r].pc
    BY <1>4, <1>21, <2>1, <2>2, <2>3, InsertV
  <2>5. Changes(linked, t, r, {1})
    BY <1>4, <1>15, <2>1, <2>2, InsertChanges
  <2>6. Shrinks(linked, t)
    BY <1>24, <2>5, ChangesShrinks
  <2> QED
    BY <1>22, <1>23, <2>1, <2>4, <2>6, HoldsTrans, ShrinksTrans
<1>25. Counted(set.st)
  BY <1>1, SetRawCounted DEF set, k
<1>26. s.raw[r].inserted \in {-1, 0, 1}
  BY <1>1, <1>4 DEF Process, Raw
<1>31. r # 0
  BY <1>4, MemBreakAssumption DEF RawIds
<1>27. \/ set = [st |-> linked, raw |-> r] /\ same # {} /\ s.raw[r].inserted = 1
       \/ set = [st |-> Insert(linked, r), raw |-> r] /\ (same = {} \/ s.raw[r].inserted = 0)
          /\ Accessible(s, a)
       \/ set = [st |-> valid, raw |-> 0] /\ ~Accessible(s, a)
  <2>1. CASE same # {} /\ s.raw[r].inserted = 1
    BY <1>5, <2>1
  <2>2. CASE (same = {} \/ s.raw[r].inserted = 0) /\ Accessible(s, a)
    <3>1. ~(same # {} /\ s.raw[r].inserted = 1)
      BY <2>2
    <3> QED
      BY <1>5, <2>2, <3>1
  <2>3. CASE ~(same # {} /\ s.raw[r].inserted = 1) /\ ~Accessible(s, a)
    BY <1>5, <2>3
  <2>4. same # {} => s.raw[r].inserted \in {0, 1}
    BY <1>8, <1>26
  <2> QED
    BY <2>1, <2>2, <2>3, <2>4
<1>28. CASE set = [st |-> linked, raw |-> r] /\ same # {} /\ s.raw[r].inserted = 1
  BY <1>4, <1>11, <1>15, <1>21, <1>22, <1>23, <1>28, <1>31 DEF set, k
<1>29. CASE set = [st |-> Insert(linked, r), raw |-> r] /\ (same = {} \/ s.raw[r].inserted = 0)
            /\ Accessible(s, a)
  <2>1. Counted(Insert(linked, r))
    BY <1>25, <1>29
  <2> QED
    BY <1>4, <1>24, <1>29, <1>31, <2>1 DEF set, k
<1>30. CASE set = [st |-> valid, raw |-> 0] /\ ~Accessible(s, a)
  BY <1>6, <1>30 DEF set, k
<1> QED
  BY <1>27, <1>28, <1>29, <1>30

(* High-level breakpoint b is new, and its raw one is inserted at a.       *)
Adds(s, t, b, type, a) ==
  /\ b \in Bps(t) /\ t.bp[b].type = type
  /\ t.bp[b].raw \in RawIds /\ t.raw[t.bp[b].raw].refcount > 0
  /\ t.raw[t.bp[b].raw].pc = a /\ t.raw[t.bp[b].raw].inserted = 1
  /\ \A q \in Bps(t) \ {b} : /\ q \in Bps(s) /\ t.bp[q] = s.bp[q]
                            /\ t.raw[t.bp[q].raw].pc = s.raw[s.bp[q].raw].pc

LEMMA SetBreakpointV ==
  ASSUME NEW s, NEW p, NEW x, V(s, p), Good(s, x), Counted(s), Room(s), NEW a \in Addr,
         CodeKind(a) \in Kinds, NEW type \in {"gdb", "other", "step"}
  PROVE  LET t == SetBreakpoint(s, type, a, CodeKind(a))
         IN  /\ V(t, p) /\ Holds(s, t, {})
             /\ \/ ~Accessible(s, a) /\ Shrinks(s, t)
                \/ \E b \in BpIds : Adds(s, t, b, type, a)
<1> DEFINE set == SetRaw(s, a, CodeKind(a))
           v == set.st
           r == set.raw
           b == CHOOSE q \in BpIds \ Bps(v) : TRUE
           new == [type |-> type, raw |-> r]
           u == [v EXCEPT !.bp[b] = new]
           t == SetBreakpoint(s, type, a, CodeKind(a))
<1>1. /\ V(v, p) /\ Holds(s, v, {}) /\ Shrinks(s, v)
      /\ Accessible(s, a) => r # 0
      /\ r # 0 => /\ r \in RawIds /\ v.raw[r].refcount > 0 /\ v.raw[r].pc = a
                  /\ v.raw[r].inserted = 1
  BY SetRawV
<1>2. v \in Process /\ \A q \in BpIds : v.bp[q] \in {s.bp[q], FreeBp}
  BY SetRawGood DEF Good
<1>3. t = IF r = 0 THEN v ELSE u
  BY DEF SetBreakpoint
<1> HIDE DEF v, r, t
<1>4. b \in BpIds /\ b \notin Bps(v)
  BY <1>2 DEF Room, Bps, FreeBp
<1> HIDE DEF b
<1>5. CASE r = 0
  BY <1>1, <1>3, <1>5 DEF t
<1>6. CASE r # 0
  <2>1. r \in RawIds /\ v.raw[r].refcount > 0 /\ v.raw[r].pc = a /\ v.raw[r].inserted = 1
    BY <1>1, <1>6
  <2>2. new \in Bp /\ new.type = type /\ new.raw = r /\ new.type # "none"
    BY <2>1 DEF Bp
  <2> HIDE DEF new
  <2> DEFINE bp == [v.bp EXCEPT ![b] = new]
  <2>3. /\ bp \in [BpIds -> Bp \cup {FreeBp}] /\ bp[b] = new
        /\ \A q \in BpIds \ {b} : bp[q] = v.bp[q]
    BY <1>2, <1>4, <2>2 DEF Process
  <2> HIDE DEF bp
  <2>4. u = [v EXCEPT !.bp = bp]
    BY DEF bp
  <2> HIDE DEF u
  <2>5. /\ u \in Process /\ u.bp = bp /\ u.raw = v.raw /\ u.mapped = v.mapped
        /\ u.mem = v.mem /\ u.jump = v.jump
    BY <1>2, <2>3, <2>4 DEF Process
  <2>6. Traps(u) = Traps(v) /\ Held(u) = Held(v) /\ Live(u) = Live(v)
    BY <2>5 DEF Traps, Held, Live, Accessible
  <2>7. Coherent(u, p)
    BY <1>1, <2>5, <2>6, SameTraps DEF V
  <2>8. V(u, p)
    BY <1>1, <2>5, <2>6, <2>7 DEF V, KindsOK
  <2>9. Bps(u) = Bps(v) \cup {b}
    BY <1>4, <2>2, <2>3, <2>5 DEF Bps
  <2>10. \A q \in Bps(v) : q \in BpIds \ {b} /\ u.bp[q] = v.bp[q]
    BY <1>4, <2>3, <2>5 DEF Bps
  <2>11. Holds(v, u, {})
    BY <2>5, <2>6, <2>9, <2>10 DEF Holds, Remains, Firm
  <2>12. Adds(s, u, b, type, a)
    BY <1>1, <2>1, <2>2, <2>3, <2>5, <2>9, <2>10 DEF Adds, Shrinks
  <2>13. V(t, p) /\ Holds(s, t, {}) /\ Adds(s, t, b, type, a)
    BY <1>1, <1>3, <1>6, <2>8, <2>11, <2>12, HoldsTrans
  <2> QED
    BY <1>4, <2>13 DEF t
<1> QED
  BY <1>5, <1>6

(* At most one breakpoint of the client at an address.                     *)
OneGdb(s) ==
  \A b, c \in Bps(s) : /\ s.bp[b].type = "gdb" /\ s.bp[c].type = "gdb"
                      /\ s.raw[s.bp[b].raw].pc = s.raw[s.bp[c].raw].pc
                      => b = c

LEMMA ShrinksGdb ==
  ASSUME NEW s, NEW t, Shrinks(s, t)
  PROVE  /\ OneGdb(s) => OneGdb(t)
         /\ \A a : GdbBpsAt(t, a) \subseteq GdbBpsAt(s, a)
         /\ StepBps(t) \subseteq StepBps(s)
<1>1. OneGdb(s) => OneGdb(t)
  BY DEF Shrinks, OneGdb
<1>2. \A a : GdbBpsAt(t, a) \subseteq GdbBpsAt(s, a)
  BY DEF Shrinks, GdbBpsAt
<1>3. StepBps(t) \subseteq StepBps(s)
  BY DEF Shrinks, StepBps
<1> QED
  BY <1>1, <1>2, <1>3

LEMMA AddsGdb ==
  ASSUME NEW s, NEW t, NEW b, NEW a, Adds(s, t, b, "gdb", a), OneGdb(s), GdbBpsAt(s, a) = {}
  PROVE  OneGdb(t) /\ b \in GdbBpsAt(t, a) /\ StepBps(t) \subseteq StepBps(s)
<1>1. b \in GdbBpsAt(t, a)
  BY DEF Adds, GdbBpsAt
<1>2. StepBps(t) \subseteq StepBps(s)
  BY DEF Adds, StepBps
<1>3. \A q \in Bps(t) \ {b} : t.bp[q].type = "gdb" => t.raw[t.bp[q].raw].pc # a
  BY DEF Adds, GdbBpsAt
<1>4. OneGdb(t)
  BY <1>3 DEF Adds, OneGdb
<1> QED
  BY <1>1, <1>2, <1>4

(* Where the client has a breakpoint in code that is mapped, its raw one   *)
(* is not known to be gone.                                                *)
GdbFirm(s, a) == Accessible(s, a) => GdbBpsAt(s, a) \cap Firm(s) # {}

LEMMA DeleteDisabledLeaves ==
  ASSUME NEW s \in Process, NEW b \in Bps(DeleteDisabled(s))
  PROVE  DeleteDisabled(s).raw[DeleteDisabled(s).bp[b].raw].inserted # -1
<1> DEFINE t == DeleteDisabled(s)
<1>1. /\ b \in Bps(s) /\ b \in BpIds /\ s.bp[b].raw \in RawIds
      /\ t.bp[b] = s.bp[b] /\ s.raw[s.bp[b].raw].inserted # -1
  BY DEF DeleteDisabled, Bps, Process, Bp, FreeBp
<1> QED
  BY <1>1, DeleteDisabledDrops

LEMMA DeleteGone ==
  ASSUME NEW s \in Process, NEW b \in Bps(s) PROVE b \notin Bps(Delete(s, b))
<1> DEFINE r == s.bp[b].raw
           a == s.raw[r].pc
           unlinked == [s EXCEPT !.bp[b] = FreeBp]
           fewer == [unlinked EXCEPT !.raw[r].refcount = @ - 1]
           removed == [unlinked EXCEPT !.raw[r] = FreeRaw]
           out == Write(removed, {a}, [x \in {a} |-> s.raw[r].old_data])
           back == [out EXCEPT !.raw[r] = s.raw[r]]
<1>1. b \in BpIds /\ r \in RawIds /\ s.raw[r].old_data \in Byte
  BY DEF Bps, Process, Bp, FreeBp, Raw
<1>2. /\ unlinked.bp[b] = FreeBp /\ fewer.bp = unlinked.bp /\ removed.bp = unlinked.bp
  BY <1>1 DEF Process
<1>3. removed \in Process
  BY <1>1, Constants DEF Process
<1> HIDE DEF removed
<1>4. Keeps(removed, out)
  <2>1. [x \in {a} |-> s.raw[r].old_data] \in [{a} -> Byte]
    BY <1>1
  <2> QED
    BY <1>3, <2>1, WriteKeeps
<1> HIDE DEF out
<1>5. out.bp[b] = FreeBp /\ back.bp = out.bp
  BY <1>1, <1>2, <1>4 DEF Keeps, Process
<1>6. Delete(s, b).bp[b] = FreeBp
  <2>1. \/ Delete(s, b) = fewer \/ Delete(s, b) = removed
        \/ Delete(s, b) = out \/ Delete(s, b) = back
    BY DEF Delete, removed, out
  <2> QED
    BY <1>2, <1>5, <2>1
<1> QED
  BY <1>6 DEF Bps, FreeBp

(* Setting the client's breakpoint where it has none.                      *)
LEMMA SetFirstV ==
  ASSUME NEW s, NEW p, NEW x, V(s, p), Good(s, x), Counted(s), Room(s), OneGdb(s),
         NEW a \in Addr, CodeKind(a) \in Kinds, GdbBpsAt(s, a) = {}
  PROVE  LET t == SetBreakpoint(s, "gdb", a, CodeKind(a))
         IN  /\ V(t, p) /\ Holds(s, t, {}) /\ OneGdb(t) /\ StepBps(t) \subseteq StepBps(s)
             /\ GdbBpsAt(t, a) # {} => GdbFirm(t, a)
<1> DEFINE t == SetBreakpoint(s, "gdb", a, CodeKind(a))
<1>1. /\ V(t, p) /\ Holds(s, t, {})
      /\ \/ ~Accessible(s, a) /\ Shrinks(s, t)
         \/ \E b \in BpIds : Adds(s, t, b, "gdb", a)
  BY SetBreakpointV
<1> HIDE DEF t
<1>2. CASE Shrinks(s, t)
  BY <1>1, <1>2, ShrinksGdb DEF t
<1>3. ASSUME NEW b \in BpIds, Adds(s, t, b, "gdb", a)
      PROVE  OneGdb(t) /\ StepBps(t) \subseteq StepBps(s) /\ GdbFirm(t, a)
  <2>1. OneGdb(t) /\ b \in GdbBpsAt(t, a) /\ StepBps(t) \subseteq StepBps(s)
    BY <1>3, AddsGdb
  <2>2. ASSUME Accessible(t, a) PROVE b \in Firm(t)
    BY <1>3, <2>2 DEF Adds, Firm, Held, Live
  <2> QED
    BY <2>1, <2>2 DEF GdbFirm
<1> QED
  BY <1>1, <1>2, <1>3 DEF t

LEMMA SetGdbV ==
  ASSUME NEW s, NEW p, NEW x, V(s, p), Good(s, x), Counted(s), Room(s), OneGdb(s),
         NEW a \in Addr, CodeKind(a) \in Kinds
  PROVE  LET t == SetGdb(s, a, CodeKind(a))
         IN  /\ V(t, p) /\ Holds(s, t, GdbBpsAt(s, a)) /\ OneGdb(t)
             /\ StepBps(t) \subseteq StepBps(s)
             /\ GdbBpsAt(t, a) # {} => GdbFirm(t, a)
<1> DEFINE k == CodeKind(a)
           b == CHOOSE q \in GdbBpsAt(s, a) : TRUE
           r == s.bp[b].raw
           tagged == Tag(s, {r})
           deleted == Delete(tagged, b)
           valid == ValidateAll(s)
           t == SetGdb(s, a, k)
<1>1. s \in Process /\ Coherent(s, p) /\ KindsOK(s)
  BY DEF V
<1>2. t = IF GdbBpsAt(s, a) = {} THEN SetBreakpoint(s, "gdb", a, k)
          ELSE CASE s.raw[r].kind # k -> SetBreakpoint(deleted, "gdb", a, k)
                 [] s.raw[r].kind = k /\ GdbBpsAt(valid, a) = {} -> SetBreakpoint(valid, "gdb", a, k)
                 [] OTHER -> valid
  BY DEF SetGdb
<1>3. GdbBpsAt(s, a) # {} => b \in GdbBpsAt(s, a) /\ GdbBpsAt(s, a) = {b} /\ b \in Bps(s)
  BY DEF OneGdb, GdbBpsAt
<1>4. /\ Quiet(s, valid) /\ valid \in Process /\ V(valid, p) /\ Counted(valid) /\ Good(valid, x)
      /\ Room(valid) /\ Shrinks(s, valid) /\ Holds(s, valid, {})
  <2>1. Quiet(s, valid)
    BY <1>1, CoherentPlanted, ValidateQuiet
  <2>2. Keeps(s, valid) /\ Counted(valid)
    BY <1>1, ValidateAllKeeps, ValidateAllDrops, DropsCounted DEF Keeps
  <2> HIDE DEF valid
  <2> QED
    BY <2>1, <2>2, QuietV, KeepsShrinks, KeepsGood, KeepsRoom DEF Keeps
<1>5. \A c \in Bps(valid) : valid.raw[valid.bp[c].raw].inserted # -1
  <2> DEFINE u == Tag(s, {q \in Gone(s, Addr) : BpsOf(s, q) # {}})
  <2>1. u \in Process /\ valid = DeleteDisabled(u)
    BY <1>1, TagKeeps DEF ValidateAll, Keeps
  <2> HIDE DEF u, valid
  <2> QED
    BY <2>1, DeleteDisabledLeaves
<1> HIDE DEF t, b, valid
<1>6. ASSUME GdbBpsAt(s, a) # {}, s.raw[r].kind # k
      PROVE  /\ V(deleted, p) /\ Good(deleted, x) /\ Counted(deleted) /\ Room(deleted)
             /\ Shrinks(s, deleted) /\ Holds(s, deleted, {b}) /\ GdbBpsAt(deleted, a) = {}
  <2>1. b \in Bps(s) /\ r \in RawIds /\ s.raw[r].refcount > 0 /\ s.raw[r].pc = a
    BY <1>1, <1>3, <1>6, BpLive DEF GdbBpsAt
  <2>2. ~(s.raw[r].inserted >= 0)
    BY <1>1, <1>6, <2>1 DEF KindsOK, Live
  <2>3. {r} \cap Held(s) = {}
    BY <2>2 DEF Held
  <2> HIDE DEF r
  <2>4. Quiet(s, tagged)
    BY <1>1, <2>3, TagQuiet
  <2>5. Keeps(s, tagged) /\ tagged.bp = s.bp /\ Drops(s, tagged)
    <3>1. tagged.bp = s.bp
      BY <1>1 DEF Tag, Process
    <3> QED
      BY <1>1, <3>1, TagKeeps, TagDrops
  <2> HIDE DEF tagged
  <2>6. V(tagged, p) /\ Holds(s, tagged, {b})
    BY <2>4, QuietV, HoldsMore
  <2>7. b \in Bps(tagged) /\ tagged \in Process /\ Counted(tagged)
    BY <1>1, <2>1, <2>5, DropsCounted DEF Bps, Keeps
  <2>8. V(deleted, p) /\ Holds(tagged, deleted, {b})
    BY <2>6, <2>7, DeleteV
  <2>9. Keeps(s, deleted) /\ Counted(deleted) /\ b \notin Bps(deleted)
    BY <2>5, <2>7, DeleteKeeps, KeepsTrans, DeleteCounted, DeleteGone
  <2> HIDE DEF deleted
  <2>10. Shrinks(s, deleted)
    BY <2>9, KeepsShrinks
  <2>11. GdbBpsAt(deleted, a) = {}
    <3>1. GdbBpsAt(deleted, a) \subseteq {b}
      BY <1>3, <1>6, <2>10, ShrinksGdb
    <3> QED
      BY <2>9, <3>1 DEF GdbBpsAt
  <2> QED
    BY <2>6, <2>8, <2>9, <2>10, <2>11, HoldsTrans, KeepsGood, KeepsRoom
<1> HIDE DEF r, deleted
<1>7. ASSUME NEW u, NEW B, V(u, p), Good(u, x), Counted(u), Room(u), Shrinks(s, u), Holds(s, u, B),
             B \subseteq GdbBpsAt(s, a), GdbBpsAt(u, a) = {}, t = SetBreakpoint(u, "gdb", a, k)
      PROVE  /\ V(t, p) /\ Holds(s, t, GdbBpsAt(s, a)) /\ OneGdb(t)
             /\ StepBps(t) \subseteq StepBps(s)
             /\ GdbBpsAt(t, a) # {} => GdbFirm(t, a)
  <2>1. OneGdb(u) /\ StepBps(u) \subseteq StepBps(s)
    BY <1>7, ShrinksGdb
  <2>2. /\ V(t, p) /\ Holds(u, t, {}) /\ OneGdb(t) /\ StepBps(t) \subseteq StepBps(u)
        /\ GdbBpsAt(t, a) # {} => GdbFirm(t, a)
    BY <1>7, <2>1, SetFirstV
  <2>3. Holds(s, u, GdbBpsAt(s, a)) /\ Holds(u, t, GdbBpsAt(s, a))
    BY <1>7, <2>2, HoldsMore
  <2> QED
    BY <2>1, <2>2, <2>3, HoldsTrans
<1>8. ASSUME t = valid
      PROVE  /\ V(t, p) /\ Holds(s, t, GdbBpsAt(s, a)) /\ OneGdb(t)
             /\ StepBps(t) \subseteq StepBps(s)
             /\ GdbBpsAt(t, a) # {} => GdbFirm(t, a)
  <2>1. OneGdb(t) /\ StepBps(t) \subseteq StepBps(s)
    BY <1>4, <1>8, ShrinksGdb
  <2>2. Holds(s, t, GdbBpsAt(s, a))
    BY <1>4, <1>8, HoldsMore
  <2>3. ASSUME NEW c \in GdbBpsAt(valid, a), Accessible(valid, a) PROVE c \in Firm(valid)
    <3>1. c \in Bps(valid) /\ valid.raw[valid.bp[c].raw].pc = a
      BY <2>3 DEF GdbBpsAt
    <3>2. valid.bp[c].raw \in Live(valid)
      BY <1>4, <3>1, BpLive DEF Live
    <3>3. valid.raw[valid.bp[c].raw].inserted \in {-1, 0, 1}
      BY <1>4, <3>2 DEF Live, Process, Raw
    <3> QED
      BY <1>5, <2>3, <3>1, <3>2, <3>3 DEF Firm, Held
  <2> QED
    BY <1>4, <1>8, <2>1, <2>2, <2>3 DEF GdbFirm
<1> HIDE DEF k
<1>9. \/ GdbBpsAt(s, a) = {} /\ t = SetBreakpoint(s, "gdb", a, k)
      \/ GdbBpsAt(s, a) # {} /\ s.raw[r].kind # k /\ t = SetBreakpoint(deleted, "gdb", a, k)
      \/ GdbBpsAt(valid, a) = {} /\ t = SetBreakpoint(valid, "gdb", a, k)
      \/ t = valid
  BY <1>2
<1>10. V(s, p) /\ Shrinks(s, s) /\ Holds(s, s, {})
  BY HoldsRefl DEF Shrinks
<1>11. {} \subseteq GdbBpsAt(s, a) /\ (GdbBpsAt(s, a) # {} => {b} \subseteq GdbBpsAt(s, a))
  BY <1>3
<1>12. CASE GdbBpsAt(s, a) = {} /\ t = SetBreakpoint(s, "gdb", a, k)
  BY <1>7, <1>10, <1>11, <1>12 DEF t, k
<1>13. CASE GdbBpsAt(s, a) # {} /\ s.raw[r].kind # k /\ t = SetBreakpoint(deleted, "gdb", a, k)
  BY <1>6, <1>7, <1>11, <1>13 DEF t, k
<1>14. CASE GdbBpsAt(valid, a) = {} /\ t = SetBreakpoint(valid, "gdb", a, k)
  BY <1>4, <1>7, <1>11, <1>14 DEF t, k
<1>15. CASE t = valid
  BY <1>8, <1>15 DEF t, k
<1> QED
  BY <1>9, <1>12, <1>13, <1>14, <1>15

-----------------------------------------------------------------------------
(* Stepping over breakpoints, and jumps.                                   *)

LEMMA UninsertAtV ==
  ASSUME NEW s, NEW p, V(s, p), NEW a, Accessible(s, a)
  PROVE  V(UninsertAt(s, a), p) /\ Remains(s, UninsertAt(s, a), {})
<1> DEFINE r == CHOOSE r \in InsertedAt(s, a) : TRUE
<1>1. CASE InsertedAt(s, a) = {}
  BY <1>1, HoldsRefl DEF UninsertAt, Holds
<1>2. CASE InsertedAt(s, a) # {}
  <2>1. r \in Traps(s)
    BY <1>2 DEF InsertedAt, At, Traps
  <2> HIDE DEF r
  <2>2. V(Uninsert(s, r), p) /\ Remains(s, Uninsert(s, r), {})
    BY <2>1, UninsertV
  <2> QED
    BY <1>2, <2>2 DEF UninsertAt, r
<1> QED
  BY <1>1, <1>2

LEMMA ReinsertAtV ==
  ASSUME NEW s, NEW p, V(s, p), OneEnabled(s), NEW a, Accessible(s, a)
  PROVE  V(ReinsertAt(s, a), p) /\ Holds(s, ReinsertAt(s, a), {})
<1> DEFINE r == CHOOSE r \in OutAt(s, a) : TRUE
<1>1. CASE OutAt(s, a) = {}
  BY <1>1, HoldsRefl DEF ReinsertAt
<1>2. CASE OutAt(s, a) # {}
  <2>1. r \in RawIds /\ s.raw[r].refcount > 0 /\ s.raw[r].inserted = 0 /\ s.raw[r].pc = a
    BY <1>2 DEF OutAt, At, Live
  <2> HIDE DEF r
  <2>2. TrapsAt(s, a) = {}
    <3> SUFFICES ASSUME NEW q \in TrapsAt(s, a) PROVE FALSE
      OBVIOUS
    <3>1. q \in RawIds /\ s.raw[q].refcount > 0 /\ s.raw[q].inserted = 1 /\ s.raw[q].pc = a
      BY DEF TrapsAt, Traps, Live
    <3> QED
      BY <2>1, <3>1 DEF OneEnabled
  <2>3. V(Insert(s, r), p) /\ Holds(s, Insert(s, r), {})
    BY <2>1, <2>2, InsertV
  <2> QED
    BY <1>2, <2>3 DEF ReinsertAt, r
<1> QED
  BY <1>1, <1>2

LEMMA CellsAre == \A j \in Addr, a \in Addr : a \in Cells(j) <=> j <= a /\ a < j + JumpLength
BY Constants, MemBreakAssumption DEF Cells

(* The jump at j changes in any way, and then what the program has in the  *)
(* cells of the jump is written.                                           *)
LEMMA RewriteJumpV ==
  ASSUME NEW s, NEW p, V(s, p), NEW j \in Addr, Cells(j) \subseteq Addr \ Lib, NEW new \in JumpRec,
         NEW u, u = [s EXCEPT !.jump[j] = new], JumpsOK(u),
         NEW bytes \in [Cells(j) -> Byte], \A a \in Cells(j) : bytes[a] = p[a]
  PROVE  LET t == Write(u, Cells(j), bytes) IN V(t, p) /\ Holds(s, t, {})
<1> DEFINE C == Cells(j)
           t == Write(u, C, bytes)
<1>1. s \in Process /\ Coherent(s, p) /\ KindsOK(s)
  BY DEF V
<1>2. /\ u \in Process /\ u.raw = s.raw /\ u.mem = s.mem /\ u.bp = s.bp /\ u.mapped = s.mapped
      /\ \A i \in Addr \ {j} : u.jump[i] = s.jump[i]
  BY <1>1 DEF Process
<1>3. /\ \A x : Accessible(u, x) <=> Accessible(s, x)
      /\ \A x : TrapsAt(u, x) = TrapsAt(s, x)
      /\ Traps(u) = Traps(s)
  BY <1>2 DEF Accessible, Traps, TrapsAt, Live
<1>4. TrapsPlanted(u)
  BY <1>1, <1>2, <1>3, CoherentPlanted DEF TrapsPlanted
<1>5. ProgramOK(u, p)
  BY <1>1, <1>3 DEF Coherent, ProgramOK
<1>6. ShadowsOK(u, p, Addr \ C)
  <2> SUFFICES ASSUME NEW i \in Addr, u.jump[i].refcount > 0,
                      NEW n \in 0..(JumpLength - 1), i + n \in Addr \ C
               PROVE  u.jump[i].shadow[n] = p[i + n]
    BY DEF ShadowsOK
  <2>1. CASE i = j
    <3>1. i + n \in C
      BY <2>1, Constants, MemBreakAssumption DEF Cells
    <3> QED
      BY <3>1
  <2>2. CASE i # j
    BY <1>1, <1>2, <2>2 DEF Coherent, ShadowsOK
  <2> QED
    BY <2>1, <2>2
<1>7. ASSUME NEW a \in Addr \ C PROVE Jumped(u, a) <=> Jumped(s, a)
  <2>1. ~(j <= a /\ a < j + JumpLength)
    BY <1>7, CellsAre
  <2> QED
    BY <1>2, <2>1 DEF Jumped, Over
<1>8. ASSUME NEW a \in Addr \ C, Accessible(u, a) PROVE CellOK(u, p, a)
  <2>1. CellOK(s, p, a)
    BY <1>1, <1>3, <1>8 DEF Coherent
  <2> QED
    BY <1>2, <1>3, <1>7, <1>8, <2>1 DEF CellOK
<1>9. C \in SUBSET Addr /\ \A a \in C : Accessible(u, a) /\ bytes[a] = p[a]
  BY DEF Accessible
<1> HIDE DEF C, t
<1>10. RawsStay(u, t) /\ Coherent(t, p)
  BY <1>2, <1>4, <1>5, <1>6, <1>8, <1>9, WriteCoherent DEF C, t
<1>11. RawsStay(s, u)
  BY <1>2 DEF RawsStay, Held, Live
<1>12. RawsStay(s, t)
  BY <1>10, <1>11, RawsStayTrans
<1>13. V(t, p) /\ Holds(s, t, {})
  BY <1>1, <1>10, <1>12, StayKinds, StayHolds DEF V, RawsStay
<1> QED
  BY <1>13 DEF t, C

(* The number of references to a jump.                                     *)
LEMMA CountJumpV ==
  ASSUME NEW s, NEW p, V(s, p), NEW j \in Addr, NEW n \in Nat, n > 0, s.jump[j].refcount > 0
  PROVE  LET t == [s EXCEPT !.jump[j].refcount = n] IN V(t, p) /\ Holds(s, t, {})
<1> DEFINE new == [s.jump[j] EXCEPT !.refcount = n]
           t == [s EXCEPT !.jump[j] = new]
<1>1. s \in Process /\ Coherent(s, p) /\ KindsOK(s)
  BY DEF V
<1>2. new \in JumpRec /\ new.refcount = n /\ new.inserted = s.jump[j].inserted
      /\ new.shadow = s.jump[j].shadow
  BY <1>1 DEF Process, JumpRec
<1> HIDE DEF new
<1>3. /\ t \in Process /\ t.raw = s.raw /\ t.mem = s.mem /\ t.bp = s.bp /\ t.mapped = s.mapped
      /\ \A i \in Addr \ {j} : t.jump[i] = s.jump[i]
      /\ t.jump[j] = new
  BY <1>1, <1>2 DEF Process
<1> HIDE DEF t
<1>4. \A i \in Addr : /\ t.jump[i].refcount > 0 <=> s.jump[i].refcount > 0
                     /\ t.jump[i].inserted = s.jump[i].inserted
                     /\ t.jump[i].shadow = s.jump[i].shadow
  BY <1>2, <1>3
<1>5. /\ \A x : Accessible(t, x) <=> Accessible(s, x)
      /\ \A x : TrapsAt(t, x) = TrapsAt(s, x)
      /\ \A x : Jumped(t, x) <=> Jumped(s, x)
  BY <1>3, <1>4 DEF Accessible, Traps, TrapsAt, Live, Jumped, Over
<1>6. ProgramOK(t, p) /\ JumpsOK(t) /\ ShadowsOK(t, p, Addr)
  BY <1>1, <1>4, <1>5 DEF Coherent, ProgramOK, JumpsOK, ShadowsOK
<1>7. \A x \in Addr : CellOK(s, p, x) => CellOK(t, p, x)
  BY <1>3, <1>5 DEF CellOK
<1>8. Coherent(t, p)
  BY <1>1, <1>5, <1>6, <1>7 DEF Coherent
<1>9. RawsStay(s, t)
  BY <1>3 DEF RawsStay, Held, Live
<1>10. V(t, p) /\ Holds(s, t, {})
  BY <1>1, <1>3, <1>8, <1>9, StayKinds, StayHolds DEF V
<1> QED
  BY <1>10 DEF t, new

(* What the shadow of a jump holds.                                        *)
LEMMA ShadowIs ==
  ASSUME NEW s, NEW p, V(s, p), NEW j \in Addr, s.jump[j].refcount > 0
  PROVE  /\ Cells(j) \subseteq Addr \ Lib
         /\ Shadow(s, j) \in [Cells(j) -> Byte]
         /\ \A a \in Cells(j) : Shadow(s, j)[a] = p[a]
<1>1. Cells(j) \subseteq Addr \ Lib
  BY DEF V, Coherent, JumpsOK
<1>2. Shadow(s, j) \in [Cells(j) -> Byte]
  BY ShadowType DEF V
<1>3. ASSUME NEW a \in Cells(j) PROVE Shadow(s, j)[a] = p[a]
  <2>1. a - j \in 0..(JumpLength - 1) /\ j + (a - j) = a /\ a \in Addr
    BY <1>1, Constants, MemBreakAssumption DEF Cells
  <2>2. s.jump[j].shadow[a - j] = p[a]
    BY <2>1 DEF V, Coherent, ShadowsOK
  <2> QED
    BY <2>2 DEF Shadow
<1> QED
  BY <1>1, <1>2, <1>3

LEMMA MoveJumpV ==
  ASSUME NEW s, NEW p, V(s, p), NEW j \in Addr
  PROVE  /\ V(UninsertJumpAt(s, j), p) /\ Holds(s, UninsertJumpAt(s, j), {})
         /\ V(ReinsertJumpAt(s, j), p) /\ Holds(s, ReinsertJumpAt(s, j), {})
<1>1. ASSUME s.jump[j].refcount > 0, NEW v \in BOOLEAN
      PROVE  LET t == Write([s EXCEPT !.jump[j].inserted = v], Cells(j), Shadow(s, j))
             IN  V(t, p) /\ Holds(s, t, {})
  <2> DEFINE new == [s.jump[j] EXCEPT !.inserted = v]
             u == [s EXCEPT !.jump[j] = new]
  <2>1. new \in JumpRec /\ new.refcount = s.jump[j].refcount
    BY DEF V, Process, JumpRec
  <2> HIDE DEF new
  <2>2. \A i \in Addr : u.jump[i].refcount = s.jump[i].refcount
    BY <2>1 DEF V, Process
  <2> HIDE DEF u
  <2>3. JumpsOK(u)
    BY <2>2 DEF V, Coherent, JumpsOK
  <2>4. LET t == Write(u, Cells(j), Shadow(s, j)) IN V(t, p) /\ Holds(s, t, {})
    BY <1>1, <2>1, <2>3, ShadowIs, RewriteJumpV DEF u
  <2> QED
    BY <2>4 DEF u, new
<1> QED
  BY <1>1, HoldsRefl DEF UninsertJumpAt, ReinsertJumpAt, JumpAt

LEMMA DeleteJumpV ==
  ASSUME NEW s, NEW p, V(s, p), NEW j \in Addr, s.jump[j].refcount > 0
  PROVE  V(DeleteJump(s, j), p) /\ Holds(s, DeleteJump(s, j), {})
<1> DEFINE u == [s EXCEPT !.jump[j] = FreeJump]
<1>1. FreeJump \in JumpRec /\ FreeJump.refcount = 0
  BY Constants DEF FreeJump
<1>2. \A i \in Addr : u.jump[i].refcount > 0 => s.jump[i].refcount > 0
  BY <1>1 DEF V, Process
<1> HIDE DEF u
<1>3. JumpsOK(u)
  BY <1>2 DEF V, Coherent, JumpsOK
<1>4. LET t == Write(u, Cells(j), Shadow(s, j)) IN V(t, p) /\ Holds(s, t, {})
  BY <1>1, <1>3, ShadowIs, RewriteJumpV DEF u
<1> QED
  BY <1>4 DEF DeleteJump, u

LEMMA SetJumpV ==
  ASSUME NEW s, NEW p, V(s, p), NEW j \in Addr, Cells(j) \subseteq Addr \ Lib,
         \A i \in Addr \ {j} : s.jump[i].refcount > 0 => Cells(i) \cap Cells(j) = {}
  PROVE  V(SetJump(s, j), p) /\ Holds(s, SetJump(s, j), {})
<1> DEFINE valid == Validate(s, Cells(j))
           old == [a \in Cells(j) |-> View(s, a)]
           new == [inserted |-> TRUE, refcount |-> 1,
                   shadow |-> [i \in 0..(JumpLength - 1) |-> old[j + i]]]
           u == [valid EXCEPT !.jump[j] = new]
<1>1. s \in Process /\ Coherent(s, p)
  BY DEF V
<1>2. old \in [Cells(j) -> Byte] /\ \A a \in Cells(j) : old[a] = p[a]
  BY <1>1, ViewType, ViewIs DEF Accessible
<1>3. Quiet(s, valid)
  BY <1>1, CoherentPlanted, ValidateQuiet
<1>4. V(valid, p) /\ Holds(s, valid, {}) /\ valid.jump = s.jump
  BY <1>3, QuietV DEF Quiet
<1>5. \A i \in 0..(JumpLength - 1) : j + i \in Cells(j)
  BY Constants, MemBreakAssumption DEF Cells
<1>6. SetJump(s, j) = Write(u, Cells(j), old)
  BY DEF SetJump
<1> HIDE DEF valid, old
<1>7. new \in JumpRec
  BY <1>2, <1>5 DEF JumpRec
<1> HIDE DEF new
<1>8. \A i \in Addr \ {j} : u.jump[i] = s.jump[i]
  BY <1>4 DEF V, Process
<1> HIDE DEF u
<1>9. JumpsOK(u)
  <2>1. \A i \in Addr \ {j} : u.jump[i].refcount > 0 => Cells(i) \subseteq Addr \ Lib
    BY <1>1, <1>8 DEF Coherent, JumpsOK
  <2>2. ASSUME NEW i \in Addr, NEW n \in Addr, u.jump[i].refcount > 0, u.jump[n].refcount > 0, i # n
        PROVE  Cells(i) \cap Cells(n) = {}
    <3>1. CASE i = j
      BY <1>8, <2>2, <3>1
    <3>2. CASE n = j
      BY <1>8, <2>2, <3>2
    <3>3. CASE i # j /\ n # j
      BY <1>1, <1>8, <2>2, <3>3 DEF Coherent, JumpsOK
    <3> QED
      BY <3>1, <3>2, <3>3
  <2> QED
    BY <2>1, <2>2 DEF JumpsOK
<1>10. LET t == Write(u, Cells(j), old) IN V(t, p) /\ Holds(valid, t, {})
  BY <1>2, <1>4, <1>7, <1>9, RewriteJumpV DEF u
<1> QED
  BY <1>4, <1>6, <1>10, HoldsTrans

LEMMA DeleteGdbV ==
  ASSUME NEW s, NEW p, V(s, p), Counted(s), NEW a, NEW k
  PROVE  V(DeleteGdb(s, a, k), p) /\ Holds(s, DeleteGdb(s, a, k), GdbBpsAt(s, a))
<1> DEFINE mine == {b \in GdbBpsAt(s, a) : s.raw[s.bp[b].raw].kind = k}
           b == CHOOSE b \in mine : TRUE
<1>1. mine # {} => b \in Bps(s) /\ {b} \subseteq GdbBpsAt(s, a)
  BY DEF GdbBpsAt
<1> HIDE DEF b
<1> QED
  BY <1>1, DeleteV, HoldsRefl, HoldsMore DEF DeleteGdb, b

LEMMA DeleteStepBpsV ==
  ASSUME NEW s, NEW p, V(s, p), Counted(s)
  PROVE  V(DeleteStepBps(s), p) /\ Holds(s, DeleteStepBps(s), StepBps(s))
<1> DEFINE b == CHOOSE b \in StepBps(s) : TRUE
<1>1. StepBps(s) # {} => b \in Bps(s) /\ {b} \subseteq StepBps(s)
  BY DEF StepBps
<1> HIDE DEF b
<1> QED
  BY <1>1, DeleteV, HoldsRefl, HoldsMore DEF DeleteStepBps, b

-----------------------------------------------------------------------------
(* The inductive invariant: besides what memory holds, which high-level    *)
(* breakpoints there are and that their raw ones are not known to be gone. *)
ViewInv == V(proc, program)
GdbInv == OneGdb(proc) /\ \A a \in accepted : GdbFirm(proc, a)
StepInv ==
  /\ stepping = NoStep \/ ~SoftwareStep => StepBps(proc) = {}
  /\ stepping # NoStep /\ SoftwareStep =>
       \E b \in Firm(proc) : StepBps(proc) = {b} /\ proc.raw[proc.bp[b].raw].inserted = 1
HInv == ViewInv /\ GdbInv /\ StepInv
SInv == IInv /\ Counted(proc) /\ HInv

LEMMA SInvHas ==
  ASSUME SInv
  PROVE  /\ proc \in Process /\ V(proc, program) /\ Good(proc, stepping) /\ Counted(proc)
         /\ mode \in Kinds /\ stepping \in Addr \cup {NoStep} /\ accepted \subseteq Addr
         /\ program \in [Addr -> Data \cup {Absent}] /\ SteppedIsMapped
         /\ OneGdb(proc) /\ (\A a \in accepted : GdbFirm(proc, a)) /\ StepInv
         /\ \A a : CodeKind(a) \in Kinds
<1>1. IInv /\ Counted(proc) /\ V(proc, program) /\ GdbInv /\ StepInv
  BY DEF SInv, HInv, ViewInv
<1>2. /\ Good(proc, stepping) /\ mode \in Kinds /\ stepping \in Addr \cup {NoStep}
      /\ accepted \subseteq Addr /\ program \in [Addr -> Data \cup {Absent}] /\ SteppedIsMapped
  BY <1>1, IInvIsGood DEF GoodInv
<1>3. \A a : CodeKind(a) \in Kinds
  BY <1>2, Constants DEF CodeKind
<1> QED
  BY <1>1, <1>2, <1>3 DEF V, GdbInv

LEMMA FirmStep ==
  ASSUME NEW s, NEW t, NEW B, Remains(s, t, B), t.mapped = s.mapped,
         NEW a, GdbFirm(s, a), GdbBpsAt(s, a) \cap B = {}
  PROVE  GdbFirm(t, a)
<1> SUFFICES ASSUME Accessible(s, a) PROVE GdbBpsAt(t, a) \cap Firm(t) # {}
  BY DEF GdbFirm, Accessible
<1>1. PICK b \in GdbBpsAt(s, a) \cap Firm(s) : TRUE
  BY DEF GdbFirm
<1>2. b \in Firm(t) /\ t.bp[b] = s.bp[b] /\ t.raw[t.bp[b].raw].pc = s.raw[s.bp[b].raw].pc
  BY <1>1 DEF Remains
<1>3. b \in GdbBpsAt(t, a)
  BY <1>1, <1>2 DEF GdbBpsAt, Firm
<1> QED
  BY <1>2, <1>3

(* A step that neither starts nor finishes to step over.                   *)
LEMMA PlainStep ==
  ASSUME SInv, V(proc', program'), NEW B, Holds(proc, proc', B), B \cap StepBps(proc) = {},
         StepBps(proc') \subseteq StepBps(proc), OneGdb(proc'), \A a \in accepted' : GdbFirm(proc', a),
         mode' = mode, stepping' = stepping
  PROVE  HInv'
<1>1. ViewInv'
  BY DEF ViewInv, V, KindsOK, CodeKind, Coherent, ProgramOK, JumpsOK, ShadowsOK, CellOK, TrapsAt,
         Traps, Jumped, Over, Live, Accessible
<1>2. GdbInv'
  BY DEF GdbInv, OneGdb, GdbFirm, GdbBpsAt, Firm, Bps, Held, Live, Accessible
<1>3. StepInv'
  <2>1. StepInv
    BY SInvHas
  <2>2. ASSUME NEW b \in Firm(proc), StepBps(proc) = {b}, proc.raw[proc.bp[b].raw].inserted = 1
        PROVE  b \in Firm(proc') /\ StepBps(proc') = {b} /\ proc'.raw[proc'.bp[b].raw].inserted = 1
    <3>1. b \notin B
      BY <2>2
    <3>2. b \in Firm(proc') /\ proc'.bp[b] = proc.bp[b] /\ proc'.raw[proc'.bp[b].raw].inserted = 1
      BY <2>2, <3>1 DEF Holds, Remains
    <3>3. b \in StepBps(proc')
      BY <2>2, <3>2 DEF StepBps, Firm
    <3> QED
      BY <2>2, <3>2, <3>3
  <2> QED
    BY <2>1, <2>2 DEF StepInv, StepBps, Firm, Bps, Held, Live, Accessible
<1> QED
  BY <1>1, <1>2, <1>3 DEF HInv

(* ... and leaves alone what the client has set.                           *)
LEMMA QuietStep ==
  ASSUME SInv, V(proc', program'), NEW B, Holds(proc, proc', B), B \cap StepBps(proc) = {},
         \A b \in B : proc.bp[b].type # "gdb",
         Shrinks(proc, proc'), mode' = mode, stepping' = stepping, accepted' = accepted,
         proc'.mapped = proc.mapped
  PROVE  HInv'
<1>1. OneGdb(proc') /\ StepBps(proc') \subseteq StepBps(proc)
  BY SInvHas, ShrinksGdb
<1>2. ASSUME NEW a \in accepted' PROVE GdbFirm(proc', a)
  <2>1. GdbFirm(proc, a) /\ GdbBpsAt(proc, a) \cap B = {} /\ Remains(proc, proc', B)
    BY <1>2, SInvHas DEF GdbBpsAt, Holds
  <2> QED
    BY <2>1, FirmStep
<1> QED
  BY <1>1, <1>2, PlainStep

-----------------------------------------------------------------------------
(* The steps.                                                              *)

LEMMA ClientHInv ==
  ASSUME SInv, Client, Counted(proc')
  PROVE  HInv'
<1>1. /\ proc \in Process /\ V(proc, program) /\ Good(proc, stepping) /\ Counted(proc)
      /\ OneGdb(proc) /\ (\A a \in accepted : GdbFirm(proc, a))
      /\ \A a : CodeKind(a) \in Kinds
      /\ Coherent(proc, program) /\ TrapsPlanted(proc)
  BY SInvHas, CoherentPlanted DEF V
<1>2. \A a : GdbBpsAt(proc, a) \cap StepBps(proc) = {}
  BY DEF GdbBpsAt, StepBps
<1>3. \A a, x : x # a => GdbBpsAt(proc, x) \cap GdbBpsAt(proc, a) = {}
  BY DEF GdbBpsAt
<1>4. ASSUME NEW a \in Addr, ClientSet(a) PROVE HInv'
  <2>1. /\ V(proc', program) /\ Holds(proc, proc', GdbBpsAt(proc, a)) /\ OneGdb(proc')
        /\ StepBps(proc') \subseteq StepBps(proc)
        /\ GdbBpsAt(proc', a) # {} => GdbFirm(proc', a)
    BY <1>1, <1>4, SetGdbV DEF ClientSet
  <2>2. proc'.mapped = proc.mapped
    BY <1>1, <1>4, SetGdbGood DEF ClientSet
  <2>3. ASSUME NEW x \in accepted' PROVE GdbFirm(proc', x)
    <3>1. CASE x = a
      BY <1>4, <2>1, <2>3, <3>1 DEF ClientSet
    <3>2. CASE x # a
      <4>1. GdbFirm(proc, x)
        BY <1>1, <1>4, <2>3, <3>2 DEF ClientSet
      <4> QED
        BY <1>3, <2>1, <2>2, <3>2, <4>1, FirmStep DEF Holds
    <3> QED
      BY <3>1, <3>2
  <2> QED
    BY <1>2, <1>4, <2>1, <2>3, PlainStep DEF ClientSet
<1>5. ASSUME NEW a \in Addr, ClientDelete(a) PROVE HInv'
  <2>1. PICK k \in Kinds : proc' = DeleteGdb(proc, a, k)
    BY <1>5 DEF ClientDelete
  <2>2. V(proc', program) /\ Holds(proc, proc', GdbBpsAt(proc, a)) /\ Keeps(proc, proc')
    BY <1>1, <2>1, DeleteGdbV, DeleteGdbKeeps
  <2>3. Shrinks(proc, proc') /\ proc'.mapped = proc.mapped
    BY <2>2, KeepsShrinks DEF Keeps
  <2>4. OneGdb(proc') /\ StepBps(proc') \subseteq StepBps(proc)
    BY <1>1, <2>3, ShrinksGdb
  <2>5. proc' = proc \/ GdbBpsAt(proc', a) = {}
    <3> DEFINE mine == {b \in GdbBpsAt(proc, a) : proc.raw[proc.bp[b].raw].kind = k}
               b == CHOOSE b \in mine : TRUE
    <3>1. mine # {} => b \in GdbBpsAt(proc, a) /\ b \in Bps(proc)
      BY DEF GdbBpsAt
    <3>2. proc' = IF mine = {} THEN proc ELSE Delete(proc, b)
      BY <2>1 DEF DeleteGdb
    <3> HIDE DEF mine, b
    <3>3. CASE mine # {}
      <4>1. b \notin Bps(proc')
        BY <1>1, <3>1, <3>2, <3>3, DeleteGone
      <4>2. GdbBpsAt(proc, a) = {b}
        BY <1>1, <3>1, <3>3 DEF OneGdb, GdbBpsAt
      <4>3. GdbBpsAt(proc', a) \subseteq {b}
        BY <2>3, <4>2, ShrinksGdb
      <4> QED
        BY <4>1, <4>3 DEF GdbBpsAt
    <3> QED
      BY <3>2, <3>3
  <2>6. ASSUME NEW x \in accepted' PROVE GdbFirm(proc', x)
    <3>1. GdbFirm(proc, x) /\ (x = a => GdbBpsAt(proc', a) # {})
      BY <1>1, <1>5, <2>6 DEF ClientDelete
    <3>2. CASE x = a
      BY <2>5, <3>1, <3>2
    <3>3. CASE x # a
      BY <1>3, <2>2, <2>3, <3>1, <3>3, FirmStep DEF Holds
    <3> QED
      BY <3>2, <3>3
  <2> QED
    BY <1>2, <1>5, <2>2, <2>4, <2>6, PlainStep DEF ClientDelete
<1>6. ASSUME NEW p, V(proc', p), program' = p, Holds(proc, proc', {}), Keeps(proc, proc'),
             mode' = mode, stepping' = stepping, accepted' = accepted
      PROVE  HInv'
  <2>1. Shrinks(proc, proc') /\ proc'.mapped = proc.mapped
    BY <1>6, KeepsShrinks DEF Keeps
  <2> QED
    BY <1>6, <2>1, QuietStep
<1>7. ASSUME NEW a \in Addr, NEW d \in Data, ClientWrite(a, d) PROVE HInv'
  <2>1. d \in Byte /\ [x \in {a} |-> d] \in [{a} -> Byte] /\ program \in [Addr -> Data \cup {Absent}]
    BY Constants, SInvHas
  <2>2. Keeps(proc, proc')
    BY <1>1, <1>7, <2>1, WriteKeeps DEF ClientWrite
  <2>3. CASE Accessible(proc, a)
    <3> DEFINE p == [program EXCEPT ![a] = d]
    <3>1. p[a] = d /\ \A x \in Addr \ {a} : p[x] = program[x]
      BY <2>1
    <3> HIDE DEF p
    <3>2. JumpsOK(proc) /\ ProgramOK(proc, p) /\ ShadowsOK(proc, p, Addr \ {a})
      BY <1>1, Constants, <2>3, <3>1 DEF Coherent, ProgramOK, ShadowsOK
    <3>3. \A x \in Addr \ {a} : Accessible(proc, x) => CellOK(proc, p, x)
      BY <1>1, <3>1 DEF Coherent, CellOK
    <3>4. RawsStay(proc, proc') /\ Coherent(proc', p)
      BY <1>1, <1>7, <2>1, <2>3, <3>1, <3>2, <3>3, WriteCell DEF ClientWrite
    <3>5. V(proc', p) /\ Holds(proc, proc', {})
      BY <1>1, <3>4, StayKinds, StayHolds DEF V, RawsStay
    <3>6. program' = p
      BY <1>7, <2>3 DEF ClientWrite, p
    <3> QED
      BY <1>6, <1>7, <2>2, <3>5, <3>6 DEF ClientWrite
  <2>4. CASE ~Accessible(proc, a)
    <3>1. Quiet(proc, proc')
      BY <1>1, <1>7, <2>1, <2>4, WriteUnmappedCell DEF ClientWrite
    <3>2. V(proc', program) /\ Holds(proc, proc', {})
      BY <1>1, <3>1, QuietV
    <3> QED
      BY <1>6, <1>7, <2>2, <2>4, <3>2 DEF ClientWrite
  <2> QED
    BY <2>3, <2>4
<1>8. ASSUME NEW a \in Addr, ClientRead(a) PROVE HInv'
  <2>1. V(proc', program) /\ Holds(proc, proc', {}) /\ Keeps(proc, proc')
    BY <1>1, <1>8, ValidateQuiet, QuietV, ValidateKeeps DEF ClientRead
  <2> QED
    BY <1>6, <1>8, <2>1 DEF ClientRead
<1>9. CASE ClientSymbols
  <2>1. V(proc', program) /\ Holds(proc, proc', {}) /\ Keeps(proc, proc')
    BY <1>1, <1>9, ValidateQuiet, QuietV, ValidateAllKeeps DEF ClientSymbols
  <2> QED
    BY <1>6, <1>9, <2>1 DEF ClientSymbols
<1> QED
  BY <1>4, <1>5, <1>7, <1>8, <1>9 DEF Client

LEMMA InternalHInv ==
  ASSUME SInv, Internal, Counted(proc')
  PROVE  HInv'
<1>1. /\ proc \in Process /\ V(proc, program) /\ Good(proc, stepping) /\ Counted(proc)
      /\ OneGdb(proc) /\ (\A a \in accepted : GdbFirm(proc, a))
      /\ \A a : CodeKind(a) \in Kinds
  BY SInvHas
<1>2. ASSUME NEW a \in Addr, SetInternal(a) PROVE HInv'
  <2>1. /\ V(proc', program) /\ Holds(proc, proc', {})
        /\ \/ Shrinks(proc, proc')
           \/ \E b \in BpIds : Adds(proc, proc', b, "other", a)
    BY <1>1, <1>2, SetBreakpointV DEF SetInternal
  <2>2. proc'.mapped = proc.mapped
    BY <1>1, <1>2, SetBreakpointGood DEF SetInternal
  <2>3. CASE Shrinks(proc, proc')
    BY <1>2, <2>1, <2>2, <2>3, QuietStep DEF SetInternal
  <2>4. ASSUME NEW b \in BpIds, Adds(proc, proc', b, "other", a) PROVE HInv'
    <3>1. OneGdb(proc') /\ StepBps(proc') \subseteq StepBps(proc)
      BY <1>1, <2>4 DEF Adds, OneGdb, StepBps
    <3>2. \A x \in accepted' : GdbFirm(proc', x)
      BY <1>1, <1>2, <2>1, <2>2, FirmStep DEF SetInternal, Holds
    <3> QED
      BY <1>2, <2>1, <3>1, <3>2, PlainStep DEF SetInternal
  <2> QED
    BY <2>1, <2>3, <2>4
<1>3. ASSUME NEW B, V(proc', program), Holds(proc, proc', B), Keeps(proc, proc'),
             B \cap StepBps(proc) = {}, \A b \in B : proc.bp[b].type # "gdb",
             UNCHANGED <<mode, stepping, accepted, program>>
      PROVE  HInv'
  <2>1. Shrinks(proc, proc') /\ proc'.mapped = proc.mapped
    BY <1>3, KeepsShrinks DEF Keeps
  <2> QED
    BY <1>3, <2>1, QuietStep
<1>4. ASSUME NEW b \in BpIds, DeleteInternal(b) PROVE HInv'
  <2>1. b \in Bps(proc) /\ {b} \cap StepBps(proc) = {} /\ \A c \in {b} : proc.bp[c].type # "gdb"
    BY <1>4 DEF DeleteInternal, Bps, StepBps
  <2>2. V(proc', program) /\ Holds(proc, proc', {b}) /\ Keeps(proc, proc')
    BY <1>1, <1>4, <2>1, DeleteV, DeleteKeeps DEF DeleteInternal
  <2> QED
    BY <1>3, <1>4, <2>1, <2>2 DEF DeleteInternal
<1>5. ASSUME NEW j \in Addr, NEW n \in Nat, n > 0, proc.jump[j].refcount > 0
      PROVE  LET t == [proc EXCEPT !.jump[j].refcount = n]
             IN  V(t, program) /\ Holds(proc, t, {}) /\ Keeps(proc, t)
  <2> DEFINE new == [proc.jump[j] EXCEPT !.refcount = n]
  <2>1. new \in JumpRec
    BY <1>1 DEF Process, JumpRec
  <2> HIDE DEF new
  <2>2. Keeps(proc, [proc EXCEPT !.jump[j] = new])
    BY <1>1, <2>1, JumpKeeps
  <2>3. Keeps(proc, [proc EXCEPT !.jump[j].refcount = n])
    BY <2>2 DEF new
  <2> QED
    BY <1>1, <1>5, <2>3, CountJumpV
<1>6. ASSUME NEW j \in Addr PROVE proc.jump[j].refcount \in Nat
  BY <1>1 DEF Process, JumpRec
<1>7. ASSUME NEW j \in Addr, InstallJump(j) PROVE HInv'
  <2>1. CASE JumpAt(proc, j)
    <3>1. proc' = [proc EXCEPT !.jump[j].refcount = proc.jump[j].refcount + 1]
      BY <1>7, <2>1 DEF InstallJump
    <3>2. V(proc', program) /\ Holds(proc, proc', {}) /\ Keeps(proc, proc')
      BY <1>5, <1>6, <2>1, <3>1 DEF JumpAt
    <3> QED
      BY <1>3, <1>7, <3>2 DEF InstallJump
  <2>2. CASE ~JumpAt(proc, j)
    <3>1. /\ Cells(j) \subseteq Addr \ Lib /\ proc' = SetJump(proc, j)
          /\ \A i \in Addr \ {j} : proc.jump[i].refcount > 0 => Cells(i) \cap Cells(j) = {}
      BY <1>7, <2>2 DEF InstallJump
    <3>2. V(proc', program) /\ Holds(proc, proc', {}) /\ Keeps(proc, proc')
      BY <1>1, <3>1, SetJumpV, SetJumpKeeps
    <3> QED
      BY <1>3, <1>7, <3>2 DEF InstallJump
  <2> QED
    BY <2>1, <2>2
<1>8. ASSUME NEW j \in Addr, DropJump(j) PROVE HInv'
  <2>1. CASE proc.jump[j].refcount > 1
    <3>1. proc' = [proc EXCEPT !.jump[j].refcount = proc.jump[j].refcount - 1]
      BY <1>8, <2>1 DEF DropJump
    <3>2. V(proc', program) /\ Holds(proc, proc', {}) /\ Keeps(proc, proc')
      BY <1>5, <1>6, <2>1, <3>1
    <3> QED
      BY <1>3, <1>8, <3>2 DEF DropJump
  <2>2. CASE ~(proc.jump[j].refcount > 1)
    <3>1. proc' = DeleteJump(proc, j) /\ proc.jump[j].refcount > 0
      BY <1>8, <2>2 DEF DropJump, JumpAt
    <3>2. V(proc', program) /\ Holds(proc, proc', {}) /\ Keeps(proc, proc')
      BY <1>1, <3>1, DeleteJumpV, DeleteJumpKeeps
    <3> QED
      BY <1>3, <1>8, <3>2 DEF DropJump
  <2> QED
    BY <2>1, <2>2
<1> QED
  BY <1>2, <1>4, <1>7, <1>8 DEF Internal

(* Starting and finishing to step over, given what becomes of the          *)
(* breakpoint that the target plants for the step.                         *)
LEMMA MoveStep ==
  ASSUME SInv, V(proc', program'), NEW B, Remains(proc, proc', B), B \subseteq StepBps(proc),
         OneGdb(proc'), mode' = mode, accepted' = accepted, proc'.mapped = proc.mapped, StepInv'
  PROVE  HInv'
<1>1. ViewInv'
  BY DEF ViewInv, V, KindsOK, CodeKind, Coherent, ProgramOK, JumpsOK, ShadowsOK, CellOK, TrapsAt,
         Traps, Jumped, Over, Live, Accessible
<1>2. ASSUME NEW a \in accepted' PROVE GdbFirm(proc', a)
  <2>1. GdbFirm(proc, a) /\ GdbBpsAt(proc, a) \cap B = {}
    BY <1>2, SInvHas DEF GdbBpsAt, StepBps
  <2> QED
    BY <2>1, FirmStep
<1>3. GdbInv'
  BY <1>2 DEF GdbInv, OneGdb, GdbFirm, GdbBpsAt, Firm, Bps, Held, Live, Accessible
<1> QED
  BY <1>1, <1>3 DEF HInv

LEMMA SteppingHInv ==
  ASSUME SInv, Stepping, Counted(proc')
  PROVE  HInv'
<1>1. /\ proc \in Process /\ V(proc, program) /\ Good(proc, stepping) /\ Counted(proc)
      /\ OneGdb(proc) /\ (\A a \in accepted : GdbFirm(proc, a))
      /\ stepping \in Addr \cup {NoStep} /\ SteppedIsMapped /\ StepInv
      /\ \A a : CodeKind(a) \in Kinds
  BY SInvHas
<1>2. ASSUME NEW a \in Addr, NEW next \in Addr, StartStepOver(a, next) PROVE HInv'
  <2> DEFINE up == UninsertAt(proc, a)
             out == UninsertJumpAt(up, a)
             t == SetBreakpoint(out, "step", next, CodeKind(next))
  <2>1. Good(proc, NoStep) /\ Accessible(proc, a) /\ Accessible(proc, next) /\ Room(proc)
        /\ StepBps(proc) = {}
    BY <1>1, <1>2 DEF StartStepOver, StepInv
  <2>2. Good(up, a) /\ Room(up) /\ Counted(up) /\ up.mapped = proc.mapped
    BY <1>1, <2>1, UninsertAtGood, UninsertAtCounted
  <2>3. V(up, program) /\ Remains(proc, up, {})
    BY <1>1, <2>1, UninsertAtV
  <2>4. Shrinks(proc, up)
    <3> DEFINE r == CHOOSE r \in InsertedAt(proc, a) : TRUE
    <3>1. InsertedAt(proc, a) # {} => r \in RawIds
      BY DEF InsertedAt, At, Live
    <3>2. up = IF InsertedAt(proc, a) = {} THEN proc ELSE Uninsert(proc, r)
      BY DEF UninsertAt
    <3> HIDE DEF r, up
    <3>3. CASE InsertedAt(proc, a) = {}
      BY <3>2, <3>3 DEF Shrinks
    <3>4. CASE InsertedAt(proc, a) # {}
      BY <1>1, <2>2, <3>1, <3>2, <3>4, UninsertChanges, ChangesShrinks
    <3> QED
      BY <3>3, <3>4
  <2> HIDE DEF up
  <2>5. Keeps(up, out) /\ Counted(out)
    BY <2>2, MoveJumpKeeps, MoveJumpCounted DEF Good
  <2>6. V(out, program) /\ Holds(up, out, {})
    BY <2>3, MoveJumpV
  <2>7. Good(out, a) /\ Room(out) /\ out.mapped = proc.mapped /\ Shrinks(up, out)
    BY <2>2, <2>5, KeepsGood, KeepsRoom, KeepsShrinks DEF Keeps
  <2> HIDE DEF out
  <2>8. Shrinks(proc, out) /\ Remains(proc, out, {})
    BY <2>3, <2>4, <2>6, <2>7, ShrinksTrans, HoldsTrans DEF Holds
  <2>9. OneGdb(out) /\ StepBps(out) = {}
    BY <1>1, <2>1, <2>8, ShrinksGdb
  <2>10. proc' = IF SoftwareStep THEN t ELSE out
    BY <1>2 DEF StartStepOver, out, up
  <2>11. stepping' = a /\ stepping' # NoStep /\ mode' = mode /\ accepted' = accepted /\ program' = program
    BY <1>2, Constants DEF StartStepOver
  <2>12. CASE ~SoftwareStep
    <3>1. proc' = out
      BY <2>10, <2>12
    <3>2. StepInv'
      BY <2>9, <2>12, <3>1 DEF StepInv, StepBps, Bps
    <3> QED
      BY <2>6, <2>7, <2>8, <2>9, <2>11, <3>1, <3>2, MoveStep
  <2>13. CASE SoftwareStep
    <3>1. proc' = t
      BY <2>10, <2>13
    <3>2. Accessible(out, next)
      BY <2>1, <2>7 DEF Accessible
    <3>3. V(t, program) /\ Holds(out, t, {}) /\ \E b \in BpIds : Adds(out, t, b, "step", next)
      BY <1>1, <2>5, <2>6, <2>7, <3>2, SetBreakpointV
    <3>4. t.mapped = out.mapped
      BY <1>1, <2>7, SetBreakpointGood
    <3> HIDE DEF t
    <3>5. PICK b \in BpIds : Adds(out, t, b, "step", next)
      BY <3>3
    <3>6. OneGdb(t)
      BY <2>9, <3>5 DEF Adds, OneGdb
    <3>7. StepBps(t) = {b}
      BY <2>9, <3>5 DEF Adds, StepBps
    <3>8. b \in Firm(t) /\ t.raw[t.bp[b].raw].inserted = 1
      BY <3>2, <3>4, <3>5 DEF Adds, Firm, Held, Live, Accessible
    <3>9. StepInv'
      BY <2>11, <2>13, <3>1, <3>7, <3>8 DEF StepInv, StepBps, Firm, Bps, Held, Live, Accessible
    <3>10. Remains(proc, t, {})
      BY <2>8, <3>3, HoldsTrans DEF Holds
    <3> QED
      BY <2>7, <2>11, <3>1, <3>3, <3>4, <3>6, <3>9, <3>10, MoveStep
  <2> QED
    BY <2>12, <2>13
<1>3. CASE FinishStepOver
  <2> DEFINE in == ReinsertAt(proc, stepping)
             t == ReinsertJumpAt(in, stepping)
             u == DeleteStepBps(t)
             thrown == JumpAt(proc, stepping) /\ proc.jump[stepping].inserted
  <2>1. stepping \in Addr /\ Accessible(proc, stepping) /\ stepping # NoStep
    BY <1>1, <1>3 DEF FinishStepOver, SteppedIsMapped
  <2>2. Good(in, NoStep) /\ in.mapped = proc.mapped /\ Counted(in)
    BY <1>1, <2>1, ReinsertAtGood, ReinsertAtCounted
  <2>3. V(in, program) /\ Holds(proc, in, {})
    BY <1>1, <2>1, ReinsertAtV DEF Good
  <2>4. Shrinks(proc, in)
    <3> DEFINE r == CHOOSE r \in OutAt(proc, stepping) : TRUE
    <3>1. OutAt(proc, stepping) # {} => r \in RawIds /\ proc.raw[r].pc = stepping
      BY DEF OutAt, At, Live
    <3>2. in = IF OutAt(proc, stepping) = {} THEN proc ELSE Insert(proc, r)
      BY DEF ReinsertAt
    <3> HIDE DEF r, in
    <3>3. CASE OutAt(proc, stepping) = {}
      BY <3>2, <3>3 DEF Shrinks
    <3>4. CASE OutAt(proc, stepping) # {}
      BY <1>1, <2>1, <2>2, <3>1, <3>2, <3>4, InsertChanges, ChangesShrinks
    <3> QED
      BY <3>3, <3>4
  <2> HIDE DEF in
  <2>5. Keeps(in, t) /\ Counted(t)
    BY <2>1, <2>2, MoveJumpKeeps, MoveJumpCounted DEF Good
  <2>6. V(t, program) /\ Holds(in, t, {}) /\ Shrinks(in, t)
    BY <2>1, <2>3, <2>5, MoveJumpV, KeepsShrinks
  <2>7. t \in Process /\ t.mapped = proc.mapped
    BY <2>2, <2>5 DEF Keeps
  <2> HIDE DEF t
  <2>8. Keeps(t, u) /\ Counted(u)
    BY <2>5, <2>7, DeleteStepBpsKeeps, DeleteStepBpsCounted
  <2>9. V(u, program) /\ Holds(t, u, StepBps(t))
    BY <2>5, <2>6, DeleteStepBpsV
  <2>10. Shrinks(t, u) /\ u.mapped = proc.mapped
    BY <2>7, <2>8, KeepsShrinks DEF Keeps
  <2>11. Shrinks(proc, t) /\ Holds(proc, t, {})
    BY <2>3, <2>4, <2>6, ShrinksTrans, HoldsTrans
  <2>12. mode' = mode /\ accepted' = accepted /\ program' = program
    BY <1>3 DEF FinishStepOver
  <2>13. CASE thrown
    <3>1. proc' = in /\ stepping' = stepping
      BY <1>3, <2>13 DEF FinishStepOver, in
    <3> QED
      BY <2>2, <2>3, <2>4, <2>12, <3>1, QuietStep
  <2>14. CASE ~thrown
    <3>1. proc' = u /\ stepping' = NoStep
      BY <1>3, <2>14 DEF FinishStepOver, in, t
    <3>2. StepBps(t) \subseteq StepBps(proc) /\ StepBps(u) \subseteq StepBps(t)
      BY <2>10, <2>11, ShrinksGdb
    <3>3. StepBps(u) = {}
      <4>1. \A b, c \in StepBps(proc) : b = c
        BY <1>1 DEF StepInv
      <4> DEFINE b == CHOOSE b \in StepBps(t) : TRUE
      <4>2. CASE StepBps(t) # {}
        <5>1. b \in StepBps(t) /\ b \in Bps(t) /\ u = Delete(t, b)
          BY <4>2 DEF DeleteStepBps, StepBps
        <5> HIDE DEF b
        <5>2. b \notin Bps(u)
          BY <2>7, <5>1, DeleteGone
        <5> QED
          BY <3>2, <4>1, <5>1, <5>2 DEF StepBps
      <4> QED
        BY <3>2, <4>2
    <3> HIDE DEF u
    <3>4. StepInv'
      BY <3>1, <3>3 DEF StepInv, StepBps, Bps
    <3>5. OneGdb(u)
      BY <1>1, <2>10, <2>11, ShrinksTrans, ShrinksGdb
    <3>6. Remains(proc, u, StepBps(t))
      <4>1. Holds(proc, t, StepBps(t))
        BY <2>11, HoldsMore
      <4> QED
        BY <2>9, <4>1, HoldsTrans DEF Holds
    <3> QED
      BY <2>9, <2>10, <2>12, <3>1, <3>2, <3>4, <3>5, <3>6, MoveStep
  <2> QED
    BY <2>13, <2>14
<1> QED
  BY <1>2, <1>3 DEF Stepping

(* With Reload, code could come below a breakpoint that is inserted.       *)
LEMMA ProgramHInv ==
  ASSUME ~Reload, SInv, Program
  PROVE  HInv'
<1>1. /\ proc \in Process /\ V(proc, program) /\ Good(proc, stepping)
      /\ OneGdb(proc) /\ (\A a \in accepted : GdbFirm(proc, a)) /\ StepInv
      /\ program \in [Addr -> Data \cup {Absent}] /\ accepted \subseteq Addr
      /\ Coherent(proc, program) /\ KindsOK(proc)
  BY SInvHas DEF V
<1>2. Lib \subseteq Addr /\ NoStep \notin Addr
  BY Constants, MemBreakAssumption
(* Both move code in the library only, and nothing that is inserted.       *)
<1>3. ASSUME NEW v \in BOOLEAN, NEW mem \in [Addr -> Byte], stepping = NoStep, stepping' = stepping,
             accepted' = accepted \ Lib, program' \in [Addr -> Data \cup {Absent}],
             proc' = [proc EXCEPT !.mapped = v, !.mem = mem],
             \A a \in Addr \ Lib : mem[a] = proc.mem[a] /\ program'[a] = program[a],
             \A a \in Lib : IF v THEN program'[a] \in Data /\ mem[a] = program'[a]
                           ELSE program'[a] = Absent,
             v => \A r \in Live(proc) : proc.raw[r].pc \in Lib => proc.raw[r].inserted = -1,
             \A a : a \notin Lib \/ ~v => CodeKind(a)' = CodeKind(a)
      PROVE  HInv'
  <2>1. /\ proc' \in Process /\ proc'.raw = proc.raw /\ proc'.bp = proc.bp /\ proc'.jump = proc.jump
        /\ proc'.mem = mem /\ proc'.mapped = v
    BY <1>1, <1>3 DEF Process
  <2>2. \A a : Accessible(proc', a) <=> a \notin Lib \/ v
    BY <2>1 DEF Accessible
  <2>3. /\ \A a \in Addr \ Lib : TrapsAt(proc', a) = TrapsAt(proc, a)
        /\ \A a \in Lib : v => TrapsAt(proc', a) = {}
    BY <1>3, <2>1 DEF TrapsAt, Traps, Live, Accessible
  <2>4. \A a : Jumped(proc', a) <=> Jumped(proc, a)
    BY <2>1 DEF Jumped, Over
  <2>5. ASSUME NEW a \in Lib PROVE ~Jumped(proc, a)
    <3>1. \A j \in Over(proc, a) : j \in Addr /\ proc.jump[j].refcount > 0 /\ a \in Cells(j)
      BY <1>2, CellsAre DEF Over
    <3> QED
      BY <1>1, <3>1 DEF Jumped, Coherent, JumpsOK
  <2>6. ASSUME NEW a \in Addr, Accessible(proc', a) PROVE CellOK(proc', program', a)
    <3>1. CASE a \in Lib
      BY <1>3, <2>1, <2>2, <2>3, <2>4, <2>5, <2>6, <3>1 DEF CellOK
    <3>2. CASE a \notin Lib
      <4>1. CellOK(proc, program, a)
        BY <1>1, <3>2 DEF Coherent, Accessible
      <4> QED
        BY <1>3, <2>1, <2>3, <2>4, <3>2, <4>1 DEF CellOK
    <3> QED
      BY <3>1, <3>2
  <2>7. ProgramOK(proc', program')
    <3> SUFFICES ASSUME NEW a \in Addr
                 PROVE  IF Accessible(proc', a) THEN program'[a] \in Byte ELSE program'[a] = Absent
      BY DEF ProgramOK
    <3>1. CASE a \in Lib
      BY <1>3, <2>2, <3>1
    <3>2. CASE a \notin Lib
      BY <1>1, Constants, <1>3, <2>2, <3>2 DEF Coherent, ProgramOK, Accessible
    <3> QED
      BY <3>1, <3>2
  <2>8. JumpsOK(proc')
    BY <1>1, <2>1 DEF Coherent, JumpsOK
  <2>9. ShadowsOK(proc', program', Addr)
    <3> SUFFICES ASSUME NEW j \in Addr, proc'.jump[j].refcount > 0,
                        NEW i \in 0..(JumpLength - 1), j + i \in Addr
                 PROVE  proc'.jump[j].shadow[i] = program'[j + i]
      BY DEF ShadowsOK
    <3>1. j + i \in Cells(j)
      BY Constants, MemBreakAssumption DEF Cells
    <3>2. j + i \in Addr \ Lib
      BY <1>1, <2>1, <3>1 DEF Coherent, JumpsOK
    <3>3. proc.jump[j].shadow[i] = program[j + i]
      BY <1>1, <2>1 DEF Coherent, ShadowsOK
    <3> QED
      BY <1>3, <2>1, <3>2, <3>3
  <2>10. Coherent(proc', program')
    BY <2>6, <2>7, <2>8, <2>9 DEF Coherent
  <2>11. ASSUME NEW r \in Live(proc), proc.raw[r].inserted >= 0
         PROVE  proc.raw[r].kind = CodeKind(proc.raw[r].pc)'
    BY <1>1, <1>3, <2>11 DEF KindsOK
  <2>12. KindsOK(proc)'
    BY <2>1, <2>11 DEF KindsOK, Live
  <2>13. ViewInv'
    BY <2>1, <2>10, <2>12 DEF ViewInv, V, Coherent, ProgramOK, JumpsOK, ShadowsOK, CellOK, TrapsAt,
           Traps, Jumped, Over, Live, Accessible
  <2>14. OneGdb(proc)'
    BY <1>1, <2>1 DEF OneGdb, Bps
  <2>15. ASSUME NEW a \in accepted' PROVE GdbFirm(proc', a)
    <3>1. a \in accepted /\ a \notin Lib
      BY <1>3, <2>15
    <3>2. GdbFirm(proc, a) /\ Accessible(proc, a)
      BY <1>1, <3>1 DEF Accessible
    <3>3. PICK b \in GdbBpsAt(proc, a) : b \in Firm(proc)
      BY <3>2 DEF GdbFirm
    <3>4. b \in GdbBpsAt(proc', a) /\ b \in Firm(proc')
      BY <2>1, <3>1, <3>3 DEF GdbBpsAt, Firm, Bps, Held, Live, Accessible
    <3> QED
      BY <3>4 DEF GdbFirm
  <2>16. GdbInv'
    BY <2>14, <2>15 DEF GdbInv, GdbFirm, GdbBpsAt, Firm, Bps, Held, Live, Accessible
  <2>17. StepInv'
    BY <1>1, <1>3, <2>1 DEF StepInv, StepBps, Bps
  <2> QED
    BY <2>13, <2>16, <2>17 DEF HInv
<1>4. CASE Unload
  <2> DEFINE mem == [a \in Addr |-> IF a \in Lib THEN AnyData ELSE proc.mem[a]]
  <2>1. mem \in [Addr -> Byte] /\ \A a \in Addr \ Lib : mem[a] = proc.mem[a]
    BY <1>1, Constants DEF Process
  <2>2. proc' = [proc EXCEPT !.mapped = FALSE, !.mem = mem]
    BY <1>4 DEF Unload
  <2> HIDE DEF mem
  <2>3. /\ program' \in [Addr -> Data \cup {Absent}]
        /\ \A a \in Addr \ Lib : program'[a] = program[a]
        /\ \A a \in Lib : program'[a] = Absent
    BY <1>1, <1>2, <1>4 DEF Unload
  <2>4. \A a : CodeKind(a)' = CodeKind(a)
    BY <1>4 DEF Unload, CodeKind
  <2>5. stepping = NoStep /\ stepping' = stepping /\ accepted' = accepted \ Lib
    BY <1>4 DEF Unload
  <2>6. \A a \in Lib : IF FALSE THEN program'[a] \in Data /\ mem[a] = program'[a]
                       ELSE program'[a] = Absent
    BY <2>3
  <2>7. FALSE => \A r \in Live(proc) : proc.raw[r].pc \in Lib => proc.raw[r].inserted = -1
    OBVIOUS
  <2>8. \A a : a \notin Lib \/ ~FALSE => CodeKind(a)' = CodeKind(a)
    BY <2>4
  <2>9. FALSE \in BOOLEAN
    OBVIOUS
  <2> QED
    BY <1>3, <2>1, <2>2, <2>3, <2>5, <2>6, <2>7, <2>8, <2>9, ZenonT(60)
<1>5. ASSUME NEW code \in [Lib -> Data], NEW m \in Kinds, Load(code, m) PROVE HInv'
  <2> DEFINE mem == [a \in Addr |-> IF a \in Lib THEN code[a] ELSE proc.mem[a]]
  <2>1. /\ mem \in [Addr -> Byte] /\ \A a \in Addr \ Lib : mem[a] = proc.mem[a]
        /\ \A a \in Lib : mem[a] = code[a]
    BY <1>1, <1>2, Constants DEF Process
  <2>2. proc' = [proc EXCEPT !.mapped = TRUE, !.mem = mem]
    BY <1>5 DEF Load
  <2> HIDE DEF mem
  <2>3. /\ program' \in [Addr -> Data \cup {Absent}]
        /\ \A a \in Addr \ Lib : program'[a] = program[a]
        /\ \A a \in Lib : program'[a] = code[a] /\ program'[a] \in Data
    BY <1>1, <1>2, <1>5 DEF Load
  <2>4. \A a : a \notin Lib => CodeKind(a)' = CodeKind(a)
    BY DEF CodeKind
  <2>5. stepping = NoStep /\ stepping' = stepping /\ accepted' = accepted \ Lib
    BY <1>5 DEF Load
  <2>6. ASSUME NEW r \in Live(proc), proc.raw[r].pc \in Lib PROVE proc.raw[r].inserted = -1
    <3>1. r \in RawIds /\ proc.raw[r].refcount > 0 /\ proc.raw[r] \in Raw
      BY <1>1 DEF Live, Process
    <3>2. proc.raw[r].inserted # 1
      BY <1>5, <2>6 DEF Load
    <3>3. proc.raw[r].inserted # 0
      BY <1>1, <1>2, <2>5, <2>6, <3>1 DEF Good, OutOnlyAt
    <3> QED
      BY <3>1, <3>2, <3>3 DEF Raw
  <2>7. \A a \in Lib : IF TRUE THEN program'[a] \in Data /\ mem[a] = program'[a]
                       ELSE program'[a] = Absent
    BY <2>1, <2>3
  <2>8. TRUE => \A r \in Live(proc) : proc.raw[r].pc \in Lib => proc.raw[r].inserted = -1
    BY <2>6
  <2>9. \A a : a \notin Lib \/ ~TRUE => CodeKind(a)' = CodeKind(a)
    BY <2>4
  <2>10. TRUE \in BOOLEAN
    OBVIOUS
  <2> QED
    BY <1>3, <2>1, <2>2, <2>3, <2>5, <2>7, <2>8, <2>9, <2>10
<1> QED
  BY <1>4, <1>5, <1>1 DEF Program

LEMMA InitHInv == ASSUME Init PROVE HInv
<1>1. /\ proc \in Process /\ proc.mapped = TRUE /\ proc.mem = program /\ program \in [Addr -> Data]
      /\ stepping = NoStep /\ accepted = {}
      /\ \A r \in RawIds : proc.raw[r].refcount = 0
      /\ \A b \in BpIds : proc.bp[b].type = "none"
      /\ \A j \in Addr : proc.jump[j].refcount = 0
  BY InitIInv, IInvIsGood DEF Init, GoodInv, Good, FreeRaw, FreeBp, FreeJump
<1>2. Live(proc) = {} /\ Bps(proc) = {} /\ (\A a : Over(proc, a) = {} /\ Accessible(proc, a))
  BY <1>1 DEF Live, Bps, Over, Accessible
<1>3. \A a : TrapsAt(proc, a) = {} /\ ~Jumped(proc, a)
  BY <1>2 DEF TrapsAt, Traps, Jumped
<1>4. \A a \in Addr : CellOK(proc, program, a)
  BY <1>1, <1>3 DEF CellOK
<1>5. ProgramOK(proc, program) /\ JumpsOK(proc) /\ ShadowsOK(proc, program, Addr)
  <2>1. ProgramOK(proc, program)
    BY <1>1, <1>2, Constants DEF ProgramOK
  <2>2. JumpsOK(proc)
    BY <1>1, <1>2 DEF JumpsOK
  <2>3. ShadowsOK(proc, program, Addr)
    BY <1>1, <1>2 DEF ShadowsOK
  <2> QED
    BY <2>1, <2>2, <2>3
<1>6. ViewInv
  BY <1>1, <1>2, <1>4, <1>5 DEF ViewInv, V, Coherent, KindsOK
<1>7. GdbInv
  BY <1>1, <1>2 DEF GdbInv, OneGdb
<1>8. StepInv
  BY <1>1, <1>2 DEF StepInv, StepBps
<1> QED
  BY <1>6, <1>7, <1>8 DEF HInv

LEMMA StutterHInv == ASSUME HInv, UNCHANGED vars PROVE HInv'
<1>1. ViewInv'
  BY DEF HInv, ViewInv, V, Coherent, ProgramOK, JumpsOK, ShadowsOK, CellOK, TrapsAt, Traps, Jumped,
         Over, Live, Accessible, KindsOK, CodeKind, vars
<1>2. GdbInv'
  BY DEF HInv, GdbInv, OneGdb, GdbFirm, GdbBpsAt, Firm, Bps, Held, Live, Accessible, vars
<1>3. StepInv'
  BY DEF HInv, StepInv, StepBps, Firm, Bps, Held, Live, Accessible, vars
<1> QED
  BY <1>1, <1>2, <1>3 DEF HInv

LEMMA SpecSInv == ASSUME ~Reload PROVE Spec => []SInv
<1>1. Init => SInv
  BY InitIInv, InitCounted, InitHInv DEF SInv
<1>2. SInv /\ Next => Counted(proc') /\ Counted(proc)'
  BY ClientCounted, InternalCounted, SteppingCounted, ProgramCounted DEF Next, SInv, Counted
<1>3. SInv /\ Next => HInv'
  BY <1>2, ClientHInv, InternalHInv, SteppingHInv, ProgramHInv DEF Next
<1>4. SInv /\ Next => IInv'
  BY ClientIInv, InternalIInv, SteppingIInv, ProgramIInv DEF Next, SInv
<1>5. SInv /\ UNCHANGED vars => SInv'
  <2>1. SInv /\ UNCHANGED vars => Counted(proc)'
    BY DEF SInv, Counted, vars
  <2> QED
    BY <2>1, StutterIInv, StutterHInv DEF SInv
<1>6. SInv /\ [Next]_vars => SInv'
  BY <1>2, <1>3, <1>4, <1>5 DEF SInv
<1> QED
  BY <1>1, <1>6, PTL DEF Spec

-----------------------------------------------------------------------------
(* The client's Z packets: where a breakpoint was accepted there is a trap *)
(* in memory in every state, except where a thread steps over it, as long  *)
(* as code is not replaced below what is inserted.                         *)
THEOREM HonouredCorrect == ASSUME ~Reload PROVE Spec => []Honoured
<1>1. SInv => Honoured
  <2> SUFFICES ASSUME SInv, NEW a \in accepted, Accessible(proc, a)
               PROVE  /\ GdbBpsAt(proc, a) # {}
                      /\ a # stepping => OnTop(proc, a) # {}
    BY DEF Honoured
  <2>1. /\ proc \in Process /\ Good(proc, stepping) /\ V(proc, program) /\ GdbFirm(proc, a)
    BY SInvHas
  <2>2. PICK b \in GdbBpsAt(proc, a) : b \in Firm(proc)
    BY <2>1 DEF GdbFirm
  <2> DEFINE r == proc.bp[b].raw
  <2>3. r \in Live(proc) /\ proc.raw[r].pc = a /\ proc.raw[r].inserted \in {0, 1}
    BY <2>1, <2>2 DEF Firm, Held, GdbBpsAt, Process, Raw, Live
  <2>4. ASSUME a # stepping PROVE OnTop(proc, a) # {}
    <3>1. proc.raw[r].inserted = 1
      BY <2>1, <2>3, <2>4 DEF Good, OutOnlyAt, Live
    <3>2. r \in TrapsAt(proc, a)
      BY <2>3, <3>1 DEF TrapsAt, Traps
    <3>3. OnTop(proc, a) = TrapsAt(proc, a)
      BY <2>1, CoherentPlanted, OnTopIsTraps DEF V
    <3> QED
      BY <3>2, <3>3
  <2> QED
    BY <2>2, <2>4
<1> QED
  BY SpecSInv, <1>1, PTL

(* A thread that steps over a breakpoint on a target without hardware      *)
(* single-step always meets the breakpoint planted after it, whatever the  *)
(* client and gdbserver set, delete and write while it steps.              *)
THEOREM StepBreakpointPlantedCorrect == ASSUME ~Reload PROVE Spec => []StepBreakpointPlanted
<1>1. SInv => StepBreakpointPlanted
  BY DEF SInv, HInv, StepInv, StepBreakpointPlanted
<1> QED
  BY SpecSInv, <1>1, PTL

LEMMA ContentIs ==
  ASSUME V(proc, program), program \in [Addr -> Data \cup {Absent}] PROVE Content = program
<1>1. ASSUME NEW a \in Addr
      PROVE  (IF Accessible(proc, a) THEN View(proc, a) ELSE Absent) = program[a]
  BY ViewIs DEF V, Coherent, ProgramOK
<1> QED
  BY <1>1 DEF Content

(* Reading and writing through gdbserver is reading and writing memory:    *)
(* nothing that gdbserver plants, lifts, steps over, finds gone or deletes *)
(* shows, and what the client writes below a breakpoint or a jump is what  *)
(* the program has there, for any memory, program and number of            *)
(* breakpoints.  Every step of MemBreak is a step of ProgramMemory or      *)
(* changes nothing there.                                                  *)
THEOREM TransparentCorrect == ASSUME ~Reload PROVE Spec => Transparent
<1>1. SInv => Content = program
  BY SInvHas, ContentIs
<1>2. Init => Memory!Init
  <2> SUFFICES ASSUME Init PROVE Memory!Init
    OBVIOUS
  <2>1. SInv
    BY InitIInv, InitCounted, InitHInv DEF SInv
  <2> QED
    BY <1>1, <2>1 DEF Init, Memory!Init
<1>3. SInv /\ Content = program /\ (Content = program)' /\ [Next]_vars
        => [Memory!Next]_Memory!vars
  <2> SUFFICES ASSUME SInv, Content = program, (Content = program)', [Next]_vars
               PROVE  [Memory!Next]_Memory!vars
    OBVIOUS
  <2>1. Content = program /\ Content' = program'
    OBVIOUS
  <2>2. CASE program' = program
    BY <2>1, <2>2 DEF Memory!vars
  <2>3. ASSUME NEW a \in Addr, NEW d \in Data, ClientWrite(a, d) PROVE [Memory!Next]_Memory!vars
    <3>1. CASE Accessible(proc, a)
      <4>1. program[a] # Absent /\ program' = [program EXCEPT ![a] = d]
        BY <2>3, <3>1, SInvHas, MemBreakAssumption DEF V, Coherent, ProgramOK, ClientWrite, Byte
      <4> QED
        BY <2>1, <4>1 DEF Memory!Store, Memory!Next
    <3>2. CASE ~Accessible(proc, a)
      BY <2>2, <2>3, <3>2 DEF ClientWrite
    <3> QED
      BY <3>1, <3>2
  <2>4. CASE Unload
    BY <2>1, <2>4 DEF Unload, Memory!Unmap, Memory!Next
  <2>5. ASSUME NEW code \in [Lib -> Data], NEW m \in Kinds, Load(code, m)
        PROVE  [Memory!Next]_Memory!vars
    BY <2>1, <2>5 DEF Load, Memory!Map, Memory!Next
  <2>6. ASSUME Client PROVE [Memory!Next]_Memory!vars
    <3>1. ASSUME NEW a \in Addr, ClientSet(a) \/ ClientDelete(a) \/ ClientRead(a) PROVE program' = program
      BY <3>1 DEF ClientSet, ClientDelete, ClientRead
    <3>2. ClientSymbols => program' = program
      BY DEF ClientSymbols
    <3> QED
      BY <2>2, <2>3, <2>6, <3>1, <3>2 DEF Client
  <2>7. Internal => program' = program
    BY DEF Internal, SetInternal, InstallJump, DropJump, DeleteInternal
  <2>8. Stepping => program' = program
    BY DEF Stepping, FinishStepOver, StartStepOver
  <2>9. UNCHANGED vars => program' = program
    BY DEF vars
  <2> QED
    BY <2>2, <2>4, <2>5, <2>6, <2>7, <2>8, <2>9 DEF Next, Program
<1> QED
  BY SpecSInv, <1>1, <1>2, <1>3, PTL DEF Spec, Transparent, Memory!Spec

-----------------------------------------------------------------------------
(***************************************************************************)
(* Proofs about what the child of a fork inherits: the copies of the       *)
(* breakpoints are counted, planted where the client was told, and hide    *)
(* what was copied with the memory.                                        *)
(***************************************************************************)

(* clone_one_breakpoint: high-level breakpoint b has raw breakpoint b, a   *)
(* copy of the one that it had.                                            *)
LEMMA CloneIs ==
  ASSUME NEW s \in Process
  PROVE  LET t == Clone(s)
         IN  /\ t \in Process /\ t.mem = s.mem /\ t.mapped = s.mapped
             /\ \A j \in Addr : t.jump[j].refcount = 0
             /\ Bps(t) = Bps(s) /\ Bps(s) \subseteq RawIds \cap BpIds
             /\ \A b \in Bps(s) : /\ t.bp[b].type = s.bp[b].type /\ t.bp[b].raw = b
                                  /\ s.bp[b].raw \in RawIds
                                  /\ t.raw[b] = s.raw[s.bp[b].raw]
             /\ \A r \in RawIds \ Bps(s) : t.raw[r].refcount = 0
<1> DEFINE raw == [r \in RawIds |-> IF r \in Bps(s) THEN s.raw[s.bp[r].raw] ELSE FreeRaw]
           bp == [b \in BpIds |-> IF b \in Bps(s) THEN [s.bp[b] EXCEPT !.raw = b] ELSE FreeBp]
           jump == [j \in Addr |-> FreeJump]
           t == Clone(s)
<1>1. Bps(s) \subseteq BpIds /\ BpIds \subseteq RawIds
  BY CloneAssumption, MemBreakAssumption DEF Bps, BpIds, RawIds
<1>2. \A b \in Bps(s) : s.bp[b] \in Bp /\ s.bp[b].raw \in RawIds
  BY <1>1 DEF Bps, Process, Bp, FreeBp
<1>3. raw \in [RawIds -> Raw]
  BY <1>2, Constants DEF Process
<1>4. /\ bp \in [BpIds -> Bp \cup {FreeBp}]
      /\ \A b \in Bps(s) : bp[b].type = s.bp[b].type /\ bp[b].raw = b
      /\ \A b \in BpIds \ Bps(s) : bp[b].type = "none"
  BY <1>1, <1>2 DEF Bp, FreeBp
<1>5. jump \in [Addr -> JumpRec] /\ \A j \in Addr : jump[j].refcount = 0
  BY Constants DEF FreeJump
<1>6. /\ \A b \in Bps(s) : raw[b] = s.raw[s.bp[b].raw]
      /\ \A r \in RawIds \ Bps(s) : raw[r].refcount = 0
  BY <1>1, Constants
<1>7. t = [s EXCEPT !.raw = raw, !.bp = bp, !.jump = jump]
  BY DEF Clone
<1> HIDE DEF raw, bp, jump, t
<1>8. /\ t \in Process /\ t.mem = s.mem /\ t.mapped = s.mapped
      /\ t.raw = raw /\ t.bp = bp /\ t.jump = jump
  BY <1>3, <1>4, <1>5, <1>7 DEF Process
<1>9. Bps(t) = Bps(s)
  BY <1>4, <1>8 DEF Bps
<1> QED
  BY <1>1, <1>2, <1>4, <1>5, <1>6, <1>8, <1>9 DEF t

LEMMA CloneCounted ==
  ASSUME NEW s \in Process, Counted(s)
  PROVE  Counted(Clone(s)) /\ \A b \in Bps(s) : Clone(s).raw[b].refcount > 0
<1> DEFINE t == Clone(s)
<1>1. /\ Bps(t) = Bps(s) /\ Bps(s) \subseteq RawIds \cap BpIds
      /\ \A b \in Bps(s) : t.bp[b].raw = b /\ t.raw[b] = s.raw[s.bp[b].raw]
      /\ \A r \in RawIds \ Bps(s) : t.raw[r].refcount = 0
  BY CloneIs
<1> HIDE DEF t
<1>2. \A b \in Bps(s) : t.raw[b].refcount \in Nat /\ t.raw[b].refcount > 0
  BY <1>1, BpLive DEF Process, Raw
<1>3. ASSUME NEW r \in RawIds PROVE Cardinality(BpsOf(t, r)) <= t.raw[r].refcount
  <2>1. CASE r \in Bps(s)
    <3>1. BpsOf(t, r) = {r}
      BY <1>1, <2>1 DEF BpsOf
    <3>2. Cardinality(BpsOf(t, r)) = 1
      BY <3>1, FS_Singleton
    <3> QED
      BY <1>2, <2>1, <3>2
  <2>2. CASE r \notin Bps(s)
    <3>1. BpsOf(t, r) = {}
      BY <1>1, <2>2 DEF BpsOf
    <3> QED
      BY <1>1, <2>2, <3>1, FS_EmptySet
  <2> QED
    BY <2>1, <2>2
<1> QED
  BY <1>2, <1>3 DEF Counted, t

LEMMA ChildCounted == ASSUME IInv, Counted(proc) PROVE Counted(ForkChild) /\ ForkChild \in Process
<1>1. proc \in Process
  BY DEF IInv, TypeOK
<1>2. Clone(proc) \in Process /\ Counted(Clone(proc))
  BY <1>1, CloneIs, CloneCounted
<1> QED
  BY <1>2, DeleteStepBpsCounted, DeleteStepBpsKeeps DEF ForkChild, Keeps

(* clone_all_breakpoints gives each high-level breakpoint a raw one of its *)
(* own, so that in the child of a fork, in whatever state of the parent,   *)
(* no breakpoint refers to a raw one that is freed; deleting the copy of   *)
(* the single-step breakpoint frees none that another copy refers to.      *)
THEOREM ChildNoDanglingCorrect == Spec => []ChildNoDangling
<1>1. IInv /\ NoDanglingBreakpoint => ChildNoDangling
  <2> SUFFICES ASSUME IInv, NoDanglingBreakpoint PROVE ChildNoDangling
    OBVIOUS
  <2>1. Counted(proc)
    BY DEF Counted, NoDanglingBreakpoint
  <2>2. Counted(ForkChild)
    BY <2>1, ChildCounted
  <2>3. ASSUME NEW r PROVE Child!BpsOf(ForkChild, r) = BpsOf(ForkChild, r)
    BY DEF Child!BpsOf, Child!Bps, Child!BpIds, BpsOf, Bps, BpIds
  <2>4. ASSUME NEW S PROVE Child!Cardinality(S) = Cardinality(S)
    BY DEF Child!Cardinality, Cardinality
  <2> QED
    BY <2>2, <2>3, <2>4 DEF ChildNoDangling, Child!NoDanglingBreakpoint, Child!RawIds, RawIds, Counted
<1> QED
  BY SpecIInv, NoDanglingCorrect, <1>1, PTL

-----------------------------------------------------------------------------
(* The instruction where nothing is planted, or a jump that is not copied. *)
Image(s, p) ==
  [a \in Addr |-> IF ~Accessible(s, a) THEN Absent
                  ELSE IF TrapsAt(s, a) = {} THEN s.mem[a] ELSE p[a]]

(* A trap that was copied with memory has a copy of its breakpoint, since  *)
(* no raw breakpoint is without a high-level one.                          *)
LEMMA CloneV ==
  ASSUME NEW s, NEW p, V(s, p), Counted(s), Owned(s) PROVE V(Clone(s), Image(s, p))
<1> DEFINE t == Clone(s)
           image == Image(s, p)
<1>1. /\ t \in Process /\ t.mem = s.mem /\ t.mapped = s.mapped
      /\ \A j \in Addr : t.jump[j].refcount = 0
      /\ Bps(s) \subseteq RawIds \cap BpIds
      /\ \A b \in Bps(s) : s.bp[b].raw \in RawIds /\ t.raw[b] = s.raw[s.bp[b].raw]
      /\ \A r \in RawIds \ Bps(s) : t.raw[r].refcount = 0
      /\ s \in Process /\ Coherent(s, p) /\ KindsOK(s)
  BY CloneIs DEF V
<1> HIDE DEF t
<1>2. \A b \in Bps(s) : s.bp[b].raw \in Live(s) /\ b \in Live(t)
  BY <1>1, BpLive DEF Live
<1>3. \A a : (Accessible(t, a) <=> Accessible(s, a)) /\ ~Jumped(t, a)
  BY <1>1 DEF Accessible, Jumped, Over
<1>4. ASSUME NEW a, NEW r \in TrapsAt(t, a)
      PROVE  r \in Bps(s) /\ s.bp[r].raw \in TrapsAt(s, a) /\ t.raw[r] = s.raw[s.bp[r].raw]
  <2>1. r \in Bps(s)
    BY <1>1 DEF TrapsAt, Traps, Live
  <2> QED
    BY <1>1, <1>2, <1>3, <2>1 DEF TrapsAt, Traps
<1>5. ASSUME NEW a, NEW r \in TrapsAt(s, a) PROVE TrapsAt(t, a) # {}
  <2>1. r \in Held(s) /\ r \in RawIds
    BY DEF TrapsAt, Traps, Held, Live
  <2>2. s.raw[r].refcount <= Cardinality(BpsOf(s, r)) /\ s.raw[r].refcount \in Nat /\ s.raw[r].refcount > 0
    BY <1>1, <2>1, OwnedIs DEF Held, Live, Process, Raw
  <2>3. Cardinality(BpsOf(s, r)) # 0
    BY <2>2
  <2>4. PICK b \in BpsOf(s, r) : TRUE
    BY <2>3, FS_EmptySet
  <2>5. b \in Bps(s) /\ b \in Live(t) /\ t.raw[b] = s.raw[r]
    BY <1>1, <1>2, <2>4 DEF BpsOf
  <2>6. b \in TrapsAt(t, a)
    BY <1>3, <2>5 DEF TrapsAt, Traps
  <2> QED
    BY <2>6
<1>6. ASSUME NEW a \in Addr, Accessible(t, a) PROVE CellOK(t, image, a)
  <2>1. CellOK(s, p, a) /\ Accessible(s, a)
    BY <1>1, <1>3, <1>6 DEF Coherent
  <2>2. CASE TrapsAt(t, a) # {}
    <3>1. TrapsAt(s, a) # {} /\ image[a] = p[a]
      BY <1>4, <2>1, <2>2 DEF Image
    <3> QED
      BY <1>1, <1>4, <2>1, <2>2, <3>1 DEF CellOK
  <2>3. CASE TrapsAt(t, a) = {}
    <3>1. image[a] = s.mem[a]
      BY <1>5, <2>1, <2>3 DEF Image
    <3> QED
      BY <1>1, <1>3, <2>3, <3>1 DEF CellOK
  <2> QED
    BY <2>2, <2>3
<1>7. ProgramOK(t, image)
  <2>1. \A a \in Addr : s.mem[a] \in Byte
    BY <1>1 DEF Process
  <2> QED
    BY <1>1, <1>3, <2>1 DEF ProgramOK, Image, Coherent
<1>8. JumpsOK(t) /\ ShadowsOK(t, image, Addr)
  BY <1>1 DEF JumpsOK, ShadowsOK
<1>9. KindsOK(t)
  BY <1>1, <1>2 DEF KindsOK, Live
<1> HIDE DEF image
<1> QED
  BY <1>1, <1>6, <1>7, <1>8, <1>9 DEF V, Coherent, t, image

LEMMA ChildV ==
  ASSUME SInv, Owned(proc)
  PROVE  /\ V(ForkChild, Image(proc, program))
         /\ Holds(Clone(proc), ForkChild, StepBps(Clone(proc)))
<1>1. V(proc, program) /\ Counted(proc) /\ proc \in Process
  BY SInvHas
<1>2. V(Clone(proc), Image(proc, program)) /\ Counted(Clone(proc))
  BY <1>1, CloneV, CloneCounted
<1> QED
  BY <1>2, DeleteStepBpsV DEF ForkChild

(* The child's operators are those of the process.                         *)
LEMMA ChildSame ==
  ASSUME NEW s, NEW a
  PROVE  /\ Child!Accessible(s, a) <=> Accessible(s, a)
         /\ Child!OnTop(s, a) = OnTop(s, a)
         /\ Child!View(s, a) = View(s, a)
         /\ Child!GdbBpsAt(s, a) = GdbBpsAt(s, a)
<1>1. Child!Addr = Addr /\ Child!RawIds = RawIds /\ Child!BpIds = BpIds
  BY DEF Child!Addr, Child!RawIds, Child!BpIds, Addr, RawIds, BpIds
<1>2. \A x : Child!Accessible(s, x) <=> Accessible(s, x)
  BY DEF Child!Accessible, Accessible
<1>3. Child!OnTop(s, a) = OnTop(s, a)
  BY <1>1, <1>2 DEF Child!OnTop, Child!At, Child!Live, Child!Planted, OnTop, At, Live, Planted
<1>4. Child!Over(s, a) = Over(s, a)
  BY <1>1 DEF Child!Over, Over
<1>5. Child!Unjumped(s, a) = Unjumped(s, a)
  BY <1>4 DEF Child!Unjumped, Unjumped
<1>6. Child!GdbBpsAt(s, a) = GdbBpsAt(s, a)
  BY <1>1 DEF Child!GdbBpsAt, Child!Bps, GdbBpsAt, Bps
<1> QED
  BY <1>2, <1>3, <1>5, <1>6 DEF Child!View, View

JumpsOut == \A j \in Addr : proc.jump[j].refcount > 0 => ~proc.jump[j].inserted

(* In the child, too, gdbserver reads what the program has in memory: the  *)
(* copied shadows hide every trap that was copied, and deleting the copy   *)
(* of the single-step breakpoint uncovers none.  Jumps are copied with the *)
(* memory but their shadows are not, hence the condition on the parent.    *)
THEOREM ChildTransparentCorrect == ASSUME ~Reload PROVE Spec => [](JumpsOut => ChildTransparent)
<1>1. SInv /\ Owned(proc) => (JumpsOut => ChildTransparent)
  <2> SUFFICES ASSUME SInv, Owned(proc), JumpsOut PROVE Child!Content = program
    BY DEF ChildTransparent
  <2>1. /\ V(proc, program) /\ program \in [Addr -> Data \cup {Absent}]
        /\ V(ForkChild, Image(proc, program))
    BY SInvHas, ChildV
  <2>2. \A a : ~Jumped(proc, a)
    BY DEF JumpsOut, Jumped, Over
  <2>3. \A a \in Addr : Image(proc, program)[a] = program[a]
    BY <2>1, <2>2 DEF Image, V, Coherent, ProgramOK, CellOK
  <2>4. \A a \in Addr : (IF Accessible(ForkChild, a) THEN View(ForkChild, a) ELSE Absent) = program[a]
    BY <2>1, <2>3, ViewIs DEF V, Coherent, ProgramOK
  <2>5. Child!Content = [a \in Addr |-> IF Accessible(ForkChild, a) THEN View(ForkChild, a) ELSE Absent]
    BY ChildSame DEF Child!Content, Child!Addr, Addr
  <2> QED
    BY <2>1, <2>4, <2>5
<1> DEFINE OInv == Owned(proc)
<1>2. Spec => []OInv
  BY OwnedCorrect
<1>3. SInv /\ OInv => (JumpsOut => ChildTransparent)
  BY <1>1
<1> HIDE DEF OInv
<1> QED
  BY SpecSInv, <1>2, <1>3, PTL

(* A breakpoint that the client was told is inserted is inserted in the    *)
(* child of a fork from the start, however the parent shared it, unless a  *)
(* thread of the parent was stepping over it.                              *)
THEOREM ChildHonouredCorrect == ASSUME ~Reload PROVE Spec => []ChildHonoured
<1>1. SInv /\ Owned(proc) => ChildHonoured
  <2> SUFFICES ASSUME SInv, Owned(proc), NEW a \in accepted, Accessible(proc, a), a # stepping
               PROVE  GdbBpsAt(ForkChild, a) # {} /\ OnTop(ForkChild, a) # {}
    BY ChildSame DEF ChildHonoured
  <2> DEFINE copied == Clone(proc)
             child == ForkChild
  <2>1. /\ proc \in Process /\ Good(proc, stepping) /\ GdbFirm(proc, a) /\ Counted(proc)
        /\ V(child, Image(proc, program)) /\ Holds(copied, child, StepBps(copied))
    BY SInvHas, ChildV
  <2>2. PICK b \in GdbBpsAt(proc, a) : b \in Firm(proc)
    BY <2>1 DEF GdbFirm
  <2> DEFINE r == proc.bp[b].raw
  <2>3. b \in Bps(proc) /\ r \in Held(proc) /\ proc.raw[r].pc = a /\ proc.raw[r].inserted = 1
    BY <2>1, <2>2 DEF Firm, Held, GdbBpsAt, Process, Raw, Live, Good, OutOnlyAt
  <2>4. /\ copied.mapped = proc.mapped /\ b \in Bps(copied) /\ b \in RawIds
        /\ copied.bp[b].type = "gdb" /\ copied.bp[b].raw = b
        /\ copied.raw[b] = proc.raw[r]
    BY <2>1, <2>2, <2>3, CloneIs DEF GdbBpsAt
  <2> HIDE DEF copied, child, r
  <2>5. b \in Firm(copied) \ StepBps(copied)
    BY <2>3, <2>4 DEF Firm, Held, Live, Accessible, StepBps
  <2>6. /\ b \in Firm(child) /\ child.bp[b] = copied.bp[b]
        /\ child.raw[b].pc = a /\ child.raw[b].inserted = 1
    BY <2>1, <2>3, <2>4, <2>5 DEF Holds, Remains
  <2>7. b \in GdbBpsAt(child, a) /\ b \in TrapsAt(child, a)
    BY <2>4, <2>6 DEF Firm, GdbBpsAt, TrapsAt, Traps, Held
  <2>8. OnTop(child, a) = TrapsAt(child, a)
    BY <2>1, CoherentPlanted, OnTopIsTraps DEF V
  <2> QED
    BY <2>7, <2>8 DEF child
<1> DEFINE OInv == Owned(proc)
<1>2. Spec => []OInv
  BY OwnedCorrect
<1>3. SInv /\ OInv => ChildHonoured
  BY <1>1
<1> HIDE DEF OInv
<1> QED
  BY SpecSInv, <1>2, <1>3, PTL
=============================================================================
