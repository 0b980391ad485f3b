------------------------------ MODULE MemBreak ------------------------------
(***************************************************************************)
(* Breakpoints of gdbserver (gdb/gdbserver/mem-break.c) in one process:    *)
(* reference-counted raw software breakpoints with their shadow memory,    *)
(* the high-level breakpoints that share them, fast tracepoint jumps below *)
(* them, and the memory of the process as every reader and writer of       *)
(* gdbserver sees it (read_inferior_memory and target_write_memory).       *)
(*                                                                         *)
(* Memory is a sequence of cells; a cell is what one breakpoint            *)
(* instruction replaces, so that a breakpoint covers one cell and a jump   *)
(* JumpLength of them.  The instruction of a breakpoint stands for its     *)
(* kind.  The handlers are functions from process states to process        *)
(* states, because they call one another in sequence within one step.      *)
(***************************************************************************)
EXTENDS Integers, FiniteSets

CONSTANTS MaxAddr,      \* addresses are 0..MaxAddr
          Lib,          \* the addresses of a library that comes and goes
          Data,         \* what the program itself has in a cell
          Kinds,        \* breakpoint kinds, and their instructions
          Jump,         \* what a jump to a jump pad has in its cells
          Absent,       \* the view of a cell that is not mapped
          JumpLength,   \* cells of a jump
          MaxRaw,       \* bound: raw breakpoints alive at a time
          MaxBp,        \* bound: high-level breakpoints alive at a time
          MaxRef,       \* bound: references to a fast tracepoint jump
          Reload,       \* may code be replaced below inserted breakpoints?
          SoftwareStep  \* is single-stepping done with breakpoints?

Addr == 0..MaxAddr
RawIds == 1..MaxRaw
BpIds == 1..MaxBp
Byte == Data \cup Kinds \cup {Jump}

ASSUME MemBreakAssumption ==
  /\ MaxAddr \in Nat /\ MaxRaw \in Nat /\ MaxBp \in Nat /\ MaxRef \in Nat
  /\ JumpLength \in Nat \ {0}
  /\ Lib \subseteq Addr
  /\ Data # {} /\ Kinds # {}
  /\ Data \cap Kinds = {} /\ Jump \notin Data \cup Kinds /\ Absent \notin Byte
  /\ Reload \in BOOLEAN /\ SoftwareStep \in BOOLEAN

VARIABLES proc,      \* struct process_info, and the memory of the process
          mode,      \* the kind a breakpoint in the library would have now
          stepping,  \* lwp->bp_reinsert of the thread stepping over, or -1
          accepted,  \* history: where the client has a breakpoint, it was told
          program    \* history: what the program itself has in each cell

vars == <<proc, mode, stepping, accepted, program>>

NoStep == -1
AnyKind == CHOOSE k \in Kinds : TRUE
AnyData == CHOOSE d \in Data : TRUE

Raw == [pc : Addr, kind : Kinds, old_data : Byte, inserted : {-1, 0, 1}, refcount : Nat]
FreeRaw == [pc |-> 0, kind |-> AnyKind, old_data |-> AnyData, inserted |-> 0, refcount |-> 0]
Bp == [type : {"gdb", "other", "step"}, raw : RawIds]
FreeBp == [type |-> "none", raw |-> 0]
JumpRec == [inserted : BOOLEAN, refcount : Nat, shadow : [0..(JumpLength - 1) -> Byte]]
FreeJump == [inserted |-> FALSE, refcount |-> 0, shadow |-> [i \in 0..(JumpLength - 1) |-> AnyData]]

Process == [mem : [Addr -> Byte], mapped : BOOLEAN, raw : [RawIds -> Raw],
            bp : [BpIds -> Bp \cup {FreeBp}], jump : [Addr -> JumpRec]]

-----------------------------------------------------------------------------
(* Looking at a process state.                                             *)

Accessible(s, a) == a \notin Lib \/ s.mapped
Live(s) == {r \in RawIds : s.raw[r].refcount > 0}
At(s, a) == {r \in Live(s) : s.raw[r].pc = a}
Bps(s) == {b \in BpIds : s.bp[b].type # "none"}
BpsOf(s, r) == {b \in Bps(s) : s.bp[b].raw = r}
GdbBpsAt(s, a) == {b \in Bps(s) : s.bp[b].type = "gdb" /\ s.raw[s.bp[b].raw].pc = a}

(* The jumps whose cells include a.                                        *)
Over(s, a) == {j \in Addr : s.jump[j].refcount > 0 /\ j <= a /\ a < j + JumpLength}

(* What validate_inserted_breakpoint compares: is the instruction there?   *)
Planted(s, r) == Accessible(s, s.raw[r].pc) /\ s.mem[s.raw[r].pc] = s.raw[r].kind
OnTop(s, a) == {r \in At(s, a) : s.raw[r].inserted = 1 /\ Planted(s, r)}
Gone(s, C) == {r \in Live(s) : s.raw[r].pc \in C /\ s.raw[r].inserted = 1 /\ ~Planted(s, r)}

(* What check_mem_read makes of a byte that was read: jumps are masked     *)
(* first, then the breakpoints that are really there.                      *)
Unjumped(s, a) ==
  IF \E j \in Over(s, a) : s.jump[j].inserted
  THEN LET j == CHOOSE j \in Over(s, a) : s.jump[j].inserted IN s.jump[j].shadow[a - j]
  ELSE s.mem[a]

View(s, a) ==
  IF OnTop(s, a) # {} THEN s.raw[CHOOSE r \in OnTop(s, a) : TRUE].old_data ELSE Unjumped(s, a)

-----------------------------------------------------------------------------
(* Tagging, validating, deleting what is gone.                             *)

Tag(s, R) ==
  [s EXCEPT !.raw = [r \in RawIds |-> IF r \in R THEN [s.raw[r] EXCEPT !.inserted = -1]
                                                 ELSE s.raw[r]]]

(* delete_disabled_breakpoints: nothing is written, the trap is gone.      *)
DeleteDisabled(s) ==
  LET dead == {b \in Bps(s) : s.raw[s.bp[b].raw].inserted = -1}
      dropped(r) == Cardinality({b \in dead : s.bp[b].raw = r})
  IN  [s EXCEPT
        !.bp  = [b \in BpIds |-> IF b \in dead THEN FreeBp ELSE s.bp[b]],
        !.raw = [r \in RawIds |->
                   IF dropped(r) = 0 THEN s.raw[r]
                   ELSE IF dropped(r) >= s.raw[r].refcount THEN FreeRaw
                   ELSE [s.raw[r] EXCEPT !.refcount = @ - dropped(r)]]]

(* check_mem_read and check_mem_write validate the breakpoints of a range. *)
Validate(s, C) == IF Gone(s, C) = {} THEN s ELSE DeleteDisabled(Tag(s, Gone(s, C)))

(* validate_breakpoints goes by the high-level breakpoints.                *)
ValidateAll(s) == DeleteDisabled(Tag(s, {r \in Gone(s, Addr) : BpsOf(s, r) # {}}))

(* Mutant: the write does not spare what is inserted.                      *)
Write_unlayered(s, C, new) ==
  LET shadowed ==
        [s EXCEPT
          !.raw = [r \in RawIds |-> IF r \in Live(s) /\ s.raw[r].pc \in C
                                    THEN [s.raw[r] EXCEPT !.old_data = new[s.raw[r].pc]]
                                    ELSE s.raw[r]]]
      valid == Validate(shadowed, C)
  IN  IF \A a \in C : Accessible(s, a)
      THEN [valid EXCEPT !.mem = [a \in Addr |-> IF a \in C THEN new[a] ELSE s.mem[a]]]
      ELSE valid

(* target_write_memory: the shadows take the new bytes, and what is        *)
(* inserted stays on top of them.                                          *)
Write(s, C, new) ==
  LET shadowed ==
        [s EXCEPT
          !.raw = [r \in RawIds |-> IF r \in Live(s) /\ s.raw[r].pc \in C
                                    THEN [s.raw[r] EXCEPT !.old_data = new[s.raw[r].pc]]
                                    ELSE s.raw[r]],
          !.jump = [j \in Addr |->
                      IF s.jump[j].refcount = 0 THEN s.jump[j]
                      ELSE [s.jump[j] EXCEPT !.shadow =
                              [i \in 0..(JumpLength - 1) |-> IF j + i \in C THEN new[j + i] ELSE @[i]]]]]
      valid == Validate(shadowed, C)
      layered(a) == IF OnTop(valid, a) # {} THEN s.mem[a]
                    ELSE IF \E j \in Over(s, a) : s.jump[j].inserted THEN Jump
                    ELSE new[a]
  IN  IF \A a \in C : Accessible(s, a)
      THEN [valid EXCEPT !.mem = [a \in Addr |-> IF a \in C THEN layered(a) ELSE s.mem[a]]]
      ELSE valid

-----------------------------------------------------------------------------
(* Raw breakpoints.                                                        *)

(* Mutant: the shadow is read around check_mem_read, jumps and all.        *)
Insert_unmasked(s, r) ==
  LET a == s.raw[r].pc
      valid == Validate(s, {a})
  IN  IF Accessible(s, a)
      THEN [valid EXCEPT !.raw[r].old_data = s.mem[a], !.raw[r].inserted = 1,
                         !.mem[a] = s.raw[r].kind]
      ELSE valid

(* insert_memory_breakpoint for a linked breakpoint r.                     *)
Insert(s, r) ==
  LET a == s.raw[r].pc
      valid == Validate(s, {a})
  IN  IF Accessible(s, a)
      THEN [valid EXCEPT !.raw[r].old_data = View(s, a), !.raw[r].inserted = 1,
                         !.mem[a] = s.raw[r].kind]
      ELSE valid

(* uninsert_raw_breakpoint and remove_memory_breakpoint for an inserted r, *)
(* which stays inserted if it cannot be taken out.                         *)
Uninsert(s, r) ==
  LET a == s.raw[r].pc
      out == Write([s EXCEPT !.raw[r].inserted = 0], {a}, [x \in {a} |-> s.raw[r].old_data])
  IN  IF Accessible(s, a) THEN out ELSE [out EXCEPT !.raw[r].inserted = 1]

(* Mutant: a breakpoint that is out of memory is not found.                *)
Enabled_inserted(s, a) == {r \in At(s, a) : s.raw[r].inserted > 0}

Enabled(s, a) == {r \in At(s, a) : s.raw[r].inserted >= 0}

(* Mutant: sharing a breakpoint takes no reference.                        *)
SetRaw_uncounted(s, a, k) ==
  LET same == {r \in Enabled(s, a) : s.raw[r].kind = k}
      r == IF same # {} THEN CHOOSE q \in same : TRUE ELSE CHOOSE q \in RawIds \ Live(s) : TRUE
      linked == IF same # {} THEN s
                ELSE [s EXCEPT !.raw[r] = [FreeRaw EXCEPT !.pc = a, !.kind = k, !.refcount = 1]]
  IN  IF Accessible(s, a) /\ linked.raw[r].inserted = 0
      THEN [st |-> Insert(linked, r), raw |-> r] ELSE [st |-> linked, raw |-> r]

(* set_raw_breakpoint_at: the state it leaves and the breakpoint, 0 if it  *)
(* could not be inserted.  A breakpoint of another kind must be gone.      *)
SetRaw(s, a, k) ==
  LET same == {r \in Enabled(s, a) : s.raw[r].kind = k}
      tagged == Tag(s, Enabled(s, a) \ same)
      r == IF same # {} THEN CHOOSE q \in same : TRUE ELSE CHOOSE q \in RawIds \ Live(s) : TRUE
      linked == IF same # {} THEN [tagged EXCEPT !.raw[r].refcount = @ + 1]
                ELSE [tagged EXCEPT !.raw[r] = [FreeRaw EXCEPT !.pc = a, !.kind = k, !.refcount = 1]]
  IN  CASE same # {} /\ s.raw[r].inserted = 1 -> [st |-> linked, raw |-> r]
        [] (same = {} \/ s.raw[r].inserted = 0) /\ Accessible(s, a)
             -> [st |-> Insert(linked, r), raw |-> r]
        [] OTHER -> [st |-> Validate(tagged, {a}), raw |-> 0]

(* There is room for what SetRaw may have to allocate.                     *)
Room(s) == Live(s) # RawIds /\ Bps(s) # BpIds

(* set_breakpoint: one more high-level breakpoint on the raw one.          *)
SetBreakpoint(s, type, a, k) ==
  LET set == SetRaw(s, a, k)
      b == CHOOSE q \in BpIds \ Bps(set.st) : TRUE
  IN  IF set.raw = 0 THEN set.st
      ELSE [set.st EXCEPT !.bp[b] = [type |-> type, raw |-> set.raw]]

(* delete_breakpoint: unlink it, drop its reference, and with the last one *)
(* take the raw breakpoint out; if that fails, the raw one is linked back. *)
Delete(s, b) ==
  LET r == s.bp[b].raw
      a == s.raw[r].pc
      unlinked == [s EXCEPT !.bp[b] = FreeBp]
      removed == [unlinked EXCEPT !.raw[r] = FreeRaw]
      out == Write(removed, {a}, [x \in {a} |-> s.raw[r].old_data])
  IN  IF s.raw[r].refcount > 1 THEN [unlinked EXCEPT !.raw[r].refcount = @ - 1]
      ELSE IF s.raw[r].inserted # 1 THEN removed
      ELSE IF Accessible(s, a) THEN out
      ELSE [out EXCEPT !.raw[r] = s.raw[r]]

(* delete_single_step_breakpoints of the stepping thread, at most one.     *)
StepBps(s) == {b \in Bps(s) : s.bp[b].type = "step"}
DeleteStepBps(s) == IF StepBps(s) = {} THEN s ELSE Delete(s, CHOOSE b \in StepBps(s) : TRUE)

(* uninsert_breakpoints_at, reinsert_breakpoints_at.                       *)
InsertedAt(s, a) == {r \in At(s, a) : s.raw[r].inserted = 1}
OutAt(s, a) == {r \in At(s, a) : s.raw[r].inserted = 0}
UninsertAt(s, a) == IF InsertedAt(s, a) = {} THEN s ELSE Uninsert(s, CHOOSE r \in InsertedAt(s, a) : TRUE)
ReinsertAt(s, a) == IF OutAt(s, a) = {} THEN s ELSE Insert(s, CHOOSE r \in OutAt(s, a) : TRUE)

-----------------------------------------------------------------------------
(* Fast tracepoint jumps.                                                  *)

Cells(j) == j..(j + JumpLength - 1)
Shadow(s, j) == [a \in Cells(j) |-> s.jump[j].shadow[a - j]]

(* set_fast_tracepoint_jump, when there is none at j yet.                  *)
SetJump(s, j) ==
  LET valid == Validate(s, Cells(j))
      old == [a \in Cells(j) |-> View(s, a)]
      linked == [valid EXCEPT !.jump[j] = [inserted |-> TRUE, refcount |-> 1,
                                           shadow |-> [i \in 0..(JumpLength - 1) |-> old[j + i]]]]
  IN  Write(linked, Cells(j), old)

(* delete_fast_tracepoint_jump, for the last reference.                    *)
DeleteJump(s, j) == Write([s EXCEPT !.jump[j] = FreeJump], Cells(j), Shadow(s, j))

(* uninsert_fast_tracepoint_jumps_at, reinsert_fast_tracepoint_jumps_at.   *)
JumpAt(s, a) == s.jump[a].refcount > 0
UninsertJumpAt(s, a) ==
  IF JumpAt(s, a) /\ s.jump[a].inserted
  THEN Write([s EXCEPT !.jump[a].inserted = FALSE], Cells(a), Shadow(s, a)) ELSE s
ReinsertJumpAt(s, a) ==
  IF JumpAt(s, a) /\ ~s.jump[a].inserted
  THEN Write([s EXCEPT !.jump[a].inserted = TRUE], Cells(a), Shadow(s, a)) ELSE s

-----------------------------------------------------------------------------
(* What the client's packets do.                                           *)

(* set_gdb_breakpoint_1: the client never holds more than one reference at *)
(* an address, so a second Z packet there means that the first breakpoint  *)
(* is to be updated, or that it is gone.                                   *)
SetGdb(s, a, k) ==
  IF GdbBpsAt(s, a) = {} THEN SetBreakpoint(s, "gdb", a, k)
  ELSE LET b == CHOOSE q \in GdbBpsAt(s, a) : TRUE
           valid == ValidateAll(s)
       IN  CASE s.raw[s.bp[b].raw].kind # k
                  -> SetBreakpoint(Delete(Tag(s, {s.bp[b].raw}), b), "gdb", a, k)
             [] s.raw[s.bp[b].raw].kind = k /\ GdbBpsAt(valid, a) = {}
                  -> SetBreakpoint(valid, "gdb", a, k)
             [] OTHER -> valid

(* delete_gdb_breakpoint_1.                                                *)
DeleteGdb(s, a, k) ==
  LET mine == {b \in GdbBpsAt(s, a) : s.raw[s.bp[b].raw].kind = k}
  IN  IF mine = {} THEN s ELSE Delete(s, CHOOSE b \in mine : TRUE)

(* The kind of a breakpoint for the code that is at a now.                 *)
CodeKind(a) == IF a \in Lib THEN mode ELSE AnyKind

-----------------------------------------------------------------------------
Init ==
  /\ program \in [Addr -> Data]
  /\ proc = [mem |-> program, mapped |-> TRUE, raw |-> [r \in RawIds |-> FreeRaw],
             bp |-> [b \in BpIds |-> FreeBp], jump |-> [j \in Addr |-> FreeJump]]
  /\ mode \in Kinds
  /\ stepping = NoStep
  /\ accepted = {}

(* Z0 packet.                                                              *)
ClientSet(a) ==
  /\ Room(proc)
  /\ proc' = SetGdb(proc, a, CodeKind(a))
  /\ accepted' = IF GdbBpsAt(proc', a) # {} THEN accepted \cup {a} ELSE accepted \ {a}
  /\ UNCHANGED <<mode, stepping, program>>

(* z0 packet.                                                              *)
ClientDelete(a) ==
  /\ GdbBpsAt(proc, a) # {}
  /\ \E k \in Kinds : proc' = DeleteGdb(proc, a, k)
  /\ accepted' = IF GdbBpsAt(proc', a) = {} THEN accepted \ {a} ELSE accepted
  /\ UNCHANGED <<mode, stepping, program>>

(* M packet; the shadows take the new byte even if the write fails.        *)
ClientWrite(a, d) ==
  /\ proc' = Write(proc, {a}, [x \in {a} |-> d])
  /\ program' = IF Accessible(proc, a) THEN [program EXCEPT ![a] = d] ELSE program
  /\ UNCHANGED <<mode, stepping, accepted>>

(* m packet.                                                               *)
ClientRead(a) ==
  /\ proc' = Validate(proc, {a})
  /\ UNCHANGED <<mode, stepping, accepted, program>>

(* qSymbol packet: the client has new symbols, libraries may have changed. *)
ClientSymbols ==
  /\ proc' = ValidateAll(proc)
  /\ UNCHANGED <<mode, stepping, accepted, program>>

-----------------------------------------------------------------------------
(* gdbserver's own breakpoints and jumps.                                  *)

(* Mutant: the failure of set_raw_breakpoint_at goes unnoticed.            *)
SetInternal_unchecked(a) ==
  LET set == SetRaw(proc, a, CodeKind(a))
      b == CHOOSE q \in BpIds \ Bps(set.st) : TRUE
  IN  /\ Room(proc)
      /\ proc' = [set.st EXCEPT !.bp[b] = [type |-> "other", raw |-> set.raw]]
      /\ UNCHANGED <<mode, stepping, accepted, program>>

SetInternal(a) ==
  /\ Room(proc)
  /\ proc' = SetBreakpoint(proc, "other", a, CodeKind(a))
  /\ UNCHANGED <<mode, stepping, accepted, program>>

(* delete_breakpoint, or check_breakpoints when the handler asks for it.   *)
DeleteInternal(b) ==
  /\ proc.bp[b].type = "other"
  /\ proc' = Delete(proc, b)
  /\ UNCHANGED <<mode, stepping, accepted, program>>

(* Jumps replace whole instructions of the program, so they never overlap. *)
InstallJump(j) ==
  /\ Cells(j) \subseteq Addr \ Lib
  /\ \A i \in Addr \ {j} : proc.jump[i].refcount > 0 => Cells(i) \cap Cells(j) = {}
  /\ proc.jump[j].refcount < MaxRef
  /\ proc' = IF JumpAt(proc, j) THEN [proc EXCEPT !.jump[j].refcount = @ + 1]
             ELSE SetJump(proc, j)
  /\ UNCHANGED <<mode, stepping, accepted, program>>

DropJump(j) ==
  /\ JumpAt(proc, j)
  /\ proc' = IF proc.jump[j].refcount > 1 THEN [proc EXCEPT !.jump[j].refcount = @ - 1]
             ELSE DeleteJump(proc, j)
  /\ UNCHANGED <<mode, stepping, accepted, program>>

-----------------------------------------------------------------------------
(* Mutant: the step breakpoint is planted first, and may be lifted too.    *)
StartStepOver_early(a, next) ==
  LET set == IF SoftwareStep THEN SetBreakpoint(proc, "step", next, CodeKind(next)) ELSE proc
  IN  /\ stepping = NoStep
      /\ Accessible(proc, a) /\ Accessible(proc, next)
      /\ At(proc, a) # {} \/ JumpAt(proc, a)
      /\ Room(proc)
      /\ proc' = UninsertJumpAt(UninsertAt(set, a), a)
      /\ stepping' = a
      /\ UNCHANGED <<mode, accepted, program>>

(* Stepping over: everything at a goes out of the way; a target without    *)
(* hardware single-step plants a breakpoint where the thread will be next. *)
StartStepOver(a, next) ==
  LET out == UninsertJumpAt(UninsertAt(proc, a), a)
  IN  /\ stepping = NoStep
      /\ Accessible(proc, a) /\ Accessible(proc, next)
      /\ At(proc, a) # {} \/ JumpAt(proc, a)
      /\ Room(proc)
      /\ proc' = IF SoftwareStep THEN SetBreakpoint(out, "step", next, CodeKind(next)) ELSE out
      /\ stepping' = a
      /\ UNCHANGED <<mode, accepted, program>>

(* Mutant: only jumps are put back.                                        *)
FinishStepOver_jumps ==
  /\ stepping # NoStep
  /\ proc' = DeleteStepBps(ReinsertJumpAt(proc, stepping))
  /\ stepping' = NoStep
  /\ UNCHANGED <<mode, accepted, program>>

(* finish_step_over; reinserting a jump that is inserted throws an error,  *)
(* which leaves everything after it undone.                                *)
FinishStepOver ==
  LET in == ReinsertAt(proc, stepping)
      thrown == JumpAt(proc, stepping) /\ proc.jump[stepping].inserted
  IN  /\ stepping # NoStep
      /\ proc' = IF thrown THEN in ELSE DeleteStepBps(ReinsertJumpAt(in, stepping))
      /\ stepping' = IF thrown THEN stepping ELSE NoStep
      /\ UNCHANGED <<mode, accepted, program>>

-----------------------------------------------------------------------------
(* The program, whose threads are stopped during a step-over, unmaps its   *)
(* library with whatever was planted there, or maps code in its place.     *)
(* Either way the client learns of it and has nothing inserted there.      *)
Unload ==
  /\ stepping = NoStep
  /\ proc.mapped
  /\ proc' = [proc EXCEPT !.mapped = FALSE,
                          !.mem = [a \in Addr |-> IF a \in Lib THEN AnyData ELSE @[a]]]
  /\ program' = [a \in Addr |-> IF a \in Lib THEN Absent ELSE program[a]]
  /\ accepted' = accepted \ Lib
  /\ UNCHANGED <<mode, stepping>>

Load(code, m) ==
  /\ stepping = NoStep
  /\ ~proc.mapped
  /\ Reload \/ \A r \in Live(proc) : proc.raw[r].pc \in Lib => proc.raw[r].inserted # 1
  /\ proc' = [proc EXCEPT !.mapped = TRUE,
                          !.mem = [a \in Addr |-> IF a \in Lib THEN code[a] ELSE @[a]]]
  /\ program' = [a \in Addr |-> IF a \in Lib THEN code[a] ELSE program[a]]
  /\ mode' = m
  /\ accepted' = accepted \ Lib
  /\ UNCHANGED stepping

Client ==
  \/ \E a \in Addr : ClientSet(a) \/ ClientDelete(a) \/ ClientRead(a)
  \/ \E a \in Addr, d \in Data : ClientWrite(a, d)
  \/ ClientSymbols

Internal ==
  \/ \E a \in Addr : SetInternal(a) \/ InstallJump(a) \/ DropJump(a)
  \/ \E b \in BpIds : DeleteInternal(b)

Stepping == FinishStepOver \/ \E a, next \in Addr : StartStepOver(a, next)

Program == Unload \/ \E code \in [Lib -> Data], m \in Kinds : Load(code, m)

Next == Client \/ Internal \/ Stepping \/ Program

Spec == Init /\ [][Next]_vars

-----------------------------------------------------------------------------
TypeOK ==
  /\ proc \in Process
  /\ mode \in Kinds
  /\ stepping \in Addr \cup {NoStep}
  /\ accepted \subseteq Addr
  /\ program \in [Addr -> Data \cup {Absent}]

(* A high-level breakpoint never refers to a raw breakpoint that was       *)
(* freed: whatever was set, deleted, reloaded or found gone in between,    *)
(* delete_raw_breakpoint frees only what nobody refers to.                 *)
NoDanglingBreakpoint ==
  \A r \in RawIds : Cardinality(BpsOf(proc, r)) <= proc.raw[r].refcount

(* set_raw_breakpoint_at finds what it should share: at an address there   *)
(* is at most one raw breakpoint that is not known to be gone.             *)
OneEnabledPerAddress ==
  \A r, q \in Live(proc) :
    /\ proc.raw[r].pc = proc.raw[q].pc
    /\ proc.raw[r].inserted >= 0 /\ proc.raw[q].inserted >= 0
    => r = q

(* A breakpoint is out of memory only where a thread is stepping over it:  *)
(* no order of inserting, stepping and deleting leaves one behind that     *)
(* other threads would run past.                                           *)
OutOnlyWhileStepping ==
  \A r \in Live(proc) : proc.raw[r].inserted = 0 => proc.raw[r].pc = stepping

(* Where the client was told that its breakpoint is inserted, the program  *)
(* meets a trap, unless it is being stepped over.                          *)
Honoured ==
  \A a \in accepted : Accessible(proc, a) =>
    /\ GdbBpsAt(proc, a) # {}
    /\ a # stepping => OnTop(proc, a) # {}

(* What finish_step_over and delete_disabled_breakpoints assert: while a   *)
(* target without hardware single-step steps, its breakpoint is planted.   *)
StepBreakpointPlanted ==
  SoftwareStep /\ stepping # NoStep =>
    /\ StepBps(proc) # {}
    /\ \A b \in StepBps(proc) : proc.raw[proc.bp[b].raw].inserted = 1

(* All of this is invisible: what gdbserver reads, for the client or for   *)
(* itself, is what the program has in memory.                              *)
Content == [a \in Addr |-> IF Accessible(proc, a) THEN View(proc, a) ELSE Absent]
Memory == INSTANCE ProgramMemory WITH content <- program, window <- Content
Transparent == Memory!Spec
=============================================================================
