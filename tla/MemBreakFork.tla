---------------------------- MODULE MemBreakFork ----------------------------
(***************************************************************************)
(* What the child of a fork inherits.  When a thread forks,                *)
(* handle_extended_wait (linux-low.c) copies the breakpoints of the        *)
(* process with clone_all_breakpoints (mem-break.c); the kernel copies the *)
(* memory, with what is planted in it.  A thread may fork in any state.    *)
(***************************************************************************)
EXTENDS MemBreak

(* Mutant: nobody counts the references of a copy.                         *)
Clone_uncounted(s) ==
  [s EXCEPT
    !.raw  = [r \in RawIds |-> IF r \in Bps(s) THEN [s.raw[s.bp[r].raw] EXCEPT !.refcount = 0]
                               ELSE FreeRaw],
    !.bp   = [b \in BpIds |-> IF b \in Bps(s) THEN [s.bp[b] EXCEPT !.raw = b] ELSE FreeBp],
    !.jump = [j \in Addr |-> FreeJump]]

(* Mutant: the shadow memory is not copied.                                *)
Clone_blank(s) ==
  [s EXCEPT
    !.raw  = [r \in RawIds |-> IF r \in Bps(s) THEN [s.raw[s.bp[r].raw] EXCEPT !.old_data = AnyData]
                               ELSE FreeRaw],
    !.bp   = [b \in BpIds |-> IF b \in Bps(s) THEN [s.bp[b] EXCEPT !.raw = b] ELSE FreeBp],
    !.jump = [j \in Addr |-> FreeJump]]

(* Mutant: a copy is marked as not inserted, although memory was copied.   *)
Clone_lifted(s) ==
  [s EXCEPT
    !.raw  = [r \in RawIds |-> IF r \in Bps(s) THEN [s.raw[s.bp[r].raw] EXCEPT !.inserted = 0]
                               ELSE FreeRaw],
    !.bp   = [b \in BpIds |-> IF b \in Bps(s) THEN [s.bp[b] EXCEPT !.raw = b] ELSE FreeBp],
    !.jump = [j \in Addr |-> FreeJump]]

(* clone_all_breakpoints: one raw breakpoint per high-level breakpoint,    *)
(* each with the counter of the original; jumps are not copied.            *)
Clone(s) ==
  [s EXCEPT
    !.raw  = [r \in RawIds |-> IF r \in Bps(s) THEN s.raw[s.bp[r].raw] ELSE FreeRaw],
    !.bp   = [b \in BpIds |-> IF b \in Bps(s) THEN [s.bp[b] EXCEPT !.raw = b] ELSE FreeBp],
    !.jump = [j \in Addr |-> FreeJump]]

ASSUME CloneAssumption == MaxBp <= MaxRaw

(* The child as a fork would leave it now.  Its thread steps over nothing, *)
(* and the single-step breakpoints of the thread that forked are deleted.  *)
ForkChild == DeleteStepBps(Clone(proc))

Child == INSTANCE MemBreak WITH proc <- ForkChild, stepping <- NoStep

-----------------------------------------------------------------------------
(* In the child, too, no breakpoint refers to a raw breakpoint that was    *)
(* freed, although several raw breakpoints are at one address there.       *)
ChildNoDangling == Child!NoDanglingBreakpoint

(* The shadows still hide every trap that was copied with the memory, also *)
(* after the single-step breakpoint that lay on another one was deleted.   *)
ChildTransparent == Child!Content = program

(* The child meets a trap wherever the client was told that there is one,  *)
(* except where the parent was stepping over at that moment.               *)
ChildHonoured ==
  \A a \in accepted : Accessible(proc, a) /\ a # stepping =>
    Child!GdbBpsAt(ForkChild, a) # {} /\ Child!OnTop(ForkChild, a) # {}
=============================================================================
