----------------------------- MODULE LwpControl -----------------------------
(***************************************************************************)
(* How gdbserver stops and resumes the LWPs (threads) of a program         *)
(* (gdb/gdbserver/linux-low.c).  The kernel stops an LWP for an event; the *)
(* event is left pending in lwp_info until linux_wait_1 picks one to       *)
(* handle.  To stop an LWP gdbserver sends it a SIGSTOP, which may arrive  *)
(* after other events.  To let an LWP past one of gdbserver's own          *)
(* breakpoints, all others are stopped and suspended, the breakpoint is    *)
(* taken out, and the LWP is stepped.                                      *)
(*                                                                         *)
(* gdbserver has one thread: a handler is an action, with a choice of      *)
(* events for the LWPs that it waits for.  Operators work on a state s of  *)
(* the handler: the LWPs s.lwps, s.stepOver, s.hits, and whether a SIGCHLD *)
(* came, s.sigchld.  Where events make a difference they yield a set.      *)
(* Single-stepping is the hardware's, and code is not moved by gdb.        *)
(***************************************************************************)
EXTENDS Naturals, FiniteSets, FiniteSetsExt

CONSTANTS
  LWP,          \* the LWPs there may be
  Started,      \* those at the beginning
  NonStopModes, \* the values of non_stop to look at
  StepperExits, \* may an LWP exit while it steps over a breakpoint?
  StepperClones, \* may it create one while everything is being suspended again?
  MaxHits,      \* bound: events that gdb is not told of
  None          \* no LWP, no event

ASSUME LwpControlAssumption ==
  /\ Started \subseteq LWP /\ Started # {} /\ IsFiniteSet(LWP)
  /\ NonStopModes \subseteq BOOLEAN /\ NonStopModes # {}
  /\ StepperExits \in BOOLEAN /\ StepperClones \in BOOLEAN
  /\ MaxHits \in Nat
  /\ None \notin LWP

VARIABLES
  lwps,      \* lwp_info and thread_info of the LWPs there are
  stepOver,  \* step_over_bkpt
  nonStop,   \* non_stop
  eventPipe, \* is there something in linux_event_pipe?
  hits       \* how many events gdb need not be told of there were

vars == <<lwps, stepOver, nonStop, eventPipe, hits>>

-----------------------------------------------------------------------------
(* LWPs.  "Sig" is an event gdb must hear of: a signal, or a breakpoint of *)
(* its own; "Quiet" a signal it has said it does not want (QPassSignals);  *)
(* "Bkpt" a breakpoint of gdbserver, at which gdb is not expected to stop; *)
(* "Step" a finished single-step and "Stop" a SIGSTOP sent by gdbserver.   *)

Event == {"Sig", "Quiet", "Bkpt", "Step", "Stop"}

ASSUME EventAssumption == None \notin Event

LwpInfo ==
  [stopped : BOOLEAN, suspended : 0..2, pending : Event \cup {None},
   stopExpected : BOOLEAN, stepping : BOOLEAN,
   reinsert : BOOLEAN,                   \* bp_reinsert # 0
   resumeKind : {"continue", "step", "stop"},
   status : {"ignore", "stopped", "trap", "signal"}, \* last_status, what gdb was told
   at : BOOLEAN]                         \* stopped at a "Bkpt" breakpoint?

(* A stop that gdb knows of, and has not answered.                         *)
ToldStopped(r) == r.resumeKind = "stop" /\ r.status # "ignore"

(* lwp_resumed: running as far as gdb knows.                               *)
Resumed(r) == r.resumeKind # "stop" \/ r.status = "ignore"

AtStart ==
  [stopped |-> TRUE, suspended |-> 0, pending |-> None, stopExpected |-> FALSE,
   stepping |-> FALSE, reinsert |-> FALSE, resumeKind |-> "stop",
   status |-> "stopped", at |-> FALSE]

(* What gdb is told of an event.                                           *)
Wording(e) == CASE e \in {"Bkpt", "Step"} -> "trap"
                [] e \in {"Sig", "Quiet"} -> "signal"
                [] e = "Stop"             -> "stopped"

Handler == [lwps |-> lwps, stepOver |-> stepOver, hits |-> hits, sigchld |-> FALSE]

Running(s) == {t \in DOMAIN s.lwps : ~s.lwps[t].stopped}
EachLwp(s, Op(_)) == [s EXCEPT !.lwps = [t \in DOMAIN s.lwps |-> Op(t)]]

-----------------------------------------------------------------------------
(* Resuming and sending SIGSTOP.                                           *)

(* A stopped LWP; lwp->stepping is looked at again only for a signal.      *)
Halt(r) == [r EXCEPT !.stopped = TRUE, !.stepping = FALSE]

(* linux_resume_one_lwp: nothing that runs or has an event to report.      *)
ResumeOne(r, step) ==
  IF r.stopped /\ r.pending = None
  THEN [r EXCEPT !.stopped = FALSE, !.stepping = step \/ r.reinsert, !.at = FALSE]
  ELSE r

SendSigstop(r) == [r EXCEPT !.stopExpected = TRUE]

(* proceed_one_lwp                                                         *)
Proceed(r) ==
  IF ToldStopped(r) \/ r.suspended # 0 THEN r
  ELSE ResumeOne(IF r.resumeKind = "stop" /\ r.stopped /\ r.pending = None THEN SendSigstop(r) ELSE r,
                 r.resumeKind = "step")

(* Mutant: does not ask whether gdb was told that the LWP has stopped.     *)
ResumeStoppedResumed_always(r) ==
  IF r.suspended = 0 THEN ResumeOne(r, r.resumeKind = "step") ELSE r

ResumeStoppedResumed(r) ==
  IF r.suspended = 0 /\ r.status = "ignore"
  THEN ResumeOne(r, r.resumeKind = "step") ELSE r

(* unsuspend_all_lwps.  A count that would be negative stays out of range: *)
(* the code ends with an internal error.                                   *)
UnsuspendAll(s, except) ==
  EachLwp(s, LAMBDA t : IF t = except THEN s.lwps[t]
                        ELSE [s.lwps[t] EXCEPT !.suspended = IF @ = 0 THEN 9 ELSE @ - 1])

(* Mutant: unsuspends without setting the LWPs running.                    *)
UnstopAll_halfway(s, unsuspend, except) == IF unsuspend THEN UnsuspendAll(s, except) ELSE s

(* unstop_all_lwps                                                         *)
UnstopAll(s, unsuspend, except) ==
  LET u == IF unsuspend THEN UnsuspendAll(s, except) ELSE s
  IN  EachLwp(u, LAMBDA t : IF t = except THEN u.lwps[t] ELSE Proceed(u.lwps[t]))

-----------------------------------------------------------------------------
(* Events from the kernel.                                                 *)

(* finish_step_over: the breakpoint is put back.                           *)
FinishStepOver(s, t) ==
  IF s.lwps[t].reinsert
  THEN [s EXCEPT !.lwps[t].reinsert = FALSE, !.stepOver = None] ELSE s

(* What can stop a running LWP next, and is it then at a breakpoint?  One  *)
(* that steps over a breakpoint leaves it only by finishing the step.      *)
Stops(s, t) ==
  LET r == s.lwps[t]
      here == IF r.reinsert THEN {TRUE} ELSE BOOLEAN
      quiet == s.hits < MaxHits
  IN  ({"Sig"} \X here)
      \cup (IF r.stopExpected THEN {"Stop"} \X here ELSE {})
      \cup (IF r.stepping THEN {"Step"} \X (IF quiet THEN BOOLEAN ELSE {FALSE}) ELSE {})
      \cup (IF quiet THEN {"Quiet"} \X here ELSE {})
      \cup (IF quiet /\ ~r.reinsert THEN {<<"Bkpt", TRUE>>} ELSE {})

(* Mutant: any SIGSTOP that arrives late is taken for one to discard.      *)
StopEvent_discard(s, t, at, stopping) ==
  LET r == [Halt(s.lwps[t]) EXCEPT !.stopExpected = FALSE, !.at = at]
  IN  [s EXCEPT !.lwps[t] =
         IF stopping = "no" THEN ResumeOne(r, s.lwps[t].stepping)
         ELSE IF r.resumeKind = "stop" THEN [r EXCEPT !.pending = "Stop"] ELSE r]

(* linux_low_filter_event, of an expected SIGSTOP: it answers gdb, or is   *)
(* what we are waiting for, or is late.                                    *)
StopEvent(s, t, at, stopping) ==
  LET r == [Halt(s.lwps[t]) EXCEPT !.stopExpected = FALSE, !.at = at]
  IN  [s EXCEPT !.lwps[t] =
         IF r.resumeKind = "stop" THEN [r EXCEPT !.pending = "Stop"]
         ELSE IF stopping # "no" THEN r
         ELSE ResumeOne(r, s.lwps[t].stepping)]

(* linux_low_filter_event, of anything else: it is left pending.           *)
OtherEvent(s, t, e, at) ==
  [s EXCEPT !.lwps[t] = [Halt(@) EXCEPT !.pending = e, !.at = at,
                                        !.stepping = e = "Quiet" /\ s.lwps[t].stepping],
            !.hits = IF e \in {"Quiet", "Bkpt"} \/ (e = "Step" /\ at) THEN @ + 1 ELSE @]

(* Mutant: the new LWP is not left suspended with the others.              *)
CloneEvent_free(s, t, at, new, first, stopping) ==
  [s EXCEPT !.lwps = [u \in DOMAIN s.lwps \cup {new} |->
     IF u = new
     THEN [AtStart EXCEPT !.resumeKind = "continue", !.status = "ignore",
                          !.pending = first, !.stopExpected = first # None,
                          !.suspended = IF stopping = "suspend" THEN 1 ELSE 0]
     ELSE IF u = t THEN [Halt(s.lwps[t]) EXCEPT !.at = at] ELSE s.lwps[u]]]

(* handle_extended_wait: t has created a new LWP.  If another signal comes *)
(* before the SIGSTOP of a new LWP, the signal is pending, and the SIGSTOP *)
(* is still to come.                                                       *)
CloneEvent(s, t, at, new, first, stopping) ==
  [s EXCEPT !.lwps = [u \in DOMAIN s.lwps \cup {new} |->
     IF u = new
     THEN [AtStart EXCEPT !.resumeKind = "continue", !.status = "ignore",
                          !.pending = first, !.stopExpected = first # None,
                          !.suspended = IF stopping = "suspend" \/ s.lwps[t].reinsert THEN 1 ELSE 0]
     ELSE IF u = t THEN [Halt(s.lwps[t]) EXCEPT !.at = at] ELSE s.lwps[u]]]

(* linux_low_filter_event: t has exited and is not the last.               *)
ExitEvent(s, t) ==
  LET f == FinishStepOver(s, t)
      u == IF s.lwps[t].reinsert THEN UnsuspendAll(f, t) ELSE f
  IN  [u EXCEPT !.lwps = [v \in DOMAIN u.lwps \ {t} |-> u.lwps[v]]]

(* One event of a running LWP, while threads are being stopped ("stop"),   *)
(* stopped and suspended ("suspend"), or neither ("no").                   *)
Filter(s0, t, stopping) ==
  LET s == [s0 EXCEPT !.sigchld = TRUE]
  IN  {IF x[1] = "Stop" THEN StopEvent(s, t, x[2], stopping) ELSE OtherEvent(s, t, x[1], x[2])
         : x \in Stops(s, t)}
      \cup {CloneEvent(s, t, at, new, first, stopping) :
             at \in BOOLEAN, first \in {None, "Sig"},
             new \in IF stopping = "suspend" /\ s.lwps[t].reinsert /\ ~StepperClones THEN {}
                     ELSE LWP \ DOMAIN s.lwps}
      \cup (IF DOMAIN s.lwps # {t} /\ (StepperExits \/ ~s.lwps[t].reinsert)
            THEN {ExitEvent(s, t)} ELSE {})

-----------------------------------------------------------------------------
(* Stopping everything, and stepping over breakpoints.                     *)

(* stop_all_lwps and wait_for_sigstop: an event of each that is running.   *)
StopAll(s, suspend, except) ==
  LET asked(t) == IF s.lwps[t].stopped THEN s.lwps[t] ELSE SendSigstop(s.lwps[t])
      sent == EachLwp(s, LAMBDA t :
                IF t = except THEN s.lwps[t]
                ELSE [asked(t) EXCEPT !.suspended = IF suspend THEN @ + 1 ELSE @])
      OneMore(t, S) == UNION {Filter(x, t, IF suspend THEN "suspend" ELSE "stop") : x \in S}
  IN  FoldSet(OneMore, {sent}, Running(s) \ {except})

(* need_step_over_p                                                        *)
NeedsStepOver(r) ==
  /\ r.stopped /\ r.resumeKind # "stop"
  /\ r.suspended = 0 /\ r.pending = None
  /\ r.at

(* start_step_over                                                         *)
StartStepOver(s, t) ==
  {[x EXCEPT !.lwps[t] = ResumeOne([x.lwps[t] EXCEPT !.reinsert = TRUE], TRUE), !.stepOver = t]
     : x \in StopAll(s, TRUE, t)}

(* proceed_all_lwps                                                        *)
ProceedAll(s) ==
  LET need == {t \in DOMAIN s.lwps : NeedsStepOver(s.lwps[t])}
  IN  IF need # {} THEN UNION {StartStepOver(s, t) : t \in need}
      ELSE {EachLwp(s, LAMBDA t : Proceed(s.lwps[t]))}

-----------------------------------------------------------------------------
(* linux_wait_1, and what server.c does with what it returns.              *)

(* Events to pick from: during a step-over, only that of the LWP stepping. *)
Candidates(s) ==
  {t \in DOMAIN s.lwps : /\ s.lwps[t].pending # None
                         /\ Resumed(s.lwps[t])
                         /\ s.stepOver \in {None, t}}

(* linux_wait_for_event_filtered: take events of any LWPs from the kernel, *)
(* one of each, then resume what has nothing to report.                    *)
Drained(s) ==
  LET OneMore(t, S) == S \cup UNION {Filter(x, t, "no") : x \in S}
      Settled(x) == EachLwp(x, LAMBDA t : ResumeStoppedResumed(x.lwps[t]))
  IN  {Settled(x) : x \in FoldSet(OneMore, {s}, Running(s))}

(* select_event_lwp                                                        *)
Selectable(s) ==
  LET those == {t \in DOMAIN s.lwps : s.lwps[t].status = "ignore" /\ s.lwps[t].pending # None}
      steps == {t \in those : s.lwps[t].resumeKind = "step"}
  IN  IF ~nonStop /\ steps # {} THEN steps ELSE those

(* ignore_event: there may be more.                                        *)
Ignored(S) == {[s |-> x, mark |-> TRUE] : x \in S}

(* gdb_wants_thread_stopped                                                *)
WantsStopped(r) ==
  [r EXCEPT !.resumeKind = "stop", !.status = IF @ = "ignore" THEN "stopped" ELSE @]

(* The LWP gdb is told of wants to stay stopped; in all-stop mode all do.  *)
Tell(s, t) ==
  [s |-> EachLwp(s, LAMBDA u :
           IF u = t THEN [s.lwps[u] EXCEPT !.pending = None, !.resumeKind = "stop",
                                           !.status = Wording(s.lwps[t].pending)]
           ELSE IF nonStop THEN s.lwps[u] ELSE WantsStopped(s.lwps[u])),
   mark |-> TRUE]

(* Mutant: the event that is handled is lost if another is selected.       *)
Report_lost(s, t, e, finished) ==
  LET all == IF nonStop THEN {IF finished THEN UnstopAll(s, TRUE, t) ELSE s}
             ELSE {IF finished THEN UnsuspendAll(x, t) ELSE x : x \in StopAll(s, FALSE, None)}
      others == UNION {{Tell(x, u) : u \in Selectable(x)} : x \in all}
  IN  IF others # {} THEN others
      ELSE {Tell([x EXCEPT !.lwps[t].pending = e], t) : x \in all}

(* The end of linux_wait_1: an event e of t is there to report.            *)
Report(s, t, e, finished) ==
  LET all == IF nonStop THEN {IF finished THEN UnstopAll(s, TRUE, t) ELSE s}
             ELSE {IF finished THEN UnsuspendAll(x, t) ELSE x : x \in StopAll(s, FALSE, None)}
      kept == {[x EXCEPT !.lwps[t].pending = e] : x \in all}
  IN  UNION {{Tell(x, u) : u \in Selectable(x)} : x \in kept}

(* report_to_gdb.  A step may have ended within the range gdb is stepping. *)
ReportToGdb(r, e, finished, inRange) ==
  \/ e \in {"Sig", "Quiet", "Stop"}
  \/ r.resumeKind = "step" /\ ~inRange
  \/ e = "Step" /\ ~r.at /\ ~inRange /\ ~finished /\ r.resumeKind # "continue"

(* linux_wait_1, from where an event has been picked.                      *)
Handle(s0, t) ==
  LET r == s0.lwps[t]
      s == FinishStepOver([s0 EXCEPT !.lwps[t].pending = None], t)
      unsuspended == IF r.reinsert THEN UnsuspendAll(s, t) ELSE s
  IN  IF r.pending = "Quiet" /\ r.resumeKind # "step"
      THEN Ignored(IF r.reinsert THEN ProceedAll(unsuspended)
                   ELSE {[s EXCEPT !.lwps[t] = ResumeOne(@, r.stepping)]})
      ELSE UNION {IF ReportToGdb(r, r.pending, r.reinsert, inRange)
                  THEN Report(s, t, r.pending, r.reinsert)
                  ELSE Ignored(ProceedAll(unsuspended))
                    : inRange \in IF r.resumeKind = "step" THEN BOOLEAN ELSE {FALSE}}

(* No event: go on waiting, or say that nothing is left to wait for, which *)
(* in all-stop mode counts as a stop of everything.                        *)
NoEvent(s, over) ==
  LET waitedFor == IF over = None THEN DOMAIN s.lwps ELSE {over}
      stopped == EachLwp(s, LAMBDA t : WantsStopped(s.lwps[t]))
  IN  [s |-> IF ~nonStop /\ Running(s) \cap waitedFor = {} THEN stopped ELSE s,
       mark |-> FALSE]

Outcomes ==
  IF Candidates(Handler) # {}
  THEN UNION {Handle(Handler, t) : t \in Candidates(Handler)}
  ELSE UNION {IF Candidates(x) = {} THEN {NoEvent(x, stepOver)}
              ELSE UNION {Handle(x, t) : t \in Candidates(x)}
                : x \in Drained(Handler)}

(* linux_wait, called when the pipe says so (a SIGCHLD marks it, before or *)
(* after the pipe is flushed), and in all-stop mode until there is         *)
(* something to tell gdb.                                                  *)
Wait ==
  \E o \in Outcomes :
    /\ IF nonStop THEN eventPipe \/ o.s.sigchld
       ELSE \E t \in DOMAIN lwps : lwps[t].status = "ignore"
    /\ lwps' = o.s.lwps /\ stepOver' = o.s.stepOver /\ hits' = o.s.hits
    /\ eventPipe' \in {nonStop /\ o.mark, nonStop /\ (o.mark \/ o.s.sigchld)}
    /\ UNCHANGED nonStop

-----------------------------------------------------------------------------
(* Requests of gdb.                                                        *)

(* linux_set_resume_request: does the request for t change anything?       *)
Takes(t, kind) == kind # None /\ ((kind = "stop") # (lwps[t].resumeKind = "stop"))

(* linux_resume_one_thread                                                 *)
ResumeRequested(r, kind, leaveStopped) ==
  IF kind = "stop" THEN [SendSigstop(r) EXCEPT !.resumeKind = kind, !.status = "ignore"]
  ELSE LET w == [r EXCEPT !.resumeKind = kind]
       IN  [(IF w.suspended # 0 \/ w.pending # None \/ leaveStopped THEN w ELSE Proceed(w))
              EXCEPT !.status = "ignore"]

(* linux_resume, of a vCont with a request for some of the LWPs.  In       *)
(* all-stop mode gdb sends one when everything is stopped.                 *)
Resume(request) ==
  LET taken == {t \in DOMAIN lwps : Takes(t, request[t])}
      kind(t) == IF t \in taken THEN request[t] ELSE lwps[t].resumeKind
      pending == ~nonStop /\ \E t \in taken : lwps[t].pending # None
      need == {t \in DOMAIN lwps : ~pending /\ NeedsStepOver([lwps[t] EXCEPT !.resumeKind = kind(t)])}
      s == EachLwp(Handler, LAMBDA t :
             IF t \in taken THEN ResumeRequested(lwps[t], request[t], pending \/ need # {}) ELSE lwps[t])
  IN  /\ nonStop \/ (taken # {} /\ \A t \in DOMAIN lwps : ToldStopped(lwps[t]))
      /\ \E x \in IF need = {} THEN {s} ELSE UNION {StartStepOver(s, t) : t \in need} :
           lwps' = x.lwps /\ stepOver' = x.stepOver /\ hits' = x.hits
      /\ eventPipe' = nonStop
      /\ UNCHANGED nonStop

Requests == {"continue", "step", None} \cup (IF nonStop THEN {"stop"} ELSE {})

(* Mutant: what was frozen is not unfrozen.                                *)
AccessMemory_frozen ==
  /\ nonStop
  /\ \E x \in StopAll(Handler, TRUE, None) :
       LET u == UnstopAll(x, FALSE, None)
       IN  /\ lwps' = u.lwps /\ stepOver' = u.stepOver /\ hits' = u.hits
           /\ eventPipe' = (eventPipe \/ x.sigchld)
  /\ UNCHANGED nonStop

(* A packet that reads or writes memory: linux_prepare_to_access_memory    *)
(* and linux_done_accessing_memory.                                        *)
AccessMemory ==
  /\ nonStop
  /\ \E x \in StopAll(Handler, TRUE, None) :
       LET u == UnstopAll(x, TRUE, None)
       IN  /\ lwps' = u.lwps /\ stepOver' = u.stepOver /\ hits' = u.hits
           /\ eventPipe' = (eventPipe \/ x.sigchld)
  /\ UNCHANGED nonStop

-----------------------------------------------------------------------------
Init ==
  /\ lwps = [t \in Started |-> AtStart]
  /\ stepOver = None
  /\ nonStop \in NonStopModes
  /\ eventPipe = FALSE
  /\ hits = 0

Next ==
  \/ Wait
  \/ \E request \in [DOMAIN lwps -> Requests] : Resume(request)
  \/ AccessMemory

Spec == Init /\ [][Next]_vars

(* The kernel stops an LWP that steps, or that has a SIGSTOP coming, and   *)
(* its SIGCHLD has linux_wait called.  The event to handle or to report is *)
(* picked at random: an LWP with an event is not passed over each time     *)
(* that linux_wait is called, as the pipe sees to.                         *)
MustStop(t) == t \in Running(Handler) /\ (lwps[t].stepping \/ lwps[t].stopExpected)
HasEvent(t) == t \in DOMAIN lwps /\ lwps[t].pending # None
MayBePicked(t) == t \in Candidates(Handler) /\ (nonStop => eventPipe)

FairSpec ==
  /\ Spec
  /\ \A t \in LWP : []<>~MustStop(t)
  /\ \A t \in LWP : []<>MayBePicked(t) => []<>~HasEvent(t)

-----------------------------------------------------------------------------
(* The state is well-formed: no suspend count is negative or grows, and    *)
(* only LWPs there are step over a breakpoint.                             *)
TypeOK ==
  /\ DOMAIN lwps \subseteq LWP /\ DOMAIN lwps # {}
  /\ \A t \in DOMAIN lwps : lwps[t] \in LwpInfo
  /\ stepOver \in DOMAIN lwps \cup {None}
  /\ nonStop \in NonStopModes /\ eventPipe \in BOOLEAN
  /\ hits \in 0..MaxHits

(* While a breakpoint is out of the way, for the one LWP that steps over   *)
(* it, every other LWP is stopped and suspended exactly once, new ones     *)
(* too, and otherwise none is suspended: nobody runs past the breakpoint   *)
(* and nobody stays behind (start_step_over, finish_step_over).            *)
StepsOverAlone ==
  \A t \in DOMAIN lwps :
    /\ lwps[t].reinsert <=> stepOver = t
    /\ lwps[t].suspended = IF stepOver \in {None, t} THEN 0 ELSE 1
    /\ stepOver \notin {None, t} => lwps[t].stopped

(* An LWP that gdb knows to have stopped, which in all-stop mode is every  *)
(* LWP when gdb is told of a stop, is stopped until gdb resumes it,        *)
(* whatever is done meanwhile to the others (proceed_one_lwp,              *)
(* resume_stopped_resumed_lwps).                                           *)
StoppedMeansStopped ==
  \A t \in DOMAIN lwps : ToldStopped(lwps[t]) => lwps[t].stopped

(* In non-stop mode an LWP that gdb wants to run, or has asked to stop and *)
(* not heard of, is running, or has an event to report, or waits for a     *)
(* step-over: none is left behind by the many ways of stopping and setting *)
(* LWPs running (unstop_all_lwps).                                         *)
NobodyForgotten ==
  nonStop => \A t \in DOMAIN lwps :
    Resumed(lwps[t]) /\ lwps[t].stopped /\ lwps[t].pending = None => stepOver \notin {None, t}

(* A signal or a breakpoint that gdb must hear of is kept until gdb is     *)
(* told of it, even if another LWP's event is selected (select_event_lwp). *)
EventsAreKept ==
  [][\A t \in DOMAIN lwps \cap DOMAIN lwps' :
       lwps[t].pending = "Sig" => lwps'[t].pending = "Sig" \/ lwps'[t].status = "signal"]_vars

(* When gdb asks an LWP to stop, it is told of a stop, unless it resumes   *)
(* the LWP or the LWP exits: no SIGSTOP is lost on the way, be it late, or *)
(* consumed while threads are stopped for another's step-over, and the     *)
(* pipe brings gdbserver back to events it has left pending.               *)
StopsAreAnswered ==
  \A t \in LWP :
    [](t \in DOMAIN lwps /\ lwps[t].resumeKind = "stop" /\ lwps[t].status = "ignore"
         => <>(t \in DOMAIN lwps => lwps[t].resumeKind # "stop" \/ lwps[t].status # "ignore"))

(* gdb does not hear of a breakpoint of gdbserver's own, or of a step that *)
(* it did not ask for, of an LWP that it has left running                  *)
(* (linux_wait_1, report_to_gdb).                                          *)
InternalStaysInternal ==
  [][\A t \in DOMAIN lwps \cap DOMAIN lwps' :
       lwps'[t].status = "trap" /\ lwps[t].status = "ignore" => lwps[t].resumeKind # "continue"]_vars

=============================================================================
