--------------------------- MODULE LwpControlProofs ---------------------------
(***************************************************************************)
(* Proofs about LwpControl, for any LWPs.                                  *)
(*                                                                         *)
(* Good(s, d, ex) is what holds of the state of a handler in which d extra *)
(* suspend counts are due to every LWP but ex: it is what the handlers     *)
(* keep while they stop, suspend and step LWPs, and Good(Handler, 0, None) *)
(* holds between them.                                                     *)
(***************************************************************************)
EXTENDS LwpControl, FiniteSetTheorems, WellFoundedInduction, TLAPS

(* What holds of an LWP alone: an event has stopped it, and if gdb was     *)
(* told of a stop then gdb has not answered, and it is stopped.            *)
Sound(r) ==
  /\ r \in LwpInfo
  /\ r.pending # None => r.stopped
  /\ r.status # "ignore" => r.resumeKind = "stop" /\ r.stopped

(* The suspend count of t.                                                 *)
Due(over, t, d, ex) ==
  (IF over \in {None, t} THEN 0 ELSE 1) + (IF t = ex THEN 0 ELSE d)

Fits(r, t, over, d, ex) ==
  /\ Sound(r)
  /\ r.reinsert <=> over = t
  /\ r.suspended = Due(over, t, d, ex)
  /\ over \notin {None, t} => r.stopped
  /\ over = t => r.status = "ignore"

Good(s, d, ex) ==
  /\ DOMAIN s = {"lwps", "stepOver", "hits", "sigchld"}
  /\ DOMAIN s.lwps \subseteq LWP /\ DOMAIN s.lwps # {}
  /\ s.stepOver \in DOMAIN s.lwps \cup {None}
  /\ s.hits \in 0..MaxHits /\ s.sigchld \in BOOLEAN
  /\ \A t \in DOMAIN s.lwps : Fits(s.lwps[t], t, s.stepOver, d, ex)

(* What is not changed by resuming an LWP.                                 *)
Same(r, q) ==
  /\ q.suspended = r.suspended /\ q.reinsert = r.reinsert /\ q.pending = r.pending
  /\ q.status = r.status /\ q.resumeKind = r.resumeKind

-----------------------------------------------------------------------------
(* LWPs.                                                                   *)

LEMMA SameFits ==
  ASSUME NEW r, NEW q, NEW t, NEW over, NEW d, NEW ex,
         Fits(r, t, over, d, ex), Sound(q), Same(r, q), q.stopped \/ over \in {None, t}
  PROVE  Fits(q, t, over, d, ex)
BY DEF Fits, Same

LEMMA NoEventIsNone == None \notin LWP
BY LwpControlAssumption

LEMMA HaltSound ==
  ASSUME NEW r, Sound(r) PROVE Sound(Halt(r)) /\ Same(r, Halt(r)) /\ Halt(r).stopped
BY DEF Sound, Halt, LwpInfo, Same

LEMMA ResumeOneSound ==
  ASSUME NEW r, NEW step \in BOOLEAN, Sound(r), r.status = "ignore"
  PROVE  /\ Sound(ResumeOne(r, step)) /\ Same(r, ResumeOne(r, step))
         /\ r.pending = None => ~ResumeOne(r, step).stopped
BY DEF Sound, ResumeOne, LwpInfo, Same

LEMMA SendSigstopSound ==
  ASSUME NEW r, Sound(r)
  PROVE  /\ Sound(SendSigstop(r)) /\ Same(r, SendSigstop(r)) /\ SendSigstop(r).stopped = r.stopped
BY DEF Sound, SendSigstop, LwpInfo, Same

LEMMA ProceedSound ==
  ASSUME NEW r, Sound(r)
  PROVE  /\ Sound(Proceed(r)) /\ Same(r, Proceed(r))
         /\ r.suspended # 0 => Proceed(r) = r
         /\ r.suspended = 0 /\ r.status = "ignore" /\ r.pending = None => ~Proceed(r).stopped
<1>1. CASE ToldStopped(r) \/ r.suspended # 0
  BY <1>1 DEF Proceed, Same, ToldStopped
<1>2. CASE ~(ToldStopped(r) \/ r.suspended # 0)
  <2> DEFINE w == IF r.resumeKind = "stop" /\ r.stopped /\ r.pending = None THEN SendSigstop(r) ELSE r
             step == r.resumeKind = "step"
  <2>1. r.status = "ignore"
    BY <1>2 DEF ToldStopped, Sound
  <2>2. Sound(w) /\ Same(r, w)
    BY SendSigstopSound DEF Same
  <2>3. w.status = "ignore" /\ w.pending = r.pending /\ step \in BOOLEAN
    BY <2>1, <2>2 DEF Same
  <2>4. Proceed(r) = ResumeOne(w, step)
    BY <1>2 DEF Proceed
  <2> HIDE DEF w, step
  <2>5. Sound(Proceed(r)) /\ Same(w, Proceed(r)) /\ (w.pending = None => ~Proceed(r).stopped)
    BY <2>2, <2>3, <2>4, ResumeOneSound
  <2> QED
    BY <1>2, <2>2, <2>3, <2>5 DEF Same
<1> QED
  BY <1>1, <1>2

LEMMA ResumeStoppedResumedSound ==
  ASSUME NEW r, Sound(r)
  PROVE  /\ Sound(ResumeStoppedResumed(r)) /\ Same(r, ResumeStoppedResumed(r))
         /\ r.suspended # 0 => ResumeStoppedResumed(r) = r
         /\ r.suspended = 0 /\ r.status = "ignore" /\ r.pending = None
              => ~ResumeStoppedResumed(r).stopped
<1> DEFINE step == r.resumeKind = "step"
<1>1. step \in BOOLEAN
  OBVIOUS
<1>2. ResumeStoppedResumed(r) = IF r.suspended = 0 /\ r.status = "ignore" THEN ResumeOne(r, step) ELSE r
  BY DEF ResumeStoppedResumed
<1> HIDE DEF step
<1>3. Same(r, r)
  BY DEF Same
<1> QED
  BY <1>1, <1>2, <1>3, ResumeOneSound

LEMMA WantsStoppedSound ==
  ASSUME NEW r, Sound(r), r.stopped
  PROVE  /\ Sound(WantsStopped(r)) /\ WantsStopped(r).stopped
         /\ WantsStopped(r).suspended = r.suspended /\ WantsStopped(r).reinsert = r.reinsert
         /\ WantsStopped(r).pending = r.pending
BY DEF Sound, WantsStopped, LwpInfo

LEMMA ResumeRequestedSound ==
  ASSUME NEW r, Sound(r), NEW kind \in {"continue", "step", "stop"}, NEW leave \in BOOLEAN
  PROVE  LET q == ResumeRequested(r, kind, leave)
         IN  /\ Sound(q) /\ q.suspended = r.suspended /\ q.reinsert = r.reinsert
             /\ q.pending = r.pending /\ q.status = "ignore" /\ q.resumeKind = kind
             /\ r.suspended # 0 \/ kind = "stop" \/ leave => q.stopped = r.stopped
             /\ r.suspended = 0 /\ r.pending = None /\ kind # "stop" /\ ~leave => ~q.stopped
<1> DEFINE q == ResumeRequested(r, kind, leave)
<1>1. CASE kind = "stop"
  BY <1>1 DEF ResumeRequested, SendSigstop, Sound, LwpInfo
<1>2. CASE kind # "stop"
  <2> DEFINE w == [r EXCEPT !.resumeKind = kind]
             v == [r EXCEPT !.resumeKind = kind, !.status = "ignore"]
             p == IF w.suspended # 0 \/ w.pending # None \/ leave THEN w ELSE Proceed(w)
  <2>1. q = [p EXCEPT !.status = "ignore"]
    BY <1>2 DEF ResumeRequested
  <2>2. w \in LwpInfo /\ w.suspended = r.suspended /\ w.pending = r.pending /\ w.reinsert = r.reinsert
        /\ w.resumeKind = kind /\ w.stopped = r.stopped /\ (w.pending # None => w.stopped)
    BY DEF Sound, LwpInfo
  <2> HIDE DEF w
  <2>3. CASE w.suspended # 0 \/ w.pending # None \/ leave
    <3>1. p = w
      BY <2>3
    <3> QED
      BY <1>2, <2>1, <2>2, <2>3, <3>1 DEF Sound, LwpInfo
  <2>4. CASE ~(w.suspended # 0 \/ w.pending # None \/ leave)
    <3> DEFINE step == w.resumeKind = "step"
    <3>1. p = ResumeOne(w, step) /\ step \in BOOLEAN
      BY <1>2, <2>2, <2>4 DEF Proceed, ToldStopped
    <3> HIDE DEF p, step
    <3>2. p = IF w.stopped THEN [w EXCEPT !.stopped = FALSE, !.stepping = step \/ w.reinsert, !.at = FALSE] ELSE w
      BY <2>4, <3>1 DEF ResumeOne
    <3>3. p \in LwpInfo /\ p.suspended = r.suspended /\ p.pending = r.pending /\ p.reinsert = r.reinsert
          /\ p.resumeKind = kind /\ ~p.stopped
      <4>1. CASE w.stopped
        <5>1. p = [w EXCEPT !.stopped = FALSE, !.stepping = step \/ w.reinsert, !.at = FALSE]
          BY <3>2, <4>1
        <5>2. step \/ w.reinsert \in BOOLEAN
          BY <2>2, <3>1 DEF LwpInfo
        <5> QED
          BY <2>2, <5>1, <5>2 DEF LwpInfo
      <4>2. CASE ~w.stopped
        BY <2>2, <3>2, <4>2
      <4> QED
        BY <4>1, <4>2
    <3> QED
      BY <1>2, <2>1, <2>2, <2>4, <3>3 DEF Sound, LwpInfo
  <2> QED
    BY <2>3, <2>4
<1> QED
  BY <1>1, <1>2

-----------------------------------------------------------------------------
(* One event of one LWP.                                                   *)

(* y is s after an event of t, and perhaps a new LWP.                      *)
After(s, y, t, mode) ==
  /\ y.stepOver = s.stepOver
  /\ \A u \in DOMAIN s.lwps \ {t} : u \in DOMAIN y.lwps /\ y.lwps[u] = s.lwps[u]
  /\ \A u \in DOMAIN y.lwps \ DOMAIN s.lwps : y.lwps[u].stopped
  /\ mode # "no" /\ t \in DOMAIN y.lwps => y.lwps[t].stopped

(* How the extra suspend counts go with what is done meanwhile.            *)
Suits(mode, d) == mode \in {"no", "stop", "suspend"} /\ d = IF mode = "suspend" THEN 1 ELSE 0

(* A running LWP.                                                          *)
LEMMA RunningIs ==
  ASSUME NEW s, NEW d, NEW ex, Good(s, d, ex), NEW t \in Running(s)
  PROVE  /\ t \in DOMAIN s.lwps /\ t \in LWP /\ t # None /\ s.stepOver \in {None, t}
         /\ Fits(s.lwps[t], t, s.stepOver, d, ex)
         /\ s.lwps[t].pending = None /\ s.lwps[t].status = "ignore" /\ ~s.lwps[t].stopped
BY NoEventIsNone DEF Good, Running, Fits, Sound

(* The same LWPs, but for t.                                               *)
LEMMA OneChanged ==
  ASSUME NEW s, NEW d, NEW ex, Good(s, d, ex), NEW t \in DOMAIN s.lwps, NEW y,
         DOMAIN y = DOMAIN s, DOMAIN y.lwps = DOMAIN s.lwps, y.stepOver = s.stepOver,
         y.hits \in 0..MaxHits, y.sigchld \in BOOLEAN,
         \A u \in DOMAIN s.lwps \ {t} : y.lwps[u] = s.lwps[u],
         Fits(y.lwps[t], t, s.stepOver, d, ex)
  PROVE  Good(y, d, ex)
BY DEF Good

LEMMA StopEventSound ==
  ASSUME NEW r, Sound(r), r.pending = None, r.status = "ignore", NEW at \in BOOLEAN
  PROVE  LET q == [Halt(r) EXCEPT !.stopExpected = FALSE, !.at = at]
         IN  /\ Sound(q) /\ Same(r, q) /\ q.stopped
             /\ r.resumeKind = "stop" =>
                  LET p == [q EXCEPT !.pending = "Stop"]
                  IN  Sound(p) /\ Same([r EXCEPT !.pending = "Stop"], p) /\ p.stopped
BY DEF Sound, Halt, LwpInfo, Same, Event

LEMMA StopEventIs ==
  ASSUME NEW s, NEW d, NEW ex, Good(s, d, ex), NEW t \in Running(s), NEW at \in BOOLEAN, NEW mode
  PROVE  Good(StopEvent(s, t, at, mode), d, ex) /\ After(s, StopEvent(s, t, at, mode), t, mode)
<1> DEFINE r == s.lwps[t]
           q == [Halt(r) EXCEPT !.stopExpected = FALSE, !.at = at]
           p == IF q.resumeKind = "stop" THEN [q EXCEPT !.pending = "Stop"]
                ELSE IF mode # "no" THEN q ELSE ResumeOne(q, r.stepping)
           y == StopEvent(s, t, at, mode)
<1>1. /\ t \in DOMAIN s.lwps /\ s.stepOver \in {None, t} /\ Fits(r, t, s.stepOver, d, ex)
      /\ r.pending = None /\ r.status = "ignore" /\ Sound(r)
  BY RunningIs DEF Fits
<1>2. /\ DOMAIN y = DOMAIN s /\ DOMAIN y.lwps = DOMAIN s.lwps /\ y.stepOver = s.stepOver
      /\ y.hits = s.hits /\ y.sigchld = s.sigchld
      /\ \A u \in DOMAIN s.lwps \ {t} : y.lwps[u] = s.lwps[u]
      /\ y.lwps[t] = p
  BY <1>1 DEF StopEvent, Good
<1>3. /\ Sound(q) /\ Same(r, q) /\ q.stopped
      /\ r.resumeKind = "stop" =>
           Sound([q EXCEPT !.pending = "Stop"]) /\ [q EXCEPT !.pending = "Stop"].stopped
             /\ Same([r EXCEPT !.pending = "Stop"], [q EXCEPT !.pending = "Stop"])
  BY <1>1, StopEventSound
<1> HIDE DEF q, y
<1>4. Fits(p, t, s.stepOver, d, ex) /\ (mode # "no" => p.stopped)
  <2>1. CASE q.resumeKind = "stop"
    BY <1>1, <1>3, <2>1 DEF Fits, Same, Sound, LwpInfo
  <2>2. CASE q.resumeKind # "stop" /\ mode # "no"
    BY <1>1, <1>3, <2>2, SameFits
  <2>3. CASE q.resumeKind # "stop" /\ mode = "no"
    <3>1. q.status = "ignore" /\ r.stepping \in BOOLEAN
      BY <1>1, <1>3 DEF Same, Sound, LwpInfo
    <3>2. p = ResumeOne(q, r.stepping)
      BY <2>3
    <3>3. Sound(p) /\ Same(q, p)
      BY <1>3, <3>1, <3>2, ResumeOneSound
    <3>4. Same(r, p)
      BY <1>3, <3>3 DEF Same
    <3> HIDE DEF p
    <3> QED
      BY <1>1, <2>3, <3>3, <3>4, SameFits
  <2> QED
    BY <2>1, <2>2, <2>3
<1> HIDE DEF p
<1>5. Good(y, d, ex)
  <2>1. y.hits \in 0..MaxHits /\ y.sigchld \in BOOLEAN
    BY <1>2 DEF Good
  <2> QED
    BY <1>1, <1>2, <1>4, <2>1, OneChanged
<1> QED
  BY <1>2, <1>4, <1>5 DEF After, y

LeftPending(r, e, at) ==
  [Halt(r) EXCEPT !.pending = e, !.at = at, !.stepping = e = "Quiet" /\ r.stepping]

LEMMA OtherEventSound ==
  ASSUME NEW r, Sound(r), r.status = "ignore", NEW e \in Event, NEW at \in BOOLEAN
  PROVE  LET q == LeftPending(r, e, at)
         IN  /\ Sound(q) /\ q.stopped /\ q.status = "ignore"
             /\ q.suspended = r.suspended /\ q.reinsert = r.reinsert
BY DEF Sound, Halt, LwpInfo, LeftPending

LEMMA OtherEventIs ==
  ASSUME NEW s, NEW d, NEW ex, Good(s, d, ex), NEW t \in Running(s), NEW mode,
         NEW e \in Event, NEW at \in BOOLEAN,
         e \in {"Quiet", "Bkpt"} \/ (e = "Step" /\ at) => s.hits < MaxHits
  PROVE  Good(OtherEvent(s, t, e, at), d, ex) /\ After(s, OtherEvent(s, t, e, at), t, mode)
<1> DEFINE r == s.lwps[t]
           q == LeftPending(r, e, at)
           y == OtherEvent(s, t, e, at)
<1>1. /\ t \in DOMAIN s.lwps /\ s.stepOver \in {None, t} /\ Fits(r, t, s.stepOver, d, ex)
      /\ r.status = "ignore" /\ Sound(r)
  BY RunningIs DEF Fits
<1>2. /\ DOMAIN y = DOMAIN s /\ DOMAIN y.lwps = DOMAIN s.lwps /\ y.stepOver = s.stepOver
      /\ y.hits = (IF e \in {"Quiet", "Bkpt"} \/ (e = "Step" /\ at) THEN s.hits + 1 ELSE s.hits)
      /\ y.sigchld = s.sigchld
      /\ \A u \in DOMAIN s.lwps \ {t} : y.lwps[u] = s.lwps[u]
      /\ y.lwps[t] = q
  BY <1>1 DEF OtherEvent, Good, LeftPending
<1>3. Sound(q) /\ q.stopped /\ q.status = "ignore" /\ q.suspended = r.suspended /\ q.reinsert = r.reinsert
  BY <1>1, OtherEventSound
<1> HIDE DEF q, y
<1>4. Fits(q, t, s.stepOver, d, ex)
  BY <1>1, <1>3 DEF Fits
<1>5. y.hits \in 0..MaxHits /\ y.sigchld \in BOOLEAN
  BY <1>2, LwpControlAssumption DEF Good
<1>6. Good(y, d, ex)
  BY <1>1, <1>2, <1>4, <1>5, OneChanged
<1> QED
  BY <1>2, <1>3, <1>6 DEF After, y

NewLwp(n, first) ==
  [AtStart EXCEPT !.resumeKind = "continue", !.status = "ignore", !.suspended = n,
                  !.pending = first, !.stopExpected = first # None]

LEMMA CloneSound ==
  ASSUME NEW n \in 0..2, NEW first \in {None, "Sig"}
  PROVE  LET q == NewLwp(n, first)
         IN  Sound(q) /\ q.stopped /\ q.status = "ignore" /\ q.suspended = n /\ q.reinsert = FALSE
BY DEF Sound, AtStart, LwpInfo, NewLwp, Event

(* The LWP that made the new one stops, perhaps at a breakpoint.           *)
Maker(r, at) == [Halt(r) EXCEPT !.at = at]

LEMMA MakerSound ==
  ASSUME NEW r, Sound(r), r.status = "ignore", NEW at \in BOOLEAN
  PROVE  Sound(Maker(r, at)) /\ Same(r, Maker(r, at)) /\ Maker(r, at).stopped
BY DEF Sound, Halt, LwpInfo, Same, Maker

LEMMA CloneEventIs ==
  ASSUME NEW s, NEW d, NEW ex, Good(s, d, ex), NEW t \in Running(s), NEW mode, Suits(mode, d),
         NEW at \in BOOLEAN, NEW first \in {None, "Sig"},
         NEW new \in LWP \ DOMAIN s.lwps, new # ex, ~(mode = "suspend" /\ s.lwps[t].reinsert)
  PROVE  /\ Good(CloneEvent(s, t, at, new, first, mode), d, ex)
         /\ After(s, CloneEvent(s, t, at, new, first, mode), t, mode)
<1> DEFINE r == s.lwps[t]
           n == IF mode = "suspend" \/ r.reinsert THEN 1 ELSE 0
           q == NewLwp(n, first)
           p == Maker(r, at)
           y == CloneEvent(s, t, at, new, first, mode)
<1>1. /\ t \in DOMAIN s.lwps /\ t \in LWP /\ t # None /\ s.stepOver \in {None, t} /\ Fits(r, t, s.stepOver, d, ex)
      /\ r.status = "ignore" /\ Sound(r) /\ r.pending = None
  BY RunningIs DEF Fits
<1>2. /\ DOMAIN y = DOMAIN s /\ DOMAIN y.lwps = DOMAIN s.lwps \cup {new} /\ y.stepOver = s.stepOver
      /\ y.hits = s.hits /\ y.sigchld = s.sigchld
      /\ \A u \in DOMAIN s.lwps \ {t} : y.lwps[u] = s.lwps[u]
      /\ y.lwps[t] = p /\ y.lwps[new] = q
  BY <1>1 DEF CloneEvent, Good, NewLwp, Maker
<1>3. Sound(q) /\ q.stopped /\ q.status = "ignore" /\ q.suspended = n /\ q.reinsert = FALSE
  <2>1. n \in 0..2
    OBVIOUS
  <2> HIDE DEF n
  <2> QED
    BY <2>1, CloneSound
<1>4. n = Due(s.stepOver, new, d, ex)
  BY <1>1, NoEventIsNone DEF Due, Suits, Fits
<1> HIDE DEF p, q, y, n
<1>5. Fits(q, new, s.stepOver, d, ex)
  <2>1. new # s.stepOver
    BY NoEventIsNone DEF Good
  <2>2. s.stepOver \notin {None, new} => q.stopped
    BY <1>3
  <2> QED
    BY <1>3, <1>4, <2>1, <2>2 DEF Fits
<1>6. Fits(p, t, s.stepOver, d, ex) /\ p.stopped
  BY <1>1, MakerSound, SameFits DEF p
<1>7. Good(y, d, ex)
  BY <1>1, <1>2, <1>5, <1>6 DEF Good
<1> QED
  BY <1>2, <1>3, <1>6, <1>7 DEF After, y

LEMMA ExitEventIs ==
  ASSUME NEW s, NEW d, NEW ex, Good(s, d, ex), NEW t \in Running(s), NEW mode,
         ~s.lwps[t].reinsert, DOMAIN s.lwps # {t}
  PROVE  Good(ExitEvent(s, t), d, ex) /\ After(s, ExitEvent(s, t), t, mode)
<1> DEFINE y == ExitEvent(s, t)
<1>1. t \in DOMAIN s.lwps /\ s.stepOver # t
  BY RunningIs DEF Fits
<1>2. /\ DOMAIN y = DOMAIN s /\ DOMAIN y.lwps = DOMAIN s.lwps \ {t} /\ y.stepOver = s.stepOver
      /\ y.hits = s.hits /\ y.sigchld = s.sigchld
      /\ \A u \in DOMAIN s.lwps \ {t} : y.lwps[u] = s.lwps[u]
  BY <1>1 DEF ExitEvent, FinishStepOver, Good
<1> HIDE DEF y
<1>3. Good(y, d, ex)
  BY <1>1, <1>2 DEF Good
<1> QED
  BY <1>2, <1>3 DEF After, y

(* Where an event of t leaves it: at a breakpoint or not.                  *)
LEMMA StopsAt ==
  ASSUME NEW c, NEW t, NEW x \in Stops(c, t)
  PROVE  x[2] \in BOOLEAN
<1> DEFINE here == IF c.lwps[t].reinsert THEN {TRUE} ELSE BOOLEAN
<1>1. here \subseteq BOOLEAN
  OBVIOUS
<1>2. \/ x \in {"Sig"} \X here
      \/ x \in {"Stop"} \X here
      \/ x \in {"Step"} \X (IF c.hits < MaxHits THEN BOOLEAN ELSE {FALSE})
      \/ c.hits < MaxHits /\ x \in {"Quiet"} \X here
      \/ c.hits < MaxHits /\ x = <<"Bkpt", TRUE>>
  BY DEF Stops
<1> HIDE DEF here
<1>3. CASE x = <<"Bkpt", TRUE>>
  BY <1>3
<1>4. CASE x \in {"Step"} \X (IF c.hits < MaxHits THEN BOOLEAN ELSE {FALSE})
  BY <1>4
<1>5. CASE x \in {"Sig", "Stop", "Quiet"} \X here
  BY <1>1, <1>5
<1> QED
  BY <1>2, <1>3, <1>4, <1>5

LEMMA FilterIs ==
  ASSUME ~StepperExits, ~StepperClones,
         NEW s, NEW d, NEW ex, Good(s, d, ex), NEW t \in Running(s), NEW mode, Suits(mode, d),
         ex \notin LWP \ DOMAIN s.lwps, NEW y \in Filter(s, t, mode)
  PROVE  Good(y, d, ex) /\ After(s, y, t, mode)
<1> DEFINE c == [s EXCEPT !.sigchld = TRUE]
<1>1. c.lwps = s.lwps /\ c.stepOver = s.stepOver /\ c.hits = s.hits /\ Good(c, d, ex)
  BY DEF Good
<1>2. t \in Running(c) /\ (After(c, y, t, mode) => After(s, y, t, mode))
  BY <1>1 DEF Running, After
<1>3. \/ \E x \in Stops(c, t) : y = IF x[1] = "Stop" THEN StopEvent(c, t, x[2], mode)
                                     ELSE OtherEvent(c, t, x[1], x[2])
      \/ \E at \in BOOLEAN, first \in {None, "Sig"}, new \in LWP \ DOMAIN c.lwps :
           ~(mode = "suspend" /\ c.lwps[t].reinsert) /\ y = CloneEvent(c, t, at, new, first, mode)
      \/ DOMAIN c.lwps # {t} /\ ~c.lwps[t].reinsert /\ y = ExitEvent(c, t)
  <2> DEFINE Ones == {IF x[1] = "Stop" THEN StopEvent(c, t, x[2], mode) ELSE OtherEvent(c, t, x[1], x[2])
                        : x \in Stops(c, t)}
             Fresh == IF mode = "suspend" /\ c.lwps[t].reinsert /\ ~StepperClones THEN {}
                      ELSE LWP \ DOMAIN c.lwps
             Clones == {CloneEvent(c, t, at, new, first, mode) :
                          at \in BOOLEAN, first \in {None, "Sig"}, new \in Fresh}
             Exits == IF DOMAIN c.lwps # {t} /\ (StepperExits \/ ~c.lwps[t].reinsert)
                      THEN {ExitEvent(c, t)} ELSE {}
  <2>1. y \in Ones \/ y \in Clones \/ y \in Exits
    <3>1. Filter(s, t, mode) = Ones \cup Clones \cup Exits
      BY DEF Filter
    <3> HIDE DEF Ones, Clones, Exits
    <3> QED
      BY <3>1
  <2> HIDE DEF c
  <2>2. ASSUME y \in Clones
        PROVE  \E at \in BOOLEAN, first \in {None, "Sig"}, new \in Fresh : y = CloneEvent(c, t, at, new, first, mode)
    BY <2>2
  <2>3. ASSUME NEW new \in Fresh
        PROVE  new \in LWP \ DOMAIN c.lwps /\ ~(mode = "suspend" /\ c.lwps[t].reinsert)
    BY <2>3
  <2> HIDE DEF Clones, Fresh
  <2> QED
    BY <2>1, <2>2, <2>3
<1> HIDE DEF c
<1>4. ASSUME NEW x \in Stops(c, t), x[1] # "Stop", y = OtherEvent(c, t, x[1], x[2])
      PROVE  Good(y, d, ex) /\ After(c, y, t, mode)
  <2>1. /\ x[1] \in Event /\ x[2] \in BOOLEAN
        /\ x[1] \in {"Quiet", "Bkpt"} \/ (x[1] = "Step" /\ x[2]) => c.hits < MaxHits
    <3> DEFINE here == IF c.lwps[t].reinsert THEN {TRUE} ELSE BOOLEAN
    <3>1. \/ x \in {"Sig"} \X here
          \/ x \in {"Stop"} \X here
          \/ x \in {"Step"} \X (IF c.hits < MaxHits THEN BOOLEAN ELSE {FALSE})
          \/ c.hits < MaxHits /\ x \in {"Quiet"} \X here
          \/ c.hits < MaxHits /\ x = <<"Bkpt", TRUE>>
      BY DEF Stops
    <3>2. here \subseteq BOOLEAN
      OBVIOUS
    <3> HIDE DEF here
    <3>3. CASE x \in {"Sig"} \X here
      BY <3>2, <3>3 DEF Event
    <3>4. CASE x \in {"Stop"} \X here
      BY <1>4, <3>4
    <3>5. CASE x \in {"Step"} \X (IF c.hits < MaxHits THEN BOOLEAN ELSE {FALSE})
      BY <3>5 DEF Event
    <3>6. CASE c.hits < MaxHits /\ x \in {"Quiet"} \X here
      BY <3>2, <3>6 DEF Event
    <3>7. CASE c.hits < MaxHits /\ x = <<"Bkpt", TRUE>>
      BY <3>7 DEF Event
    <3> QED
      BY <3>1, <3>3, <3>4, <3>5, <3>6, <3>7
  <2> QED
    BY <1>1, <1>2, <1>4, <2>1, OtherEventIs
<1>5. ASSUME NEW at \in BOOLEAN, NEW first \in {None, "Sig"}, NEW new \in LWP \ DOMAIN c.lwps,
             ~(mode = "suspend" /\ c.lwps[t].reinsert), y = CloneEvent(c, t, at, new, first, mode)
      PROVE  Good(y, d, ex) /\ After(c, y, t, mode)
  <2>1. new # ex
    BY <1>1
  <2> QED
    BY <1>1, <1>2, <1>5, <2>1, CloneEventIs
<1>6. ASSUME NEW x \in Stops(c, t), x[1] = "Stop", y = StopEvent(c, t, x[2], mode)
      PROVE  Good(y, d, ex) /\ After(c, y, t, mode)
  <2>1. x[2] \in BOOLEAN
    BY StopsAt
  <2> QED
    BY <1>1, <1>2, <1>6, <2>1, StopEventIs
<1>7. CASE DOMAIN c.lwps # {t} /\ ~c.lwps[t].reinsert /\ y = ExitEvent(c, t)
  BY <1>1, <1>2, <1>7, ExitEventIs
<1> QED
  BY <1>2, <1>3, <1>4, <1>5, <1>6, <1>7

-----------------------------------------------------------------------------
(* Events of several LWPs: one of each, or of any of them ("no").          *)

More(mode, t, X) ==
  IF mode = "no" THEN X \cup UNION {Filter(x, t, mode) : x \in X}
  ELSE UNION {Filter(x, t, mode) : x \in X}

LEMMA MoreIs ==
  ASSUME NEW mode, NEW t, NEW X, NEW y \in More(mode, t, X)
  PROVE  (mode = "no" /\ y \in X) \/ \E x \in X : y \in Filter(x, t, mode)
BY DEF More

(* f yields what there is after events of each of a set of LWPs.           *)
FoldStep(mode, b, f, u) ==
  IF u = {} THEN {b} ELSE More(mode, CHOOSE t \in u : TRUE, f[u \ {CHOOSE t \in u : TRUE}])

IsFold(f, mode, b, R) == f = [u \in SUBSET R |-> FoldStep(mode, b, f, u)]

LEMMA Induction ==
  ASSUME NEW S, 0 \in S, \A n \in Nat : n \in S => n + 1 \in S
  PROVE  \A n \in Nat : n \in S
<1> DEFINE T == {n \in Nat : n \notin S}
<1> SUFFICES ASSUME T # {} PROVE FALSE
  OBVIOUS
<1>1. PICK x \in T : \A y \in T : ~(<<y, x>> \in OpToRel(<, Nat))
  BY NatLessThanWellFounded, WFMin
<1>2. x \in Nat /\ x # 0 /\ x \notin S
  OBVIOUS
<1>3. x - 1 \in Nat /\ <<x - 1, x>> \in OpToRel(<, Nat) /\ x - 1 + 1 = x
  BY <1>2 DEF OpToRel
<1>4. x - 1 \in S
  BY <1>1, <1>3
<1> QED
  BY <1>2, <1>3, <1>4

(* The sets with at most n elements of R.                                  *)
Small(R, n) == {u \in SUBSET R : Cardinality(u) <= n}

LEMMA Smaller ==
  ASSUME NEW R, IsFiniteSet(R), NEW u \in SUBSET R, u # {}
  PROVE  LET t == CHOOSE t \in u : TRUE
         IN  /\ t \in u /\ u \ {t} \in SUBSET R
             /\ Cardinality(u) \in Nat /\ Cardinality(u \ {t}) \in Nat
             /\ Cardinality(u) = Cardinality(u \ {t}) + 1
<1>1. IsFiniteSet(u)
  BY FS_Subset
<1>2. (CHOOSE t \in u : TRUE) \in u
  OBVIOUS
<1>3. \A t \in u : /\ Cardinality(u) \in Nat /\ Cardinality(u \ {t}) \in Nat
                   /\ Cardinality(u \ {t}) = Cardinality(u) - 1
  BY <1>1, FS_RemoveElement, FS_CardinalityType, FS_Subset
<1> DEFINE t == CHOOSE t \in u : TRUE
<1>4. t \in u
  BY <1>2
<1> HIDE DEF t
<1>5. /\ Cardinality(u) \in Nat /\ Cardinality(u \ {t}) \in Nat
      /\ Cardinality(u) = Cardinality(u \ {t}) + 1
  BY <1>3, <1>4
<1> QED
  BY <1>4, <1>5 DEF t

LEMMA FoldExists ==
  ASSUME NEW mode, NEW b, NEW R, IsFiniteSet(R)
  PROVE  \E f : IsFold(f, mode, b, R)
<1> DEFINE S == {n \in Nat : \E f : f = [u \in Small(R, n) |-> FoldStep(mode, b, f, u)]}
<1>1. 0 \in S
  <2> DEFINE f == [u \in Small(R, 0) |-> {b}]
  <2>1. \A u \in Small(R, 0) : u = {}
    BY FS_EmptySet, FS_Subset, FS_CardinalityType DEF Small
  <2>2. f = [u \in Small(R, 0) |-> FoldStep(mode, b, f, u)]
    BY <2>1 DEF FoldStep
  <2> HIDE DEF f
  <2> QED
    BY <2>2
<1>2. ASSUME NEW n \in Nat, n \in S PROVE n + 1 \in S
  <2>1. PICK f : f = [u \in Small(R, n) |-> FoldStep(mode, b, f, u)]
    BY <1>2
  <2> DEFINE g == [u \in Small(R, n + 1) |-> FoldStep(mode, b, f, u)]
  <2>2. \A u \in Small(R, n) : g[u] = f[u]
    <3>1. \A u \in Small(R, n) : u \in Small(R, n + 1)
      BY FS_Subset, FS_CardinalityType DEF Small
    <3> QED
      BY <2>1, <3>1
  <2>3. ASSUME NEW u \in Small(R, n + 1) PROVE FoldStep(mode, b, f, u) = FoldStep(mode, b, g, u)
    <3>1. CASE u = {}
      BY <3>1 DEF FoldStep
    <3>2. CASE u # {}
      <4> DEFINE v == u \ {CHOOSE t \in u : TRUE}
      <4>1. v \in Small(R, n)
        BY <3>2, Smaller DEF Small
      <4>2. f[v] = g[v]
        BY <2>2, <4>1
      <4> QED
        BY <3>2, <4>2 DEF FoldStep
    <3> QED
      BY <3>1, <3>2
  <2>4. g = [u \in Small(R, n + 1) |-> FoldStep(mode, b, g, u)]
    BY <2>3
  <2> HIDE DEF g
  <2> QED
    BY <2>4
<1> HIDE DEF S
<1>3. \A n \in Nat : n \in S
  BY <1>1, <1>2, Induction
<1>4. Cardinality(R) \in Nat /\ Small(R, Cardinality(R)) = SUBSET R
  BY FS_Subset, FS_CardinalityType DEF Small
<1> QED
  BY <1>3, <1>4 DEF S, IsFold

(* x is b after events of the LWPs u.                                      *)
Progress(b, x, u, mode, d, ex) ==
  /\ Good(x, d, ex) /\ x.stepOver = b.stepOver
  /\ \A v \in DOMAIN b.lwps \ u : v \in DOMAIN x.lwps /\ x.lwps[v] = b.lwps[v]
  /\ mode # "no" => \A v \in DOMAIN x.lwps \ (DOMAIN b.lwps \ u) : x.lwps[v].stopped

LEMMA ProgressStep ==
  ASSUME ~StepperExits, ~StepperClones,
         NEW b, NEW mode, NEW d, NEW ex, Suits(mode, d), NEW u, NEW x, Progress(b, x, u, mode, d, ex),
         NEW t \in Running(b), t \notin u, ex = None \/ ex \in DOMAIN b.lwps \ u,
         NEW y \in Filter(x, t, mode)
  PROVE  Progress(b, y, u \cup {t}, mode, d, ex)
<1>1. t \in DOMAIN b.lwps /\ t \in DOMAIN x.lwps /\ x.lwps[t] = b.lwps[t] /\ t \in Running(x)
  BY DEF Progress, Running
<1>2. ex \notin LWP \ DOMAIN x.lwps
  BY NoEventIsNone DEF Progress
<1>3. Good(y, d, ex) /\ After(x, y, t, mode)
  BY <1>1, <1>2, FilterIs DEF Progress
<1> QED
  BY <1>1, <1>3 DEF Progress, After

LEMMA FoldIs ==
  ASSUME ~StepperExits, ~StepperClones,
         NEW b, NEW mode, NEW d, NEW ex, Good(b, d, ex), NEW R \in SUBSET Running(b),
         R # {} => Suits(mode, d) /\ (ex = None \/ ex \in DOMAIN b.lwps \ R),
         NEW f, IsFold(f, mode, b, R)
  PROVE  \A x \in f[R] : Progress(b, x, R, mode, d, ex)
<1> DEFINE S == {n \in Nat : \A u \in Small(R, n) : \A x \in f[u] : Progress(b, x, u, mode, d, ex)}
<1>1. IsFiniteSet(R)
  <2>1. R \subseteq LWP
    BY DEF Running, Good
  <2> QED
    BY <2>1, LwpControlAssumption, FS_Subset
<1>2. ASSUME NEW x \in f[{}] PROVE Progress(b, x, {}, mode, d, ex)
  <2>1. x = b
    BY DEF FoldStep, IsFold
  <2> QED
    BY <2>1 DEF Progress
<1>3. 0 \in S
  <2>1. \A u \in Small(R, 0) : u = {}
    BY <1>1, FS_EmptySet, FS_Subset, FS_CardinalityType DEF Small
  <2> QED
    BY <1>2, <2>1
<1>4. ASSUME NEW n \in Nat, n \in S PROVE n + 1 \in S
  <2> SUFFICES ASSUME NEW u \in Small(R, n + 1), NEW y \in f[u] PROVE Progress(b, y, u, mode, d, ex)
    <3>1. n + 1 \in Nat
      OBVIOUS
    <3> QED
      BY <3>1
  <2>1. CASE u = {}
    BY <1>2, <2>1
  <2>2. CASE u # {}
    <3> DEFINE t == CHOOSE t \in u : TRUE
               v == u \ {t}
    <3>1. t \in u /\ v \in Small(R, n) /\ u = v \cup {t} /\ t \notin v /\ u \in SUBSET R
      BY <1>1, <2>2, Smaller DEF Small
    <3>2. f[u] = More(mode, t, f[v])
      BY <2>2, <3>1 DEF FoldStep, IsFold
    <3> HIDE DEF t, v
    <3>3. \A x \in f[v] : Progress(b, x, v, mode, d, ex)
      BY <1>4, <3>1
    <3>4. Suits(mode, d) /\ t \in Running(b) /\ (ex = None \/ ex \in DOMAIN b.lwps \ v)
      BY <3>1
    <3>5. ASSUME mode = "no", y \in f[v] PROVE Progress(b, y, u, mode, d, ex)
      BY <3>1, <3>3, <3>5 DEF Progress
    <3>6. ASSUME NEW x \in f[v], y \in Filter(x, t, mode) PROVE Progress(b, y, u, mode, d, ex)
      BY <3>1, <3>3, <3>4, <3>6, ProgressStep
    <3>7. (mode = "no" /\ y \in f[v]) \/ \E x \in f[v] : y \in Filter(x, t, mode)
      <4>1. y \in More(mode, t, f[v])
        BY <3>2
      <4> QED
        BY <4>1, MoreIs
    <3> QED
      BY <3>5, <3>6, <3>7
  <2> QED
    BY <2>1, <2>2
<1> HIDE DEF S
<1>5. Cardinality(R) \in S /\ R \in Small(R, Cardinality(R))
  BY <1>1, <1>3, <1>4, Induction, FS_CardinalityType DEF Small
<1> QED
  BY <1>5 DEF S

-----------------------------------------------------------------------------
(* stop_all_lwps.                                                          *)

(* Asked to stop, and suspended.                                           *)
Asked(r, suspend) ==
  LET q == IF r.stopped THEN r ELSE SendSigstop(r)
  IN  [q EXCEPT !.suspended = IF suspend THEN @ + 1 ELSE @]

LEMMA AskedSound ==
  ASSUME NEW r, Sound(r), NEW suspend \in BOOLEAN, suspend => r.suspended \in 0..1
  PROVE  LET q == Asked(r, suspend)
         IN  /\ Sound(q) /\ q.suspended = (IF suspend THEN r.suspended + 1 ELSE r.suspended)
             /\ q.reinsert = r.reinsert /\ q.pending = r.pending /\ q.status = r.status
             /\ q.resumeKind = r.resumeKind /\ q.stopped = r.stopped
<1> DEFINE p == IF r.stopped THEN r ELSE SendSigstop(r)
           n == IF suspend THEN p.suspended + 1 ELSE p.suspended
<1>1. Sound(p) /\ Same(r, p) /\ p.stopped = r.stopped
  BY SendSigstopSound DEF Same
<1>2. Asked(r, suspend) = [p EXCEPT !.suspended = n]
  BY DEF Asked
<1> HIDE DEF p
<1>3. n \in 0..2
  BY <1>1 DEF Sound, LwpInfo, Same
<1> HIDE DEF n
<1>4. LET q == [p EXCEPT !.suspended = n]
      IN  /\ Sound(q) /\ q.suspended = n
          /\ q.reinsert = p.reinsert /\ q.pending = p.pending /\ q.status = p.status
          /\ q.resumeKind = p.resumeKind /\ q.stopped = p.stopped
  BY <1>1, <1>3 DEF Sound, LwpInfo
<1> QED
  BY <1>1, <1>2, <1>4 DEF Same, n

LEMMA AskedKeeps ==
  ASSUME NEW r, Sound(r), NEW suspend
  PROVE  /\ Asked(r, suspend).pending = r.pending /\ Asked(r, suspend).status = r.status
         /\ Asked(r, suspend).stopped = r.stopped
<1> DEFINE p == IF r.stopped THEN r ELSE SendSigstop(r)
<1>1. Sound(p) /\ p.pending = r.pending /\ p.status = r.status /\ p.stopped = r.stopped
  BY SendSigstopSound DEF Same
<1>2. Asked(r, suspend) = [p EXCEPT !.suspended = IF suspend THEN p.suspended + 1 ELSE p.suspended]
  BY DEF Asked
<1> HIDE DEF p
<1> QED
  BY <1>1, <1>2 DEF Sound, LwpInfo

(* x is s with all LWPs but one stopped.                                   *)
Halted(s, x, suspend, except) ==
  /\ x.stepOver = s.stepOver
  /\ \A t \in DOMAIN x.lwps \ {except} : x.lwps[t].stopped
  /\ \A t \in DOMAIN s.lwps : s.lwps[t].stopped /\ t # except =>
       t \in DOMAIN x.lwps /\ x.lwps[t] = Asked(s.lwps[t], suspend)
  /\ except \in DOMAIN s.lwps => except \in DOMAIN x.lwps /\ x.lwps[except] = s.lwps[except]

(* With or without suspending; or in the state in which a step-over has    *)
(* just ended, when only the one that did it is not suspended.             *)
LEMMA StopAllIs ==
  ASSUME ~StepperExits, ~StepperClones,
         NEW s, NEW suspend \in BOOLEAN, NEW except \in DOMAIN s.lwps \cup {None},
         NEW d, NEW ex, NEW mode, NEW e,
         mode = (IF suspend THEN "suspend" ELSE "stop"), e = (IF suspend THEN 1 ELSE d),
         \/ suspend /\ d = 0 /\ ex = except
         \/ ~suspend /\ d = 0 /\ ex = None /\ except = None
         \/ ~suspend /\ d = 1 /\ except = None /\ Running(s) = {},
         Good(s, d, ex), NEW x \in StopAll(s, suspend, except)
  PROVE  Good(x, e, ex) /\ Halted(s, x, suspend, except)
<1> DEFINE b == [s EXCEPT !.lwps = [t \in DOMAIN s.lwps |->
                   IF t = except THEN s.lwps[t] ELSE Asked(s.lwps[t], suspend)]]
           R == Running(s) \ {except}
<1>1. /\ DOMAIN b = DOMAIN s /\ DOMAIN b.lwps = DOMAIN s.lwps /\ b.stepOver = s.stepOver
      /\ b.hits = s.hits /\ b.sigchld = s.sigchld
      /\ \A t \in DOMAIN s.lwps :
           b.lwps[t] = IF t = except THEN s.lwps[t] ELSE Asked(s.lwps[t], suspend)
  BY DEF Good
<1>2. ASSUME NEW t \in DOMAIN s.lwps
      PROVE  Fits(b.lwps[t], t, s.stepOver, e, ex) /\ b.lwps[t].stopped = s.lwps[t].stopped
  <2>1. Fits(s.lwps[t], t, s.stepOver, d, ex) /\ t # None
    BY NoEventIsNone DEF Good
  <2>2. CASE t = except
    <3>1. b.lwps[t] = s.lwps[t] /\ t = ex /\ d = 0 /\ suspend
      BY <1>1, <2>1, <2>2
    <3> QED
      BY <2>1, <3>1 DEF Fits, Due
  <2>3. CASE t # except
    <3> DEFINE r == s.lwps[t]
    <3>1. b.lwps[t] = Asked(r, suspend)
      BY <1>1, <2>3
    <3>2. suspend => r.suspended \in 0..1 /\ Due(s.stepOver, t, e, ex) = r.suspended + 1
      BY <2>1, <2>3 DEF Fits, Due
    <3>3. ~suspend => Due(s.stepOver, t, e, ex) = r.suspended
      BY <2>1 DEF Fits
    <3> HIDE DEF r, b
    <3>4. Sound(r)
      BY <2>1 DEF Fits, r
    <3>5. LET q == Asked(r, suspend)
          IN  /\ Sound(q) /\ q.suspended = (IF suspend THEN r.suspended + 1 ELSE r.suspended)
              /\ q.reinsert = r.reinsert /\ q.status = r.status /\ q.stopped = r.stopped
      BY <3>2, <3>4, AskedSound
    <3> QED
      BY <2>1, <3>1, <3>2, <3>3, <3>5 DEF Fits, r
  <2> QED
    BY <2>2, <2>3
<1>3. StopAll(s, suspend, except)
        = LET iter[u \in SUBSET R] ==
                IF u = {} THEN {b}
                ELSE LET t == CHOOSE t \in u : TRUE
                     IN  UNION {Filter(y, t, IF suspend THEN "suspend" ELSE "stop") : y \in iter[u \ {t}]}
          IN  iter[R]
  BY DEF StopAll, FoldSet, MapThenFoldSet, EachLwp, Asked
<1> HIDE DEF b
<1>4. Good(b, e, ex)
  BY <1>1, <1>2 DEF Good
<1>5. R \in SUBSET Running(b) /\ IsFiniteSet(R)
  <2>1. R \subseteq LWP
    BY DEF Running, Good
  <2> QED
    BY <1>1, <1>2, <2>1, LwpControlAssumption, FS_Subset DEF Running
<1>6. R # {} => Suits(mode, e) /\ (ex = None \/ ex \in DOMAIN b.lwps \ R)
  BY <1>1 DEF Suits
<1> DEFINE Each(g) == [u \in SUBSET R |->
             IF u = {} THEN {b}
             ELSE LET t == CHOOSE t \in u : TRUE
                  IN  UNION {Filter(y, t, IF suspend THEN "suspend" ELSE "stop") : y \in g[u \ {t}]}]
           f == CHOOSE f : f = Each(f)
<1> HIDE DEF R
<1>7. IsFold(f, mode, b, R)
  <2>1. ASSUME NEW g, NEW u
        PROVE  FoldStep(mode, b, g, u)
                 = IF u = {} THEN {b}
                   ELSE LET t == CHOOSE t \in u : TRUE
                        IN  UNION {Filter(y, t, IF suspend THEN "suspend" ELSE "stop") : y \in g[u \ {t}]}
    BY DEF FoldStep, More
  <2>6. \A g : [u \in SUBSET R |-> FoldStep(mode, b, g, u)] = Each(g)
    BY <2>1
  <2> HIDE DEF Each
  <2>2. \A g : IsFold(g, mode, b, R) <=> g = Each(g)
    BY <2>6 DEF IsFold
  <2>3. \E g : IsFold(g, mode, b, R)
    BY <1>5, FoldExists
  <2>4. \E g : g = Each(g)
    BY <2>2, <2>3
  <2>5. f = Each(f)
    BY <2>4
  <2> QED
    BY <2>2, <2>5
<1>8. x \in f[R]
  BY <1>3
<1> HIDE DEF f
<1>9. Progress(b, x, R, mode, e, ex)
  BY <1>4, <1>5, <1>6, <1>7, <1>8, FoldIs
<1>10. Halted(s, x, suspend, except)
  <2>1. \A t \in DOMAIN s.lwps : s.lwps[t].stopped \/ t = except => t \notin R
    BY DEF R, Running
  <2>2. \A t \in DOMAIN x.lwps \ {except} : x.lwps[t].stopped
    BY <1>1, <1>2, <1>9 DEF Progress, R, Running
  <2> QED
    BY <1>1, <1>9, <2>1, <2>2 DEF Halted, Progress
<1> QED
  BY <1>9, <1>10 DEF Progress

-----------------------------------------------------------------------------
(* Setting LWPs running again.                                             *)

Frame(s, y) ==
  /\ DOMAIN y = DOMAIN s /\ DOMAIN y.lwps = DOMAIN s.lwps /\ y.stepOver = s.stepOver
  /\ y.hits = s.hits /\ y.sigchld = s.sigchld

(* The same events and requests.                                           *)
Alike(s, y) ==
  /\ DOMAIN y.lwps = DOMAIN s.lwps /\ y.stepOver = s.stepOver
  /\ \A t \in DOMAIN s.lwps : /\ y.lwps[t].pending = s.lwps[t].pending
                              /\ y.lwps[t].status = s.lwps[t].status
                              /\ y.lwps[t].resumeKind = s.lwps[t].resumeKind

(* What gdb wants to run does, but for ex, or has an event, or waits for a *)
(* step-over.                                                              *)
Going(y, ex) ==
  \A t \in DOMAIN y.lwps \ {ex} :
    y.lwps[t].status = "ignore" /\ y.lwps[t].pending = None /\ y.lwps[t].stopped
      => y.stepOver \notin {None, t}

(* Events that are pending stay pending.                                   *)
Pends(s, y) ==
  \A t \in DOMAIN s.lwps :
    s.lwps[t].pending # None => t \in DOMAIN y.lwps /\ y.lwps[t].pending = s.lwps[t].pending

LEMMA UnsuspendSound ==
  ASSUME NEW r, Sound(r), r.suspended \in 1..2
  PROVE  LET q == [r EXCEPT !.suspended = r.suspended - 1]
         IN  /\ Sound(q) /\ q.suspended = r.suspended - 1 /\ q.reinsert = r.reinsert
             /\ q.pending = r.pending /\ q.status = r.status /\ q.resumeKind = r.resumeKind
             /\ q.stopped = r.stopped
BY DEF Sound, LwpInfo

LEMMA UnsuspendAllIs ==
  ASSUME NEW s, NEW ex, Good(s, 1, ex), ex \in DOMAIN s.lwps => s.stepOver \in {None, ex}
  PROVE  LET y == UnsuspendAll(s, ex)
         IN  /\ Good(y, 0, None) /\ Frame(s, y) /\ Alike(s, y)
             /\ \A t \in DOMAIN s.lwps : y.lwps[t].stopped = s.lwps[t].stopped
             /\ ex \in DOMAIN s.lwps => y.lwps[ex] = s.lwps[ex]
<1> DEFINE y == UnsuspendAll(s, ex)
<1>1. /\ Frame(s, y)
      /\ \A t \in DOMAIN s.lwps :
           y.lwps[t] = IF t = ex THEN s.lwps[t]
                       ELSE [s.lwps[t] EXCEPT !.suspended = IF s.lwps[t].suspended = 0 THEN 9
                                                            ELSE s.lwps[t].suspended - 1]
  BY DEF UnsuspendAll, EachLwp, Good, Frame
<1> HIDE DEF y
<1>2. ASSUME NEW t \in DOMAIN s.lwps
      PROVE  /\ Fits(y.lwps[t], t, s.stepOver, 0, None) /\ y.lwps[t].stopped = s.lwps[t].stopped
             /\ y.lwps[t].pending = s.lwps[t].pending /\ y.lwps[t].status = s.lwps[t].status
             /\ y.lwps[t].resumeKind = s.lwps[t].resumeKind
  <2> DEFINE r == s.lwps[t]
  <2>1. Fits(r, t, s.stepOver, 1, ex) /\ t # None
    BY NoEventIsNone DEF Good
  <2>2. CASE t = ex
    BY <1>1, <2>1, <2>2 DEF Fits, Due
  <2>3. CASE t # ex
    <3>1. r.suspended \in 1..2 /\ Due(s.stepOver, t, 0, None) = r.suspended - 1 /\ Sound(r)
      BY <2>1, <2>3 DEF Fits, Due
    <3>2. y.lwps[t] = [r EXCEPT !.suspended = r.suspended - 1]
      BY <1>1, <2>3, <3>1
    <3> HIDE DEF r
    <3>3. LET q == [r EXCEPT !.suspended = r.suspended - 1]
          IN  /\ Sound(q) /\ q.suspended = r.suspended - 1 /\ q.reinsert = r.reinsert
              /\ q.pending = r.pending /\ q.status = r.status /\ q.resumeKind = r.resumeKind
              /\ q.stopped = r.stopped
      BY <3>1, UnsuspendSound
    <3>4. Fits(y.lwps[t], t, s.stepOver, 0, None)
      BY <2>1, <3>1, <3>2, <3>3 DEF Fits
    <3> QED
      BY <3>2, <3>3, <3>4 DEF r
  <2> QED
    BY <2>2, <2>3
<1>3. Good(y, 0, None)
  BY <1>1, <1>2 DEF Good, Frame
<1>4. Alike(s, y)
  BY <1>1, <1>2 DEF Alike, Frame
<1> QED
  BY <1>1, <1>2, <1>3, <1>4 DEF y

LEMMA ProceedIs ==
  ASSUME NEW s, Good(s, 0, None), NEW y, Frame(s, y), NEW ex,
         \A t \in DOMAIN s.lwps : y.lwps[t] = IF t = ex THEN s.lwps[t] ELSE Proceed(s.lwps[t])
  PROVE  Good(y, 0, None) /\ Alike(s, y) /\ Going(y, ex)
<1>1. ASSUME NEW t \in DOMAIN s.lwps
      PROVE  /\ Fits(y.lwps[t], t, s.stepOver, 0, None) /\ Same(s.lwps[t], y.lwps[t])
             /\ t # ex /\ y.lwps[t].status = "ignore" /\ y.lwps[t].pending = None /\ y.lwps[t].stopped
                  => s.stepOver \notin {None, t}
  <2> DEFINE r == s.lwps[t]
  <2>1. Fits(r, t, s.stepOver, 0, None) /\ t # None
    BY NoEventIsNone DEF Good
  <2>2. CASE t = ex
    BY <2>1, <2>2 DEF Same
  <2>3. CASE t # ex
    <3>1. Sound(r) /\ r.suspended = IF s.stepOver \in {None, t} THEN 0 ELSE 1
      BY <2>1 DEF Fits, Due
    <3>2. y.lwps[t] = Proceed(r)
      BY <2>3
    <3> HIDE DEF r
    <3>3. /\ Sound(Proceed(r)) /\ Same(r, Proceed(r))
          /\ r.suspended # 0 => Proceed(r) = r
          /\ r.suspended = 0 /\ r.status = "ignore" /\ r.pending = None => ~Proceed(r).stopped
      BY <3>1, ProceedSound
    <3>4. Proceed(r).stopped \/ s.stepOver \in {None, t}
      BY <2>1, <3>1, <3>3 DEF Fits
    <3>5. Fits(Proceed(r), t, s.stepOver, 0, None)
      BY <2>1, <3>3, <3>4, SameFits
    <3> QED
      BY <3>1, <3>2, <3>3, <3>5 DEF Same, r
  <2> QED
    BY <2>2, <2>3
<1> QED
  BY <1>1 DEF Good, Frame, Alike, Going, Same

LEMMA UnstopAllIs ==
  ASSUME NEW s, NEW ex, Good(s, 1, ex), ex \in DOMAIN s.lwps => s.stepOver \in {None, ex}
  PROVE  LET y == UnstopAll(s, TRUE, ex)
         IN  /\ Good(y, 0, None) /\ Alike(s, y) /\ Going(y, ex)
             /\ y.hits = s.hits /\ y.sigchld = s.sigchld
             /\ ex \in DOMAIN s.lwps => y.lwps[ex] = s.lwps[ex]
<1> DEFINE u == UnsuspendAll(s, ex)
           y == UnstopAll(s, TRUE, ex)
<1>1. /\ Good(u, 0, None) /\ Frame(s, u) /\ Alike(s, u)
      /\ ex \in DOMAIN s.lwps => u.lwps[ex] = s.lwps[ex]
  BY UnsuspendAllIs
<1>2. y = [u EXCEPT !.lwps = [t \in DOMAIN u.lwps |-> IF t = ex THEN u.lwps[t] ELSE Proceed(u.lwps[t])]]
  BY DEF UnstopAll, EachLwp
<1> HIDE DEF u
<1>3. /\ Frame(u, y)
      /\ \A t \in DOMAIN u.lwps : y.lwps[t] = IF t = ex THEN u.lwps[t] ELSE Proceed(u.lwps[t])
  BY <1>1, <1>2 DEF Good, Frame
<1> HIDE DEF y
<1>4. Good(y, 0, None) /\ Alike(u, y) /\ Going(y, ex)
  BY <1>1, <1>3, ProceedIs
<1>5. Alike(s, y)
  BY <1>1, <1>4 DEF Alike
<1> QED
  BY <1>1, <1>3, <1>4, <1>5 DEF y, Frame

-----------------------------------------------------------------------------
(* start_step_over, proceed_all_lwps.                                      *)

LEMMA ReinsertSound ==
  ASSUME NEW r, Sound(r), r.status = "ignore"
  PROVE  LET w == [r EXCEPT !.reinsert = TRUE]
             q == ResumeOne(w, TRUE)
         IN  /\ Sound(q) /\ q.reinsert = TRUE /\ q.suspended = r.suspended /\ q.status = r.status
             /\ q.pending = r.pending /\ (r.pending = None => ~q.stopped)
<1> DEFINE w == [r EXCEPT !.reinsert = TRUE]
<1>1. /\ Sound(w) /\ w.reinsert = TRUE /\ w.suspended = r.suspended /\ w.status = r.status
      /\ w.pending = r.pending
  BY DEF Sound, LwpInfo
<1> HIDE DEF w
<1>2. /\ Sound(ResumeOne(w, TRUE)) /\ Same(w, ResumeOne(w, TRUE))
      /\ w.pending = None => ~ResumeOne(w, TRUE).stopped
  BY <1>1, ResumeOneSound
<1> QED
  BY <1>1, <1>2 DEF Same, w

LEMMA StartStepOverIs ==
  ASSUME ~StepperExits, ~StepperClones,
         NEW s, Good(s, 0, None), s.stepOver = None, NEW t \in DOMAIN s.lwps, NeedsStepOver(s.lwps[t]),
         NEW y \in StartStepOver(s, t)
  PROVE  Good(y, 0, None) /\ Going(y, None) /\ Pends(s, y)
<1>1. PICK x \in StopAll(s, TRUE, t) :
        y = [x EXCEPT !.lwps[t] = ResumeOne([x.lwps[t] EXCEPT !.reinsert = TRUE], TRUE), !.stepOver = t]
  BY DEF StartStepOver
<1>2. Good(s, 0, t)
  BY DEF Good, Fits, Due
<1>3. Good(x, 1, t) /\ Halted(s, x, TRUE, t)
  BY <1>2, StopAllIs
<1> DEFINE r == s.lwps[t]
           q == ResumeOne([r EXCEPT !.reinsert = TRUE], TRUE)
<1>4. t # None /\ Fits(r, t, None, 0, None) /\ r.pending = None /\ r.status = "ignore" /\ Sound(r)
  BY NoEventIsNone DEF Good, NeedsStepOver, Fits, Sound
<1>5. x.stepOver = None /\ t \in DOMAIN x.lwps /\ x.lwps[t] = r
  BY <1>3 DEF Halted
<1>6. /\ DOMAIN y = DOMAIN x /\ DOMAIN y.lwps = DOMAIN x.lwps /\ y.stepOver = t
      /\ y.hits = x.hits /\ y.sigchld = x.sigchld /\ y.lwps[t] = q
      /\ \A u \in DOMAIN x.lwps \ {t} : y.lwps[u] = x.lwps[u]
  BY <1>1, <1>3, <1>5 DEF Good
<1>7. /\ Sound(q) /\ q.reinsert = TRUE /\ q.suspended = r.suspended /\ q.status = "ignore"
      /\ q.pending = None /\ ~q.stopped
  BY <1>4, ReinsertSound
<1> HIDE DEF r, q
<1>8. Fits(q, t, t, 0, None)
  BY <1>4, <1>7 DEF Fits, Due
<1>9. ASSUME NEW u \in DOMAIN x.lwps \ {t} PROVE Fits(y.lwps[u], u, t, 0, None)
  <2>1. Fits(x.lwps[u], u, None, 1, t) /\ u # None /\ x.lwps[u].stopped
    BY <1>3, <1>5, NoEventIsNone DEF Good, Halted
  <2>2. Due(None, u, 1, t) = 1 /\ Due(t, u, 0, None) = 1
    BY <1>4, <2>1 DEF Due
  <2> QED
    BY <1>4, <1>6, <2>1, <2>2 DEF Fits
<1>10. Good(y, 0, None)
  BY <1>3, <1>5, <1>6, <1>8, <1>9 DEF Good
<1>11. Going(y, None)
  BY <1>4, <1>6, <1>7, NoEventIsNone DEF Going, Good
<1>12. Pends(s, y)
  <2> SUFFICES ASSUME NEW u \in DOMAIN s.lwps, s.lwps[u].pending # None
               PROVE  u \in DOMAIN y.lwps /\ y.lwps[u].pending = s.lwps[u].pending
    BY DEF Pends
  <2>1. u # t
    BY <1>4 DEF r
  <2>2. s.lwps[u].stopped /\ Sound(s.lwps[u]) /\ s.lwps[u].suspended = 0
    BY DEF Good, Fits, Sound, Due
  <2>3. u \in DOMAIN x.lwps /\ x.lwps[u] = Asked(s.lwps[u], TRUE)
    BY <1>3, <2>1, <2>2 DEF Halted
  <2>4. Asked(s.lwps[u], TRUE).pending = s.lwps[u].pending
    BY <2>2, AskedKeeps
  <2> QED
    BY <1>6, <2>1, <2>3, <2>4
<1> QED
  BY <1>10, <1>11, <1>12

LEMMA ProceedAllIs ==
  ASSUME ~StepperExits, ~StepperClones,
         NEW s, Good(s, 0, None), s.stepOver = None, NEW y \in ProceedAll(s)
  PROVE  Good(y, 0, None) /\ Going(y, None) /\ Pends(s, y)
<1> DEFINE need == {t \in DOMAIN s.lwps : NeedsStepOver(s.lwps[t])}
<1>1. CASE need # {}
  <2>1. PICK t \in need : y \in StartStepOver(s, t)
    BY <1>1 DEF ProceedAll
  <2> QED
    BY <2>1, StartStepOverIs
<1>2. CASE need = {}
  <2>1. y = [s EXCEPT !.lwps = [t \in DOMAIN s.lwps |-> Proceed(s.lwps[t])]]
    BY <1>2 DEF ProceedAll, EachLwp
  <2>2. /\ Frame(s, y)
        /\ \A t \in DOMAIN s.lwps : y.lwps[t] = IF t = None THEN s.lwps[t] ELSE Proceed(s.lwps[t])
    BY <2>1, NoEventIsNone DEF Good, Frame
  <2>3. Good(y, 0, None) /\ Alike(s, y) /\ Going(y, None)
    BY <2>2, ProceedIs
  <2> QED
    BY <2>3 DEF Alike, Pends
<1> QED
  BY <1>1, <1>2

-----------------------------------------------------------------------------
(* Taking events from the kernel.                                          *)

LEMMA SettledIs ==
  ASSUME NEW x, Good(x, 0, None), NEW y, Frame(x, y),
         \A t \in DOMAIN x.lwps : y.lwps[t] = ResumeStoppedResumed(x.lwps[t])
  PROVE  Good(y, 0, None) /\ Alike(x, y) /\ Going(y, None)
<1>1. ASSUME NEW t \in DOMAIN x.lwps
      PROVE  /\ Fits(y.lwps[t], t, x.stepOver, 0, None) /\ Same(x.lwps[t], y.lwps[t])
             /\ y.lwps[t].status = "ignore" /\ y.lwps[t].pending = None /\ y.lwps[t].stopped
                  => x.stepOver \notin {None, t}
  <2> DEFINE r == x.lwps[t]
             q == ResumeStoppedResumed(r)
  <2>1. Fits(r, t, x.stepOver, 0, None) /\ t # None
    BY NoEventIsNone DEF Good
  <2>2. Sound(r) /\ r.suspended = IF x.stepOver \in {None, t} THEN 0 ELSE 1
    BY <2>1 DEF Fits, Due
  <2>3. y.lwps[t] = q
    OBVIOUS
  <2> HIDE DEF r
  <2>4. /\ Sound(q) /\ Same(r, q)
        /\ r.suspended # 0 => q = r
        /\ r.suspended = 0 /\ r.status = "ignore" /\ r.pending = None => ~q.stopped
    BY <2>2, ResumeStoppedResumedSound
  <2> HIDE DEF q
  <2>5. q.stopped \/ x.stepOver \in {None, t}
    BY <2>1, <2>2, <2>4 DEF Fits
  <2>6. Fits(q, t, x.stepOver, 0, None)
    BY <2>1, <2>4, <2>5, SameFits
  <2> QED
    BY <2>2, <2>3, <2>4, <2>6 DEF Same, r
<1> QED
  BY <1>1 DEF Good, Frame, Alike, Going, Same

LEMMA DrainedIs ==
  ASSUME ~StepperExits, ~StepperClones,
         NEW s, Good(s, 0, None), NEW y \in Drained(s)
  PROVE  Good(y, 0, None) /\ Going(y, None) /\ Pends(s, y) /\ y.stepOver = s.stepOver
<1> DEFINE R == Running(s)
<1>1. Drained(s)
        = {[x EXCEPT !.lwps = [t \in DOMAIN x.lwps |-> ResumeStoppedResumed(x.lwps[t])]] : x \in
             LET iter[u \in SUBSET R] ==
                   IF u = {} THEN {s}
                   ELSE LET t == CHOOSE t \in u : TRUE
                        IN  iter[u \ {t}] \cup UNION {Filter(x, t, "no") : x \in iter[u \ {t}]}
             IN  iter[R]}
  BY DEF Drained, FoldSet, MapThenFoldSet, EachLwp
<1> DEFINE Each(g) == [u \in SUBSET R |->
             IF u = {} THEN {s}
             ELSE LET t == CHOOSE t \in u : TRUE
                  IN  g[u \ {t}] \cup UNION {Filter(x, t, "no") : x \in g[u \ {t}]}]
           f == CHOOSE f : f = Each(f)
<1>2. PICK x \in f[R] : y = [x EXCEPT !.lwps = [t \in DOMAIN x.lwps |-> ResumeStoppedResumed(x.lwps[t])]]
  BY <1>1
<1>3. R \in SUBSET Running(s) /\ IsFiniteSet(R)
  <2>1. R \subseteq LWP
    BY DEF Running, Good
  <2> QED
    BY <2>1, LwpControlAssumption, FS_Subset
<1> HIDE DEF R
<1>4. IsFold(f, "no", s, R)
  <2>1. ASSUME NEW g, NEW u
        PROVE  FoldStep("no", s, g, u)
                 = IF u = {} THEN {s}
                   ELSE LET t == CHOOSE t \in u : TRUE
                        IN  g[u \ {t}] \cup UNION {Filter(x_1, t, "no") : x_1 \in g[u \ {t}]}
    BY DEF FoldStep, More
  <2>6. \A g : [u \in SUBSET R |-> FoldStep("no", s, g, u)] = Each(g)
    BY <2>1
  <2> HIDE DEF Each
  <2>2. \A g : IsFold(g, "no", s, R) <=> g = Each(g)
    BY <2>6 DEF IsFold
  <2>3. \E g : IsFold(g, "no", s, R)
    BY <1>3, FoldExists
  <2>4. \E g : g = Each(g)
    BY <2>2, <2>3
  <2>5. f = Each(f)
    BY <2>4
  <2> QED
    BY <2>2, <2>5
<1> HIDE DEF f
<1>5. Suits("no", 0)
  BY DEF Suits
<1>6. Progress(s, x, R, "no", 0, None)
  BY <1>2, <1>3, <1>4, <1>5, FoldIs
<1>7. Good(x, 0, None) /\ x.stepOver = s.stepOver
  BY <1>6 DEF Progress
<1>8. Frame(x, y) /\ \A t \in DOMAIN x.lwps : y.lwps[t] = ResumeStoppedResumed(x.lwps[t])
  BY <1>2, <1>7 DEF Good, Frame
<1>9. Good(y, 0, None) /\ Alike(x, y) /\ Going(y, None)
  BY <1>7, <1>8, SettledIs
<1>10. Pends(s, y)
  <2> SUFFICES ASSUME NEW t \in DOMAIN s.lwps, s.lwps[t].pending # None
               PROVE  t \in DOMAIN y.lwps /\ y.lwps[t].pending = s.lwps[t].pending
    BY DEF Pends
  <2>1. t \notin R
    BY DEF R, Running, Good, Fits, Sound
  <2>2. t \in DOMAIN x.lwps /\ x.lwps[t] = s.lwps[t]
    BY <1>6, <2>1 DEF Progress
  <2> QED
    BY <1>9, <2>2 DEF Alike
<1> QED
  BY <1>7, <1>9, <1>10 DEF Alike

-----------------------------------------------------------------------------
(* The event that was picked.                                              *)

(* s is s0 when linux_wait_1 has taken the event of t.                     *)
Taken(s0, t) == FinishStepOver([s0 EXCEPT !.lwps[t].pending = None], t)

LEMMA PickedIs ==
  ASSUME NEW s0, Good(s0, 0, None), NEW t \in Candidates(s0)
  PROVE  /\ t \in DOMAIN s0.lwps /\ t \in LWP /\ t # None /\ s0.stepOver \in {None, t}
         /\ Sound(s0.lwps[t]) /\ s0.lwps[t].pending \in Event /\ s0.lwps[t].stopped
         /\ s0.lwps[t].status = "ignore" /\ s0.lwps[t].suspended = 0
         /\ s0.lwps[t].reinsert <=> s0.stepOver = t
<1>1. /\ t \in DOMAIN s0.lwps /\ t \in LWP /\ t # None /\ s0.stepOver \in {None, t}
      /\ Fits(s0.lwps[t], t, s0.stepOver, 0, None)
      /\ s0.lwps[t].pending # None /\ Resumed(s0.lwps[t])
  BY NoEventIsNone DEF Candidates, Good
<1>2. Sound(s0.lwps[t]) /\ (s0.lwps[t].reinsert <=> s0.stepOver = t) /\ s0.lwps[t].suspended = 0
  BY <1>1 DEF Fits, Due
<1> QED
  BY <1>1, <1>2 DEF Sound, LwpInfo, Resumed

LEMMA TakenSound ==
  ASSUME NEW r, Sound(r), r.stopped, NEW b \in BOOLEAN
  PROVE  LET q == [r EXCEPT !.pending = None]
             p == [q EXCEPT !.reinsert = b]
         IN  /\ Sound(q) /\ q.stopped /\ q.reinsert = r.reinsert /\ q.suspended = r.suspended
             /\ q.status = r.status /\ q.pending = None
             /\ Sound(p) /\ p.stopped /\ p.reinsert = b /\ p.suspended = r.suspended
             /\ p.status = r.status /\ p.pending = None
BY DEF Sound, LwpInfo

LEMMA TakenIs ==
  ASSUME NEW s0, Good(s0, 0, None), NEW t \in Candidates(s0)
  PROVE  LET s == Taken(s0, t)
             r == s0.lwps[t]
         IN  /\ s.stepOver = None /\ DOMAIN s.lwps = DOMAIN s0.lwps
             /\ \A u \in DOMAIN s0.lwps \ {t} : s.lwps[u] = s0.lwps[u]
             /\ s.lwps[t].stopped /\ s.lwps[t].status = "ignore"
             /\ r.reinsert => Good(s, 1, t) /\ Running(s) = {}
             /\ ~r.reinsert => Good(s, 0, None)
<1> DEFINE r == s0.lwps[t]
           q == [r EXCEPT !.pending = None]
           p == [q EXCEPT !.reinsert = FALSE]
           s1 == [s0 EXCEPT !.lwps[t].pending = None]
           s == Taken(s0, t)
<1>1. /\ t \in DOMAIN s0.lwps /\ t \in LWP /\ t # None /\ s0.stepOver \in {None, t}
      /\ Sound(r) /\ r.stopped /\ r.status = "ignore" /\ r.suspended = 0
      /\ r.reinsert <=> s0.stepOver = t
  BY PickedIs
<1>2. /\ Sound(q) /\ q.stopped /\ q.reinsert = r.reinsert /\ q.suspended = 0 /\ q.status = "ignore"
      /\ Sound(p) /\ p.stopped /\ p.reinsert = FALSE /\ p.suspended = 0 /\ p.status = "ignore"
  BY <1>1, TakenSound
<1>3. Frame(s0, s1) /\ s1.lwps[t] = q /\ \A u \in DOMAIN s0.lwps \ {t} : s1.lwps[u] = s0.lwps[u]
  BY <1>1 DEF Good, Frame
<1>4. s = IF s1.lwps[t].reinsert THEN [s1 EXCEPT !.lwps[t].reinsert = FALSE, !.stepOver = None] ELSE s1
  BY DEF Taken, FinishStepOver
<1> HIDE DEF s1, q, s
<1>5. CASE r.reinsert
  <2>1. /\ DOMAIN s = DOMAIN s0 /\ DOMAIN s.lwps = DOMAIN s0.lwps /\ s.stepOver = None
        /\ s.hits = s0.hits /\ s.sigchld = s0.sigchld
        /\ \A u \in DOMAIN s0.lwps \ {t} : s.lwps[u] = s0.lwps[u]
        /\ s.lwps[t] = p
    BY <1>1, <1>2, <1>3, <1>4, <1>5 DEF Good, Frame
  <2> HIDE DEF p
  <2>2. Fits(p, t, None, 1, t)
    BY <1>1, <1>2 DEF Fits, Due
  <2>3. ASSUME NEW u \in DOMAIN s0.lwps \ {t} PROVE Fits(s.lwps[u], u, None, 1, t) /\ s.lwps[u].stopped
    <3>1. Fits(s0.lwps[u], u, t, 0, None) /\ u # None
      BY <1>1, <1>5, NoEventIsNone DEF Good
    <3>2. Due(t, u, 0, None) = 1 /\ Due(None, u, 1, t) = 1
      BY <1>1, <3>1 DEF Due
    <3> QED
      BY <1>1, <2>1, <3>1, <3>2 DEF Fits
  <2>4. Good(s, 1, t)
    BY <1>1, <2>1, <2>2, <2>3 DEF Good
  <2>5. Running(s) = {}
    BY <1>2, <2>1, <2>3 DEF Running
  <2> QED
    BY <1>2, <1>5, <2>1, <2>4, <2>5 DEF s
<1>6. CASE ~r.reinsert
  <2>1. s = s1 /\ s0.stepOver = None
    BY <1>1, <1>2, <1>3, <1>4, <1>6
  <2>2. Fits(q, t, None, 0, None)
    BY <1>1, <1>2, <1>6 DEF Fits, Due
  <2>3. Good(s, 0, None)
    BY <1>1, <1>3, <2>1, <2>2 DEF Good, Frame
  <2> QED
    BY <1>2, <1>3, <1>6, <2>1, <2>3 DEF Frame, s
<1> QED
  BY <1>5, <1>6

-----------------------------------------------------------------------------
(* Telling gdb.                                                            *)

(* A signal is still pending, or gdb was told of it.                       *)
SigKept(s, y) ==
  \A t \in DOMAIN s.lwps :
    s.lwps[t].pending = "Sig" =>
      t \in DOMAIN y.lwps /\ (y.lwps[t].pending = "Sig" \/ y.lwps[t].status = "signal")

(* What linux_wait_1 makes of s.                                           *)
Handled(s, o) ==
  /\ Good(o.s, 0, None) /\ o.mark \in BOOLEAN
  /\ nonStop => Going(o.s, None)
  /\ SigKept(s, o.s)

Told(r) == [r EXCEPT !.pending = None, !.resumeKind = "stop", !.status = Wording(r.pending)]

LEMMA ToldSound ==
  ASSUME NEW r, Sound(r), r.pending # None
  PROVE  /\ Sound(Told(r)) /\ Told(r).suspended = r.suspended /\ Told(r).reinsert = r.reinsert
         /\ Told(r).stopped /\ Told(r).status # "ignore"
         /\ r.pending = "Sig" => Told(r).status = "signal"
<1>1. /\ r.pending \in Event /\ Wording(r.pending) \in {"stopped", "trap", "signal"}
      /\ r.pending = "Sig" => Wording(r.pending) = "signal"
  BY DEF Sound, LwpInfo, Wording, Event
<1> DEFINE w == Wording(r.pending)
<1>2. Told(r) = [r EXCEPT !.pending = None, !.resumeKind = "stop", !.status = w]
  BY DEF Told
<1> HIDE DEF w
<1>3. w \in {"stopped", "trap", "signal"}
  BY <1>1 DEF w
<1>4. /\ Sound(Told(r)) /\ Told(r).suspended = r.suspended /\ Told(r).reinsert = r.reinsert
      /\ Told(r).stopped /\ Told(r).status = w
  BY <1>2, <1>3 DEF Sound, LwpInfo
<1> QED
  BY <1>1, <1>3, <1>4 DEF w

LEMMA TellIs ==
  ASSUME NEW x, Good(x, 0, None), x.stepOver = None,
         NEW t \in DOMAIN x.lwps, x.lwps[t].pending # None,
         nonStop \/ \A u \in DOMAIN x.lwps : x.lwps[u].stopped,
         nonStop => Going(x, None)
  PROVE  Handled(x, Tell(x, t))
<1> DEFINE o == Tell(x, t)
<1>1. /\ o.mark = TRUE /\ Frame(x, o.s)
      /\ o.s.lwps[t] = Told(x.lwps[t])
      /\ \A u \in DOMAIN x.lwps \ {t} :
           o.s.lwps[u] = IF nonStop THEN x.lwps[u] ELSE WantsStopped(x.lwps[u])
  BY DEF Tell, EachLwp, Good, Frame, Told
<1> HIDE DEF o
<1>2. ASSUME NEW u \in DOMAIN x.lwps
      PROVE  Fits(x.lwps[u], u, None, 0, None) /\ Sound(x.lwps[u]) /\ u # None
  BY NoEventIsNone DEF Good, Fits
<1>3. Fits(o.s.lwps[t], t, None, 0, None) /\ o.s.lwps[t].status # "ignore"
      /\ (x.lwps[t].pending = "Sig" => o.s.lwps[t].status = "signal")
  <2>1. Sound(x.lwps[t]) /\ Fits(x.lwps[t], t, None, 0, None) /\ t # None
    BY <1>2
  <2> QED
    BY <1>1, <2>1, ToldSound DEF Fits
<1>4. ASSUME NEW u \in DOMAIN x.lwps \ {t}
      PROVE  /\ Fits(o.s.lwps[u], u, None, 0, None) /\ o.s.lwps[u].pending = x.lwps[u].pending
  <2>1. CASE nonStop
    BY <1>1, <1>2, <2>1
  <2>2. CASE ~nonStop
    <3>1. /\ o.s.lwps[u] = WantsStopped(x.lwps[u]) /\ Sound(x.lwps[u]) /\ x.lwps[u].stopped
          /\ Fits(x.lwps[u], u, None, 0, None) /\ u # None
      BY <1>1, <1>2, <2>2
    <3> QED
      BY <3>1, WantsStoppedSound DEF Fits
  <2> QED
    BY <2>1, <2>2
<1>5. Good(o.s, 0, None)
  BY <1>1, <1>3, <1>4 DEF Good, Frame
<1>6. nonStop => Going(o.s, None)
  BY <1>1, <1>3 DEF Going, Frame
<1>7. SigKept(x, o.s)
  BY <1>1, <1>3, <1>4 DEF SigKept, Frame
<1> QED
  BY <1>1, <1>5, <1>6, <1>7 DEF Handled, o

LEMMA KeptSound ==
  ASSUME NEW r, Sound(r), r.stopped, NEW e \in Event
  PROVE  LET q == [r EXCEPT !.pending = e]
         IN  /\ Sound(q) /\ q.stopped /\ q.pending = e /\ q.suspended = r.suspended
             /\ q.reinsert = r.reinsert /\ q.status = r.status
BY DEF Sound, LwpInfo

(* Before gdb is told: unstopped, or all stopped.                          *)
Readied(s, t, finished) ==
  IF nonStop THEN {IF finished THEN UnstopAll(s, TRUE, t) ELSE s}
  ELSE {IF finished THEN UnsuspendAll(z, t) ELSE z : z \in StopAll(s, FALSE, None)}

LEMMA ReadiedIs ==
  ASSUME ~StepperExits, ~StepperClones, nonStop \in BOOLEAN,
         NEW s0, Good(s0, 0, None), nonStop => Going(s0, None), NEW t \in Candidates(s0),
         NEW s, s = Taken(s0, t), NEW finished, finished <=> s0.lwps[t].reinsert,
         NEW x \in Readied(s, t, finished)
  PROVE  /\ Good(x, 0, None) /\ x.stepOver = None
         /\ t \in DOMAIN x.lwps /\ x.lwps[t].stopped /\ x.lwps[t].status = "ignore"
         /\ nonStop => Going(x, t)
         /\ ~nonStop => \A u \in DOMAIN x.lwps : x.lwps[u].stopped
         /\ \A u \in DOMAIN s0.lwps \ {t} :
              s0.lwps[u].pending # None => u \in DOMAIN x.lwps /\ x.lwps[u].pending = s0.lwps[u].pending
<1>1. /\ t \in DOMAIN s0.lwps /\ t # None /\ s0.stepOver \in {None, t}
      /\ s0.lwps[t].reinsert <=> s0.stepOver = t
  BY PickedIs
<1>2. /\ s.stepOver = None /\ DOMAIN s.lwps = DOMAIN s0.lwps
      /\ \A u \in DOMAIN s0.lwps \ {t} : s.lwps[u] = s0.lwps[u]
      /\ s.lwps[t].stopped /\ s.lwps[t].status = "ignore"
      /\ finished => Good(s, 1, t) /\ Running(s) = {}
      /\ ~finished => Good(s, 0, None)
  BY TakenIs
<1>3. CASE nonStop /\ finished
  <2>1. x = UnstopAll(s, TRUE, t)
    BY <1>3 DEF Readied
  <2>2. Good(s, 1, t) /\ t \in DOMAIN s.lwps /\ s.stepOver = None
    BY <1>1, <1>2, <1>3
  <2>3. LET y == UnstopAll(s, TRUE, t)
        IN  Good(y, 0, None) /\ Alike(s, y) /\ Going(y, t) /\ y.lwps[t] = s.lwps[t]
    BY <2>2, UnstopAllIs
  <2>4. Good(x, 0, None) /\ Alike(s, x) /\ Going(x, t) /\ x.lwps[t] = s.lwps[t]
    BY <2>1, <2>3
  <2> QED
    BY <1>1, <1>2, <1>3, <2>4 DEF Alike
<1>4. CASE nonStop /\ ~finished
  <2>1. x = s /\ s0.stepOver = None
    BY <1>1, <1>4 DEF Readied
  <2>2. Going(s, t)
    <3>1. \A u \in DOMAIN s.lwps : u # None
      BY <1>2, NoEventIsNone DEF Good
    <3> QED
      BY <1>1, <1>2, <1>4, <2>1, <3>1 DEF Going
  <2> QED
    BY <1>1, <1>2, <1>4, <2>1, <2>2
<1>5. CASE ~nonStop
  <2>1. PICK z \in StopAll(s, FALSE, None) : x = IF finished THEN UnsuspendAll(z, t) ELSE z
    BY <1>5 DEF Readied
  <2> DEFINE d == IF finished THEN 1 ELSE 0
             ex == IF finished THEN t ELSE None
             no == FALSE
             one == "stop"
             nobody == None
  <2>2. /\ Good(s, d, ex) /\ no \in BOOLEAN /\ ~no /\ one = (IF no THEN "suspend" ELSE "stop")
        /\ nobody \in DOMAIN s.lwps \cup {None} /\ nobody = None
        /\ (d = 0 /\ ex = None) \/ (d = 1 /\ Running(s) = {})
        /\ d = (IF no THEN 1 ELSE d) /\ z \in StopAll(s, no, nobody)
    BY <1>2
  <2> HIDE DEF d, ex, no, one, nobody
  <2>3. Good(z, d, ex) /\ Halted(s, z, no, nobody)
    BY <2>2, StopAllIs
  <2>4. ASSUME NEW u \in DOMAIN s.lwps, s.lwps[u].stopped
        PROVE  /\ u \in DOMAIN z.lwps /\ z.lwps[u].pending = s.lwps[u].pending
               /\ z.lwps[u].status = s.lwps[u].status
    <3>1. u # None /\ Sound(s.lwps[u])
      BY <2>2, NoEventIsNone DEF Good, Fits
    <3>2. u \in DOMAIN z.lwps /\ z.lwps[u] = Asked(s.lwps[u], no)
      BY <2>2, <2>3, <2>4, <3>1 DEF Halted
    <3> QED
      BY <3>1, <3>2, AskedKeeps
  <2>5. z.stepOver = None /\ \A u \in DOMAIN z.lwps : z.lwps[u].stopped
    BY <1>2, <2>2, <2>3, NoEventIsNone DEF Halted, Good
  <2>6. \A u \in DOMAIN s0.lwps \ {t} : s0.lwps[u].pending # None =>
          u \in DOMAIN z.lwps /\ z.lwps[u].pending = s0.lwps[u].pending
    <3>1. \A u \in DOMAIN s0.lwps : s0.lwps[u].pending # None => s0.lwps[u].stopped
      BY DEF Good, Fits, Sound
    <3> QED
      BY <1>2, <2>4, <3>1
  <2>7. t \in DOMAIN z.lwps /\ z.lwps[t].status = "ignore"
    BY <1>1, <1>2, <2>4
  <2>8. CASE finished
    <3>1. x = UnsuspendAll(z, t) /\ Good(z, 1, t)
      BY <2>1, <2>3, <2>8 DEF d, ex
    <3>2. /\ Good(x, 0, None) /\ Frame(z, x) /\ Alike(z, x)
          /\ \A u \in DOMAIN z.lwps : x.lwps[u].stopped = z.lwps[u].stopped
      BY <2>5, <3>1, UnsuspendAllIs
    <3> QED
      BY <1>5, <2>5, <2>6, <2>7, <3>2 DEF Alike
  <2>9. CASE ~finished
    <3>1. x = z /\ Good(z, 0, None)
      BY <2>1, <2>3, <2>9 DEF d, ex
    <3> QED
      BY <1>5, <2>5, <2>6, <2>7, <3>1
  <2> QED
    BY <2>8, <2>9
<1> QED
  BY <1>3, <1>4, <1>5

LEMMA ReportIs ==
  ASSUME ~StepperExits, ~StepperClones, nonStop \in BOOLEAN,
         NEW s0, Good(s0, 0, None), nonStop => Going(s0, None), NEW t \in Candidates(s0),
         NEW e, e = s0.lwps[t].pending, NEW finished, finished <=> s0.lwps[t].reinsert,
         NEW o \in Report(Taken(s0, t), t, e, finished)
  PROVE  Handled(s0, o)
<1> DEFINE s == Taken(s0, t)
           all == Readied(s, t, finished)
<1>1. PICK x \in all : \E u \in Selectable([x EXCEPT !.lwps[t].pending = e]) :
                         o = Tell([x EXCEPT !.lwps[t].pending = e], u)
  <2> DEFINE kept == {[x EXCEPT !.lwps[t].pending = e] : x \in all}
  <2>1. Report(Taken(s0, t), t, e, finished) = UNION {{Tell(x, u) : u \in Selectable(x)} : x \in kept}
    BY DEF Report, Readied
  <2> HIDE DEF kept
  <2>2. PICK k \in kept : \E u \in Selectable(k) : o = Tell(k, u)
    BY <2>1
  <2> HIDE DEF all
  <2>3. \E x \in all : k = [x EXCEPT !.lwps[t].pending = e]
    BY DEF kept
  <2> QED
    BY <2>2, <2>3
<1> HIDE DEF s
<1>2. /\ Good(x, 0, None) /\ x.stepOver = None
      /\ t \in DOMAIN x.lwps /\ x.lwps[t].stopped /\ x.lwps[t].status = "ignore"
      /\ nonStop => Going(x, t)
      /\ ~nonStop => \A u \in DOMAIN x.lwps : x.lwps[u].stopped
      /\ \A u \in DOMAIN s0.lwps \ {t} :
           s0.lwps[u].pending # None => u \in DOMAIN x.lwps /\ x.lwps[u].pending = s0.lwps[u].pending
  <2>1. s = Taken(s0, t)
    BY DEF s
  <2> QED
    BY <2>1, ReadiedIs
<1> HIDE DEF all
<1> DEFINE k == [x EXCEPT !.lwps[t].pending = e]
           q == [x.lwps[t] EXCEPT !.pending = e]
<1>3. e \in Event /\ t # None
  BY PickedIs
<1>4. Frame(x, k) /\ k.lwps[t] = q /\ \A u \in DOMAIN x.lwps \ {t} : k.lwps[u] = x.lwps[u]
  BY <1>2 DEF Good, Frame
<1>5. PICK u \in Selectable(k) : o = Tell(k, u)
  BY <1>1
<1> HIDE DEF k
<1>6. Fits(x.lwps[t], t, None, 0, None) /\ Sound(x.lwps[t])
  BY <1>2 DEF Good, Fits
<1>7. /\ Sound(q) /\ q.stopped /\ q.pending = e /\ q.suspended = x.lwps[t].suspended
      /\ q.reinsert = x.lwps[t].reinsert /\ q.status = "ignore"
  BY <1>2, <1>3, <1>6, KeptSound
<1> HIDE DEF q
<1>8. Good(k, 0, None) /\ k.stepOver = None
  <2>1. Fits(q, t, None, 0, None)
    BY <1>3, <1>6, <1>7 DEF Fits
  <2> QED
    BY <1>2, <1>4, <2>1 DEF Good, Frame
<1>9. e # None
  <2>1. s0.lwps[t].pending # None
    BY DEF Candidates
  <2> QED
    BY <2>1
<1>10. nonStop => Going(k, None)
  BY <1>2, <1>4, <1>7, <1>9 DEF Going, Frame
<1>11. nonStop \/ \A v \in DOMAIN k.lwps : k.lwps[v].stopped
  BY <1>2, <1>4, <1>7 DEF Frame
<1>12. u \in DOMAIN k.lwps /\ k.lwps[u].pending # None
  BY DEF Selectable
<1>13. Handled(k, o)
  BY <1>5, <1>8, <1>10, <1>11, <1>12, TellIs
<1>14. SigKept(s0, o.s)
  <2> SUFFICES ASSUME NEW v \in DOMAIN s0.lwps, s0.lwps[v].pending = "Sig"
               PROVE  v \in DOMAIN k.lwps /\ k.lwps[v].pending = "Sig"
    BY <1>13 DEF Handled, SigKept
  <2>1. s0.lwps[v].pending # None
    BY EventAssumption DEF Event
  <2> QED
    BY <1>2, <1>4, <1>7, <2>1 DEF Frame
<1> QED
  BY <1>13, <1>14 DEF Handled

(* linux_wait_1.                                                           *)
LEMMA HandleIs ==
  ASSUME ~StepperExits, ~StepperClones, nonStop \in BOOLEAN,
         NEW s0, Good(s0, 0, None), nonStop => Going(s0, None), NEW t \in Candidates(s0),
         NEW o \in Handle(s0, t)
  PROVE  Handled(s0, o)
<1> DEFINE r == s0.lwps[t]
           s == Taken(s0, t)
           unsuspended == IF r.reinsert THEN UnsuspendAll(s, t) ELSE s
           resumed == [s EXCEPT !.lwps[t] = ResumeOne(s.lwps[t], r.stepping)]
<1>1. /\ t \in DOMAIN s0.lwps /\ t # None /\ s0.stepOver \in {None, t}
      /\ r.reinsert <=> s0.stepOver = t
      /\ Sound(r) /\ r.pending \in Event
  BY PickedIs
<1>2. /\ s.stepOver = None /\ DOMAIN s.lwps = DOMAIN s0.lwps
      /\ \A u \in DOMAIN s0.lwps \ {t} : s.lwps[u] = s0.lwps[u]
      /\ s.lwps[t].stopped /\ s.lwps[t].status = "ignore"
      /\ r.reinsert => Good(s, 1, t) /\ Running(s) = {}
      /\ ~r.reinsert => Good(s, 0, None)
  BY TakenIs
<1>3. \/ r.pending = "Quiet" /\ r.reinsert /\ o \in Ignored(ProceedAll(unsuspended))
      \/ r.pending = "Quiet" /\ ~r.reinsert /\ o \in Ignored({resumed})
      \/ r.pending # "Sig" /\ o \in Ignored(ProceedAll(unsuspended))
      \/ o \in Report(s, t, r.pending, r.reinsert)
  BY DEF Handle, Taken, ReportToGdb
<1> HIDE DEF s
<1>4. /\ Good(unsuspended, 0, None) /\ unsuspended.stepOver = None
      /\ \A u \in DOMAIN s0.lwps \ {t} :
           u \in DOMAIN unsuspended.lwps /\ unsuspended.lwps[u].pending = s0.lwps[u].pending
  <2>1. CASE r.reinsert
    <3>1. Good(UnsuspendAll(s, t), 0, None) /\ Alike(s, UnsuspendAll(s, t))
      BY <1>2, <2>1, UnsuspendAllIs
    <3> QED
      BY <1>2, <2>1, <3>1 DEF Alike
  <2>2. CASE ~r.reinsert
    BY <1>2, <2>2
  <2> QED
    BY <2>1, <2>2
<1> HIDE DEF unsuspended
<1>5. ASSUME r.pending # "Sig", o \in Ignored(ProceedAll(unsuspended)) PROVE Handled(s0, o)
  <2>1. PICK y \in ProceedAll(unsuspended) : o = [s |-> y, mark |-> TRUE]
    BY <1>5 DEF Ignored
  <2>2. Good(y, 0, None) /\ Going(y, None) /\ Pends(unsuspended, y)
    BY <1>4, ProceedAllIs
  <2>3. SigKept(s0, y)
    <3> SUFFICES ASSUME NEW u \in DOMAIN s0.lwps, s0.lwps[u].pending = "Sig"
                 PROVE  u \in DOMAIN y.lwps /\ y.lwps[u].pending = "Sig"
      BY DEF SigKept
    <3>1. u # t
      BY <1>5
    <3>2. u \in DOMAIN unsuspended.lwps /\ unsuspended.lwps[u].pending = "Sig"
      BY <1>4, <3>1
    <3>3. unsuspended.lwps[u].pending # None
      BY <3>2, EventAssumption DEF Event
    <3> QED
      BY <2>2, <3>2, <3>3 DEF Pends
  <2>4. o.s = y /\ o.mark = TRUE
    BY <2>1
  <2> QED
    BY <2>2, <2>3, <2>4 DEF Handled
<1>6. ASSUME r.pending = "Quiet", ~r.reinsert, o \in Ignored({resumed}) PROVE Handled(s0, o)
  <2>1. o.s = resumed /\ o.mark = TRUE
    BY <1>6 DEF Ignored
  <2> DEFINE q == ResumeOne(s.lwps[t], r.stepping)
  <2>2. Fits(s.lwps[t], t, None, 0, None) /\ Sound(s.lwps[t]) /\ Good(s, 0, None) /\ s.lwps[t].pending = None
    <3>1. s.lwps[t].pending = None
      BY <1>1, <1>6 DEF s, Taken, FinishStepOver, Good
    <3> QED
      BY <1>1, <1>2, <1>6, <3>1 DEF Good, Fits
  <2>3. r.stepping \in BOOLEAN
    BY <1>1 DEF Sound, LwpInfo
  <2>4. Sound(q) /\ Same(s.lwps[t], q) /\ ~q.stopped
    BY <1>2, <2>2, <2>3, ResumeOneSound
  <2>5. Frame(s, resumed) /\ resumed.lwps[t] = q /\ \A u \in DOMAIN s.lwps \ {t} : resumed.lwps[u] = s.lwps[u]
    BY <1>1, <1>2, <2>2 DEF Good, Frame
  <2> HIDE DEF q, resumed
  <2>6. Fits(q, t, None, 0, None)
    BY <2>2, <2>4, SameFits
  <2>7. Good(resumed, 0, None)
    BY <1>2, <2>2, <2>5, <2>6 DEF Good, Frame
  <2>8. nonStop => Going(resumed, None)
    BY <1>1, <1>2, <1>6, <2>4, <2>5 DEF Going, Frame
  <2>9. SigKept(s0, resumed)
    BY <1>1, <1>2, <1>6, <2>5 DEF SigKept, Frame
  <2> QED
    BY <2>1, <2>7, <2>8, <2>9 DEF Handled
<1>7. ASSUME o \in Report(s, t, r.pending, r.reinsert) PROVE Handled(s0, o)
  <2> DEFINE e == r.pending
             finished == r.reinsert
  <2>1. o \in Report(Taken(s0, t), t, e, finished)
    BY <1>7 DEF s
  <2>2. e = s0.lwps[t].pending /\ (finished <=> s0.lwps[t].reinsert)
    OBVIOUS
  <2> HIDE DEF e, finished
  <2> QED
    BY <2>1, <2>2, ReportIs
<1> QED
  BY <1>3, <1>5, <1>6, <1>7

(* Nothing is left to wait for.                                            *)
LEMMA NoEventIs ==
  ASSUME NEW x, Good(x, 0, None), Going(x, None), Candidates(x) = {}
  PROVE  Handled(x, NoEvent(x, x.stepOver))
<1> DEFINE o == NoEvent(x, x.stepOver)
           over == x.stepOver
           waitedFor == IF over = None THEN DOMAIN x.lwps ELSE {over}
           stopped == [x EXCEPT !.lwps = [t \in DOMAIN x.lwps |-> WantsStopped(x.lwps[t])]]
<1>1. o = [s |-> IF ~nonStop /\ Running(x) \cap waitedFor = {} THEN stopped ELSE x, mark |-> FALSE]
  BY DEF NoEvent, EachLwp
<1>2. CASE ~(~nonStop /\ Running(x) \cap waitedFor = {})
  <2>1. o.s = x /\ o.mark = FALSE
    BY <1>1, <1>2
  <2> QED
    BY <2>1 DEF Handled, SigKept
<1>3. CASE ~nonStop /\ Running(x) \cap waitedFor = {}
  <2>1. o.s = stopped /\ o.mark = FALSE
    BY <1>1, <1>3
  <2>2. over = None
    <3> SUFFICES ASSUME over # None PROVE FALSE
      OBVIOUS
    <3>1. over \in DOMAIN x.lwps /\ Fits(x.lwps[over], over, over, 0, None) /\ over \notin Running(x)
      BY <1>3 DEF Good
    <3>2. x.lwps[over].status = "ignore" /\ x.lwps[over].stopped
      BY <3>1 DEF Fits, Running
    <3>3. x.lwps[over].pending # None
      BY <3>1, <3>2 DEF Going
    <3>4. over \in Candidates(x)
      BY <3>1, <3>2, <3>3 DEF Candidates, Resumed
    <3> QED
      BY <3>4
  <2>3. ASSUME NEW t \in DOMAIN x.lwps
        PROVE  /\ Fits(WantsStopped(x.lwps[t]), t, None, 0, None)
               /\ WantsStopped(x.lwps[t]).pending = x.lwps[t].pending
    <3>1. Fits(x.lwps[t], t, None, 0, None) /\ x.lwps[t].stopped /\ t # None /\ Sound(x.lwps[t])
      BY <1>3, <2>2, NoEventIsNone DEF Running, Good, Fits
    <3> QED
      BY <3>1, WantsStoppedSound DEF Fits
  <2>4. Frame(x, stopped) /\ \A t \in DOMAIN x.lwps : stopped.lwps[t] = WantsStopped(x.lwps[t])
    BY DEF Good, Frame
  <2> HIDE DEF stopped
  <2>5. Good(stopped, 0, None)
    BY <2>2, <2>3, <2>4 DEF Good, Frame
  <2>6. SigKept(x, stopped)
    BY <2>3, <2>4 DEF SigKept, Frame
  <2> QED
    BY <1>3, <2>1, <2>5, <2>6 DEF Handled
<1> QED
  BY <1>2, <1>3

-----------------------------------------------------------------------------
(* What holds between the handlers.                                        *)

IInv ==
  /\ Good(Handler, 0, None)
  /\ nonStop \in NonStopModes /\ eventPipe \in BOOLEAN
  /\ nonStop => Going(Handler, None)

LEMMA ModesAreBoolean == ASSUME nonStop \in NonStopModes PROVE nonStop \in BOOLEAN
BY LwpControlAssumption

(* A handler ends in y.                                                    *)
LEMMA EndsIn ==
  ASSUME IInv, NEW y, Good(y, 0, None), nonStop => Going(y, None), SigKept(Handler, y),
         lwps' = y.lwps, stepOver' = y.stepOver, hits' = y.hits,
         nonStop' = nonStop, eventPipe' \in BOOLEAN
  PROVE  IInv' /\ SigKept(Handler, Handler')
<1>1. /\ Handler'.lwps = y.lwps /\ Handler'.stepOver = y.stepOver /\ Handler'.hits = y.hits
      /\ Handler'.sigchld = FALSE /\ DOMAIN Handler' = {"lwps", "stepOver", "hits", "sigchld"}
  BY DEF Handler
<1>2. Good(Handler', 0, None)
  BY <1>1 DEF Good
<1>3. nonStop => Going(Handler', None)
  BY <1>1 DEF Going
<1>4. SigKept(Handler, Handler')
  BY <1>1 DEF SigKept
<1> HIDE DEF Handler
<1> QED
  BY <1>2, <1>3, <1>4 DEF IInv, Good, Going, Fits

LEMMA WaitInv ==
  ASSUME ~StepperExits, ~StepperClones, IInv, Wait
  PROVE  IInv' /\ SigKept(Handler, Handler')
<1>1. PICK o \in Outcomes : /\ lwps' = o.s.lwps /\ stepOver' = o.s.stepOver /\ hits' = o.s.hits
                            /\ eventPipe' \in {nonStop /\ o.mark, nonStop /\ (o.mark \/ o.s.sigchld)}
                            /\ nonStop' = nonStop
  BY DEF Wait
<1>2. Good(Handler, 0, None) /\ nonStop \in BOOLEAN /\ (nonStop => Going(Handler, None))
      /\ Handler.stepOver = stepOver
  BY ModesAreBoolean DEF IInv, Handler
<1>3. Handled(Handler, o)
  <2>1. ASSUME NEW t \in Candidates(Handler), o \in Handle(Handler, t) PROVE Handled(Handler, o)
    BY <1>2, <2>1, HandleIs
  <2>2. ASSUME NEW x \in Drained(Handler),
               \/ Candidates(x) = {} /\ o = NoEvent(x, stepOver)
               \/ \E t \in Candidates(x) : o \in Handle(x, t)
        PROVE  Handled(Handler, o)
    <3>1. Good(x, 0, None) /\ Going(x, None) /\ Pends(Handler, x) /\ x.stepOver = stepOver
      BY <1>2, DrainedIs
    <3>2. Handled(x, o)
      <4>1. ASSUME Candidates(x) = {}, o = NoEvent(x, stepOver) PROVE Handled(x, o)
        BY <3>1, <4>1, NoEventIs
      <4>2. ASSUME NEW t \in Candidates(x), o \in Handle(x, t) PROVE Handled(x, o)
        BY <1>2, <3>1, <4>2, HandleIs
      <4> QED
        BY <2>2, <4>1, <4>2
    <3>3. SigKept(Handler, o.s)
      BY <3>1, <3>2, EventAssumption DEF SigKept, Handled, Pends, Event
    <3> QED
      BY <3>2, <3>3 DEF Handled
  <2>3. CASE Candidates(Handler) # {}
    <3>1. \E t \in Candidates(Handler) : o \in Handle(Handler, t)
      BY <2>3 DEF Outcomes
    <3> QED
      BY <2>1, <3>1
  <2>4. CASE Candidates(Handler) = {}
    <3>1. \E x \in Drained(Handler) :
            o \in IF Candidates(x) = {} THEN {NoEvent(x, stepOver)}
                  ELSE UNION {Handle(x, t) : t \in Candidates(x)}
      BY <2>4 DEF Outcomes
    <3> QED
      BY <2>2, <3>1
  <2> QED
    BY <2>3, <2>4
<1>4. eventPipe' \in BOOLEAN
  BY <1>1, <1>2, <1>3 DEF Handled, Good
<1> QED
  BY <1>1, <1>3, <1>4, EndsIn DEF Handled

LEMMA AccessMemoryInv ==
  ASSUME ~StepperExits, ~StepperClones, IInv, AccessMemory
  PROVE  IInv' /\ SigKept(Handler, Handler')
<1> DEFINE suspend == TRUE
           nobody == None
<1>1. PICK x \in StopAll(Handler, suspend, nobody) :
        LET u == UnstopAll(x, TRUE, nobody)
        IN  /\ lwps' = u.lwps /\ stepOver' = u.stepOver /\ hits' = u.hits
            /\ eventPipe' = (eventPipe \/ x.sigchld)
  BY DEF AccessMemory
<1> DEFINE u == UnstopAll(x, TRUE, nobody)
<1>2. Good(Handler, 0, None) /\ nobody = None /\ suspend \in BOOLEAN /\ suspend
      /\ nobody \in DOMAIN Handler.lwps \cup {None}
  BY DEF IInv
<1> HIDE DEF suspend, nobody
<1>3. Good(x, 1, nobody) /\ Halted(Handler, x, suspend, nobody)
  BY <1>2, StopAllIs
<1>4. nobody \notin DOMAIN x.lwps
  BY <1>2, <1>3, NoEventIsNone DEF Good
<1>5. Good(u, 0, None) /\ Alike(x, u) /\ Going(u, nobody)
  BY <1>3, <1>4, UnstopAllIs
<1> HIDE DEF u
<1>6. SigKept(Handler, u)
  <2> SUFFICES ASSUME NEW t \in DOMAIN Handler.lwps, Handler.lwps[t].pending = "Sig"
               PROVE  t \in DOMAIN u.lwps /\ u.lwps[t].pending = "Sig"
    BY DEF SigKept
  <2>1. Sound(Handler.lwps[t]) /\ Handler.lwps[t].stopped /\ t # nobody
    BY <1>2, NoEventIsNone, EventAssumption DEF Good, Fits, Sound, Event
  <2>2. t \in DOMAIN x.lwps /\ x.lwps[t] = Asked(Handler.lwps[t], suspend)
    BY <1>3, <2>1 DEF Halted
  <2>3. x.lwps[t].pending = "Sig"
    BY <2>1, <2>2, AskedKeeps
  <2> QED
    BY <1>5, <2>2, <2>3 DEF Alike
<1>7. lwps' = u.lwps /\ stepOver' = u.stepOver /\ hits' = u.hits
  BY <1>1 DEF u
<1>8. nonStop' = nonStop
  BY DEF AccessMemory
<1>9. eventPipe' \in BOOLEAN
  BY <1>1, <1>3 DEF Good, IInv
<1> QED
  BY <1>2, <1>5, <1>6, <1>7, <1>8, <1>9, EndsIn

-----------------------------------------------------------------------------
(* Requests of gdb.                                                        *)

(* An LWP that is left as it is for a step-over.                           *)
LEMMA LeftStopped ==
  ASSUME NEW r, Sound(r), NEW kind \in {"continue", "step"}, NEW leave \in BOOLEAN, leave
  PROVE  LET q == ResumeRequested(r, kind, leave)
         IN  q.stopped = r.stopped /\ q.at = r.at
<1>1. ResumeRequested(r, kind, leave) = [[r EXCEPT !.resumeKind = kind] EXCEPT !.status = "ignore"]
  BY DEF ResumeRequested
<1>2. r \in LwpInfo
  BY DEF Sound
<1> QED
  BY ONLY <1>1, <1>2 DEF LwpInfo

(* What a request makes of an LWP is as good as the LWP was.               *)
LEMMA RequestFits ==
  ASSUME NEW r, NEW t, NEW over, Fits(r, t, over, 0, None), t # None,
         NEW kind \in {"continue", "step", "stop"}, NEW leave \in BOOLEAN
  PROVE  Fits(ResumeRequested(r, kind, leave), t, over, 0, None)
<1> DEFINE q == ResumeRequested(r, kind, leave)
<1>1. Sound(r) /\ (r.reinsert <=> over = t) /\ r.suspended = Due(over, t, 0, None)
      /\ (over \notin {None, t} => r.stopped)
  BY DEF Fits
<1>2. /\ Sound(q) /\ q.suspended = r.suspended /\ q.reinsert = r.reinsert /\ q.status = "ignore"
      /\ r.suspended # 0 => q.stopped = r.stopped
  <2>1. /\ Sound(q) /\ q.suspended = r.suspended /\ q.reinsert = r.reinsert
        /\ q.pending = r.pending /\ q.status = "ignore" /\ q.resumeKind = kind
        /\ r.suspended # 0 \/ kind = "stop" \/ leave => q.stopped = r.stopped
        /\ r.suspended = 0 /\ r.pending = None /\ kind # "stop" /\ ~leave => ~q.stopped
    <3>1. Sound(r) /\ kind \in {"continue", "step", "stop"} /\ leave \in BOOLEAN
      BY <1>1
    <3> QED
      BY ONLY <3>1, ResumeRequestedSound
  <2> HIDE DEF q
  <2> QED
    BY ONLY <2>1
<1>3. over \notin {None, t} => r.suspended # 0
  BY <1>1 DEF Due
<1> HIDE DEF q
<1> QED
  BY <1>1, <1>2, <1>3 DEF Fits, q

LEMMA ResumeInv ==
  ASSUME ~StepperExits, ~StepperClones, IInv,
         NEW request \in [DOMAIN lwps -> Requests], Resume(request)
  PROVE  IInv' /\ SigKept(Handler, Handler')
<1> DEFINE taken == {t \in DOMAIN lwps : Takes(t, request[t])}
           kind(t) == IF t \in taken THEN request[t] ELSE lwps[t].resumeKind
           pending == ~nonStop /\ \E t \in taken : lwps[t].pending # None
           need == {t \in DOMAIN lwps : ~pending /\ NeedsStepOver([lwps[t] EXCEPT !.resumeKind = kind(t)])}
           leave == pending \/ need # {}
           s == EachLwp(Handler, LAMBDA t :
                  IF t \in taken THEN ResumeRequested(lwps[t], request[t], leave) ELSE lwps[t])
<1>1. /\ nonStop \/ (taken # {} /\ \A t \in DOMAIN lwps : ToldStopped(lwps[t]))
      /\ \E y \in IF need = {} THEN {s} ELSE UNION {StartStepOver(s, t) : t \in need} :
           lwps' = y.lwps /\ stepOver' = y.stepOver /\ hits' = y.hits
      /\ eventPipe' = nonStop
      /\ nonStop' = nonStop
  BY DEF Resume
<1>2. /\ nonStop \in BOOLEAN /\ Good(Handler, 0, None)
      /\ Handler.lwps = lwps /\ Handler.stepOver = stepOver
      /\ nonStop => Going(Handler, None)
  BY ModesAreBoolean DEF IInv, Handler
<1>3. leave \in BOOLEAN
  BY <1>2
<1>4. \A t \in DOMAIN lwps : t # None /\ Fits(lwps[t], t, stepOver, 0, None) /\ Sound(lwps[t])
  BY <1>2, NoEventIsNone DEF Good, Fits
<1>5. \A t \in taken : request[t] \in {"continue", "step", "stop"}
  BY DEF Takes, Requests
<1>6. /\ DOMAIN s = DOMAIN Handler /\ DOMAIN s.lwps = DOMAIN lwps
      /\ s.stepOver = Handler.stepOver /\ s.hits = Handler.hits /\ s.sigchld = Handler.sigchld
      /\ \A t \in DOMAIN lwps :
           s.lwps[t] = IF t \in taken THEN ResumeRequested(lwps[t], request[t], leave) ELSE lwps[t]
  BY DEF EachLwp, Handler
<1>7. \A t \in need : t \in DOMAIN lwps /\ ~pending /\ NeedsStepOver([lwps[t] EXCEPT !.resumeKind = kind(t)])
  OBVIOUS
<1>8. \A t \in DOMAIN lwps : kind(t) = IF t \in taken THEN request[t] ELSE lwps[t].resumeKind
  OBVIOUS
<1>9. nonStop => ~pending
  OBVIOUS
<1>10. \A t \in taken : t \in DOMAIN lwps /\ ((request[t] = "stop") # (lwps[t].resumeKind = "stop"))
  BY DEF Takes
<1>11. need = {} => leave = pending
  OBVIOUS
<1>12. need # {} => leave
  OBVIOUS
<1> HIDE DEF s, leave, need, pending, kind, taken
<1>13. Good(s, 0, None)
  <2>1. \A t \in DOMAIN lwps : Fits(s.lwps[t], t, stepOver, 0, None)
    BY <1>3, <1>4, <1>5, <1>6, RequestFits
  <2> QED
    BY <1>2, <1>6, <2>1 DEF Good
<1>14. Pends(Handler, s)
  <2> SUFFICES ASSUME NEW t \in DOMAIN lwps PROVE s.lwps[t].pending = lwps[t].pending
    BY <1>2, <1>6 DEF Pends
  <2>1. CASE t \in taken
    <3>1. /\ Sound(lwps[t]) /\ request[t] \in {"continue", "step", "stop"}
          /\ s.lwps[t] = ResumeRequested(lwps[t], request[t], leave)
      BY <1>4, <1>5, <1>6, <2>1
    <3> QED
      BY <1>3, <3>1, ResumeRequestedSound
  <2> QED
    BY <1>6, <2>1
<1>15. CASE need = {}
  <2>1. lwps' = s.lwps /\ stepOver' = s.stepOver /\ hits' = s.hits
    BY <1>1, <1>15
  <2>2. ASSUME nonStop PROVE Going(s, None)
    <3> SUFFICES ASSUME NEW t \in DOMAIN lwps, s.lwps[t].status = "ignore", s.lwps[t].pending = None,
                        s.lwps[t].stopped
                 PROVE  stepOver \notin {None, t}
      BY <1>2, <1>6 DEF Going
    <3>1. lwps[t].status = "ignore" /\ lwps[t].pending = None /\ lwps[t].stopped => stepOver \notin {None, t}
      BY <1>2, <1>4, <2>2 DEF Going
    <3>2. lwps[t].suspended # 0 => stepOver \notin {None, t}
      BY <1>4 DEF Fits, Due
    <3>3. CASE t \notin taken
      BY <1>6, <3>1, <3>3
    <3>4. CASE t \in taken
      <4> DEFINE q == ResumeRequested(lwps[t], request[t], leave)
      <4>1. /\ s.lwps[t] = q /\ q.pending = lwps[t].pending
            /\ lwps[t].suspended # 0 \/ request[t] = "stop" \/ leave => q.stopped = lwps[t].stopped
            /\ lwps[t].suspended = 0 /\ lwps[t].pending = None /\ request[t] # "stop" /\ ~leave => ~q.stopped
        <5>1. /\ Sound(lwps[t]) /\ request[t] \in {"continue", "step", "stop"} /\ s.lwps[t] = q
          BY <1>4, <1>5, <1>6, <3>4
        <5> QED
          BY <1>3, <5>1, ResumeRequestedSound
      <4> HIDE DEF q
      <4>2. ~leave
        BY <1>9, <1>11, <1>15, <2>2
      <4>3. CASE request[t] = "stop"
        <5>1. lwps[t].status = "ignore"
          BY <1>4, <1>10, <3>4, <4>3 DEF Sound
        <5> QED
          BY <3>1, <4>1, <4>3, <5>1
      <4>4. CASE request[t] # "stop"
        BY <3>2, <4>1, <4>2, <4>4
      <4> QED
        BY <4>3, <4>4
    <3> QED
      BY <3>3, <3>4
  <2>3. SigKept(Handler, s)
    BY <1>14, EventAssumption DEF SigKept, Pends, Event
  <2>4. eventPipe' \in BOOLEAN
    BY <1>1, <1>2
  <2> QED
    BY <1>1, <1>13, <2>1, <2>2, <2>3, <2>4, EndsIn
<1>16. CASE need # {}
  <2>1. PICK t \in need : \E y \in StartStepOver(s, t) :
          lwps' = y.lwps /\ stepOver' = y.stepOver /\ hits' = y.hits
    BY <1>1, <1>16
  <2>2. PICK y \in StartStepOver(s, t) : lwps' = y.lwps /\ stepOver' = y.stepOver /\ hits' = y.hits
    BY <2>1
  <2>3. /\ t \in DOMAIN lwps /\ lwps[t].stopped /\ lwps[t].suspended = 0
        /\ lwps[t].pending = None /\ lwps[t].at /\ kind(t) # "stop" /\ lwps[t] \in LwpInfo
    BY <1>4, <1>7 DEF NeedsStepOver, Sound, LwpInfo
  <2>4. stepOver \in {None, t}
    BY <1>4, <2>3 DEF Fits, Due
  <2>5. stepOver = None
    <3> SUFFICES ASSUME stepOver = t PROVE FALSE
      BY <2>4
    <3>1. lwps[t].status = "ignore"
      BY <1>4, <2>3 DEF Fits
    <3>2. ~nonStop
      BY <1>2, <1>4, <2>3, <3>1 DEF Going
    <3> QED
      BY <1>1, <2>3, <3>1, <3>2 DEF ToldStopped
  <2>6. NeedsStepOver(s.lwps[t])
    <3>1. CASE t \notin taken
      <4>1. s.lwps[t] = lwps[t] /\ lwps[t].resumeKind # "stop"
        BY <1>6, <1>8, <2>3, <3>1
      <4> QED
        BY <2>3, <4>1 DEF NeedsStepOver
    <3>2. CASE t \in taken
      <4>1. request[t] \in {"continue", "step"}
        BY <1>5, <1>8, <2>3, <3>2
      <4>2. s.lwps[t].stopped = lwps[t].stopped /\ s.lwps[t].at = lwps[t].at
        <5> DEFINE q == ResumeRequested(lwps[t], request[t], leave)
        <5>1. leave /\ Sound(lwps[t]) /\ s.lwps[t] = q
          BY <1>4, <1>6, <1>12, <1>16, <2>3, <3>2
        <5>2. q.stopped = lwps[t].stopped /\ q.at = lwps[t].at
          BY <1>3, <4>1, <5>1, LeftStopped
        <5> QED
          BY <5>1, <5>2
      <4>3. /\ s.lwps[t].suspended = lwps[t].suspended /\ s.lwps[t].pending = lwps[t].pending
            /\ s.lwps[t].resumeKind = request[t]
        <5>1. /\ Sound(lwps[t]) /\ request[t] \in {"continue", "step", "stop"}
              /\ s.lwps[t] = ResumeRequested(lwps[t], request[t], leave)
          BY <1>4, <1>5, <1>6, <2>3, <3>2
        <5> QED
          BY <1>3, <5>1, ResumeRequestedSound
      <4> QED
        BY <2>3, <4>1, <4>2, <4>3 DEF NeedsStepOver
    <3> QED
      BY <3>1, <3>2
  <2>7. Good(y, 0, None) /\ Going(y, None) /\ Pends(s, y)
    BY <1>2, <1>6, <1>13, <2>2, <2>3, <2>5, <2>6, StartStepOverIs
  <2>8. SigKept(Handler, y)
    BY <1>2, <1>6, <1>14, <2>7, EventAssumption DEF SigKept, Pends, Event
  <2>9. eventPipe' \in BOOLEAN
    BY <1>1, <1>2
  <2> QED
    BY <1>1, <2>2, <2>7, <2>8, <2>9, EndsIn
<1> QED
  BY <1>15, <1>16

-----------------------------------------------------------------------------
(* All of the program.                                                     *)

LEMMA StartSound == Sound(AtStart) /\ AtStart.reinsert = FALSE /\ AtStart.suspended = 0
                    /\ AtStart.status = "stopped"
BY DEF Sound, AtStart, LwpInfo

LEMMA InitInv == Init => IInv
<1> SUFFICES ASSUME Init PROVE IInv
  OBVIOUS
<1>1. /\ Handler.lwps = lwps /\ Handler.stepOver = None /\ Handler.hits = 0 /\ Handler.sigchld = FALSE
      /\ DOMAIN Handler = {"lwps", "stepOver", "hits", "sigchld"}
  BY DEF Init, Handler
<1>2. DOMAIN lwps = Started /\ \A t \in Started : lwps[t] = AtStart
  BY DEF Init
<1>3. Started \subseteq LWP /\ Started # {} /\ MaxHits \in Nat
  BY LwpControlAssumption
<1>4. \A t \in Started : Fits(AtStart, t, None, 0, None)
  <2> SUFFICES ASSUME NEW t \in Started PROVE Fits(AtStart, t, None, 0, None)
    OBVIOUS
  <2>1. t # None
    BY <1>3, NoEventIsNone
  <2>2. Due(None, t, 0, None) = 0
    BY DEF Due
  <2> QED
    BY <2>1, <2>2, StartSound DEF Fits
<1> HIDE DEF Handler
<1>5. Good(Handler, 0, None)
  <2>1. DOMAIN Handler.lwps = Started /\ \A t \in Started : Handler.lwps[t] = AtStart
    BY <1>1, <1>2
  <2>2. 0 \in 0..MaxHits
    BY <1>3
  <2>3. \A t \in DOMAIN Handler.lwps : Fits(Handler.lwps[t], t, Handler.stepOver, 0, None)
    BY <1>1, <1>4, <2>1
  <2> QED
    BY <1>1, <1>3, <2>1, <2>2, <2>3 DEF Good
<1>6. Going(Handler, None)
  BY <1>1, <1>2, StartSound DEF Going
<1> QED
  BY <1>5, <1>6 DEF IInv, Init

LEMMA StutterInv == ASSUME IInv, UNCHANGED vars PROVE IInv' /\ SigKept(Handler, Handler')
<1>1. lwps' = lwps /\ stepOver' = stepOver /\ hits' = hits /\ nonStop' = nonStop /\ eventPipe' = eventPipe
  BY DEF vars
<1>2. Handler.lwps = lwps /\ Handler.stepOver = stepOver /\ Handler.hits = hits
  BY DEF Handler
<1>3. SigKept(Handler, Handler)
  BY DEF SigKept
<1> QED
  BY <1>1, <1>2, <1>3, EndsIn DEF IInv

LEMMA StepInv ==
  ASSUME ~StepperExits, ~StepperClones, IInv, [Next]_vars
  PROVE  IInv' /\ SigKept(Handler, Handler')
<1>1. CASE Wait
  BY <1>1, WaitInv
<1>2. ASSUME NEW request \in [DOMAIN lwps -> Requests], Resume(request)
      PROVE  IInv' /\ SigKept(Handler, Handler')
  BY <1>2, ResumeInv
<1>3. CASE AccessMemory
  BY <1>3, AccessMemoryInv
<1>4. CASE UNCHANGED vars
  BY <1>4, StutterInv
<1> QED
  BY <1>1, <1>2, <1>3, <1>4 DEF Next

LEMMA SpecIInv ==
  ASSUME ~StepperExits, ~StepperClones
  PROVE  Spec => []IInv
<1>1. IInv /\ [Next]_vars => IInv'
  BY StepInv
<1> QED
  BY InitInv, <1>1, PTL DEF Spec

-----------------------------------------------------------------------------
(* Unless an LWP exits while it steps over a breakpoint, or creates one in *)
(* the midst of another step-over, the state of the LWPs is well-formed:   *)
(* in particular suspend counts do not drift (linux-low.c).                *)
THEOREM TypeCorrect ==
  ASSUME ~StepperExits, ~StepperClones
  PROVE  Spec => []TypeOK
<1>1. IInv => TypeOK
  BY DEF IInv, Good, Fits, Sound, TypeOK, Handler
<1> QED
  BY <1>1, SpecIInv, PTL

(* Then, too, an LWP is all alone while it steps over a breakpoint: every  *)
(* other one, however new, is stopped and suspended exactly once, and      *)
(* when nobody does nobody is suspended (start_step_over,                  *)
(* finish_step_over, unsuspend_all_lwps).                                  *)
THEOREM StepsOverAloneCorrect ==
  ASSUME ~StepperExits, ~StepperClones
  PROVE  Spec => []StepsOverAlone
<1>1. IInv => StepsOverAlone
  <2> SUFFICES ASSUME IInv, NEW t \in DOMAIN lwps
               PROVE  /\ lwps[t].reinsert <=> stepOver = t
                      /\ lwps[t].suspended = IF stepOver \in {None, t} THEN 0 ELSE 1
                      /\ stepOver \notin {None, t} => lwps[t].stopped
    BY DEF StepsOverAlone
  <2>1. t # None /\ Fits(lwps[t], t, stepOver, 0, None)
    BY NoEventIsNone DEF IInv, Good, Handler
  <2> QED
    BY <2>1 DEF Fits, Due
<1> QED
  BY <1>1, SpecIInv, PTL

(* An LWP that gdb was told has stopped stays stopped until gdb resumes    *)
(* it, whatever other LWPs are stopped, stepped and resumed meanwhile      *)
(* (proceed_one_lwp, resume_stopped_resumed_lwps).                         *)
THEOREM StoppedMeansStoppedCorrect ==
  ASSUME ~StepperExits, ~StepperClones
  PROVE  Spec => []StoppedMeansStopped
<1>1. IInv => StoppedMeansStopped
  BY DEF IInv, Good, Fits, Sound, StoppedMeansStopped, ToldStopped, Handler
<1> QED
  BY <1>1, SpecIInv, PTL

(* In non-stop mode no LWP that gdb wants to run is left behind, stopped   *)
(* without an event and without a step-over that it waits for, by the many *)
(* ways of stopping everything and setting it running again                *)
(* (unstop_all_lwps, proceed_all_lwps, linux_done_accessing_memory).       *)
THEOREM NobodyForgottenCorrect ==
  ASSUME ~StepperExits, ~StepperClones
  PROVE  Spec => []NobodyForgotten
<1>1. IInv => NobodyForgotten
  <2> SUFFICES ASSUME IInv, nonStop, NEW t \in DOMAIN lwps,
                      Resumed(lwps[t]), lwps[t].stopped, lwps[t].pending = None
               PROVE  stepOver \notin {None, t}
    BY DEF NobodyForgotten
  <2>1. t # None /\ Sound(lwps[t])
    BY NoEventIsNone DEF IInv, Good, Fits, Handler
  <2>2. lwps[t].status = "ignore"
    BY <2>1 DEF Sound, Resumed
  <2> QED
    BY <2>1, <2>2 DEF IInv, Going, Handler
<1> QED
  BY <1>1, SpecIInv, PTL

(* A signal that is pending in an LWP stays pending until gdb is told of   *)
(* it: no handler drops it, be it that another LWP's event is selected,    *)
(* that everything is stopped and resumed, or that the LWP is asked to     *)
(* continue (linux_wait_1, select_event_lwp, linux_resume_one_thread).     *)
THEOREM EventsAreKeptCorrect ==
  ASSUME ~StepperExits, ~StepperClones
  PROVE  Spec => EventsAreKept
<1>1. IInv /\ [Next]_vars =>
        [\A t \in DOMAIN lwps \cap DOMAIN lwps' :
           lwps[t].pending = "Sig" => lwps'[t].pending = "Sig" \/ lwps'[t].status = "signal"]_vars
  <2> SUFFICES ASSUME IInv, [Next]_vars, NEW t \in DOMAIN lwps \cap DOMAIN lwps', lwps[t].pending = "Sig"
               PROVE  lwps'[t].pending = "Sig" \/ lwps'[t].status = "signal"
    OBVIOUS
  <2>1. SigKept(Handler, Handler')
    BY StepInv
  <2> QED
    BY <2>1 DEF SigKept, Handler
<1> QED
  BY <1>1, SpecIInv, PTL DEF Spec, EventsAreKept
=============================================================================
