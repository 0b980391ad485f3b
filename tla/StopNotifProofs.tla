-------------------------- MODULE StopNotifProofs --------------------------
(***************************************************************************)
(* Proofs about StopNotif, for any threads and processes.                  *)
(*                                                                         *)
(* The invariants rest on an account of where the stop of a thread is: in  *)
(* gdbserver's queue, on the way to gdb, in the notification that gdb has  *)
(* not acknowledged, or fetched.  On gdb's side it is in one place at      *)
(* most; when it is on both sides it is at the head of gdbserver's queue,  *)
(* which is what the next vStopped takes off.                              *)
(***************************************************************************)
EXTENDS StopNotif, WellFoundedInduction, SequenceTheorems, TLAPS

-----------------------------------------------------------------------------
(* Sequences.                                                              *)

LEMMA Induction ==
  ASSUME NEW S, 0 \in S, \A n \in Nat : n \in S => n + 1 \in S
  PROVE  \A n \in Nat : n \in S
<1> DEFINE T == {n \in Nat : n \notin S}
<1> SUFFICES ASSUME T # {} PROVE FALSE
  OBVIOUS
<1>1. PICK x \in T : \A y \in T : ~ (<<y, x>> \in OpToRel(<, Nat))
  BY NatLessThanWellFounded, WFMin
<1>2. x # 0 /\ x \in Nat
  OBVIOUS
<1>3. x - 1 \in Nat /\ x - 1 < x
  BY <1>2
<1>4. <<x - 1, x>> \in OpToRel(<, Nat)
  BY <1>2, <1>3 DEF OpToRel
<1>5. x - 1 \in S
  BY <1>1, <1>3, <1>4
<1>6. x - 1 + 1 = x
  BY <1>2
<1> QED
  BY <1>3, <1>5, <1>6

LEMMA AppendFacts ==
  ASSUME NEW S, NEW s \in Seq(S), NEW e \in S
  PROVE  /\ Append(s, e) \in Seq(S) /\ Len(s) \in Nat
         /\ DOMAIN s = 1..Len(s) /\ DOMAIN Append(s, e) = 1..(Len(s) + 1)
         /\ \A i \in 1..Len(s) : Append(s, e)[i] = s[i]
         /\ Append(s, e)[Len(s) + 1] = e
OBVIOUS

LEMMA TailFacts ==
  ASSUME NEW S, NEW s \in Seq(S), s # <<>>
  PROVE  /\ Tail(s) \in Seq(S) /\ Len(s) \in Nat /\ Len(s) > 0
         /\ DOMAIN s = 1..Len(s) /\ DOMAIN Tail(s) = 1..(Len(s) - 1)
         /\ \A i \in 1..(Len(s) - 1) : Tail(s)[i] = s[i + 1]
         /\ Head(s) = s[1] /\ s[1] \in S
OBVIOUS

(* NotOf(q, p): step n of the definition.                                  *)
Kept(q, p, f, n) ==
  IF n = 0 THEN <<>> ELSE IF q[n].pid = p THEN f[n - 1] ELSE Append(f[n - 1], q[n])

LEMMA KeptExists ==
  ASSUME NEW q, NEW p
  PROVE  \A n \in Nat : \E f : f = [i \in 0..n |-> Kept(q, p, f, i)]
<1> DEFINE S == {n \in Nat : \E f : f = [i \in 0..n |-> Kept(q, p, f, i)]}
<1>1. 0 \in S
  <2> DEFINE f == [i \in 0..0 |-> <<>>]
  <2>1. f = [i \in 0..0 |-> Kept(q, p, f, i)]
    BY DEF Kept
  <2> QED
    BY <2>1
<1>2. ASSUME NEW n \in Nat, n \in S PROVE n + 1 \in S
  <2>1. PICK f : f = [i \in 0..n |-> Kept(q, p, f, i)]
    BY <1>2
  <2> DEFINE g == [i \in 0..(n + 1) |-> IF i = n + 1 THEN Kept(q, p, f, i) ELSE f[i]]
  <2>2. ASSUME NEW i \in 0..(n + 1) PROVE g[i] = Kept(q, p, g, i)
    <3>1. i # 0 => i - 1 \in 0..n /\ g[i - 1] = f[i - 1]
      OBVIOUS
    <3>2. Kept(q, p, g, i) = Kept(q, p, f, i)
      BY <3>1 DEF Kept
    <3>3. i # n + 1 => i \in 0..n /\ f[i] = Kept(q, p, f, i)
      BY <2>1
    <3> QED
      BY <3>2, <3>3
  <2>3. g = [i \in 0..(n + 1) |-> Kept(q, p, g, i)]
    BY <2>2
  <2> HIDE DEF g
  <2> QED
    BY <2>3
<1> HIDE DEF S
<1>3. \A n \in Nat : n \in S
  BY <1>1, <1>2, Induction
<1> QED
  BY <1>3 DEF S

(* r is what is left of the first n of q, in order.                        *)
Embeds(m, l, r, q, p, n) ==
  /\ m \in [1..l -> 1..n]
  /\ \A i \in 1..l : r[i] = q[m[i]] /\ q[m[i]].pid # p
  /\ \A i, j \in 1..l : i < j => m[i] < m[j]
  /\ \A k \in 1..n : q[k].pid # p => \E i \in 1..l : m[i] = k
LeftOf(r, q, p, n) == \E m : Embeds(m, Len(r), r, q, p, n)

LEMMA NotOfLeft ==
  ASSUME NEW X, NEW q \in Seq(X), NEW p
  PROVE  NotOf(q, p) \in Seq(X) /\ LeftOf(NotOf(q, p), q, p, Len(q))
<1> DEFINE f == CHOOSE f : f = [i \in 0..Len(q) |-> Kept(q, p, f, i)]
<1>1. Len(q) \in Nat
  OBVIOUS
<1>2. f = [i \in 0..Len(q) |-> Kept(q, p, f, i)]
  BY <1>1, KeptExists
<1>3. NotOf(q, p) = f[Len(q)]
  BY DEF NotOf, Kept
<1> HIDE DEF f
<1> DEFINE S == {n \in Nat : n <= Len(q) => f[n] \in Seq(X) /\ LeftOf(f[n], q, p, n)}
<1>4. 0 \in S
  <2>1. f[0] = <<>>
    BY <1>1, <1>2 DEF Kept
  <2> DEFINE m == [i \in 1..0 |-> 0]
  <2>2. m \in [1..0 -> 1..0] /\ 1..0 = {}
    OBVIOUS
  <2>3. <<>> \in Seq(X) /\ Len(<<>>) = 0
    OBVIOUS
  <2> HIDE DEF m
  <2>4. LeftOf(<<>>, q, p, 0)
    BY <2>2, <2>3 DEF LeftOf, Embeds
  <2> QED
    BY <2>1, <2>3, <2>4
<1>5. ASSUME NEW n \in Nat, n \in S PROVE n + 1 \in S
  <2> SUFFICES ASSUME n + 1 <= Len(q)
               PROVE  f[n + 1] \in Seq(X) /\ LeftOf(f[n + 1], q, p, n + 1)
    OBVIOUS
  <2>1. f[n] \in Seq(X) /\ LeftOf(f[n], q, p, n)
    BY <1>1, <1>5
  <2>2. f[n + 1] = IF q[n + 1].pid = p THEN f[n] ELSE Append(f[n], q[n + 1])
    <3>1. n + 1 \in 0..Len(q) /\ n + 1 - 1 = n /\ n + 1 # 0
      BY <1>1
    <3>2. f[n + 1] = Kept(q, p, f, n + 1)
      BY <1>2, <3>1
    <3> QED
      BY <3>1, <3>2 DEF Kept
  <2>3. PICK m :
          /\ m \in [1..Len(f[n]) -> 1..n]
          /\ \A i \in 1..Len(f[n]) : f[n][i] = q[m[i]] /\ q[m[i]].pid # p
          /\ \A i, j \in 1..Len(f[n]) : i < j => m[i] < m[j]
          /\ \A k \in 1..n : q[k].pid # p => \E i \in 1..Len(f[n]) : m[i] = k
    BY <2>1 DEF LeftOf, Embeds
  <2>4. CASE q[n + 1].pid = p
    <3>1. m \in [1..Len(f[n]) -> 1..(n + 1)]
      BY <2>3
    <3>2. \A k \in 1..(n + 1) : q[k].pid # p => k \in 1..n
      BY <2>4
    <3>3. Embeds(m, Len(f[n]), f[n], q, p, n + 1)
      BY <2>3, <3>1, <3>2 DEF Embeds
    <3> QED
      BY <2>1, <2>2, <2>4, <3>3 DEF LeftOf
  <2>5. CASE q[n + 1].pid # p
    <3> DEFINE r == Append(f[n], q[n + 1])
               l == Len(f[n])
               g == [i \in 1..(l + 1) |-> IF i = l + 1 THEN n + 1 ELSE m[i]]
    <3>1. q[n + 1] \in X
      BY <1>1
    <3>2. r \in Seq(X) /\ l \in Nat /\ Len(r) = l + 1 /\ r[l + 1] = q[n + 1] /\ \A i \in 1..l : r[i] = f[n][i]
      BY <2>1, <3>1
    <3> HIDE DEF l, r
    <3>3. g \in [1..(l + 1) -> 1..(n + 1)]
      BY <2>3, <3>2 DEF l
    <3>4. \A i \in 1..(l + 1) : r[i] = q[g[i]] /\ q[g[i]].pid # p
      BY <2>3, <2>5, <3>2 DEF l
    <3>5. \A i, j \in 1..(l + 1) : i < j => g[i] < g[j]
      <4> SUFFICES ASSUME NEW i \in 1..(l + 1), NEW j \in 1..(l + 1), i < j PROVE g[i] < g[j]
        OBVIOUS
      <4>1. i \in 1..l /\ i # l + 1 /\ m[i] \in 1..n
        <5>1. i \in 1..l /\ i # l + 1
          BY <3>2 DEF l
        <5> QED
          BY <2>3, <5>1 DEF l
      <4>2. j # l + 1 => j \in 1..l /\ m[i] < m[j]
        BY <2>3, <3>2, <4>1 DEF l
      <4> QED
        BY <4>1, <4>2
    <3>6. ASSUME NEW k \in 1..(n + 1), q[k].pid # p PROVE \E i \in 1..(l + 1) : g[i] = k
      <4>1. CASE k = n + 1
        BY <3>2, <4>1
      <4>2. CASE k # n + 1
        <5>1. PICK i \in 1..l : m[i] = k
          BY <2>3, <3>6, <4>2 DEF l
        <5> QED
          BY <3>2, <5>1
      <4> QED
        BY <4>1, <4>2
    <3> HIDE DEF g
    <3>7. LeftOf(r, q, p, n + 1)
      <4>1. \A k \in 1..(n + 1) : q[k].pid # p => \E i \in 1..(l + 1) : g[i] = k
        BY <3>6
      <4>2. Len(r) = l + 1
        BY <3>2
      <4> QED
        <5>1. Embeds(g, l + 1, r, q, p, n + 1)
          BY <3>3, <3>4, <3>5, <4>1 DEF Embeds
        <5> QED
          BY <4>2, <5>1 DEF LeftOf
    <3> QED
      BY <2>2, <2>5, <3>2, <3>7 DEF r
  <2> QED
    BY <2>4, <2>5
<1> HIDE DEF S
<1>6. \A n \in Nat : n \in S
  BY <1>4, <1>5, Induction
<1> QED
  BY <1>1, <1>3, <1>6 DEF S

In(s, e) == \E i \in DOMAIN s : s[i] = e
OnceIn(s, e) == \A i, j \in DOMAIN s : s[i] = e /\ s[j] = e => i = j

LEMMA NotOfFacts ==
  ASSUME NEW X, NEW q \in Seq(X), NEW p
  PROVE  /\ NotOf(q, p) \in Seq(X)
         /\ \A e : In(NotOf(q, p), e) <=> In(q, e) /\ e.pid # p
         /\ \A e : OnceIn(q, e) => OnceIn(NotOf(q, p), e)
         /\ q # <<>> /\ q[1].pid # p => NotOf(q, p) # <<>> /\ NotOf(q, p)[1] = q[1]
<1> DEFINE r == NotOf(q, p)
           l == Len(r)
           n == Len(q)
<1>1. r \in Seq(X) /\ LeftOf(r, q, p, n)
  BY NotOfLeft
<1>2. n \in Nat /\ DOMAIN q = 1..n /\ l \in Nat /\ DOMAIN r = 1..l
  BY <1>1
<1>3. (q # <<>> => n > 0) /\ (l > 0 => r # <<>>)
  BY <1>1
<1> HIDE DEF r, l, n
<1>4. PICK m : Embeds(m, l, r, q, p, n)
  BY <1>1 DEF LeftOf, l
<1>5. ASSUME NEW e PROVE In(r, e) <=> In(q, e) /\ e.pid # p
  <2>1. In(r, e) => In(q, e) /\ e.pid # p
    <3> SUFFICES ASSUME NEW i \in 1..l, r[i] = e PROVE In(q, e) /\ e.pid # p
      BY <1>2 DEF In
    <3>1. m[i] \in 1..n /\ r[i] = q[m[i]] /\ q[m[i]].pid # p
      BY <1>4 DEF Embeds
    <3> QED
      BY <1>2, <3>1 DEF In
  <2>2. In(q, e) /\ e.pid # p => In(r, e)
    <3> SUFFICES ASSUME NEW k \in 1..n, q[k] = e, e.pid # p PROVE In(r, e)
      BY <1>2 DEF In
    <3>1. PICK i \in 1..l : m[i] = k
      BY <1>4 DEF Embeds
    <3>2. r[i] = q[k]
      BY <1>4, <3>1 DEF Embeds
    <3> QED
      BY <1>2, <3>2 DEF In
  <2> QED
    BY <2>1, <2>2
<1>6. ASSUME NEW e, OnceIn(q, e) PROVE OnceIn(r, e)
  <2> SUFFICES ASSUME NEW i \in 1..l, NEW j \in 1..l, r[i] = e, r[j] = e, i < j PROVE FALSE
    BY <1>2 DEF OnceIn
  <2>1. m[i] \in 1..n /\ m[j] \in 1..n /\ q[m[i]] = e /\ q[m[j]] = e /\ m[i] < m[j]
    BY <1>4 DEF Embeds
  <2> QED
    BY <1>2, <1>6, <2>1 DEF OnceIn
<1>7. ASSUME q # <<>>, q[1].pid # p PROVE r # <<>> /\ r[1] = q[1]
  <2>1. 1 \in 1..n
    BY <1>2, <1>3, <1>7
  <2>2. PICK i \in 1..l : m[i] = 1
    BY <1>4, <1>7, <2>1 DEF Embeds
  <2>3. 1 \in 1..l /\ m[1] \in 1..n
    BY <1>2, <1>4, <2>2 DEF Embeds
  <2>4. i = 1
    <3> SUFFICES ASSUME 1 < i PROVE FALSE
      BY <2>2
    <3>1. m[1] < m[i]
      BY <1>4, <2>2, <2>3 DEF Embeds
    <3> QED
      BY <2>2, <2>3, <3>1
  <2> QED
    BY <1>2, <1>3, <1>4, <2>2, <2>3, <2>4 DEF Embeds
<1> QED
  BY <1>1, <1>5, <1>6, <1>7 DEF r

-----------------------------------------------------------------------------
(* Events and messages.                                                    *)

Messages == [type : {"notif", "reply", "OK", "E01"}, event : Event \cup {None}]

LEMMA EventFacts ==
  /\ \A t \in Thread : /\ Stopped(t) \in Event /\ Stopped(t) # None /\ t # None /\ Pid[t] \in Process
                       /\ Stopped(t).pid = Pid[t] /\ Stopped(t).thread = t
  /\ \A p \in Process : /\ Exited(p) \in Event /\ Exited(p) # None
                        /\ Exited(p).pid = p /\ Exited(p).thread = None
  /\ \A t, u \in Thread : Stopped(t) = Stopped(u) => t = u
  /\ \A p, r \in Process : Exited(p) = Exited(r) => p = r
  /\ \A t \in Thread, p \in Process : Stopped(t) # Exited(p)
  /\ \A e \in Event : (\E t \in Thread : e = Stopped(t)) \/ (\E p \in Process : e = Exited(p))
  /\ None \notin Event
BY StopNotifAssumption DEF Stopped, Exited, Event

LEMMA MessageFacts ==
  ASSUME NEW type \in {"notif", "reply", "OK", "E01"}, NEW e \in Event \cup {None}
  PROVE  /\ Message(type, e) \in Messages
         /\ Message(type, e).type = type /\ Message(type, e).event = e
BY DEF Message, Messages

(* What an append, and taking the first, does to what is on the way.       *)
LEMMA DownAppended ==
  ASSUME down \in Seq(Messages), NEW m \in Messages, down' = Append(down, m)
  PROVE  /\ down' \in Seq(Messages) /\ down' # <<>>
         /\ Len(down) \in Nat /\ DOMAIN down = 1..Len(down) /\ DOMAIN down' = 1..(Len(down) + 1)
         /\ \A i \in 1..Len(down) : down'[i] = down[i]
         /\ down'[Len(down) + 1] = m
BY AppendFacts

LEMMA DownTaken ==
  ASSUME down \in Seq(Messages), down # <<>>, down' = Tail(down)
  PROVE  /\ down' \in Seq(Messages)
         /\ Len(down) \in Nat \ {0} /\ DOMAIN down = 1..Len(down) /\ DOMAIN down' = 1..(Len(down) - 1)
         /\ \A i \in 1..(Len(down) - 1) : down'[i] = down[i + 1]
         /\ 1 \in DOMAIN down /\ down[1] = Head(down) /\ down[1] \in Messages
BY TailFacts

IsNotif(m) == m.type = "notif"

LEMMA PushFacts ==
  ASSUME down \in Seq(Messages), NEW q \in Seq(Event), NEW e \in Event, Push(q, e)
  PROVE  /\ queue' \in Seq(Event) /\ queue' # <<>>
         /\ Len(q) \in Nat /\ DOMAIN q = 1..Len(q) /\ DOMAIN queue' = 1..(Len(q) + 1)
         /\ \A i \in 1..Len(q) : queue'[i] = q[i]
         /\ queue'[Len(q) + 1] = e
         /\ q = <<>> <=> Len(q) = 0
         /\ down' \in Seq(Messages)
         /\ DOMAIN down \subseteq Nat \ {0}
         /\ q # <<>> => down' = down
         /\ \A i \in DOMAIN down : i \in DOMAIN down' /\ down'[i] = down[i]
         /\ \A i \in DOMAIN down' \ DOMAIN down :
              /\ q = <<>> /\ IsNotif(down'[i]) /\ down'[i].type = "notif" /\ down'[i].event = e
              /\ i = Len(down) + 1 /\ \A j \in DOMAIN down : j < i
         /\ q = <<>> => \E i \in DOMAIN down' : down'[i].event = e
<1>1. queue' = Append(q, e) /\ Len(q) \in Nat /\ (q = <<>> <=> Len(q) = 0) /\ queue' # <<>>
  BY DEF Push
<1> DEFINE m == Message("notif", e)
<1>2. m \in Messages /\ m.type = "notif" /\ m.event = e
  BY MessageFacts
<1>3. down' = IF q = <<>> THEN Append(down, m) ELSE down
  BY DEF Push
<1>4. /\ Len(down) \in Nat /\ DOMAIN down = 1..Len(down)
      /\ Append(down, m) \in Seq(Messages) /\ DOMAIN Append(down, m) = 1..(Len(down) + 1)
      /\ \A i \in 1..Len(down) : Append(down, m)[i] = down[i]
      /\ Append(down, m)[Len(down) + 1] = m
  BY <1>2, AppendFacts
<1> HIDE DEF m
<1>5. CASE q = <<>>
  <2>1. Len(down) + 1 \in DOMAIN down' /\ down'[Len(down) + 1].event = e
    BY <1>2, <1>3, <1>4, <1>5
  <2> QED
    BY <1>1, <1>2, <1>3, <1>4, <1>5, <2>1, AppendFacts DEF IsNotif
<1>6. CASE q # <<>>
  BY <1>1, <1>3, <1>4, <1>6, AppendFacts
<1> QED
  BY <1>5, <1>6

-----------------------------------------------------------------------------
(* The inductive invariant.                                                *)

(* Where an event is.                                                      *)
InDown(e) == \E i \in DOMAIN down : down[i].event = e
Noticed(e) == pending_event = e
Fetched(e) == In(stop_reply_queue, e)
Waits(e) == In(queue, e)
Seen(e) == InDown(e) \/ Noticed(e) \/ Fetched(e)

(* One request at a time, and one answer to it.                            *)
Link ==
  /\ request # NoRequest => awaited = request /\ \A i \in DOMAIN down : IsNotif(down[i])
  /\ \A i \in DOMAIN down :
       /\ ~IsNotif(down[i]) => awaited # NoRequest
       /\ down[i].type = "reply" => awaited.type = "vStopped"
       /\ down[i].type \in {"notif", "reply"} => down[i].event \in Event
       /\ down[i].type \in {"OK", "E01"} => down[i].event = None
  /\ \A i, j \in DOMAIN down : ~IsNotif(down[i]) /\ ~IsNotif(down[j]) => i = j
  /\ awaited.type = "none" => awaited = NoRequest
  /\ request.type = "none" => request = NoRequest
  /\ awaited.type = "vCont" => awaited.arg \subseteq Thread
  /\ awaited.type = "vKill" => \E p \in Process : awaited.arg = {p}

(* A thread whose stop is anywhere is not running, nor is it stopped for   *)
(* infrun; on either side its stop is in one place.                        *)
Told ==
  \A t \in Thread : Seen(Stopped(t)) \/ Waits(Stopped(t)) => state[t] # "running" /\ core[t] # "stopped"
QueuedOnce == \A t \in Thread : OnceIn(queue, Stopped(t))
SeenOnce ==
  \A t \in Thread :
    /\ OnceIn(stop_reply_queue, Stopped(t))
    /\ \A i, j \in DOMAIN down : down[i].event = Stopped(t) /\ down[j].event = Stopped(t) => i = j
    /\ ~(Fetched(Stopped(t)) /\ Noticed(Stopped(t)))
    /\ ~(Fetched(Stopped(t)) /\ InDown(Stopped(t)))
    /\ ~(Noticed(Stopped(t)) /\ InDown(Stopped(t)))

(* What gdb has seen and gdbserver still has is at the head, and a vStopped *)
(* that takes it off is under way as soon as gdb has fetched it.            *)
HeadSeen == \A t \in Thread : Seen(Stopped(t)) /\ Waits(Stopped(t)) => queue[1] = Stopped(t)
Underway == \A t \in Thread : Fetched(Stopped(t)) /\ Waits(Stopped(t)) => request.type = "vStopped"

(* A notification that gdb finds later than its last vStopped is of a stop *)
(* that gdbserver still has, and so is what it has seen when it resumes.   *)
Fresh ==
  \A t \in Thread : \A j \in DOMAIN down :
    /\ IsNotif(down[j]) /\ down[j].event = Stopped(t)
    /\ state[t] # "gone"
    /\ awaited.type # "vStopped" \/ \E i \in 1..(j - 1) : ~IsNotif(down[i])
    => Waits(Stopped(t))
ContSafe ==
  \A t \in Thread :
    request.type = "vCont" /\ t \in request.arg =>
      core[t] # "stopped" /\ (state[t] = "stopped" /\ Seen(Stopped(t)) => Waits(Stopped(t)))
RunsInBoth == \A t \in Thread : state[t] = "running" => core[t] = "running"

(* What is gone.                                                           *)
GoneOnBoth == \A t \in Thread : core[t] = "gone" => state[t] = "gone" /\ ~Seen(Stopped(t))
GoneNotQueued == \A t \in Thread : state[t] = "gone" => ~Waits(Stopped(t))
ExitedGone ==
  \A t \in Thread : Seen(Exited(Pid[t])) \/ Waits(Exited(Pid[t])) => state[t] = "gone"
KillAnswered ==
  \A t \in Thread : \A i \in DOMAIN down :
    awaited.type = "vKill" /\ down[i].type = "OK" /\ Pid[t] \in awaited.arg =>
      state[t] = "gone" /\ \A j \in DOMAIN down : i <= j => down[j].event # Stopped(t)

IInv ==
  /\ TypeOK /\ Link
  /\ Told /\ QueuedOnce /\ SeenOnce /\ HeadSeen /\ Underway
  /\ Fresh /\ ContSafe /\ RunsInBoth
  /\ GoneOnBoth /\ GoneNotQueued /\ ExitedGone /\ KillAnswered

LEMMA Typing ==
  ASSUME TypeOK
  PROVE  down \in Seq(Messages) /\ queue \in Seq(Event) /\ stop_reply_queue \in Seq(Event)
BY DEF TypeOK, Messages

LEMMA InitIInv == Init => IInv
<1> SUFFICES ASSUME Init PROVE IInv
  OBVIOUS
<1>1. TypeOK
  <2>1. NoRequest \in Packets
    BY DEF Packets, NoRequest
  <2>2. \A X : <<>> \in Seq(X)
    OBVIOUS
  <2> QED
    BY <2>1, <2>2 DEF Init, TypeOK
<1>2. \A e \in Event : ~Seen(e) /\ ~Waits(e)
  BY EventFacts DEF Init, Seen, InDown, Noticed, Fetched, Waits, In
<1>3. Link
  BY DEF Init, Link, NoRequest
<1>4. DOMAIN down = {} /\ DOMAIN queue = {} /\ DOMAIN stop_reply_queue = {}
  BY DEF Init
<1>5. Told /\ HeadSeen /\ Underway /\ GoneNotQueued
  BY <1>2, EventFacts DEF Told, HeadSeen, Underway, GoneNotQueued
<1>6. ExitedGone /\ RunsInBoth /\ GoneOnBoth /\ ContSafe
  BY <1>2, EventFacts DEF ExitedGone, RunsInBoth, GoneOnBoth, ContSafe, Init, NoRequest
<1>7. QueuedOnce /\ Fresh /\ KillAnswered
  BY <1>4 DEF QueuedOnce, Fresh, KillAnswered, OnceIn
<1>8. SeenOnce
  BY <1>2, <1>4, EventFacts DEF SeenOnce, OnceIn, Seen
<1> QED
  BY <1>1, <1>3, <1>5, <1>6, <1>7, <1>8 DEF IInv

LEMMA StopIInv == ASSUME IInv, NEW t \in Thread, Stop(t) PROVE IInv'
<1> DEFINE e == Stopped(t)
<1>1. /\ state[t] = "running" /\ state' = [state EXCEPT ![t] = "stopped"]
      /\ Push(queue, e)
      /\ request' = request /\ awaited' = awaited /\ pending_event' = pending_event
      /\ stop_reply_queue' = stop_reply_queue /\ core' = core /\ notified' = notified /\ token' = token
  BY DEF Stop, client
<1>2. e \in Event /\ down \in Seq(Messages) /\ queue \in Seq(Event)
  BY EventFacts, Typing DEF IInv
<1>3. /\ queue' \in Seq(Event) /\ Len(queue) \in Nat
      /\ DOMAIN queue = 1..Len(queue) /\ DOMAIN queue' = 1..(Len(queue) + 1)
      /\ \A i \in 1..Len(queue) : queue'[i] = queue[i]
      /\ queue'[Len(queue) + 1] = e
      /\ queue = <<>> <=> Len(queue) = 0
  BY <1>1, <1>2, PushFacts
<1>4. /\ down' \in Seq(Messages)
      /\ DOMAIN down \subseteq Nat \ {0}
      /\ \A i \in DOMAIN down : i \in DOMAIN down' /\ down'[i] = down[i]
      /\ \A i \in DOMAIN down' \ DOMAIN down :
              /\ queue = <<>> /\ IsNotif(down'[i]) /\ down'[i].type = "notif" /\ down'[i].event = e
              /\ i = Len(down) + 1 /\ \A j \in DOMAIN down : j < i
      /\ queue = <<>> => \E i \in DOMAIN down' : down'[i].event = e
  BY <1>1, <1>2, PushFacts
<1>5. state' \in [Thread -> {"running", "stopped", "gone"}]
      /\ \A u \in Thread : state'[u] = IF u = t THEN "stopped" ELSE state[u]
  BY <1>1 DEF IInv, TypeOK
<1>6. ~Seen(e) /\ ~Waits(e) /\ core[t] = "running"
  BY <1>1 DEF IInv, Told, RunsInBoth
<1>7. \A x : Waits(x)' <=> Waits(x) \/ x = e
  BY <1>3 DEF Waits, In
<1>8. \A x : InDown(x)' <=> InDown(x) \/ (queue = <<>> /\ x = e)
  BY <1>4 DEF InDown
<1>9. \A x : (Fetched(x)' <=> Fetched(x)) /\ (Noticed(x)' <=> Noticed(x))
  BY <1>1 DEF Fetched, Noticed
<1>10. \A x : Seen(x)' <=> Seen(x) \/ (queue = <<>> /\ x = e)
  BY <1>8, <1>9 DEF Seen
<1>11. \A u \in Thread : Stopped(u) = e => u = t
  BY EventFacts
<1> HIDE DEF e
<1>12. TypeOK'
  BY <1>1, <1>3, <1>4, <1>5 DEF IInv, TypeOK, Messages
<1>13. Link'
  BY <1>1, <1>2, <1>4 DEF IInv, Link, IsNotif
<1>14. Told' /\ RunsInBoth'
  BY <1>1, <1>5, <1>6, <1>7, <1>10, <1>11 DEF IInv, Told, RunsInBoth
<1>15. QueuedOnce'
  BY <1>3, <1>6, <1>11 DEF IInv, QueuedOnce, OnceIn, Waits, In
<1>16. SeenOnce'
  BY <1>1, <1>4, <1>6, <1>8, <1>9, <1>11 DEF IInv, SeenOnce, OnceIn, Seen, InDown
<1>17. HeadSeen'
  BY <1>3, <1>6, <1>7, <1>10, <1>11 DEF IInv, HeadSeen, Waits, In
<1>18. Underway'
  BY <1>1, <1>6, <1>7, <1>9, <1>11 DEF IInv, Underway, Seen
<1>19. Fresh'
  BY <1>1, <1>4, <1>5, <1>7, <1>11 DEF IInv, Fresh
<1>20. ContSafe'
  BY <1>1, <1>5, <1>6, <1>7, <1>10, <1>11 DEF IInv, ContSafe, e
<1>21. GoneOnBoth' /\ GoneNotQueued' /\ ExitedGone'
  BY <1>1, <1>5, <1>6, <1>7, <1>10, <1>11, EventFacts DEF IInv, GoneOnBoth, GoneNotQueued, ExitedGone, e
<1>22. KillAnswered'
  BY <1>1, <1>4, <1>5, <1>6, <1>11 DEF IInv, KillAnswered, e
<1> QED
  BY <1>12, <1>13, <1>14, <1>15, <1>16, <1>17, <1>18, <1>19, <1>20, <1>21, <1>22 DEF IInv

LEMMA ExitIInv == ASSUME IInv, NEW p \in Process, Exit(p) PROVE IInv'
<1> DEFINE e == Exited(p)
           q == NotOf(queue, p)
<1>1. /\ state' = [t \in Thread |-> IF Pid[t] = p THEN "gone" ELSE state[t]]
      /\ Push(q, e)
      /\ request' = request /\ awaited' = awaited /\ pending_event' = pending_event
      /\ stop_reply_queue' = stop_reply_queue /\ core' = core /\ notified' = notified /\ token' = token
  BY DEF Exit, client
<1>2. e \in Event /\ down \in Seq(Messages) /\ queue \in Seq(Event)
  BY EventFacts, Typing DEF IInv
<1>3. /\ q \in Seq(Event)
      /\ \A x : In(q, x) <=> In(queue, x) /\ x.pid # p
      /\ \A x : OnceIn(queue, x) => OnceIn(q, x)
      /\ queue # <<>> /\ queue[1].pid # p => q # <<>> /\ q[1] = queue[1]
  BY <1>2, NotOfFacts
<1> HIDE DEF q
<1>4. /\ queue' \in Seq(Event) /\ Len(q) \in Nat
      /\ DOMAIN q = 1..Len(q) /\ DOMAIN queue' = 1..(Len(q) + 1)
      /\ \A i \in 1..Len(q) : queue'[i] = q[i]
      /\ queue'[Len(q) + 1] = e
      /\ q = <<>> <=> Len(q) = 0
  BY <1>1, <1>2, <1>3, PushFacts
<1>5. /\ down' \in Seq(Messages)
      /\ DOMAIN down \subseteq Nat \ {0}
      /\ \A i \in DOMAIN down : i \in DOMAIN down' /\ down'[i] = down[i]
      /\ \A i \in DOMAIN down' \ DOMAIN down :
              /\ q = <<>> /\ IsNotif(down'[i]) /\ down'[i].type = "notif" /\ down'[i].event = e
              /\ i = Len(down) + 1 /\ \A j \in DOMAIN down : j < i
      /\ q = <<>> => \E i \in DOMAIN down' : down'[i].event = e
  BY <1>1, <1>2, <1>3, PushFacts
<1>6. state' \in [Thread -> {"running", "stopped", "gone"}]
      /\ \A u \in Thread : state'[u] = IF Pid[u] = p THEN "gone" ELSE state[u]
  BY <1>1 DEF IInv, TypeOK
<1>7. \A x : Waits(x)' <=> (Waits(x) /\ x.pid # p) \/ x = e
  <2>1. \A x : In(queue', x) <=> In(q, x) \/ x = e
    BY <1>4 DEF In
  <2> QED
    BY <1>3, <2>1 DEF Waits
<1>8. \A x : InDown(x)' <=> InDown(x) \/ (q = <<>> /\ x = e)
  BY <1>5 DEF InDown
<1>9. \A x : (Fetched(x)' <=> Fetched(x)) /\ (Noticed(x)' <=> Noticed(x))
  BY <1>1 DEF Fetched, Noticed
<1>10. \A x : Seen(x)' <=> Seen(x) \/ (q = <<>> /\ x = e)
  BY <1>8, <1>9 DEF Seen
<1>11. \A u \in Thread : /\ Stopped(u) # e /\ Stopped(u).pid = Pid[u] /\ Pid[u] \in Process
                         /\ Exited(Pid[u]) = e => Pid[u] = p
                         /\ Exited(Pid[u]).pid = Pid[u]
  BY EventFacts
<1> HIDE DEF e
<1>12. TypeOK'
  BY <1>1, <1>4, <1>5, <1>6 DEF IInv, TypeOK, Messages
<1>13. Link'
  BY <1>1, <1>2, <1>5 DEF IInv, Link, IsNotif
<1>14. Told' /\ RunsInBoth'
  BY <1>1, <1>6, <1>7, <1>10, <1>11 DEF IInv, Told, RunsInBoth
<1>15. QueuedOnce'
  <2>1. \A u \in Thread : OnceIn(q, Stopped(u))
    BY <1>3 DEF IInv, QueuedOnce
  <2> QED
    BY <1>4, <1>11, <2>1 DEF QueuedOnce, OnceIn
<1>16. SeenOnce'
  BY <1>1, <1>5, <1>8, <1>9, <1>11 DEF IInv, SeenOnce, OnceIn
<1>17. HeadSeen'
  <2> SUFFICES ASSUME NEW u \in Thread, Seen(Stopped(u))', Waits(Stopped(u))' PROVE queue'[1] = Stopped(u)
    BY DEF HeadSeen
  <2>1. Seen(Stopped(u)) /\ Waits(Stopped(u)) /\ Pid[u] # p
    BY <1>7, <1>10, <1>11
  <2>2. queue[1] = Stopped(u) /\ queue # <<>>
    BY <2>1, <1>2 DEF IInv, HeadSeen, Waits, In
  <2>3. q # <<>> /\ q[1] = Stopped(u)
    BY <1>3, <1>11, <2>1, <2>2
  <2> QED
    BY <1>4, <2>3
<1>18. Underway'
  BY <1>1, <1>7, <1>9, <1>11 DEF IInv, Underway
<1>19. Fresh'
  BY <1>1, <1>5, <1>6, <1>7, <1>11 DEF IInv, Fresh
<1>20. ContSafe'
  BY <1>1, <1>6, <1>7, <1>10, <1>11 DEF IInv, ContSafe
<1>21. GoneOnBoth' /\ GoneNotQueued' /\ ExitedGone'
  BY <1>1, <1>6, <1>7, <1>10, <1>11 DEF IInv, GoneOnBoth, GoneNotQueued, ExitedGone
<1>22. KillAnswered'
  BY <1>1, <1>5, <1>6, <1>11 DEF IInv, KillAnswered
<1> QED
  BY <1>12, <1>13, <1>14, <1>15, <1>16, <1>17, <1>18, <1>19, <1>20, <1>21, <1>22 DEF IInv

(* What an answer does.                                                    *)
LEMMA AnswerFacts ==
  ASSUME IInv, request # NoRequest,
         NEW type \in {"reply", "OK", "E01"}, NEW e \in Event \cup {None}, Answer(type, e)
  PROVE  /\ request' = NoRequest /\ awaited = request
         /\ down' \in Seq(Messages)
         /\ DOMAIN down \subseteq Nat \ {0}
         /\ \A i \in DOMAIN down : i \in DOMAIN down' /\ down'[i] = down[i] /\ IsNotif(down[i])
         /\ \A i \in DOMAIN down' \ DOMAIN down :
              /\ ~IsNotif(down'[i]) /\ down'[i].type = type /\ down'[i].event = e
              /\ i = Len(down) + 1 /\ \A j \in DOMAIN down : j < i
         /\ \A x : InDown(x)' <=> InDown(x) \/ x = e
<1> DEFINE m == Message(type, e)
<1>1. m \in Messages /\ m.type = type /\ m.event = e
  BY MessageFacts
<1>2. request' = NoRequest /\ down' = Append(down, m) /\ down \in Seq(Messages)
  BY Typing DEF Answer, IInv
<1> HIDE DEF m
<1>3. /\ Len(down) \in Nat /\ DOMAIN down = 1..Len(down)
      /\ down' \in Seq(Messages) /\ DOMAIN down' = 1..(Len(down) + 1)
      /\ \A i \in 1..Len(down) : down'[i] = down[i]
      /\ down'[Len(down) + 1] = m
  BY <1>1, <1>2, AppendFacts
<1>4. awaited = request /\ \A i \in DOMAIN down : IsNotif(down[i])
  BY DEF IInv, Link
<1>5. ~IsNotif(m)
  BY <1>1 DEF IsNotif
<1>6. \A x : InDown(x)' <=> InDown(x) \/ x = e
  BY <1>1, <1>3 DEF InDown
<1> QED
  BY <1>1, <1>2, <1>3, <1>4, <1>5, <1>6

LEMMA HandleContIInv == ASSUME IInv, HandleCont PROVE IInv'
<1>1. /\ request.type = "vCont"
      /\ state' = [t \in Thread |->
                 IF t \in request.arg /\ state[t] = "stopped" /\ ~Queued(t)
                 THEN "running" ELSE state[t]]
      /\ Answer("OK", None)
      /\ queue' = queue /\ awaited' = awaited /\ pending_event' = pending_event
      /\ stop_reply_queue' = stop_reply_queue /\ core' = core /\ notified' = notified /\ token' = token
  BY DEF HandleCont, client
<1>2. request # NoRequest /\ NoRequest.type = "none"
  BY <1>1 DEF NoRequest
<1>3. /\ request' = NoRequest /\ awaited = request
      /\ down' \in Seq(Messages)
      /\ DOMAIN down \subseteq Nat \ {0}
      /\ \A i \in DOMAIN down : i \in DOMAIN down' /\ down'[i] = down[i] /\ IsNotif(down[i])
      /\ \A i \in DOMAIN down' \ DOMAIN down :
           /\ ~IsNotif(down'[i]) /\ down'[i].type = "OK" /\ down'[i].event = None
           /\ i = Len(down) + 1 /\ \A j \in DOMAIN down : j < i
      /\ \A x : InDown(x)' <=> InDown(x) \/ x = None
  BY <1>1, <1>2, AnswerFacts
<1>4. \A t \in Thread : Queued(t) <=> Waits(Stopped(t))
  BY DEF Queued, Waits, In
<1>5. /\ state' \in [Thread -> {"running", "stopped", "gone"}]
      /\ \A t \in Thread : state'[t] = IF t \in request.arg /\ state[t] = "stopped" /\ ~Waits(Stopped(t))
                                       THEN "running" ELSE state[t]
  BY <1>1, <1>4 DEF IInv, TypeOK
<1>6. \A x : (Waits(x)' <=> Waits(x)) /\ (Fetched(x)' <=> Fetched(x)) /\ (Noticed(x)' <=> Noticed(x))
  BY <1>1 DEF Waits, Fetched, Noticed
<1>7. \A t \in Thread : Stopped(t) # None /\ Exited(Pid[t]) # None
  BY EventFacts
<1>8. \A t \in Thread : /\ InDown(Stopped(t))' <=> InDown(Stopped(t))
                        /\ Seen(Stopped(t))' <=> Seen(Stopped(t))
                        /\ Seen(Exited(Pid[t]))' <=> Seen(Exited(Pid[t]))
  BY <1>3, <1>6, <1>7 DEF Seen
<1>9. \A t \in Thread : state[t] # state'[t] =>
         /\ state[t] = "stopped" /\ state'[t] = "running"
         /\ ~Waits(Stopped(t)) /\ ~Seen(Stopped(t)) /\ core[t] = "running"
  BY <1>1, <1>5 DEF IInv, TypeOK, ContSafe, GoneOnBoth
<1>10. TypeOK'
  <2>1. NoRequest \in Packets
    BY DEF NoRequest, Packets
  <2> QED
    BY <1>1, <1>3, <1>5, <2>1 DEF IInv, TypeOK, Messages
<1>11. Link'
  BY <1>1, <1>2, <1>3 DEF IInv, Link, IsNotif
<1>12. Told' /\ RunsInBoth'
  BY <1>1, <1>6, <1>8, <1>9 DEF IInv, Told, RunsInBoth
<1>13. QueuedOnce'
  BY <1>1 DEF IInv, QueuedOnce, OnceIn
<1>14. SeenOnce'
  BY <1>1, <1>3, <1>6, <1>7, <1>8 DEF IInv, SeenOnce, OnceIn
<1>15. HeadSeen'
  BY <1>1, <1>6, <1>8 DEF IInv, HeadSeen
<1>16. Underway'
  BY <1>1, <1>2, <1>6 DEF IInv, Underway
<1>17. Fresh'
  BY <1>1, <1>3, <1>6, <1>9 DEF IInv, Fresh
<1>18. ContSafe'
  BY <1>2, <1>3 DEF ContSafe
<1>19. GoneOnBoth' /\ GoneNotQueued' /\ ExitedGone'
  BY <1>1, <1>6, <1>8, <1>9 DEF IInv, GoneOnBoth, GoneNotQueued, ExitedGone
<1>20. KillAnswered'
  BY <1>1, <1>3 DEF KillAnswered
<1> QED
  BY <1>10, <1>11, <1>12, <1>13, <1>14, <1>15, <1>16, <1>17, <1>18, <1>19, <1>20 DEF IInv

LEMMA HandleKillIInv == ASSUME IInv, HandleKill PROVE IInv'
<1>1. /\ request.type = "vKill"
      /\ awaited' = awaited /\ pending_event' = pending_event
      /\ stop_reply_queue' = stop_reply_queue /\ core' = core /\ notified' = notified /\ token' = token
  BY DEF HandleKill, client
<1>2. request # NoRequest /\ NoRequest.type = "none"
  BY <1>1 DEF NoRequest
<1>3. awaited = request
  BY <1>2 DEF IInv, Link
<1>4. PICK p \in Process : request.arg = {p}
  BY <1>1, <1>3 DEF IInv, Link
<1>5. queue \in Seq(Event)
  BY Typing DEF IInv
<1>6. PICK type \in {"OK", "E01"} :
         /\ Answer(type, None)
         /\ \/ /\ type = "E01" /\ state' = state /\ queue' = queue
               /\ \A t \in Thread : Pid[t] = p => state[t] = "gone"
            \/ /\ type = "OK" /\ queue' = NotOf(queue, p)
               /\ state' = [t \in Thread |-> IF Pid[t] = p THEN "gone" ELSE state[t]]
  BY <1>4 DEF HandleKill, server, ThreadsOf
<1>7. /\ request' = NoRequest
      /\ down' \in Seq(Messages)
      /\ DOMAIN down \subseteq Nat \ {0}
      /\ \A i \in DOMAIN down : i \in DOMAIN down' /\ down'[i] = down[i] /\ IsNotif(down[i])
      /\ \A i \in DOMAIN down' \ DOMAIN down :
           /\ ~IsNotif(down'[i]) /\ down'[i].type = type /\ down'[i].event = None
           /\ i = Len(down) + 1 /\ \A j \in DOMAIN down : j < i
      /\ \A x : InDown(x)' <=> InDown(x) \/ x = None
  <2>1. Answer(type, None)
    BY <1>6
  <2> QED
    BY <1>2, <2>1, AnswerFacts
<1>8. /\ queue' \in Seq(Event)
      /\ \A x : Waits(x)' => Waits(x)
      /\ \A x : OnceIn(queue, x) => OnceIn(queue', x)
      /\ \A t \in Thread : Waits(Stopped(t)) /\ Pid[t] # p => Waits(Stopped(t))'
      /\ queue # <<>> /\ queue[1].pid # p => queue' # <<>> /\ queue'[1] = queue[1]
  BY <1>5, <1>6, NotOfFacts, EventFacts DEF Waits
<1>9. /\ state' \in [Thread -> {"running", "stopped", "gone"}]
      /\ \A t \in Thread : state'[t] = IF Pid[t] = p THEN "gone" ELSE state[t]
  BY <1>6 DEF IInv, TypeOK
<1>10. \A t \in Thread : state'[t] = "gone" => ~Waits(Stopped(t))'
  <2>1. \A t \in Thread : state[t] = "gone" => ~Waits(Stopped(t))
    BY DEF IInv, GoneNotQueued
  <2>2. CASE type = "E01"
    BY <1>6, <1>8, <2>1, <2>2
  <2>3. CASE type = "OK"
    <3>1. \A t \in Thread : Waits(Stopped(t))' => Pid[t] # p
      BY <1>5, <1>6, <2>3, NotOfFacts, EventFacts DEF Waits
    <3> QED
      BY <1>8, <1>9, <2>1, <3>1
  <2> QED
    BY <2>2, <2>3
<1>11. \A x : (Fetched(x)' <=> Fetched(x)) /\ (Noticed(x)' <=> Noticed(x))
  BY <1>1 DEF Fetched, Noticed
<1>12. \A t \in Thread : Stopped(t) # None /\ Exited(Pid[t]) # None /\ Stopped(t).pid = Pid[t]
  BY EventFacts
<1>13. \A t \in Thread : /\ InDown(Stopped(t))' <=> InDown(Stopped(t))
                         /\ Seen(Stopped(t))' <=> Seen(Stopped(t))
                         /\ Seen(Exited(Pid[t]))' <=> Seen(Exited(Pid[t]))
  BY <1>7, <1>11, <1>12 DEF Seen
<1>14. TypeOK'
  <2>1. NoRequest \in Packets
    BY DEF NoRequest, Packets
  <2> QED
    BY <1>1, <1>7, <1>8, <1>9, <2>1 DEF IInv, TypeOK, Messages
<1>15. Link'
  BY <1>1, <1>2, <1>3, <1>7 DEF IInv, Link, IsNotif
<1>16. Told' /\ RunsInBoth'
  BY <1>1, <1>8, <1>9, <1>13 DEF IInv, Told, RunsInBoth
<1>17. QueuedOnce'
  BY <1>8 DEF IInv, QueuedOnce
<1>18. SeenOnce'
  BY <1>1, <1>7, <1>11, <1>12, <1>13 DEF IInv, SeenOnce, OnceIn
<1>19. HeadSeen'
  <2> SUFFICES ASSUME NEW t \in Thread, Seen(Stopped(t))', Waits(Stopped(t))' PROVE queue'[1] = Stopped(t)
    BY DEF HeadSeen
  <2>1. Seen(Stopped(t)) /\ Waits(Stopped(t)) /\ Pid[t] # p
    BY <1>8, <1>9, <1>10, <1>13
  <2>2. queue[1] = Stopped(t) /\ queue # <<>>
    BY <1>5, <2>1 DEF IInv, HeadSeen, Waits, In
  <2> QED
    BY <1>8, <1>12, <2>1, <2>2
<1>20. Underway'
  <2>1. \A t \in Thread : ~(Fetched(Stopped(t)) /\ Waits(Stopped(t)))
    BY <1>1 DEF IInv, Underway
  <2> QED
    BY <1>8, <1>11, <2>1 DEF Underway
<1>21. Fresh'
  BY <1>1, <1>3, <1>7, <1>8, <1>9 DEF IInv, Fresh
<1>22. ContSafe'
  BY <1>2, <1>7 DEF ContSafe
<1>23. GoneOnBoth' /\ GoneNotQueued' /\ ExitedGone'
  BY <1>1, <1>8, <1>9, <1>10, <1>13 DEF IInv, GoneOnBoth, GoneNotQueued, ExitedGone
<1>24. KillAnswered'
  BY <1>1, <1>3, <1>4, <1>7, <1>9, <1>12 DEF KillAnswered, IsNotif
<1> QED
  BY <1>14, <1>15, <1>16, <1>17, <1>18, <1>19, <1>20, <1>21, <1>22, <1>23, <1>24 DEF IInv

(* What leaves gdbserver's queue is its head.                               *)
LEMMA HandleAckFacts ==
  ASSUME IInv, HandleAck
  PROVE  /\ queue' \in Seq(Event)
         /\ queue' # <<>> => 1 \in DOMAIN queue' /\ Head(queue') = queue'[1] /\ queue'[1] \in Event
         /\ \A x : /\ Waits(x)' => Waits(x)
                   /\ Waits(x) /\ queue[1] # x => Waits(x)'
                   /\ OnceIn(queue, x) => OnceIn(queue', x)
                   /\ OnceIn(queue, x) /\ queue[1] = x => ~Waits(x)'
<1>1. queue \in Seq(Event)
  BY Typing DEF IInv
<1> DEFINE n == Len(queue)
           l == Len(queue')
<1>2. /\ queue' \in Seq(Event) /\ n \in Nat /\ l \in Nat
      /\ DOMAIN queue = 1..n /\ DOMAIN queue' = 1..l
      /\ n > 0 => l = n - 1
      /\ n = 0 => l = 0
      /\ queue # <<>> => n > 0
      /\ queue' # <<>> => 1 \in DOMAIN queue' /\ Head(queue') = queue'[1] /\ queue'[1] \in Event
  <2>1. CASE queue = <<>>
    BY <1>1, <2>1 DEF HandleAck
  <2>2. CASE queue # <<>>
    <3>1. queue' = Tail(queue)
      BY <2>2 DEF HandleAck
    <3>2. /\ queue' \in Seq(Event) /\ n \in Nat /\ n > 0 /\ l = n - 1
          /\ DOMAIN queue = 1..n /\ DOMAIN queue' = 1..l
      BY <1>1, <2>2, <3>1
    <3>3. queue' # <<>> => 1 \in DOMAIN queue' /\ Head(queue') = queue'[1] /\ queue'[1] \in Event
      BY <3>2, TailFacts
    <3> QED
      BY <2>2, <3>2, <3>3
  <2> QED
    BY <2>1, <2>2
<1>3. \A i \in 1..l : i + 1 \in 1..n /\ queue'[i] = queue[i + 1]
  <2>1. CASE queue = <<>>
    BY <1>2, <2>1 DEF HandleAck
  <2>2. CASE queue # <<>>
    <3>1. queue' = Tail(queue)
      BY <2>2 DEF HandleAck
    <3>2. \A i \in 1..(n - 1) : queue'[i] = queue[i + 1]
      BY <1>1, <2>2, <3>1, TailFacts
    <3> QED
      BY <1>2, <2>2, <3>2
  <2> QED
    BY <2>1, <2>2
<1> HIDE DEF n, l
<1>4. \A x : /\ Waits(x)' => Waits(x)
             /\ Waits(x) /\ queue[1] # x => Waits(x)'
             /\ OnceIn(queue, x) => OnceIn(queue', x)
             /\ OnceIn(queue, x) /\ queue[1] = x => ~Waits(x)'
  <2> SUFFICES ASSUME NEW x
               PROVE  /\ Waits(x)' => Waits(x)
                      /\ Waits(x) /\ queue[1] # x => Waits(x)'
                      /\ OnceIn(queue, x) => OnceIn(queue', x)
                      /\ OnceIn(queue, x) /\ queue[1] = x => ~Waits(x)'
    OBVIOUS
  <2>1. Waits(x)' => Waits(x)
    BY <1>2, <1>3 DEF Waits, In
  <2>2. Waits(x) /\ queue[1] # x => Waits(x)'
    <3> SUFFICES ASSUME NEW k \in 1..n, queue[k] = x, k # 1 PROVE Waits(x)'
      BY <1>2 DEF Waits, In
    <3>1. k - 1 \in 1..l /\ k - 1 + 1 = k
      BY <1>2
    <3>2. queue'[k - 1] = x
      BY <1>3, <3>1
    <3> QED
      BY <1>2, <3>1, <3>2 DEF Waits, In
  <2>3. OnceIn(queue, x) => OnceIn(queue', x)
    <3> SUFFICES ASSUME OnceIn(queue, x), NEW i \in 1..l, NEW j \in 1..l,
                        queue'[i] = x, queue'[j] = x
                 PROVE  i = j
      BY <1>2 DEF OnceIn
    <3>1. i + 1 = j + 1
      BY <1>2, <1>3 DEF OnceIn
    <3> QED
      BY <3>1
  <2>4. OnceIn(queue, x) /\ queue[1] = x => ~Waits(x)'
    <3> SUFFICES ASSUME OnceIn(queue, x), queue[1] = x, NEW i \in 1..l, queue'[i] = x PROVE FALSE
      BY <1>2 DEF Waits, In
    <3>1. i + 1 \in 1..n /\ queue[i + 1] = x /\ 1 \in 1..n /\ i + 1 # 1
      <4>1. i + 1 \in 1..n /\ queue[i + 1] = x
        BY <1>3
      <4> QED
        BY <1>2, <4>1
    <3> QED
      BY <1>2, <3>1 DEF OnceIn
  <2> QED
    BY <2>1, <2>2, <2>3, <2>4
<1> QED
  BY <1>2, <1>4

LEMMA HandleAckIInv == ASSUME IInv, HandleAck PROVE IInv'
<1>1. /\ request.type = "vStopped" /\ state' = state
      /\ awaited' = awaited /\ pending_event' = pending_event
      /\ stop_reply_queue' = stop_reply_queue /\ core' = core /\ notified' = notified /\ token' = token
  BY DEF HandleAck, client
<1>2. request # NoRequest /\ NoRequest.type = "none"
  BY <1>1 DEF NoRequest
<1>3. awaited = request
  BY <1>2 DEF IInv, Link
<1>4. queue \in Seq(Event)
  BY Typing DEF IInv
<1>5. /\ queue' \in Seq(Event)
      /\ queue' # <<>> => 1 \in DOMAIN queue' /\ Head(queue') = queue'[1] /\ queue'[1] \in Event
  BY HandleAckFacts
<1>6. PICK type \in {"reply", "OK"}, e \in Event \cup {None} :
         /\ Answer(type, e)
         /\ type = "OK" => e = None
         /\ type = "reply" => e \in Event /\ queue' # <<>> /\ queue'[1] = e
  <2>1. CASE queue' = <<>>
    BY <2>1 DEF HandleAck
  <2>2. CASE queue' # <<>>
    <3>1. Answer("reply", queue'[1])
      BY <1>5, <2>2 DEF HandleAck
    <3> QED
      BY <1>5, <2>2, <3>1
  <2> QED
    BY <2>1, <2>2
<1>7. /\ request' = NoRequest
      /\ down' \in Seq(Messages)
      /\ DOMAIN down \subseteq Nat \ {0}
      /\ \A i \in DOMAIN down : i \in DOMAIN down' /\ down'[i] = down[i] /\ IsNotif(down[i])
      /\ \A i \in DOMAIN down' \ DOMAIN down :
           /\ ~IsNotif(down'[i]) /\ down'[i].type = type /\ down'[i].event = e
           /\ i = Len(down) + 1 /\ \A j \in DOMAIN down : j < i
      /\ \A x : InDown(x)' <=> InDown(x) \/ x = e
  <2>1. Answer(type, e) /\ type \in {"reply", "OK", "E01"}
    BY <1>6
  <2> QED
    BY <1>2, <2>1, AnswerFacts
<1>8. \A x : /\ Waits(x)' => Waits(x)
             /\ Waits(x) /\ queue[1] # x => Waits(x)'
             /\ OnceIn(queue, x) => OnceIn(queue', x)
             /\ OnceIn(queue, x) /\ queue[1] = x => ~Waits(x)'
  BY HandleAckFacts
(* What is replied was not at the head before.                             *)
<1>9. \A t \in Thread : Stopped(t) = e => Waits(Stopped(t)) /\ queue[1] # Stopped(t) /\ ~Seen(Stopped(t))
  <2> SUFFICES ASSUME NEW t \in Thread, Stopped(t) = e
               PROVE  Waits(Stopped(t)) /\ queue[1] # Stopped(t) /\ ~Seen(Stopped(t))
    OBVIOUS
  <2>1. queue' # <<>> /\ queue'[1] = e
    BY <1>6, EventFacts
  <2>2. Waits(e)'
    BY <1>5, <2>1 DEF Waits, In
  <2>3. OnceIn(queue, Stopped(t))
    BY DEF IInv, QueuedOnce
  <2> QED
    BY <1>8, <2>2, <2>3 DEF IInv, HeadSeen
<1>10. \A x : (Fetched(x)' <=> Fetched(x)) /\ (Noticed(x)' <=> Noticed(x))
  BY <1>1 DEF Fetched, Noticed
<1>11. \A x : Seen(x)' <=> Seen(x) \/ x = e
  BY <1>7, <1>10 DEF Seen
<1>12. TypeOK'
  <2>1. NoRequest \in Packets
    BY DEF NoRequest, Packets
  <2> QED
    BY <1>1, <1>5, <1>7, <2>1 DEF IInv, TypeOK, Messages
<1>13. Link'
  BY <1>1, <1>2, <1>3, <1>6, <1>7, EventFacts DEF IInv, Link, IsNotif
<1>14. Told' /\ RunsInBoth'
  BY <1>1, <1>8, <1>9, <1>11 DEF IInv, Told, RunsInBoth
<1>15. QueuedOnce'
  BY <1>8 DEF IInv, QueuedOnce
<1>16. SeenOnce'
  BY <1>1, <1>7, <1>9, <1>10 DEF IInv, SeenOnce, OnceIn, Seen, InDown
<1>17. HeadSeen'
  <2> SUFFICES ASSUME NEW t \in Thread, Seen(Stopped(t))', Waits(Stopped(t))' PROVE queue'[1] = Stopped(t)
    BY DEF HeadSeen
  <2>1. OnceIn(queue, Stopped(t)) /\ Waits(Stopped(t))
    BY <1>8 DEF IInv, QueuedOnce
  <2>2. ~Seen(Stopped(t))
    BY <1>8, <2>1 DEF IInv, HeadSeen
  <2>3. Stopped(t) = e
    BY <1>11, <2>2
  <2> QED
    BY <1>6, <2>3, EventFacts
<1>18. Underway'
  <2> SUFFICES ASSUME NEW t \in Thread, Fetched(Stopped(t))', Waits(Stopped(t))' PROVE FALSE
    BY DEF Underway
  <2>1. Fetched(Stopped(t)) /\ Waits(Stopped(t)) /\ OnceIn(queue, Stopped(t))
    BY <1>8, <1>10 DEF IInv, QueuedOnce
  <2>2. queue[1] = Stopped(t)
    BY <2>1 DEF IInv, HeadSeen, Seen
  <2> QED
    BY <1>8, <2>1, <2>2
<1>19. Fresh'
  BY <1>1, <1>3, <1>7 DEF Fresh
<1>20. ContSafe'
  BY <1>2, <1>7 DEF ContSafe
<1>21. GoneOnBoth' /\ GoneNotQueued' /\ ExitedGone'
  <2>1. \A t \in Thread : Exited(Pid[t]) = e => Waits(Exited(Pid[t]))
    <3> SUFFICES ASSUME NEW t \in Thread, Exited(Pid[t]) = e PROVE Waits(e)
      OBVIOUS
    <3>1. queue' # <<>> /\ queue'[1] = e
      BY <1>6, EventFacts
    <3>2. Waits(e)'
      BY <1>5, <3>1 DEF Waits, In
    <3> QED
      BY <1>8, <3>2
  <2> QED
    BY <1>1, <1>8, <1>9, <1>11, <2>1 DEF IInv, GoneOnBoth, GoneNotQueued, ExitedGone
<1>22. KillAnswered'
  BY <1>1, <1>3 DEF KillAnswered
<1> QED
  BY <1>12, <1>13, <1>14, <1>15, <1>16, <1>17, <1>18, <1>19, <1>20, <1>21, <1>22 DEF IInv

(* What taking a message does.                                             *)
LEMMA TakeFacts ==
  ASSUME IInv, down # <<>>, down' = Tail(down)
  PROVE  /\ down' \in Seq(Messages)
         /\ DOMAIN down \subseteq Nat \ {0} /\ DOMAIN down' \subseteq Nat \ {0}
         /\ 1 \in DOMAIN down /\ Head(down) = down[1]
         /\ \A i \in DOMAIN down' : i + 1 \in DOMAIN down /\ down'[i] = down[i + 1]
         /\ \A x : InDown(x)' => InDown(x)
         /\ \A x : InDown(x) /\ x # down[1].event => InDown(x)'
         /\ \A t \in Thread : Stopped(t) = down[1].event => ~InDown(Stopped(t))'
<1>1. down \in Seq(Messages)
  BY Typing DEF IInv
<1>2. /\ down' \in Seq(Messages)
      /\ Len(down) \in Nat \ {0} /\ DOMAIN down = 1..Len(down) /\ DOMAIN down' = 1..(Len(down) - 1)
      /\ \A i \in 1..(Len(down) - 1) : down'[i] = down[i + 1]
      /\ 1 \in DOMAIN down /\ down[1] = Head(down)
  BY <1>1, DownTaken
<1>3. ASSUME NEW x, InDown(x), x # down[1].event PROVE InDown(x)'
  <2>1. PICK i \in 1..Len(down) : down[i].event = x
    BY <1>2, <1>3 DEF InDown
  <2>2. i # 1
    BY <1>3, <2>1
  <2>3. i - 1 \in 1..(Len(down) - 1) /\ i - 1 + 1 = i
    BY <1>2, <2>2
  <2>4. down'[i - 1].event = x
    BY <1>2, <2>1, <2>3
  <2> QED
    BY <1>2, <2>3, <2>4 DEF InDown
<1>4. ASSUME NEW t \in Thread, Stopped(t) = down[1].event, InDown(Stopped(t))' PROVE FALSE
  <2>1. PICK i \in 1..(Len(down) - 1) : down'[i].event = Stopped(t)
    BY <1>2, <1>4 DEF InDown
  <2>2. i + 1 \in DOMAIN down /\ down[i + 1].event = Stopped(t) /\ i + 1 # 1
    BY <1>2, <2>1
  <2> QED
    BY <1>2, <1>4, <2>2 DEF IInv, SeenOnce
<1>5. ASSUME NEW x, InDown(x)' PROVE InDown(x)
  BY <1>2, <1>5 DEF InDown
<1> QED
  BY <1>2, <1>3, <1>4, <1>5

LEMMA ReadNotificationIInv == ASSUME IInv, ReadNotification PROVE IInv'
<1> DEFINE e == down[1].event
<1>1. /\ down # <<>> /\ Head(down).type = "notif" /\ awaited # NoRequest
      /\ down' = Tail(down) /\ Notice(Head(down).event)
      /\ state' = state /\ queue' = queue /\ request' = request /\ awaited' = awaited
      /\ stop_reply_queue' = stop_reply_queue /\ token' = token /\ core' = core
  BY DEF ReadNotification, Idle, server
<1>2. /\ down' \in Seq(Messages)
      /\ DOMAIN down \subseteq Nat \ {0} /\ DOMAIN down' \subseteq Nat \ {0}
      /\ 1 \in DOMAIN down /\ Head(down) = down[1]
      /\ \A i \in DOMAIN down' : i + 1 \in DOMAIN down /\ down'[i] = down[i + 1]
  BY <1>1, TakeFacts
<1>3. /\ \A x : InDown(x)' => InDown(x)
      /\ \A t \in Thread : Stopped(t) = e => ~InDown(Stopped(t))'
  BY <1>1, TakeFacts
<1>4. e \in Event /\ InDown(e)
  BY <1>1, <1>2 DEF IInv, Link, InDown
<1>5. \/ pending_event = None /\ pending_event' = e /\ notified' = TRUE
      \/ pending_event' = pending_event /\ notified' = notified
  BY <1>1, <1>2 DEF Notice
<1> HIDE DEF e
<1>6. \A x : Noticed(x)' => Noticed(x) \/ x = e
  BY <1>5 DEF Noticed
<1>7. \A x : (Waits(x)' <=> Waits(x)) /\ (Fetched(x)' <=> Fetched(x))
  BY <1>1 DEF Waits, Fetched
<1>8. \A x : Seen(x)' => Seen(x)
  BY <1>3, <1>4, <1>6, <1>7 DEF Seen
<1>9. TypeOK'
  BY <1>1, <1>2, <1>4, <1>5 DEF IInv, TypeOK, Messages
<1>10. Link'
  <2>1. \A i, j \in DOMAIN down' : i + 1 = j + 1 => i = j
    BY <1>2
  <2> QED
    BY <1>1, <1>2, <2>1 DEF IInv, Link
<1>11. Told' /\ RunsInBoth'
  BY <1>1, <1>7, <1>8 DEF IInv, Told, RunsInBoth
<1>12. QueuedOnce'
  BY <1>1 DEF IInv, QueuedOnce, OnceIn
<1>13. SeenOnce'
  <2>1. \A t \in Thread : \A i, j \in DOMAIN down' :
          down'[i].event = Stopped(t) /\ down'[j].event = Stopped(t) => i = j
    <3> SUFFICES ASSUME NEW t \in Thread, NEW i \in DOMAIN down', NEW j \in DOMAIN down',
                        down'[i].event = Stopped(t), down'[j].event = Stopped(t)
                 PROVE  i = j
      OBVIOUS
    <3>1. i + 1 = j + 1
      BY <1>2 DEF IInv, SeenOnce
    <3> QED
      BY <1>2, <3>1
  <2> QED
    BY <1>1, <1>3, <1>4, <1>6, <1>7, <2>1 DEF IInv, SeenOnce, OnceIn
<1>14. HeadSeen' /\ Underway'
  BY <1>1, <1>7, <1>8 DEF IInv, HeadSeen, Underway
<1>15. Fresh'
  <2> SUFFICES ASSUME NEW t \in Thread, NEW j \in DOMAIN down',
                      IsNotif(down'[j]), down'[j].event = Stopped(t), state[t] # "gone",
                      awaited.type # "vStopped" \/ \E i \in 1..(j - 1) : ~IsNotif(down'[i])
               PROVE  Waits(Stopped(t))
    BY <1>1, <1>7 DEF Fresh
  <2>1. j + 1 \in DOMAIN down /\ IsNotif(down[j + 1]) /\ down[j + 1].event = Stopped(t)
    BY <1>2
  <2>2. ASSUME NEW i \in 1..(j - 1), ~IsNotif(down'[i])
        PROVE  i + 1 \in 1..((j + 1) - 1) /\ ~IsNotif(down[i + 1])
    <3>1. j \in Nat /\ DOMAIN down' = 1..Len(down') /\ Len(down') \in Nat
      BY <1>2
    <3>2. i \in DOMAIN down'
      BY <3>1
    <3> QED
      BY <1>2, <2>2, <3>1, <3>2
  <2>3. awaited.type # "vStopped" \/ \E k \in 1..((j + 1) - 1) : ~IsNotif(down[k])
    BY <2>2
  <2> DEFINE m == j + 1
  <2>4. m \in DOMAIN down /\ IsNotif(down[m]) /\ down[m].event = Stopped(t)
    BY <2>1
  <2>5. awaited.type # "vStopped" \/ \E k \in 1..(m - 1) : ~IsNotif(down[k])
    BY <2>3
  <2> HIDE DEF m
  <2> QED
    BY <2>4, <2>5 DEF IInv, Fresh
<1>16. ContSafe'
  BY <1>1, <1>7, <1>8 DEF IInv, ContSafe
<1>17. GoneOnBoth' /\ GoneNotQueued' /\ ExitedGone'
  BY <1>1, <1>7, <1>8 DEF IInv, GoneOnBoth, GoneNotQueued, ExitedGone
<1>18. KillAnswered'
  <2>1. \A i, j \in DOMAIN down' : i <= j => i + 1 <= j + 1
    BY <1>2
  <2> QED
    BY <1>1, <1>2, <2>1 DEF IInv, KillAnswered
<1> QED
  BY <1>9, <1>10, <1>11, <1>12, <1>13, <1>14, <1>15, <1>16, <1>17, <1>18 DEF IInv

LEMMA ProcessNotificationsIInv == ASSUME IInv, ProcessNotifications PROVE IInv'
<1>1. /\ state' = state /\ queue' = queue /\ request' = request /\ down' = down /\ awaited' = awaited
      /\ pending_event' = pending_event /\ stop_reply_queue' = stop_reply_queue /\ core' = core
      /\ notified' = FALSE /\ token' = TRUE
  BY DEF ProcessNotifications, server, link
<1>2. \A x : (Waits(x)' <=> Waits(x)) /\ (Seen(x)' <=> Seen(x)) /\ (Fetched(x)' <=> Fetched(x))
             /\ (InDown(x)' <=> InDown(x)) /\ (Noticed(x)' <=> Noticed(x))
  BY <1>1 DEF Waits, Seen, InDown, Noticed, Fetched
<1>3. TypeOK' /\ Link'
  BY <1>1 DEF IInv, TypeOK, Link
<1>4. Told' /\ QueuedOnce' /\ SeenOnce' /\ HeadSeen' /\ Underway'
  BY <1>1, <1>2 DEF IInv, Told, QueuedOnce, SeenOnce, HeadSeen, Underway, OnceIn
<1>5. Fresh' /\ ContSafe' /\ RunsInBoth'
  BY <1>1, <1>2 DEF IInv, Fresh, ContSafe, RunsInBoth
<1>6. GoneOnBoth' /\ GoneNotQueued' /\ ExitedGone' /\ KillAnswered'
  BY <1>1, <1>2 DEF IInv, GoneOnBoth, GoneNotQueued, ExitedGone, KillAnswered
<1> QED
  BY <1>3, <1>4, <1>5, <1>6 DEF IInv

(* An event is fetched: the one that was noticed, or the one at the head   *)
(* of what is on the way.                                                  *)
LEMMA AcknowledgeIInv ==
  ASSUME IInv, NEW f \in Event, Acknowledge(f),
         \/ f = pending_event /\ pending_event' = None
         \/ f = down[1].event /\ down # <<>> /\ down' = Tail(down),
         down' = down \/ (down # <<>> /\ down' = Tail(down)),
         pending_event' \in {None, pending_event},
         \A i \in DOMAIN down' : IsNotif(down'[i]),
         state' = state, queue' = queue, core' = core, notified' \in BOOLEAN
  PROVE  IInv'
<1> DEFINE ack == Packet("vStopped", {})
<1>1. request' = ack /\ awaited' = ack /\ stop_reply_queue' = Append(stop_reply_queue, f) /\ token' = TRUE
  BY DEF Acknowledge, Send
<1>2. ack.type = "vStopped" /\ ack # NoRequest /\ ack \in Packets
  BY DEF Packet, NoRequest, Packets
<1> HIDE DEF ack
<1>3. /\ stop_reply_queue' \in Seq(Event)
      /\ \A x : In(stop_reply_queue', x) <=> In(stop_reply_queue, x) \/ x = f
      /\ \A x : OnceIn(stop_reply_queue, x) /\ (x = f => ~In(stop_reply_queue, x)) => OnceIn(stop_reply_queue', x)
  <2> DEFINE q == stop_reply_queue
             n == Len(q)
  <2>1. q \in Seq(Event)
    BY Typing DEF IInv
  <2>2. /\ q' \in Seq(Event) /\ n \in Nat /\ DOMAIN q = 1..n /\ DOMAIN q' = 1..(n + 1)
        /\ \A i \in 1..n : q'[i] = q[i]
        /\ q'[n + 1] = f
    BY <1>1, <2>1, AppendFacts
  <2> HIDE DEF q, n
  <2>3. \A x : In(q', x) <=> In(q, x) \/ x = f
    BY <2>2 DEF In
  <2>4. \A x : OnceIn(q, x) /\ (x = f => ~In(q, x)) => OnceIn(q', x)
    BY <2>2 DEF OnceIn, In
  <2> QED
    BY <2>2, <2>3, <2>4 DEF q
<1>4. /\ down' \in Seq(Messages)
      /\ DOMAIN down \subseteq Nat \ {0} /\ DOMAIN down' \subseteq Nat \ {0}
      /\ \A x : InDown(x)' => InDown(x)
      /\ down' # down => \A t \in Thread : Stopped(t) = down[1].event => ~InDown(Stopped(t))'
      /\ down' # down => 1 \in DOMAIN down
  <2>1. CASE down' = down
    <3>1. down \in Seq(Messages)
      BY Typing DEF IInv
    <3>2. DOMAIN down \subseteq Nat \ {0}
      BY <3>1
    <3> QED
      BY <2>1, <3>1, <3>2 DEF InDown
  <2>2. CASE down # <<>> /\ down' = Tail(down)
    BY <2>2, TakeFacts
  <2> QED
    BY <2>1, <2>2
<1>5. \A x : Fetched(x)' <=> Fetched(x) \/ x = f
  BY <1>3 DEF Fetched
<1>6. \A x \in Event : Noticed(x)' => Noticed(x)
  BY EventFacts DEF Noticed
<1>7. \A x : Waits(x)' <=> Waits(x)
  BY DEF Waits
<1>8. \/ Noticed(f) /\ ~Noticed(f)'
      \/ f = down[1].event /\ down # <<>> /\ down' = Tail(down) /\ InDown(f)
  <2>1. CASE f = pending_event /\ pending_event' = None
    BY <2>1, EventFacts DEF Noticed
  <2>2. CASE f = down[1].event /\ down # <<>> /\ down' = Tail(down)
    BY <2>2, TakeFacts DEF InDown
  <2> QED
    BY <2>1, <2>2
<1>9. \A x \in Event : Seen(x)' => Seen(x)
  BY <1>4, <1>5, <1>6, <1>8 DEF Seen
<1>10. \A t \in Thread : Stopped(t) \in Event /\ Exited(Pid[t]) \in Event
  BY EventFacts
(* It is in no other place of gdb's side.                                  *)
<1>11. \A t \in Thread : Stopped(t) = f => ~Fetched(f) /\ ~InDown(f)' /\ ~Noticed(f)'
  <2> SUFFICES ASSUME NEW t \in Thread, Stopped(t) = f PROVE ~Fetched(f) /\ ~InDown(f)' /\ ~Noticed(f)'
    OBVIOUS
  <2>1. CASE Noticed(f) /\ ~Noticed(f)'
    BY <1>4, <2>1 DEF IInv, SeenOnce
  <2>2. CASE f = down[1].event /\ down # <<>> /\ down' = Tail(down) /\ InDown(f)
    <3>1. ~InDown(f)'
      BY <2>2, TakeFacts
    <3>2. ~Fetched(f) /\ ~Noticed(f)
      BY <2>2 DEF IInv, SeenOnce
    <3> QED
      BY <1>6, <3>1, <3>2
  <2> QED
    BY <1>8, <2>1, <2>2
<1>12. TypeOK'
  BY <1>1, <1>2, <1>3, <1>4 DEF IInv, TypeOK, Messages
<1>13. Link'
  <2>1. \A i \in DOMAIN down' : down'[i].event \in Event /\ down'[i].type = "notif"
    <3> SUFFICES ASSUME NEW i \in DOMAIN down' PROVE down'[i].event \in Event /\ down'[i].type = "notif"
      OBVIOUS
    <3>1. down'[i].type = "notif"
      BY DEF IsNotif
    <3>2. CASE down' = down
      BY <3>1, <3>2 DEF IInv, Link
    <3>3. CASE down # <<>> /\ down' = Tail(down)
      <4>1. i + 1 \in DOMAIN down /\ down'[i] = down[i + 1]
        BY <3>3, TakeFacts
      <4> QED
        BY <3>1, <4>1 DEF IInv, Link
    <3> QED
      BY <3>1, <3>2, <3>3
  <2> QED
    BY <1>1, <1>2, <2>1 DEF Link, IsNotif
<1>14. Told' /\ RunsInBoth'
  BY <1>7, <1>9, <1>10 DEF IInv, Told, RunsInBoth
<1>15. QueuedOnce'
  BY DEF IInv, QueuedOnce, OnceIn
<1>16. SeenOnce'
  <2>1. \A t \in Thread : OnceIn(stop_reply_queue', Stopped(t))
    BY <1>3, <1>11 DEF IInv, SeenOnce, Fetched
  <2>2. \A t \in Thread : \A i, j \in DOMAIN down' :
          down'[i].event = Stopped(t) /\ down'[j].event = Stopped(t) => i = j
    <3>1. CASE down' = down
      BY <3>1 DEF IInv, SeenOnce
    <3>2. CASE down # <<>> /\ down' = Tail(down)
      <4> SUFFICES ASSUME NEW t \in Thread, NEW i \in DOMAIN down', NEW j \in DOMAIN down',
                          down'[i].event = Stopped(t), down'[j].event = Stopped(t)
                   PROVE  i = j
        OBVIOUS
      <4>1. \A k \in DOMAIN down' : k + 1 \in DOMAIN down /\ down'[k] = down[k + 1]
        BY <3>2, TakeFacts
      <4>2. i + 1 = j + 1
        BY <4>1 DEF IInv, SeenOnce
      <4> QED
        BY <1>4, <4>2
    <3> QED
      BY <3>1, <3>2
  <2> QED
    BY <1>4, <1>5, <1>6, <1>10, <1>11, <2>1, <2>2 DEF IInv, SeenOnce
<1>17. HeadSeen' /\ Underway'
  BY <1>1, <1>2, <1>7, <1>9, <1>10 DEF IInv, HeadSeen, Underway
<1>18. Fresh'
  <2>1. \A j \in DOMAIN down' : \A i \in 1..(j - 1) : i \in DOMAIN down'
    <3>1. DOMAIN down' = 1..Len(down') /\ Len(down') \in Nat
      BY <1>4
    <3> QED
      BY <3>1
  <2> QED
    BY <1>1, <1>2, <2>1 DEF Fresh
<1>19. ContSafe'
  BY <1>1, <1>2 DEF ContSafe
<1>20. GoneOnBoth' /\ GoneNotQueued' /\ ExitedGone'
  BY <1>7, <1>9, <1>10 DEF IInv, GoneOnBoth, GoneNotQueued, ExitedGone
<1>21. KillAnswered'
  BY <1>1, <1>2 DEF KillAnswered
<1> QED
  BY <1>12, <1>13, <1>14, <1>15, <1>16, <1>17, <1>18, <1>19, <1>20, <1>21 DEF IInv

LEMMA FetchIInv == ASSUME IInv, Fetch PROVE IInv'
<1>1. awaited = NoRequest /\ pending_event' = None /\ state' = state /\ queue' = queue /\ core' = core
  BY DEF Fetch, Idle, server
<1>2. \A i \in DOMAIN down : IsNotif(down[i]) /\ down[i].event \in Event
  BY <1>1 DEF IInv, Link, IsNotif
<1>3. notified \in BOOLEAN /\ pending_event \in Event \cup {None}
  BY DEF IInv, TypeOK
<1>4. CASE /\ down # <<>> /\ down' = Tail(down)
           /\ Acknowledge(IF pending_event = None THEN Head(down).event ELSE pending_event)
           /\ notified' = (notified \/ pending_event = None)
  <2>1. /\ 1 \in DOMAIN down /\ Head(down) = down[1]
        /\ \A i \in DOMAIN down' : i + 1 \in DOMAIN down /\ down'[i] = down[i + 1]
    BY <1>4, TakeFacts
  <2>2. \A i \in DOMAIN down' : IsNotif(down'[i])
    BY <1>2, <2>1
  <2>3. notified' \in BOOLEAN
    BY <1>4
  <2>4. CASE pending_event = None
    <3>1. Acknowledge(down[1].event) /\ down[1].event \in Event
      BY <1>2, <1>4, <2>1, <2>4
    <3> QED
      BY <1>1, <1>4, <2>2, <2>3, <3>1, AcknowledgeIInv
  <2>5. CASE pending_event # None
    <3>1. Acknowledge(pending_event) /\ pending_event \in Event
      BY <1>3, <1>4, <2>5
    <3> QED
      BY <1>1, <1>4, <2>2, <2>3, <3>1, AcknowledgeIInv
  <2> QED
    BY <2>4, <2>5
<1>5. CASE pending_event # None /\ Acknowledge(pending_event) /\ down' = down /\ notified' = notified
  BY <1>1, <1>2, <1>3, <1>5, AcknowledgeIInv
<1> QED
  BY <1>4, <1>5 DEF Fetch

(* An answer that ends a request is taken; unless a process was killed,    *)
(* nothing else changes.                                                   *)
LEMMA AnswerTaken ==
  ASSUME IInv, down # <<>>, Head(down).type # "notif", down' = Tail(down), awaited' = NoRequest,
         state' = state, queue' = queue, request' = request, notified' = notified,
         token' \in BOOLEAN, core' \in [Thread -> {"running", "stopped", "gone"}],
         stop_reply_queue' \in Seq(Event), pending_event' \in {None, pending_event},
         \A x : In(stop_reply_queue', x) => In(stop_reply_queue, x),
         \A x : OnceIn(stop_reply_queue, x) => OnceIn(stop_reply_queue', x),
         \A t \in Thread : core'[t] # core[t] => core'[t] = "gone",
         \A t \in Thread : core'[t] # core[t] => state[t] = "gone" /\ ~Seen(Stopped(t))'
  PROVE  IInv'
<1>1. /\ down' \in Seq(Messages)
      /\ DOMAIN down \subseteq Nat \ {0} /\ DOMAIN down' \subseteq Nat \ {0}
      /\ 1 \in DOMAIN down /\ Head(down) = down[1]
      /\ \A i \in DOMAIN down' : i + 1 \in DOMAIN down /\ down'[i] = down[i + 1]
      /\ \A x : InDown(x)' => InDown(x)
  BY TakeFacts
<1>2. NoRequest.type = "none"
  BY DEF NoRequest
<1>3. /\ ~IsNotif(down[1])
      /\ \A i \in DOMAIN down' : IsNotif(down'[i]) /\ down'[i].event \in Event
  <2>1. ~IsNotif(down[1])
    BY <1>1 DEF IsNotif
  <2>2. \A i \in DOMAIN down' : i + 1 \in DOMAIN down /\ i + 1 # 1
    BY <1>1
  <2>3. \A i \in DOMAIN down' : IsNotif(down[i + 1])
    BY <1>1, <2>1, <2>2 DEF IInv, Link
  <2> QED
    BY <1>1, <2>1, <2>2, <2>3 DEF IInv, Link, IsNotif
<1>4. request = NoRequest
  BY <1>1, <1>3 DEF IInv, Link
<1>5. \A x : (Fetched(x)' => Fetched(x)) /\ (Waits(x)' <=> Waits(x))
  BY DEF Fetched, Waits
<1>6. \A x \in Event : Noticed(x)' => Noticed(x)
  BY EventFacts DEF Noticed
<1>7. \A x \in Event : Seen(x)' => Seen(x)
  BY <1>1, <1>5, <1>6 DEF Seen
<1>8. \A t \in Thread : Stopped(t) \in Event /\ Exited(Pid[t]) \in Event
  BY EventFacts
<1>9. TypeOK'
  <2>1. NoRequest \in Packets
    BY DEF NoRequest, Packets
  <2> QED
    BY <1>1, <2>1 DEF IInv, TypeOK, Messages
<1>10. Link'
  BY <1>2, <1>3, <1>4 DEF Link, IsNotif
<1>11. Told' /\ RunsInBoth'
  BY <1>5, <1>7, <1>8 DEF IInv, Told, RunsInBoth
<1>12. QueuedOnce'
  BY DEF IInv, QueuedOnce, OnceIn
<1>13. SeenOnce'
  <2>1. \A t \in Thread : \A i, j \in DOMAIN down' :
          down'[i].event = Stopped(t) /\ down'[j].event = Stopped(t) => i = j
    <3> SUFFICES ASSUME NEW t \in Thread, NEW i \in DOMAIN down', NEW j \in DOMAIN down',
                        down'[i].event = Stopped(t), down'[j].event = Stopped(t)
                 PROVE  i = j
      OBVIOUS
    <3>1. i + 1 = j + 1
      BY <1>1 DEF IInv, SeenOnce
    <3> QED
      BY <1>1, <3>1
  <2>2. \A t \in Thread : OnceIn(stop_reply_queue', Stopped(t))
    BY DEF IInv, SeenOnce
  <2> QED
    BY <1>1, <1>5, <1>6, <1>8, <2>1, <2>2 DEF IInv, SeenOnce
<1>14. HeadSeen' /\ Underway'
  BY <1>5, <1>7, <1>8 DEF IInv, HeadSeen, Underway
<1>15. Fresh'
  <2> SUFFICES ASSUME NEW t \in Thread, NEW j \in DOMAIN down',
                      IsNotif(down'[j]), down'[j].event = Stopped(t), state[t] # "gone"
               PROVE  Waits(Stopped(t))
    BY <1>5 DEF Fresh
  <2>1. j + 1 \in DOMAIN down /\ IsNotif(down[j + 1]) /\ down[j + 1].event = Stopped(t)
    BY <1>1
  <2>2. 1 \in 1..((j + 1) - 1)
    BY <1>1
  <2> QED
    BY <1>3, <2>1, <2>2 DEF IInv, Fresh
<1>16. ContSafe'
  BY <1>2, <1>4 DEF ContSafe
<1>17. GoneOnBoth' /\ GoneNotQueued' /\ ExitedGone'
  BY <1>5, <1>7, <1>8 DEF IInv, GoneOnBoth, GoneNotQueued, ExitedGone
<1>18. KillAnswered'
  BY <1>2 DEF KillAnswered
<1> QED
  BY <1>9, <1>10, <1>11, <1>12, <1>13, <1>14, <1>15, <1>16, <1>17, <1>18 DEF IInv

LEMMA FetchNextIInv == ASSUME IInv, FetchNext PROVE IInv'
<1>1. /\ awaited.type = "vStopped" /\ down # <<>> /\ Head(down).type # "notif" /\ down' = Tail(down)
      /\ state' = state /\ queue' = queue
      /\ pending_event' = pending_event /\ notified' = notified /\ core' = core
  BY DEF FetchNext, server
<1>2. /\ DOMAIN down' \subseteq Nat \ {0} /\ 1 \in DOMAIN down /\ Head(down) = down[1]
      /\ \A i \in DOMAIN down' : i + 1 \in DOMAIN down /\ down'[i] = down[i + 1]
  BY <1>1, TakeFacts
<1>3. CASE Head(down).type = "reply"
  <2>1. Acknowledge(down[1].event) /\ down[1].event \in Event
    BY <1>2, <1>3 DEF FetchNext, IInv, Link
  <2>2. \A i \in DOMAIN down' : i + 1 \in DOMAIN down /\ i + 1 # 1
    BY <1>2
  <2>3. ~IsNotif(down[1])
    BY <1>1, <1>2 DEF IsNotif
  <2>4. \A i \in DOMAIN down' : IsNotif(down'[i])
    BY <1>2, <2>2, <2>3 DEF IInv, Link
  <2>5. notified' \in BOOLEAN
    BY <1>1 DEF IInv, TypeOK
  <2> QED
    BY <1>1, <2>1, <2>4, <2>5, AcknowledgeIInv
<1>4. CASE Head(down).type # "reply"
  <2>1. awaited' = NoRequest /\ request' = request /\ stop_reply_queue' = stop_reply_queue /\ token' = token
    BY <1>4 DEF FetchNext
  <2>2. /\ token' \in BOOLEAN /\ core' \in [Thread -> {"running", "stopped", "gone"}]
        /\ stop_reply_queue' \in Seq(Event)
    BY <1>1, <2>1 DEF IInv, TypeOK
  <2> QED
    BY <1>1, <2>1, <2>2, AnswerTaken
<1> QED
  BY <1>3, <1>4

LEMMA MournFacts ==
  ASSUME NEW p, NEW q \in Seq(Event), TypeOK, Mourn(p, q)
  PROVE  /\ core' \in [Thread -> {"running", "stopped", "gone"}]
         /\ stop_reply_queue' \in Seq(Event)
         /\ pending_event' \in {None, pending_event}
         /\ \A t \in Thread : core'[t] = IF Pid[t] = p THEN "gone" ELSE core[t]
         /\ \A x : In(stop_reply_queue', x) <=> In(q, x) /\ x.pid # p
         /\ \A x : OnceIn(q, x) => OnceIn(stop_reply_queue', x)
         /\ \A t \in Thread : Pid[t] = p => ~Fetched(Stopped(t))' /\ ~Noticed(Stopped(t))'
<1>1. /\ stop_reply_queue' = NotOf(q, p)
      /\ core' = [t \in Thread |-> IF Pid[t] = p THEN "gone" ELSE core[t]]
      /\ pending_event' = IF pending_event # None /\ pending_event.pid = p THEN None ELSE pending_event
  BY DEF Mourn
<1>2. /\ stop_reply_queue' \in Seq(Event)
      /\ \A x : In(stop_reply_queue', x) <=> In(q, x) /\ x.pid # p
      /\ \A x : OnceIn(q, x) => OnceIn(stop_reply_queue', x)
  BY <1>1, NotOfFacts
<1>3. /\ core' \in [Thread -> {"running", "stopped", "gone"}]
      /\ \A t \in Thread : core'[t] = IF Pid[t] = p THEN "gone" ELSE core[t]
  BY <1>1 DEF TypeOK
<1>4. \A t \in Thread : Pid[t] = p => ~Fetched(Stopped(t))' /\ ~Noticed(Stopped(t))'
  BY <1>1, <1>2, EventFacts DEF Fetched, Noticed
<1> QED
  BY <1>1, <1>2, <1>3, <1>4

LEMMA AnsweredIInv == ASSUME IInv, Answered PROVE IInv'
<1>1. /\ awaited.type \in {"vCont", "vKill"}
      /\ down # <<>> /\ Head(down).type # "notif" /\ down' = Tail(down) /\ awaited' = NoRequest
      /\ state' = state /\ queue' = queue /\ request' = request /\ notified' = notified /\ token' = token
  BY DEF Answered, server
<1>2. TypeOK /\ token' \in BOOLEAN /\ stop_reply_queue \in Seq(Event)
  BY <1>1, Typing DEF IInv, TypeOK
<1>3. CASE awaited.type = "vKill" /\ Head(down).type = "OK"
  <2>1. PICK p \in Process : awaited.arg = {p} /\ Mourn(p, stop_reply_queue)
    BY <1>3 DEF Answered, IInv, Link
  <2>2. /\ core' \in [Thread -> {"running", "stopped", "gone"}]
        /\ stop_reply_queue' \in Seq(Event)
        /\ pending_event' \in {None, pending_event}
        /\ \A t \in Thread : core'[t] = IF Pid[t] = p THEN "gone" ELSE core[t]
        /\ \A x : In(stop_reply_queue', x) <=> In(stop_reply_queue, x) /\ x.pid # p
        /\ \A x : OnceIn(stop_reply_queue, x) => OnceIn(stop_reply_queue', x)
        /\ \A t \in Thread : Pid[t] = p => ~Fetched(Stopped(t))' /\ ~Noticed(Stopped(t))'
    BY <1>2, <2>1, MournFacts
  <2>3. /\ 1 \in DOMAIN down /\ Head(down) = down[1] /\ DOMAIN down' \subseteq Nat \ {0}
        /\ \A i \in DOMAIN down' : i + 1 \in DOMAIN down /\ down'[i] = down[i + 1]
    BY <1>1, TakeFacts
  <2>4. \A t \in Thread : Pid[t] = p =>
          state[t] = "gone" /\ \A j \in DOMAIN down : 1 <= j => down[j].event # Stopped(t)
    BY <1>3, <2>1, <2>3 DEF IInv, KillAnswered
  <2>5. \A i \in DOMAIN down' : 1 <= i + 1
    BY <2>3
  <2>6. \A t \in Thread : Pid[t] = p => ~InDown(Stopped(t))'
    BY <2>3, <2>4, <2>5 DEF InDown
  <2>7. \A t \in Thread : core'[t] # core[t] => core'[t] = "gone" /\ state[t] = "gone" /\ ~Seen(Stopped(t))'
    BY <2>2, <2>4, <2>6 DEF Seen
  <2> QED
    BY <1>1, <1>2, <2>2, <2>7, AnswerTaken
<1>4. CASE ~(awaited.type = "vKill" /\ Head(down).type = "OK")
  <2>1. core' = core /\ stop_reply_queue' = stop_reply_queue /\ pending_event' = pending_event
    BY <1>4 DEF Answered
  <2>2. core' \in [Thread -> {"running", "stopped", "gone"}] /\ stop_reply_queue' \in Seq(Event)
    BY <2>1 DEF IInv, TypeOK
  <2> QED
    BY <1>1, <1>2, <2>1, <2>2, AnswerTaken
<1> QED
  BY <1>3, <1>4

LEMMA DeliverIInv == ASSUME IInv, Deliver PROVE IInv'
<1> DEFINE q == Tail(stop_reply_queue)
           e == Head(stop_reply_queue)
<1>1. /\ awaited = NoRequest /\ down = <<>> /\ pending_event = None
      /\ state' = state /\ queue' = queue /\ request' = request /\ down' = down
      /\ awaited' = awaited /\ notified' = notified
  BY DEF Deliver, Idle, server, link
<1>2. token' \in BOOLEAN
  BY DEF Deliver
<1>3. request = NoRequest /\ NoRequest.type = "none"
  BY <1>1 DEF IInv, Link, NoRequest
<1>4. TypeOK /\ stop_reply_queue \in Seq(Event)
  BY Typing DEF IInv
<1>5. DOMAIN down = {} /\ DOMAIN down' = {}
  BY <1>1
<1>6. \A x \in Event : ~InDown(x) /\ ~InDown(x)' /\ ~Noticed(x)
  BY <1>1, <1>5, EventFacts DEF InDown, Noticed
<1>7. \A x : Waits(x)' <=> Waits(x)
  BY <1>1 DEF Waits
<1>8. \A t \in Thread : Stopped(t) \in Event /\ Exited(Pid[t]) \in Event
  BY EventFacts
(* In each case fewer events are left, and what infrun is told is right.   *)
<1>9. ASSUME core' \in [Thread -> {"running", "stopped", "gone"}],
             stop_reply_queue' \in Seq(Event),
             pending_event' = None,
             \A x : Fetched(x)' => Fetched(x),
             \A x : OnceIn(stop_reply_queue, x) => OnceIn(stop_reply_queue', x),
             \A t \in Thread : core'[t] # core[t] =>
               /\ state[t] # "running" /\ ~Waits(Stopped(t)) /\ ~Fetched(Stopped(t))'
               /\ core'[t] = "gone" => state[t] = "gone"
      PROVE  IInv'
  <2>1. \A x \in Event : ~Noticed(x)'
    BY <1>9, EventFacts DEF Noticed
  <2>2. \A x \in Event : (Seen(x)' <=> Fetched(x)') /\ (Seen(x)' => Seen(x))
    BY <1>6, <1>9, <2>1 DEF Seen
  <2>3. TypeOK'
    BY <1>1, <1>2, <1>4, <1>9 DEF TypeOK
  <2>4. Link'
    BY <1>1 DEF IInv, Link
  <2>5. Told' /\ RunsInBoth'
    BY <1>1, <1>7, <1>8, <1>9, <2>2 DEF IInv, Told, RunsInBoth
  <2>6. QueuedOnce'
    BY <1>1 DEF IInv, QueuedOnce, OnceIn
  <2>7. SeenOnce'
    BY <1>5, <1>6, <1>8, <1>9, <2>1 DEF IInv, SeenOnce
  <2>8. HeadSeen' /\ Underway'
    BY <1>1, <1>7, <1>8, <1>9, <2>2 DEF IInv, HeadSeen, Underway
  <2>9. Fresh' /\ KillAnswered'
    BY <1>5 DEF Fresh, KillAnswered
  <2>10. ContSafe'
    BY <1>1, <1>3 DEF ContSafe
  <2>11. GoneOnBoth' /\ GoneNotQueued' /\ ExitedGone'
    BY <1>1, <1>7, <1>8, <1>9, <2>2 DEF IInv, GoneOnBoth, GoneNotQueued, ExitedGone
  <2> QED
    BY <2>3, <2>4, <2>5, <2>6, <2>7, <2>8, <2>9, <2>10, <2>11 DEF IInv
<1>10. CASE stop_reply_queue = <<>>
  <2>1. core' = core /\ stop_reply_queue' = stop_reply_queue /\ pending_event' = pending_event
    BY <1>10 DEF Deliver
  <2>2. core' \in [Thread -> {"running", "stopped", "gone"}]
    BY <1>4, <2>1 DEF TypeOK
  <2> QED
    BY <1>1, <1>4, <1>9, <2>1, <2>2 DEF Fetched
<1>11. CASE stop_reply_queue # <<>>
  <2> DEFINE n == Len(stop_reply_queue)
  <2>1. /\ q \in Seq(Event) /\ n \in Nat /\ n > 0
        /\ DOMAIN stop_reply_queue = 1..n /\ DOMAIN q = 1..(n - 1)
        /\ \A i \in 1..(n - 1) : q[i] = stop_reply_queue[i + 1]
        /\ e = stop_reply_queue[1] /\ e \in Event
    BY <1>4, <1>11, TailFacts
  <2>3. /\ e.thread = None => Mourn(e.pid, q)
        /\ e.thread # None => /\ core' = [core EXCEPT ![e.thread] = "stopped"]
                              /\ stop_reply_queue' = q
                              /\ pending_event' = pending_event
    BY <1>11 DEF Deliver
  <2> HIDE DEF q, e, n
  <2>4. Fetched(e)
    BY <2>1 DEF Fetched, In
  <2>5. \A x : In(q, x) => Fetched(x)
    <3> SUFFICES ASSUME NEW i \in 1..(n - 1) PROVE Fetched(q[i])
      BY <2>1 DEF In
    <3>1. i + 1 \in 1..n /\ q[i] = stop_reply_queue[i + 1]
      BY <2>1
    <3> QED
      BY <2>1, <3>1 DEF Fetched, In
  <2>6. \A x : OnceIn(stop_reply_queue, x) => OnceIn(q, x)
    <3> SUFFICES ASSUME NEW x, OnceIn(stop_reply_queue, x), NEW i \in 1..(n - 1), NEW j \in 1..(n - 1),
                        q[i] = x, q[j] = x
                 PROVE  i = j
      BY <2>1 DEF OnceIn
    <3>1. /\ i + 1 \in 1..n /\ q[i] = stop_reply_queue[i + 1]
          /\ j + 1 \in 1..n /\ q[j] = stop_reply_queue[j + 1]
      BY <2>1
    <3>2. i + 1 = j + 1
      BY <2>1, <3>1 DEF OnceIn
    <3> QED
      BY <3>2
  <2>7. \A t \in Thread : Stopped(t) = e => ~In(q, e)
    <3> SUFFICES ASSUME NEW t \in Thread, Stopped(t) = e, NEW i \in 1..(n - 1), q[i] = e PROVE FALSE
      BY <2>1 DEF In
    <3>1. i + 1 \in 1..n /\ stop_reply_queue[i + 1] = e /\ 1 \in 1..n /\ i + 1 # 1
      BY <2>1
    <3>2. OnceIn(stop_reply_queue, e)
      BY DEF IInv, SeenOnce
    <3> QED
      BY <2>1, <3>1, <3>2 DEF OnceIn
  <2>8. CASE \E t \in Thread : e = Stopped(t)
    <3>1. PICK t \in Thread : e = Stopped(t)
      BY <2>8
    <3>2. e.thread = t /\ t # None
      BY <3>1, EventFacts
    <3>3. core' = [core EXCEPT ![t] = "stopped"] /\ stop_reply_queue' = q /\ pending_event' = None
      BY <1>1, <2>3, <3>2
    <3>4. ~Waits(Stopped(t)) /\ state[t] # "running" /\ ~Fetched(Stopped(t))'
      <4>1. ~Waits(Stopped(t))
        BY <1>3, <2>4, <3>1 DEF IInv, Underway
      <4>2. state[t] # "running"
        BY <2>4, <3>1 DEF IInv, Told, Seen
      <4>3. ~In(stop_reply_queue', Stopped(t))
        BY <2>7, <3>1, <3>3
      <4> QED
        BY <4>1, <4>2, <4>3 DEF Fetched
    <3>5. core' \in [Thread -> {"running", "stopped", "gone"}] /\ \A u \in Thread : u # t => core'[u] = core[u]
      BY <1>4, <3>3 DEF TypeOK
    <3>6. core'[t] = "stopped"
      BY <1>4, <3>3 DEF TypeOK
    <3>7. \A x : Fetched(x)' => Fetched(x)
      BY <2>5, <3>3 DEF Fetched
    <3> QED
      <4>1. \A u \in Thread : core'[u] # core[u] =>
              /\ state[u] # "running" /\ ~Waits(Stopped(u)) /\ ~Fetched(Stopped(u))'
              /\ core'[u] = "gone" => state[u] = "gone"
        BY <3>1, <3>4, <3>5, <3>6
      <4>2. stop_reply_queue' \in Seq(Event) /\ pending_event' = None
        BY <2>1, <3>3
      <4>3. \A x : OnceIn(stop_reply_queue, x) => OnceIn(stop_reply_queue', x)
        BY <2>6, <3>3
      <4> QED
        BY <1>9, <3>5, <3>7, <4>1, <4>2, <4>3
  <2>9. CASE \E p \in Process : e = Exited(p)
    <3>1. PICK p \in Process : e = Exited(p)
      BY <2>9
    <3>2. e.pid = p /\ e.thread = None
      BY <3>1, EventFacts
    <3>3. Mourn(p, q)
      BY <2>3, <3>2
    <3>4. /\ core' \in [Thread -> {"running", "stopped", "gone"}]
          /\ stop_reply_queue' \in Seq(Event)
          /\ pending_event' \in {None, pending_event}
          /\ \A t \in Thread : core'[t] = IF Pid[t] = p THEN "gone" ELSE core[t]
          /\ \A x : In(stop_reply_queue', x) <=> In(q, x) /\ x.pid # p
          /\ \A x : OnceIn(q, x) => OnceIn(stop_reply_queue', x)
          /\ \A t \in Thread : Pid[t] = p => ~Fetched(Stopped(t))' /\ ~Noticed(Stopped(t))'
      BY <1>4, <2>1, <3>3, MournFacts
    <3>5. \A t \in Thread : Pid[t] = p => state[t] = "gone" /\ ~Waits(Stopped(t))
      BY <2>4, <3>1 DEF IInv, ExitedGone, GoneNotQueued, Seen
    <3>6. \A x : Fetched(x)' => Fetched(x)
      BY <2>5, <3>4 DEF Fetched
    <3>7. pending_event' = None
      BY <1>1, <3>4
    <3>8. \A x : OnceIn(stop_reply_queue, x) => OnceIn(stop_reply_queue', x)
      BY <2>6, <3>4
    <3>9. \A t \in Thread : core'[t] # core[t] =>
            /\ state[t] # "running" /\ ~Waits(Stopped(t)) /\ ~Fetched(Stopped(t))'
            /\ core'[t] = "gone" => state[t] = "gone"
      BY <3>4, <3>5
    <3> QED
      BY <1>9, <3>4, <3>6, <3>7, <3>8, <3>9
  <2> QED
    BY <2>1, <2>8, <2>9, EventFacts
<1> QED
  BY <1>10, <1>11

LEMMA ResumeIInv == ASSUME IInv, Resume PROVE IInv'
<1>1. /\ awaited = NoRequest /\ pending_event = None
      /\ state' = state /\ queue' = queue /\ down' = down /\ pending_event' = pending_event
      /\ stop_reply_queue' = stop_reply_queue /\ notified' = notified /\ token' = token
  BY DEF Resume, Idle, server
<1>2. PICK t \in Thread, ts \in SUBSET Thread :
        /\ core[t] = "stopped"
        /\ ts = {t} \/ \A e \in Range(stop_reply_queue), u \in ts : Pid[u] # e.pid
        /\ Send("vCont", ts)
        /\ core' = [u \in Thread |-> IF u \in ts /\ core[u] = "stopped" THEN "running" ELSE core[u]]
  BY DEF Resume, ThreadsOf
<1> DEFINE cont == Packet("vCont", ts)
<1>3. request' = cont /\ awaited' = cont
  BY <1>2 DEF Send
<1>4. /\ cont.type = "vCont" /\ cont.arg = ts /\ cont # NoRequest /\ cont \in Packets
      /\ NoRequest.type = "none"
  BY DEF Packet, NoRequest, Packets
<1> HIDE DEF cont
<1>5. request = NoRequest /\ \A i \in DOMAIN down : IsNotif(down[i])
  BY <1>1 DEF IInv, Link
<1>6. /\ core' \in [Thread -> {"running", "stopped", "gone"}]
      /\ \A u \in Thread : core'[u] = IF u \in ts /\ core[u] = "stopped" THEN "running" ELSE core[u]
  BY <1>2 DEF IInv, TypeOK
<1>7. \A x : /\ (Waits(x)' <=> Waits(x)) /\ (Seen(x)' <=> Seen(x)) /\ (Fetched(x)' <=> Fetched(x))
             /\ (InDown(x)' <=> InDown(x)) /\ (Noticed(x)' <=> Noticed(x))
  BY <1>1 DEF Waits, Seen, InDown, Noticed, Fetched
(* What gdb has seen of a thread that it resumes, gdbserver still has.     *)
<1>8. \A u \in Thread : u \in ts /\ state[u] = "stopped" /\ Seen(Stopped(u)) => Waits(Stopped(u))
  <2> SUFFICES ASSUME NEW u \in ts, state[u] = "stopped", Seen(Stopped(u)) PROVE Waits(Stopped(u))
    BY <1>2
  <2>1. CASE ts = {t}
    <3>1. u = t
      BY <2>1
    <3> QED
      BY <1>2, <3>1 DEF IInv, Told
  <2>2. CASE \A e \in Range(stop_reply_queue) : Pid[u] # e.pid
    <3>1. ~Fetched(Stopped(u)) /\ ~Noticed(Stopped(u))
      <4>1. Stopped(u).pid = Pid[u] /\ Stopped(u) # None
        BY <1>2, EventFacts
      <4>2. ~Fetched(Stopped(u))
        BY <2>2, <4>1 DEF Fetched, In, Range
      <4> QED
        BY <1>1, <4>1, <4>2 DEF Noticed
    <3>2. PICK j \in DOMAIN down : down[j].event = Stopped(u)
      BY <3>1 DEF Seen, InDown
    <3> QED
      BY <1>1, <1>4, <1>5, <2>2, <3>2 DEF IInv, Fresh
  <2> QED
    BY <1>2, <2>1, <2>2
<1>9. TypeOK'
  BY <1>1, <1>3, <1>4, <1>6 DEF IInv, TypeOK
<1>10. Link'
  BY <1>1, <1>3, <1>4, <1>5 DEF IInv, Link, IsNotif
<1>11. Told' /\ RunsInBoth'
  BY <1>1, <1>6, <1>7 DEF IInv, Told, RunsInBoth
<1>12. QueuedOnce' /\ SeenOnce'
  BY <1>1, <1>7 DEF IInv, QueuedOnce, SeenOnce, OnceIn
<1>13. HeadSeen'
  BY <1>1, <1>7 DEF IInv, HeadSeen
<1>14. Underway'
  BY <1>4, <1>5, <1>7 DEF IInv, Underway
<1>15. Fresh'
  BY <1>1, <1>4, <1>7 DEF IInv, Fresh
<1>16. ContSafe'
  BY <1>1, <1>3, <1>4, <1>6, <1>7, <1>8 DEF ContSafe
<1>17. GoneOnBoth' /\ GoneNotQueued' /\ ExitedGone'
  BY <1>1, <1>6, <1>7 DEF IInv, GoneOnBoth, GoneNotQueued, ExitedGone
<1>18. KillAnswered'
  BY <1>3, <1>4 DEF KillAnswered
<1> QED
  BY <1>9, <1>10, <1>11, <1>12, <1>13, <1>14, <1>15, <1>16, <1>17, <1>18 DEF IInv

LEMMA KillIInv == ASSUME IInv, NEW p \in Process, Kill(p) PROVE IInv'
<1>1. /\ awaited = NoRequest /\ Send("vKill", {p})
      /\ state' = state /\ queue' = queue /\ down' = down /\ pending_event' = pending_event
      /\ stop_reply_queue' = stop_reply_queue /\ notified' = notified /\ token' = token /\ core' = core
  BY DEF Kill, Idle, server
<1> DEFINE kill == Packet("vKill", {p})
<1>2. request' = kill /\ awaited' = kill
  BY <1>1 DEF Send
<1>3. /\ kill.type = "vKill" /\ kill.arg = {p} /\ kill # NoRequest /\ kill \in Packets
      /\ NoRequest.type = "none"
  BY DEF Packet, NoRequest, Packets
<1> HIDE DEF kill
<1>4. request = NoRequest /\ \A i \in DOMAIN down : IsNotif(down[i])
  BY <1>1 DEF IInv, Link
<1>5. \A x : /\ (Waits(x)' <=> Waits(x)) /\ (Seen(x)' <=> Seen(x)) /\ (Fetched(x)' <=> Fetched(x))
             /\ (InDown(x)' <=> InDown(x)) /\ (Noticed(x)' <=> Noticed(x))
  BY <1>1 DEF Waits, Seen, InDown, Noticed, Fetched
<1>6. TypeOK'
  BY <1>1, <1>2, <1>3 DEF IInv, TypeOK
<1>7. Link'
  BY <1>1, <1>2, <1>3, <1>4 DEF IInv, Link, IsNotif
<1>8. Told' /\ RunsInBoth' /\ HeadSeen'
  BY <1>1, <1>5 DEF IInv, Told, RunsInBoth, HeadSeen
<1>9. QueuedOnce' /\ SeenOnce'
  BY <1>1, <1>5 DEF IInv, QueuedOnce, SeenOnce, OnceIn
<1>10. Underway'
  BY <1>3, <1>4, <1>5 DEF IInv, Underway
<1>11. Fresh'
  BY <1>1, <1>3, <1>5 DEF IInv, Fresh
<1>12. ContSafe'
  BY <1>2, <1>3 DEF ContSafe
<1>13. GoneOnBoth' /\ GoneNotQueued' /\ ExitedGone'
  BY <1>1, <1>5 DEF IInv, GoneOnBoth, GoneNotQueued, ExitedGone
<1>14. KillAnswered'
  BY <1>1, <1>4 DEF KillAnswered, IsNotif
<1> QED
  BY <1>6, <1>7, <1>8, <1>9, <1>10, <1>11, <1>12, <1>13, <1>14 DEF IInv

LEMMA NextIInv == IInv /\ [Next]_vars => IInv'
<1> SUFFICES ASSUME IInv, [Next]_vars PROVE IInv'
  OBVIOUS
<1>1. ASSUME NEW t \in Thread, Stop(t) PROVE IInv'
  BY <1>1, StopIInv
<1>2. ASSUME NEW p \in Process, Exit(p) PROVE IInv'
  BY <1>2, ExitIInv
<1>3. ASSUME NEW p \in Process, Kill(p) PROVE IInv'
  BY <1>3, KillIInv
<1>4. CASE Resume
  BY <1>4, ResumeIInv
<1>5. CASE Server
  BY <1>5, HandleAckIInv, HandleContIInv, HandleKillIInv DEF Server
<1>6. CASE Client
  BY <1>6, ReadNotificationIInv, ProcessNotificationsIInv, FetchIInv, FetchNextIInv, DeliverIInv, AnsweredIInv
     DEF Client
<1>7. CASE UNCHANGED vars
  <2>1. /\ state' = state /\ queue' = queue /\ request' = request /\ down' = down /\ awaited' = awaited
        /\ pending_event' = pending_event /\ stop_reply_queue' = stop_reply_queue
        /\ notified' = notified /\ token' = token /\ core' = core
    BY <1>7 DEF vars, server, link, client
  <2>2. \A x : (Waits(x)' <=> Waits(x)) /\ (Seen(x)' <=> Seen(x)) /\ (Fetched(x)' <=> Fetched(x))
               /\ (InDown(x)' <=> InDown(x)) /\ (Noticed(x)' <=> Noticed(x))
    BY <2>1 DEF Waits, Seen, InDown, Noticed, Fetched
  <2>3. TypeOK' /\ Link'
    BY <2>1 DEF IInv, TypeOK, Link
  <2>4. Told' /\ QueuedOnce' /\ SeenOnce' /\ HeadSeen' /\ Underway'
    BY <2>1, <2>2 DEF IInv, Told, QueuedOnce, SeenOnce, HeadSeen, Underway, OnceIn
  <2>5. Fresh' /\ ContSafe' /\ RunsInBoth'
    BY <2>1, <2>2 DEF IInv, Fresh, ContSafe, RunsInBoth
  <2>6. GoneOnBoth' /\ GoneNotQueued' /\ ExitedGone' /\ KillAnswered'
    BY <2>1, <2>2 DEF IInv, GoneOnBoth, GoneNotQueued, ExitedGone, KillAnswered
  <2> QED
    BY <2>3, <2>4, <2>5, <2>6 DEF IInv
<1> QED
  BY <1>1, <1>2, <1>3, <1>4, <1>5, <1>6, <1>7 DEF Next

LEMMA SpecIInv == Spec => []IInv
BY InitIInv, NextIInv, PTL DEF Spec

-----------------------------------------------------------------------------
(* Every variable keeps its type.                                          *)
THEOREM TypeCorrect == Spec => []TypeOK
<1>1. IInv => TypeOK
  BY DEF IInv
<1> QED
  BY <1>1, SpecIInv, PTL

(* A thread whose stop is still queued, on either side, is not resumed     *)
(* (handle_v_requests skips it in a vCont), and infrun has not been told   *)
(* of the stop yet.                                                        *)
THEOREM StopsAreKeptCorrect == Spec => []StopsAreKept
<1>1. IInv => StopsAreKept
  <2> SUFFICES ASSUME IInv, NEW t \in Thread,
                      Stopped(t) \in Range(stop_reply_queue) \/ Queued(t)
               PROVE  state[t] # "running" /\ core[t] # "stopped"
    BY DEF StopsAreKept
  <2>1. Fetched(Stopped(t)) \/ Waits(Stopped(t))
    BY DEF Range, Queued, Fetched, Waits, In
  <2> QED
    BY <2>1 DEF IInv, Told, Seen
<1> QED
  BY <1>1, SpecIInv, PTL

(* A step of gdb that does not handle an event of the thread does not      *)
(* bring a thread back that gdb has removed, and such an event there is    *)
(* none: discard_pending_stop_replies, what gdbserver drops with the       *)
(* process and the order of the connection have left none anywhere.        *)
THEOREM GoneForGoodCorrect == Spec => GoneForGood
<1>1. IInv /\ [Next]_vars => [\A t \in Thread : core[t] = "gone" => core'[t] = "gone"]_vars
  <2> SUFFICES ASSUME IInv, [Next]_vars, NEW t \in Thread, core[t] = "gone" PROVE core'[t] = "gone"
    OBVIOUS
  <2> USE DEF client
  <2>1. core \in [Thread -> {"running", "stopped", "gone"}] /\ ~Fetched(Stopped(t))
    BY DEF IInv, TypeOK, GoneOnBoth, Seen
  <2>2. ASSUME NEW u \in Thread, Stop(u) PROVE core'[t] = "gone"
    BY <2>2 DEF Stop
  <2>3. ASSUME NEW p \in Process, Exit(p) \/ Kill(p) PROVE core'[t] = "gone"
    BY <2>3 DEF Exit, Kill
  <2>4. CASE Resume
    BY <2>4 DEF Resume
  <2>5. CASE Server
    BY <2>5 DEF Server, HandleAck, HandleCont, HandleKill
  <2>6. CASE ReadNotification \/ ProcessNotifications \/ Fetch \/ FetchNext
    BY <2>6 DEF ReadNotification, ProcessNotifications, Fetch, FetchNext
  <2>7. ASSUME NEW p, NEW q, Mourn(p, q) PROVE core'[t] = "gone"
    BY <2>7 DEF Mourn
  <2>8. CASE Deliver
    <3>1. CASE stop_reply_queue = <<>>
      BY <2>8, <3>1 DEF Deliver
    <3>2. CASE stop_reply_queue # <<>>
      <4> DEFINE e == Head(stop_reply_queue)
      <4>1. e \in Event /\ Fetched(e)
        BY <3>2, Typing, TailFacts DEF IInv, Fetched, In
      <4>2. CASE e.thread = None
        BY <2>7, <2>8, <3>2, <4>2 DEF Deliver
      <4>3. CASE e.thread # None
        <5>1. core' = [core EXCEPT ![e.thread] = "stopped"]
          BY <2>8, <3>2, <4>3 DEF Deliver
        <5>2. e = Stopped(e.thread)
          BY <4>1, <4>3, EventFacts
        <5>3. e.thread # t
          BY <2>1, <4>1, <5>2
        <5> QED
          BY <2>1, <5>1, <5>3
      <4> QED
        BY <4>2, <4>3
    <3> QED
      BY <3>1, <3>2
  <2>9. CASE Answered
    BY <2>7, <2>9 DEF Answered
  <2>10. CASE UNCHANGED vars
    BY <2>10 DEF vars
  <2> QED
    BY <2>2, <2>3, <2>4, <2>5, <2>6, <2>8, <2>9, <2>10 DEF Next, Client
<1> QED
  BY <1>1, SpecIInv, PTL DEF Spec, GoneForGood

-----------------------------------------------------------------------------
(* While every process is there, what is announced or replied and not yet  *)
(* acknowledged is the head of gdbserver's queue: there is one such event  *)
(* at a time, and none while a vStopped is under way.                      *)
IsEvent(m) == m.type \in {"notif", "reply"}
Announced ==
  /\ pending_event # None => queue # <<>> /\ queue[1] = pending_event
  /\ \A i \in DOMAIN down : IsEvent(down[i]) =>
       queue # <<>> /\ queue[1] = down[i].event /\ pending_event = None
  /\ \A i, j \in DOMAIN down : IsEvent(down[i]) /\ IsEvent(down[j]) => i = j
  /\ request.type = "vStopped" => pending_event = None /\ down = <<>>

Remembered ==
  \A t \in Thread :
    state[t] = "stopped" /\ core[t] = "running" =>
      \/ Waits(Stopped(t)) \/ Fetched(Stopped(t))
      \/ request.type = "vCont" /\ t \in request.arg
Acked ==
  request.type = "vStopped" =>
    queue # <<>> /\ stop_reply_queue # <<>> /\ queue[1] = stop_reply_queue[Len(stop_reply_queue)]

BInv == Announced /\ Remembered /\ Acked

(* A process that went away does not come back.                            *)
LEMMA AllThereBefore == IInv /\ [Next]_vars /\ AllThere' => AllThere
<1> SUFFICES ASSUME IInv, [Next]_vars, NEW t \in Thread, state[t] = "gone" PROVE state'[t] = "gone"
  BY DEF AllThere
<1> USE DEF server
<1>1. state \in [Thread -> {"running", "stopped", "gone"}]
  BY DEF IInv, TypeOK
<1>2. ASSUME NEW u \in Thread, Stop(u) PROVE state'[t] = "gone"
  BY <1>1, <1>2 DEF Stop
<1>3. ASSUME NEW p \in Process, Exit(p) \/ Kill(p) PROVE state'[t] = "gone"
  BY <1>1, <1>3 DEF Exit, Kill
<1>4. CASE HandleAck \/ HandleCont \/ HandleKill
  BY <1>1, <1>4 DEF HandleAck, HandleCont, HandleKill
<1>5. CASE Resume \/ ReadNotification \/ ProcessNotifications \/ Fetch \/ FetchNext \/ Deliver \/ Answered
  BY <1>5 DEF Resume, ReadNotification, ProcessNotifications, Fetch, FetchNext, Deliver, Answered
<1>6. CASE UNCHANGED vars
  BY <1>6 DEF vars
<1> QED
  BY <1>2, <1>3, <1>4, <1>5, <1>6 DEF Next, Server, Client

LEMMA StopBInv == ASSUME IInv, BInv, NEW t \in Thread, Stop(t) PROVE BInv'
<1> DEFINE e == Stopped(t)
<1>1. /\ state' = [state EXCEPT ![t] = "stopped"] /\ Push(queue, e)
      /\ request' = request /\ pending_event' = pending_event
      /\ stop_reply_queue' = stop_reply_queue /\ core' = core
  BY DEF Stop, client
<1>2. e \in Event /\ down \in Seq(Messages) /\ queue \in Seq(Event) /\ stop_reply_queue \in Seq(Event)
  BY EventFacts, Typing DEF IInv
<1>3. /\ queue' # <<>> /\ Len(queue) \in Nat
      /\ DOMAIN queue = 1..Len(queue) /\ DOMAIN queue' = 1..(Len(queue) + 1)
      /\ \A i \in 1..Len(queue) : queue'[i] = queue[i]
      /\ queue'[Len(queue) + 1] = e
      /\ queue = <<>> <=> Len(queue) = 0
      /\ queue # <<>> => down' = down
  BY <1>1, <1>2, PushFacts
<1>4. /\ \A i \in DOMAIN down : i \in DOMAIN down' /\ down'[i] = down[i]
      /\ \A i \in DOMAIN down' \ DOMAIN down : i = Len(down) + 1 /\ down'[i].event = e
  BY <1>1, <1>2, PushFacts
<1>5. \A x : Waits(x)' <=> Waits(x) \/ x = e
  BY <1>3 DEF Waits, In
<1>6. Announced' /\ Acked'
  <2>1. CASE queue = <<>>
    <3>1. queue'[1] = e
      BY <1>3, <2>1
    <3>2. /\ pending_event = None /\ request.type # "vStopped"
          /\ \A i \in DOMAIN down : ~IsEvent(down[i])
      BY <2>1 DEF BInv, Announced, Acked
    <3>3. Acked'
      BY <1>1, <3>2 DEF Acked
    <3>4. Announced'
      BY <1>1, <1>3, <1>4, <3>1, <3>2 DEF Announced, IsEvent
    <3> QED
      BY <3>3, <3>4
  <2>2. CASE queue # <<>>
    <3>1. queue'[1] = queue[1] /\ down' = down
      BY <1>3, <2>2
    <3>2. Acked'
      BY <1>1, <1>3, <3>1 DEF BInv, Acked
    <3>3. Announced'
      BY <1>1, <1>3, <3>1 DEF BInv, Announced, IsEvent
    <3> QED
      BY <3>2, <3>3
  <2> QED
    BY <2>1, <2>2
<1>7. Remembered'
  <2>1. \A x : Fetched(x)' <=> Fetched(x)
    BY <1>1 DEF Fetched
  <2>2. \A u \in Thread : state'[u] = IF u = t THEN "stopped" ELSE state[u]
    BY <1>1 DEF IInv, TypeOK
  <2> QED
    BY <1>1, <1>5, <2>1, <2>2 DEF BInv, Remembered
<1> QED
  BY <1>6, <1>7 DEF BInv

LEMMA HandleAckBInv == ASSUME IInv, BInv, HandleAck PROVE BInv'
<1>1. /\ request.type = "vStopped" /\ state' = state /\ pending_event' = pending_event
      /\ stop_reply_queue' = stop_reply_queue /\ core' = core
  BY DEF HandleAck, client
<1>2. request # NoRequest /\ NoRequest.type = "none"
  BY <1>1 DEF NoRequest
<1>3. /\ pending_event = None /\ down = <<>>
      /\ queue # <<>> /\ stop_reply_queue # <<>> /\ queue[1] = stop_reply_queue[Len(stop_reply_queue)]
  BY <1>1 DEF BInv, Announced, Acked
<1>4. Fetched(queue[1])
  <2>1. stop_reply_queue \in Seq(Event)
    BY Typing DEF IInv
  <2>2. Len(stop_reply_queue) \in DOMAIN stop_reply_queue
    BY <1>3, <2>1, TailFacts
  <2> QED
    BY <1>3, <2>2 DEF Fetched, In
<1>5. /\ queue' # <<>> => Head(queue') = queue'[1] /\ queue'[1] \in Event
      /\ \A x : Waits(x) /\ queue[1] # x => Waits(x)'
  BY HandleAckFacts
<1>6. PICK type \in {"reply", "OK"}, e \in Event \cup {None} :
        Answer(type, e) /\ (type = "reply" => queue' # <<>> /\ queue'[1] = e)
  <2>1. CASE queue' = <<>>
    BY <2>1 DEF HandleAck
  <2>2. CASE queue' # <<>>
    <3>1. Answer("reply", queue'[1])
      BY <1>5, <2>2 DEF HandleAck
    <3> QED
      BY <1>5, <2>2, <3>1
  <2> QED
    BY <2>1, <2>2
<1>7. /\ request' = NoRequest
      /\ \A i \in DOMAIN down' \ DOMAIN down :
           down'[i].type = type /\ down'[i].event = e /\ i = Len(down) + 1
  <2>1. Answer(type, e) /\ type \in {"reply", "OK", "E01"}
    BY <1>6
  <2> QED
    BY <1>2, <2>1, AnswerFacts
<1>8. DOMAIN down = {}
  BY <1>3
<1>9. Announced'
  BY <1>1, <1>2, <1>3, <1>6, <1>7, <1>8 DEF Announced, IsEvent
<1>10. Remembered'
  <2>1. \A x : Fetched(x)' <=> Fetched(x)
    BY <1>1 DEF Fetched
  <2> QED
    BY <1>1, <1>4, <1>5, <2>1 DEF BInv, Remembered
<1> QED
  BY <1>2, <1>7, <1>9, <1>10 DEF BInv, Acked

(* A request that does not take anything off the queue is answered.        *)
LEMMA AnswerBInv ==
  ASSUME IInv, BInv, request # NoRequest, queue' = queue,
         NEW type \in {"OK", "E01"}, Answer(type, None), UNCHANGED client,
         \A t \in Thread : state'[t] = "stopped" =>
           state[t] = "stopped" /\ (request.type = "vCont" /\ t \in request.arg => Waits(Stopped(t)))
  PROVE  BInv'
<1>1. pending_event' = pending_event /\ stop_reply_queue' = stop_reply_queue /\ core' = core
  BY DEF client
<1>2. /\ request' = NoRequest /\ NoRequest.type = "none"
      /\ \A i \in DOMAIN down : down'[i] = down[i]
      /\ \A i \in DOMAIN down' \ DOMAIN down : down'[i].type = type
  <2>1. type \in {"reply", "OK", "E01"} /\ None \in Event \cup {None}
    OBVIOUS
  <2>2. NoRequest.type = "none"
    BY DEF NoRequest
  <2> QED
    BY <2>1, <2>2, AnswerFacts
<1>3. \A i \in DOMAIN down' : IsEvent(down'[i]) => i \in DOMAIN down /\ IsEvent(down[i]) /\ down'[i] = down[i]
  BY <1>2 DEF IsEvent
<1>4. Announced'
  BY <1>1, <1>2, <1>3 DEF BInv, Announced
<1>5. \A x : (Fetched(x)' <=> Fetched(x)) /\ (Waits(x)' <=> Waits(x))
  BY <1>1 DEF Fetched, Waits
<1>6. Remembered'
  BY <1>1, <1>5 DEF BInv, Remembered
<1> QED
  BY <1>2, <1>4, <1>6 DEF BInv, Acked

LEMMA HandleContBInv == ASSUME IInv, BInv, HandleCont PROVE BInv'
<1>1. /\ request.type = "vCont" /\ Answer("OK", None) /\ queue' = queue /\ UNCHANGED client
      /\ state' = [t \in Thread |->
                     IF t \in request.arg /\ state[t] = "stopped" /\ ~Queued(t) THEN "running" ELSE state[t]]
  BY DEF HandleCont
<1>2. \A t \in Thread : state'[t] = "stopped" =>
        state[t] = "stopped" /\ (request.type = "vCont" /\ t \in request.arg => Waits(Stopped(t)))
  BY <1>1 DEF Queued, Waits, In
<1>3. request # NoRequest
  BY <1>1 DEF NoRequest
<1> QED
  BY <1>1, <1>2, <1>3, AnswerBInv

LEMMA HandleKillBInv == ASSUME IInv, BInv, HandleKill, AllThere' PROVE BInv'
<1>1. request.type = "vKill" /\ UNCHANGED client /\ awaited = request
  BY DEF HandleKill, IInv, Link, NoRequest
<1>2. PICK p \in Process : request.arg = {p}
  BY <1>1 DEF IInv, Link
<1>3. CASE \E t \in ThreadsOf(p) : state[t] # "gone"
  <2>1. state' = [t \in Thread |-> IF Pid[t] = p THEN "gone" ELSE state[t]]
    BY <1>2, <1>3 DEF HandleKill
  <2> QED
    BY <1>3, <2>1 DEF AllThere, ThreadsOf
<1>4. CASE ~\E t \in ThreadsOf(p) : state[t] # "gone"
  <2>1. Answer("E01", None) /\ state' = state /\ queue' = queue
    BY <1>2, <1>4 DEF HandleKill, server
  <2>2. request # NoRequest
    BY <1>1 DEF NoRequest
  <2> QED
    BY <1>1, <2>1, <2>2, AnswerBInv
<1> QED
  BY <1>3, <1>4

(* The announcement that is taken off the connection is the only one.      *)
LEMMA AnnouncementTaken ==
  ASSUME IInv, BInv, down # <<>>, IsEvent(Head(down)), down' = Tail(down)
  PROVE  /\ pending_event = None /\ queue # <<>> /\ queue[1] = Head(down).event
         /\ request.type # "vStopped"
         /\ \A i \in DOMAIN down' : ~IsEvent(down'[i])
<1>1. /\ DOMAIN down' \subseteq Nat \ {0} /\ 1 \in DOMAIN down /\ Head(down) = down[1]
      /\ \A i \in DOMAIN down' : i + 1 \in DOMAIN down /\ down'[i] = down[i + 1]
  BY TakeFacts
<1>2. \A i \in DOMAIN down' : i + 1 \in DOMAIN down /\ i + 1 # 1
  BY <1>1
<1> QED
  BY <1>1, <1>2 DEF BInv, Announced

LEMMA ReadNotificationBInv == ASSUME IInv, BInv, ReadNotification PROVE BInv'
<1>1. /\ down # <<>> /\ Head(down).type = "notif" /\ down' = Tail(down) /\ Notice(Head(down).event)
      /\ state' = state /\ queue' = queue /\ request' = request
      /\ stop_reply_queue' = stop_reply_queue /\ core' = core
  BY DEF ReadNotification, server
<1>2. /\ pending_event = None /\ queue # <<>> /\ queue[1] = Head(down).event
      /\ request.type # "vStopped"
      /\ \A i \in DOMAIN down' : ~IsEvent(down'[i])
  BY <1>1, AnnouncementTaken DEF IsEvent
<1>3. pending_event' = Head(down).event
  BY <1>1, <1>2 DEF Notice
<1>4. Announced' /\ Acked'
  BY <1>1, <1>2, <1>3 DEF Announced, IsEvent, Acked
<1>5. Remembered'
  BY <1>1 DEF BInv, Remembered, Waits, Fetched
<1> QED
  BY <1>4, <1>5 DEF BInv

(* The head of gdbserver's queue is acknowledged.                          *)
LEMMA AcknowledgeBInv ==
  ASSUME IInv, BInv, NEW e \in Event, Acknowledge(e), queue # <<>>, queue[1] = e,
         request = NoRequest, down' = <<>>, pending_event' = None,
         state' = state, queue' = queue, core' = core
  PROVE  BInv'
<1>1. /\ request' = Packet("vStopped", {}) /\ stop_reply_queue' = Append(stop_reply_queue, e)
      /\ Packet("vStopped", {}).type = "vStopped" /\ NoRequest.type = "none"
  BY DEF Acknowledge, Send, Packet, NoRequest
<1>2. stop_reply_queue \in Seq(Event)
  BY Typing DEF IInv
<1> DEFINE n == Len(stop_reply_queue)
<1>3. /\ n \in Nat /\ stop_reply_queue' # <<>> /\ Len(stop_reply_queue') = n + 1
      /\ DOMAIN stop_reply_queue = 1..n /\ DOMAIN stop_reply_queue' = 1..(n + 1)
      /\ \A i \in 1..n : stop_reply_queue'[i] = stop_reply_queue[i]
      /\ stop_reply_queue'[n + 1] = e
  BY <1>1, <1>2
<1> HIDE DEF n
<1>4. \A x : Fetched(x) => Fetched(x)'
  BY <1>3 DEF Fetched, In
<1>5. DOMAIN down' = {}
  OBVIOUS
<1>6. Announced' /\ Acked'
  BY <1>3, <1>5 DEF Announced, Acked
<1>7. Remembered'
  BY <1>1, <1>4 DEF BInv, Remembered, Waits
<1> QED
  BY <1>6, <1>7 DEF BInv

LEMMA FetchBInv == ASSUME IInv, BInv, Fetch PROVE BInv'
<1>1. awaited = NoRequest /\ pending_event' = None /\ state' = state /\ queue' = queue /\ core' = core
  BY DEF Fetch, Idle, server
<1>2. request = NoRequest /\ \A i \in DOMAIN down : IsNotif(down[i]) /\ down[i].event \in Event
  BY <1>1 DEF IInv, Link, IsNotif, NoRequest
<1>3. CASE /\ down # <<>> /\ down' = Tail(down)
           /\ Acknowledge(IF pending_event = None THEN Head(down).event ELSE pending_event)
  <2>1. /\ down' \in Seq(Messages) /\ 1 \in DOMAIN down /\ Head(down) = down[1]
        /\ \A i \in DOMAIN down' : i + 1 \in DOMAIN down /\ down'[i] = down[i + 1]
    BY <1>3, TakeFacts
  <2>2. IsEvent(Head(down))
    BY <1>2, <2>1 DEF IsEvent, IsNotif
  <2>3. /\ pending_event = None /\ queue # <<>> /\ queue[1] = Head(down).event
        /\ \A i \in DOMAIN down' : ~IsEvent(down'[i])
    BY <1>3, <2>2, AnnouncementTaken
  <2>4. DOMAIN down' = {}
    BY <1>2, <2>1, <2>3 DEF IsEvent, IsNotif
  <2>5. down' = <<>>
    BY <2>1, <2>4
  <2>6. Acknowledge(Head(down).event) /\ Head(down).event \in Event
    BY <1>2, <1>3, <2>1, <2>3
  <2> QED
    BY <1>1, <1>2, <2>3, <2>5, <2>6, AcknowledgeBInv
<1>4. CASE down = <<>> /\ pending_event # None /\ Acknowledge(pending_event) /\ down' = down
  <2>1. pending_event \in Event /\ queue # <<>> /\ queue[1] = pending_event
    BY <1>4 DEF IInv, TypeOK, BInv, Announced
  <2> QED
    BY <1>1, <1>2, <1>4, <2>1, AcknowledgeBInv
<1> QED
  BY <1>3, <1>4 DEF Fetch

(* An answer that is not an event is taken.                                *)
LEMMA AnswerTakenBInv ==
  ASSUME IInv, BInv, down # <<>>, ~IsEvent(Head(down)), down' = Tail(down),
         request' = request, state' = state, queue' = queue, request.type # "vStopped",
         pending_event' \in {None, pending_event},
         \A t \in Thread : core'[t] = core[t] /\ (Fetched(Stopped(t)) => Fetched(Stopped(t))')
  PROVE  BInv'
<1>1. /\ DOMAIN down' \subseteq Nat \ {0}
      /\ \A i \in DOMAIN down' : i + 1 \in DOMAIN down /\ down'[i] = down[i + 1]
  BY TakeFacts
<1>2. \A i, j \in DOMAIN down' : i + 1 = j + 1 => i = j
  BY <1>1
<1>3. Announced' /\ Acked'
  BY <1>1, <1>2 DEF BInv, Announced, Acked
<1>4. Remembered'
  BY DEF BInv, Remembered, Waits
<1> QED
  BY <1>3, <1>4 DEF BInv

LEMMA FetchNextBInv == ASSUME IInv, BInv, FetchNext PROVE BInv'
<1>1. /\ awaited.type = "vStopped" /\ down # <<>> /\ Head(down).type # "notif" /\ down' = Tail(down)
      /\ state' = state /\ queue' = queue /\ pending_event' = pending_event /\ core' = core
  BY DEF FetchNext, server
<1>2. /\ down' \in Seq(Messages) /\ DOMAIN down' \subseteq Nat \ {0} /\ 1 \in DOMAIN down /\ Head(down) = down[1]
      /\ \A i \in DOMAIN down' : i + 1 \in DOMAIN down /\ down'[i] = down[i + 1]
  BY <1>1, TakeFacts
<1>3. request = NoRequest /\ NoRequest.type = "none"
  BY <1>1, <1>2 DEF IInv, Link, IsNotif, NoRequest
<1>4. CASE Head(down).type = "reply"
  <2>1. Acknowledge(Head(down).event) /\ Head(down).event \in Event
    BY <1>2, <1>4 DEF FetchNext, IInv, Link
  <2>2. /\ pending_event = None /\ queue # <<>> /\ queue[1] = Head(down).event
        /\ \A i \in DOMAIN down' : ~IsEvent(down'[i])
    BY <1>1, <1>4, AnnouncementTaken DEF IsEvent
  <2>3. \A i \in DOMAIN down' : i + 1 \in DOMAIN down /\ i + 1 # 1
    BY <1>2
  <2>4. \A i \in DOMAIN down' : IsNotif(down'[i])
    BY <1>1, <1>2, <2>3 DEF IInv, Link, IsNotif
  <2>5. DOMAIN down' = {}
    BY <2>2, <2>4 DEF IsEvent, IsNotif
  <2>6. down' = <<>>
    BY <1>2, <2>5
  <2> QED
    BY <1>1, <1>3, <2>1, <2>2, <2>6, AcknowledgeBInv
<1>5. CASE Head(down).type # "reply"
  <2>1. request' = request /\ stop_reply_queue' = stop_reply_queue
    BY <1>5 DEF FetchNext
  <2>2. ~IsEvent(Head(down))
    BY <1>1, <1>5 DEF IsEvent
  <2>3. \A x : Fetched(x)' <=> Fetched(x)
    BY <2>1 DEF Fetched
  <2> QED
    BY <1>1, <1>3, <2>1, <2>2, <2>3, AnswerTakenBInv
<1> QED
  BY <1>4, <1>5

LEMMA AnsweredBInv == ASSUME IInv, BInv, AllThere, Answered PROVE BInv'
<1>1. /\ awaited.type \in {"vCont", "vKill"}
      /\ down # <<>> /\ Head(down).type # "notif" /\ down' = Tail(down)
      /\ state' = state /\ queue' = queue /\ request' = request
  BY DEF Answered, server
<1>2. TypeOK /\ stop_reply_queue \in Seq(Event) /\ 1 \in DOMAIN down /\ Head(down) = down[1]
  BY <1>1, Typing, TakeFacts DEF IInv
<1>3. request = NoRequest /\ NoRequest.type = "none"
  BY <1>1, <1>2 DEF IInv, Link, IsNotif, NoRequest
<1>4. ~IsEvent(Head(down))
  BY <1>1, <1>2 DEF IInv, Link, IsEvent
<1>5. CASE awaited.type = "vKill" /\ Head(down).type = "OK"
  <2>1. PICK p \in Process : awaited.arg = {p} /\ Mourn(p, stop_reply_queue)
    BY <1>5 DEF Answered, IInv, Link
  <2>2. /\ pending_event' \in {None, pending_event}
        /\ \A t \in Thread : core'[t] = IF Pid[t] = p THEN "gone" ELSE core[t]
        /\ \A x : In(stop_reply_queue', x) <=> In(stop_reply_queue, x) /\ x.pid # p
    BY <1>2, <2>1, MournFacts
  <2>3. \A t \in Thread : Pid[t] # p
    BY <1>2, <1>5, <2>1 DEF IInv, KillAnswered, AllThere
  <2>4. \A t \in Thread : core'[t] = core[t] /\ (Fetched(Stopped(t)) => Fetched(Stopped(t))')
    BY <2>2, <2>3, EventFacts DEF Fetched
  <2> QED
    BY <1>1, <1>3, <1>4, <2>2, <2>4, AnswerTakenBInv
<1>6. CASE ~(awaited.type = "vKill" /\ Head(down).type = "OK")
  <2>1. core' = core /\ stop_reply_queue' = stop_reply_queue /\ pending_event' = pending_event
    BY <1>6 DEF Answered
  <2>2. \A t \in Thread : core'[t] = core[t] /\ (Fetched(Stopped(t)) => Fetched(Stopped(t))')
    BY <2>1 DEF Fetched
  <2> QED
    BY <1>1, <1>3, <1>4, <2>1, <2>2, AnswerTakenBInv
<1> QED
  BY <1>5, <1>6

LEMMA DeliverBInv == ASSUME IInv, BInv, AllThere, Deliver PROVE BInv'
<1> DEFINE q == Tail(stop_reply_queue)
           e == Head(stop_reply_queue)
<1>1. /\ awaited = NoRequest /\ down = <<>> /\ pending_event = None
      /\ state' = state /\ queue' = queue /\ request' = request /\ down' = down
  BY DEF Deliver, Idle, server, link
<1>2. request = NoRequest /\ NoRequest.type = "none" /\ DOMAIN down = {}
  BY <1>1 DEF IInv, Link, NoRequest
<1>3. TypeOK /\ stop_reply_queue \in Seq(Event)
  BY Typing DEF IInv
(* Whatever else is forgotten, infrun has been told of.                    *)
<1>4. ASSUME pending_event' \in {None, pending_event},
             \A t \in Thread :
               \/ core'[t] = "stopped"
               \/ core'[t] = core[t] /\ (Fetched(Stopped(t)) => Fetched(Stopped(t))')
      PROVE  BInv'
  <2>1. Announced' /\ Acked'
    BY <1>1, <1>2, <1>4 DEF Announced, Acked
  <2>2. Remembered'
    BY <1>1, <1>4 DEF BInv, Remembered, Waits
  <2> QED
    BY <2>1, <2>2 DEF BInv
<1>5. CASE stop_reply_queue = <<>>
  <2>1. core' = core /\ stop_reply_queue' = stop_reply_queue /\ pending_event' = pending_event
    BY <1>5 DEF Deliver
  <2> QED
    BY <1>4, <2>1 DEF Fetched
<1>6. CASE stop_reply_queue # <<>>
  <2> DEFINE n == Len(stop_reply_queue)
  <2>1. /\ q \in Seq(Event) /\ n \in Nat /\ n > 0
        /\ DOMAIN stop_reply_queue = 1..n /\ DOMAIN q = 1..(n - 1)
        /\ \A i \in 1..(n - 1) : q[i] = stop_reply_queue[i + 1]
        /\ e = stop_reply_queue[1] /\ e \in Event
    BY <1>3, <1>6, TailFacts
  <2>2. /\ e.thread = None => Mourn(e.pid, q)
        /\ e.thread # None => /\ core' = [core EXCEPT ![e.thread] = "stopped"]
                              /\ stop_reply_queue' = q
                              /\ pending_event' = pending_event
    BY <1>6 DEF Deliver
  <2> HIDE DEF q, e, n
  <2>3. \A x : Fetched(x) /\ x # e => In(q, x)
    <3> SUFFICES ASSUME NEW i \in 1..n, stop_reply_queue[i] # e PROVE In(q, stop_reply_queue[i])
      BY <2>1 DEF Fetched, In
    <3>1. i - 1 \in 1..(n - 1) /\ i - 1 + 1 = i
      BY <2>1
    <3>2. q[i - 1] = stop_reply_queue[i]
      BY <2>1, <3>1
    <3> QED
      BY <2>1, <3>1, <3>2 DEF In
  <2>4. CASE \E t \in Thread : e = Stopped(t)
    <3>1. PICK t \in Thread : e = Stopped(t)
      BY <2>4
    <3>2. core' = [core EXCEPT ![t] = "stopped"] /\ stop_reply_queue' = q /\ pending_event' = pending_event
      BY <2>2, <3>1, EventFacts
    <3>3. core'[t] = "stopped" /\ \A u \in Thread : u # t => core'[u] = core[u]
      BY <1>3, <3>2 DEF TypeOK
    <3>4. \A u \in Thread : u # t => Stopped(u) # e
      BY <3>1, EventFacts
    <3>5. \A u \in Thread : u # t /\ Fetched(Stopped(u)) => Fetched(Stopped(u))'
      BY <2>3, <3>2, <3>4 DEF Fetched
    <3> QED
      BY <1>4, <3>2, <3>3, <3>5
  <2>5. CASE \E p \in Process : e = Exited(p)
    <3>1. PICK p \in Process : e = Exited(p)
      BY <2>5
    <3>2. Mourn(p, q)
      BY <2>2, <3>1, EventFacts
    <3>3. /\ pending_event' \in {None, pending_event}
          /\ \A t \in Thread : core'[t] = IF Pid[t] = p THEN "gone" ELSE core[t]
          /\ \A x : In(stop_reply_queue', x) <=> In(q, x) /\ x.pid # p
      BY <1>3, <2>1, <3>2, MournFacts
    <3>4. Fetched(e)
      BY <2>1 DEF Fetched, In
    <3>5. \A t \in Thread : Pid[t] # p
      BY <3>1, <3>4 DEF IInv, ExitedGone, Seen, AllThere
    <3>6. \A t \in Thread : Fetched(Stopped(t)) => Fetched(Stopped(t))'
      BY <2>3, <3>1, <3>3, <3>5, EventFacts DEF Fetched
    <3> QED
      BY <1>4, <3>3, <3>5, <3>6
  <2> QED
    BY <2>1, <2>4, <2>5, EventFacts
<1> QED
  BY <1>5, <1>6

(* gdb sends a request other than vStopped.                                *)
LEMMA RequestBInv ==
  ASSUME IInv, BInv, request.type # "vStopped", request'.type # "vStopped",
         state' = state, queue' = queue, down' = down, pending_event' = pending_event,
         stop_reply_queue' = stop_reply_queue,
         \A t \in Thread : core'[t] = core[t] \/ (request'.type = "vCont" /\ t \in request'.arg),
         request.type # "vCont"
  PROVE  BInv'
<1>1. Announced' /\ Acked'
  BY DEF BInv, Announced, Acked
<1>2. Remembered'
  BY DEF BInv, Remembered, Waits, Fetched
<1> QED
  BY <1>1, <1>2 DEF BInv

LEMMA ResumeBInv == ASSUME IInv, BInv, Resume PROVE BInv'
<1>1. /\ awaited = NoRequest
      /\ state' = state /\ queue' = queue /\ down' = down /\ pending_event' = pending_event
      /\ stop_reply_queue' = stop_reply_queue
  BY DEF Resume, Idle, server
<1>2. PICK ts \in SUBSET Thread :
        /\ Send("vCont", ts)
        /\ core' = [u \in Thread |-> IF u \in ts /\ core[u] = "stopped" THEN "running" ELSE core[u]]
  BY DEF Resume, ThreadsOf
<1>3. request = NoRequest /\ NoRequest.type = "none" /\ request'.type = "vCont" /\ request'.arg = ts
  BY <1>1, <1>2 DEF IInv, Link, NoRequest, Send, Packet
<1>4. \A t \in Thread : core'[t] = core[t] \/ t \in ts
  BY <1>2
<1> QED
  BY <1>1, <1>3, <1>4, RequestBInv

LEMMA KillBInv == ASSUME IInv, BInv, NEW p \in Process, Kill(p) PROVE BInv'
<1>1. /\ awaited = NoRequest /\ Send("vKill", {p})
      /\ state' = state /\ queue' = queue /\ down' = down /\ pending_event' = pending_event
      /\ stop_reply_queue' = stop_reply_queue /\ core' = core
  BY DEF Kill, Idle, server
<1>2. request = NoRequest /\ NoRequest.type = "none" /\ request'.type = "vKill"
  BY <1>1 DEF IInv, Link, NoRequest, Send, Packet
<1> QED
  BY <1>1, <1>2, RequestBInv

LEMMA NextBInv == IInv /\ [Next]_vars /\ (AllThere => BInv) => (AllThere => BInv)'
<1> SUFFICES ASSUME IInv, [Next]_vars, AllThere => BInv, AllThere' PROVE BInv'
  OBVIOUS
<1>1. AllThere /\ BInv
  BY AllThereBefore
<1>2. ASSUME NEW t \in Thread, Stop(t) PROVE BInv'
  BY <1>1, <1>2, StopBInv
<1>3. ASSUME NEW p \in Process, Exit(p) PROVE BInv'
  BY <1>3 DEF Exit, AllThere, ThreadsOf
<1>4. ASSUME NEW p \in Process, Kill(p) PROVE BInv'
  BY <1>1, <1>4, KillBInv
<1>5. CASE Resume
  BY <1>1, <1>5, ResumeBInv
<1>6. CASE Server
  BY <1>1, <1>6, HandleAckBInv, HandleContBInv, HandleKillBInv DEF Server
<1>7. CASE ProcessNotifications \/ UNCHANGED vars
  <2>1. /\ state' = state /\ queue' = queue /\ request' = request /\ down' = down
        /\ pending_event' = pending_event /\ stop_reply_queue' = stop_reply_queue /\ core' = core
    BY <1>7 DEF ProcessNotifications, vars, server, link, client
  <2> QED
    BY <1>1, <2>1 DEF BInv, Announced, Remembered, Acked, Waits, Fetched
<1>8. CASE ReadNotification \/ Fetch \/ FetchNext
  BY <1>1, <1>8, ReadNotificationBInv, FetchBInv, FetchNextBInv
<1>9. CASE Deliver \/ Answered
  BY <1>1, <1>9, DeliverBInv, AnsweredBInv
<1> QED
  BY <1>2, <1>3, <1>4, <1>5, <1>6, <1>7, <1>8, <1>9 DEF Next, Client

LEMMA SpecBInv == Spec => [](IInv /\ (AllThere => BInv))
<1>1. Init => BInv
  BY DEF Init, BInv, Announced, Remembered, Acked, NoRequest
<1> QED
  BY <1>1, SpecIInv, NextBInv, PTL DEF Spec

(* As long as no process went away, a stop that infrun has not heard of is *)
(* queued in gdbserver or in gdb, or the thread is about to be resumed:    *)
(* whichever way notifications, vStopped and its answers interleave, no    *)
(* acknowledgement takes a stop that gdb has not queued.                   *)
THEOREM NoStopForgottenCorrect == Spec => []NoStopForgotten
<1>1. IInv /\ (AllThere => BInv) => NoStopForgotten
  <2> SUFFICES ASSUME AllThere => BInv, NEW t \in Thread,
                      AllThere, state[t] = "stopped", core[t] = "running"
               PROVE  InQueues(Stopped(t)) \/ (request.type = "vCont" /\ t \in request.arg)
    BY DEF NoStopForgotten
  <2>1. Waits(Stopped(t)) \/ Fetched(Stopped(t)) \/ (request.type = "vCont" /\ t \in request.arg)
    BY DEF BInv, Remembered
  <2> QED
    BY <2>1 DEF InQueues, Range, Waits, Fetched, In
<1> QED
  BY <1>1, SpecBInv, PTL

(* What handle_notif_ack takes off the head of the queue is the event that *)
(* gdb has queued last, as long as no process went away.                   *)
THEOREM AcknowledgesCorrect == Spec => []AcknowledgesWhatItSaw
<1>1. IInv /\ (AllThere => BInv) => AcknowledgesWhatItSaw
  <2> SUFFICES ASSUME IInv, BInv, request.type = "vStopped"
               PROVE  queue # <<>> /\ stop_reply_queue # <<>> /\ Head(queue) = Last(stop_reply_queue)
    BY DEF AcknowledgesWhatItSaw
  <2>1. queue # <<>> /\ stop_reply_queue # <<>> /\ queue[1] = stop_reply_queue[Len(stop_reply_queue)]
    BY DEF BInv, Acked
  <2>2. Head(queue) = queue[1]
    BY <2>1, Typing, TailFacts DEF IInv
  <2> QED
    BY <2>1, <2>2 DEF Last
<1> QED
  BY <1>1, SpecBInv, PTL
=============================================================================
