-------------------------- MODULE ThreadPoolProofs --------------------------
(***************************************************************************)
(* Proofs about ThreadPool, for any threads, ranges and limits.            *)
(***************************************************************************)
EXTENDS ThreadPool, FiniteSetTheorems, SequenceTheorems, TLAPS

Exits(q) == {i \in DOMAIN q : q[i] = Exit}
Alive == {w \in Threads : pc[w] # "none"}

(* The chunks that are posted and not processed, by who holds them.        *)
Posted == {i \in DOMAIN m_tasks : m_tasks[i] # Exit}
Busy == {w \in Threads : pc[w] = "run"}

(* The elements the loop has handed out, and the subranges it has posted.  *)
Given == IF main = "post" THEN loop.first - 1 ELSE loop.last
PostedSoFar == IF main = "post" THEN loop.i - 1 ELSE IF main = "join" THEN loop.tasks ELSE 0

(* A chunk that is pending is one of this loop's, and is not processed yet *)
Fresh == {c \in Chunk : 1 <= c.slot /\ c.slot <= PostedSoFar /\ c.slot \notin ready /\ c.last <= Given}
Apart(c, d) == c.slot # d.slot /\ \A e \in Elements : ~(Covers(c, e) /\ Covers(d, e))

PendingFresh ==
  /\ \A i \in Posted : m_tasks[i] \in Fresh
  /\ \A w \in Busy : running[w] \in Fresh
PendingApart ==
  /\ \A i, j \in Posted : i # j => Apart(m_tasks[i], m_tasks[j])
  /\ \A w, v \in Busy : w # v => Apart(running[w], running[v])
  /\ \A i \in Posted, w \in Busy : Apart(m_tasks[i], running[w])

Pending(e) ==
  \/ \E i \in Posted : Covers(m_tasks[i], e)
  \/ \E w \in Busy : Covers(running[w], e)

ProcessedOnce ==
  \A e \in Elements : processed[e] = IF e <= Given /\ ~Pending(e) THEN 1 ELSE 0

LoopInRange ==
  /\ loop.last <= MaxElements
  /\ main # "idle" => loop.i \in 1..(loop.tasks + 1) /\ loop.tasks < LocalMax
  /\ main = "post" =>
       /\ loop.first = 1 + (loop.i - 1) * loop.size
       /\ loop.tasks * loop.size <= loop.last
Joined == main = "join" => 1..(loop.i - 1) \subseteq ready
ReadyPosted == main # "idle" => \A slot \in ready : slot <= PostedSoFar

IInv == TypeOK /\ LoopInRange /\ Joined /\ ReadyPosted /\ PendingFresh /\ PendingApart /\ ProcessedOnce

-----------------------------------------------------------------------------
LEMMA DivBounds ==
  ASSUME NEW n \in Nat, NEW t \in Nat \ {0}
  PROVE  n \div t \in Nat /\ t * (n \div t) <= n /\ n < t * ((n \div t) + 1)
OBVIOUS

LEMMA TimesMonotonic ==
  ASSUME NEW a \in Nat, NEW b \in Nat, NEW c \in Nat, a <= b
  PROVE  a * c <= b * c
OBVIOUS

(* The number of subranges is limited by the array of futures.             *)
LEMMA ThreadsForBounds ==
  ASSUME NEW n \in Nat, m_thread_count \in Nat
  PROVE  ThreadsFor(n) \in 1..LocalMax
<1> DEFINE t == MinOf(m_thread_count, LocalMax)
<1>1. t \in Nat /\ t <= LocalMax
  BY ThreadPoolAssumption DEF MinOf
<1> HIDE DEF t
<1>2. CASE t <= 1
  BY <1>1, <1>2, ThreadPoolAssumption DEF ThreadsFor, t
<1>3. CASE t > 1 /\ n \div t >= MinPerThread
  <2>1. ThreadsFor(n) = t
    BY <1>1, <1>3, DivBounds, ThreadPoolAssumption DEF ThreadsFor, t
  <2> QED
    BY <1>1, <1>3, <2>1, ThreadPoolAssumption
<1>4. CASE t > 1 /\ n \div t < MinPerThread
  <2> DEFINE d == n \div t
             q == n \div MinPerThread
  <2>1. ThreadsFor(n) = MaxOf(q, 1)
    BY <1>4 DEF ThreadsFor, t
  <2>2. d \in Nat /\ n < t * (d + 1) /\ q \in Nat /\ MinPerThread * q <= n
    BY <1>1, <1>4, DivBounds, ThreadPoolAssumption
  <2> HIDE DEF d, q
  <2>3. d + 1 <= MinPerThread
    BY <1>4, <2>2, ThreadPoolAssumption DEF d
  <2>4. (d + 1) * t <= MinPerThread * t
    BY <1>1, <2>2, <2>3, TimesMonotonic, ThreadPoolAssumption
  <2>5. MinPerThread * q < MinPerThread * t
    BY <1>1, <2>2, <2>4, ThreadPoolAssumption
  <2>6. q < t
    BY <1>1, <2>2, <2>5, ThreadPoolAssumption
  <2> QED
    BY <1>1, <1>4, <2>1, <2>2, <2>6, ThreadPoolAssumption DEF MaxOf
<1> QED
  BY <1>1, <1>2, <1>3, <1>4, DivBounds, ThreadPoolAssumption

-----------------------------------------------------------------------------
(* The inductive invariant, action by action.                              *)

LEMMA ExitType == Exit \in Chunk /\ NoChunk \in Chunk /\ Exit.slot = 0
BY ThreadPoolAssumption DEF Exit, NoChunk, Chunk

LEMMA InitIInv == Init => IInv
<1> SUFFICES ASSUME Init PROVE IInv
  OBVIOUS
<1>1. TypeOK
  BY ThreadPoolAssumption, ExitType DEF Init, TypeOK
<1>2. Posted = {} /\ Busy = {}
  BY DEF Init, Posted, Busy
<1>3. LoopInRange /\ Joined /\ ReadyPosted /\ PendingFresh /\ PendingApart
  BY <1>2, ThreadPoolAssumption DEF Init, LoopInRange, Joined, ReadyPosted, PendingFresh, PendingApart
<1>4. ProcessedOnce
  BY <1>2 DEF Init, ProcessedOnce, Given, Elements
<1> QED
  BY <1>1, <1>3, <1>4 DEF IInv

(* Threads that are started, woken or put to sleep.                        *)
LEMMA QuietIInv ==
  ASSUME IInv, m_thread_count' \in Nat, pc' \in [Threads -> {"none", "examine", "wait", "run"}],
         Busy' = Busy, UNCHANGED <<m_tasks, running, main, loop, ready, processed>>
  PROVE  IInv'
<1>1. TypeOK' /\ LoopInRange' /\ Joined' /\ ReadyPosted'
  BY DEF IInv, TypeOK, LoopInRange, Joined, ReadyPosted, PostedSoFar
<1>2. Posted' = Posted /\ Given' = Given /\ PostedSoFar' = PostedSoFar
  BY DEF Posted, Given, PostedSoFar
<1>3. PendingFresh' /\ PendingApart'
  BY <1>2 DEF IInv, PendingFresh, PendingApart, Fresh, Apart
<1>4. ProcessedOnce'
  BY <1>2 DEF IInv, ProcessedOnce, Pending
<1> QED
  BY <1>1, <1>3, <1>4 DEF IInv

LEMMA WakeBusy ==
  ASSUME TypeOK, NEW ws, \A w \in Threads : w \in ws => pc[w] # "run", Wake(ws)
  PROVE  pc' \in [Threads -> {"none", "examine", "wait", "run"}] /\ Busy' = Busy
BY DEF TypeOK, Wake, Busy

LEMMA GrowIInv == ASSUME IInv, NEW n \in Nat, Grow(n) PROVE IInv'
<1>1. PICK new \in SUBSET {w \in Threads : pc[w] = "none"} : Wake(new)
  BY DEF Grow
<1>2. pc' \in [Threads -> {"none", "examine", "wait", "run"}] /\ Busy' = Busy
  BY <1>1, WakeBusy DEF IInv
<1> QED
  BY <1>2, QuietIInv DEF Grow

(* Empty tasks change nothing about what is posted.                        *)
LEMMA ExitsAppended ==
  ASSUME NEW q \in Seq(Chunk), NEW k \in Nat
  PROVE  LET r == q \o [i \in 1..k |-> Exit]
         IN  /\ r \in Seq(Chunk)
             /\ Len(r) = Len(q) + k
             /\ \A i \in 1..Len(q) : r[i] = q[i]
             /\ \A i \in (Len(q) + 1)..(Len(q) + k) : r[i] = Exit
<1> DEFINE e == [i \in 1..k |-> Exit]
<1>1. e \in Seq(Chunk)
  BY ExitType, IsASeq
<1>2. Len(e) = k
  BY <1>1, LenProperties
<1>3. \A i \in 1..k : e[i] = Exit
  OBVIOUS
<1> HIDE DEF e
<1>4. Len(q) \in Nat
  BY LenProperties
<1>5. /\ q \o e \in Seq(Chunk)
      /\ Len(q \o e) = Len(q) + k
      /\ \A i \in 1..(Len(q) + k) : (q \o e)[i] = IF i <= Len(q) THEN q[i] ELSE e[i - Len(q)]
  BY <1>1, <1>2, ConcatProperties
<1>6. \A i \in (Len(q) + 1)..(Len(q) + k) : (q \o e)[i] = Exit
  BY <1>3, <1>4, <1>5
<1>7. \A i \in 1..Len(q) : (q \o e)[i] = q[i]
  BY <1>4, <1>5
<1> QED
  BY <1>5, <1>6, <1>7 DEF e

LEMMA ShrinkIInv == ASSUME IInv, NEW n \in Nat, Shrink(n) PROVE IInv'
<1>1. pc' \in [Threads -> {"none", "examine", "wait", "run"}] /\ Busy' = Busy
  BY WakeBusy DEF IInv, Shrink, Waiters
<1> DEFINE k == m_thread_count - n
<1>2. k \in Nat /\ m_tasks \in Seq(Chunk) /\ m_tasks' = m_tasks \o [i \in 1..k |-> Exit]
  BY DEF IInv, TypeOK, Shrink
<1> HIDE DEF k
<1>3. /\ m_tasks' \in Seq(Chunk)
      /\ Len(m_tasks') = Len(m_tasks) + k
      /\ \A i \in 1..Len(m_tasks) : m_tasks'[i] = m_tasks[i]
      /\ \A i \in (Len(m_tasks) + 1)..(Len(m_tasks) + k) : m_tasks'[i] = Exit
  BY <1>2, ExitsAppended
<1>4. DOMAIN m_tasks = 1..Len(m_tasks) /\ DOMAIN m_tasks' = 1..Len(m_tasks') /\ Len(m_tasks) \in Nat
  BY <1>2, <1>3, LenProperties
<1>5. Posted' = Posted /\ \A i \in Posted : m_tasks'[i] = m_tasks[i]
  BY <1>2, <1>3, <1>4 DEF Posted
<1>6. UNCHANGED <<running, main, loop, ready, processed>> /\ m_thread_count' \in Nat
  BY DEF Shrink
<1>7. Given' = Given /\ PostedSoFar' = PostedSoFar
  BY <1>6 DEF Given, PostedSoFar
<1>8. TypeOK' /\ LoopInRange' /\ Joined' /\ ReadyPosted'
  BY <1>1, <1>3, <1>6, <1>7 DEF IInv, TypeOK, LoopInRange, Joined, ReadyPosted
<1>9. PendingFresh' /\ PendingApart'
  BY <1>1, <1>5, <1>6, <1>7 DEF IInv, PendingFresh, PendingApart, Fresh, Apart
<1>10. ProcessedOnce'
  BY <1>1, <1>5, <1>6, <1>7 DEF IInv, ProcessedOnce, Pending
<1> QED
  BY <1>8, <1>9, <1>10 DEF IInv

(* Between two loops nothing is pending.                                   *)
LEMMA IdleNothing == ASSUME IInv, main = "idle" PROVE Posted = {} /\ Busy = {}
<1>1. \A c \in Chunk : c.slot \in Int
  BY ThreadPoolAssumption DEF Chunk, Slots
<1>2. \A c \in Chunk : c \notin Fresh
  BY <1>1 DEF Fresh, PostedSoFar
<1>3. \A i \in Posted : m_tasks[i] \in Chunk
  BY LenProperties, ElementOfSeq DEF IInv, TypeOK, Posted
<1> QED
  BY <1>2, <1>3 DEF IInv, TypeOK, PendingFresh, Busy

LEMMA BeginIInv == ASSUME IInv, NEW n \in 0..MaxElements, Begin(n) PROVE IInv'
<1> DEFINE t == ThreadsFor(n)
<1>1. n \in Nat /\ n <= MaxElements /\ t \in 1..LocalMax
  BY ThreadsForBounds, ThreadPoolAssumption DEF IInv, TypeOK
<1>2. t \in Nat \ {0} /\ t - 1 \in Nat /\ t - 1 < LocalMax
  BY <1>1, ThreadPoolAssumption
<1> HIDE DEF t
<1>3. n \div t \in Nat /\ t * (n \div t) <= n
  BY <1>1, <1>2, DivBounds
<1>4. (t - 1) * (n \div t) <= t * (n \div t)
  BY <1>2, <1>3, TimesMonotonic
<1>5. (t - 1) * (n \div t) <= n
  <2>1. (t - 1) * (n \div t) \in Int /\ t * (n \div t) \in Int
    BY <1>2, <1>3
  <2> QED
    BY <1>1, <1>3, <1>4, <2>1
<1>6. /\ main' = "post" /\ ready' = {} /\ processed' = [e \in Elements |-> 0]
      /\ loop' = [i |-> 1, tasks |-> t - 1, size |-> n \div t, first |-> 1, last |-> n]
      /\ UNCHANGED <<m_thread_count, m_tasks, pc, running>>
  BY DEF Begin, t
<1>7. Posted' = {} /\ Busy' = {}
  BY <1>6, IdleNothing DEF Begin, Posted, Busy
<1>8. TypeOK'
  BY <1>1, <1>2, <1>3, <1>6 DEF IInv, TypeOK
<1>9. LoopInRange'
  BY <1>1, <1>2, <1>3, <1>5, <1>6 DEF LoopInRange
<1>10. Joined' /\ ReadyPosted' /\ PendingFresh' /\ PendingApart'
  BY <1>6, <1>7 DEF Joined, ReadyPosted, PendingFresh, PendingApart
<1>11. ProcessedOnce'
  BY <1>6, <1>7 DEF ProcessedOnce, Given, Elements
<1> QED
  BY <1>8, <1>9, <1>10, <1>11 DEF IInv

(* The next subrange begins behind those that were posted before.          *)
LEMMA PostIInv == ASSUME IInv, Post PROVE IInv'
<1> DEFINE c == [slot |-> loop.i, first |-> loop.first, last |-> loop.first + loop.size - 1]
           n == Len(m_tasks)
<1>1. /\ main = "post" /\ loop.i <= loop.tasks /\ m_tasks' = Append(m_tasks, c)
      /\ loop' = [loop EXCEPT !.i = @ + 1, !.first = @ + loop.size]
      /\ UNCHANGED <<m_thread_count, running, main, ready, processed>>
  BY DEF Post
<1>2. /\ loop.i \in Nat /\ loop.tasks \in Nat /\ loop.size \in Nat /\ loop.first \in Nat /\ loop.last \in Nat
      /\ loop.last <= MaxElements /\ loop.i >= 1 /\ loop.tasks < LocalMax
      /\ loop.first = 1 + (loop.i - 1) * loop.size /\ loop.tasks * loop.size <= loop.last
      /\ loop \in [i : Nat, tasks : Nat, size : Nat, first : Nat, last : Nat]
  BY <1>1 DEF IInv, TypeOK, LoopInRange
<1>3. /\ loop.i * loop.size <= loop.last /\ loop.first + loop.size = 1 + loop.i * loop.size
      /\ loop.first >= 1 /\ loop.first + loop.size <= loop.last + 1
  <2> DEFINE i == loop.i
             z == loop.size
  <2>1. i * z <= loop.tasks * z
    BY <1>1, <1>2, TimesMonotonic
  <2>2. i * z \in Nat /\ loop.tasks * z \in Nat /\ (i - 1) * z \in Nat /\ (i - 1) * z + z = i * z
    BY <1>2
  <2> QED
    BY <1>2, <2>1, <2>2
<1>4. c \in Chunk /\ c # Exit
  <2>1. c.slot \in {0} \cup Slots /\ c.slot # 0
    BY <1>1, <1>2, ThreadPoolAssumption DEF Slots
  <2>2. c.first \in 1..(MaxElements + 1) /\ c.last \in 0..MaxElements
    <3> HIDE <1>1
    <3>1. loop.first + loop.size <= MaxElements + 1
      BY <1>2, <1>3, ThreadPoolAssumption
    <3> QED
      BY <1>2, <1>3, <3>1, ThreadPoolAssumption
  <2> QED
    BY <2>1, <2>2, ExitType DEF Chunk
<1> HIDE DEF c
<1>5. m_tasks \in Seq(Chunk) /\ n \in Nat /\ DOMAIN m_tasks = 1..n
  BY LenProperties DEF IInv, TypeOK
<1>6. /\ m_tasks' \in Seq(Chunk) /\ Len(m_tasks') = n + 1
      /\ \A i \in 1..n : m_tasks'[i] = m_tasks[i]
      /\ m_tasks'[n + 1] = c
  BY <1>1, <1>4, <1>5, AppendProperties
<1>7. DOMAIN m_tasks' = 1..(n + 1)
  BY <1>6, LenProperties
<1> HIDE DEF n
<1>8. Posted' = Posted \cup {n + 1} /\ n + 1 \notin Posted /\ \A i \in Posted : m_tasks'[i] = m_tasks[i]
  BY <1>4, <1>5, <1>6, <1>7 DEF Posted
<1>9. pc' \in [Threads -> {"none", "examine", "wait", "run"}] /\ Busy' = Busy
  <2>1. CASE Waiters = {}
    BY <2>1 DEF Post, IInv, TypeOK, Busy
  <2>2. CASE Waiters # {}
    <3>1. PICK w \in Waiters : Wake({w})
      BY <2>2 DEF Post
    <3> QED
      BY <3>1, WakeBusy DEF IInv, Waiters
  <2> QED
    BY <2>1, <2>2
<1>10. /\ loop'.i = loop.i + 1 /\ loop'.first = loop.first + loop.size
       /\ loop'.tasks = loop.tasks /\ loop'.size = loop.size /\ loop'.last = loop.last
  BY <1>1, <1>2
<1>11. /\ Given = loop.first - 1 /\ Given' = loop.first + loop.size - 1
       /\ PostedSoFar = loop.i - 1 /\ PostedSoFar' = loop.i
  BY <1>1, <1>2, <1>10 DEF Given, PostedSoFar
<1>12. TypeOK'
  <2>1. loop' \in [i : Nat, tasks : Nat, size : Nat, first : Nat, last : Nat]
    <3>1. loop \in [i : Nat, tasks : Nat, size : Nat, first : Nat, last : Nat]
      BY DEF IInv, TypeOK
    <3>2. loop.i + 1 \in Nat /\ loop.first + loop.size \in Nat
      BY <3>1
    <3>3. loop' = [[loop EXCEPT !.i = loop.i + 1] EXCEPT !.first = loop.first + loop.size]
      BY <1>1
    <3>4. [loop EXCEPT !.i = loop.i + 1] \in [i : Nat, tasks : Nat, size : Nat, first : Nat, last : Nat]
      BY <3>1, <3>2
    <3> QED
      BY <3>2, <3>3, <3>4
  <2> QED
    BY <1>1, <1>6, <1>9, <2>1 DEF IInv, TypeOK
<1>13. LoopInRange'
  <2>1. (loop.i + 1 - 1) * loop.size = loop.i * loop.size
    BY <1>2
  <2>2. loop.i + 1 \in 1..(loop.tasks + 1)
    BY <1>1, <1>2
  <2>3. loop.last <= MaxElements /\ loop.tasks < LocalMax /\ loop.tasks * loop.size <= loop.last
    BY <1>2
  <2>4. loop.first + loop.size = 1 + (loop.i + 1 - 1) * loop.size
    BY <1>3, <2>1
  <2>5. loop'.tasks * loop'.size = loop.tasks * loop.size
    BY <1>10
  <2>6. loop'.first = 1 + (loop'.i - 1) * loop'.size
    <3>4. loop.i \in Nat /\ loop.size \in Nat
      BY ONLY <1>2
    <3>5. loop'.i = loop.i + 1 /\ loop'.size = loop.size
      BY ONLY <1>10
    <3>1. loop'.i - 1 = loop.i + 1 - 1 /\ loop'.size = loop.size
      BY ONLY <3>4, <3>5
    <3>2. (loop'.i - 1) * loop'.size = (loop.i + 1 - 1) * loop.size
      BY ONLY <3>1
    <3>3. loop'.first = loop.first + loop.size
      BY <1>10
    <3> QED
      BY ONLY <2>4, <3>2, <3>3
  <2> QED
    BY <1>10, <2>2, <2>3, <2>5, <2>6 DEF LoopInRange
<1>14. Joined' /\ ReadyPosted'
  <2>1. \A slot \in ready : slot \in Int
    BY ThreadPoolAssumption DEF IInv, TypeOK, Slots
  <2> QED
    BY <1>1, <1>2, <1>11, <2>1 DEF IInv, Joined, ReadyPosted
<1>15. c.slot = loop.i /\ c.first = loop.first /\ c.last = loop.first + loop.size - 1
  BY DEF c
(* Slot loop.i is not ready: its task is not even posted.                  *)
<1>16. loop.i \notin ready
  BY <1>1, <1>2 DEF IInv, ReadyPosted, PostedSoFar
<1>17. \A d \in Chunk : d \in Fresh => d \in Fresh' /\ Apart(d, c) /\ Apart(c, d)
  <2> SUFFICES ASSUME NEW d \in Chunk, d \in Fresh PROVE d \in Fresh' /\ Apart(d, c) /\ Apart(c, d)
    OBVIOUS
  <2>1. d.slot \in Int /\ d.last \in Int
    BY ThreadPoolAssumption DEF Chunk, Slots
  <2>2. d.slot <= loop.i - 1 /\ d.last <= loop.first - 1 /\ d.slot >= 1 /\ d.slot \notin ready
    BY <1>11 DEF Fresh
  <2>3. d \in Fresh'
    <3>1. loop.i \in Nat /\ loop.first \in Nat /\ loop.size \in Nat
      BY <1>2
    <3>2. d.slot <= PostedSoFar' /\ d.last <= Given'
      BY <1>11, <2>1, <2>2, <3>1
    <3>3. ready' = ready
      BY <1>1
    <3> QED
      BY <2>2, <3>2, <3>3 DEF Fresh
  <2>4. \A e \in Elements : ~(Covers(c, e) /\ Covers(d, e))
    BY <1>2, <1>15, <2>1, <2>2, ThreadPoolAssumption DEF Elements, Covers
  <2> QED
    BY <1>2, <1>15, <2>1, <2>2, <2>3, <2>4 DEF Apart
<1>18. \A i \in Posted : m_tasks[i] \in Chunk
  BY <1>5, ElementOfSeq DEF Posted
<1>19. \A w \in Busy : running[w] \in Chunk
  BY DEF IInv, TypeOK, Busy
<1>20. c \in Fresh'
  <2>1. loop.i \in Nat /\ loop.i >= 1 /\ ready' = ready
    BY <1>1, <1>2
  <2>2. 1 <= c.slot /\ c.slot <= PostedSoFar' /\ c.slot \notin ready' /\ c.last <= Given'
    <3>1. loop.first + loop.size - 1 \in Int
      BY <1>2
    <3> QED
      BY <1>11, <1>15, <1>16, <2>1, <3>1
  <2> QED
    BY <1>4, <2>2 DEF Fresh
<1>21. PendingFresh'
  <2>1. \A i \in Posted' : m_tasks'[i] \in Fresh'
    BY <1>6, <1>8, <1>17, <1>18, <1>20 DEF IInv, PendingFresh
  <2>2. \A w \in Busy' : running'[w] \in Fresh'
    BY <1>1, <1>9, <1>17, <1>19 DEF IInv, PendingFresh
  <2> QED
    BY <2>1, <2>2 DEF PendingFresh, Fresh, Given, PostedSoFar
<1>22. PendingApart'
  <2>1. \A i, j \in Posted' : i # j => Apart(m_tasks'[i], m_tasks'[j])
    BY <1>6, <1>8, <1>17, <1>18 DEF IInv, PendingFresh, PendingApart
  <2>2. \A i \in Posted', w \in Busy' : Apart(m_tasks'[i], running'[w])
    BY <1>1, <1>6, <1>8, <1>9, <1>17, <1>19 DEF IInv, PendingFresh, PendingApart
  <2> QED
    BY <1>1, <1>9, <2>1, <2>2 DEF IInv, PendingApart
<1>23. ProcessedOnce'
  <2> SUFFICES ASSUME NEW e \in Elements
               PROVE  processed'[e] = IF e <= Given' /\ ~Pending(e)' THEN 1 ELSE 0
    BY DEF ProcessedOnce
  <2>1. Pending(e)' <=> Pending(e) \/ Covers(c, e)
    BY <1>1, <1>6, <1>8, <1>9 DEF Pending
  <2>2. e \in Int /\ (Covers(c, e) <=> loop.first <= e /\ e <= loop.first + loop.size - 1)
    BY <1>15, ThreadPoolAssumption DEF Covers, Elements
  <2>3. processed[e] = IF e <= Given /\ ~Pending(e) THEN 1 ELSE 0
    BY DEF IInv, ProcessedOnce
  <2>4. e <= Given' /\ ~Pending(e)' <=> e <= Given /\ ~Pending(e)
    BY <1>2, <1>11, <2>1, <2>2
  <2> QED
    BY <1>1, <2>3, <2>4
<1> QED
  BY <1>12, <1>13, <1>14, <1>16, <1>21, <1>22, <1>23 DEF IInv

(* The main thread takes the rest of the range.                            *)
LEMMA CallbackIInv == ASSUME IInv, Callback PROVE IInv'
<1> DEFINE c == [slot |-> 0, first |-> loop.first, last |-> loop.last]
<1>1. /\ main = "post" /\ main' = "join" /\ loop.i > loop.tasks /\ loop' = [loop EXCEPT !.i = 1]
      /\ UNCHANGED <<m_thread_count, m_tasks, pc, running, ready>>
      /\ processed' = [e \in Elements |-> processed[e] + (IF Covers(c, e) THEN 1 ELSE 0)]
  BY DEF Callback, Process
<1>2. /\ loop.i \in Nat /\ loop.tasks \in Nat /\ loop.size \in Nat /\ loop.first \in Nat /\ loop.last \in Nat
      /\ loop.i = loop.tasks + 1 /\ loop.last <= MaxElements /\ loop.tasks < LocalMax
      /\ loop.first = 1 + (loop.i - 1) * loop.size /\ loop.tasks * loop.size <= loop.last
      /\ loop \in [i : Nat, tasks : Nat, size : Nat, first : Nat, last : Nat]
  BY <1>1 DEF IInv, TypeOK, LoopInRange
<1>3. loop.first <= loop.last + 1
  BY <1>2
<1>4. loop'.i = 1 /\ loop'.tasks = loop.tasks /\ loop'.last = loop.last
  BY <1>1, <1>2
<1>5. /\ Given = loop.first - 1 /\ Given' = loop.last
      /\ PostedSoFar = loop.tasks /\ PostedSoFar' = loop.tasks
  BY <1>1, <1>2, <1>4 DEF Given, PostedSoFar
<1>6. Posted' = Posted /\ Busy' = Busy
  BY <1>1 DEF Posted, Busy
<1>7. TypeOK'
  <2>1. processed' \in [Elements -> Nat]
    BY <1>1 DEF IInv, TypeOK
  <2> QED
    BY <1>1, <1>2, <2>1 DEF IInv, TypeOK
<1>8. LoopInRange' /\ Joined' /\ ReadyPosted'
  BY <1>1, <1>2, <1>4, <1>5 DEF IInv, LoopInRange, Joined, ReadyPosted
<1>9. \A d \in Chunk : d \in Fresh => d \in Fresh'
  BY <1>1, <1>2, <1>3, <1>5, ThreadPoolAssumption DEF Fresh, Chunk
<1>10. \A i \in Posted : m_tasks[i] \in Chunk
  BY LenProperties, ElementOfSeq DEF IInv, TypeOK, Posted
<1>11. \A w \in Busy : running[w] \in Chunk
  BY DEF IInv, TypeOK, Busy
<1>12. PendingFresh'
  BY <1>1, <1>6, <1>9, <1>10, <1>11 DEF IInv, PendingFresh, Fresh
<1>13. PendingApart'
  BY <1>1, <1>6 DEF IInv, PendingApart
<1>14. ProcessedOnce'
  <2> SUFFICES ASSUME NEW e \in Elements
               PROVE  processed'[e] = IF e <= Given' /\ ~Pending(e)' THEN 1 ELSE 0
    BY DEF ProcessedOnce
  <2>1. Pending(e)' <=> Pending(e)
    BY <1>1, <1>6 DEF Pending
  <2>2. Pending(e) => e <= Given
    <3>1. \A d \in Chunk : d \in Fresh /\ Covers(d, e) => e <= Given
      BY <1>2, <1>5, ThreadPoolAssumption DEF Fresh, Covers, Chunk, Elements
    <3> QED
      BY <1>10, <1>11, <3>1 DEF IInv, PendingFresh, Pending
  <2>3. e \in Int /\ (Covers(c, e) <=> loop.first <= e /\ e <= loop.last)
    BY ThreadPoolAssumption DEF Covers, Elements
  <2>4. processed[e] = IF e <= Given /\ ~Pending(e) THEN 1 ELSE 0
    BY DEF IInv, ProcessedOnce
  <2>5. processed'[e] = processed[e] + (IF Covers(c, e) THEN 1 ELSE 0)
    BY <1>1
  <2> QED
    BY <1>2, <1>3, <1>5, <2>1, <2>2, <2>3, <2>4, <2>5
<1> QED
  BY <1>7, <1>8, <1>12, <1>13, <1>14 DEF IInv

(* Where only the loop's own variables change, what is pending stays.      *)
LEMMA SamePending ==
  ASSUME IInv, UNCHANGED <<m_tasks, pc, running, ready, processed>>,
         Given' = Given, PostedSoFar' = PostedSoFar
  PROVE  PendingFresh' /\ PendingApart' /\ ProcessedOnce'
<1>1. Posted' = Posted /\ Busy' = Busy
  BY DEF Posted, Busy
<1>2. PendingFresh' /\ PendingApart'
  BY <1>1 DEF IInv, PendingFresh, PendingApart, Fresh
<1>3. ProcessedOnce'
  BY <1>1 DEF IInv, ProcessedOnce, Pending
<1> QED
  BY <1>2, <1>3

LEMMA JoinIInv == ASSUME IInv, Join PROVE IInv'
<1>1. /\ main = "join" /\ loop.i <= loop.tasks /\ loop.i \in ready /\ loop' = [loop EXCEPT !.i = @ + 1]
      /\ UNCHANGED <<m_thread_count, m_tasks, pc, running, main, ready, processed>>
  BY DEF Join
<1>2. loop \in [i : Nat, tasks : Nat, size : Nat, first : Nat, last : Nat] /\ loop.i >= 1
  BY <1>1 DEF IInv, TypeOK, LoopInRange
<1>3. loop'.i = loop.i + 1 /\ loop'.tasks = loop.tasks /\ loop'.last = loop.last
  BY <1>1, <1>2
<1>4. Given' = Given /\ PostedSoFar' = PostedSoFar
  BY <1>1, <1>3 DEF Given, PostedSoFar
<1>5. TypeOK'
  <2>1. loop' \in [i : Nat, tasks : Nat, size : Nat, first : Nat, last : Nat]
    <3>1. loop.i + 1 \in Nat /\ loop' = [loop EXCEPT !.i = loop.i + 1]
      BY <1>1, <1>2
    <3> QED
      BY ONLY <1>2, <3>1
  <2> QED
    BY <1>1, <2>1 DEF IInv, TypeOK
<1>6. LoopInRange' /\ ReadyPosted'
  <2>1. main' = "join" /\ ready' = ready
    BY <1>1
  <2>2. loop.last <= MaxElements /\ loop.tasks < LocalMax
    BY <1>1 DEF IInv, LoopInRange
  <2>3. loop.i + 1 \in 1..(loop.tasks + 1)
    BY <1>1, <1>2
  <2>4. LoopInRange'
    BY <1>3, <2>1, <2>2, <2>3 DEF LoopInRange
  <2>5. \A slot \in ready : slot <= PostedSoFar
    BY <1>1 DEF IInv, ReadyPosted
  <2> QED
    BY <1>4, <2>1, <2>4, <2>5 DEF ReadyPosted
<1>7. Joined'
  BY <1>1, <1>2, <1>3 DEF IInv, Joined
<1> QED
  BY <1>1, <1>4, <1>5, <1>6, <1>7, SamePending DEF IInv

(* All futures are ready, so that nothing is pending any more.             *)
LEMMA ReturnIInv == ASSUME IInv, Return PROVE IInv'
<1>1. /\ main = "join" /\ main' = "idle" /\ loop.i > loop.tasks
      /\ UNCHANGED <<m_thread_count, m_tasks, pc, running, loop, ready, processed>>
  BY DEF Return
<1>2. loop.i = loop.tasks + 1 /\ loop.tasks \in Nat /\ 1..loop.tasks \subseteq ready /\ PostedSoFar = loop.tasks
  BY <1>1 DEF IInv, TypeOK, LoopInRange, Joined, PostedSoFar
<1>3. \A c \in Chunk : c \notin Fresh
  BY <1>2, ThreadPoolAssumption DEF Fresh, Chunk, Slots
<1>4. \A i \in Posted : m_tasks[i] \in Chunk
  BY LenProperties, ElementOfSeq DEF IInv, TypeOK, Posted
<1>5. Posted = {} /\ Busy = {}
  BY <1>3, <1>4 DEF IInv, TypeOK, PendingFresh, Busy
<1>6. Posted' = {} /\ Busy' = {}
  BY <1>1, <1>5 DEF Posted, Busy
<1>7. TypeOK' /\ LoopInRange' /\ Joined' /\ ReadyPosted' /\ PendingFresh' /\ PendingApart'
  BY <1>1, <1>6 DEF IInv, TypeOK, LoopInRange, Joined, ReadyPosted, PendingFresh, PendingApart
<1>8. ProcessedOnce'
  BY <1>1, <1>5, <1>6 DEF IInv, ProcessedOnce, Given, Pending
<1> QED
  BY <1>7, <1>8 DEF IInv

LEMMA SleepIInv == ASSUME IInv, NEW w \in Threads, Sleep(w) PROVE IInv'
<1>1. pc' \in [Threads -> {"none", "examine", "wait", "run"}] /\ Busy' = Busy
  BY DEF IInv, TypeOK, Sleep, Busy
<1> QED
  BY <1>1, QuietIInv DEF Sleep, IInv, TypeOK

LEMMA SpuriousWakeupIInv == ASSUME IInv, NEW w \in Threads, SpuriousWakeup(w) PROVE IInv'
<1>1. pc' \in [Threads -> {"none", "examine", "wait", "run"}] /\ Busy' = Busy
  BY WakeBusy DEF IInv, SpuriousWakeup
<1> QED
  BY <1>1, QuietIInv DEF SpuriousWakeup, IInv, TypeOK

(* What was at position i + 1 is now at position i.                        *)
LEMMA TailTasks ==
  ASSUME m_tasks \in Seq(Chunk), m_tasks # <<>>, m_tasks' = Tail(m_tasks)
  PROVE  /\ Len(m_tasks) \in Nat \ {0} /\ DOMAIN m_tasks = 1..Len(m_tasks)
         /\ m_tasks' \in Seq(Chunk) /\ DOMAIN m_tasks' = 1..(Len(m_tasks) - 1)
         /\ Head(m_tasks) = m_tasks[1] /\ Head(m_tasks) \in Chunk
         /\ \A i \in DOMAIN m_tasks' : m_tasks'[i] = m_tasks[i + 1]
<1>1. /\ Head(m_tasks) \in Chunk /\ Tail(m_tasks) \in Seq(Chunk) /\ Len(Tail(m_tasks)) = Len(m_tasks) - 1
      /\ \A i \in 1..Len(Tail(m_tasks)) : Tail(m_tasks)[i] = m_tasks[i + 1]
  BY HeadTailProperties
<1>2. Len(m_tasks) \in Nat \ {0} /\ DOMAIN m_tasks = 1..Len(m_tasks) /\ DOMAIN Tail(m_tasks) = 1..Len(Tail(m_tasks))
  BY <1>1, LenProperties, EmptySeq
<1> QED
  BY <1>1, <1>2

LEMMA TakeIInv == ASSUME IInv, NEW w \in Threads, Take(w) PROVE IInv'
<1>1. /\ pc[w] = "examine" /\ m_tasks # <<>> /\ m_tasks' = Tail(m_tasks) /\ m_tasks \in Seq(Chunk)
      /\ UNCHANGED <<m_thread_count, main, loop, ready, processed>>
  BY DEF Take, IInv, TypeOK
<1>2. /\ Len(m_tasks) \in Nat \ {0} /\ DOMAIN m_tasks = 1..Len(m_tasks)
      /\ m_tasks' \in Seq(Chunk) /\ DOMAIN m_tasks' = 1..(Len(m_tasks) - 1)
      /\ Head(m_tasks) = m_tasks[1] /\ Head(m_tasks) \in Chunk
      /\ \A i \in DOMAIN m_tasks' : m_tasks'[i] = m_tasks[i + 1]
  BY <1>1, TailTasks
<1>3. Given' = Given /\ PostedSoFar' = PostedSoFar /\ Fresh' = Fresh
  BY <1>1 DEF Given, PostedSoFar, Fresh
<1>4. LoopInRange' /\ Joined' /\ ReadyPosted'
  BY <1>1, <1>3 DEF IInv, LoopInRange, Joined, ReadyPosted
<1>5. \A i \in Posted' : i \in Nat \ {0} /\ i + 1 \in Posted /\ m_tasks'[i] = m_tasks[i + 1]
  BY <1>2 DEF Posted
<1>6. \A i \in Posted : i # 1 => i - 1 \in Posted' /\ m_tasks'[i - 1] = m_tasks[i]
  BY <1>2 DEF Posted
<1>7. \A i, j \in Posted' : i # j => i + 1 # j + 1
  BY <1>5
<1>8. CASE Head(m_tasks) = Exit
  <2>1. pc' = [pc EXCEPT ![w] = "none"] /\ running' = running
    BY <1>8 DEF Take
  <2>2. Busy' = Busy
    BY <1>1, <2>1 DEF Busy, IInv, TypeOK
  <2>3. 1 \notin Posted
    BY <1>2, <1>8 DEF Posted
  <2>4. TypeOK'
    BY <1>1, <1>2, <2>1 DEF IInv, TypeOK
  <2>5. PendingFresh' /\ PendingApart'
    BY <1>3, <1>5, <1>7, <2>1, <2>2 DEF IInv, PendingFresh, PendingApart
  <2>6. \A e \in Elements : Pending(e)' <=> Pending(e)
    BY <1>5, <1>6, <2>1, <2>2, <2>3 DEF Pending
  <2>7. ProcessedOnce'
    BY <1>1, <1>3, <2>6 DEF IInv, ProcessedOnce
  <2> QED
    BY <1>4, <2>4, <2>5, <2>7 DEF IInv
<1>9. CASE Head(m_tasks) # Exit
  <2>1. pc' = [pc EXCEPT ![w] = "run"] /\ running' = [running EXCEPT ![w] = m_tasks[1]]
    BY <1>2, <1>9 DEF Take
  <2>2. /\ Busy' = Busy \cup {w} /\ w \notin Busy /\ running'[w] = m_tasks[1]
        /\ \A v \in Busy : running'[v] = running[v]
    BY <1>1, <2>1 DEF Busy, IInv, TypeOK
  <2>3. 1 \in Posted
    BY <1>2, <1>9 DEF Posted
  <2>4. TypeOK'
    BY <1>1, <1>2, <2>1 DEF IInv, TypeOK
  <2>5. PendingFresh'
    BY <1>3, <1>5, <2>2, <2>3 DEF IInv, PendingFresh
  <2>6. \A i \in Posted' : i + 1 # 1
    BY <1>5
  <2>7. \A c, d : Apart(c, d) => Apart(d, c)
    BY DEF Apart
  <2>8. \A i, j \in Posted' : i # j => Apart(m_tasks'[i], m_tasks'[j])
    BY <1>5, <1>7 DEF IInv, PendingApart
  <2>9. \A u, v \in Busy' : u # v => Apart(running'[u], running'[v])
    BY <2>2, <2>3, <2>7 DEF IInv, PendingApart
  <2>10. \A i \in Posted', u \in Busy' : Apart(m_tasks'[i], running'[u])
    BY <1>5, <2>2, <2>3, <2>6 DEF IInv, PendingApart
  <2>11. PendingApart'
    BY <2>8, <2>9, <2>10 DEF PendingApart
  <2>12. \A e \in Elements : Pending(e)' <=> Pending(e)
    BY <1>5, <1>6, <2>2, <2>3 DEF Pending
  <2>13. ProcessedOnce'
    BY <1>1, <1>3, <2>12 DEF IInv, ProcessedOnce
  <2> QED
    BY <1>4, <2>4, <2>5, <2>11, <2>13 DEF IInv
<1> QED
  BY <1>8, <1>9

(* What was pending is processed, once.                                    *)
LEMMA RunIInv == ASSUME IInv, NEW w \in Threads, Run(w) PROVE IInv'
<1> DEFINE c == running[w]
<1>1. /\ pc[w] = "run" /\ pc' = [pc EXCEPT ![w] = "examine"] /\ running' = [running EXCEPT ![w] = NoChunk]
      /\ ready' = ready \cup {c.slot}
      /\ processed' = [e \in Elements |-> processed[e] + (IF Covers(c, e) THEN 1 ELSE 0)]
      /\ UNCHANGED <<m_thread_count, m_tasks, main, loop>>
  BY DEF Run, Process
<1>2. w \in Busy /\ c \in Fresh /\ c \in Chunk
  BY <1>1 DEF Busy, IInv, PendingFresh, TypeOK
<1>3. /\ Busy' = Busy \ {w} /\ Posted' = Posted
      /\ \A v \in Busy' : running'[v] = running[v]
  BY <1>1 DEF Busy, Posted, IInv, TypeOK
<1>4. Given' = Given /\ PostedSoFar' = PostedSoFar
  BY <1>1 DEF Given, PostedSoFar
<1>5. c.slot \in Slots /\ c.slot <= PostedSoFar /\ c.last <= Given
  BY <1>2 DEF Fresh, Chunk
<1> HIDE DEF c
<1>6. TypeOK'
  <2>1. processed' \in [Elements -> Nat]
    BY <1>1 DEF IInv, TypeOK
  <2> QED
    BY <1>1, <1>5, <2>1, ExitType DEF IInv, TypeOK
<1>7. LoopInRange' /\ Joined' /\ ReadyPosted'
  BY <1>1, <1>4, <1>5 DEF IInv, LoopInRange, Joined, ReadyPosted
<1>8. \A d \in Fresh : Apart(d, c) \/ Apart(c, d) => d \in Fresh'
  BY <1>1, <1>4 DEF Fresh, Apart
<1>9. PendingFresh'
  <2>1. \A i \in Posted : Apart(m_tasks[i], c)
    BY <1>2 DEF IInv, PendingApart, c
  <2>2. \A v \in Busy' : Apart(running[v], c)
    BY <1>2, <1>3 DEF IInv, PendingApart, c
  <2> QED
    BY <1>1, <1>3, <1>8, <2>1, <2>2 DEF IInv, PendingFresh
<1>10. PendingApart'
  BY <1>1, <1>3 DEF IInv, PendingApart
<1>11. ProcessedOnce'
  <2> SUFFICES ASSUME NEW e \in Elements
               PROVE  processed'[e] = IF e <= Given' /\ ~Pending(e)' THEN 1 ELSE 0
    BY DEF ProcessedOnce
  <2>1. processed[e] = IF e <= Given /\ ~Pending(e) THEN 1 ELSE 0
    BY DEF IInv, ProcessedOnce
  <2>2. processed'[e] = processed[e] + (IF Covers(c, e) THEN 1 ELSE 0)
    BY <1>1
  <2>3. CASE Covers(c, e)
    <3>1. Pending(e)
      BY <1>2, <2>3 DEF Pending, c
    <3>2. ~Pending(e)'
      <4>1. \A i \in Posted : ~Covers(m_tasks[i], e)
        BY <1>2, <2>3 DEF IInv, PendingApart, Apart, c
      <4>2. \A v \in Busy' : ~Covers(running[v], e)
        BY <1>2, <1>3, <2>3 DEF IInv, PendingApart, Apart, c
      <4> QED
        BY <1>1, <1>3, <4>1, <4>2 DEF Pending
    <3>3. e <= Given
      <4>1. e \in Int /\ c.last \in Int /\ e <= c.last
        BY <1>2, <2>3, ThreadPoolAssumption DEF Covers, Elements, Chunk
      <4>2. Given \in Int
        BY DEF Given, IInv, TypeOK
      <4> QED
        BY <1>5, <4>1, <4>2
    <3> QED
      BY <1>4, <2>1, <2>2, <2>3, <3>1, <3>2, <3>3
  <2>4. CASE ~Covers(c, e)
    <3>1. Pending(e)' <=> Pending(e)
      BY <1>1, <1>2, <1>3, <2>4 DEF Pending, c
    <3> QED
      BY <1>4, <2>1, <2>2, <2>4, <3>1
  <2> QED
    BY <2>3, <2>4
<1> QED
  BY <1>6, <1>7, <1>9, <1>10, <1>11 DEF IInv

LEMMA StutterIInv == ASSUME IInv, UNCHANGED vars PROVE IInv'
BY DEF vars, IInv, TypeOK, LoopInRange, Joined, ReadyPosted, PendingFresh, PendingApart, ProcessedOnce,
       Pending, Posted, Busy, Fresh, Given, PostedSoFar

LEMMA NextIInv == IInv /\ [Next]_vars => IInv'
<1> SUFFICES ASSUME IInv, [Next]_vars PROVE IInv'
  OBVIOUS
<1>1. CASE Resize
  <2>1. PICK n \in 0..Cardinality(Threads) : Grow(n) \/ Shrink(n)
    BY <1>1 DEF Resize
  <2> QED
    BY <2>1, GrowIInv, ShrinkIInv
<1>2. CASE Start
  BY <1>2, BeginIInv DEF Start
<1>3. CASE MainStep
  BY <1>3, PostIInv, CallbackIInv, JoinIInv, ReturnIInv DEF MainStep
<1>4. CASE \E w \in Threads : Examine(w) \/ Run(w) \/ SpuriousWakeup(w)
  BY <1>4, SleepIInv, TakeIInv, RunIInv, SpuriousWakeupIInv DEF Examine
<1>5. CASE UNCHANGED vars
  BY <1>5, StutterIInv
<1> QED
  BY <1>1, <1>2, <1>3, <1>4, <1>5 DEF Next

LEMMA SpecIInv == Spec => []IInv
BY InitIInv, NextIInv, PTL DEF Spec

(* The state of the pool and of the loop stays well-formed: in particular  *)
(* the main thread never posts more subranges than it has futures for.     *)
THEOREM TypeCorrect == Spec => []TypeOK
<1>1. IInv => TypeOK
  BY DEF IInv
<1> QED
  BY <1>1, SpecIInv, PTL

(* Every element is processed once when parallel_for_each has returned,    *)
(* whatever the pool's size was, is, and becomes meanwhile.                *)
THEOREM CompletedCorrect == Spec => []Completed
<1>1. IInv => Completed
  <2> SUFFICES ASSUME IInv, main = "idle"
               PROVE  /\ \A e \in Elements : processed[e] = (IF e <= loop.last THEN 1 ELSE 0)
                      /\ \A i \in DOMAIN m_tasks : m_tasks[i] = Exit
                      /\ \A w \in Threads : pc[w] # "run"
    BY DEF Completed
  <2>1. Posted = {} /\ Busy = {}
    BY IdleNothing
  <2>2. \A e \in Elements : processed[e] = IF e <= loop.last THEN 1 ELSE 0
    BY <2>1 DEF IInv, ProcessedOnce, Given, Pending
  <2> QED
    BY <2>1, <2>2 DEF Posted, Busy
<1> QED
  BY <1>1, SpecIInv, PTL

-----------------------------------------------------------------------------
(* Threads and the empty tasks that will end some of them are counted.     *)

LEMMA AliveFinite == IsFiniteSet(Alive) /\ Cardinality(Alive) \in Nat
BY ThreadPoolAssumption, FS_Subset, FS_CardinalityType DEF Alive

LEMMA ExitsFinite ==
  ASSUME NEW q \in Seq(Chunk) PROVE IsFiniteSet(Exits(q)) /\ Cardinality(Exits(q)) \in Nat
<1>1. Len(q) \in Nat /\ DOMAIN q = 1..Len(q)
  BY LenProperties
<1>2. IsFiniteSet(1..Len(q))
  BY <1>1, FS_Interval
<1>3. Exits(q) \in SUBSET (1..Len(q))
  BY <1>1 DEF Exits
<1> QED
  BY <1>2, <1>3, FS_Subset, FS_CardinalityType

Accounted == Cardinality(Alive) = m_thread_count + Cardinality(Exits(m_tasks))

LEMMA AccountedIsIt == (Accounted <=> ThreadsAccounted) /\ (Accounted <=> ThreadsAccounted)'
BY DEF Accounted, ThreadsAccounted, Alive, Exits

(* Threads that are started are as many as were missing.                   *)
LEMMA GrowAccounted == ASSUME TypeOK, Accounted, NEW n \in Nat, Grow(n) PROVE Accounted'
<1>1. PICK new \in SUBSET {w \in Threads : pc[w] = "none"} :
        Cardinality(new) = n - m_thread_count /\ Wake(new)
  BY DEF Grow
<1>2. Alive' = Alive \cup new /\ Alive \cap new = {}
  BY <1>1 DEF Wake, Alive
<1>3. IsFiniteSet(new) /\ IsFiniteSet(Alive)
  BY ThreadPoolAssumption, FS_Subset, AliveFinite
<1>4. Cardinality(Alive') = Cardinality(Alive) + Cardinality(new)
  <2>1. Cardinality(Alive \cup new) = Cardinality(Alive) + Cardinality(new) - Cardinality(Alive \cap new)
    BY <1>3, FS_Union
  <2>2. Cardinality(new) \in Nat /\ Cardinality(Alive) \in Nat
    BY <1>3, FS_CardinalityType
  <2> QED
    BY <1>2, <2>1, <2>2, FS_EmptySet
<1>5. m_tasks' = m_tasks /\ m_thread_count' = n /\ m_thread_count \in Nat
  BY DEF Grow, TypeOK
<1>6. Cardinality(Exits(m_tasks)) \in Nat /\ Cardinality(Alive) \in Nat
  BY ExitsFinite, AliveFinite DEF TypeOK
<1> QED
  BY <1>1, <1>4, <1>5, <1>6 DEF Accounted

(* An empty task is queued for each thread that is to end.                 *)
LEMMA ShrinkAccounted == ASSUME TypeOK, Accounted, NEW n \in Nat, Shrink(n) PROVE Accounted'
<1> DEFINE k == m_thread_count - n
           l == Len(m_tasks)
           new == (l + 1)..(l + k)
<1>1. k \in Nat /\ m_tasks \in Seq(Chunk) /\ m_tasks' = m_tasks \o [i \in 1..k |-> Exit] /\ m_thread_count' = n
  BY DEF TypeOK, Shrink
<1>2. Alive' = Alive
  BY DEF Shrink, Wake, Waiters, Alive
<1> HIDE DEF k
<1>3. /\ m_tasks' \in Seq(Chunk) /\ Len(m_tasks') = l + k
      /\ \A i \in 1..l : m_tasks'[i] = m_tasks[i]
      /\ \A i \in (l + 1)..(l + k) : m_tasks'[i] = Exit
  BY <1>1, ExitsAppended
<1>4. DOMAIN m_tasks = 1..l /\ DOMAIN m_tasks' = 1..(l + k) /\ l \in Nat
  BY <1>1, <1>3, LenProperties
<1> HIDE DEF l
<1>5. Exits(m_tasks') = Exits(m_tasks) \cup new /\ Exits(m_tasks) \cap new = {}
  BY <1>1, <1>3, <1>4 DEF Exits
<1>6. IsFiniteSet(new) /\ Cardinality(new) = k
  <2>1. l + 1 \in Int /\ l + k \in Int
    BY <1>1, <1>4
  <2>2. /\ IsFiniteSet(new)
        /\ Cardinality(new) = IF l + 1 > l + k THEN 0 ELSE (l + k) - (l + 1) + 1
    BY <2>1, FS_Interval
  <2> QED
    BY <1>1, <1>4, <2>2
<1> HIDE DEF new
<1>7. Cardinality(Exits(m_tasks')) = Cardinality(Exits(m_tasks)) + k
  <2>1. IsFiniteSet(Exits(m_tasks)) /\ Cardinality(Exits(m_tasks)) \in Nat
    BY <1>1, ExitsFinite
  <2>2. Cardinality(Exits(m_tasks) \cup new)
          = Cardinality(Exits(m_tasks)) + Cardinality(new) - Cardinality(Exits(m_tasks) \cap new)
    BY <1>6, <2>1, FS_Union
  <2>3. Cardinality(Exits(m_tasks) \cap new) = 0
    BY <1>5, FS_EmptySet
  <2>4. Cardinality(Exits(m_tasks')) = Cardinality(Exits(m_tasks) \cup new)
    BY <1>5
  <2>5. k \in Nat
    BY <1>1
  <2> QED
    BY <1>6, <2>1, <2>2, <2>3, <2>4, <2>5
<1>8. Cardinality(Exits(m_tasks)) \in Nat /\ m_thread_count \in Nat
  BY <1>1, ExitsFinite DEF TypeOK
<1>9. n + k = m_thread_count
  BY <1>8 DEF k
<1>10. Cardinality(Alive') = Cardinality(Alive)
  BY <1>2
<1>11. Cardinality(Alive) = m_thread_count + Cardinality(Exits(m_tasks))
  BY DEF Accounted
<1>12. Cardinality(Alive') = n + Cardinality(Exits(m_tasks'))
  <2>1. k \in Nat
    BY <1>1
  <2> QED
    BY <1>7, <1>8, <1>9, <1>10, <1>11, <2>1
<1> QED
  BY <1>1, <1>12 DEF Accounted

LEMMA PostAccounted == ASSUME IInv, Accounted, Post PROVE Accounted'
<1> DEFINE c == [slot |-> loop.i, first |-> loop.first, last |-> loop.first + loop.size - 1]
           n == Len(m_tasks)
<1>1. m_tasks' = Append(m_tasks, c) /\ m_thread_count' = m_thread_count /\ m_tasks \in Seq(Chunk)
  BY DEF Post, IInv, TypeOK
<1>2. c # Exit
  BY ExitType DEF Post, IInv, LoopInRange
<1>3. m_tasks' \in Seq(Chunk)
  BY PostIInv DEF IInv, TypeOK
<1> HIDE DEF c
<1>4. n \in Nat /\ DOMAIN m_tasks = 1..n
  BY <1>1, LenProperties
<1>5. DOMAIN m_tasks' = 1..(n + 1) /\ m_tasks'[n + 1] = c /\ \A i \in 1..n : m_tasks'[i] = m_tasks[i]
  BY <1>1, <1>4
<1> HIDE DEF n
<1>6. Exits(m_tasks') = Exits(m_tasks)
  BY <1>2, <1>4, <1>5 DEF Exits
<1>7. Alive' = Alive
  <2>1. CASE Waiters = {}
    BY <2>1 DEF Post, Alive
  <2>2. CASE Waiters # {}
    BY <2>2 DEF Post, Alive, Wake, Waiters
  <2> QED
    BY <2>1, <2>2
<1> QED
  BY <1>1, <1>6, <1>7 DEF Accounted

(* A thread ends with the empty task that it takes.                        *)
LEMMA TakeAccounted == ASSUME TypeOK, Accounted, NEW w \in Threads, Take(w) PROVE Accounted'
<1>1. /\ pc[w] = "examine" /\ m_tasks # <<>> /\ m_tasks' = Tail(m_tasks) /\ m_tasks \in Seq(Chunk)
      /\ m_thread_count' = m_thread_count
  BY DEF Take, TypeOK
<1>2. /\ Len(m_tasks) \in Nat \ {0} /\ DOMAIN m_tasks = 1..Len(m_tasks)
      /\ m_tasks' \in Seq(Chunk) /\ DOMAIN m_tasks' = 1..(Len(m_tasks) - 1)
      /\ Head(m_tasks) = m_tasks[1] /\ Head(m_tasks) \in Chunk
      /\ \A i \in DOMAIN m_tasks' : m_tasks'[i] = m_tasks[i + 1]
  BY <1>1, TailTasks
<1> DEFINE S == Exits(m_tasks) \ {1}
           T == Exits(m_tasks')
           f == [i \in S |-> i - 1]
<1>3. IsFiniteSet(Exits(m_tasks)) /\ Cardinality(Exits(m_tasks)) \in Nat /\ IsFiniteSet(S)
  BY <1>1, ExitsFinite, FS_RemoveElement
<1>4. Cardinality(T) = Cardinality(S)
  <2>1. \A i \in S : i \in Int /\ i - 1 \in T
    BY <1>2 DEF Exits
  <2>2. \A j \in T : j \in Int /\ j + 1 \in S
    BY <1>2 DEF Exits
  <2> HIDE DEF S, T
  <2>3. f \in [S -> T] /\ \A i, j \in S : f[i] = f[j] => i = j
    BY <2>1
  <2>4. \A j \in T : \E i \in S : f[i] = j
    BY <2>2
  <2>5. f \in Bijection(S, T)
    BY <2>3, <2>4 DEF Bijection, Injection, Surjection, IsInjective
  <2>6. ExistsBijection(S, T)
    BY <2>5 DEF ExistsBijection
  <2> QED
    BY <1>3, <2>6, FS_Bijection
<1>5. CASE Head(m_tasks) = Exit
  <2>1. 1 \in Exits(m_tasks)
    BY <1>2, <1>5 DEF Exits
  <2>2. Cardinality(S) = Cardinality(Exits(m_tasks)) - 1
    BY <1>3, <2>1, FS_RemoveElement
  <2>3. Alive' = Alive \ {w} /\ w \in Alive
    BY <1>1, <1>5 DEF Take, Alive, TypeOK
  <2>4. Cardinality(Alive') = Cardinality(Alive) - 1
    BY <2>3, AliveFinite, FS_RemoveElement
  <2> QED
    BY <1>1, <1>3, <1>4, <2>2, <2>4, AliveFinite DEF Accounted, TypeOK
<1>6. CASE Head(m_tasks) # Exit
  <2>1. S = Exits(m_tasks)
    BY <1>2, <1>6 DEF Exits
  <2>2. Alive' = Alive
    BY <1>1, <1>6 DEF Take, Alive, TypeOK
  <2> QED
    BY <1>1, <1>4, <2>1, <2>2 DEF Accounted
<1> QED
  BY <1>5, <1>6

(* thread_count () is what the pool converges to.                          *)
THEOREM ThreadsAccountedCorrect == Spec => []ThreadsAccounted
<1>1. Init => Accounted
  <2> SUFFICES ASSUME Init PROVE Accounted
    OBVIOUS
  <2>1. Alive = {} /\ Exits(m_tasks) = {} /\ m_thread_count = 0
    BY DEF Init, Alive, Exits
  <2> QED
    BY <2>1, FS_EmptySet DEF Accounted
<1>2. IInv /\ Accounted /\ [Next]_vars => Accounted'
  <2> SUFFICES ASSUME IInv, Accounted, [Next]_vars PROVE Accounted'
    OBVIOUS
  <2>1. TypeOK
    BY DEF IInv
  <2>2. CASE Resize
    <3>1. PICK n \in 0..Cardinality(Threads) : Grow(n) \/ Shrink(n)
      BY <2>2 DEF Resize
    <3>2. n \in Nat
      BY <3>1, ThreadPoolAssumption, FS_CardinalityType
    <3> QED
      BY <2>1, <3>1, <3>2, GrowAccounted, ShrinkAccounted
  <2>3. ASSUME Alive' = Alive, UNCHANGED <<m_thread_count, m_tasks>> PROVE Accounted'
    BY <2>3 DEF Accounted
  <2>4. CASE Start
    BY <2>3, <2>4 DEF Start, Begin, Alive
  <2>5. CASE Post
    BY <2>5, PostAccounted
  <2>6. CASE Callback \/ Join \/ Return
    BY <2>3, <2>6 DEF Callback, Join, Return, Alive
  <2>7. ASSUME NEW w \in Threads, Take(w) PROVE Accounted'
    BY <2>1, <2>7, TakeAccounted
  <2>8. ASSUME NEW w \in Threads, Sleep(w) \/ Run(w) \/ SpuriousWakeup(w) PROVE Accounted'
    <3>1. Alive' = Alive
      BY <2>1, <2>8 DEF Sleep, Run, SpuriousWakeup, Wake, Alive, TypeOK
    <3> QED
      BY <2>3, <2>8, <3>1 DEF Sleep, Run, SpuriousWakeup
  <2>9. CASE UNCHANGED vars
    BY <2>3, <2>9 DEF vars, Alive
  <2> QED
    BY <2>2, <2>4, <2>5, <2>6, <2>7, <2>8, <2>9 DEF Next, MainStep, Examine
<1>3. Accounted => ThreadsAccounted
  BY AccountedIsIt
<1> QED
  BY <1>1, <1>2, <1>3, SpecIInv, PTL DEF Spec
=============================================================================
