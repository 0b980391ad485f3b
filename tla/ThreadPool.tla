----------------------------- MODULE ThreadPool -----------------------------
(***************************************************************************)
(* gdb's worker threads: class thread_pool (gdb/gdbsupport/thread-pool.c)  *)
(* and its only client, parallel_for_each (gdb/gdbsupport/parallel-for.h), *)
(* which minimal_symbol_reader::install uses to demangle and hash minimal  *)
(* symbols.                                                                *)
(*                                                                         *)
(* The main thread splits a range of elements into chunks, posts all but   *)
(* the last one as tasks, processes the last one itself and waits for the  *)
(* futures.  Between two such calls the user may change the size of the    *)
(* pool ("maint set worker-threads").  Every critical section of           *)
(* m_tasks_mutex is one action; condition variables may wake spuriously.   *)
(***************************************************************************)
EXTENDS Naturals, Sequences, FiniteSets

CONSTANTS Threads,       \* identities a std::thread of the pool may have
          MaxElements,   \* bound: longest range handed to parallel_for_each
          LocalMax,      \* local_max, the length of the array of futures
          MinPerThread   \* fewest elements worth a thread (10 in the code)

ASSUME ThreadPoolAssumption ==
  /\ IsFiniteSet(Threads)
  /\ MaxElements \in Nat
  /\ LocalMax \in Nat \ {0}
  /\ MinPerThread \in Nat \ {0}

VARIABLES m_thread_count,  \* thread_pool::m_thread_count
          m_tasks,         \* thread_pool::m_tasks, in queue order
          pc,              \* where each thread is in thread_function
          running,         \* the chunk each thread is evaluating
          main,            \* where the main thread is in parallel_for_each
          loop,            \* the locals of that call
          ready,           \* futures whose shared state is ready
          processed        \* history: how often each element was processed

vars == <<m_thread_count, m_tasks, pc, running, main, loop, ready, processed>>

Slots == 1..(LocalMax - 1)        \* indices of the array "futures"
Elements == 1..MaxElements
Chunk == [slot : {0} \cup Slots, first : 1..(MaxElements + 1), last : 0..MaxElements]
NoChunk == [slot |-> 0, first |-> 1, last |-> 0]
Exit == NoChunk                   \* the empty optional: "terminate"
Covers(c, e) == c.first <= e /\ e <= c.last

MinOf(a, b) == IF a < b THEN a ELSE b
MaxOf(a, b) == IF a > b THEN a ELSE b

(* Mutant: the array of futures does not limit the number of subranges.    *)
ThreadsFor_unlimited(n) ==
  LET t == m_thread_count
  IN  CASE t <= 1                            -> 1
        [] t > 1 /\ n \div t < MinPerThread  -> MaxOf(n \div MinPerThread, 1)
        [] OTHER                             -> t

(* The number of subranges parallel_for_each chooses for n elements.       *)
ThreadsFor(n) ==
  LET t == MinOf(m_thread_count, LocalMax)
  IN  CASE t <= 1                            -> 1
        [] t > 1 /\ n \div t < MinPerThread  -> MaxOf(n \div MinPerThread, 1)
        [] OTHER                             -> t

Process(c) ==
  processed' = [e \in Elements |-> processed[e] + (IF Covers(c, e) THEN 1 ELSE 0)]

-----------------------------------------------------------------------------
Init ==
  /\ m_thread_count = 0
  /\ m_tasks = <<>>
  /\ pc = [w \in Threads |-> "none"]
  /\ running = [w \in Threads |-> NoChunk]
  /\ main = "idle"
  /\ loop = [i |-> 1, tasks |-> 0, size |-> 0, first |-> 1, last |-> 0]
  /\ ready = {}
  /\ processed = [e \in Elements |-> 0]

(* Waiters that a notification moves back to "examine".                    *)
Wake(ws) == pc' = [w \in Threads |-> IF w \in ws THEN "examine" ELSE pc[w]]
Waiters == {w \in Threads : pc[w] = "wait"}

(* thread_pool::set_thread_count, larger: start the missing threads.       *)
Grow(n) ==
  /\ main = "idle"
  /\ m_thread_count < n
  /\ \E new \in SUBSET {w \in Threads : pc[w] = "none"} :
       /\ Cardinality(new) = n - m_thread_count
       /\ Wake(new)
  /\ m_thread_count' = n
  /\ UNCHANGED <<m_tasks, running, main, loop, ready, processed>>

(* Mutant: one empty task, however many threads are to end.                *)
Shrink_once(n) ==
  /\ main = "idle"
  /\ n < m_thread_count
  /\ m_tasks' = Append(m_tasks, Exit)
  /\ Wake(Waiters)
  /\ m_thread_count' = n
  /\ UNCHANGED <<running, main, loop, ready, processed>>

(* thread_pool::set_thread_count, smaller: one empty task per thread that  *)
(* is to end, and everybody is notified.                                   *)
Shrink(n) ==
  /\ main = "idle"
  /\ n < m_thread_count
  /\ m_tasks' = m_tasks \o [i \in 1..(m_thread_count - n) |-> Exit]
  /\ Wake(Waiters)
  /\ m_thread_count' = n
  /\ UNCHANGED <<running, main, loop, ready, processed>>

(* parallel_for_each is entered with a range of n elements.                *)
Begin(n) ==
  /\ main = "idle"
  /\ main' = "post"
  /\ loop' = [i |-> 1, tasks |-> ThreadsFor(n) - 1, size |-> n \div ThreadsFor(n),
              first |-> 1, last |-> n]
  /\ ready' = {}
  /\ processed' = [e \in Elements |-> 0]
  /\ UNCHANGED <<m_thread_count, m_tasks, pc, running>>

(* Mutant: nobody is notified.                                             *)
Post_silent ==
  /\ main = "post"
  /\ loop.i <= loop.tasks
  /\ m_tasks' = Append(m_tasks, [slot |-> loop.i, first |-> loop.first,
                                 last |-> loop.first + loop.size - 1])
  /\ loop' = [loop EXCEPT !.i = @ + 1, !.first = @ + loop.size]
  /\ UNCHANGED <<m_thread_count, pc, running, main, ready, processed>>

(* thread_pool::post_task of the next subrange: queue it and notify one.   *)
Post ==
  /\ main = "post"
  /\ loop.i <= loop.tasks
  /\ m_tasks' = Append(m_tasks, [slot |-> loop.i, first |-> loop.first,
                                 last |-> loop.first + loop.size - 1])
  /\ loop' = [loop EXCEPT !.i = @ + 1, !.first = @ + loop.size]
  /\ IF Waiters = {} THEN UNCHANGED pc ELSE \E w \in Waiters : Wake({w})
  /\ UNCHANGED <<m_thread_count, running, main, ready, processed>>

(* The main thread processes what is left of the range.                    *)
Callback ==
  /\ main = "post"
  /\ loop.i > loop.tasks
  /\ Process([slot |-> 0, first |-> loop.first, last |-> loop.last])
  /\ main' = "join"
  /\ loop' = [loop EXCEPT !.i = 1]
  /\ UNCHANGED <<m_thread_count, m_tasks, pc, running, ready>>

(* Mutant: the futures are dropped, not waited for.                        *)
Join_unready ==
  /\ main = "join"
  /\ loop.i <= loop.tasks
  /\ loop' = [loop EXCEPT !.i = @ + 1]
  /\ UNCHANGED <<m_thread_count, m_tasks, pc, running, main, ready, processed>>

(* futures[i].wait () of the next future.                                  *)
Join ==
  /\ main = "join"
  /\ loop.i <= loop.tasks
  /\ loop.i \in ready
  /\ loop' = [loop EXCEPT !.i = @ + 1]
  /\ UNCHANGED <<m_thread_count, m_tasks, pc, running, main, ready, processed>>

(* parallel_for_each returns; its frame, and all a task refers to, is gone *)
Return ==
  /\ main = "join"
  /\ loop.i > loop.tasks
  /\ main' = "idle"
  /\ UNCHANGED <<m_thread_count, m_tasks, pc, running, loop, ready, processed>>

-----------------------------------------------------------------------------
(* thread_function, under the lock: wait on an empty queue.                *)
Sleep(w) ==
  /\ pc[w] = "examine"
  /\ m_tasks = <<>>
  /\ pc' = [pc EXCEPT ![w] = "wait"]
  /\ UNCHANGED <<m_thread_count, m_tasks, running, main, loop, ready, processed>>

(* thread_function, under the lock: take the front of the queue; an empty  *)
(* optional ends the thread.                                               *)
Take(w) ==
  /\ pc[w] = "examine"
  /\ m_tasks # <<>>
  /\ m_tasks' = Tail(m_tasks)
  /\ IF Head(m_tasks) = Exit
       THEN /\ pc' = [pc EXCEPT ![w] = "none"]
            /\ UNCHANGED running
       ELSE /\ pc' = [pc EXCEPT ![w] = "run"]
            /\ running' = [running EXCEPT ![w] = Head(m_tasks)]
  /\ UNCHANGED <<m_thread_count, main, loop, ready, processed>>

(* The task is called outside of the lock, which makes its future ready.   *)
Run(w) ==
  /\ pc[w] = "run"
  /\ Process(running[w])
  /\ ready' = ready \cup {running[w].slot}
  /\ pc' = [pc EXCEPT ![w] = "examine"]
  /\ running' = [running EXCEPT ![w] = NoChunk]
  /\ UNCHANGED <<m_thread_count, m_tasks, main, loop>>

(* A wait on a condition variable may return without a notification.       *)
SpuriousWakeup(w) ==
  /\ pc[w] = "wait"
  /\ Wake({w})
  /\ UNCHANGED <<m_thread_count, m_tasks, running, main, loop, ready, processed>>

Examine(w) == Sleep(w) \/ Take(w)
Resize == \E n \in 0..Cardinality(Threads) : Grow(n) \/ Shrink(n)
Start == \E n \in 0..MaxElements : Begin(n)
MainStep == Post \/ Callback \/ Join \/ Return

Next ==
  \/ Resize
  \/ Start
  \/ MainStep
  \/ \E w \in Threads : Examine(w) \/ Run(w) \/ SpuriousWakeup(w)

Spec == Init /\ [][Next]_vars

(* The mutex lets somebody in, a thread evaluating a task goes on with it, *)
(* and so does the main thread; nobody has to resize the pool or to start  *)
(* another loop, and no single thread is promised the mutex.               *)
Fairness ==
  /\ WF_vars(MainStep)
  /\ WF_vars(\E w \in Threads : Examine(w))
  /\ \A w \in Threads : WF_vars(Run(w))

FairSpec == Spec /\ Fairness

-----------------------------------------------------------------------------
TypeOK ==
  /\ m_thread_count \in Nat
  /\ m_tasks \in Seq(Chunk)
  /\ pc \in [Threads -> {"none", "examine", "wait", "run"}]
  /\ running \in [Threads -> Chunk]
  /\ main \in {"idle", "post", "join"}
  /\ loop \in [i : Nat, tasks : Nat, size : Nat, first : Nat, last : Nat]
  /\ ready \subseteq Slots
  /\ processed \in [Elements -> Nat]

(* thread_count () is what the pool converges to: the threads that exist   *)
(* are those it counts and those for which an empty task is still queued,  *)
(* however set_thread_count calls and terminations interleave.             *)
ThreadsAccounted ==
  Cardinality({w \in Threads : pc[w] # "none"})
    = m_thread_count + Cardinality({i \in DOMAIN m_tasks : m_tasks[i] = Exit})

(* When parallel_for_each has returned, every element of its range was     *)
(* processed exactly once and no other was, and no task of it is left that *)
(* would touch the caller's variables, whatever the pool's size is.        *)
Completed ==
  main = "idle" =>
    /\ \A e \in Elements : processed[e] = (IF e <= loop.last THEN 1 ELSE 0)
    /\ \A i \in DOMAIN m_tasks : m_tasks[i] = Exit
    /\ \A w \in Threads : pc[w] # "run"

(* A call of parallel_for_each returns, whatever the threads of the pool   *)
(* do: every posted task meets a thread that evaluates it, even when empty *)
(* tasks of an earlier set_thread_count are still queued before it.        *)
Terminates == (main = "post") ~> (main = "idle")
=============================================================================
