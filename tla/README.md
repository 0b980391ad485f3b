# gdb-msvc: a verification development

This directory holds TLA+ models of parts of gdb and gdbserver, TLC
configurations that check them on small instances, and proofs that TLAPS checks
for every instance. The repository is a fork of GDB (9/10 development) that adds
a PDB reader; what is modelled here is the part where several actors share
state: the breakpoints and the LWPs of gdbserver, the connection between
gdbserver and gdb and the stop notifications on it, the trace buffer that threads
of the program and gdbserver share, and the worker threads of gdb. Paths are
relative to the root of the repository.

## Inventory

| Component | State | Operations | Interacts with | Hard behaviour | What makes it correct |
|---|---|---|---|---|---|
| **gdbserver breakpoints** `gdb/gdbserver/mem-break.c`, `target.c` | per process: list of raw breakpoints (address, kind, shadow, inserted/out/gone, reference count), list of high-level breakpoints, list of fast tracepoint jumps | Z/z packets, internal and single-step breakpoints, jumps, lifting and reinserting for step-overs, validation | every read and write of memory goes through `check_mem_read`/`check_mem_write`; `linux-low.c` steps over; `tracepoint.c` installs jumps; forks clone the lists | libraries vanish and reappear below breakpoints without notice; deletions nested in reads; failing memory access on every path | nobody sees a trap when reading memory; a breakpoint gdb was told of is planted; shared raw breakpoints are counted right |
| **fork inheritance** `mem-break.c`, `linux-low.c` | the same, of the child | `clone_all_breakpoints` | the fork event | fork in a step-over | the child's shadows hide the traps copied with memory |
| **stop notifications** `gdb/gdbserver/notif.c`, `server.c`, `gdb/remote-notif.c`, `gdb/remote.c` | server: queue of unacknowledged events; gdb: pending event, queue of stop replies, two event-loop tokens | stop, exit, vStopped, vCont, vKill; fetching and delivering events | the RSP connection; `linux-low.c` (resuming); infrun | notifications cross requests; both sides drop events of processes that go away; an acknowledgement names no event | no stop is lost or told twice; the queue is always going to be fetched |
| **worker threads** `gdb/gdbsupport/thread-pool.c`, `parallel-for.h` | task queue, thread count | `set_thread_count`, `post_task`, `parallel_for_each` | `minsyms.c` | terminate requests among tasks, lost and spurious wakeups | every element once, before the call returns |
| **RSP packet link** `gdb/remote.c`, `gdbserver/remote-utils.c` | gdb: request under way, number of tries, ack mode; gdbserver: input buffer, a scheduled callback, a pending SIGIO | `putpkt`, `getpkt`, timeouts, retransmission, `QStartNoAckMode`, interrupts | all packets; the event loops of both ends | lost bytes, late answers, notifications between packets, the interrupt character anywhere in the input | an answer is taken for its own request; a request is done once; nobody sleeps on buffered input |
| **LWP control** `gdb/gdbserver/linux-low.c` | per LWP: stopped, suspended, SIGSTOP under way, pending status, resume request, what gdb was told; `step_over_bkpt`, the event pipe | `linux_wait`, `linux_resume`, stopping and suspending all, choosing step-overs | ptrace, breakpoints, `server.c` | late SIGSTOPs, clones and exits while others are stopped, step-over of one with all others stopped | who steps over runs alone; suspend counts balance; no event and no LWP forgotten |
| **tracepoints, in-process agent** `gdb/gdbserver/tracepoint.c` | trace buffer, its three control blocks and the token, counters of frames | collect, recycle, upload, clear | threads of the program write what gdbserver empties | no lock: commit by compare-and-swap against updates by ptrace | frames are whole and in order; an allocation is used once; a collection ends |
| inferior control `gdb/infrun.c`, `thread.c`, `inferior.c` | thread states, step-over chain | resume, handle events | targets, breakpoints | events against user commands | |
| breakpoint locations `gdb/breakpoint.c` | locations, moribund list | `update_global_location_list` | targets | delayed SIGTRAPs after removal | |
| event loop `gdb/event-loop.c`, `ser-event.c`, `run-on-main-thread.c` | handlers, tokens, queued runnables | poll, mark, run | everything in gdb | wakeups from other threads | no runnable forgotten |
| data cache `gdb/dcache.c`; record log `record-full.c`; `remote-fileio.c`; `bfd/cache.c`; `addrmap.c`, `memrange.c`; `nat/x86-dregs.c`; `sim/common/sim-events.c` | sequential data structures | | | | |
| PDB reader `gdb/pdb.c`, `bfd/pdb.cpp`; symbol readers; CLI, MI, TUI, Python, Guile; bfd, opcodes, libiberty, libctf; readline, zlib, gnulib | | parsing, lookup, output | | | |

`PROJECT.json` lists every component with its status, and under "hazards" what
in the modelled code is hard to test, with the line where it bites.

## Modules

| Module | What it is |
|---|---|
| `MemBreak` | gdbserver's breakpoints, jumps and memory in one process |
| `ProgramMemory` | the abstract specification `MemBreak` implements: what gdbserver's client reads is the program's memory |
| `MemBreakFork` | extends `MemBreak` by what a fork would give to the child |
| `MemBreakProofs` | TLAPS proofs about `MemBreak`: well-formed lists and reference counts; what is seen in memory and the refinement of `ProgramMemory`; and at its end about `MemBreakFork` |
| `TraceMemoryProofs`, `TraceBufferProofs`, `TraceFlushProofs` | TLAPS proofs about `TraceMemory`, and with them about `TraceBuffer` and `TraceFlush` |
| `LwpControlProofs`, `StopNotifProofs`, `RspLinkProofs`, `ThreadPoolProofs` | TLAPS proofs about the module of that name |
| `LwpControl` | stopping, suspending, stepping and resuming LWPs, and picking events |
| `StopNotif` | stop notifications, both ends, over a connection that loses nothing |
| `RspLink` | the link layer below: packets, acknowledgements, timeouts, interrupts |
| `RequestReply` | the abstract specification `RspLink` implements |
| `TraceMemory` | the layout of a trace buffer: headers, wraparound, the search for space |
| `TraceBuffer` | gdbserver's own trace buffer, which recycles its oldest frames |
| `TraceFlush` | the agent's buffer, filled by a thread and emptied by gdbserver |
| `TraceLog` | the abstract specification both trace buffers implement |
| `ThreadPool` | worker threads and `parallel_for_each` |
| `MC...` | constants for TLC |

How they go together. `LwpControl` is what stops the threads for `MemBreak`: its
`StartStepOver` and `FinishStepOver` are the same functions of `linux-low.c`, there
with the LWPs, in `MemBreak` with the breakpoints; its property `StepsOverAlone`
is the assumption under which an action of `MemBreak` is one step. The stops that
`LwpControl` reports are the events of `StopNotif`, and the connection that
`StopNotif` takes for granted is `RequestReply`, which `RspLink` implements.
`TraceBuffer` and `TraceFlush` share `TraceMemory`, and what `TraceFlush` uploads
goes into the buffer of `TraceBuffer`; both implement `TraceLog`.

### MemBreak

`proc` is a record: the memory of the process, whether its library is mapped,
and the three lists of `struct process_info`. The handlers of `mem-break.c` call
one another in sequence while every thread of the process is stopped, or while
nothing else touches memory, so each is an operator from process states to
process states (`SetRaw` is `set_raw_breakpoint_at`, `Delete` is
`delete_breakpoint`, ...), and an action applies one of them. A list is a function from
identities to records; the order of a list plays no role, since at most one
breakpoint at an address is not known to be gone (proved, see below).

* A cell of memory is what one breakpoint instruction covers, and the kind of a
  breakpoint is its instruction. A jump covers `JumpLength` cells, so that
  breakpoints lie on top of it and inside it.
* `inserted` is 1, 0 or -1 as in the code. A raw breakpoint with a reference
  count of 0 is free.
* The library `Lib` can be unmapped at any time, with what was planted in it, and
  mapped again with any code (`Unload`, `Load`); both happen while no thread is
  stepping over. With `Reload` FALSE code comes back only when no inserted
  breakpoint is left in the library, as when the client or a validation had
  removed them; with `Reload` TRUE it may come back below them.
* Reading and writing fail in an unmapped library. `mode` is the kind that
  `target_breakpoint_kind_from_pc` gives for code of the library.
* `StartStepOver` and `FinishStepOver` are the functions of `linux-low.c`; with
  `SoftwareStep`, `single_step` plants a breakpoint at any address the thread may go to.
  Other packets are handled in between.
* `accepted` and `program` are history: where the client has been told that its
  breakpoint is inserted, and what the program itself has in memory.

### MemBreakFork

`ForkChild` is what `clone_all_breakpoints` would build for the child of a fork
in the current state, without the single-step breakpoints of the stepping thread; the properties
about the child are those of `MemBreak`, instantiated with it. So every reachable
state, also one in a step-over, is checked as a fork event; the child's later
life is not.

### LwpControl

gdbserver has one thread, so a handler is an action: `Wait` (`linux_wait` with
everything `linux_wait_1` and the caller in `server.c` do with the event), `Resume` (`linux_resume`
of a vCont) and `AccessMemory` (a packet that reads or writes memory in non-stop mode, which
pauses and unpauses everything around it). Inside a handler events arrive: the
operators work on states of the handler, and where the kernel has a choice they yield the
set of states it may lead to (`Filter` is one event of one LWP, `StopAll` one of each running
LWP, `Drained` one of any of them). An LWP is a record with the fields of
`lwp_info` and `thread_info` that matter. An event is a signal or a breakpoint gdb must hear of
("Sig"), a signal it wants passed on ("Quiet"), a breakpoint of gdbserver's own
("Bkpt"), a finished step or a SIGSTOP of gdbserver's. `at` says that an LWP is stopped
where such a breakpoint is: it has hit it, or a SIGSTOP, a signal or a clone event has
stopped it there just before it did; `NeedsStepOver` (`need_step_over_p`) makes no difference between them. An LWP that is cloned
starts with its SIGSTOP, or with another signal that came first, which is kept pending (`CloneEvent`). `suspended` may be out of its range only where the code
ends with an internal error.

### StopNotif

gdbserver: `state` of each thread and `queue` (`notif_stop.queue`). gdb:
`pending_event`, `stop_reply_queue`, the two tokens (`notified`, `token`), the
request it awaits an answer to, and `core`, what infrun believes. The connection
is reliable and ordered, and gdb has one request under way. `Fetch` and
`FetchNext` are `remote_notif_get_pending_events`, one packet per action, so that
stops and notifications come between any two packets. `ReadNotification` is any
`getpkt` that finds a notification before its answer. A resumption is of
one thread, or of a process or of all threads by a wildcard if no stop of what is resumed waits to be handled.
The connection is in no-ack mode, so that sending vStopped and clearing `pending_event` is one step: with acknowledgements,
`putpkt` might read a notification before `pending_event` is cleared.

### RspLink

A packet is three tokens (start, contents, checksum), characters such as `+`, `-` and `^C`
one each; both directions are sequences of tokens, and `Lose` takes any token
out. gdbserver reads any number of tokens at once into its buffer (`buffered`); what is
left there is announced to its event loop by `reschedule` (`scheduled`, which may also be true of an
empty buffer, since `readchar` announces characters that it takes next), what is still
in the socket by `select` and by SIGIO. An action handles what one read of the code's
loops handles. Timeouts fire only when nothing is under way: a timeout
that races a slow answer is the retransmission of an answer that comes late, which losing
its acknowledgement gives as well. In all-stop mode gdb's event loop calls `wait_as` when something has
come, with `TARGET_WNOHANG` (`Forever`); a blocking `wait_as`, which after too many tries goes on with whatever is in its buffer, is left out. A link that loses bytes keeps acknowledgements:
`QStartNoAckMode` is for reliable ones (`lossy`).

`RequestReply` says that an answer taken is the answer to the request asked last.
`Reliable` claims it while nothing was lost, and with one loss if the user never
interrupts (`InSync`): packets have no numbers, so that two losses, or a loss and an
interrupt (gdbserver answers it with a stop of its own), put the two ends one
packet apart for ever.

### TraceMemory, TraceBuffer, TraceFlush

A cell of the buffer is a unit of length: a header takes `Header` cells, a block as many as its
length. A header has the number of the tracepoint and the length of the frame's
data, as in `struct traceframe`, and a datum carries the number of its frame and
its place in it, so that a frame can be told to be whole.

`TraceBuffer` is one process: each action is one call of `trace_buffer_alloc` or one round of its
loop that drops the oldest frame. `TraceFlush` has two: every access of
gdbserver to the memory of the program is an action (`PutStart` and `PutRest`
write the control block word by word), and so is every step of the agent between
two accesses to shared memory. The agent's token has counters modulo `Counters`
(2048 in the code). The breakpoint on `about_to_request_buffer_space` holds the
thread up where the code has it (`Runs`).

### ThreadPool

Every critical section of `m_tasks_mutex` is one action. `loop` holds the locals
of `parallel_for_each`; evaluating a subrange is one step, and counts its
elements in `processed`. `Grow` and `Shrink` are the two branches of
`set_thread_count`, which is called on the main thread between two loops.

## Runs

| Run | Bounds | States | What it shows |
|---|---|---|---|
| `breakpoints_and_jumps` | 3 cells, the last one library; 1 kind, jumps of 2 cells, 2 raw and 3 high-level breakpoints, 1 reference per jump; hardware single-step | 91,000 | `TypeOK`, `NoDanglingBreakpoint`, `OutOnlyWhileStepping`, `Honoured`, and `Transparent`: the implementation of `ProgramMemory` |
| `breakpoint_kinds_and_forks` | 2 cells, one library; 2 kinds, 3 raw and 3 high-level breakpoints, single-stepping with breakpoints | 94,000 | `OneEnabledPerAddress`, `Honoured`, `StepBreakpointPlanted`; for the child of a fork in any state `ChildNoDangling`, `ChildTransparent`, `ChildHonoured` |
| `lwp_control` | 2 LWPs, which may clone and exit, both modes, 3 events that gdb need not hear of | 54,000 | `StepsOverAlone`, `StoppedMeansStopped`, `NobodyForgotten`, `EventsAreKept`, and under fairness `StopsAreAnswered` |
| `notifications` | 4 threads in 2 processes, exits and kills | 218,000 | `NoStopForgotten`, `AcknowledgesWhatItSaw`, `StopsAreKept`, `GoneForGood`, and under fairness `StopsAreReported` |
| `rsp_link` | 3 requests, 2 losses, 1 interrupt, 1 notification, 2 tries | 297,000 | `BufferIsScheduled`, `DoneOnce`, `Reliable`: the implementation of `RequestReply`, and under fairness `Answered`, `InterruptHonoured` |
| `trace_buffer` | 13 cells, headers of 2, 5 frames of up to 2 blocks of 1 or 2 | 90,000 | `FramesIntact`, `EndMarked`, and `IsLog`: the implementation of `TraceLog` |
| `trace_flush` | 8 cells, headers of 1, 3 frames of up to 2 blocks, counters modulo 4 | 561,000 | `GrantIsLive`, `UploadedInOrder`, `IsLog`, and under fairness `CollectionEnds` |
| `parallel_for` | 4 threads, 5 elements, futures for 2 tasks (`LocalMax` 3), 1 element per thread | 7,400 | `ThreadsAccounted`, `Completed`, and under fairness `Terminates` |
| `exit_forgotten`, `queue_stuck`, `trace_walk`, `internal_reported` | as above | | the findings below |

Why the bounds are enough. Interactions of breakpoints are per address, or
between an address and the jump below it: two cells of a jump and one outside
of it give every overlap, two raw breakpoints at one address (one known to
be gone, one of another kind) need two identities, and sharing needs two
high-level breakpoints of different types at one address. Step-overs involve the LWP that
steps and those that do not, which do not interact with each other: two LWPs meet every
combination, and one that exits makes room for one that is cloned; `MaxHits` lets each have a
hit pending while another is handled. Stops of two threads of a
process and two of another let a queue hold an announced event, others behind
it, and events of the process that stays. Three requests are one in step, one that a loss
hits, and the next one, whose answer might be mistaken; two losses hit a packet and its
retransmission, which exhausts two tries. The trace buffers are just large
enough for a few frames that do not divide them evenly: they wrap around, leave free space in two
parts, and overtake frames that are read; three frames take the counters of the
token around once. A pool with more threads than
`LocalMax` meets both limits on the number of subranges, and five elements do not
divide evenly.

Bounds in guards. `Room` keeps setting a breakpoint from exceeding `MaxRaw` and `MaxBp`,
`MaxRef` bounds the references of a jump; `MaxHits` bounds the events
that gdbserver handles without telling gdb; `MaxRequests`, `MaxFaults`,
`MaxInterrupts` and `MaxNotifs` bound what happens on the link; `MaxFrames` and `MaxBlocks` what
is collected. Deadlock is checked for the breakpoints, the LWPs and the worker threads, and
not where a bound, or the end of all processes, ends a behavior (`notifications`, `rsp_link`, `trace_buffer`,
`trace_flush`), nor in runs for a finding.

Fairness.

* `notifications` assumes that gdbserver answers, that gdb reads what
  arrives for it, and that its event loop calls every handler whose token is
  marked; that threads stop, are resumed or killed is never assumed.
* `lwp_control` states fairness of choices inside a handler, so not as fairness of an action:
  the kernel stops an LWP that is stepped or has a SIGSTOP coming (`MustStop` does not
  hold for ever), and an LWP that may be picked again and again is picked, which
  `find_thread_in_random` (`gdb/gdbserver/gdbthread.h`) is there for: "to prevent starvation". Nothing
  is assumed of an LWP that just runs, nor of gdb. The pipe is not trusted: `linux_wait` is called
  because a SIGCHLD or the code marked it, and an LWP whose event waits while nobody
  marks the pipe is not one that may be picked.
* `rsp_link` assumes that the two ends go on (`Gdb`, `Server`); the user and the losses are free.
* `trace_flush` assumes that the collecting thread runs, and that gdbserver goes on with an
  upload and handles the breakpoint for a full buffer; that gdbserver looks at the buffer on its own is not assumed.
* `parallel_for` assumes that the main thread goes on, that a thread that evaluates a
  task goes on, and that the mutex lets some waiting thread in; no single thread
  is promised the mutex, and spurious wakeups are not promised either.

## Findings

* `exit_forgotten` / `NoExitForgotten`. An exit discards the announced
  events of the process's threads and is announced itself, with a second notification. If gdb
  reads that while it has the first one pending, it drops it as resent (`remote-notif.c:139`); the vStopped that it sends for the first
  one then takes the exit off the queue, and is answered as if nothing were left. An exit that is on its way to gdb or pending there counts
  as remembered, so the trace goes on to where nobody has it: a thread's stop is announced
  while gdb awaits the answer to a vCont of another, the process exits, gdb reads the first notification with the answer and, before its
  event loop has fetched anything, the second.
* `queue_stuck` / `QueueWillBeFetched`. vKill discards the announced event on both
  sides, and with it the only reason for gdb to fetch what is queued behind it. As long as no process
  goes away the property holds.
* `trace_walk` / `AllBlocksWalked`. When a frame is wrapped around,
  `traceframe_walk_blocks` computes what is left to walk from the part it has walked.
* `internal_reported` / `InternalStaysInternal`. When `linux_wait_1` reports one LWP's event,
  `select_event_lwp` may switch to another LWP's. That event was never looked at: a
  tracepoint hit, or a breakpoint of gdbserver's own, is reported to gdb as a SIGTRAP, and
  what should be done at it is not done.

What else the models show, without a run of its own:

* Breakpoints, with `Reload` TRUE. If code is replaced below an inserted breakpoint without
  validation, `set_raw_breakpoint_at` may share the raw breakpoint that is still marked
  inserted, and the new one is never planted: `Honoured` fails, against the purpose that the
  comment at `mem-break.c:1033` states. Removing the old breakpoint writes its old shadow
  (`Transparent`), and a single-step breakpoint may share an old raw one, which
  `delete_disabled_breakpoints` asserts never happens (`StepBreakpointPlanted`).
* Forks. `clone_one_breakpoint` makes one raw breakpoint per high-level one, each with
  the count of the shared original, so that several are at one address, against
  the header of `mem-break.c`; `OneEnabledPerAddress` does not hold in the child.
  Jumps are not cloned though memory is, so the child's reads show them. The breakpoint that the
  parent is stepping over stays out of the child's memory (`linux-low.c:579`); `ChildHonoured` leaves that
  address out.
* LWPs, with `StepperExits` TRUE. If an LWP exits during its step-over, the others are
  unsuspended but not set running, and `linux_wait_1` returns that nothing is resumed
  although some may be; in all-stop mode everything is then marked as stopped, and
  `StoppedMeansStopped` fails. `server.c:2873` says "the target backend has already done so by now".
* LWPs, with `StepperClones` TRUE. A clone by the stepping LWP that is collected while a
  memory access pauses everything gets one suspend count where two are due
  (`linux-low.c:649`): it runs during the step-over, and unsuspending it again is an internal error. `TypeOK` and
  `StepsOverAlone` fail.
* LWPs. `need_step_over_p` takes an LWP that a SIGSTOP paused exactly at a breakpoint it has
  not hit for one that must step over it, so the hit is missed; `unstop_all_lwps` does not ask
  `need_step_over_p` at all, so there a hit may come twice. `StepsOverAlone` and the other properties hold with these step-overs too; none says that each passage of a breakpoint is a hit. A vCont;c for a thread whose vCont;t
  is not answered yet leaves a SIGSTOP that is then reported as a signal.
* The link. An interrupt that races a stop makes `putpkt` of gdbserver send its answer twice. If
  the acknowledgement of a request that continues the program is lost, the request
  is sent again, and gdbserver may execute it after the stop.
* Trace buffers. In a buffer that holds hardly one frame (`Size` 12), dropping the last complete frame leaves
  `start` at a stale header, and the count of frames underflows. Switching from
  circular to linear during a run violates `EndMarked`. `upload_fast_traceframes` copies a
  frame's data in one piece although it may be wrapped around, so `UploadedInOrder` speaks of
  frames that are not, and nothing is claimed of the data of one that is. A frame larger than the agent's buffer makes the agent ask for a
  flush for ever; `MaxBlocks` keeps frames smaller.

## What is proved

For all values of the constants that satisfy the named assumption of the module:

| Theorem | States | Needs besides |
|---|---|---|
| `MemBreakProofs` `TypeCorrect`, `OneEnabledCorrect`, `OutOnlyCorrect` | `[]TypeOK`, `[]OneEnabledPerAddress`, `[]OutOnlyWhileStepping` | |
| `MemBreakProofs` `NoDanglingCorrect` | `[]NoDanglingBreakpoint` | |
| `MemBreakProofs` `OwnedCorrect` | no reference to a raw breakpoint leaks | `~Reload` |
| `MemBreakProofs` `HonouredCorrect`, `StepBreakpointPlantedCorrect` | `[]Honoured`, `[]StepBreakpointPlanted` | `~Reload` |
| `MemBreakProofs` `TransparentCorrect` | `Transparent`: `MemBreak` implements `ProgramMemory` | `~Reload` |
| `MemBreakProofs` `ChildNoDanglingCorrect` | `[]ChildNoDangling` | |
| `MemBreakProofs` `ChildHonouredCorrect` | `[]ChildHonoured` | `~Reload` |
| `MemBreakProofs` `ChildTransparentCorrect` | `[](JumpsOut => ChildTransparent)` | `~Reload` |
| `LwpControlProofs` `TypeCorrect`, `StepsOverAloneCorrect`, `StoppedMeansStoppedCorrect`, `NobodyForgottenCorrect` | the four invariants of `LwpControl` | `~StepperExits`, `~StepperClones` |
| `LwpControlProofs` `EventsAreKeptCorrect` | the action property `EventsAreKept` | the same |
| `StopNotifProofs` `TypeCorrect`, `StopsAreKeptCorrect`, `NoStopForgottenCorrect`, `AcknowledgesCorrect` | the four invariants of `StopNotif` | |
| `StopNotifProofs` `GoneForGoodCorrect` | the action property `GoneForGood` | |
| `RspLinkProofs` `BufferCorrect` | `[]BufferIsScheduled` | |
| `RspLinkProofs` `DoneOnceCorrect` | `[]DoneOnce`: a request is done at most once before anything is lost | |
| `RspLinkProofs` `ReliableWithoutLosses` | `RspLink` implements `RequestReply` up to the first loss | |
| `TraceBufferProofs` `TypeCorrect`, `FramesCorrect`, `EndCorrect` | `[]TypeOK`, `[]FramesIntact`, `[]EndMarked` | `Roomy`, `FALSE \notin Modes` |
| `TraceBufferProofs` `LogCorrect` | `IsLog`: `TraceBuffer` implements `TraceLog` | the same |
| `TraceFlushProofs` `GrantIsLiveCorrect`, `UploadedInOrderCorrect` | `[]GrantIsLive`; `[]UploadedInOrder`: all frames once and in order, the data only of those that do not wrap round | |
| `TraceFlushProofs` `LogCorrect` | `IsLog`: `TraceFlush` implements `TraceLog` | |
| `ThreadPoolProofs` `TypeCorrect`, `ThreadsAccountedCorrect`, `CompletedCorrect` | the three invariants of `ThreadPool` | |

`~Reload`, `~StepperExits` and `~StepperClones` are settings of the models whose other
value is a case in which the code fails, as described under Findings: the properties are not true
there, and the passing runs have the same settings. So are `Roomy` and `FALSE \notin Modes`. The first says
that the buffer has room for nearly two of the largest frames: `Size` is at least four headers and `MaxBlocks + 1` times the largest
block, less one. The run's 13 cells are exactly that; with 12 the count of
frames underflows (see Findings); the code's buffer of 5 MB is far above it. The second leaves out a
switch from circular to linear.

### MemBreak

Nearly every operation only removes: `Keeps(s, t)` says that `t` has no
breakpoint that `s` has not, each where it was and as inserted as it was or known to be
gone. It is reflexive and transitive, holds of `Validate`, `Write`, `Delete` and
the jumps, and preserves the invariants. What is left are the operations that
insert: `Insert`, `Uninsert` (`Changes`), and `SetRaw` and what calls it. The theorems of
`MemBreakProofs` need one another, and a fourth fact: `IInv` adds `SteppedIsMapped`, the
code that a thread steps over stays mapped. Without it reinserting could fail,
and `FinishStepOver` would leave a breakpoint out. `OneEnabledPerAddress` in turn is needed
for `OutOnlyWhileStepping`, because `ReinsertAt` reinserts one breakpoint, and
`OutOnlyWhileStepping` for nothing else being out when a step-over starts.

`NoDanglingBreakpoint` is inductive together with `IInv`. `Counted` is its
form for any process state. `DeleteDisabled` drops all references to a raw
breakpoint or none (`DeleteDisabledDrops`), `Delete` drops one reference and
one count, and `SetRaw` leaves a count that the new high-level breakpoint
makes up for (`SetRawCounted`). `Owned` is the other half: a raw breakpoint that is not known
to be gone, in code that is mapped, has no more references than high-level breakpoints. Between
`SetRaw` and the high-level breakpoint one reference is owed (`Owes`).

The second half of `MemBreakProofs` says what is in memory. `Coherent(s, p)`: in every cell that is
mapped there is the instruction of the breakpoint that is inserted there, else the part of the
jump that is inserted over it, else what the program `p` has; and the shadows
of both hold what the program has. It holds together with `KindsOK`, a
breakpoint that is not known to be gone is of the kind of the code, which is where `~Reload` is
needed. Reading under these is reading the program, so every step is a step of `ProgramMemory`
on `p` or changes nothing. For `Honoured` the client's breakpoint at an address that it was
told of is firm (`GdbFirm`): not known to be gone while its code is mapped. For `StepBreakpointPlanted`
the single-step breakpoint is inserted, and the only one (`StepInv`).

The child of a fork has one raw breakpoint per high-level one. That its shadows hide each trap
copied needs `Owned`: a trap of the parent that no high-level breakpoint was on would not be copied into the list.
Its jumps are not cloned though memory is (see Findings), so `ChildTransparent` is proved
where the parent has none inserted (`JumpsOut`), the situation of the run, which has no jumps.

### LwpControl

`Good(s, d, ex)` is what holds of the state of a handler in which `d` extra suspend counts are
due to every LWP but `ex`: each LWP is `Sound` on its own (one with an event is stopped; one that gdb was told of and that gdb
has not resumed is stopped), it is marked as stepping over a breakpoint exactly if
`step_over_bkpt` says so, and its count is one for another's step-over and `d` for what is being done.
`stop_all_lwps` makes `Good(s, 0, None)` into `Good(s, 1, ex)` and `unstop_all_lwps` makes it the former again,
so that the balance of suspend counts is one lemma per function instead of one
per path. What stops several LWPs takes one event of each, a fold over a set; `FoldIs` proves by
induction on the number of LWPs that each event keeps `Good` and leaves other stopped LWPs alone. `Going`
adds for non-stop mode that nobody is left behind; it does not hold inside handlers, and is established at their end.
`EventsAreKept` comes out of the same lemmas (`SigKept`). The inductive invariant `IInv` is `Good(Handler, 0, None)` with `Going`.

### StopNotif

The invariant `IInv` is an account of where the stop of a thread is: in gdbserver's queue, on the
way to gdb, in the notification that gdb has not acknowledged, or fetched; on gdb's
side it is in one place at most, and when it is on both sides it is at the head of gdbserver's
queue (`HeadSeen`). It has to speak of what is under way too: a thread that a vCont on its way
names and that has stopped again meanwhile still has its stop in gdbserver's queue, so that
it is skipped (`ContSafe`), and behind the answer to a vKill no stop of that process
comes (`KillAnswered`). `StopsAreKept` and `GoneForGood` follow. `NoStopForgotten` and
`AcknowledgesWhatItSaw` say something only as long as no process went away (the findings are what
happens when one does), and rest on `BInv`, which is inductive in that case: the one event that is
announced, on its way or with gdb, is the head of gdbserver's queue (`Announced`); a vStopped on its way is
for the head, and that is what gdb has queued last (`Acked`); a stop that infrun has not heard of is
in a queue, or the thread is about to be resumed (`Remembered`).

### RspLink

`LinkInv` adds to `BufferIsScheduled` that no more is in the buffer than has been sent,
and the types that make the lengths of sequences natural numbers. What is proved is that every way
out of `getpkt` and `putpkt` with something left in the buffer goes through `reschedule`.

`DoneOnce` and the refinement are about a link that has not lost anything yet; `LosslessInv` is their
invariant, and it is an account of every token under way. `WholeInv` says what the conversation looks like as a whole:
the two sequences of tokens and gdbserver's buffer hold whole packets, at most one request and its
answer, with interrupts and notifications between them. `RequestInv`, `AnswerInv`, `AckInv` and `NoAckInv` say
for each stage of a request what is under way: the request itself; or its acknowledgement and nothing that gdbserver could
take for a request; or the answer, which is that of the request that gdb awaits; and that an acknowledgement is on its way exactly if the other
side waits for one. `AwaitInv` and `HistoryInv` connect that with what gdbserver has done and what gdb has
taken. It follows that nothing times out before something is lost (`NoTimeOut`), so nothing is sent
twice, and every step is one of `RequestReply` or changes nothing that it speaks of.

### TraceMemory and TraceBuffer

The difficulty is that a walk through the buffer computes the place of each frame from what memory holds
at the place of the one before, and that memory keeps stale headers. `TraceMemoryProofs` numbers the cells in use from `start` on, as if
the buffer had no end (`Cell`, `Used`). With that the search for space, its lower half, and dropping the oldest frame are
arithmetic (`TakenFacts`, `LowerFacts`, `WithoutFacts`). `Chain(m, c, o, n, b)` says that the frames
lie at the offsets `o`, each intact and up to the next, and the last one up to the end of what is
in use. A chain survives writes outside of it (`ChainKept`), a new piece (`ChainAdd`), a longer last frame (`ChainGrow`) and the loss of its
first frame (`ChainWithout`). That the walk finds the chain (`PlaceFacts`) is an induction on the number of a frame, written
as one over the set of numbers where it fails.

The invariant of `TraceBuffer` is that there are such offsets for the frames that are counted and the one that is collected (`Frames`),
that pointers and counts are in range (`CtlInv`, `CountInv`, `FrameInv`). `Roomy` is needed in one
place: who looks for space in vain is not the only frame (`NotAlone`), so that dropping the oldest one
never drops the one under construction.

### TraceFlush

There are no hypotheses here: the three theorems hold for any sizes, any number of frames and any number
of counter values above one, though the token's counters wrap.

The first half is about the token, `TokenInv`. The agent reads the token, builds, exchanges the
token and reads it again, and in between it passes the breakpoint twice. gdbserver may come at any of these steps, but it overwrites the
token at most once in one attempt: it comes only if there are frames that it has not
seen, once it has come it has seen all (`Seen`), and the agent finishes none while it allocates. So at the end of an attempt the token is one of three: the agent's own,
gdbserver's on top of it, or gdbserver's on top of the one before; and these differ in the
fields that `Effective` compares as soon as two counter values differ (`TokenFacts`). With a
second visit, `Effective` could take the third for the second.

The second half is about the buffer. `Stocked(m, c, k, n, at, p, g)` says that the memory `m` has, from
`c.start` on, a chain of the frames `n + 1` to `n + k`, the last one starting at `at` if a frame is
being collected, and behind it exactly the granted piece of `g` bytes at `p`. `LiveInv` says this of the
live `trace_buffer_ctrl`, which is gdbserver's copy from the time it is read to the end of the upload. What is granted depends on the
token: a commit that gdbserver has overwritten grants nothing. What becomes live is known
beforehand: what the agent has built (`CopiedInv`), what gdbserver's token brings back (`UndoneInv`), and what gdbserver
writes word by word (`ServerCtrlInv`). Every step but six leaves
`LiveInv` alone (`QuietSteps`); those are `CommitToken`, `MarkEnd`, `Fill`, `StampToken`, `CopyFrame` and `QTinit`, each
with a lemma about `Stocked`. `UploadInv` numbers the frames in gdbserver's buffer, and the two buffers together are the log.

`Roomy` is not needed, since nobody drops a frame for want of space: the agent waits for gdbserver.

### ThreadPool

Of `ThreadPool`, `Completed` rests on a partition: an element that was handed out is processed
once, or is in exactly one chunk that is posted or being evaluated (`PendingApart`, `ProcessedOnce`), and no
future of such a chunk is ready (`PendingFresh`). `TypeOK` contains that the main thread never needs
more futures than `LocalMax` gives it, which takes the arithmetic of `ThreadsFor`. `ThreadsAccounted`
is about numbers alone, and inductive with the types.

### Assumptions

The named `ASSUME`s are facts about sets and numbers of the configuration: that sets of
threads or LWPs are finite, that bounds are natural numbers, that "no thread", "no LWP", "no event" and the like differ
from the threads, LWPs and events. TLC evaluates each on the runs.

## What is only model-checked

* All liveness: `StopsAreAnswered`, `StopsAreReported`, `Answered`, `InterruptHonoured`,
  `CollectionEnds`, `Terminates`. Liveness under fairness is beyond the prover, as is ENABLED.
* `Reliable` of `RspLink` from the first loss on. Up to it, the refinement is proved.

## What is not modelled

* Breakpoints: hardware breakpoints, watchpoints, conditions and commands;
  `uninsert_all_breakpoints` and `reinsert_all_breakpoints` around agent
  commands; jumps in code that is unmapped, and failures of writing them; the
  child's life after a fork, and vfork.
* LWPs: single-stepping with breakpoints, jump pads with `stabilize_threads` and deferred
  signals, forks and execs, attaching, detaching and `complete_ongoing_step_over`, system call
  catching, watchpoints, and a PC that gdb changes. An LWP that exits in its step-over, or clones one while
  everything is paused then, only with the constants above.
* Notifications: all-stop mode, reconnection with `?`, detaching.
* The link: escapes and run-length encoding, the watchdog, vCtrlC, losing the connection.
* Tracing: definitions, conditions and bytecode of tracepoints, jump pads, state variables, static
  tracepoints; clearing the buffer in non-stop mode while a thread collects, which the code
  answers with an internal error; stopping the trace because gdbserver's own buffer is full;
  `cmd_qtbuffer`, which copies bytes by their offset and takes no account of the wraparound.
* Worker threads: exceptions of callbacks and failures to start threads.

Components with the status not_modelled in `PROJECT.json` have their reason there.

## Plan

Written in this order, the behaviour that most else rests on first: `MemBreak` with
its abstract specification, `MemBreakFork`, `StopNotif`, `ThreadPool`, `RspLink`, `TraceBuffer`,
`TraceFlush`, `LwpControl` (all present). What is left:

1. `MainThreadQueue`: `run_on_main_thread` and `ser_event`.
2. Sequential structures with a reference definition: x86 debug registers, data cache, open-file cache.
3. Reconnection in `StopNotif`, detaching and `complete_ongoing_step_over` in `LwpControl`.

Theorems still worth proving: `Reliable` of `RspLink` for an execution that loses packets, for which the
account of tokens under way has to include what is sent twice.
