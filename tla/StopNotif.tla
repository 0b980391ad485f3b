------------------------------ MODULE StopNotif ------------------------------
(***************************************************************************)
(* Stop notifications in non-stop mode, between gdbserver (notif.c and the *)
(* handlers of server.c) and gdb (remote-notif.c and the stop replies of   *)
(* remote.c).  gdbserver queues one event per thread that stops and per    *)
(* process that exits, and announces the head of a queue that was empty;   *)
(* gdb fetches the queue with vStopped packets, one event each, until the  *)
(* answer is OK.  Requests of gdb and their answers share the connection   *)
(* with the notifications, in order and without loss; gdb has one request  *)
(* under way at a time.  The connection is in no-ack mode, which the two   *)
(* agree on when they connect: a packet is sent without waiting for a "+", *)
(* and so without reading a notification before pending_event is cleared.  *)
(***************************************************************************)
EXTENDS Naturals, Sequences, SequencesExt

CONSTANTS Thread,     \* threads of the debugged processes
          Process,    \* those processes
          Pid,        \* the process of each thread
          None,       \* no thread, no event
          MayExit,    \* do processes exit by themselves?
          MayKill     \* does the user kill processes?

Stopped(t) == [pid |-> Pid[t], thread |-> t]
Exited(p) == [pid |-> p, thread |-> None]
Event == {Stopped(t) : t \in Thread} \cup {Exited(p) : p \in Process}
ThreadsOf(p) == {t \in Thread : Pid[t] = p}

ASSUME StopNotifAssumption ==
  /\ Pid \in [Thread -> Process]
  /\ None \notin Thread \cup Event
  /\ MayExit \in BOOLEAN /\ MayKill \in BOOLEAN

VARIABLES state,             \* gdbserver: what each thread does
          queue,             \* gdbserver: notif_stop.queue
          request,           \* the packet of gdb that is under way
          down,              \* packets and notifications on the way to gdb
          awaited,           \* gdb: the request whose answer it awaits
          pending_event,     \* gdb: the notification that is not acknowledged
          stop_reply_queue,  \* gdb: events fetched and not yet handled
          notified,          \* gdb: is get_pending_events_token marked?
          token,             \* gdb: is remote_async_inferior_event_token marked?
          core               \* gdb: what infrun believes of each thread

server == <<state, queue>>
link == <<request, down>>
client == <<awaited, pending_event, stop_reply_queue, notified, token, core>>
vars == <<server, link, client>>

NoRequest == [type |-> "none", arg |-> {}]
Packet(type, arg) == [type |-> type, arg |-> arg]
Message(type, e) == [type |-> type, event |-> e]

(* What is left of q without the events of process p.                      *)
NotOf(q, p) ==
  LET kept[n \in 0..Len(q)] ==
        IF n = 0 THEN <<>>
        ELSE IF q[n].pid = p THEN kept[n - 1] ELSE Append(kept[n - 1], q[n])
  IN  kept[Len(q)]
Idle == awaited = NoRequest        \* gdb is in its event loop
Queued(t) == \E i \in DOMAIN queue : queue[i] = Stopped(t)

Init ==
  /\ state = [t \in Thread |-> "running"]
  /\ queue = <<>>
  /\ request = NoRequest
  /\ down = <<>>
  /\ awaited = NoRequest
  /\ pending_event = None
  /\ stop_reply_queue = <<>>
  /\ notified = FALSE
  /\ token = FALSE
  /\ core = [t \in Thread |-> "running"]

-----------------------------------------------------------------------------
(* gdbserver.                                                              *)

(* Mutant: every event is announced.                                       *)
Push_loud(q, e) ==
  /\ queue' = Append(q, e)
  /\ down' = Append(down, Message("notif", e))

(* notif_push onto the queue q: only the first event is announced.         *)
Push(q, e) ==
  /\ queue' = Append(q, e)
  /\ down' = IF q = <<>> THEN Append(down, Message("notif", e)) ELSE down

(* handle_target_event: a thread stops.                                    *)
Stop(t) ==
  /\ state[t] = "running"
  /\ state' = [state EXCEPT ![t] = "stopped"]
  /\ Push(queue, Stopped(t))
  /\ UNCHANGED <<request, client>>

(* handle_target_event: a process exits; mourning it removes its threads   *)
(* and with them their queued events, and then the exit is pushed.         *)
Exit(p) ==
  /\ MayExit
  /\ \E t \in ThreadsOf(p) : state[t] # "gone"
  /\ state' = [t \in Thread |-> IF Pid[t] = p THEN "gone" ELSE state[t]]
  /\ Push(NotOf(queue, p), Exited(p))
  /\ UNCHANGED <<request, client>>

Answer(type, e) ==
  /\ request' = NoRequest
  /\ down' = Append(down, Message(type, e))

(* Mutant: an event leaves the queue when it is sent.                      *)
HandleAck_eager ==
  /\ request.type = "vStopped"
  /\ queue' = IF Len(queue) < 2 THEN <<>> ELSE Tail(Tail(queue))
  /\ IF Len(queue) < 2 THEN Answer("OK", None) ELSE Answer("reply", queue[2])
  /\ UNCHANGED <<state, client>>

(* handle_notif_ack: what is at the head is taken for acknowledged.        *)
HandleAck ==
  /\ request.type = "vStopped"
  /\ queue' = IF queue = <<>> THEN queue ELSE Tail(queue)
  /\ IF queue' = <<>> THEN Answer("OK", None) ELSE Answer("reply", Head(queue'))
  /\ UNCHANGED <<state, client>>

(* Mutant: a thread is resumed even if its stop is still queued.           *)
HandleCont_all ==
  /\ request.type = "vCont"
  /\ state' = [t \in Thread |->
                 IF t \in request.arg /\ state[t] = "stopped" THEN "running" ELSE state[t]]
  /\ Answer("OK", None)
  /\ UNCHANGED <<queue, client>>

(* vCont: a thread whose stop gdb has not fetched yet stays as it is.      *)
HandleCont ==
  /\ request.type = "vCont"
  /\ state' = [t \in Thread |->
                 IF t \in request.arg /\ state[t] = "stopped" /\ ~Queued(t)
                 THEN "running" ELSE state[t]]
  /\ Answer("OK", None)
  /\ UNCHANGED <<queue, client>>

(* Mutant: what is queued for the process stays queued.                    *)
HandleKill_keep ==
  /\ request.type = "vKill"
  /\ state' = [t \in Thread |-> IF Pid[t] \in request.arg THEN "gone" ELSE state[t]]
  /\ Answer("OK", None)
  /\ UNCHANGED <<queue, client>>

(* handle_v_kill: kills, and discards what is queued for the process.      *)
HandleKill ==
  /\ request.type = "vKill"
  /\ \E p \in request.arg :
       LET alive == \E t \in ThreadsOf(p) : state[t] # "gone"
       IN  IF alive
           THEN /\ state' = [t \in Thread |-> IF Pid[t] = p THEN "gone" ELSE state[t]]
                /\ queue' = NotOf(queue, p)
                /\ Answer("OK", None)
           ELSE /\ Answer("E01", None)
                /\ UNCHANGED server
  /\ UNCHANGED client

-----------------------------------------------------------------------------
(* gdb.                                                                    *)

Send(type, arg) ==
  /\ request' = Packet(type, arg)
  /\ awaited' = request'

(* handle_notification: one is not acknowledged yet, this must be it again *)
Notice(e) ==
  IF pending_event # None
  THEN UNCHANGED <<pending_event, notified>>
  ELSE pending_event' = e /\ notified' = TRUE

(* Any getpkt takes the notifications before an answer.                    *)
ReadNotification ==
  /\ down # <<>> /\ Head(down).type = "notif"
  /\ ~Idle
  /\ down' = Tail(down)
  /\ Notice(Head(down).event)
  /\ UNCHANGED <<server, request, awaited, stop_reply_queue, token, core>>

(* Mutant: the second token is not marked.                                 *)
ProcessNotifications_unmarked ==
  /\ Idle
  /\ notified
  /\ notified' = FALSE
  /\ UNCHANGED <<server, link, awaited, pending_event, stop_reply_queue, token, core>>

(* The event loop calls the handler of the token that a notification has   *)
(* marked: remote_notif_process only passes it on to the other token.      *)
ProcessNotifications ==
  /\ Idle
  /\ notified
  /\ notified' = FALSE
  /\ token' = TRUE
  /\ UNCHANGED <<server, link, awaited, pending_event, stop_reply_queue, core>>

(* remote_notif_get_pending_events: acknowledge, and queue what is known.  *)
Acknowledge(e) ==
  /\ Send("vStopped", {})
  /\ stop_reply_queue' = Append(stop_reply_queue, e)
  /\ token' = TRUE

(* wait_ns, called because of a token or because there is input: it may    *)
(* find a notification, and then fetches all events.                       *)
Fetch ==
  /\ Idle
  /\ \/ /\ down # <<>>
        /\ down' = Tail(down)
        /\ Acknowledge(IF pending_event = None THEN Head(down).event ELSE pending_event)
        /\ notified' = (notified \/ pending_event = None)
     \/ /\ down = <<>> /\ token /\ pending_event # None
        /\ Acknowledge(pending_event)
        /\ UNCHANGED <<down, notified>>
  /\ pending_event' = None
  /\ UNCHANGED <<server, core>>

(* Mutant: the final OK is taken for an event.                             *)
FetchNext_endless ==
  /\ awaited.type = "vStopped"
  /\ down # <<>> /\ Head(down).type # "notif"
  /\ down' = Tail(down)
  /\ Acknowledge(Head(down).event)
  /\ UNCHANGED <<server, pending_event, notified, core>>

(* An answer to vStopped is one more event, until it is OK.                *)
FetchNext ==
  /\ awaited.type = "vStopped"
  /\ down # <<>> /\ Head(down).type # "notif"
  /\ down' = Tail(down)
  /\ IF Head(down).type = "reply"
     THEN Acknowledge(Head(down).event)
     ELSE awaited' = NoRequest /\ UNCHANGED <<request, stop_reply_queue, token>>
  /\ UNCHANGED <<server, pending_event, notified, core>>

(* mourn_inferior with discard_pending_stop_replies.                       *)
Mourn(p, q) ==
  /\ core' = [t \in Thread |-> IF Pid[t] = p THEN "gone" ELSE core[t]]
  /\ stop_reply_queue' = NotOf(q, p)
  /\ pending_event' = IF pending_event # None /\ pending_event.pid = p
                      THEN None ELSE pending_event

(* wait_ns returns the first event of the queue, and infrun handles it.    *)
Deliver ==
  /\ Idle
  /\ down = <<>> /\ token /\ pending_event = None
  /\ IF stop_reply_queue = <<>>
     THEN UNCHANGED <<core, stop_reply_queue, pending_event>>
     ELSE LET e == Head(stop_reply_queue)
          IN  IF e.thread = None
              THEN Mourn(e.pid, Tail(stop_reply_queue))
              ELSE /\ core' = [core EXCEPT ![e.thread] = "stopped"]
                   /\ stop_reply_queue' = Tail(stop_reply_queue)
                   /\ UNCHANGED pending_event
  /\ token' = (Len(stop_reply_queue) > 1)
  /\ UNCHANGED <<server, link, awaited, notified>>

(* commit_resume, after check_pending_events_prevent_wildcard_vcont has    *)
(* fetched what was announced: one thread, a process or all of them, if no *)
(* event of what a wildcard resumes is waiting to be handled.              *)
Resume ==
  /\ Idle /\ pending_event = None
  /\ \E t \in Thread :
       /\ core[t] = "stopped"
       /\ \E ts \in {{t}, ThreadsOf(Pid[t]), Thread} :
            /\ ts = {t} \/ \A e \in Range(stop_reply_queue), u \in ts : Pid[u] # e.pid
            /\ Send("vCont", ts)
            /\ core' = [u \in Thread |-> IF u \in ts /\ core[u] = "stopped" THEN "running"
                                         ELSE core[u]]
  /\ UNCHANGED <<server, down, pending_event, stop_reply_queue, notified, token>>

(* remote_target::kill, after kill_new_fork_children has fetched events.   *)
Kill(p) ==
  /\ MayKill
  /\ Idle /\ pending_event = None
  /\ \E t \in ThreadsOf(p) : core[t] # "gone"
  /\ Send("vKill", {p})
  /\ UNCHANGED <<server, down, pending_event, stop_reply_queue, notified, token, core>>

(* The answer to vCont or vKill.                                           *)
Answered ==
  /\ awaited.type \in {"vCont", "vKill"}
  /\ down # <<>> /\ Head(down).type # "notif"
  /\ down' = Tail(down)
  /\ awaited' = NoRequest
  /\ IF awaited.type = "vKill" /\ Head(down).type = "OK"
     THEN \E p \in awaited.arg : Mourn(p, stop_reply_queue)
     ELSE UNCHANGED <<core, stop_reply_queue, pending_event>>
  /\ UNCHANGED <<server, request, notified, token>>

-----------------------------------------------------------------------------
Server == HandleAck \/ HandleCont \/ HandleKill
Client == ReadNotification \/ ProcessNotifications \/ Fetch \/ FetchNext \/ Deliver \/ Answered

Next ==
  \/ \E t \in Thread : Stop(t)
  \/ \E p \in Process : Exit(p) \/ Kill(p)
  \/ Resume
  \/ Server
  \/ Client

Spec == Init /\ [][Next]_vars

(* gdbserver answers, and gdb reads and comes back to its event loop, which *)
(* calls every handler whose token is marked; nothing else has to happen.  *)
Fairness ==
  /\ WF_vars(Server)
  /\ WF_vars(ReadNotification \/ FetchNext \/ Answered)
  /\ WF_vars(ProcessNotifications) /\ WF_vars(Fetch) /\ WF_vars(Deliver)

FairSpec == Spec /\ Fairness

-----------------------------------------------------------------------------
Packets == [type : {"none", "vStopped", "vCont", "vKill"}, arg : SUBSET (Thread \cup Process)]

TypeOK ==
  /\ state \in [Thread -> {"running", "stopped", "gone"}]
  /\ queue \in Seq(Event)
  /\ request \in Packets
  /\ down \in Seq([type : {"notif", "reply", "OK", "E01"}, event : Event \cup {None}])
  /\ awaited \in Packets
  /\ pending_event \in Event \cup {None}
  /\ stop_reply_queue \in Seq(Event)
  /\ notified \in BOOLEAN
  /\ token \in BOOLEAN
  /\ core \in [Thread -> {"running", "stopped", "gone"}]

InQueues(e) == e \in Range(queue) \cup Range(stop_reply_queue)

(* The cases in which the code does lose track begin with a process that   *)
(* exits or is killed; see NoExitForgotten and QueueWillBeFetched.         *)
AllThere == \A t \in Thread : state[t] # "gone"

(* A stop that infrun has not heard of is in one of the two queues, unless *)
(* a vCont that will resume the thread is still under way: as long as no   *)
(* process went away, no order of notifications, answers and               *)
(* acknowledgements drops one.                                             *)
NoStopForgotten ==
  \A t \in Thread :
    AllThere /\ state[t] = "stopped" /\ core[t] = "running" =>
      InQueues(Stopped(t)) \/ (request.type = "vCont" /\ t \in request.arg)

(* The same for the exit of a process that gdb did not ask for: it is in a *)
(* queue, on its way to gdb or noticed there.                              *)
NoExitForgotten ==
  \A p \in Process :
    (\E t \in ThreadsOf(p) : state[t] = "gone" /\ core[t] # "gone") =>
      \/ InQueues(Exited(p)) \/ pending_event = Exited(p)
      \/ \E i \in DOMAIN down : down[i].event = Exited(p)
      \/ awaited.type = "vKill" /\ p \in awaited.arg

(* gdb will come for what is queued: while gdbserver has events, which it  *)
(* announced once and will not announce again, gdb knows, or is being told *)
QueueWillBeFetched ==
  queue # <<>> =>
    \/ \E i \in DOMAIN down : down[i].type = "notif"
    \/ pending_event # None
    \/ awaited.type = "vStopped"

(* What a vStopped takes off gdbserver's queue is what gdb has seen last,  *)
(* as long as no process went away.                                        *)
AcknowledgesWhatItSaw ==
  AllThere /\ request.type = "vStopped" =>
    queue # <<>> /\ stop_reply_queue # <<>> /\ Head(queue) = Last(stop_reply_queue)

(* A thread whose stop is still on its way to infrun is not resumed, and   *)
(* infrun is told of a stop once.                                          *)
StopsAreKept ==
  \A t \in Thread :
    Stopped(t) \in Range(stop_reply_queue) \/ Queued(t) =>
      state[t] # "running" /\ core[t] # "stopped"

(* A thread that gdb has removed with its process never comes back: no     *)
(* stop of it that was queued, announced or under way when the process was *)
(* killed or exited is delivered later, and would add the thread anew.     *)
GoneForGood == [][\A t \in Thread : core[t] = "gone" => core'[t] = "gone"]_vars

(* Every stop reaches infrun, unless a thread goes away.                   *)
StopsAreReported ==
  \A t \in Thread :
    state[t] = "stopped" /\ core[t] = "running" ~> core[t] # "running" \/ state[t] # "stopped" \/ ~AllThere
=============================================================================
