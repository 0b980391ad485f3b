------------------------------ MODULE RspLink -------------------------------
(***************************************************************************)
(* The link layer of the remote protocol: putpkt and getpkt of gdb         *)
(* (gdb/remote.c) and of gdbserver (gdb/gdbserver/remote-utils.c), with    *)
(* acknowledgements, retransmission, timeouts, the change to a link        *)
(* without acknowledgements, notifications between packets, and the        *)
(* interrupt character, which gdbserver takes out of its input buffer or,  *)
(* while the program runs, out of the socket in a handler of SIGIO.        *)
(*                                                                         *)
(* A packet is three tokens: its start, its contents, and its checksum.    *)
(* Contents are the number and the kind of a request, or the number of the *)
(* request that they answer.                                               *)
(***************************************************************************)
EXTENDS Naturals, Sequences, SequencesExt

CONSTANTS MaxRequests,    \* bound: requests of gdb
          MaxFaults,      \* bound: tokens that are lost
          MaxInterrupts,  \* bound: interrupts of the user
          MaxNotifs,      \* bound: notifications
          MaxTries        \* MAX_TRIES of getpkt, and the retries of putpkt

ASSUME RspLinkAssumption ==
  /\ MaxRequests \in Nat /\ MaxFaults \in Nat /\ MaxInterrupts \in Nat /\ MaxNotifs \in Nat
  /\ MaxTries \in Nat \ {0}

VARIABLES lossy,      \* does the link lose bytes?  Then gdb insists on acknowledgements
          nonStop,    \* the mode of the connection
          gdb,        \* what gdb is doing about its last request
          toServer,   \* tokens on their way to gdbserver, and in its buffer
          toGdb,      \* tokens on their way to gdb
          server,     \* what gdbserver is doing
          buffered,   \* readchar_bufcnt: how many of toServer were read already
          scheduled,  \* is process_remaining among the callback events?
          sigio,      \* is a SIGIO pending?
          program,    \* "stopped" or "running"
          sigint,     \* was the program sent a SIGINT that it has not met?
          sent,       \* history: faults, interrupts and notifications so far
          history     \* history: what was done and what was taken

linkVars == <<lossy, nonStop>>
inputVars == <<buffered, scheduled, sigio>>
programVars == <<program, sigint>>
vars == <<lossy, nonStop, gdb, toServer, toGdb, server, buffered, scheduled, sigio,
          program, sigint, sent, history>>

-----------------------------------------------------------------------------
(* Tokens: these, and the characters $ % + - and ^C.                       *)

Kinds == {"query", "cont", "noack"}
Char(c) == [t |-> c]
Body(n, k) == [t |-> "body", n |-> n, kind |-> k]
Sum(n) == [t |-> "#", n |-> n]
Packet(start, n, k) == <<Char(start), Body(n, k), Sum(n)>>
Ends(s, E) == {i \in 2..Len(s) : s[i].t \in E}
First(I) == CHOOSE i \in I : \A j \in I : i <= j
From(s, i) == SubSeq(s, i + 1, Len(s))

(* The frame of the first i tokens is intact: its checksum is right.       *)
Intact(s, i) == i = 3 /\ s[2].t = "body" /\ s[3].t = "#" /\ s[2].n = s[3].n

-----------------------------------------------------------------------------
(* What gdb and gdbserver send.  Data that arrives raises SIGIO.           *)

ToServer(left, new) ==
  /\ toServer' = left \o new
  /\ sigio' = (sigio \/ new # <<>>)
Acked(noack) == IF noack THEN <<>> ELSE <<Char("+")>>

Request == Packet("$", gdb.n, gdb.kind)
Answer(n) == Packet("$", n, "answer")

-----------------------------------------------------------------------------
(* gdb: putpkt.                                                            *)

(* A request, and the wait for its acknowledgement.                        *)
Send(k) ==
  /\ gdb.pc = "idle"
  /\ gdb.n < MaxRequests
  /\ k = "noack" => ~lossy /\ ~gdb.noack
  /\ gdb' = [gdb EXCEPT !.pc = IF gdb.noack THEN "answer" ELSE "ack", !.n = @ + 1, !.kind = k,
                        !.tries = 0]
  /\ ToServer(toServer, Packet("$", gdb.n + 1, k))
  /\ history' = [history EXCEPT !.times = 0, !.interrupted = FALSE]
  /\ UNCHANGED <<linkVars, toGdb, server, buffered, scheduled, programVars, sent>>

(* After too many tries gdb goes on to wait for an answer all the same.    *)
Resend(rest) ==
  /\ toGdb' = rest
  /\ IF gdb.tries < MaxTries
     THEN gdb' = [gdb EXCEPT !.tries = @ + 1] /\ ToServer(toServer, Request)
     ELSE gdb' = [gdb EXCEPT !.pc = "answer", !.tries = 0] /\ ToServer(toServer, <<>>)
  /\ UNCHANGED sent

(* Mutant: a packet is as good as an acknowledgement.                      *)
SkipFrame_accepted(rest) ==
  /\ gdb' = [gdb EXCEPT !.pc = "answer", !.tries = 0]
  /\ UNCHANGED <<toGdb, toServer, sigio, sent>>

(* A packet instead of an acknowledgement is skipped and acknowledged.     *)
SkipFrame(rest) ==
  /\ toGdb' = rest
  /\ ToServer(toServer, <<Char("+")>>)
  /\ UNCHANGED <<gdb, sent>>

Notified(i) == sent' = [sent EXCEPT !.handled = IF Intact(toGdb, i) THEN @ + 1 ELSE @]

ReadAck ==
  /\ gdb.pc = "ack"
  /\ toGdb # <<>>
  /\ LET c == Head(toGdb).t
         ends == Ends(toGdb, IF c = "$" THEN {"#"} ELSE {"#", "$"})
         i == First(ends)
     IN  \/ /\ c = "+"
            /\ gdb' = [gdb EXCEPT !.pc = "answer", !.tries = 0]
            /\ toGdb' = Tail(toGdb)
            /\ UNCHANGED <<toServer, sigio, sent>>
         \/ c = "-" /\ Resend(Tail(toGdb))
         \/ c = "$" /\ ends # {} /\ SkipFrame(From(toGdb, i))
         \/ /\ c = "%" /\ ends # {}
            /\ Notified(i)
            /\ gdb' = [gdb EXCEPT !.tries = IF Intact(toGdb, i) THEN 0 ELSE @]
            /\ toGdb' = From(toGdb, i)
            /\ UNCHANGED <<toServer, sigio>>
         \/ /\ c \notin {"+", "-", "$", "%"}
            /\ toGdb' = Tail(toGdb)
            /\ UNCHANGED <<gdb, toServer, sigio, sent>>
  /\ UNCHANGED <<linkVars, server, buffered, scheduled, programVars, history>>

-----------------------------------------------------------------------------
(* gdb: getpkt.                                                            *)

(* In all-stop mode gdb waits for the program to stop, however long: its   *)
(* event loop calls wait_as, with TARGET_WNOHANG, when something has come. *)
Forever == gdb.kind = "cont" /\ ~nonStop

(* Mutant: a timeout is not counted as a try.                              *)
Retry_uncounted(rest) ==
  /\ toGdb' = rest
  /\ ToServer(toServer, <<Char("-")>>)
  /\ UNCHANGED <<gdb, sent, history>>

(* A frame that is not intact is asked for again, a few times.             *)
Retry(rest) ==
  /\ toGdb' = rest
  /\ IF gdb.tries + 1 < MaxTries
     THEN gdb' = [gdb EXCEPT !.tries = @ + 1] /\ ToServer(toServer, <<Char("-")>>)
     ELSE /\ gdb' = [gdb EXCEPT !.pc = IF Forever THEN @ ELSE "idle", !.tries = 0]
          /\ ToServer(toServer, <<Char("-")>> \o Acked(gdb.noack))
  /\ UNCHANGED <<sent, history>>

(* Mutant: the next answer turns acknowledgements on again.                *)
TakeAnswer_forgetful(n, rest) ==
  /\ toGdb' = rest
  /\ ToServer(toServer, Acked(gdb.noack))
  /\ UNCHANGED sent
  /\ IF gdb.pc = "idle" THEN gdb' = [gdb EXCEPT !.tries = 0] /\ UNCHANGED history
     ELSE /\ gdb' = [gdb EXCEPT !.pc = "idle", !.tries = 0, !.noack = gdb.kind = "noack"]
          /\ history' = [history EXCEPT !.taken = n]

(* The change to a link without acknowledgements comes after the last one. *)
(* An answer to nothing that was asked is dropped.                         *)
TakeAnswer(n, rest) ==
  /\ toGdb' = rest
  /\ ToServer(toServer, Acked(gdb.noack))
  /\ UNCHANGED sent
  /\ IF gdb.pc = "idle" THEN gdb' = [gdb EXCEPT !.tries = 0] /\ UNCHANGED history
     ELSE /\ gdb' = [gdb EXCEPT !.pc = "idle", !.tries = 0, !.noack = @ \/ gdb.kind = "noack"]
          /\ history' = [history EXCEPT !.taken = n]

(* While nothing is asked, the event loop of gdb reads in non-stop mode.   *)
Reading == gdb.pc = "answer" \/ (gdb.pc = "idle" /\ nonStop)

ReadAnswer ==
  /\ Reading
  /\ toGdb # <<>>
  /\ LET c == Head(toGdb).t
         ends == Ends(toGdb, {"#", "$"})
         i == First(ends)
     IN  \/ c = "$" /\ ends # {} /\ Intact(toGdb, i) /\ TakeAnswer(toGdb[2].n, From(toGdb, i))
         \/ c \in {"$", "%"} /\ ends # {} /\ ~Intact(toGdb, i) /\ Retry(From(toGdb, i))
         \/ /\ c = "%" /\ ends # {} /\ Intact(toGdb, i)
            /\ Notified(i)
            /\ gdb' = [gdb EXCEPT !.tries = 0]
            /\ toGdb' = From(toGdb, i)
            /\ UNCHANGED <<toServer, sigio, history>>
         \/ /\ c \notin {"$", "%"}
            /\ toGdb' = Tail(toGdb)
            /\ UNCHANGED <<gdb, toServer, sigio, sent, history>>
  /\ UNCHANGED <<linkVars, server, buffered, scheduled, programVars>>

(* The user interrupts the program.                                        *)
Interrupt ==
  /\ gdb.pc = "answer" /\ Forever
  /\ sent.interrupts < MaxInterrupts
  /\ ToServer(toServer, <<Char("^C")>>)
  /\ sent' = [sent EXCEPT !.interrupts = @ + 1]
  /\ history' = [history EXCEPT !.interrupted = TRUE]
  /\ UNCHANGED <<linkVars, gdb, toGdb, server, buffered, scheduled, programVars>>

-----------------------------------------------------------------------------
(* gdbserver: reading.                                                     *)

(* Mutant: readchar does not reschedule.                                   *)
Consume_unscheduled(i) ==
  /\ toServer' = From(toServer, i)
  /\ buffered' \in IF i <= buffered THEN {buffered - i} ELSE 0..(Len(toServer) - i)
  /\ UNCHANGED <<scheduled, sigio>>

(* Take i tokens.  When the buffer runs out it takes what has arrived, and *)
(* whatever remains in it is scheduled to be processed.  Characters that   *)
(* remain for a moment only, because they are taken next, may leave        *)
(* process_remaining scheduled for an empty buffer.                        *)
Consume(i) ==
  /\ toServer' = From(toServer, i)
  /\ buffered' \in IF i <= buffered THEN {buffered - i} ELSE 0..(Len(toServer) - i)
  /\ scheduled' \in {scheduled, TRUE}
  /\ buffered' > 0 => scheduled'
  /\ UNCHANGED sigio

(* The event loop: select, or a callback event.                            *)
Wake ==
  /\ server.pc = "select"
  /\ \/ Len(toServer) > buffered /\ server' = [server EXCEPT !.pc = "getpkt"] /\ UNCHANGED scheduled
     \/ /\ scheduled
        /\ scheduled' = FALSE
        /\ server' = [server EXCEPT !.pc = IF buffered > 0 THEN "getpkt" ELSE @]
  /\ UNCHANGED <<linkVars, gdb, toServer, toGdb, buffered, sigio, programVars, sent, history>>

(* getpkt, up to the start of a packet.                                    *)
SeekPacket ==
  /\ server.pc = "getpkt"
  /\ toServer # <<>> /\ Head(toServer).t # "$"
  /\ Consume(1)
  /\ sigint' = (sigint \/ Head(toServer).t = "^C")
  /\ UNCHANGED <<linkVars, gdb, toGdb, server, program, sent, history>>

(* Mutant: interrupts behind the packet are left in the buffer.            *)
GetPacket_tailless ==
  LET ends == Ends(toServer, {"#"})
      i == First(ends)
  IN  /\ server.pc = "getpkt"
      /\ toServer # <<>> /\ Head(toServer).t = "$" /\ ends # {}
      /\ Consume(i)
      /\ IF Intact(toServer, i)
         THEN /\ server' = [server EXCEPT !.pc = "execute", !.n = toServer[2].n, !.kind = toServer[2].kind]
              /\ toGdb' = toGdb \o Acked(server.noack)
         ELSE /\ toGdb' = Append(toGdb, Char("-"))
              /\ UNCHANGED server
      /\ UNCHANGED <<linkVars, gdb, programVars, sent, history>>

(* getpkt, the packet; interrupts right behind it, as far as they are in   *)
(* the buffer, are taken with it.                                          *)
GetPacket ==
  LET ends == Ends(toServer, {"#"})
      i == First(ends)
      rest == From(toServer, i)
      interrupts == CHOOSE k \in 0..Len(rest) :
                      /\ \A j \in 1..k : rest[j].t = "^C"
                      /\ k < Len(rest) => rest[k + 1].t # "^C"
  IN  /\ server.pc = "getpkt"
      /\ toServer # <<>> /\ Head(toServer).t = "$" /\ ends # {}
      /\ IF Intact(toServer, i)
         THEN \E k \in 0..interrupts :
                /\ Consume(i + k)
                /\ k < interrupts => buffered' = 0
                /\ sigint' = (sigint \/ k > 0)
                /\ server' = [server EXCEPT !.pc = "execute", !.n = toServer[2].n, !.kind = toServer[2].kind]
                /\ toGdb' = toGdb \o Acked(server.noack)
         ELSE /\ Consume(i)
              /\ toGdb' = Append(toGdb, Char("-"))
              /\ UNCHANGED <<server, sigint>>
      /\ UNCHANGED <<linkVars, gdb, program, sent, history>>

(* The handler of SIGIO, unblocked while gdbserver waits for the program,  *)
(* reads one character past the buffer.                                    *)
InputInterrupt ==
  /\ server.pc = "wait" /\ sigio
  /\ sigio' = FALSE
  /\ IF Len(toServer) > buffered
     THEN /\ toServer' = RemoveAt(toServer, buffered + 1)
          /\ sigint' = (sigint \/ toServer[buffered + 1].t = "^C")
     ELSE UNCHANGED <<toServer, sigint>>
  /\ UNCHANGED <<linkVars, gdb, toGdb, server, buffered, scheduled, program, sent, history>>

-----------------------------------------------------------------------------
(* gdbserver: doing what was asked, and answering.                         *)

Executed == history' = [history EXCEPT !.done = server.n, !.times = @ + 1]

Reply(noack) ==
  /\ toGdb' = toGdb \o Answer(server.n)
  /\ server' = [server EXCEPT !.pc = IF noack THEN "select" ELSE "putpkt", !.noack = noack]

Execute ==
  /\ server.pc = "execute"
  /\ Executed
  /\ IF server.kind = "cont" /\ ~nonStop
     THEN server' = [server EXCEPT !.pc = "wait"] /\ program' = "running" /\ UNCHANGED toGdb
     ELSE Reply(server.noack \/ server.kind = "noack") /\ UNCHANGED program
  /\ UNCHANGED <<linkVars, gdb, toServer, inputVars, sigint, sent>>

(* The program stops, of its own accord or because of the SIGINT.          *)
Stop(interrupted) ==
  /\ server.pc = "wait"
  /\ interrupted => sigint
  /\ program' = "stopped"
  /\ sigint' = (sigint /\ ~interrupted)
  /\ Reply(server.noack)
  /\ UNCHANGED <<linkVars, gdb, toServer, inputVars, sent, history>>

(* putpkt sends the answer again for whatever is not an acknowledgement.   *)
AwaitAck ==
  /\ server.pc = "putpkt"
  /\ toServer # <<>>
  /\ Consume(1)
  /\ IF Head(toServer).t = "+"
     THEN server' = [server EXCEPT !.pc = "select"] /\ UNCHANGED <<toGdb, sigint>>
     ELSE /\ toGdb' = toGdb \o Answer(server.n)
          /\ sigint' = (sigint \/ Head(toServer).t = "^C")
          /\ UNCHANGED server
  /\ UNCHANGED <<linkVars, gdb, program, sent, history>>

Notify ==
  /\ nonStop
  /\ server.pc = "select"
  /\ sent.notifs < MaxNotifs
  /\ toGdb' = toGdb \o Packet("%", 0, "stop")
  /\ sent' = [sent EXCEPT !.notifs = @ + 1]
  /\ UNCHANGED <<linkVars, gdb, toServer, server, inputVars, programVars, history>>

-----------------------------------------------------------------------------
(* The link, and timeouts, which are longer than anything takes that is    *)
(* still under way.                                                        *)

Lose ==
  /\ lossy
  /\ sent.faults < MaxFaults
  /\ sent' = [sent EXCEPT !.faults = @ + 1]
  /\ \/ /\ \E i \in (buffered + 1)..Len(toServer) : toServer' = RemoveAt(toServer, i)
        /\ UNCHANGED toGdb
     \/ /\ \E i \in 1..Len(toGdb) : toGdb' = RemoveAt(toGdb, i)
        /\ UNCHANGED toServer
  /\ UNCHANGED <<linkVars, gdb, server, inputVars, programVars, history>>

Blocked ==
  \/ server.pc = "getpkt" /\ (toServer # <<>> => Head(toServer).t = "$" /\ Ends(toServer, {"#"}) = {})
  \/ server.pc \in {"select", "putpkt"} /\ toServer = <<>>
  \/ server.pc = "wait" /\ ~sigio

(* Nothing comes any more, or nothing but a part of a frame.               *)
Silent(E) == Blocked /\ (toGdb # <<>> => Head(toGdb).t \in {"$", "%"} /\ Ends(toGdb, E) = {})

TimeOut ==
  /\ \/ /\ gdb.pc = "ack"
        /\ IF toGdb # <<>> /\ Head(toGdb).t = "$"
           THEN Silent({"#"}) /\ SkipFrame(<<>>)
           ELSE IF toGdb # <<>> THEN Silent({"#", "$"}) /\ toGdb' = <<>> /\ UNCHANGED <<gdb, toServer, sigio, sent>>
           ELSE Silent({"#", "$"}) /\ Resend(<<>>)
        /\ UNCHANGED history
     \/ /\ Reading
        /\ (Forever \/ gdb.pc = "idle") /\ gdb.tries = 0 => toGdb # <<>>
        /\ Silent({"#", "$"})
        /\ Retry(<<>>)
  /\ UNCHANGED <<linkVars, server, buffered, scheduled, programVars>>

-----------------------------------------------------------------------------
Init ==
  /\ lossy \in BOOLEAN /\ nonStop \in BOOLEAN
  /\ gdb = [pc |-> "idle", n |-> 0, kind |-> "query", tries |-> 0, noack |-> FALSE]
  /\ toServer = <<>> /\ toGdb = <<>>
  /\ server = [pc |-> "select", n |-> 0, kind |-> "query", noack |-> FALSE]
  /\ buffered = 0 /\ scheduled = FALSE /\ sigio = FALSE
  /\ program = "stopped" /\ sigint = FALSE
  /\ sent = [faults |-> 0, interrupts |-> 0, notifs |-> 0, handled |-> 0]
  /\ history = [done |-> 0, times |-> 0, taken |-> 0, interrupted |-> FALSE]

Gdb == ReadAck \/ ReadAnswer \/ TimeOut
Server == Wake \/ SeekPacket \/ GetPacket \/ InputInterrupt \/ Execute \/ AwaitAck \/ Stop(TRUE)
User == Interrupt \/ \E k \in Kinds : Send(k)

Next == Gdb \/ Server \/ User \/ Stop(FALSE) \/ Notify \/ Lose

Spec == Init /\ [][Next]_vars

(* gdb and gdbserver go on, and a SIGINT stops the program.                *)
FairSpec == Spec /\ WF_vars(Gdb) /\ WF_vars(Server)

-----------------------------------------------------------------------------
(* gdbserver never sleeps in select on input that it has in its buffer.    *)
BufferIsScheduled == server.pc = "select" /\ buffered > 0 => scheduled

(* Without losses no request is done twice, whatever interrupts and        *)
(* notifications come between packets and acknowledgements.                *)
DoneOnce == sent.faults = 0 => history.times <= 1

(* The answers that gdb takes are those to the requests it asked last:     *)
(* while nothing is lost, and even after a loss if the user never          *)
(* interrupted.  Requests have no numbers on the wire: after a loss, a     *)
(* second copy of an answer, or of a request that ran the program, goes    *)
(* for an answer to, or is done in the place of, the next one.             *)
Channel == INSTANCE RequestReply WITH
             asked <- gdb.n, waiting <- gdb.pc # "idle", done <- history.done, taken <- history.taken
InSync == sent.faults = 0 \/ (sent.faults = 1 /\ sent.interrupts = 0)
Reliable == Channel!Init /\ [][InSync' => Channel!Next]_(Channel!vars)

(* Every query is answered or given up, however the link loses bytes.      *)
Answered == (gdb.pc # "idle" /\ ~Forever) ~> gdb.pc = "idle"

(* An interrupt of the user stops the program, wherever in the input of    *)
(* gdbserver it is found, unless bytes were lost.                          *)
InterruptHonoured ==
  (history.interrupted /\ sent.faults = 0) ~> (gdb.pc = "idle" \/ sent.faults > 0)
=============================================================================
