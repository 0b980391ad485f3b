---------------------------- MODULE RspLinkProofs ----------------------------
(***************************************************************************)
(* Proofs about the link layer, for any length of the conversation, any    *)
(* number of interrupts and notifications, and any number of tries: what   *)
(* gdbserver has read into its buffer is looked at again, whatever is      *)
(* lost; and, while nothing is lost, no request is done twice, and gdb     *)
(* takes the answer to its last request and nothing else.                  *)
(***************************************************************************)
EXTENDS RspLink, WellFoundedInduction, TLAPS

Token ==
  {Char(c) : c \in {"$", "%", "+", "-", "^C"}} \cup {Sum(n) : n \in Nat}
    \cup {Body(n, k) : n \in Nat, k \in Kinds}

GdbState ==
  [pc : {"idle", "ack", "answer"}, n : Nat, kind : Kinds, tries : Nat, noack : BOOLEAN]
ServerState ==
  [pc : {"select", "getpkt", "execute", "wait", "putpkt"}, n : Nat, kind : Kinds, noack : BOOLEAN]

(* Whenever gdbserver is not in getpkt itself, on its way to select by way *)
(* of whatever it was asked to do, what is in its buffer is scheduled; and *)
(* nothing is taken to be in the buffer that was never received.           *)
LinkInv ==
  /\ gdb \in GdbState
  /\ server \in ServerState
  /\ toServer \in Seq(Token)
  /\ buffered \in 0..Len(toServer)
  /\ scheduled \in BOOLEAN
  /\ server.pc # "getpkt" /\ buffered > 0 => scheduled

-----------------------------------------------------------------------------
(* Parts of a sequence.                                                    *)

LEMMA Smallest ==
  ASSUME NEW I \in SUBSET Nat, I # {} PROVE \E i \in I : \A j \in I : i <= j
<1>1. PICK i \in I : \A j \in I : ~(<<j, i>> \in OpToRel(<, Nat))
  BY NatLessThanWellFounded, WFMin
<1>2. \A j \in I : ~(j < i)
  BY <1>1 DEF OpToRel
<1> QED
  BY <1>2

LEMMA FirstIs ==
  ASSUME NEW I \in SUBSET Nat, I # {} PROVE First(I) \in I
BY Smallest DEF First

LEMMA FromIs ==
  ASSUME NEW S, NEW s \in Seq(S), NEW i \in 0..Len(s)
  PROVE  From(s, i) \in Seq(S) /\ Len(From(s, i)) = Len(s) - i
BY DEF From

LEMMA RemoveAtIs ==
  ASSUME NEW S, NEW s \in Seq(S), NEW i \in 1..Len(s)
  PROVE  RemoveAt(s, i) \in Seq(S) /\ Len(RemoveAt(s, i)) = Len(s) - 1
<1>1. i \in Nat /\ Len(s) \in Nat /\ 1 <= i /\ i <= Len(s)
  OBVIOUS
<1>2. SubSeq(s, 1, i - 1) \in Seq(S) /\ Len(SubSeq(s, 1, i - 1)) = i - 1
  BY <1>1
<1>3. SubSeq(s, i + 1, Len(s)) \in Seq(S) /\ Len(SubSeq(s, i + 1, Len(s))) = Len(s) - i
  BY <1>1
<1>4. ASSUME NEW u \in Seq(S), NEW v \in Seq(S)
      PROVE  u \o v \in Seq(S) /\ Len(u \o v) = Len(u) + Len(v)
  OBVIOUS
<1>5. RemoveAt(s, i) \in Seq(S) /\ Len(RemoveAt(s, i)) = (i - 1) + (Len(s) - i)
  BY <1>2, <1>3, <1>4 DEF RemoveAt
<1> QED
  BY <1>1, <1>5

(* The interrupts at the start of what is left behind a packet.            *)
LEMMA RunIs ==
  ASSUME NEW rest \in Seq(Token)
  PROVE  \E k \in 0..Len(rest) : /\ \A j \in 1..k : rest[j].t = "^C"
                                 /\ k < Len(rest) => rest[k + 1].t # "^C"
<1> DEFINE ends == {k \in Nat : k = Len(rest) \/ (k < Len(rest) /\ rest[k + 1].t # "^C")}
<1>1. Len(rest) \in ends /\ ends \in SUBSET Nat
  OBVIOUS
<1>2. PICK k \in ends : \A i \in ends : k <= i
  BY <1>1, Smallest
<1>3. ASSUME NEW j \in 1..k PROVE rest[j].t = "^C"
  <2>1. j - 1 \in Nat /\ j - 1 < k /\ j - 1 < Len(rest) /\ j - 1 + 1 = j
    BY <1>1, <1>2
  <2>2. j - 1 \notin ends
    BY <1>2, <2>1
  <2> QED
    BY <2>1, <2>2
<1> QED
  BY <1>2, <1>3

-----------------------------------------------------------------------------
(* What is sent to gdbserver, and what it takes.                           *)

LEMMA Sends ==
  ASSUME LinkInv, NEW new \in Seq(Token), ToServer(toServer, new)
  PROVE  toServer' \in Seq(Token) /\ buffered \in 0..Len(toServer')
BY DEF ToServer, LinkInv

LEMMA Tokens ==
  ASSUME LinkInv, NEW n \in Nat, NEW k \in Kinds, NEW noack
  PROVE  /\ Packet("$", n, k) \in Seq(Token) /\ <<>> \in Seq(Token)
         /\ <<Char("+")>> \in Seq(Token) /\ <<Char("-")>> \in Seq(Token) /\ <<Char("^C")>> \in Seq(Token)
         /\ Acked(noack) \in Seq(Token)
         /\ <<Char("-")>> \o Acked(noack) \in Seq(Token)
<1>1. Char("$") \in Token /\ Char("+") \in Token /\ Char("-") \in Token /\ Char("^C") \in Token
      /\ Sum(n) \in Token /\ Body(n, k) \in Token
  BY DEF Token
<1> HIDE DEF Token
<1>2. Acked(noack) \in Seq(Token)
  BY <1>1 DEF Acked
<1> QED
  BY <1>1, <1>2 DEF Packet

(* readchar: rescheduled for as long as something remains.                 *)
LEMMA Consumed ==
  ASSUME LinkInv, NEW i \in 0..Len(toServer), Consume(i)
  PROVE  /\ toServer' \in Seq(Token) /\ buffered' \in 0..Len(toServer')
         /\ scheduled' \in BOOLEAN /\ (buffered' > 0 => scheduled')
<1>1. toServer' \in Seq(Token) /\ Len(toServer') = Len(toServer) - i
  BY FromIs DEF Consume, LinkInv
<1>2. Len(toServer) \in Nat /\ i \in Nat /\ i <= Len(toServer) /\ buffered \in 0..Len(toServer)
  BY DEF LinkInv
<1>3. buffered' \in IF i <= buffered THEN {buffered - i} ELSE 0..(Len(toServer) - i)
  BY DEF Consume
<1>4. buffered' \in 0..(Len(toServer) - i)
  BY <1>2, <1>3
<1>5. scheduled' \in {scheduled, TRUE} /\ (buffered' > 0 => scheduled') /\ scheduled \in BOOLEAN
  BY DEF Consume, LinkInv
<1> QED
  BY <1>1, <1>4, <1>5

(* What gdb is doing, changed in one field.                                *)
LEMMA GdbTypes ==
  ASSUME NEW g \in GdbState
  PROVE  /\ g.n \in Nat /\ g.kind \in Kinds /\ g.tries \in Nat /\ g.pc \in {"idle", "ack", "answer"}
         /\ (g.noack \/ g.kind = "noack") \in BOOLEAN /\ g.noack \in BOOLEAN
         /\ \A pc \in {"idle", "ack", "answer"} : [g EXCEPT !.pc = pc] \in GdbState
         /\ \A n \in Nat : [g EXCEPT !.n = n] \in GdbState /\ [g EXCEPT !.tries = n] \in GdbState
         /\ \A k \in Kinds : [g EXCEPT !.kind = k] \in GdbState
         /\ \A b \in BOOLEAN : [g EXCEPT !.noack = b] \in GdbState
BY DEF GdbState

-----------------------------------------------------------------------------
(* The steps.                                                              *)

(* What changes nothing that gdbserver has read.                           *)
LEMMA GdbStep ==
  ASSUME LinkInv, gdb' \in GdbState, toServer' \in Seq(Token), buffered \in 0..Len(toServer'),
         UNCHANGED <<server, buffered, scheduled>>
  PROVE  LinkInv'
BY DEF LinkInv

LEMMA UserLinkInv ==
  ASSUME LinkInv, User PROVE LinkInv'
<1>1. ASSUME NEW k \in Kinds, Send(k) PROVE LinkInv'
  <2> DEFINE pc == IF gdb.noack THEN "answer" ELSE "ack"
  <2>1. gdb.n + 1 \in Nat /\ gdb' \in GdbState
    <3>0. gdb \in GdbState
      BY DEF LinkInv
    <3>1. gdb \in GdbState /\ gdb.n + 1 \in Nat
      <4>1. gdb.n \in Nat
        BY <3>0, GdbTypes
      <4> QED
        BY <3>0, <4>1
    <3>2. [gdb EXCEPT !.pc = pc] \in GdbState
      BY <3>1, GdbTypes
    <3>3. [[gdb EXCEPT !.pc = pc] EXCEPT !.n = gdb.n + 1] \in GdbState
      BY <3>1, <3>2, GdbTypes
    <3>4. [[[gdb EXCEPT !.pc = pc] EXCEPT !.n = gdb.n + 1] EXCEPT !.kind = k] \in GdbState
      BY <3>3, GdbTypes
    <3> QED
      BY <1>1, <3>1, <3>4, GdbTypes DEF Send
  <2>2. toServer' \in Seq(Token) /\ buffered \in 0..Len(toServer')
    BY <1>1, <2>1, Tokens, Sends DEF Send
  <2> QED
    BY <1>1, <2>1, <2>2, GdbStep DEF Send
<1>2. CASE Interrupt
  <2>1. toServer' \in Seq(Token) /\ buffered \in 0..Len(toServer')
    BY <1>2, Tokens, Sends DEF Interrupt, LinkInv, GdbState
  <2> QED
    BY <1>2, <2>1, GdbStep DEF Interrupt, LinkInv
<1> QED
  BY <1>1, <1>2 DEF User

(* A packet that is skipped, sent or asked for again, or taken.            *)
LEMMA Answers ==
  ASSUME LinkInv, NEW rest
  PROVE  /\ Resend(rest) => gdb' \in GdbState /\ toServer' \in Seq(Token) /\ buffered \in 0..Len(toServer')
         /\ SkipFrame(rest) => gdb' \in GdbState /\ toServer' \in Seq(Token) /\ buffered \in 0..Len(toServer')
         /\ Retry(rest) => gdb' \in GdbState /\ toServer' \in Seq(Token) /\ buffered \in 0..Len(toServer')
         /\ \A n : TakeAnswer(n, rest) =>
              gdb' \in GdbState /\ toServer' \in Seq(Token) /\ buffered \in 0..Len(toServer')
<1>1. gdb \in GdbState /\ gdb.n \in Nat /\ gdb.kind \in Kinds
  BY DEF LinkInv, GdbState
<1>2. /\ Request \in Seq(Token) /\ <<>> \in Seq(Token) /\ <<Char("+")>> \in Seq(Token)
      /\ <<Char("-")>> \in Seq(Token) /\ Acked(gdb.noack) \in Seq(Token)
      /\ <<Char("-")>> \o Acked(gdb.noack) \in Seq(Token)
  BY <1>1, Tokens DEF Request
<1>3. ASSUME NEW new \in Seq(Token), ToServer(toServer, new)
      PROVE  toServer' \in Seq(Token) /\ buffered \in 0..Len(toServer')
  BY <1>3, Sends
<1>9. /\ [gdb EXCEPT !.tries = gdb.tries + 1] \in GdbState /\ [gdb EXCEPT !.tries = 0] \in GdbState
      /\ \A pc \in {"idle", "ack", "answer"}, b \in BOOLEAN :
           /\ [[gdb EXCEPT !.pc = pc] EXCEPT !.tries = 0] \in GdbState
           /\ [[[gdb EXCEPT !.pc = pc] EXCEPT !.tries = 0] EXCEPT !.noack = b] \in GdbState
      /\ (gdb.noack \/ gdb.kind = "noack") \in BOOLEAN
      /\ (IF Forever THEN gdb.pc ELSE "idle") \in {"idle", "ack", "answer"}
  <2>1. gdb.tries + 1 \in Nat /\ gdb.pc \in {"idle", "ack", "answer"}
    <3>1. gdb.tries \in Nat /\ gdb.pc \in {"idle", "ack", "answer"}
      BY <1>1, GdbTypes
    <3> QED
      BY <3>1
  <2>2. \A pc \in {"idle", "ack", "answer"} : [[gdb EXCEPT !.pc = pc] EXCEPT !.tries = 0] \in GdbState
    BY <1>1, GdbTypes
  <2> QED
    BY <1>1, <2>1, <2>2, GdbTypes
<1>4. ASSUME Resend(rest)
      PROVE  gdb' \in GdbState /\ toServer' \in Seq(Token) /\ buffered \in 0..Len(toServer')
  <2>1. gdb' \in GdbState
    BY <1>1, <1>9, <1>4 DEF Resend
  <2> QED
    BY <1>2, <1>3, <1>4, <2>1 DEF Resend
<1>5. ASSUME SkipFrame(rest)
      PROVE  gdb' \in GdbState /\ toServer' \in Seq(Token) /\ buffered \in 0..Len(toServer')
  BY <1>1, <1>2, <1>3, <1>5 DEF SkipFrame
<1>6. ASSUME Retry(rest)
      PROVE  gdb' \in GdbState /\ toServer' \in Seq(Token) /\ buffered \in 0..Len(toServer')
  <2>1. gdb' \in GdbState
    BY <1>1, <1>9, <1>6 DEF Retry
  <2> QED
    BY <1>2, <1>3, <1>6, <2>1 DEF Retry
<1>7. ASSUME NEW n, TakeAnswer(n, rest)
      PROVE  gdb' \in GdbState /\ toServer' \in Seq(Token) /\ buffered \in 0..Len(toServer')
  <2>1. gdb' \in GdbState
    BY <1>1, <1>9, <1>7 DEF TakeAnswer
  <2> QED
    BY <1>2, <1>3, <1>7, <2>1 DEF TakeAnswer
<1> QED
  BY <1>4, <1>5, <1>6, <1>7

LEMMA GdbLinkInv ==
  ASSUME LinkInv, Gdb PROVE LinkInv'
<1>1. /\ gdb \in GdbState /\ toServer \in Seq(Token) /\ buffered \in 0..Len(toServer)
      /\ \A i : [gdb EXCEPT !.tries = IF Intact(toGdb, i) THEN 0 ELSE @] \in GdbState
      /\ [gdb EXCEPT !.pc = "answer", !.tries = 0] \in GdbState
      /\ [gdb EXCEPT !.tries = 0] \in GdbState
  BY DEF LinkInv, GdbState
<1>2. CASE ReadAck
  <2>1. gdb' \in GdbState /\ toServer' \in Seq(Token) /\ buffered \in 0..Len(toServer')
    BY <1>1, <1>2, Answers DEF ReadAck
  <2> QED
    BY <1>2, <2>1, GdbStep DEF ReadAck
<1>3. CASE ReadAnswer
  <2>1. gdb' \in GdbState /\ toServer' \in Seq(Token) /\ buffered \in 0..Len(toServer')
    BY <1>1, <1>3, Answers DEF ReadAnswer
  <2> QED
    BY <1>3, <2>1, GdbStep DEF ReadAnswer
<1>4. CASE TimeOut
  <2>1. gdb' \in GdbState /\ toServer' \in Seq(Token) /\ buffered \in 0..Len(toServer')
    BY <1>1, <1>4, Answers DEF TimeOut
  <2> QED
    BY <1>4, <2>1, GdbStep DEF TimeOut
<1> QED
  BY <1>2, <1>3, <1>4 DEF Gdb

(* What takes tokens out of the buffer.                                    *)
LEMMA Reads ==
  ASSUME LinkInv, NEW i \in 0..Len(toServer), Consume(i), server' \in ServerState, UNCHANGED gdb
  PROVE  LinkInv'
BY Consumed DEF LinkInv

LEMMA PacketIs ==
  ASSUME LinkInv, toServer # <<>>, Ends(toServer, {"#"}) # {}
  PROVE  LET i == First(Ends(toServer, {"#"}))
         IN  /\ i \in 0..Len(toServer)
             /\ Intact(toServer, i) => toServer[2].n \in Nat /\ toServer[2].kind \in Kinds
<1> DEFINE ends == Ends(toServer, {"#"})
           i == First(ends)
<1>1. toServer \in Seq(Token) /\ ends \in SUBSET Nat /\ \A j \in ends : j \in 2..Len(toServer)
  BY DEF LinkInv, Ends
<1>2. i \in 2..Len(toServer)
  BY <1>1, FirstIs
<1> HIDE DEF i
<1>3. ASSUME Intact(toServer, i) PROVE toServer[2].n \in Nat /\ toServer[2].kind \in Kinds
  <2>1. toServer[2] \in Token /\ toServer[2].t = "body"
    BY <1>1, <1>2, <1>3 DEF Intact
  <2>2. \A x \in Token : x.t = "body" => x.n \in Nat /\ x.kind \in Kinds
    BY DEF Token, Char, Sum, Body
  <2> QED
    BY <2>1, <2>2
<1> QED
  BY <1>2, <1>3 DEF i

LEMMA GetPacketLinkInv ==
  ASSUME LinkInv, GetPacket PROVE LinkInv'
<1> DEFINE ends == Ends(toServer, {"#"})
           i == First(ends)
           rest == From(toServer, i)
           interrupts == CHOOSE k \in 0..Len(rest) :
                           /\ \A j \in 1..k : rest[j].t = "^C"
                           /\ k < Len(rest) => rest[k + 1].t # "^C"
<1>1. /\ i \in 0..Len(toServer) /\ server \in ServerState /\ toServer \in Seq(Token)
      /\ Intact(toServer, i) => toServer[2].n \in Nat /\ toServer[2].kind \in Kinds
  BY PacketIs DEF GetPacket, LinkInv
<1> HIDE DEF i
<1>2. rest \in Seq(Token) /\ Len(rest) = Len(toServer) - i
  BY <1>1, FromIs
<1> HIDE DEF rest
<1>3. interrupts \in 0..Len(rest)
  <2>1. \E k \in 0..Len(rest) : /\ \A j \in 1..k : rest[j].t = "^C"
                                /\ k < Len(rest) => rest[k + 1].t # "^C"
    BY <1>2, RunIs
  <2> QED
    BY <2>1
<1> HIDE DEF interrupts
<1>4. /\ UNCHANGED gdb
      /\ IF Intact(toServer, i)
         THEN \E k \in 0..interrupts :
                /\ Consume(i + k)
                /\ server' = [server EXCEPT !.pc = "execute", !.n = toServer[2].n, !.kind = toServer[2].kind]
         ELSE Consume(i) /\ UNCHANGED server
  BY DEF GetPacket, interrupts, rest, i
<1>5. CASE Intact(toServer, i)
  <2>1. PICK k \in 0..interrupts :
          /\ Consume(i + k)
          /\ server' = [server EXCEPT !.pc = "execute", !.n = toServer[2].n, !.kind = toServer[2].kind]
    BY <1>4, <1>5
  <2>2. i + k \in 0..Len(toServer)
    BY <1>1, <1>2, <1>3
  <2>3. server' \in ServerState
    BY <1>1, <1>5, <2>1 DEF ServerState
  <2> QED
    BY <1>4, <2>1, <2>2, <2>3, Reads
<1>6. CASE ~Intact(toServer, i)
  BY <1>1, <1>4, <1>6, Reads
<1> QED
  BY <1>5, <1>6

LEMMA ServerLinkInv ==
  ASSUME LinkInv, Server \/ Stop(FALSE) PROVE LinkInv'
<1>1. CASE Wake
  BY <1>1 DEF Wake, LinkInv, ServerState
<1>2. CASE SeekPacket
  <2>1. 1 \in 0..Len(toServer)
    BY <1>2 DEF SeekPacket, LinkInv
  <2> QED
    BY <1>2, <2>1, Reads DEF SeekPacket, LinkInv
<1>3. CASE InputInterrupt
  <2>1. Len(toServer) > buffered => buffered + 1 \in 1..Len(toServer)
    BY DEF LinkInv
  <2>2. toServer' \in Seq(Token) /\ buffered \in 0..Len(toServer')
    BY <1>3, <2>1, RemoveAtIs DEF InputInterrupt, LinkInv
  <2> QED
    BY <1>3, <2>2 DEF InputInterrupt, LinkInv
<1>4. CASE Execute
  BY <1>4 DEF Execute, Reply, LinkInv, ServerState, inputVars
<1>5. CASE AwaitAck
  <2>1. 1 \in 0..Len(toServer)
    BY <1>5 DEF AwaitAck, LinkInv
  <2>2. server' \in ServerState
    BY <1>5 DEF AwaitAck, LinkInv, ServerState
  <2> QED
    BY <1>5, <2>1, <2>2, Reads DEF AwaitAck
<1>6. ASSUME NEW v \in BOOLEAN, Stop(v) PROVE LinkInv'
  BY <1>6 DEF Stop, Reply, LinkInv, ServerState, inputVars
<1> QED
  BY <1>1, <1>2, <1>3, <1>4, <1>5, <1>6, GetPacketLinkInv DEF Server

LEMMA LoseLinkInv ==
  ASSUME LinkInv, Lose PROVE LinkInv'
<1>1. toServer' \in Seq(Token) /\ buffered \in 0..Len(toServer')
  <2>1. ASSUME NEW i \in (buffered + 1)..Len(toServer), toServer' = RemoveAt(toServer, i)
        PROVE  toServer' \in Seq(Token) /\ buffered \in 0..Len(toServer')
    <3>1. i \in 1..Len(toServer) /\ buffered + 1 <= Len(toServer)
      BY <2>1 DEF LinkInv
    <3> QED
      BY <2>1, <3>1, RemoveAtIs DEF LinkInv
  <2> QED
    BY <2>1 DEF Lose, LinkInv
<1> QED
  BY <1>1, GdbStep DEF Lose, inputVars, LinkInv

LEMMA InitLinkInv == Init => LinkInv
<1> SUFFICES ASSUME Init PROVE LinkInv
  OBVIOUS
<1>1. gdb \in GdbState
  BY DEF Init, GdbState, Kinds
<1>2. server \in ServerState
  BY DEF Init, ServerState, Kinds
<1>3. <<>> \in Seq(Token) /\ Len(<<>>) = 0
  OBVIOUS
<1>4. toServer = <<>> /\ buffered = 0 /\ scheduled = FALSE
  BY DEF Init
<1>5. toServer \in Seq(Token) /\ buffered \in 0..Len(toServer)
  BY <1>3, <1>4
<1>6. scheduled \in BOOLEAN
  BY DEF Init
<1>7. ~(buffered > 0)
  <2>1. buffered = 0
    BY DEF Init
  <2> QED
    BY <2>1
<1> QED
  BY <1>1, <1>2, <1>5, <1>6, <1>7 DEF LinkInv

LEMMA LinkStep == LinkInv /\ [Next]_vars => LinkInv'
<1>1. LinkInv /\ Notify => LinkInv'
  BY DEF Notify, LinkInv, inputVars
<1>2. LinkInv /\ UNCHANGED vars => LinkInv'
  BY DEF LinkInv, vars
<1> QED
  BY <1>1, <1>2, GdbLinkInv, ServerLinkInv, UserLinkInv, LoseLinkInv DEF Next

(* readchar reads whatever has arrived; what remains of it after a packet  *)
(* is not seen by select.  In every state in which gdbserver sleeps in     *)
(* select with something in its buffer, process_remaining is scheduled,    *)
(* whatever packet, acknowledgement or interrupt was read before, and      *)
(* whatever it was asked to do in between.                                 *)
THEOREM BufferCorrect == Spec => []BufferIsScheduled
<1>1. LinkInv => BufferIsScheduled
  BY DEF LinkInv, BufferIsScheduled
<1> QED
  BY InitLinkInv, LinkStep, <1>1, PTL DEF Spec
-----------------------------------------------------------------------------
(* Without losses.                                                         *)

InToken ==
  {Char(c) : c \in {"$", "+", "^C"}} \cup {Sum(n) : n \in Nat} \cup {Body(n, k) : n \in Nat, k \in Kinds}
OutToken ==
  {Char(c) : c \in {"$", "%", "+"}} \cup {Sum(n) : n \in Nat}
    \cup {Body(n, k) : n \in Nat, k \in {"answer", "stop"}}

(* Frames are whole, and follow each other.                                *)
Framed(s) ==
  \A i \in 1..Len(s) :
    /\ s[i].t \in {"$", "%"} => /\ i + 2 \in 1..Len(s)
                                /\ s[i + 1].t = "body" /\ s[i + 2].t = "#" /\ s[i + 1].n = s[i + 2].n
    /\ s[i].t = "body" => i - 1 \in 1..Len(s) /\ s[i - 1].t \in {"$", "%"}
    /\ s[i].t = "#" => i - 1 \in 1..Len(s) /\ s[i - 1].t = "body"

(* Where in s are the packets, those with number n and the others, and the *)
(* acknowledgements?                                                       *)
Frames(s) == {i \in 1..Len(s) : s[i].t = "$"}
Fresh(s, n) == {i \in Frames(s) : s[i + 1].n = n}
Stale(s, n) == {i \in Frames(s) : s[i + 1].n # n}
Pluses(s) == {i \in 1..Len(s) : s[i].t = "+"}
Numbers(s, n) == \A i \in Frames(s) : s[i + 1].n \in 0..n

(* What s loses m tokens at its front, or gets at its end.                 *)
Shifted(A, B, m) ==
  /\ \A i \in A : i \in Nat \ {0} /\ i + m \in B
  /\ \A j \in B : j > m => j - m \in A

LEMMA FromElements ==
  ASSUME NEW S, NEW s \in Seq(S), NEW m \in 0..Len(s)
  PROVE  /\ From(s, m) \in Seq(S) /\ Len(From(s, m)) = Len(s) - m
         /\ \A i \in 1..Len(s) - m : From(s, m)[i] = s[i + m]
BY DEF From

LEMMA CatElements ==
  ASSUME NEW S, NEW s \in Seq(S), NEW u \in Seq(S)
  PROVE  /\ s \o u \in Seq(S) /\ Len(s \o u) = Len(s) + Len(u)
         /\ \A i \in 1..Len(s) : (s \o u)[i] = s[i]
         /\ \A i \in 1..Len(u) : (s \o u)[Len(s) + i] = u[i]
OBVIOUS

LEMMA FromFramed ==
  ASSUME NEW S, NEW s \in Seq(S), Framed(s), NEW m \in 0..Len(s),
         m < Len(s) => s[m + 1].t \notin {"body", "#"}
  PROVE  Framed(From(s, m))
<1> DEFINE r == From(s, m)
<1>1. Len(r) = Len(s) - m /\ \A i \in 1..Len(r) : r[i] = s[i + m]
  BY FromElements
<1>2. Len(s) \in Nat /\ m \in Nat /\ Len(r) \in Nat
  BY <1>1
<1> HIDE DEF r
<1>3. SUFFICES ASSUME NEW i \in 1..Len(r)
               PROVE  /\ r[i].t \in {"$", "%"} => /\ i + 2 \in 1..Len(r) /\ r[i + 1].t = "body"
                                                  /\ r[i + 2].t = "#" /\ r[i + 1].n = r[i + 2].n
                      /\ r[i].t = "body" => i - 1 \in 1..Len(r) /\ r[i - 1].t \in {"$", "%"}
                      /\ r[i].t = "#" => i - 1 \in 1..Len(r) /\ r[i - 1].t = "body"
  BY DEF Framed, r
<1>4. r[i] = s[i + m] /\ i + m \in 1..Len(s)
  BY <1>1, <1>2
<1>5. /\ r[i].t \in {"$", "%"} => /\ (i + m) + 2 \in 1..Len(s) /\ s[(i + m) + 1].t = "body"
                                  /\ s[(i + m) + 2].t = "#" /\ s[(i + m) + 1].n = s[(i + m) + 2].n
      /\ r[i].t = "body" => (i + m) - 1 \in 1..Len(s) /\ s[(i + m) - 1].t \in {"$", "%"}
      /\ r[i].t = "#" => (i + m) - 1 \in 1..Len(s) /\ s[(i + m) - 1].t = "body"
  BY <1>4 DEF Framed
<1>6. ASSUME r[i].t \in {"$", "%"}
      PROVE  /\ i + 2 \in 1..Len(r) /\ r[i + 1].t = "body"
             /\ r[i + 2].t = "#" /\ r[i + 1].n = r[i + 2].n
  <2>0. (i + m) + 2 \in 1..Len(s) /\ Len(r) = Len(s) - m /\ i \in Nat
    BY <1>1, <1>5, <1>6
  <2>1. i + 2 \in 1..Len(r) /\ i + 1 \in 1..Len(r) /\ (i + m) + 1 = (i + 1) + m /\ (i + m) + 2 = (i + 2) + m
    BY <1>2, <2>0
  <2>2. r[i + 1] = s[(i + 1) + m] /\ r[i + 2] = s[(i + 2) + m]
    BY <1>1, <2>1
  <2> QED
    BY <1>5, <1>6, <2>1, <2>2
<1>7. ASSUME r[i].t \in {"body", "#"} PROVE i - 1 \in 1..Len(r) /\ r[i - 1] = s[(i + m) - 1]
  <2>1. i # 1
    BY <1>1, <1>2, <1>4, <1>7
  <2>2. i - 1 \in 1..Len(r) /\ (i - 1) + m = (i + m) - 1
    BY <1>2, <2>1
  <2> QED
    BY <1>1, <2>2
<1> QED
  BY <1>5, <1>6, <1>7

LEMMA CatFramed ==
  ASSUME NEW S, NEW s \in Seq(S), NEW u \in Seq(S), Framed(s), Framed(u) PROVE Framed(s \o u)
<1> DEFINE r == s \o u
<1>1. /\ Len(r) = Len(s) + Len(u) /\ Len(s) \in Nat /\ Len(u) \in Nat
      /\ \A i \in 1..Len(s) : r[i] = s[i]
      /\ \A i \in 1..Len(u) : r[Len(s) + i] = u[i]
  BY CatElements
<1> HIDE DEF r
<1>2. SUFFICES ASSUME NEW i \in 1..Len(r)
               PROVE  /\ r[i].t \in {"$", "%"} => /\ i + 2 \in 1..Len(r) /\ r[i + 1].t = "body"
                                                  /\ r[i + 2].t = "#" /\ r[i + 1].n = r[i + 2].n
                      /\ r[i].t = "body" => i - 1 \in 1..Len(r) /\ r[i - 1].t \in {"$", "%"}
                      /\ r[i].t = "#" => i - 1 \in 1..Len(r) /\ r[i - 1].t = "body"
  BY DEF Framed, r
<1>3. CASE i \in 1..Len(s)
  <2>1. /\ s[i].t \in {"$", "%"} => /\ i + 2 \in 1..Len(s) /\ s[i + 1].t = "body"
                                    /\ s[i + 2].t = "#" /\ s[i + 1].n = s[i + 2].n
        /\ s[i].t = "body" => i - 1 \in 1..Len(s) /\ s[i - 1].t \in {"$", "%"}
        /\ s[i].t = "#" => i - 1 \in 1..Len(s) /\ s[i - 1].t = "body"
    BY <1>3 DEF Framed
  <2>3. i + 2 \in 1..Len(s) => i + 1 \in 1..Len(s)
    BY <1>1, <1>3
  <2>2. /\ r[i] = s[i]
        /\ i + 2 \in 1..Len(s) => i + 1 \in 1..Len(s) /\ r[i + 2] = s[i + 2] /\ r[i + 1] = s[i + 1]
        /\ i - 1 \in 1..Len(s) => r[i - 1] = s[i - 1]
    BY <1>1, <1>3, <2>3
  <2>4. \A j \in 1..Len(s) : j \in 1..Len(r)
    BY <1>1
  <2> QED
    BY <2>1, <2>2, <2>3, <2>4
<1>4. CASE i \notin 1..Len(s)
  <2> DEFINE l == Len(s)
             j == i - l
  <2>1. j \in 1..Len(u) /\ i = l + j /\ l \in Nat
    BY <1>1, <1>4
  <2> HIDE DEF j
  <2>2. /\ u[j].t \in {"$", "%"} => /\ j + 2 \in 1..Len(u) /\ u[j + 1].t = "body"
                                    /\ u[j + 2].t = "#" /\ u[j + 1].n = u[j + 2].n
        /\ u[j].t = "body" => j - 1 \in 1..Len(u) /\ u[j - 1].t \in {"$", "%"}
        /\ u[j].t = "#" => j - 1 \in 1..Len(u) /\ u[j - 1].t = "body"
    BY <2>1 DEF Framed
  <2>3. /\ r[i] = u[j]
        /\ j + 2 \in 1..Len(u) => /\ i + 2 = l + (j + 2) /\ i + 1 = l + (j + 1) /\ j + 1 \in 1..Len(u)
                                  /\ i + 2 \in 1..Len(r)
        /\ j - 1 \in 1..Len(u) => i - 1 = l + (j - 1) /\ i - 1 \in 1..Len(r)
    BY <1>1, <2>1
  <2>5. \A k \in 1..Len(u) : r[l + k] = u[k]
    BY <1>1
  <2> HIDE DEF l
  <2>6. ASSUME j + 2 \in 1..Len(u) PROVE r[i + 2] = u[j + 2] /\ r[i + 1] = u[j + 1]
    <3>1. i + 2 = l + (j + 2) /\ i + 1 = l + (j + 1) /\ j + 1 \in 1..Len(u)
      BY <2>3, <2>6
    <3>2. r[l + (j + 2)] = u[j + 2]
      BY <2>5, <2>6
    <3>3. r[l + (j + 1)] = u[j + 1]
      BY <2>5, <3>1
    <3> QED
      BY <3>1, <3>2, <3>3
  <2>7. ASSUME j - 1 \in 1..Len(u) PROVE r[i - 1] = u[j - 1]
    <3>1. i - 1 = l + (j - 1)
      BY <2>3, <2>7
    <3>2. r[l + (j - 1)] = u[j - 1]
      BY <2>5, <2>7
    <3> QED
      BY <3>1, <3>2
  <2>4. /\ j + 2 \in 1..Len(u) => r[i + 2] = u[j + 2] /\ r[i + 1] = u[j + 1]
        /\ j - 1 \in 1..Len(u) => r[i - 1] = u[j - 1]
    BY <2>6, <2>7
  <2> QED
    BY <2>2, <2>3, <2>4
<1> QED
  BY <1>3, <1>4

(* What is in the rest of a sequence.                                      *)
LEMMA FromParts ==
  ASSUME NEW S, NEW s \in Seq(S), Framed(s), NEW m \in 0..Len(s), NEW n \in Nat
  PROVE  /\ Shifted(Fresh(From(s, m), n), Fresh(s, n), m)
         /\ Shifted(Stale(From(s, m), n), Stale(s, n), m)
         /\ Shifted(Pluses(From(s, m)), Pluses(s), m)
         /\ Shifted(Frames(From(s, m)), Frames(s), m)
         /\ \A i \in Frames(From(s, m)) : From(s, m)[i + 1] = s[(i + m) + 1]
         /\ Numbers(s, n) => Numbers(From(s, m), n)
<1> DEFINE r == From(s, m)
<1>1. Len(r) = Len(s) - m /\ \A i \in 1..Len(r) : r[i] = s[i + m]
  BY FromElements
<1>2. Len(s) \in Nat /\ m \in Nat /\ Len(r) \in Nat
  BY <1>1
<1> HIDE DEF r
<1>3. /\ \A i \in 1..Len(r) : i \in Nat \ {0} /\ i + m \in 1..Len(s)
      /\ \A j \in 1..Len(s) : j > m => j - m \in 1..Len(r) /\ (j - m) + m = j
      /\ \A i \in 1..Len(r) : (i + m) + 2 \in 1..Len(s) => i + 1 \in 1..Len(r) /\ (i + 1) + m = (i + m) + 1
  BY <1>1, <1>2
<1>4. \A i \in Frames(s) : i + 2 \in 1..Len(s) /\ i \in 1..Len(s) /\ s[i].t = "$"
  BY DEF Framed, Frames
<1>5. Shifted(Frames(r), Frames(s), m)
  <2>1. \A i \in Frames(r) : i \in Nat \ {0} /\ i + m \in Frames(s)
    BY <1>1, <1>3 DEF Frames
  <2>2. ASSUME NEW j \in Frames(s), j > m PROVE j - m \in Frames(r)
    <3>1. j - m \in 1..Len(r) /\ (j - m) + m = j
      BY <1>3, <2>2 DEF Frames
    <3>2. r[j - m] = s[(j - m) + m]
      BY <1>1, <3>1
    <3> QED
      BY <3>1, <3>2 DEF Frames
  <2> QED
    BY <2>1, <2>2 DEF Shifted
<1>6. Shifted(Pluses(r), Pluses(s), m)
  <2>1. \A i \in Pluses(r) : i \in Nat \ {0} /\ i + m \in Pluses(s)
    BY <1>1, <1>3 DEF Pluses
  <2>2. ASSUME NEW j \in Pluses(s), j > m PROVE j - m \in Pluses(r)
    <3>1. j - m \in 1..Len(r) /\ (j - m) + m = j
      BY <1>3, <2>2 DEF Pluses
    <3>2. r[j - m] = s[(j - m) + m]
      BY <1>1, <3>1
    <3> QED
      BY <3>1, <3>2 DEF Pluses
  <2> QED
    BY <2>1, <2>2 DEF Shifted
<1>7. ASSUME NEW i \in Frames(r)
      PROVE  i \in Nat \ {0} /\ i + m \in Frames(s) /\ r[i + 1] = s[(i + m) + 1]
  <2>1. i \in 1..Len(r) /\ i \in Nat \ {0} /\ i + m \in Frames(s)
    BY <1>5 DEF Shifted, Frames
  <2>2. i + 1 \in 1..Len(r) /\ (i + 1) + m = (i + m) + 1
    BY <1>3, <1>4, <2>1
  <2> QED
    BY <1>1, <2>1, <2>2
<1>8. ASSUME NEW j \in Frames(s), j > m
      PROVE  j - m \in Frames(r) /\ r[(j - m) + 1] = s[j + 1]
  <2>1. j - m \in Frames(r) /\ (j - m) + m = j
    BY <1>3, <1>5, <1>8 DEF Shifted, Frames
  <2> QED
    BY <1>7, <2>1
<1>9. Shifted(Fresh(r, n), Fresh(s, n), m)
  BY <1>7, <1>8 DEF Shifted, Fresh
<1>10. Shifted(Stale(r, n), Stale(s, n), m)
  BY <1>7, <1>8 DEF Shifted, Stale
<1>11. Numbers(s, n) => Numbers(r, n)
  BY <1>7 DEF Numbers
<1> QED
  BY <1>5, <1>6, <1>7, <1>9, <1>10, <1>11 DEF r

(* What is in a sequence that was extended.                                *)
Joined(r, s, u) ==
  /\ \A i \in Frames(r) : /\ i \in Frames(s) \/ (\E j \in Frames(u) : i = Len(s) + j)
                          /\ i \in Frames(s) => r[i + 1] = s[i + 1]
  /\ Frames(s) \subseteq Frames(r) /\ Pluses(s) \subseteq Pluses(r)
  /\ \A i \in Pluses(r) : i \in Pluses(s) \/ (\E j \in Pluses(u) : i = Len(s) + j)
  /\ \A j \in Frames(u) : Len(s) + j \in Frames(r)
  /\ \A j \in Pluses(u) : Len(s) + j \in Pluses(r)
  /\ \A j \in Frames(u) : j + 1 \in 1..Len(u) => r[(Len(s) + j) + 1] = u[j + 1]

LEMMA CatParts ==
  ASSUME NEW S, NEW s \in Seq(S), NEW u \in Seq(S), Framed(s) PROVE Joined(s \o u, s, u)
<1> DEFINE r == s \o u
           l == Len(s)
<1>1. /\ Len(r) = l + Len(u) /\ l \in Nat /\ Len(u) \in Nat
      /\ \A i \in 1..l : r[i] = s[i]
      /\ \A i \in 1..Len(u) : r[l + i] = u[i]
  BY CatElements
<1>2. \A i \in Frames(s) : i + 2 \in 1..l /\ i \in 1..l /\ s[i].t = "$"
  BY DEF Framed, Frames
<1>3. /\ Frames(r) = {i \in 1..Len(r) : r[i].t = "$"} /\ Frames(s) = {i \in 1..l : s[i].t = "$"}
      /\ Frames(u) = {i \in 1..Len(u) : u[i].t = "$"}
      /\ Pluses(r) = {i \in 1..Len(r) : r[i].t = "+"} /\ Pluses(s) = {i \in 1..l : s[i].t = "+"}
      /\ Pluses(u) = {i \in 1..Len(u) : u[i].t = "+"}
  BY DEF Frames, Pluses
<1> HIDE DEF r, l
<1>4. \A i \in 1..Len(r) : i \in 1..l \/ (\E j \in 1..Len(u) : i = l + j)
  <2>1. ASSUME NEW i \in 1..Len(r), i \notin 1..l PROVE \E j \in 1..Len(u) : i = l + j
    <3>1. i - l \in 1..Len(u) /\ i = l + (i - l)
      BY <1>1, <2>1
    <3> QED
      BY <3>1
  <2> QED
    BY <2>1
<1>5. /\ \A i \in 1..l : i \in 1..Len(r) /\ (i + 2 \in 1..l => i + 1 \in 1..l)
      /\ \A j \in 1..Len(u) : l + j \in 1..Len(r) /\ l + j \notin 1..l
      /\ \A j \in 1..Len(u) : (l + j) + 1 = l + (j + 1)
  BY <1>1
<1>6. Frames(s) \subseteq Frames(r) /\ Pluses(s) \subseteq Pluses(r)
  BY <1>1, <1>3, <1>5
<1>7. /\ \A j \in Frames(u) : l + j \in Frames(r) /\ (j + 1 \in 1..Len(u) => r[(l + j) + 1] = u[j + 1])
      /\ \A j \in Pluses(u) : l + j \in Pluses(r)
  BY <1>1, <1>3, <1>5
<1>8. ASSUME NEW i \in Frames(r)
      PROVE  /\ i \in Frames(s) \/ (\E j \in Frames(u) : i = l + j)
             /\ i \in Frames(s) => r[i + 1] = s[i + 1]
  <2>1. i \in Frames(s) \/ (\E j \in Frames(u) : i = l + j)
    <3>1. i \in 1..Len(r) /\ r[i].t = "$"
      BY <1>3
    <3>2. CASE i \in 1..l
      BY <1>1, <1>3, <3>1, <3>2
    <3>3. ASSUME NEW j \in 1..Len(u), i = l + j PROVE j \in Frames(u)
      BY <1>1, <1>3, <3>1, <3>3
    <3> QED
      BY <1>4, <3>1, <3>2, <3>3
  <2>2. i \in Frames(s) => r[i + 1] = s[i + 1]
    BY <1>1, <1>2, <1>5
  <2> QED
    BY <2>1, <2>2
<1>9. ASSUME NEW i \in Pluses(r) PROVE i \in Pluses(s) \/ (\E j \in Pluses(u) : i = l + j)
  <2>1. i \in 1..Len(r) /\ r[i].t = "+"
    BY <1>3
  <2>2. CASE i \in 1..l
    BY <1>1, <1>3, <2>1, <2>2
  <2>3. ASSUME NEW j \in 1..Len(u), i = l + j PROVE j \in Pluses(u)
    BY <1>1, <1>3, <2>1, <2>3
  <2> QED
    BY <1>4, <2>1, <2>2, <2>3
<1> QED
  BY <1>3, <1>6, <1>7, <1>8, <1>9 DEF r, l, Joined

(* The pieces that are sent.                                               *)
LEMMA CharIs ==
  ASSUME NEW c \in {"+", "^C"}
  PROVE  /\ <<Char(c)>> \in Seq(InToken) /\ Framed(<<Char(c)>>) /\ Frames(<<Char(c)>>) = {}
         /\ Pluses(<<Char(c)>>) = IF c = "+" THEN {1} ELSE {}
         /\ c = "+" => <<Char(c)>> \in Seq(OutToken)
<1> DEFINE u == <<Char(c)>>
<1>1. Len(u) = 1 /\ u[1].t = c
  BY DEF Char
<1>2. Char(c) \in InToken /\ (c = "+" => Char(c) \in OutToken)
  BY DEF InToken, OutToken
<1>3. u \in Seq(InToken) /\ (c = "+" => u \in Seq(OutToken))
  BY <1>2
<1> HIDE DEF u
<1>4. 1..Len(u) = {1}
  BY <1>1
<1>5. Framed(u)
  BY <1>1, <1>4 DEF Framed
<1>6. Frames(u) = {} /\ Pluses(u) = IF c = "+" THEN {1} ELSE {}
  BY <1>1, <1>4 DEF Frames, Pluses
<1> QED
  BY <1>3, <1>5, <1>6 DEF u

LEMMA PacketParts ==
  ASSUME NEW c \in {"$", "%"}, NEW n \in Nat, NEW k
  PROVE  LET u == Packet(c, n, k)
         IN  /\ Len(u) = 3 /\ u[1].t = c /\ u[2] = Body(n, k) /\ u[2].n = n
             /\ Framed(u) /\ Pluses(u) = {}
             /\ Frames(u) = IF c = "$" THEN {1} ELSE {}
             /\ c = "$" /\ k \in Kinds => u \in Seq(InToken)
             /\ k \in {"answer", "stop"} => u \in Seq(OutToken)
<1> DEFINE u == Packet(c, n, k)
<1>1. /\ Len(u) = 3 /\ u[1].t = c /\ u[2] = Body(n, k) /\ u[2].t = "body" /\ u[2].n = n
      /\ u[3].t = "#" /\ u[3].n = n
  BY DEF Packet, Char, Body, Sum
<1>2. /\ c = "$" => Char(c) \in InToken
      /\ Char(c) \in OutToken /\ Sum(n) \in InToken /\ Sum(n) \in OutToken
      /\ k \in Kinds => Body(n, k) \in InToken
      /\ k \in {"answer", "stop"} => Body(n, k) \in OutToken
  BY DEF InToken, OutToken
<1>3. /\ c = "$" /\ k \in Kinds => u \in Seq(InToken)
      /\ k \in {"answer", "stop"} => u \in Seq(OutToken)
  BY <1>2 DEF Packet
<1> HIDE DEF u
<1>4. 1..Len(u) = {1, 2, 3}
  BY <1>1
<1>5. Framed(u)
  <2>1. SUFFICES ASSUME NEW i \in {1, 2, 3}
                 PROVE  /\ u[i].t \in {"$", "%"} => /\ i + 2 \in {1, 2, 3} /\ u[i + 1].t = "body"
                                                    /\ u[i + 2].t = "#" /\ u[i + 1].n = u[i + 2].n
                        /\ u[i].t = "body" => i - 1 \in {1, 2, 3} /\ u[i - 1].t \in {"$", "%"}
                        /\ u[i].t = "#" => i - 1 \in {1, 2, 3} /\ u[i - 1].t = "body"
    BY <1>4 DEF Framed
  <2> QED
    BY <1>1
<1>6. Frames(u) = (IF c = "$" THEN {1} ELSE {}) /\ Pluses(u) = {}
  BY <1>1, <1>4 DEF Frames, Pluses
<1> QED
  BY <1>1, <1>3, <1>5, <1>6 DEF u

(* An answer at the end of what gdb is to read, and what else is put there. *)
LEMMA Answering ==
  ASSUME NEW s \in Seq(OutToken), Framed(s), NEW n \in Nat, NEW a \in Nat
  PROVE  LET r == s \o Answer(a)
         IN  /\ r \in Seq(OutToken) /\ Framed(r)
             /\ Pluses(r) = Pluses(s)
             /\ Fresh(r, n) = Fresh(s, n) \cup (IF a = n THEN {Len(s) + 1} ELSE {})
             /\ Stale(r, n) = Stale(s, n) \cup (IF a = n THEN {} ELSE {Len(s) + 1})
             /\ Numbers(s, n) /\ a <= n => Numbers(r, n)
<1> DEFINE u == Answer(a)
           r == s \o u
<1>1. /\ Len(u) = 3 /\ u[2].n = a /\ Framed(u) /\ Pluses(u) = {} /\ Frames(u) = {1} /\ u \in Seq(OutToken)
  BY PacketParts DEF Answer
<1> HIDE DEF u
<1>2. r \in Seq(OutToken) /\ Framed(r)
  BY <1>1, CatElements, CatFramed
<1>3. Joined(r, s, u)
  BY <1>1, CatParts
<1> HIDE DEF r
<1>4. Pluses(r) = Pluses(s)
  BY <1>1, <1>3 DEF Joined
<1> DEFINE e == Len(s) + 1
<1>5. e \in Frames(r) /\ r[e + 1].n = a
  <2>1. 1 + 1 \in 1..Len(u) /\ 1 + 1 = 2
    BY <1>1
  <2> QED
    BY <1>1, <1>3, <2>1 DEF Joined
<1>6. ASSUME NEW i \in Frames(r)
      PROVE  (i = e \/ i \in Frames(s)) /\ (i \in Frames(s) => r[i + 1] = s[i + 1])
  <2>1. /\ i \in Frames(s) \/ (\E j \in Frames(u) : i = Len(s) + j)
        /\ i \in Frames(s) => r[i + 1] = s[i + 1]
    BY <1>3 DEF Joined
  <2> QED
    BY <1>1, <2>1
<1> HIDE DEF e
<1>7. Frames(r) = Frames(s) \cup {e}
  BY <1>3, <1>5, <1>6 DEF Joined
<1>8. \A i \in Frames(s) : r[i + 1] = s[i + 1]
  BY <1>6, <1>7
<1>9. Fresh(r, n) = Fresh(s, n) \cup (IF a = n THEN {e} ELSE {})
  BY <1>5, <1>7, <1>8 DEF Fresh
<1>10. Stale(r, n) = Stale(s, n) \cup (IF a = n THEN {} ELSE {e})
  BY <1>5, <1>7, <1>8 DEF Stale
<1>11. Numbers(s, n) /\ a <= n => Numbers(r, n)
  BY <1>5, <1>7, <1>8 DEF Numbers
<1> QED
  BY <1>2, <1>4, <1>9, <1>10, <1>11 DEF r, u, e

LEMMA Appending ==
  ASSUME NEW s \in Seq(OutToken), Framed(s), NEW n \in Nat,
         NEW u \in Seq(OutToken), Framed(u), Frames(u) = {}
  PROVE  LET r == s \o u
         IN  /\ r \in Seq(OutToken) /\ Framed(r)
             /\ Fresh(r, n) = Fresh(s, n) /\ Stale(r, n) = Stale(s, n)
             /\ Pluses(u) = {} => Pluses(r) = Pluses(s)
             /\ Pluses(u) = {1} => Pluses(r) = Pluses(s) \cup {Len(s) + 1}
             /\ Numbers(s, n) => Numbers(r, n)
<1> DEFINE r == s \o u
<1>2. r \in Seq(OutToken) /\ Framed(r)
  BY CatElements, CatFramed
<1>3. Joined(r, s, u)
  BY CatParts
<1> HIDE DEF r
<1>4. Frames(r) = Frames(s) /\ \A i \in Frames(s) : r[i + 1] = s[i + 1]
  <2>1. ASSUME NEW i \in Frames(r) PROVE i \in Frames(s) /\ r[i + 1] = s[i + 1]
    <3>1. /\ i \in Frames(s) \/ (\E j \in Frames(u) : i = Len(s) + j)
          /\ i \in Frames(s) => r[i + 1] = s[i + 1]
      BY <1>3 DEF Joined
    <3> QED
      BY <3>1
  <2>2. Frames(s) \subseteq Frames(r)
    BY <1>3 DEF Joined
  <2> QED
    BY <2>1, <2>2
<1>5. Fresh(r, n) = Fresh(s, n) /\ Stale(r, n) = Stale(s, n) /\ (Numbers(s, n) => Numbers(r, n))
  BY <1>4 DEF Fresh, Stale, Numbers
<1>6. /\ Pluses(u) = {} => Pluses(r) = Pluses(s)
      /\ Pluses(u) = {1} => Pluses(r) = Pluses(s) \cup {Len(s) + 1}
  BY <1>3 DEF Joined
<1> QED
  BY <1>2, <1>5, <1>6 DEF r

(* The head of a sequence of whole frames.                                 *)
LEMMA HeadFrame ==
  ASSUME NEW S, NEW s \in Seq(S), Framed(s), s # <<>>, s[1].t \in {"$", "%"},
         NEW E \in {{"#"}, {"#", "$"}}
  PROVE  /\ 3 \in 0..Len(s) /\ Ends(s, E) # {} /\ First(Ends(s, E)) = 3 /\ Intact(s, 3)
         /\ 3 < Len(s) => s[3 + 1].t \notin {"body", "#"}
<1>1. Len(s) \in Nat /\ 1 \in 1..Len(s)
  OBVIOUS
<1>2. 3 \in 1..Len(s) /\ s[2].t = "body" /\ s[3].t = "#" /\ s[2].n = s[3].n
  <2>1. 1 + 2 \in 1..Len(s) /\ s[1 + 1].t = "body" /\ s[1 + 2].t = "#" /\ s[1 + 1].n = s[1 + 2].n
    BY <1>1 DEF Framed
  <2> QED
    BY <2>1
<1>3. 3 \in Ends(s, E) /\ 2 \notin Ends(s, E) /\ Ends(s, E) \in SUBSET Nat /\ \A i \in Ends(s, E) : 2 <= i
  BY <1>1, <1>2 DEF Ends
<1> DEFINE ends == Ends(s, E)
<1> HIDE DEF ends
<1>4. /\ 3 \in ends /\ 2 \notin ends /\ ends \in SUBSET Nat
      /\ \A i \in ends : 2 <= i
  BY <1>3 DEF ends
<1>5. \E i \in ends : \A j \in ends : i <= j
  BY <1>4, Smallest
<1>6. First(ends) \in ends /\ \A j \in ends : First(ends) <= j
  BY <1>5 DEF First
<1>7. First(ends) = 3
  <2>1. First(ends) \in Nat /\ First(ends) # 2 /\ 2 <= First(ends) /\ First(ends) <= 3
    BY <1>4, <1>6
  <2> QED
    BY <2>1
<1>8. ASSUME 3 < Len(s) PROVE s[4].t \notin {"body", "#"}
  <2>1. 4 \in 1..Len(s)
    BY <1>1, <1>8
  <2>2. /\ s[4].t = "body" => s[4 - 1].t \in {"$", "%"}
        /\ s[4].t = "#" => s[4 - 1].t = "body"
    BY <2>1 DEF Framed
  <2>3. 4 - 1 = 3
    OBVIOUS
  <2> QED
    BY <1>2, <2>2, <2>3
<1> QED
  BY <1>2, <1>4, <1>7, <1>8 DEF ends, Intact

LEMMA HeadChar ==
  ASSUME NEW S, NEW s \in Seq(S), Framed(s), s # <<>>
  PROVE  /\ s[1].t \notin {"body", "#"} /\ Head(s) = s[1] /\ 1 \in 0..Len(s) /\ Tail(s) = From(s, 1)
         /\ s[1].t \notin {"$", "%"} => (1 < Len(s) => s[1 + 1].t \notin {"body", "#"})
<1>1. Len(s) \in Nat /\ 1 \in 1..Len(s)
  OBVIOUS
<1>2. s[1].t \notin {"body", "#"}
  <2>1. 1 - 1 \notin 1..Len(s)
    OBVIOUS
  <2> QED
    BY <1>1, <2>1 DEF Framed
<1>3. ASSUME s[1].t \notin {"$", "%"}, 1 < Len(s) PROVE s[2].t \notin {"body", "#"}
  <2>1. 2 \in 1..Len(s) /\ 2 - 1 = 1
    BY <1>1, <1>3
  <2>2. /\ s[2].t = "body" => s[2 - 1].t \in {"$", "%"}
        /\ s[2].t = "#" => s[2 - 1].t = "body"
    BY <2>1 DEF Framed
  <2> QED
    BY <1>2, <1>3, <2>1, <2>2
<1>4. Head(s) = s[1] /\ Tail(s) = From(s, 1)
  BY DEF From
<1> QED
  BY <1>1, <1>2, <1>3, <1>4

LEMMA TokenIs ==
  /\ \A x \in InToken : x.t \in {"$", "+", "^C", "body", "#"} /\ (x.t = "+" => x = Char("+"))
                        /\ (x.t = "^C" => x = Char("^C"))
  /\ \A x \in OutToken : x.t \in {"$", "%", "+", "body", "#"}
  /\ \A n, k : Body(n, k).n = n /\ Body(n, k).kind = k
BY DEF InToken, OutToken, Char, Body, Sum

(* What is sent to gdbserver.                                              *)
LEMMA Calling ==
  ASSUME NEW s \in Seq(InToken), Framed(s), NEW c \in {"+", "^C"}
  PROVE  LET r == s \o <<Char(c)>>
         IN  /\ r \in Seq(InToken) /\ Framed(r) /\ Frames(r) = Frames(s)
             /\ \A i \in Frames(s) : r[i + 1] = s[i + 1]
             /\ Pluses(s) \subseteq Pluses(r)
             /\ c = "+" => Len(s) + 1 \in Pluses(r)
<1> DEFINE u == <<Char(c)>>
           r == s \o u
<1>1. /\ u \in Seq(InToken) /\ Framed(u) /\ Frames(u) = {} /\ Pluses(u) = IF c = "+" THEN {1} ELSE {}
  BY CharIs
<1> HIDE DEF u
<1>2. r \in Seq(InToken) /\ Framed(r) /\ Joined(r, s, u)
  BY <1>1, CatElements, CatFramed, CatParts
<1> HIDE DEF r
<1>3. ASSUME NEW i \in Frames(r) PROVE i \in Frames(s) /\ r[i + 1] = s[i + 1]
  BY <1>1, <1>2 DEF Joined
<1>4. Frames(s) \subseteq Frames(r) /\ Pluses(s) \subseteq Pluses(r)
  BY <1>2 DEF Joined
<1>5. c = "+" => Len(s) + 1 \in Pluses(r)
  BY <1>1, <1>2 DEF Joined
<1> QED
  BY <1>2, <1>3, <1>4, <1>5 DEF r, u

LEMMA Asking ==
  ASSUME NEW s \in Seq(InToken), Framed(s), Frames(s) = {}, NEW n \in Nat, NEW k \in Kinds
  PROVE  LET r == s \o Packet("$", n, k)
         IN  /\ r \in Seq(InToken) /\ Framed(r) /\ Frames(r) = {Len(s) + 1}
             /\ r[(Len(s) + 1) + 1] = Body(n, k)
             /\ Pluses(s) \subseteq Pluses(r) /\ Pluses(s) \subseteq 1..Len(s)
<1> DEFINE u == Packet("$", n, k)
           r == s \o u
<1>1. /\ u \in Seq(InToken) /\ Framed(u) /\ Frames(u) = {1} /\ Len(u) = 3 /\ u[2] = Body(n, k)
  BY PacketParts
<1> HIDE DEF u
<1>2. r \in Seq(InToken) /\ Framed(r) /\ Joined(r, s, u)
  BY <1>1, CatElements, CatFramed, CatParts
<1> HIDE DEF r
<1>3. ASSUME NEW i \in Frames(r) PROVE i = Len(s) + 1
  <2>1. i \in Frames(s) \/ (\E j \in Frames(u) : i = Len(s) + j)
    BY <1>2 DEF Joined
  <2> QED
    BY <1>1, <2>1
<1>4. Len(s) + 1 \in Frames(r) /\ r[(Len(s) + 1) + 1] = u[1 + 1]
  <2>1. 1 \in Frames(u) /\ 1 + 1 \in 1..Len(u)
    BY <1>1
  <2> QED
    BY <1>2, <2>1 DEF Joined
<1>5. Pluses(s) \subseteq Pluses(r) /\ Pluses(s) \subseteq 1..Len(s)
  BY <1>2 DEF Joined, Pluses
<1> QED
  BY <1>1, <1>2, <1>3, <1>4, <1>5 DEF r, u

(* Without a packet there is nothing but acknowledgements and interrupts.  *)
LEMMA Plain ==
  ASSUME NEW s \in Seq(InToken), Framed(s), Frames(s) = {}
  PROVE  \A i \in 1..Len(s) : s[i] \in {Char("+"), Char("^C")}
<1>1. ASSUME NEW i \in 1..Len(s) PROVE s[i].t # "body"
  <2>1. s[i].t = "body" => i - 1 \in 1..Len(s) /\ s[i - 1].t \in {"$", "%"}
    BY DEF Framed
  <2>2. i - 1 \in 1..Len(s) => s[i - 1] \in InToken
    OBVIOUS
  <2>3. i - 1 \in 1..Len(s) => s[i - 1].t \notin {"$", "%"}
    BY <2>2, TokenIs DEF Frames
  <2> QED
    BY <2>1, <2>3
<1>2. ASSUME NEW i \in 1..Len(s) PROVE s[i].t # "#"
  BY <1>1 DEF Framed
<1>3. ASSUME NEW i \in 1..Len(s) PROVE s[i] \in {Char("+"), Char("^C")}
  <2>1. s[i] \in InToken
    OBVIOUS
  <2> QED
    BY <1>1, <1>2, <2>1, TokenIs DEF Frames
<1> QED
  BY <1>3

LEMMA PlainFramed ==
  ASSUME NEW S, NEW s \in Seq(S), \A i \in 1..Len(s) : s[i] \in {Char("+"), Char("^C")}
  PROVE  Framed(s) /\ Frames(s) = {} /\ s \in Seq(InToken)
<1>1. \A i \in 1..Len(s) : s[i].t \notin {"$", "%", "body", "#"} /\ s[i] \in InToken
  BY DEF Char, InToken
<1>2. Framed(s) /\ Frames(s) = {}
  BY <1>1 DEF Framed, Frames
<1>3. s \in Seq(InToken)
  BY <1>1
<1> QED
  BY <1>2, <1>3

LEMMA RemovedElements ==
  ASSUME NEW S, NEW s \in Seq(S), NEW i \in 1..Len(s), NEW P, \A j \in 1..Len(s) : s[j] \in P
  PROVE  \A j \in 1..Len(RemoveAt(s, i)) : RemoveAt(s, i)[j] \in P
<1>1. s \in Seq(P)
  OBVIOUS
<1>2. RemoveAt(s, i) \in Seq(P)
  BY <1>1, RemoveAtIs
<1> QED
  BY <1>2

-----------------------------------------------------------------------------
(* The conversation while nothing is lost.  A request is on its way, then  *)
(* with gdbserver, then answered.  "$" counts in what gdb is to read as    *)
(* the answer to the last request (now) or to an earlier one (old).        *)

Now == Fresh(toGdb, gdb.n)
Old == Stale(toGdb, gdb.n)
Acks == Pluses(toGdb)
OnTheWay == Frames(toServer) # {}
Pending == OnTheWay \/ server.pc \in {"execute", "wait"}

WholeInv ==
  /\ toGdb \in Seq(OutToken) /\ toServer \in Seq(InToken)
  /\ Framed(toGdb) /\ Framed(toServer)
  /\ Numbers(toGdb, gdb.n)

(* At most one request is on its way, the last one of gdb; when none is,   *)
(* gdbserver knows the last one.                                           *)
RequestInv ==
  /\ \A i \in Frames(toServer) : toServer[i + 1] = Body(gdb.n, gdb.kind)
  /\ \A i, j \in Frames(toServer) : i = j
  /\ OnTheWay => gdb.pc # "idle" /\ server.pc \notin {"execute", "wait"} /\ server.n < gdb.n
  /\ ~OnTheWay => server.n = gdb.n /\ server.kind = gdb.kind
  /\ server.pc = "wait" => server.kind = "cont" /\ ~nonStop
  /\ server.kind = "noack" /\ server.pc # "execute" => server.noack

(* The answer comes when the request is done.                              *)
AnswerInv ==
  /\ Pending => gdb.pc # "idle" /\ Now = {}
  /\ ~Pending /\ gdb.pc # "idle" => Now # {}

(* The acknowledgement of the request comes after all that is old, and     *)
(* before its answer.                                                      *)
AckInv ==
  /\ gdb.pc = "ack" => (OnTheWay <=> Acks = {})
  /\ gdb.pc # "ack" => Acks = {}
  /\ \A p \in Acks : (\A i \in Now : p < i) /\ (\A i \in Old : i < p) /\ (\A q \in Acks : p = q)
  /\ gdb.pc = "answer" => Old = {} /\ (OnTheWay => gdb.noack)

(* gdbserver leaves the acknowledgements out first; from then on answers   *)
(* come once.                                                              *)
NoAckInv ==
  /\ gdb.noack => server.noack /\ gdb.pc # "ack" /\ Old = {}
  /\ server.noack /\ ~gdb.noack => gdb.kind = "noack" /\ ~Pending /\ gdb.pc # "idle"
  /\ server.noack => /\ server.pc # "putpkt"
                     /\ \A i, j \in Now : i = j
                     /\ gdb.pc = "idle" => Now = {}

(* gdbserver does not meet a request where it expects an acknowledgement.  *)
AwaitInv ==
  server.pc = "putpkt" /\ (gdb.pc = "idle" \/ OnTheWay) =>
    \E p \in Pluses(toServer) : \A i \in Frames(toServer) : p < i

(* What was done, and what was taken.                                      *)
HistoryInv ==
  /\ history.times \in {0, 1}
  /\ OnTheWay \/ server.pc = "execute" => history.times = 0
  /\ gdb.n > 0 /\ ~OnTheWay /\ server.pc # "execute" => history.times = 1
  /\ history.done = IF history.times = 0 /\ gdb.n > 0 THEN gdb.n - 1 ELSE gdb.n
  /\ history.taken = IF gdb.pc = "idle" THEN gdb.n ELSE gdb.n - 1

Conversation ==
  WholeInv /\ RequestInv /\ AnswerInv /\ AckInv /\ NoAckInv /\ AwaitInv /\ HistoryInv

SentState == [faults : Nat, interrupts : Nat, notifs : Nat, handled : Nat]
HistoryState == [done : Nat, times : Nat, taken : Nat, interrupted : BOOLEAN]

TypesInv == LinkInv /\ sent \in SentState /\ history \in HistoryState

LosslessInv ==
  /\ LinkInv
  /\ sent \in SentState
  /\ sent.faults = 0 => TypesInv /\ Conversation /\ gdb.tries = 0

-----------------------------------------------------------------------------
(* The steps of a conversation without losses.                             *)

(* The types, and the parts of the invariant, one step at a time.          *)
LEMMA Types ==
  ASSUME TypesInv, Conversation
  PROVE  /\ gdb \in GdbState /\ server \in ServerState /\ sent \in SentState /\ history \in HistoryState
         /\ gdb.n \in Nat /\ server.n \in Nat /\ gdb.kind \in Kinds /\ server.kind \in Kinds
         /\ toGdb \in Seq(OutToken) /\ Framed(toGdb) /\ Numbers(toGdb, gdb.n)
         /\ toServer \in Seq(InToken) /\ Framed(toServer)
         /\ Len(toGdb) \in Nat /\ Len(toServer) \in Nat
         /\ buffered \in 0..Len(toServer)
BY DEF TypesInv, LinkInv, Conversation, WholeInv, GdbState, ServerState

LEMMA InGdb ==
  ASSUME TypesInv, Conversation
  PROVE  /\ Now \subseteq 1..Len(toGdb) /\ Old \subseteq 1..Len(toGdb) /\ Acks \subseteq 1..Len(toGdb)
         /\ Frames(toServer) \subseteq 1..Len(toServer) /\ Pluses(toServer) \subseteq 1..Len(toServer)
         /\ \A i \in 1..Len(toGdb) : /\ toGdb[i].t = "$" => i \in Now \/ i \in Old
                                     /\ toGdb[i].t = "+" => i \in Acks
                                     /\ toGdb[i].t \in {"$", "%", "+", "body", "#"}
BY Types, TokenIs DEF Now, Old, Acks, Fresh, Stale, Frames, Pluses

LEMMA SendConversation ==
  ASSUME TypesInv, Conversation, NEW k \in Kinds, Send(k)
  PROVE  Conversation'
<1>1. /\ gdb.pc = "idle" /\ gdb.n \in Nat /\ gdb.n + 1 \in Nat
      /\ gdb.n' = gdb.n + 1 /\ gdb.kind' = k /\ gdb.noack' = gdb.noack
      /\ gdb.pc' = IF gdb.noack THEN "answer" ELSE "ack"
      /\ history.times' = 0 /\ history.done' = history.done /\ history.taken' = history.taken
      /\ toGdb' = toGdb /\ server' = server /\ nonStop' = nonStop
  BY Types DEF Send, ToServer, GdbState, HistoryState, linkVars
<1>2. Frames(toServer) = {} /\ Acks = {} /\ server.pc \notin {"execute", "wait"}
  BY <1>1 DEF Conversation, RequestInv, AnswerInv, AckInv, OnTheWay, Pending
<1> DEFINE e == Len(toServer) + 1
<1>3. /\ toServer' \in Seq(InToken) /\ Framed(toServer') /\ Frames(toServer') = {e}
      /\ toServer'[e + 1] = Body(gdb.n', k)
      /\ Pluses(toServer) \subseteq Pluses(toServer') /\ \A p \in Pluses(toServer) : p < e
  <2>1. toServer \in Seq(InToken) /\ Framed(toServer) /\ Len(toServer) \in Nat
    BY Types
  <2> DEFINE n == gdb.n + 1
             r == toServer \o Packet("$", n, k)
  <2>2. n \in Nat /\ toServer' = r /\ n = gdb.n'
    BY <1>1 DEF Send, ToServer
  <2> HIDE DEF n
  <2>3. /\ r \in Seq(InToken) /\ Framed(r) /\ Frames(r) = {Len(toServer) + 1}
        /\ r[(Len(toServer) + 1) + 1] = Body(n, k)
        /\ Pluses(toServer) \subseteq Pluses(r) /\ Pluses(toServer) \subseteq 1..Len(toServer)
    <3>2. k \in Kinds /\ Frames(toServer) = {}
      BY <1>2
    <3>1. LET q == toServer \o Packet("$", n, k)
          IN  /\ q \in Seq(InToken) /\ Framed(q) /\ Frames(q) = {Len(toServer) + 1}
              /\ q[(Len(toServer) + 1) + 1] = Body(n, k)
              /\ Pluses(toServer) \subseteq Pluses(q) /\ Pluses(toServer) \subseteq 1..Len(toServer)
      BY ONLY <2>1, <2>2, <3>2, Asking
    <3> QED
      BY ONLY <3>1
  <2> HIDE DEF r
  <2>4. \A p \in Pluses(toServer) : p < e
    BY <2>1, <2>3
  <2> QED
    BY <2>2, <2>3, <2>4
<1> HIDE DEF e
<1>4. /\ Now' = {} /\ Old' = Now \cup Old /\ Acks' = {} /\ Numbers(toGdb', gdb.n')
  <2>1. \A i \in Frames(toGdb) : toGdb[i + 1].n \in 0..gdb.n
    BY Types DEF Numbers
  <2> QED
    BY <1>1, <1>2, <2>1 DEF Now, Old, Acks, Fresh, Stale, Numbers
<1>5. WholeInv'
  BY <1>1, <1>3, <1>4, Types DEF WholeInv
<1>6. RequestInv'
  <2>1. server.n = gdb.n /\ (server.kind = "noack" /\ server.pc # "execute" => server.noack)
    BY <1>2 DEF RequestInv, OnTheWay, Conversation
  <2> QED
    BY <1>1, <1>2, <1>3, <2>1 DEF RequestInv, OnTheWay
<1>7. AnswerInv'
  BY <1>1, <1>3, <1>4 DEF AnswerInv, OnTheWay, Pending
<1>8. AckInv'
  BY <1>1, <1>2, <1>3, <1>4 DEF AckInv, OnTheWay, NoAckInv, Conversation
<1>9. NoAckInv'
  BY <1>1, <1>2, <1>3, <1>4 DEF OnTheWay, NoAckInv, Conversation
<1>10. AwaitInv'
  BY <1>1, <1>2, <1>3 DEF AwaitInv, OnTheWay, Conversation
<1>11. HistoryInv'
  <2>1. history.done = gdb.n /\ history.taken = gdb.n
    BY <1>1, <1>2 DEF HistoryInv, OnTheWay, Conversation
  <2> QED
    BY <1>1, <1>2, <1>3, <2>1 DEF HistoryInv, OnTheWay
<1> QED
  BY <1>5, <1>6, <1>7, <1>8, <1>9, <1>10, <1>11 DEF Conversation

(* What is left to read, for gdb and for gdbserver.                        *)
LEMMA Left ==
  ASSUME TypesInv, Conversation, NEW m \in 0..Len(toGdb), toGdb' = From(toGdb, m), gdb.n' = gdb.n,
         m < Len(toGdb) => toGdb[m + 1].t \notin {"body", "#"}
  PROVE  /\ toGdb' \in Seq(OutToken) /\ Framed(toGdb') /\ Numbers(toGdb', gdb.n')
         /\ Shifted(Now', Now, m) /\ Shifted(Old', Old, m) /\ Shifted(Acks', Acks, m)
<1>1. toGdb \in Seq(OutToken) /\ Framed(toGdb) /\ gdb.n \in Nat /\ Numbers(toGdb, gdb.n)
  BY Types
<1> DEFINE r == From(toGdb, m)
<1>2. r \in Seq(OutToken) /\ Framed(r)
  BY <1>1, FromElements, FromFramed
<1>3. /\ Shifted(Fresh(r, gdb.n), Fresh(toGdb, gdb.n), m)
      /\ Shifted(Stale(r, gdb.n), Stale(toGdb, gdb.n), m)
      /\ Shifted(Pluses(r), Pluses(toGdb), m)
      /\ Numbers(r, gdb.n)
  BY <1>1, FromParts
<1> HIDE DEF r
<1>4. toGdb' = r /\ gdb.n' = gdb.n
  BY DEF r
<1> QED
  BY <1>2, <1>3, <1>4 DEF Now, Old, Acks

LEMMA LeftToServer ==
  ASSUME TypesInv, Conversation, NEW m \in 0..Len(toServer), toServer' = From(toServer, m),
         m < Len(toServer) => toServer[m + 1].t \notin {"body", "#"}
  PROVE  /\ toServer' \in Seq(InToken) /\ Framed(toServer')
         /\ Shifted(Frames(toServer'), Frames(toServer), m)
         /\ Shifted(Pluses(toServer'), Pluses(toServer), m)
         /\ \A i \in Frames(toServer') : toServer'[i + 1] = toServer[(i + m) + 1]
<1>1. toServer \in Seq(InToken) /\ Framed(toServer) /\ gdb.n \in Nat
  BY Types
<1> DEFINE r == From(toServer, m)
<1>2. r \in Seq(InToken) /\ Framed(r)
  BY <1>1, FromElements, FromFramed
<1>3. /\ Shifted(Frames(r), Frames(toServer), m)
      /\ Shifted(Pluses(r), Pluses(toServer), m)
      /\ \A i \in Frames(r) : r[i + 1] = toServer[(i + m) + 1]
  BY <1>1, FromParts
<1> HIDE DEF r
<1>4. toServer' = r
  BY DEF r
<1> QED
  BY <1>2, <1>3, <1>4

LEMMA Sending ==
  ASSUME TypesInv, Conversation, NEW c \in {"+", "^C"}, ToServer(toServer, <<Char(c)>>)
  PROVE  /\ toServer' \in Seq(InToken) /\ Framed(toServer') /\ Frames(toServer') = Frames(toServer)
         /\ \A i \in Frames(toServer) : toServer'[i + 1] = toServer[i + 1]
         /\ Pluses(toServer) \subseteq Pluses(toServer')
         /\ c = "+" => Len(toServer) + 1 \in Pluses(toServer')
<1>1. toServer \in Seq(InToken) /\ Framed(toServer)
  BY Types
<1> DEFINE r == toServer \o <<Char(c)>>
<1>2. /\ r \in Seq(InToken) /\ Framed(r) /\ Frames(r) = Frames(toServer)
      /\ \A i \in Frames(toServer) : r[i + 1] = toServer[i + 1]
      /\ Pluses(toServer) \subseteq Pluses(r)
      /\ c = "+" => Len(toServer) + 1 \in Pluses(r)
  BY <1>1, Calling
<1>3. toServer' = r
  BY DEF ToServer
<1> HIDE DEF r
<1> QED
  BY <1>2, <1>3

(* The head of what is to be read.                                         *)
LEMMA GdbHead ==
  ASSUME TypesInv, Conversation, toGdb # <<>>, NEW E \in {{"#"}, {"#", "$"}}
  PROVE  LET c == Head(toGdb).t
         IN  /\ c \in {"$", "%", "+"}
             /\ c = "+" => /\ 1 \in Acks /\ Tail(toGdb) = From(toGdb, 1) /\ 1 \in 0..Len(toGdb)
                           /\ 1 < Len(toGdb) => toGdb[1 + 1].t \notin {"body", "#"}
             /\ c = "$" => 1 \in Now \/ 1 \in Old
             /\ c \in {"$", "%"} => /\ 3 \in 0..Len(toGdb) /\ Ends(toGdb, E) # {} /\ First(Ends(toGdb, E)) = 3
                                    /\ Intact(toGdb, 3)
                                    /\ 3 < Len(toGdb) => toGdb[3 + 1].t \notin {"body", "#"}
             /\ 1 \in Now => c = "$" /\ toGdb[2].n = gdb.n
             /\ 1 \in Old => c = "$"
             /\ 1 \in Acks => c = "+"
             /\ c \in {"$", "%"} => \A j \in Now \cup Old \cup Acks : j = 1 \/ j > 3
<1>1. toGdb \in Seq(OutToken) /\ Framed(toGdb) /\ 1 \in 1..Len(toGdb)
  BY Types
<1>2. /\ toGdb[1].t \notin {"body", "#"} /\ Head(toGdb) = toGdb[1] /\ Tail(toGdb) = From(toGdb, 1) /\ 1 \in 0..Len(toGdb)
      /\ toGdb[1].t \notin {"$", "%"} => (1 < Len(toGdb) => toGdb[1 + 1].t \notin {"body", "#"})
  BY <1>1, HeadChar
<1>3. /\ toGdb[1].t = "$" => 1 \in Now \/ 1 \in Old
      /\ toGdb[1].t = "+" => 1 \in Acks
      /\ toGdb[1].t \in {"$", "%", "+", "body", "#"}
  BY <1>1, InGdb
<1>4. ASSUME toGdb[1].t \in {"$", "%"}
      PROVE  /\ 3 \in 0..Len(toGdb) /\ Ends(toGdb, E) # {} /\ First(Ends(toGdb, E)) = 3 /\ Intact(toGdb, 3)
             /\ 3 < Len(toGdb) => toGdb[3 + 1].t \notin {"body", "#"}
  BY <1>1, <1>4, HeadFrame
<1>5. /\ 1 \in Now => toGdb[1].t = "$" /\ toGdb[2].n = gdb.n
      /\ 1 \in Old => toGdb[1].t = "$"
      /\ 1 \in Acks => toGdb[1].t = "+"
  <2>1. 1 + 1 = 2
    OBVIOUS
  <2> QED
    BY <2>1 DEF Now, Old, Acks, Fresh, Stale, Frames, Pluses
<1>6. ASSUME toGdb[1].t \in {"$", "%"}, NEW j \in Now \cup Old \cup Acks PROVE j = 1 \/ j > 3
  <2>1. toGdb[2].t = "body" /\ toGdb[3].t = "#"
    BY <1>4, <1>6 DEF Intact
  <2>2. j \in Nat \ {0} /\ toGdb[j].t \in {"$", "+"}
    BY Types DEF Now, Old, Acks, Fresh, Stale, Frames, Pluses
  <2>3. j # 2 /\ j # 3
    BY <2>1, <2>2
  <2> QED
    BY <2>2, <2>3
<1> QED
  BY <1>2, <1>3, <1>4, <1>5, <1>6

LEMMA Shifts ==
  ASSUME NEW A, NEW B, NEW m \in Nat, Shifted(A, B, m), B \subseteq Nat
  PROVE  /\ (\A j \in B : j > m) => (A = {} <=> B = {})
         /\ (\A i, j \in B : i = j) => (\A i, j \in A : i = j)
         /\ (\A j \in B : j <= m) => A = {}
         /\ B = {} => A = {}
<1>1. /\ \A i \in A : i \in Nat \ {0} /\ i + m \in B
      /\ \A j \in B : j > m => j - m \in A
  BY DEF Shifted
<1>2. ASSUME \A j \in B : j > m PROVE A = {} <=> B = {}
  BY <1>1, <1>2
<1>3. ASSUME \A i, j \in B : i = j, NEW i \in A, NEW j \in A PROVE i = j
  <2>1. i \in Nat /\ j \in Nat /\ i + m = j + m
    BY <1>1, <1>3
  <2> QED
    BY <2>1
<1>4. ASSUME \A j \in B : j <= m PROVE A = {}
  <2>1. ASSUME NEW i \in A PROVE FALSE
    <3>1. i \in Nat \ {0} /\ i + m <= m
      BY <1>1, <1>4
    <3> QED
      BY <3>1
  <2> QED
    BY <2>1
<1> QED
  BY <1>1, <1>2, <1>3, <1>4

LEMMA ReadAckConversation ==
  ASSUME TypesInv, Conversation, ReadAck
  PROVE  Conversation'
<1> DEFINE c == Head(toGdb).t
           E == IF c = "$" THEN {"#"} ELSE {"#", "$"}
           m == IF c = "+" THEN 1 ELSE 3
<1>1. /\ gdb.pc = "ack" /\ toGdb # <<>> /\ c \in {"$", "%", "+"}
      /\ E \in {{"#"}, {"#", "$"}}
  BY Types, GdbHead DEF ReadAck
<1>2. /\ server' = server /\ history' = history /\ nonStop' = nonStop
      /\ gdb.n' = gdb.n /\ gdb.kind' = gdb.kind /\ gdb.noack' = gdb.noack
      /\ gdb.pc' = IF c = "+" THEN "answer" ELSE "ack"
  BY <1>1, Types DEF ReadAck, Resend, SkipFrame, GdbState, linkVars
<1>3. /\ c = "+" => /\ 1 \in Acks /\ Tail(toGdb) = From(toGdb, 1) /\ 1 \in 0..Len(toGdb)
                    /\ 1 < Len(toGdb) => toGdb[1 + 1].t \notin {"body", "#"}
      /\ c = "$" => 1 \in Now \/ 1 \in Old
      /\ c \in {"$", "%"} => /\ 3 \in 0..Len(toGdb) /\ First(Ends(toGdb, E)) = 3
                             /\ 3 < Len(toGdb) => toGdb[3 + 1].t \notin {"body", "#"}
      /\ 1 \in Now => c = "$"
      /\ 1 \in Old => c = "$"
      /\ 1 \in Acks => c = "+"
      /\ c \in {"$", "%"} => \A j \in Now \cup Old \cup Acks : j = 1 \/ j > 3
  BY <1>1, GdbHead
<1>4. toGdb' = From(toGdb, m) /\ (c = "$" => ToServer(toServer, <<Char("+")>>)) /\ (c # "$" => toServer' = toServer)
  BY <1>1, <1>3 DEF ReadAck, SkipFrame
<1> HIDE DEF c, E, m
<1>5. m \in {1, 3} /\ (c = "+" <=> m = 1) /\ m \in 0..Len(toGdb) /\ (m < Len(toGdb) => toGdb[m + 1].t \notin {"body", "#"})
  BY <1>1, <1>3 DEF m
<1>6. /\ toGdb' \in Seq(OutToken) /\ Framed(toGdb') /\ Numbers(toGdb', gdb.n')
      /\ Shifted(Now', Now, m) /\ Shifted(Old', Old, m) /\ Shifted(Acks', Acks, m)
  BY <1>2, <1>4, <1>5, Left
<1>7. /\ toServer' \in Seq(InToken) /\ Framed(toServer') /\ Frames(toServer') = Frames(toServer)
      /\ \A i \in Frames(toServer) : toServer'[i + 1] = toServer[i + 1]
      /\ Pluses(toServer) \subseteq Pluses(toServer')
  BY <1>4, Sending, Types
<1>8. /\ Now \subseteq Nat \ {0} /\ Old \subseteq Nat \ {0} /\ Acks \subseteq Nat \ {0} /\ gdb.n \in Nat
  BY InGdb, Types
<1>9. AnswerInv /\ AckInv /\ NoAckInv /\ RequestInv /\ AwaitInv /\ HistoryInv
  BY DEF Conversation
<1>10. 1 \notin Now
  BY <1>1, <1>3, <1>8, <1>9 DEF AckInv, AnswerInv, Pending, OnTheWay
<1>11. WholeInv'
  BY <1>6, <1>7 DEF WholeInv
<1>12. RequestInv'
  BY <1>1, <1>2, <1>7, <1>9 DEF RequestInv, OnTheWay
<1>13. AnswerInv'
  <2>1. Now' # {} <=> Now # {}
    <3>1. \A j \in Now : j > m
      BY <1>1, <1>3, <1>5, <1>8, <1>10
    <3>2. m \in Nat /\ Shifted(Now', Now, m) /\ Now \subseteq Nat
      BY <1>5, <1>6, <1>8
    <3> QED
      BY <3>1, <3>2, Shifts
  <2> QED
    BY <1>1, <1>2, <1>7, <1>9, <2>1 DEF AnswerInv, OnTheWay, Pending
<1>14. AckInv'
  <2>1. CASE c = "+"
    <3>1. \A p \in Acks : p = 1
      BY <1>3, <1>9, <2>1 DEF AckInv
    <3>2. Acks' = {} /\ Old' = {}
      BY <1>3, <1>5, <1>6, <1>8, <1>9, <2>1, <3>1 DEF AckInv, Shifted
    <3> QED
      BY <1>1, <1>2, <1>3, <1>7, <1>9, <2>1, <3>2 DEF AckInv, OnTheWay
  <2>2. CASE c # "+"
    <3>1. Acks' # {} <=> Acks # {}
      <4>1. \A j \in Acks : j > m
        BY <1>1, <1>3, <1>5, <1>8, <2>2
      <4>2. m \in Nat /\ Shifted(Acks', Acks, m) /\ Acks \subseteq Nat
        BY <1>5, <1>6, <1>8
      <4> QED
        BY <4>1, <4>2, Shifts
    <3>2. \A p \in Acks' : (\A i \in Now' : p < i) /\ (\A i \in Old' : i < p) /\ (\A q \in Acks' : p = q)
      <4>1. ASSUME NEW p \in Acks'
            PROVE  (\A i \in Now' : p < i) /\ (\A i \in Old' : i < p) /\ (\A q \in Acks' : p = q)
        <5>1. p \in Nat /\ p + m \in Acks
          BY <1>6 DEF Shifted
        <5>2. (\A i \in Now : p + m < i) /\ (\A i \in Old : i < p + m) /\ (\A q \in Acks : p + m = q)
          BY <1>9, <5>1 DEF AckInv
        <5> QED
          BY <1>5, <1>6, <5>1, <5>2 DEF Shifted
      <4> QED
        BY <4>1
    <3> QED
      BY <1>1, <1>2, <1>7, <1>9, <2>2, <3>1, <3>2 DEF AckInv, OnTheWay
  <2> QED
    BY <2>1, <2>2
<1>15. NoAckInv'
  <2>1. m \in Nat /\ Shifted(Now', Now, m) /\ Now \subseteq Nat
    BY <1>5, <1>6, <1>8
  <2>2. (\A i, j \in Now : i = j) => (\A i, j \in Now' : i = j)
    BY <2>1, Shifts
  <2> QED
    BY <1>1, <1>2, <1>7, <1>9, <2>2 DEF NoAckInv, OnTheWay, Pending
<1>16. AwaitInv'
  BY <1>1, <1>2, <1>7, <1>9 DEF AwaitInv, OnTheWay
<1>17. HistoryInv'
  BY <1>1, <1>2, <1>7, <1>9 DEF HistoryInv, OnTheWay
<1> QED
  BY <1>11, <1>12, <1>13, <1>14, <1>15, <1>16, <1>17 DEF Conversation

LEMMA ReadAnswerConversation ==
  ASSUME TypesInv, Conversation, ReadAnswer
  PROVE  Conversation'
<1> DEFINE c == Head(toGdb).t
           E == {"#", "$"}
           took == c = "$" /\ gdb.pc = "answer"
<1>1. /\ gdb.pc \in {"answer", "idle"} /\ toGdb # <<>>
      /\ E \in {{"#"}, {"#", "$"}}
  BY DEF ReadAnswer, Reading
<1>2. AnswerInv /\ AckInv /\ NoAckInv /\ RequestInv /\ AwaitInv /\ HistoryInv
  BY DEF Conversation
<1>3. /\ c \in {"$", "%", "+"} /\ (c = "+" => 1 \in Acks)
      /\ c = "$" => 1 \in Now \/ 1 \in Old
      /\ c \in {"$", "%"} => /\ 3 \in 0..Len(toGdb) /\ Ends(toGdb, E) # {} /\ First(Ends(toGdb, E)) = 3
                             /\ Intact(toGdb, 3)
                             /\ 3 < Len(toGdb) => toGdb[3 + 1].t \notin {"body", "#"}
      /\ 1 \in Now => c = "$" /\ toGdb[2].n = gdb.n
      /\ 1 \in Old => c = "$"
      /\ c \in {"$", "%"} => \A j \in Now \cup Old \cup Acks : j = 1 \/ j > 3
  BY <1>1, GdbHead
<1>4. Acks = {} /\ c \in {"$", "%"}
  BY <1>1, <1>2, <1>3 DEF AckInv
<1>5. /\ toGdb' = From(toGdb, 3) /\ UNCHANGED <<lossy, nonStop, server>>
      /\ c = "$" => TakeAnswer(toGdb[2].n, From(toGdb, 3))
      /\ c = "%" => UNCHANGED <<toServer, history>> /\ gdb' = [gdb EXCEPT !.tries = 0]
  BY <1>3, <1>4 DEF ReadAnswer, TakeAnswer, linkVars
<1>6. took => 1 \in Now /\ toGdb[2].n = gdb.n
  BY <1>2, <1>3 DEF AckInv
<1>7. /\ gdb.n' = gdb.n /\ gdb.kind' = gdb.kind
      /\ gdb.pc' = IF took THEN "idle" ELSE gdb.pc
      /\ gdb.noack' = (gdb.noack \/ (took /\ gdb.kind = "noack"))
      /\ history.done' = history.done /\ history.times' = history.times
      /\ history.taken' = IF took THEN gdb.n ELSE history.taken
  <2>1. gdb \in GdbState /\ history \in HistoryState
    BY Types
  <2>2. CASE took
    BY <1>5, <1>6, <2>1, <2>2 DEF TakeAnswer, GdbState, HistoryState
  <2>3. CASE ~took
    <3>1. gdb' = gdb \/ gdb' = [gdb EXCEPT !.tries = 0]
      BY <1>1, <1>4, <1>5, <2>3 DEF TakeAnswer
    <3>2. history' = history
      BY <1>1, <1>4, <1>5, <2>3 DEF TakeAnswer
    <3> QED
      BY <2>1, <2>3, <3>1, <3>2 DEF GdbState
  <2> QED
    BY <2>2, <2>3
<1>8. IF c = "$" /\ ~gdb.noack THEN ToServer(toServer, <<Char("+")>>) ELSE toServer' = toServer
  <2>1. toServer \o <<>> = toServer
    BY Types
  <2> QED
    BY <1>4, <1>5, <2>1 DEF TakeAnswer, Acked, ToServer
<1> HIDE DEF c, E
<1>9. /\ toGdb' \in Seq(OutToken) /\ Framed(toGdb') /\ Numbers(toGdb', gdb.n')
      /\ Shifted(Now', Now, 3) /\ Shifted(Old', Old, 3) /\ Shifted(Acks', Acks, 3)
  BY <1>3, <1>4, <1>5, <1>7, Left
<1>10. /\ toServer' \in Seq(InToken) /\ Framed(toServer') /\ Frames(toServer') = Frames(toServer)
       /\ \A i \in Frames(toServer) : toServer'[i + 1] = toServer[i + 1]
       /\ Pluses(toServer) \subseteq Pluses(toServer')
       /\ c = "$" /\ ~gdb.noack => Pluses(toServer') # {}
  BY <1>8, Sending, Types
<1>11. /\ Now \subseteq Nat /\ Old \subseteq Nat /\ Acks \subseteq Nat /\ gdb.n \in Nat
  BY InGdb, Types
<1>12. /\ (\A j \in Now : j > 3) => (Now' = {} <=> Now = {})
       /\ (\A i, j \in Now : i = j) => (\A i, j \in Now' : i = j)
       /\ (\A j \in Now : j <= 3) => Now' = {}
       /\ Now = {} => Now' = {}
       /\ Old = {} => Old' = {}
       /\ Acks' = {}
  <2>1. /\ (\A j \in Now : j > 3) => (Now' = {} <=> Now = {})
        /\ (\A i, j \in Now : i = j) => (\A i, j \in Now' : i = j)
        /\ (\A j \in Now : j <= 3) => Now' = {}
        /\ Now = {} => Now' = {}
    BY <1>9, <1>11, Shifts, ZenonT(40)
  <2>2. Old = {} => Old' = {}
    BY <1>9, <1>11, Shifts
  <2>3. Acks' = {}
    BY <1>4, <1>9 DEF Shifted
  <2> QED
    BY <2>1, <2>2, <2>3
<1>13. WholeInv'
  BY <1>9, <1>10 DEF WholeInv
<1>14. took => ~Pending /\ (server.noack => Now' = {})
  <2>1. ASSUME took, server.noack PROVE \A j \in Now : j <= 3
    BY <1>2, <1>6, <2>1 DEF NoAckInv
  <2> QED
    BY <1>2, <1>6, <1>12, <2>1 DEF AnswerInv
<1>15. RequestInv'
  BY <1>5, <1>7, <1>10, <1>14, <1>2 DEF RequestInv, OnTheWay, Pending
<1>16. AnswerInv'
  <2>1. ~took /\ gdb.pc # "idle" => \A j \in Now : j > 3
    BY <1>1, <1>3, <1>4
  <2> QED
    BY <1>2, <1>5, <1>7, <1>10, <1>12, <1>14, <2>1 DEF AnswerInv, OnTheWay, Pending
<1>17. AckInv'
  BY <1>1, <1>2, <1>7, <1>10, <1>12 DEF AckInv, OnTheWay
<1>18. NoAckInv'
  <2>1. took /\ gdb.kind = "noack" => server.noack
    BY <1>2, <1>14 DEF RequestInv, Pending, OnTheWay
  <2>2. gdb.pc' # "ack" /\ (took => Old' = {})
    BY <1>1, <1>2, <1>7, <1>12 DEF AckInv
  <2>3. gdb.noack' => server.noack' /\ gdb.pc' # "ack" /\ Old' = {}
    BY <1>2, <1>5, <1>7, <1>12, <2>1, <2>2 DEF NoAckInv
  <2>4. server.noack' /\ ~gdb.noack' => gdb.kind' = "noack" /\ ~Pending' /\ gdb.pc' # "idle"
    BY <1>2, <1>5, <1>7, <1>10 DEF NoAckInv, Pending, OnTheWay
  <2>5. server.noack' => server.pc' # "putpkt" /\ (\A i, j \in Now' : i = j) /\ (gdb.pc' = "idle" => Now' = {})
    BY <1>2, <1>5, <1>7, <1>12, <1>14 DEF NoAckInv
  <2> QED
    BY <2>3, <2>4, <2>5 DEF NoAckInv
<1>19. AwaitInv'
  <2>1. took /\ server.pc = "putpkt" => Frames(toServer) = {} /\ Pluses(toServer') # {}
    BY <1>2, <1>10, <1>14 DEF NoAckInv, Pending, OnTheWay
  <2> QED
    BY <1>2, <1>5, <1>7, <1>10, <2>1 DEF AwaitInv, OnTheWay
<1>20. HistoryInv'
  BY <1>1, <1>2, <1>5, <1>7, <1>10, <1>11 DEF HistoryInv, OnTheWay
<1> QED
  BY <1>13, <1>15, <1>16, <1>17, <1>18, <1>19, <1>20 DEF Conversation

LEMMA InterruptConversation ==
  ASSUME TypesInv, Conversation, Interrupt
  PROVE  Conversation'
<1>1. /\ UNCHANGED <<nonStop, gdb, toGdb, server>> /\ gdb.pc = "answer"
      /\ history'.done = history.done /\ history'.times = history.times /\ history'.taken = history.taken
  BY Types DEF Interrupt, linkVars, HistoryState
<1>2. /\ toServer' \in Seq(InToken) /\ Framed(toServer') /\ Frames(toServer') = Frames(toServer)
      /\ \A i \in Frames(toServer) : toServer'[i + 1] = toServer[i + 1]
      /\ Pluses(toServer) \subseteq Pluses(toServer')
  BY Sending DEF Interrupt
<1>3. Conversation
  OBVIOUS
<1>4. WholeInv' /\ RequestInv'
  BY <1>1, <1>2, <1>3 DEF Conversation, WholeInv, RequestInv, OnTheWay
<1>5. AnswerInv' /\ AckInv' /\ NoAckInv'
  BY <1>1, <1>2, <1>3 DEF Conversation, AnswerInv, AckInv, NoAckInv, OnTheWay, Pending, Now, Old, Acks
<1>6. AwaitInv' /\ HistoryInv'
  BY <1>1, <1>2, <1>3 DEF Conversation, AwaitInv, HistoryInv, OnTheWay
<1> QED
  BY <1>4, <1>5, <1>6 DEF Conversation

(* No timeout is met: what gdb waits for is coming.                        *)
LEMMA NoTimeOut ==
  ASSUME TypesInv, Conversation, gdb.tries = 0 PROVE ~TimeOut
<1>1. SUFFICES ASSUME TimeOut PROVE FALSE
  OBVIOUS
<1>2. PICK E \in {{"#"}, {"#", "$"}} :
        /\ Silent(E)
        /\ gdb.pc = "ack" \/ (Reading /\ ((Forever \/ gdb.pc = "idle") /\ gdb.tries = 0 => toGdb # <<>>))
  BY <1>1 DEF TimeOut
<1>3. toGdb = <<>>
  BY <1>2, GdbHead DEF Silent
<1>4. Now = {} /\ Acks = {}
  BY <1>3, InGdb
<1>5. AnswerInv /\ AckInv /\ RequestInv
  BY DEF Conversation
<1>6. Pending /\ (gdb.pc # "ack" => ~Forever)
  BY <1>2, <1>3, <1>4, <1>5 DEF AnswerInv, Reading
<1>7. gdb.pc = "ack" => OnTheWay
  BY <1>4, <1>5 DEF AckInv
<1>8. Blocked
  BY <1>2 DEF Silent
<1>9. ~OnTheWay
  <2>1. SUFFICES ASSUME OnTheWay PROVE FALSE
    OBVIOUS
  <2>2. toServer # <<>> /\ server.pc \notin {"execute", "wait"}
    BY <1>5, <2>1, InGdb DEF RequestInv, OnTheWay
  <2>3. server.pc = "getpkt" /\ Head(toServer).t = "$" /\ Ends(toServer, {"#"}) = {}
    BY <1>8, <2>2 DEF Blocked
  <2>4. toServer \in Seq(InToken) /\ Framed(toServer) /\ Head(toServer) = toServer[1]
    BY <2>2, Types, HeadChar
  <2> QED
    BY <2>2, <2>3, <2>4, HeadFrame
<1>10. server.pc = "wait"
  BY <1>6, <1>8, <1>9 DEF Pending, Blocked
<1>11. Forever
  BY <1>5, <1>9, <1>10 DEF RequestInv, Forever
<1> QED
  BY <1>6, <1>7, <1>9, <1>11

LEMMA WakeConversation ==
  ASSUME TypesInv, Conversation, Wake
  PROVE  Conversation'
<1>1. /\ UNCHANGED <<nonStop, gdb, toGdb, toServer, history>> /\ server.pc = "select"
      /\ server'.pc \in {"select", "getpkt"}
      /\ server'.n = server.n /\ server'.kind = server.kind /\ server'.noack = server.noack
  BY Types DEF Wake, linkVars, ServerState
<1>2. Conversation
  OBVIOUS
<1>3. WholeInv' /\ RequestInv'
  BY <1>1, <1>2 DEF Conversation, WholeInv, RequestInv, OnTheWay
<1>4. AnswerInv' /\ AckInv' /\ NoAckInv'
  BY <1>1, <1>2 DEF Conversation, AnswerInv, AckInv, NoAckInv, OnTheWay, Pending, Now, Old, Acks
<1>5. AwaitInv' /\ HistoryInv'
  BY <1>1, <1>2 DEF Conversation, AwaitInv, HistoryInv, OnTheWay
<1> QED
  BY <1>3, <1>4, <1>5 DEF Conversation

(* Of what gdbserver reads that is not a packet.                           *)
LEMMA ServerHead ==
  ASSUME TypesInv, Conversation, toServer # <<>>
  PROVE  LET c == Head(toServer).t
         IN  /\ c \in {"$", "+", "^C"} /\ 1 \in 0..Len(toServer)
             /\ c = "$" <=> 1 \in Frames(toServer)
             /\ c = "+" <=> 1 \in Pluses(toServer)
             /\ c # "$" => (1 < Len(toServer) => toServer[1 + 1].t \notin {"body", "#"})
<1>1. toServer \in Seq(InToken) /\ Framed(toServer) /\ 1 \in 1..Len(toServer)
  BY Types
<1>2. /\ toServer[1].t \notin {"body", "#"} /\ Head(toServer) = toServer[1] /\ 1 \in 0..Len(toServer)
      /\ toServer[1].t \notin {"$", "%"} => (1 < Len(toServer) => toServer[1 + 1].t \notin {"body", "#"})
  BY <1>1, HeadChar
<1>3. toServer[1] \in InToken
  BY <1>1
<1> QED
  BY <1>1, <1>2, <1>3, TokenIs DEF Frames, Pluses

LEMMA SeekPacketConversation ==
  ASSUME TypesInv, Conversation, SeekPacket
  PROVE  Conversation'
<1>1. /\ UNCHANGED <<nonStop, gdb, toGdb, server, history>> /\ server.pc = "getpkt"
      /\ toServer # <<>> /\ Head(toServer).t # "$" /\ toServer' = From(toServer, 1)
  BY Types DEF SeekPacket, linkVars, Consume
<1>2. /\ 1 \notin Frames(toServer) /\ 1 \in 0..Len(toServer)
      /\ 1 < Len(toServer) => toServer[1 + 1].t \notin {"body", "#"}
  BY <1>1, ServerHead
<1>3. /\ toServer' \in Seq(InToken) /\ Framed(toServer')
      /\ Shifted(Frames(toServer'), Frames(toServer), 1)
      /\ \A i \in Frames(toServer') : toServer'[i + 1] = toServer[(i + 1) + 1]
  BY <1>1, <1>2, LeftToServer
<1>4. /\ Frames(toServer') = {} <=> Frames(toServer) = {}
      /\ (\A i, j \in Frames(toServer) : i = j) => (\A i, j \in Frames(toServer') : i = j)
  <2>1. Frames(toServer) \subseteq Nat /\ \A j \in Frames(toServer) : j > 1
    BY <1>2, InGdb
  <2>2. /\ (\A j \in Frames(toServer) : j > 1) => (Frames(toServer') = {} <=> Frames(toServer) = {})
        /\ (\A i, j \in Frames(toServer) : i = j) => (\A i, j \in Frames(toServer') : i = j)
    BY <1>3, <2>1, Shifts
  <2> QED
    BY <2>1, <2>2
<1>5. Conversation
  OBVIOUS
<1>6. WholeInv'
  BY <1>1, <1>3, <1>5 DEF Conversation, WholeInv
<1>7. RequestInv'
  <2>1. \A i \in Frames(toServer') : toServer'[i + 1] = Body(gdb.n', gdb.kind')
    BY <1>1, <1>3, <1>5 DEF Conversation, RequestInv, Shifted
  <2> QED
    BY <1>1, <1>4, <1>5, <2>1 DEF Conversation, RequestInv, OnTheWay
<1>8. AnswerInv' /\ AckInv' /\ NoAckInv'
  BY <1>1, <1>4, <1>5 DEF Conversation, AnswerInv, AckInv, NoAckInv, OnTheWay, Pending, Now, Old, Acks
<1>9. AwaitInv' /\ HistoryInv'
  BY <1>1, <1>4, <1>5 DEF Conversation, AwaitInv, HistoryInv, OnTheWay
<1> QED
  BY <1>6, <1>7, <1>8, <1>9 DEF Conversation

(* What is put behind all that gdb is to read.                             *)
LEMMA AnswerBehind ==
  ASSUME TypesInv, Conversation, NEW a \in Nat, toGdb' = toGdb \o Answer(a), a <= gdb.n, gdb' = gdb
  PROVE  /\ toGdb' \in Seq(OutToken) /\ Framed(toGdb') /\ Numbers(toGdb', gdb.n') /\ Acks' = Acks
         /\ Now' = Now \cup (IF a = gdb.n THEN {Len(toGdb) + 1} ELSE {})
         /\ Old' = Old \cup (IF a = gdb.n THEN {} ELSE {Len(toGdb) + 1})
<1>1. toGdb \in Seq(OutToken) /\ Framed(toGdb) /\ gdb.n \in Nat /\ Numbers(toGdb, gdb.n)
  BY Types
<1> DEFINE r == toGdb \o Answer(a)
<1>2. /\ r \in Seq(OutToken) /\ Framed(r) /\ Pluses(r) = Pluses(toGdb) /\ Numbers(r, gdb.n)
      /\ Fresh(r, gdb.n) = Fresh(toGdb, gdb.n) \cup (IF a = gdb.n THEN {Len(toGdb) + 1} ELSE {})
      /\ Stale(r, gdb.n) = Stale(toGdb, gdb.n) \cup (IF a = gdb.n THEN {} ELSE {Len(toGdb) + 1})
  BY <1>1, Answering
<1> HIDE DEF r
<1>3. toGdb' = r
  BY DEF r
<1> QED
  BY <1>2, <1>3 DEF Now, Old, Acks

LEMMA PieceBehind ==
  ASSUME TypesInv, Conversation, NEW u \in Seq(OutToken), Framed(u), Frames(u) = {},
         toGdb' = toGdb \o u, gdb' = gdb
  PROVE  /\ toGdb' \in Seq(OutToken) /\ Framed(toGdb') /\ Numbers(toGdb', gdb.n')
         /\ Now' = Now /\ Old' = Old
         /\ Pluses(u) = {} => Acks' = Acks
         /\ Pluses(u) = {1} => Acks' = Acks \cup {Len(toGdb) + 1}
<1>1. toGdb \in Seq(OutToken) /\ Framed(toGdb) /\ gdb.n \in Nat /\ Numbers(toGdb, gdb.n)
  BY Types
<1> DEFINE r == toGdb \o u
<1>2. /\ r \in Seq(OutToken) /\ Framed(r) /\ Numbers(r, gdb.n)
      /\ Fresh(r, gdb.n) = Fresh(toGdb, gdb.n) /\ Stale(r, gdb.n) = Stale(toGdb, gdb.n)
      /\ Pluses(u) = {} => Pluses(r) = Pluses(toGdb)
      /\ Pluses(u) = {1} => Pluses(r) = Pluses(toGdb) \cup {Len(toGdb) + 1}
  BY <1>1, Appending
<1> HIDE DEF r
<1>3. toGdb' = r
  BY DEF r
<1> QED
  BY <1>2, <1>3 DEF Now, Old, Acks

LEMMA GetPacketConversation ==
  ASSUME TypesInv, Conversation, GetPacket
  PROVE  Conversation'
<1> DEFINE s == toServer
           i == First(Ends(s, {"#"}))
           rest == From(s, i)
           interrupts == CHOOSE k \in 0..Len(rest) :
                           /\ \A j \in 1..k : rest[j].t = "^C"
                           /\ k < Len(rest) => rest[k + 1].t # "^C"
<1>0. AnswerInv /\ AckInv /\ NoAckInv /\ RequestInv /\ AwaitInv /\ HistoryInv
  BY DEF Conversation
<1>1. /\ UNCHANGED <<nonStop, gdb, history>> /\ server.pc = "getpkt"
      /\ s # <<>> /\ Head(s).t = "$"
  BY DEF GetPacket, linkVars
<1>2. s \in Seq(InToken) /\ Framed(s) /\ Len(s) \in Nat /\ 1 \in Frames(s) /\ Head(s) = s[1]
  BY <1>1, Types, ServerHead
<1>3. /\ 3 \in 0..Len(s) /\ i = 3 /\ Intact(s, 3)
      /\ 3 < Len(s) => s[3 + 1].t \notin {"body", "#"}
  BY <1>1, <1>2, HeadFrame
<1>4. Frames(s) = {1} /\ s[2] = Body(gdb.n, gdb.kind) /\ OnTheWay
  <2>1. s[1 + 1] = Body(gdb.n, gdb.kind) /\ Frames(s) = {1}
    BY <1>0, <1>2 DEF RequestInv
  <2>2. 1 + 1 = 2
    OBVIOUS
  <2> QED
    BY <2>1, <2>2 DEF OnTheWay
<1>5. gdb.pc # "idle" /\ server.n < gdb.n /\ Now = {} /\ (server.noack => gdb.noack)
  BY <1>0, <1>4 DEF RequestInv, AnswerInv, NoAckInv, Pending
<1>6. /\ rest \in Seq(InToken) /\ Framed(rest) /\ Frames(rest) = {} /\ Len(rest) = Len(s) - 3
      /\ \A j \in 1..Len(rest) : rest[j] = s[j + 3]
  <2>1. rest \in Seq(InToken) /\ Len(rest) = Len(s) - 3 /\ \A j \in 1..Len(rest) : rest[j] = s[j + 3]
    BY <1>2, <1>3, FromElements
  <2>2. Framed(rest) /\ Shifted(Frames(rest), Frames(s), 3)
    BY <1>2, <1>3, FromFramed, FromParts, Types
  <2>3. Frames(rest) = {}
    BY <1>4, <2>2, Shifts
  <2> QED
    BY <2>1, <2>2, <2>3
<1>7. \A j \in 1..Len(rest) : rest[j] \in {Char("+"), Char("^C")}
  <2> HIDE DEF rest
  <2> QED
    BY <1>6, Plain
<1>8. interrupts \in 0..Len(rest)
  <2>1. rest \in Seq(Token)
    BY <1>3, FromIs DEF TypesInv, LinkInv
  <2> HIDE DEF rest
  <2>2. \E k \in 0..Len(rest) : /\ \A j \in 1..k : rest[j].t = "^C"
                                /\ k < Len(rest) => rest[k + 1].t # "^C"
    BY <2>1, RunIs
  <2> QED
    BY <2>2
<1>9. PICK k \in 0..interrupts :
        /\ s' = From(s, i + k)
        /\ server' = [server EXCEPT !.pc = "execute", !.n = s[2].n, !.kind = s[2].kind]
        /\ toGdb' = toGdb \o Acked(server.noack)
  <2>1. Intact(s, i)
    BY <1>3
  <2> QED
    BY <2>1 DEF GetPacket, Consume
<1> DEFINE m == 3 + k
<1>10. /\ m \in 0..Len(s) /\ s' = From(s, m)
       /\ m < Len(s) => s[m + 1].t \notin {"body", "#"}
  <2> HIDE DEF interrupts, rest, i
  <2>1. k \in Nat /\ k <= Len(rest) /\ m \in 0..Len(s)
    BY <1>2, <1>3, <1>6, <1>8
  <2>2. m < Len(s) => k + 1 \in 1..Len(rest) /\ (k + 1) + 3 = m + 1
    BY <1>2, <1>6, <2>1
  <2>3. m < Len(s) => s[m + 1] \in {Char("+"), Char("^C")}
    BY <1>6, <1>7, <2>2
  <2> QED
    BY <1>3, <1>9, <2>1, <2>3 DEF Char
<1>11. /\ server'.pc = "execute" /\ server'.n = gdb.n /\ server'.kind = gdb.kind /\ server'.noack = server.noack
  BY <1>4, <1>9, Types, TokenIs DEF ServerState
<1> HIDE DEF m, i, rest, interrupts
<1>12. s' \in Seq(InToken) /\ Framed(s') /\ Frames(s') = {}
  <2>1. s' \in Seq(InToken) /\ Framed(s') /\ Shifted(Frames(s'), Frames(s), m)
    BY <1>10, LeftToServer
  <2>2. m \in Nat /\ 1 <= m
    BY <1>8 DEF m
  <2>3. \A j \in Frames(s) : j <= m
    BY <1>4, <2>2
  <2> QED
    BY <1>4, <2>1, <2>2, <2>3, Shifts
<1>13. /\ toGdb' \in Seq(OutToken) /\ Framed(toGdb') /\ Numbers(toGdb', gdb.n')
       /\ Now' = Now /\ Old' = Old
       /\ Acks' = IF server.noack THEN Acks ELSE Acks \cup {Len(toGdb) + 1}
  <2>1. CASE server.noack
    <3>1. toGdb' = toGdb
      BY <1>9, <2>1, Types DEF Acked
    <3> QED
      BY <1>1, <2>1, <3>1, Types DEF Now, Old, Acks
  <2>2. CASE ~server.noack
    <3> DEFINE u == <<Char("+")>>
    <3>1. u \in Seq(OutToken) /\ Framed(u) /\ Frames(u) = {} /\ Pluses(u) = {1}
      BY CharIs
    <3>2. toGdb' = toGdb \o u
      BY <1>9, <2>2 DEF Acked
    <3> HIDE DEF u
    <3> QED
      BY <1>1, <2>2, <3>1, <3>2, PieceBehind
  <2> QED
    BY <2>1, <2>2
<1>14. WholeInv'
  BY <1>12, <1>13 DEF WholeInv
<1>15. RequestInv'
  BY <1>1, <1>11, <1>12 DEF RequestInv, OnTheWay
<1>16. AnswerInv'
  BY <1>1, <1>5, <1>11, <1>13 DEF AnswerInv, Pending, OnTheWay
<1>17. AckInv'
  <2>1. gdb.pc = "ack" => ~server.noack /\ Acks = {}
    BY <1>0, <1>4, <1>5 DEF AckInv, NoAckInv
  <2>2. gdb.pc = "answer" => server.noack
    BY <1>0, <1>4 DEF AckInv, NoAckInv
  <2>3. gdb.pc \in {"ack", "answer"}
    BY <1>5, Types DEF GdbState
  <2>4. \A j \in Old : j < Len(toGdb) + 1
    BY InGdb, Types
  <2> QED
    BY <1>0, <1>1, <1>5, <1>12, <1>13, <2>1, <2>2, <2>3, <2>4 DEF AckInv, OnTheWay
<1>18. NoAckInv'
  BY <1>0, <1>1, <1>5, <1>11, <1>12, <1>13 DEF NoAckInv, OnTheWay, Pending
<1>19. AwaitInv' /\ HistoryInv'
  BY <1>0, <1>1, <1>4, <1>11, <1>12 DEF AwaitInv, HistoryInv, OnTheWay
<1> QED
  BY <1>14, <1>15, <1>16, <1>17, <1>18, <1>19 DEF Conversation

LEMMA InputInterruptConversation ==
  ASSUME TypesInv, Conversation, InputInterrupt
  PROVE  Conversation'
<1>1. /\ UNCHANGED <<nonStop, gdb, toGdb, server, history>> /\ server.pc = "wait"
      /\ toServer' = toServer \/ \E i \in 1..Len(toServer) : toServer' = RemoveAt(toServer, i)
  <2>1. Len(toServer) > buffered => buffered + 1 \in 1..Len(toServer)
    BY Types
  <2> QED
    BY <2>1 DEF InputInterrupt, linkVars
<1>2. AnswerInv /\ AckInv /\ NoAckInv /\ RequestInv /\ AwaitInv /\ HistoryInv /\ WholeInv
  BY DEF Conversation
<1>3. Frames(toServer) = {}
  BY <1>1, <1>2 DEF RequestInv, OnTheWay
<1>4. toServer' \in Seq(InToken) /\ Framed(toServer') /\ Frames(toServer') = {}
  <2>1. CASE toServer' = toServer
    BY <1>3, <2>1, Types
  <2>2. ASSUME NEW i \in 1..Len(toServer), toServer' = RemoveAt(toServer, i)
        PROVE  toServer' \in Seq(InToken) /\ Framed(toServer') /\ Frames(toServer') = {}
    <3> DEFINE P == {Char("+"), Char("^C")}
               r == RemoveAt(toServer, i)
    <3>1. \A j \in 1..Len(toServer) : toServer[j] \in P
      BY <1>3, Plain, Types
    <3> HIDE DEF P
    <3>2. r \in Seq(InToken) /\ \A j \in 1..Len(r) : r[j] \in P
      BY <3>1, RemovedElements, RemoveAtIs, Types
    <3> HIDE DEF r
    <3>3. \A j \in 1..Len(r) : r[j] \in {Char("+"), Char("^C")}
      BY <3>2 DEF P
    <3>4. Framed(r) /\ Frames(r) = {}
      BY <3>2, <3>3, PlainFramed
    <3> QED
      BY <2>2, <3>2, <3>4 DEF r
  <2> QED
    BY <1>1, <2>1, <2>2
<1>5. WholeInv' /\ RequestInv'
  BY <1>1, <1>2, <1>3, <1>4 DEF WholeInv, RequestInv, OnTheWay
<1>6. AnswerInv' /\ AckInv' /\ NoAckInv'
  BY <1>1, <1>2, <1>3, <1>4 DEF AnswerInv, AckInv, NoAckInv, OnTheWay, Pending, Now, Old, Acks
<1>7. AwaitInv' /\ HistoryInv'
  BY <1>1, <1>2, <1>3, <1>4 DEF AwaitInv, HistoryInv, OnTheWay
<1> QED
  BY <1>5, <1>6, <1>7 DEF Conversation

(* An answer to the request that gdbserver has: after Execute, and after   *)
(* the program stopped.                                                    *)
LEMMA ReplyConversation ==
  ASSUME TypesInv, Conversation, server.pc \in {"execute", "wait"}, NEW noack \in BOOLEAN,
         noack <=> server.noack \/ server.kind = "noack",
         Reply(noack), UNCHANGED <<nonStop, gdb, toServer>>,
         history'.done = gdb.n, history'.times = 1, history'.taken = history.taken
  PROVE  Conversation'
<1>1. AnswerInv /\ AckInv /\ NoAckInv /\ RequestInv /\ AwaitInv /\ HistoryInv /\ WholeInv
  BY DEF Conversation
<1>2. /\ Frames(toServer) = {} /\ server.n = gdb.n /\ server.kind = gdb.kind
      /\ gdb.pc # "idle" /\ Now = {} /\ gdb.n \in Nat
  BY <1>1, Types DEF RequestInv, AnswerInv, OnTheWay, Pending
<1>3. /\ server'.pc = (IF noack THEN "select" ELSE "putpkt")
      /\ server'.noack = noack /\ server'.n = server.n /\ server'.kind = server.kind
      /\ toGdb' = toGdb \o Answer(gdb.n)
  BY <1>2, Types DEF Reply, ServerState
<1>4. /\ toGdb' \in Seq(OutToken) /\ Framed(toGdb') /\ Numbers(toGdb', gdb.n')
      /\ Acks' = Acks /\ Now' = {Len(toGdb) + 1} /\ Old' = Old
  <2>1. gdb.n <= gdb.n
    BY <1>2
  <2> QED
    BY <1>2, <1>3, <2>1, AnswerBehind
<1>5. WholeInv' /\ RequestInv'
  BY <1>1, <1>2, <1>3, <1>4 DEF WholeInv, RequestInv, OnTheWay
<1>6. AnswerInv'
  BY <1>2, <1>3, <1>4 DEF AnswerInv, Pending, OnTheWay
<1>7. AckInv'
  <2>1. \A p \in Acks : p < Len(toGdb) + 1
    BY InGdb, Types
  <2> QED
    BY <1>1, <1>2, <1>4, <2>1 DEF AckInv, OnTheWay
<1>8. NoAckInv'
  <2>1. server.noack => gdb.noack
    BY <1>1 DEF NoAckInv, Pending
  <2> QED
    BY <1>1, <1>2, <1>3, <1>4, <2>1 DEF NoAckInv, OnTheWay, Pending
<1>9. AwaitInv' /\ HistoryInv'
  BY <1>1, <1>2, <1>3, <1>4 DEF AwaitInv, HistoryInv, OnTheWay
<1> QED
  BY <1>5, <1>6, <1>7, <1>8, <1>9 DEF Conversation

LEMMA ExecuteConversation ==
  ASSUME TypesInv, Conversation, Execute
  PROVE  Conversation'
<1>1. AnswerInv /\ AckInv /\ NoAckInv /\ RequestInv /\ AwaitInv /\ HistoryInv /\ WholeInv
  BY DEF Conversation
<1>2. server.pc = "execute" /\ UNCHANGED <<nonStop, gdb, toServer>>
  BY DEF Execute, linkVars
<1>3. Frames(toServer) = {} /\ server.n = gdb.n /\ server.kind = gdb.kind /\ gdb.pc # "idle" /\ gdb.n \in Nat
  BY <1>1, <1>2, Types DEF RequestInv, AnswerInv, OnTheWay, Pending
<1>4. history'.done = gdb.n /\ history'.times = 1 /\ history'.taken = history.taken
  <2>1. history.times = 0
    BY <1>1, <1>2 DEF HistoryInv
  <2> QED
    BY <1>3, <2>1, Types DEF Execute, Executed, HistoryState
<1>5. CASE server.kind = "cont" /\ ~nonStop
  <2>1. /\ toGdb' = toGdb /\ server'.pc = "wait" /\ server'.noack = server.noack
        /\ server'.n = server.n /\ server'.kind = server.kind
    BY <1>5, Types DEF Execute, ServerState
  <2>2. WholeInv' /\ RequestInv'
    BY <1>1, <1>2, <1>3, <1>5, <2>1 DEF WholeInv, RequestInv, OnTheWay
  <2>3. AnswerInv' /\ AckInv' /\ NoAckInv'
    BY <1>1, <1>2, <1>3, <2>1 DEF AnswerInv, AckInv, NoAckInv, OnTheWay, Pending, Now, Old, Acks
  <2>4. AwaitInv' /\ HistoryInv'
    BY <1>1, <1>2, <1>3, <1>4, <2>1 DEF AwaitInv, HistoryInv, OnTheWay
  <2> QED
    BY <2>2, <2>3, <2>4 DEF Conversation
<1>6. CASE ~(server.kind = "cont" /\ ~nonStop)
  <2> DEFINE noack == server.noack \/ server.kind = "noack"
  <2>1. noack \in BOOLEAN /\ Reply(noack)
    BY <1>6 DEF Execute
  <2>2. noack <=> server.noack \/ server.kind = "noack"
    OBVIOUS
  <2> HIDE DEF noack
  <2> QED
    BY <1>2, <1>4, <2>1, <2>2, ReplyConversation
<1> QED
  BY <1>5, <1>6

LEMMA StopConversation ==
  ASSUME TypesInv, Conversation, NEW v \in BOOLEAN, Stop(v)
  PROVE  Conversation'
<1>1. RequestInv /\ HistoryInv /\ AnswerInv
  BY DEF Conversation
<1>2. server.pc = "wait" /\ UNCHANGED <<nonStop, gdb, toServer, history>>
  BY DEF Stop, linkVars
<1>3. server.kind = "cont" /\ ~OnTheWay /\ gdb.pc # "idle"
  BY <1>1, <1>2 DEF RequestInv, AnswerInv, Pending
<1>4. history'.done = gdb.n /\ history'.times = 1 /\ history'.taken = history.taken
  <2>1. history.taken = gdb.n - 1 /\ history.taken \in Nat /\ gdb.n \in Nat
    BY <1>1, <1>3, Types DEF HistoryInv, HistoryState
  <2>2. gdb.n > 0
    BY <2>1
  <2>3. history.times = 1 /\ history.done = gdb.n
    BY <1>1, <1>2, <1>3, <2>2 DEF HistoryInv
  <2> QED
    BY <1>2, <2>3
<1> DEFINE noack == server.noack
<1>5. noack \in BOOLEAN /\ Reply(noack) /\ (noack <=> server.noack \/ server.kind = "noack")
  BY <1>3, Types DEF Stop, ServerState
<1> HIDE DEF noack
<1> QED
  BY <1>2, <1>4, <1>5, ReplyConversation

LEMMA AwaitAckConversation ==
  ASSUME TypesInv, Conversation, AwaitAck
  PROVE  Conversation'
<1>1. AnswerInv /\ AckInv /\ NoAckInv /\ RequestInv /\ AwaitInv /\ HistoryInv /\ WholeInv
  BY DEF Conversation
<1> DEFINE c == Head(toServer).t
<1>2. /\ UNCHANGED <<nonStop, gdb, history>> /\ server.pc = "putpkt" /\ toServer # <<>>
      /\ toServer' = From(toServer, 1)
  BY DEF AwaitAck, linkVars, Consume
<1>3. /\ c \in {"$", "+", "^C"} /\ 1 \in 0..Len(toServer)
      /\ c = "$" <=> 1 \in Frames(toServer)
      /\ c = "+" <=> 1 \in Pluses(toServer)
      /\ c # "$" => (1 < Len(toServer) => toServer[1 + 1].t \notin {"body", "#"})
  BY <1>2, ServerHead
<1>4. /\ server'.pc = (IF c = "+" THEN "select" ELSE "putpkt")
      /\ server'.noack = server.noack /\ server'.n = server.n /\ server'.kind = server.kind
      /\ toGdb' = IF c = "+" THEN toGdb ELSE toGdb \o Answer(server.n)
  BY <1>2, Types DEF AwaitAck, ServerState
<1> HIDE DEF c
<1>5. Frames(toServer) \subseteq Nat \ {0} /\ Pluses(toServer) \subseteq Nat \ {0} /\ gdb.n \in Nat /\ server.n \in Nat
  BY InGdb, Types
<1>6. 1 \notin Frames(toServer)
  BY <1>1, <1>2, <1>5 DEF AwaitInv, OnTheWay
<1>7. /\ toServer' \in Seq(InToken) /\ Framed(toServer')
      /\ Shifted(Frames(toServer'), Frames(toServer), 1)
      /\ Shifted(Pluses(toServer'), Pluses(toServer), 1)
      /\ \A i \in Frames(toServer') : toServer'[i + 1] = toServer[(i + 1) + 1]
  BY <1>2, <1>3, <1>6, LeftToServer
<1>8. /\ Frames(toServer') = {} <=> Frames(toServer) = {}
      /\ (\A i, j \in Frames(toServer) : i = j) => (\A i, j \in Frames(toServer') : i = j)
  <2>1. Frames(toServer) \subseteq Nat /\ \A j \in Frames(toServer) : j > 1
    BY <1>5, <1>6
  <2>2. /\ (\A j \in Frames(toServer) : j > 1) => (Frames(toServer') = {} <=> Frames(toServer) = {})
        /\ (\A i, j \in Frames(toServer) : i = j) => (\A i, j \in Frames(toServer') : i = j)
    BY <1>7, <2>1, Shifts
  <2> QED
    BY <2>1, <2>2
<1>9. server.n <= gdb.n /\ ~server.noack /\ ~gdb.noack
      /\ (OnTheWay => gdb.pc = "ack" /\ Acks = {} /\ server.n # gdb.n)
      /\ (~OnTheWay => server.n = gdb.n)
  <2>1. ~server.noack /\ ~gdb.noack
    BY <1>1, <1>2 DEF NoAckInv
  <2>2. OnTheWay => gdb.pc = "ack"
    BY <1>1, <2>1, Types DEF RequestInv, AckInv, GdbState
  <2> QED
    BY <1>1, <1>5, <2>1, <2>2 DEF RequestInv, AckInv
<1>10. /\ toGdb' \in Seq(OutToken) /\ Framed(toGdb') /\ Numbers(toGdb', gdb.n') /\ Acks' = Acks
       /\ Now' = Now \cup (IF c # "+" /\ ~OnTheWay THEN {Len(toGdb) + 1} ELSE {})
       /\ Old' = Old \cup (IF c # "+" /\ OnTheWay THEN {Len(toGdb) + 1} ELSE {})
  <2>1. CASE c = "+"
    <3>1. toGdb' = toGdb /\ gdb' = gdb
      BY <1>2, <1>4, <2>1
    <3>2. /\ toGdb' \in Seq(OutToken) /\ Framed(toGdb') /\ Numbers(toGdb', gdb.n')
          /\ Now' = Now /\ Old' = Old /\ Acks' = Acks
      BY <3>1, Types DEF Now, Old, Acks
    <3> QED
      BY <2>1, <3>2
  <2>2. CASE c # "+"
    <3>1. toGdb' = toGdb \o Answer(server.n) /\ gdb' = gdb
      BY <1>2, <1>4, <2>2
    <3>2. /\ toGdb' \in Seq(OutToken) /\ Framed(toGdb') /\ Numbers(toGdb', gdb.n') /\ Acks' = Acks
          /\ Now' = Now \cup (IF server.n = gdb.n THEN {Len(toGdb) + 1} ELSE {})
          /\ Old' = Old \cup (IF server.n = gdb.n THEN {} ELSE {Len(toGdb) + 1})
      BY <1>5, <1>9, <3>1, AnswerBehind
    <3> QED
      BY <1>9, <2>2, <3>2
  <2> QED
    BY <2>1, <2>2
<1>11. WholeInv'
  BY <1>7, <1>10 DEF WholeInv
<1>12. RequestInv'
  <2>1. \A i \in Frames(toServer') : toServer'[i + 1] = Body(gdb.n', gdb.kind')
    BY <1>1, <1>2, <1>7 DEF RequestInv, Shifted
  <2> QED
    BY <1>1, <1>2, <1>4, <1>8, <2>1 DEF RequestInv, OnTheWay
<1>13. AnswerInv'
  BY <1>1, <1>2, <1>4, <1>8, <1>10 DEF AnswerInv, OnTheWay, Pending
<1>14. AckInv'
  <2>1. \A p \in Acks : p < Len(toGdb) + 1
    BY InGdb, Types
  <2>2. gdb.pc = "answer" => Old' = {}
    BY <1>1, <1>9, <1>10 DEF AckInv
  <2>3. OnTheWay' <=> OnTheWay
    BY <1>8 DEF OnTheWay
  <2>4. \A p \in Acks' : (\A i \in Now' : p < i) /\ (\A i \in Old' : i < p) /\ (\A q \in Acks' : p = q)
    BY <1>1, <1>9, <1>10, <2>1 DEF AckInv
  <2> QED
    BY <1>1, <1>2, <1>10, <2>2, <2>3, <2>4 DEF AckInv
<1>15. NoAckInv'
  BY <1>2, <1>4, <1>9 DEF NoAckInv
<1>16. AwaitInv'
  <2>1. SUFFICES ASSUME server'.pc = "putpkt", gdb'.pc = "idle" \/ OnTheWay'
                 PROVE  \E p \in Pluses(toServer') : \A i \in Frames(toServer') : p < i
    BY DEF AwaitInv
  <2>2. c # "+" /\ (gdb.pc = "idle" \/ OnTheWay)
    BY <1>2, <1>4, <1>8, <2>1 DEF OnTheWay
  <2>3. PICK p \in Pluses(toServer) : \A i \in Frames(toServer) : p < i
    BY <1>1, <1>2, <2>2 DEF AwaitInv
  <2>4. p \in Nat /\ p > 1
    BY <1>3, <1>5, <2>2, <2>3
  <2>5. p - 1 \in Pluses(toServer') /\ \A i \in Frames(toServer') : p - 1 < i
    BY <1>7, <2>3, <2>4 DEF Shifted
  <2> QED
    BY <2>5
<1>17. HistoryInv'
  BY <1>1, <1>2, <1>4, <1>8 DEF HistoryInv, OnTheWay
<1> QED
  BY <1>11, <1>12, <1>13, <1>14, <1>15, <1>16, <1>17 DEF Conversation

LEMMA NotifyConversation ==
  ASSUME TypesInv, Conversation, Notify
  PROVE  Conversation'
<1>1. UNCHANGED <<nonStop, gdb, toServer, server, history>> /\ toGdb' = toGdb \o Packet("%", 0, "stop")
  BY DEF Notify, linkVars
<1> DEFINE u == Packet("%", 0, "stop")
<1>2. u \in Seq(OutToken) /\ Framed(u) /\ Frames(u) = {} /\ Pluses(u) = {}
  BY PacketParts
<1> HIDE DEF u
<1>3. /\ toGdb' \in Seq(OutToken) /\ Framed(toGdb') /\ Numbers(toGdb', gdb.n')
      /\ Now' = Now /\ Old' = Old /\ Acks' = Acks
  <2>1. toGdb' = toGdb \o u /\ gdb' = gdb
    BY <1>1 DEF u
  <2> QED
    BY <1>2, <2>1, PieceBehind
<1>4. Conversation
  OBVIOUS
<1>5. WholeInv' /\ RequestInv'
  BY <1>1, <1>3, <1>4 DEF Conversation, WholeInv, RequestInv, OnTheWay
<1>6. AnswerInv' /\ AckInv' /\ NoAckInv'
  BY <1>1, <1>3, <1>4 DEF Conversation, AnswerInv, AckInv, NoAckInv, OnTheWay, Pending
<1>7. AwaitInv' /\ HistoryInv'
  BY <1>1, <1>4 DEF Conversation, AwaitInv, HistoryInv, OnTheWay
<1> QED
  BY <1>5, <1>6, <1>7 DEF Conversation

-----------------------------------------------------------------------------
(* All steps, with their types.                                            *)

LEMMA SentTypes ==
  ASSUME sent \in SentState, [Next]_vars
  PROVE  sent' \in SentState /\ (sent'.faults = 0 => sent.faults = 0)
<1>1. /\ sent.faults + 1 \in Nat \ {0} /\ sent.interrupts + 1 \in Nat /\ sent.notifs + 1 \in Nat
      /\ sent.handled + 1 \in Nat
  BY DEF SentState
<1> DEFINE handled(i) == IF Intact(toGdb, i) THEN sent.handled + 1 ELSE sent.handled
<1>2. sent' \in { sent, [sent EXCEPT !.faults = sent.faults + 1],
                  [sent EXCEPT !.interrupts = sent.interrupts + 1], [sent EXCEPT !.notifs = sent.notifs + 1] }
      \/ \E i : Notified(i)
  <2>1. Gdb => sent' = sent \/ \E i : Notified(i)
    BY DEF Gdb, ReadAck, ReadAnswer, TimeOut, Resend, SkipFrame, Retry, TakeAnswer
  <2>2. Server \/ Stop(FALSE) \/ (\E k \in Kinds : Send(k)) \/ UNCHANGED vars => sent' = sent
    BY DEF Server, Wake, SeekPacket, GetPacket, InputInterrupt, Execute, AwaitAck, Stop, Send, vars
  <2>3. Interrupt => sent' = [sent EXCEPT !.interrupts = sent.interrupts + 1]
    BY DEF Interrupt
  <2>4. Notify => sent' = [sent EXCEPT !.notifs = sent.notifs + 1]
    BY DEF Notify
  <2>5. Lose => sent' = [sent EXCEPT !.faults = sent.faults + 1]
    BY DEF Lose
  <2> QED
    BY <2>1, <2>2, <2>3, <2>4, <2>5 DEF Next, User
<1>3. ASSUME NEW i, Notified(i) PROVE sent' \in SentState /\ sent'.faults = sent.faults
  BY <1>1, <1>3 DEF Notified, SentState
<1> QED
  BY <1>1, <1>2, <1>3 DEF SentState

(* Every step that loses nothing, with what was done and taken.            *)
Taking == history' = [history EXCEPT !.taken = gdb.n]

LEMMA TakenIs ==
  ASSUME TypesInv, Conversation, ReadAnswer
  PROVE  \/ UNCHANGED history /\ gdb'.n = gdb.n /\ gdb'.pc = gdb.pc
         \/ Taking /\ gdb.pc = "answer" /\ gdb'.pc = "idle" /\ gdb'.n = gdb.n /\ ~Pending
<1> DEFINE c == Head(toGdb).t
           E == {"#", "$"}
<1>1. gdb.pc \in {"answer", "idle"} /\ toGdb # <<>> /\ E \in {{"#"}, {"#", "$"}}
  BY DEF ReadAnswer, Reading
<1>2. AnswerInv /\ AckInv
  BY DEF Conversation
<1>3. /\ c \in {"$", "%", "+"} /\ (c = "+" => 1 \in Acks)
      /\ c = "$" => 1 \in Now \/ 1 \in Old
      /\ c \in {"$", "%"} => First(Ends(toGdb, E)) = 3 /\ Intact(toGdb, 3)
      /\ 1 \in Now => c = "$" /\ toGdb[2].n = gdb.n
  BY <1>1, GdbHead
<1>4. c \in {"$", "%"}
  BY <1>1, <1>2, <1>3 DEF AckInv
<1>5. /\ c = "$" => TakeAnswer(toGdb[2].n, From(toGdb, 3))
      /\ c = "%" => UNCHANGED history /\ gdb' = [gdb EXCEPT !.tries = 0]
  BY <1>3, <1>4 DEF ReadAnswer
<1>6. c = "$" /\ gdb.pc = "answer" => toGdb[2].n = gdb.n /\ ~Pending
  BY <1>2, <1>3 DEF AckInv, AnswerInv
<1>7. gdb \in GdbState
  BY Types
<1> QED
  BY <1>1, <1>4, <1>5, <1>6, <1>7 DEF TakeAnswer, Taking, GdbState

(* gdb does not try anything twice.                                        *)
LEMMA TriedOnce ==
  ASSUME TypesInv, Conversation, gdb.tries = 0, [Next]_vars
  PROVE  gdb'.tries = 0
<1>1. gdb \in GdbState
  BY Types
<1>2. CASE ReadAck
  <2> DEFINE c == Head(toGdb).t
             E == IF c = "$" THEN {"#"} ELSE {"#", "$"}
  <2>1. toGdb # <<>> /\ E \in {{"#"}, {"#", "$"}}
    BY <1>2 DEF ReadAck
  <2>2. c \in {"$", "%", "+"}
    BY <2>1, GdbHead
  <2> QED
    BY <1>1, <1>2, <2>2 DEF ReadAck, SkipFrame, GdbState
<1>3. CASE ReadAnswer
  <2> DEFINE c == Head(toGdb).t
             E == {"#", "$"}
  <2>1. toGdb # <<>> /\ E \in {{"#"}, {"#", "$"}}
    BY <1>3 DEF ReadAnswer
  <2>2. c \in {"$", "%", "+"} /\ (c \in {"$", "%"} => Intact(toGdb, First(Ends(toGdb, E))))
    BY <2>1, GdbHead
  <2> QED
    BY <1>1, <1>3, <2>2 DEF ReadAnswer, TakeAnswer, GdbState
<1>4. ASSUME NEW k \in Kinds, Send(k) PROVE gdb'.tries = 0
  BY <1>1, <1>4 DEF Send, GdbState
<1>5. Server \/ Stop(FALSE) \/ Interrupt \/ Notify \/ Lose \/ UNCHANGED vars => gdb' = gdb
  BY DEF Server, Wake, SeekPacket, GetPacket, InputInterrupt, Execute, AwaitAck, Stop, Interrupt, Notify, Lose, vars
<1> QED
  BY <1>2, <1>3, <1>4, <1>5, NoTimeOut DEF Next, Gdb, User

LEMMA Lossless ==
  ASSUME TypesInv, Conversation, gdb.tries = 0, sent'.faults = 0, [Next]_vars
  PROVE  /\ Conversation' /\ history' \in HistoryState
         /\ Channel!Next \/ UNCHANGED Channel!vars
<1>1. /\ history \in HistoryState /\ sent \in SentState /\ gdb \in GdbState /\ gdb.n \in Nat /\ server.n \in Nat
      /\ server \in ServerState
  BY Types
<1>2. AnswerInv /\ AckInv /\ NoAckInv /\ RequestInv /\ AwaitInv /\ HistoryInv
  BY DEF Conversation
<1>3. ASSUME NEW k \in Kinds, Send(k)
      PROVE  history' \in HistoryState /\ Channel!Ask
  BY <1>1, <1>3 DEF Send, HistoryState, GdbState, Channel!Ask
<1>4. CASE ReadAnswer
  <2>1. CASE UNCHANGED history /\ gdb'.n = gdb.n /\ gdb'.pc = gdb.pc
    <3>1. (gdb'.pc # "idle") = (gdb.pc # "idle") /\ history' \in HistoryState
      BY <1>1, <2>1
    <3>2. UNCHANGED Channel!vars
      BY <2>1, <3>1 DEF Channel!vars
    <3> QED
      BY <1>4, <3>1, <3>2, ReadAnswerConversation
  <2>2. CASE Taking /\ gdb.pc = "answer" /\ gdb'.pc = "idle" /\ gdb'.n = gdb.n /\ ~Pending
    <3>1. history.taken = gdb.n - 1 /\ history.taken \in Nat
      BY <1>1, <1>2, <2>2 DEF HistoryInv, HistoryState
    <3>2. gdb.n > 0 /\ history.done = gdb.n
      BY <1>1, <1>2, <2>2, <3>1 DEF HistoryInv, Pending
    <3>3. history' \in HistoryState /\ history'.taken = gdb.n /\ history'.done = history.done
      BY <1>1, <2>2 DEF Taking, HistoryState
    <3>4. Channel!Take
      BY <2>2, <3>2, <3>3 DEF Channel!Take
    <3> QED
      BY <1>4, <3>3, <3>4, ReadAnswerConversation DEF Channel!Next
  <2> QED
    BY <1>4, <2>1, <2>2, TakenIs, ReadAnswerConversation
<1>5. CASE Execute
  <2>1. server.n = gdb.n /\ gdb.pc # "idle" /\ history.times = 0
    BY <1>2, <1>5 DEF Execute, RequestInv, AnswerInv, HistoryInv, Pending
  <2>2. history' \in HistoryState /\ history'.done = gdb.n /\ history'.taken = history.taken /\ gdb' = gdb
    <3>1. history' = [[history EXCEPT !.done = gdb.n] EXCEPT !.times = 1] /\ gdb' = gdb
      BY <1>5, <2>1 DEF Execute, Executed
    <3> QED
      BY <1>1, <3>1 DEF HistoryState
  <2>3. Channel!Do
    BY <2>1, <2>2 DEF Channel!Do
  <2> QED
    BY <1>5, <2>2, <2>3, ExecuteConversation DEF Channel!Next
<1>6. CASE ReadAck
  <2>1. gdb'.n = gdb.n /\ gdb'.pc # "idle" /\ gdb.pc = "ack" /\ history' = history
    BY <1>1, <1>6 DEF ReadAck, Resend, SkipFrame, GdbState
  <2> QED
    BY <1>1, <1>6, <2>1, ReadAckConversation DEF Channel!vars
<1>7. CASE Interrupt
  <2>1. /\ gdb' = gdb /\ history' \in HistoryState
        /\ history'.done = history.done /\ history'.taken = history.taken
    BY <1>1, <1>7 DEF Interrupt, HistoryState
  <2> QED
    BY <1>7, <2>1, InterruptConversation DEF Channel!vars
<1>8. CASE Wake \/ SeekPacket \/ GetPacket \/ InputInterrupt \/ AwaitAck \/ Stop(TRUE) \/ Stop(FALSE) \/ Notify
  <2>1. gdb' = gdb /\ history' = history
    BY <1>8 DEF Wake, SeekPacket, GetPacket, InputInterrupt, AwaitAck, Stop, Notify
  <2>2. Conversation'
    BY <1>8, WakeConversation, SeekPacketConversation, GetPacketConversation, InputInterruptConversation,
       AwaitAckConversation, StopConversation, NotifyConversation
  <2> QED
    BY <1>1, <2>1, <2>2 DEF Channel!vars
<1>9. CASE UNCHANGED vars
  <2>1. UNCHANGED <<nonStop, gdb, toGdb, toServer, server, history>>
    BY <1>9 DEF vars
  <2>2. Conversation' = Conversation
    BY <2>1 DEF Conversation, WholeInv, RequestInv, AnswerInv, AckInv, NoAckInv, AwaitInv, HistoryInv,
                Now, Old, Acks, OnTheWay, Pending
  <2> QED
    BY <1>1, <2>1, <2>2 DEF Channel!vars
<1>10. ~Lose
  BY <1>1 DEF Lose, SentState
<1> QED
  BY <1>3, <1>4, <1>5, <1>6, <1>7, <1>8, <1>9, <1>10, NoTimeOut, SendConversation
  DEF Next, Gdb, Server, User, Channel!Next

LEMMA LosslessStep ==
  ASSUME LosslessInv, [Next]_vars
  PROVE  LosslessInv' /\ (sent'.faults = 0 => Channel!Next \/ UNCHANGED Channel!vars)
<1>1. LinkInv' /\ sent' \in SentState /\ (sent'.faults = 0 => sent.faults = 0)
  BY LinkStep, SentTypes DEF LosslessInv
<1>2. ASSUME sent'.faults = 0
      PROVE  /\ TypesInv' /\ Conversation' /\ gdb'.tries = 0
             /\ Channel!Next \/ UNCHANGED Channel!vars
  BY <1>1, <1>2, Lossless, TriedOnce DEF LosslessInv, TypesInv
<1> QED
  BY <1>1, <1>2 DEF LosslessInv

LEMMA InitLossless == Init => LosslessInv /\ Channel!Init
<1> SUFFICES ASSUME Init PROVE LosslessInv /\ Channel!Init
  OBVIOUS
<1>1. /\ gdb = [pc |-> "idle", n |-> 0, kind |-> "query", tries |-> 0, noack |-> FALSE]
      /\ toServer = <<>> /\ toGdb = <<>>
      /\ server = [pc |-> "select", n |-> 0, kind |-> "query", noack |-> FALSE]
      /\ sent = [faults |-> 0, interrupts |-> 0, notifs |-> 0, handled |-> 0]
      /\ history = [done |-> 0, times |-> 0, taken |-> 0, interrupted |-> FALSE]
  BY DEF Init
<1>2. LinkInv /\ sent \in SentState /\ history \in HistoryState
  BY <1>1, InitLinkInv DEF SentState, HistoryState
<1>3. /\ <<>> \in Seq(InToken) /\ <<>> \in Seq(OutToken) /\ Framed(<<>>)
      /\ Frames(<<>>) = {} /\ Pluses(<<>>) = {}
  BY DEF Framed, Frames, Pluses
<1>4. Now = {} /\ Old = {} /\ Acks = {} /\ ~OnTheWay /\ Numbers(toGdb, gdb.n)
  BY <1>1, <1>3 DEF Now, Old, Acks, OnTheWay, Fresh, Stale, Numbers
<1>5. Conversation
  BY <1>1, <1>3, <1>4 DEF Conversation, WholeInv, RequestInv, AnswerInv, AckInv, NoAckInv, AwaitInv, HistoryInv,
                          OnTheWay, Pending
<1>6. Channel!Init
  BY <1>1 DEF Channel!Init
<1> QED
  BY <1>1, <1>2, <1>5, <1>6 DEF LosslessInv, TypesInv

(* Without losses gdbserver does no request twice.  Every retransmission   *)
(* has its reason in the conversation: putpkt of gdbserver answers again   *)
(* whatever interrupt it meets in the place of an acknowledgement, and gdb *)
(* skips packets where it expects one; so stale answers pile up, for any   *)
(* number of interrupts.  Yet no request is sent again, since its          *)
(* acknowledgement always comes, behind all that is stale.                 *)
THEOREM DoneOnceCorrect == Spec => []DoneOnce
<1>1. LosslessInv => DoneOnce
  BY DEF LosslessInv, DoneOnce, Conversation, HistoryInv
<1> QED
  BY <1>1, InitLossless, LosslessStep, PTL DEF Spec

(* Without losses gdb and gdbserver implement the exchange of requests and *)
(* answers that both take the link for: gdb takes the answer to its last   *)
(* request, after gdbserver has done it, and nothing else.                 *)
THEOREM ReliableWithoutLosses ==
  Spec => Channel!Init /\ [][sent'.faults = 0 => Channel!Next]_(Channel!vars)
<1>1. LosslessInv /\ [Next]_vars => [sent'.faults = 0 => Channel!Next]_(Channel!vars)
  BY LosslessStep
<1>2. LosslessInv /\ [Next]_vars => LosslessInv'
  BY LosslessStep
<1>3. Init => LosslessInv /\ Channel!Init
  BY InitLossless
<1> QED
  BY <1>1, <1>2, <1>3, PTL DEF Spec
=============================================================================
