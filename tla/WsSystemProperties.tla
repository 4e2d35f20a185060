------------------------- MODULE WsSystemProperties -------------------------
(***************************************************************************)
(* What the two ends of a connection promise together.                     *)
(***************************************************************************)
EXTENDS WsSystem

(* The frames of call c that have reached the client: those its caller     *)
(* took, those in its receive channel, and the one being delivered.        *)
Reached(c) ==
  {[n |-> cRecvCh[c][k].n, kind |-> cRecvCh[c][k].kind] : k \in DOMAIN cRecvCh[c]}
  \union {[n |-> cReader.n, kind |-> cReader.kind] : d \in {c} \cap {cReader.call}}

(* FramesFaithful: what a call takes from the connection is what its own   *)
(* session answered, from the first frame on and in that order: messages,  *)
(* and last the one frame that ends it, which is the handler's -- or the   *)
(* refusal of a server that is full.  It is never an error about a session *)
(* the server has already forgotten, however late the call's frames reach  *)
(* it, unless the server is going away (client.go:132, server.go:478,      *)
(* 502; the id of a call is never another call's, client.go:97).           *)
FramesFaithful ==
  \A c \in Calls :
    /\ \A f \in Reached(c) : f.n \in DOMAIN answers[c] /\ f.kind = answers[c][f.n].kind
    /\ \A k \in DOMAIN cGot[c] :
         /\ cGot[c][k] = k
         /\ k < Len(cGot[c]) => answers[c][k].kind = "message"
         /\ answers[c][k].cause \in {"handler", "unavailable"} \/ sCtx = "done"

-----------------------------------------------------------------------------
(* The work of call c: the sessions opened under its id, each an attempt   *)
(* to carry it out.  A unary or server-stream session has answered only if *)
(* its handler ran on the whole request; the handlers of the other shapes  *)
(* decide how much of theirs they read.                                    *)
SessionsOf(c) == {s \in Sess : sPc[s] # "new" /\ idOf[s] = c}

Ended(s) == sPc[s] \in {"delete", "release", "done"}

Answered(s) ==
  /\ replied[s] # <<>> /\ Head(replied[s]) = "message"
  /\ shape[s] \in S!OneRequest => sGot[s] = <<1>>

HasAnswer(c) == \E s \in SessionsOf(c) : Answered(s)

Fate(s) ==
  IF Answered(s) THEN "answered" ELSE IF Ended(s) THEN "failed" ELSE "begun"

Work(c) == [s \in SessionsOf(c) |-> Fate(s)]

Status(c) ==
  IF cPc[c] = "idle" THEN "idle"
  ELSE IF result[c] = "none" THEN "pending"
  ELSE IF result[c] = "ok" THEN "ok"
  ELSE "failed"

Remote == INSTANCE RemoteCalls WITH
  Attempts <- Sess,
  status   <- [c \in Calls |-> Status(c)],
  work     <- [c \in Calls |-> Work(c)]

(* ImplementsCalls: client and server together carry out every call at     *)
(* most once -- a second session under its id, however the first one       *)
(* ended, is no step of RemoteCalls -- and a caller gets a result only     *)
(* when the call's handler answered, on the whole request where the call   *)
(* has a single one, whatever is lost, cancelled or refused on the way     *)
(* (call.go:10-101, server.go:56-255).                                     *)
ImplementsCalls == Remote!Spec

-----------------------------------------------------------------------------
Waiting(c) ==
  /\ cPc[c] \in {"opening", "finishing", "recv", "cancelling"}
  /\ ShapeOf[c] = "bidi" => cPc[c] = "opening" \/ "close" \in Range(queued[c])

(* The client's read loop waits for room in the channel of a call whose    *)
(* frames nobody takes: the call is over or still sending, or its stream   *)
(* is closed (client.go:138).                                              *)
Unread(c) ==
  /\ cPc[c] # "recv"
  /\ ShapeOf[c] \in C!Receives => closing[c] # "no" \/ result[c] # "none"
HeldUp ==
  /\ cCtx = "live" /\ cReader.at = "deliver"
  /\ ~C!HasRoom(cReader.call) /\ Unread(cReader.call)

(* CallsReturn: a call whose request is complete gets its outcome,         *)
(* whatever breaks, unless the client's read loop is held up for ever by a *)
(* call that nobody reads (LoopsEndAfterClose, SendReturns): apart from    *)
(* that loop no step at either end waits for one that waits for it.  (The  *)
(* next message of a server stream may never come; a call made after the   *)
(* connection has gone is promised nothing: CallAfterCloseEnds.)           *)
CallsReturn ==
  \A c \in Calls :
    ShapeOf[c] # "server_stream" =>
      (Waiting(c) ~> ~Waiting(c) \/ c \in orphans \/ []HeldUp)

(* The client's read loop is blocked on a frame for a stream that its user *)
(* has closed (LoopsEndAfterClose).                                        *)
StuckOn(c) ==
  cReader.at = "deliver" /\ cReader.call = c /\ c \notin cTable /\ Len(cRecvCh[c]) = RecvCap

(* CloseReleasesHandler: closing a server stream frees its session at the  *)
(* server: the cancel frame gets there, the handler is told, and its slot  *)
(* is given back -- whether the stream was refused, is over, or its frames *)
(* are still under way.  Only a read loop already stuck on the stream's    *)
(* own frames keeps it (client_stream.go:68, server.go:542).               *)
CloseReleasesHandler ==
  \A c \in Calls :
    ShapeOf[c] = "server_stream" =>
      (closing[c] = "done" ~>
        (\A s \in SessionsOf(c) : sPc[s] = "done") \/ StuckOn(c) \/ c \in orphans)

(* SendReturns: the Send of a client stream transmits a message, and       *)
(* CloseAndReceive returns the response (TODO.md:257-258), when handlers   *)
(* return and users go on.                                                 *)
SendReturns == \A c \in Calls : snd[c] # <<>> ~> snd[c] = <<>>
-----------------------------------------------------------------------------
(* The inductive invariant behind ImplementsCalls.                         *)

Request  == [call : Calls, kind : C!Out]
Response == [id : Calls, kind : S!Kinds]

(* What is under way was written by one of the two programs.               *)
NetOK ==
  /\ c2s \in Seq(Request) /\ s2c \in Seq(Response)
  /\ sWriter.at = "writing" => sWriter.frame \in Response

(* Where the open frame of call c is: in the write channel, in the hands   *)
(* of the write loop, under way, or in those of the server's read loop.    *)
Open(c)       == [call |-> c, kind |-> "open"]
OpenQueued(c) == Open(c) \in Range(cWriteCh)
OpenHeld(c)   == cWriter.at = "writing" /\ cWriter.call = c /\ cWriter.kind = "open"
OpenSent(c)   == Open(c) \in Range(c2s)
Starting(c)   == sReader.at = "start" /\ sReader.id = c

AtMostOne(q, f) == \A k, l \in DOMAIN q : q[k] = f /\ q[l] = f => k = l

(* A call sends its open frame first and once, so that it is in one place  *)
(* at most, and gone from all of them when the call has a session, of      *)
(* which there is then only one.                                           *)
OpenOnce(c) ==
  /\ cPc[c] = "idle" => queued[c] = <<>>
  /\ \A k \in DOMAIN snd[c] : snd[c][k] = "open" => k = 1 /\ queued[c] = <<>>
  /\ queued[c] = <<>> => ~OpenQueued(c) /\ ~OpenHeld(c) /\ c \notin opened
  /\ AtMostOne(cWriteCh, Open(c))
  /\ OpenQueued(c) => ~OpenHeld(c) /\ c \notin opened
  /\ OpenHeld(c) => c \notin opened
  /\ c \notin opened => ~OpenSent(c) /\ ~Starting(c) /\ SessionsOf(c) = {}
  /\ AtMostOne(c2s, Open(c))
  /\ OpenSent(c) => ~Starting(c) /\ SessionsOf(c) = {}
  /\ Starting(c) => SessionsOf(c) = {}
  /\ \A s, t \in SessionsOf(c) : s = t
OpensOnce == \A c \in Calls : OpenOnce(c)

(* A message for call c is queued, being written, under way, being         *)
(* delivered or in the call's receive channel.                             *)
Message(c) == [id |-> c, kind |-> "message"]
MessageQueued(c) ==
  \/ Message(c) \in Range(sWriteCh)
  \/ sWriter.at = "writing" /\ sWriter.frame = Message(c)
MessageSent(c) == Message(c) \in Range(s2c)
MessageRead(c) ==
  \/ cReader.at = "deliver" /\ cReader.call = c /\ cReader.kind = "message"
  \/ \E f \in Range(cRecvCh[c]) : f.kind = "message"

(* Whatever message is on its way to a call, the call's handler answered.  *)
MessagesAnswered ==
  \A c \in Calls : MessageQueued(c) \/ MessageSent(c) \/ MessageRead(c) => HasAnswer(c)

(* With the invariants of the two ends, every step preserves these         *)
(* (client.go:97, call.go:10-101, server.go:394-487).                      *)
SysInv == NetOK /\ OpensOnce /\ MessagesAnswered
-----------------------------------------------------------------------------
(* The inductive invariant behind FramesFaithful.                          *)

Answer    == [kind : S!Kinds, cause : {"handler", "unavailable", "session_not_found"}]
AnswersOK == answers \in [Calls -> Seq(Answer)]

(* A call puts its open frame into the write channel before any other.     *)
QueuesOpenFirst(c) ==
  /\ snd[c] # <<>> /\ Head(snd[c]) # "open" => queued[c] # <<>>
  /\ cPc[c] \in {"stream", "finishing", "recv", "cancelling"} => queued[c] # <<>>
  /\ closing[c] = "removed" => queued[c] # <<>>

QueuesOpen == \A c \in Calls : QueuesOpenFirst(c)

(* So no frame of a call is ahead of its open frame anywhere: not in the   *)
(* channel while there is a write loop to empty it, ...                    *)
OpenAhead ==
  /\ \A c \in Calls :
       queued[c] # <<>> => cWriter.at = "done" \/ OpenQueued(c) \/ OpenHeld(c) \/ c \in opened
  /\ \A k \in DOMAIN cWriteCh :
       \/ cWriter.at = "done" \/ OpenHeld(cWriteCh[k].call) \/ cWriteCh[k].call \in opened
       \/ \E j \in 1 .. k : cWriteCh[j] = Open(cWriteCh[k].call)
  /\ cWriter.at = "writing" => cWriter.kind = "open" \/ cWriter.call \in opened

(* ... and not under way.                                                  *)
OpenSentAhead ==
  /\ \A k \in DOMAIN c2s : c2s[k].call \in opened
  /\ \A j, k \in DOMAIN c2s : c2s[j] = Open(c2s[k].call) => j <= k

OpenFirst == QueuesOpen /\ OpenAhead /\ OpenSentAhead

(* The server has refused call c, or is about to, or going away.           *)
Refused(c) ==
  \/ sReader.at = "write" /\ sReader.id = c /\ sReader.code = "unavailable"
  \/ \E k \in DOMAIN answers[c] : answers[c][k].kind = "error"
  \/ sCtx = "done"

(* Once its open frame has been read, a call has a session or is refused;  *)
(* and only then may the server say that it knows no session of the call.  *)
OpensHandled ==
  /\ \A c \in opened : OpenSent(c) \/ Starting(c) \/ SessionsOf(c) # {} \/ Refused(c)
  /\ sReader.at = "write" =>
       \/ sReader.code = "unavailable"
       \/ /\ sReader.code = "session_not_found"
          /\ sReader.id \in opened /\ ~OpenSent(sReader.id)

(* It says so after the frame that ended the call.                         *)
EndsIn(c, n) == \E k \in 1 .. n : answers[c][k].kind \in S!Terminal
UnknownLast ==
  /\ \A s \in Sess :
       sPc[s] # "new" /\ replied[s] # <<>> /\ Last(replied[s]) \in S!Terminal =>
         EndsIn(idOf[s], Len(answers[idOf[s]]))
  /\ \A c \in Calls : \A k \in DOMAIN answers[c] :
       answers[c][k].cause = "session_not_found" => EndsIn(c, k - 1) \/ sCtx = "done"

(* What the client has still to read: a writer that met an error throws    *)
(* the rest away.                                                          *)
UnderWay ==
  CASE sWriter.at = "idle"    -> s2c \o sWriteCh
    [] sWriter.at = "writing" -> Append(s2c, sWriter.frame) \o sWriteCh
    [] OTHER                  -> s2c

(* nums numbers the frames of q among the answers, a, to their calls: as   *)
(* each call has read the first read[c] of its answers, the next one comes *)
(* first.                                                                  *)
Numbers(q, nums, a, read) ==
  \A k \in DOMAIN q :
    LET c == q[k].id  n == nums[k] IN
    /\ n \in DOMAIN a[c] /\ a[c][n].kind = q[k].kind
    /\ n > read[c]
    /\ \A j \in 1 .. k - 1 : q[j].id = c => nums[j] < n
    /\ n = read[c] + 1 \/ \E j \in 1 .. k - 1 : q[j].id = c /\ nums[j] = n - 1

(* No answer is missing.                                                   *)
AllNumbered(q, nums, a, read) ==
  \A c \in Calls : \A n \in read[c] + 1 .. Len(a[c]) :
    \E k \in DOMAIN q : q[k].id = c /\ nums[k] = n

(* Answers reach the client in order and without a gap, and all of them as *)
(* long as the writer goroutine does.                                      *)
AnswersInOrder ==
  /\ \A c \in Calls : sent[c] <= Len(answers[c])
  /\ \E nums \in [DOMAIN UnderWay -> Nat] :
       /\ Numbers(UnderWay, nums, answers, sent)
       /\ sWriter.at \in {"idle", "writing"} => AllNumbered(UnderWay, nums, answers, sent)

(* Frame f, as the client numbers it, is that answer to call c.            *)
Fits(c, f) == f.n \in DOMAIN answers[c] /\ f.kind = answers[c][f.n].kind

(* What has reached call c is what it was answered, and the call goes on   *)
(* only after messages.                                                    *)
AllFit(c) ==
  /\ \A f \in Range(cRecvCh[c]) : Fits(c, f)
  /\ cReader.call = c => Fits(c, cReader)
GotMessages(c) ==
  \A k \in DOMAIN cGot[c] :
    /\ k \in DOMAIN answers[c]
    /\ k < Len(cGot[c]) \/ result[c] = "none" => answers[c][k].kind = "message"
AnswersReach == \A c \in Calls : AllFit(c) /\ GotMessages(c)

(* Every step preserves these, with SysInv and the invariants of the two   *)
(* ends (call.go:54-101, server.go:381-520).                               *)
FramesInv ==
  AnswersOK /\ OpenFirst /\ OpensHandled /\ UnknownLast /\ AnswersInOrder /\ AnswersReach
=============================================================================
