------------------------- MODULE WsServerProperties -------------------------
(* What must hold of one server connection: the type invariant, the        *)
(* safety, action and liveness properties of WsServer, the inductive       *)
(* invariant behind them, and its refinement of the session service.       *)
EXTENDS WsServer

EnvOK ==
  /\ conn \in {"up", "down"}
  /\ ctx \in {"live", "done"}
  /\ frames \in 0..MaxFrames
ReaderOK ==
  reader \in [at : ReaderAt, id : Ids \union {None}, s : Sess \union {None},
             code : Codes \union Shapes \union {None}]
TableOK ==
  /\ sem \in 0..MaxInflight
  /\ sessions \in [Ids -> Sess \union {None}]
SessOK ==
  /\ pc \in [Sess -> SessionAt]
  /\ idOf \in [Sess -> Ids \union {None}]
  /\ shape \in [Sess -> Shapes \union {None}]
  /\ pend \in [Sess -> Seq(Kinds)]
  /\ got \in [Sess -> Seq(Nat)]
  /\ replied \in [Sess -> Seq(Kinds)]
ChanOK ==
  /\ recvCh \in [Sess -> Seq(Nat)]
  /\ chClosed \subseteq Sess /\ closed \subseteq Sess /\ cancelled \subseteq Sess
  /\ routed \in [Sess -> Nat]
OutOK ==
  /\ writeCh \in Seq(Frame)
  /\ writeEnd \in {"open", "closed"}
  /\ writer \in [at : {"idle", "writing", "drain", "done"}, frame : Frame \union {None}]

(* Every variable ranges over the values the code gives it: the semaphore  *)
(* never exceeds its capacity, and no head or tail of an empty channel is  *)
(* ever taken (server.go:295-487).                                         *)
TypeOK == EnvOK /\ ReaderOK /\ TableOK /\ SessOK /\ ChanOK /\ OutOK

(* The semaphore holds exactly one token per handler goroutine that has    *)
(* not ended, plus the one of an open frame being processed: no path leaks *)
(* a slot or gives one back twice (server.go:423, 470, 482).               *)
SlotAccounting ==
  /\ sem = Cardinality(Live) + (IF reader.at = "start" THEN 1 ELSE 0)
  /\ sem <= MaxInflight

(* WithMaxInflight: an open frame is answered "max inflight exceeded" only *)
(* while MaxInflight handler goroutines really occupy the connection       *)
(* (option.go:33, server.go:425).                                          *)
RejectsOnlyWhenFull ==
  [][reader.at = "read" /\ reader'.code = "unavailable"
       => Cardinality(Live) = MaxInflight]_vars

(* A session is in the table, under its own id, from its acceptance until  *)
(* its goroutine deletes it.  So close, cancel and closeAllSessions reach  *)
(* every handler that may still be blocked, also after a half-close, and   *)
(* the deferred delete never removes another session that reuses the id    *)
(* (server.go:479, 522).                                                   *)
TableExact ==
  /\ \A i \in Ids : sessions[i] # None =>
       idOf[sessions[i]] = i /\ Registered(sessions[i])
  /\ \A s \in Sess : Registered(s) => sessions[idOf[s]] = s

(* The read loop never sends on a receive channel that is closed, which    *)
(* would panic: sessionInfo.closed, tested under mu, covers the window     *)
(* between the unlock and the send (server.go:33, 498, 515).               *)
NoSendOnClosedRecvCh == reader.at = "route" => reader.s \notin chClosed

(* No goroutine is left that could call writeFn when serve closes the      *)
(* write channel, which would panic (server.go:326).                       *)
NoSendOnClosedWriteCh ==
  writeEnd = "closed" => /\ reader.at \in {"flush", "returned"}
                 /\ \A s \in Sess : ~HoldsSlot(s)

(* Once closeAllSessions has run, every handler goroutine that may still   *)
(* block in Receive has its channel closed and its context cancelled, and  *)
(* no new one can appear: handleWG.Wait cannot wait forever for a blocked  *)
(* Receive (server.go:323, 363).                                           *)
UnblockedAtShutdown ==
  reader.at \in {"wait", "flush", "returned"} =>
    \A s \in Sess : Registered(s) => s \in chClosed /\ s \in cancelled

(* A session is answered by messages and then at most one close or error   *)
(* frame, and by exactly one before its goroutine deletes it, unless the   *)
(* connection is being torn down.  A call with a single response closes    *)
(* only after exactly one message (server.go:255).                         *)
RepliesWellFormed ==
  \A s \in Sess :
    LET r == replied[s] IN
    /\ \A k \in 1 .. Len(r) - 1 : r[k] = "message"
    /\ r # <<>> /\ r[Len(r)] \in Terminal => pc[s] \in {"delete", "release", "done"}
    /\ pc[s] \in {"delete", "release", "done"} /\ ctx = "live" =>
         /\ r # <<>> /\ r[Len(r)] \in Terminal
         /\ shape[s] \notin SendsMany => r \in {<<"error">>, <<"message", "close">>}

(* "session not found" is queued for an id only after the terminal frame   *)
(* of every session that was ever opened under it: a peer that reads it    *)
(* has already seen the session end (server.go:502 against 478).           *)
NotFoundAfterTerminal ==
  reader.at = "write" /\ reader.code = "session_not_found" /\ ctx = "live" =>
    \A s \in Sess : idOf[s] = reader.id /\ pc[s] # "new" =>
      replied[s] # <<>> /\ replied[s][Len(replied[s])] \in Terminal

(* A unary or server-stream handler runs only on a request the peer sent   *)
(* completely: exactly one message, and no other was dropped on the way,   *)
(* then the peer's close -- or the connection is being torn down           *)
(* (server.go:233-251, 517).                                               *)
RunsOnWholeRequest ==
  \A s \in Sess :
    pc[s] \in {"run", "send"} /\ shape[s] \in OneRequest =>
      /\ routed[s] = 1 /\ got[s] = <<1>>
      /\ s \in chClosed /\ (s \in closed \/ ctx = "done")

(* The messages the goroutine of s has taken or can take, and the number   *)
(* of those that handleMessage is done with.                               *)
Seen(s)   == got[s] \o recvCh[s]
Routed(s) == routed[s] - (IF reader.at = "route" /\ reader.s = s THEN 1 ELSE 0)

(* A handler receives the session's messages in the order they were sent   *)
(* and none twice; and each message is the next one that it can take, as   *)
(* soon as handleMessage is done with it -- or is lost because at that     *)
(* moment the channel is full.  No other step of any goroutine loses one,  *)
(* adds one or moves one (server.go:514-518, stream.go:69-85).             *)
Increasing(q) == \A a, b \in 1 .. Len(q) : a < b => q[a] < q[b]

Delivers(s) ==
  \/ Seen(s)' = Seen(s) /\ Routed(s)' = Routed(s)
  \/ Seen(s)' = Append(Seen(s), Routed(s)') /\ Routed(s)' = Routed(s) + 1
  \/ /\ Seen(s)' = Seen(s) /\ Routed(s)' = Routed(s) + 1
     /\ Len(recvCh[s]) >= RecvCap

DeliveredInOrder ==
  /\ [](\A s \in Sess : Increasing(Seen(s)))
  /\ [][\A s \in Sess : Delivers(s)]_vars

(* Losing the connection or cancelling the server's context ends serve,    *)
(* whatever the handlers and the writer are blocked on (server.go:320).    *)
ShutdownCompletes == (conn = "down" \/ ctx = "done") ~> reader.at = "returned"

(* The peer keeps reading while the connection is up, and a sender blocked *)
(* on the write channel gets its turn: the runtime queues blocked senders  *)
(* in order.                                                               *)
PeerReads ==
  /\ WF_vars(WriterWrote)
  /\ SF_vars(ReaderWrite)
  /\ \A s \in Sess : SF_vars(WriteFrame(s))

(* Every session the peer half-closes ends and gives its slot back, if the *)
(* handlers return and the peer reads (server.go:524).                     *)
ClosedSessionEnds ==
  PeerReads /\ (\A s \in Sess : SF_vars(HandlerReturn(s)))
    => \A s \in Sess : s \in closed ~> pc[s] = "done"

(* The read loop is never stuck answering an error frame while the peer    *)
(* reads (server.go:308).                                                  *)
ReaderNotStuck == PeerReads => (reader.at = "write" ~> reader.at # "write")
-----------------------------------------------------------------------------
(* The inductive invariant behind the safety properties.                   *)

(* What the read loop's locals hold at each of its control points.         *)
ReaderLocals ==
  /\ reader.at = "read" => reader = Idle
  /\ reader.at \in {"start", "write"} => reader.id \in Ids
  /\ reader.at = "start" => /\ reader.s \in Sess /\ pc[reader.s] = "new"
                            /\ reader.code \in Shapes
  /\ reader.at \in {"route", "close"} => reader.s \in Sess
  /\ reader.at = "route" => reader.s \notin closed
  /\ reader.at = "close" => reader.s \in closed

(* What a launched goroutine's locals hold.                                *)
SessionLocals ==
  \A s \in Sess :
    /\ pc[s] # "new" => idOf[s] \in Ids /\ shape[s] \in Shapes
    /\ pc[s] \in {"send", "finish"} => pend[s] # <<>>

(* Only a close frame or the shutdown closes a receive channel, and only   *)
(* the last steps of the shutdown close the write channel.                 *)
ClosedChannels ==
  /\ \A s \in Sess : s \in chClosed => s \in closed \/ reader.at \in {"wait", "flush", "returned"}
  /\ writeEnd = "closed" => reader.at \in {"flush", "returned"}
  /\ reader.at \in {"flush", "returned"} => \A s \in Sess : ~HoldsSlot(s)

(* The strengthening of the safety properties that every step preserves;   *)
(* its last part is the cardinality argument for the semaphore             *)
(* (server.go:295-487).                                                    *)
IInv ==
  /\ TypeOK
  /\ ReaderLocals
  /\ SessionLocals
  /\ TableExact
  /\ ClosedChannels
  /\ UnblockedAtShutdown
  /\ IsFiniteSet(Live)
  /\ SlotAccounting
-----------------------------------------------------------------------------
(* The connection implements the session service of RpcSessions: a session *)
(* is open until its last frame is queued, and gone once it is deleted.    *)
Phase(s) ==
  CASE pc[s] = "new"                 -> "none"
    [] pc[s] = "delete"              -> "ended"
    [] pc[s] \in {"release", "done"} -> "gone"
    [] OTHER                         -> "open"

SingleReply(s) == shape[s] \in Shapes \ SendsMany

Service == INSTANCE RpcSessions WITH
  state  <- ctx,
  phase  <- [s \in Sess |-> Phase(s)],
  owner  <- idOf,
  single <- {s \in Sess : SingleReply(s)},
  answer <- replied

(* What a goroutine still has to send, against what it has sent: the       *)
(* invariant that the proof of ImplementsService needs besides IInv.       *)
AnswerLocals ==
  \A s \in Sess :
    /\ pc[s] = "new" => replied[s] = <<>> /\ shape[s] = None
    /\ pc[s] = "send" => pend[s] = <<"message">> /\ ~SingleReply(s)
    /\ pc[s] = "finish" =>
         \/ pend[s] = <<"error">>
         \/ pend[s] = <<"close">>
         \/ pend[s] = <<"message", "close">> /\ SingleReply(s)
    /\ SingleReply(s) /\ Phase(s) = "open" =>
         IF pc[s] = "finish" /\ pend[s] = <<"close">>
         THEN replied[s] = <<"message">> \/ ctx = "done"
         ELSE replied[s] = <<>>

(* The messages a session keeps are ordered, and the first RecvCap of them *)
(* are all there.                                                          *)
KeptInOrder ==
  \A s \in Sess :
    /\ \A a, b \in 1 .. Len(Seen(s)) : a < b => Seen(s)[a] < Seen(s)[b]
    /\ \A k \in 1 .. Len(Seen(s)) : Seen(s)[k] <= Routed(s)
    /\ Routed(s) <= RecvCap => Len(Seen(s)) = Routed(s)

(* What the order of messages and of answers rests on besides: messages    *)
(* are numbered from 1 and dropped only on top of a full channel, and what *)
(* a goroutine has received where it stands.                               *)
MessageLocals ==
  /\ reader.at = "route" => routed[reader.s] > 0
  /\ reader.at \in {"closeall", "wait", "flush", "returned"} => ctx = "done"
  /\ \A s \in Sess :
       /\ pc[s] \in {"new", "first"} => got[s] = <<>>
       /\ pc[s] = "eof" => Len(got[s]) = 1
       /\ pc[s] = "recv" => shape[s] \in ReadsMany
       /\ Routed(s) >= RecvCap => Len(Seen(s)) >= RecvCap
       /\ \A k \in 1 .. Len(Seen(s)) : Seen(s)[k] > 0

(* With IInv and AnswerLocals every step preserves the properties of       *)
(* messages and answers (server.go:206-260, 487-525).                      *)
MessageInv ==
  /\ MessageLocals
  /\ KeptInOrder
  /\ RunsOnWholeRequest
  /\ RepliesWellFormed
  /\ NotFoundAfterTerminal

(* A handler that reads its request whole answers only after that: what it *)
(* has received when it answers is the one message it ran on.              *)
AnswersRequest ==
  \A s \in Sess : shape[s] \in OneRequest =>
    /\ replied[s] # <<>> /\ Head(replied[s]) = "message" =>
         pc[s] \in {"run", "send", "finish", "delete", "release", "done"} /\ got[s] = <<1>>
    /\ pc[s] = "finish" /\ Head(pend[s]) = "message" => got[s] = <<1>>

(* Every behaviour of the goroutines is one of the abstract service: one   *)
(* session per id and at most MaxInflight, answered and ended exactly once *)
(* (server.go:255, 394-487).                                               *)
ImplementsService == Service!Spec
=============================================================================
