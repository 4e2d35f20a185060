------------------------------ MODULE WsServer ------------------------------
(***************************************************************************)
(* One WebSocket connection of the RPC server (transport/ws/server.go).    *)
(*                                                                         *)
(* The threads are the read loop (it is also the goroutine that shuts the  *)
(* connection down), the writer goroutine, and one handler goroutine per   *)
(* accepted session.  They share the session table (under mu), the         *)
(* semaphore channel, one receive channel per session and the write        *)
(* channel.  A member of Sess is one incarnation of a session: a goroutine *)
(* that startSession launches once.  The peer may send any frame at any    *)
(* time, stop reading, or vanish.                                          *)
(***************************************************************************)
EXTENDS Naturals, Sequences, FiniteSets

CONSTANTS
  Ids,          (* session ids the peer uses                               *)
  Sess,         (* session incarnations: bounds the accepted opens         *)
  Procs,        (* registered procedures                                   *)
  ShapeOf,      (* call shape of each registered procedure                 *)
  MaxInflight,  (* option WithMaxInflight: capacity of the semaphore       *)
  RecvCap,      (* recvChBufSize                                           *)
  WriteCap,     (* writeBufSize                                            *)
  MaxFrames,    (* bound on the frames the peer sends                      *)
  MaxSends,     (* bound on the frames a streaming handler sends           *)
  None          (* no session, no procedure, no id                         *)

Shapes     == {"unary", "client_stream", "server_stream", "bidi"}
OneRequest == {"unary", "server_stream"}  \* read one message, then EOF
ReadsMany  == {"client_stream", "bidi"}   \* the handler calls Receive
SendsMany  == {"server_stream", "bidi"}   \* the handler calls Send

(* The error frames of the read loop, named for their cause.               *)
Codes == {"unknown_procedure", "shape_mismatch", "unavailable",
          "already_exists", "session_not_found"}

ASSUME ConstantsAssumption ==
  /\ ShapeOf \in [Procs -> Shapes]
  /\ MaxInflight \in Nat
  /\ RecvCap \in Nat /\ RecvCap >= 2     \* 64 in the code
  /\ WriteCap \in Nat \ {0}              \* 64 in the code
  /\ MaxFrames \in Nat
  /\ MaxSends \in Nat
  /\ None \notin Ids \union Sess \union Procs \union Shapes \union Codes

VARIABLES
  conn,        (* "up" or "down": the WebSocket connection                 *)
  ctx,         (* "live" or "done": the context of serve                   *)
  reader,      (* read loop: at, and the id, session and error it handles  *)
  sem,         (* tokens in the semaphore channel                          *)
  sessions,    (* the session table: id -> incarnation or None             *)
  pc,          (* where each handler goroutine is                          *)
  idOf,        (* id the incarnation was opened with                       *)
  shape,       (* shape of the procedure it runs                           *)
  recvCh,      (* its receive channel: numbers of the buffered messages    *)
  chClosed,    (* incarnations whose recvCh is closed                      *)
  closed,      (* incarnations with sessionInfo.closed set                 *)
  cancelled,   (* incarnations whose sessionInfo.cancel has been called    *)
  pend,        (* frames it still has to pass to writeFn                   *)
  writeCh,     (* the write channel                                        *)
  writeEnd,    (* "open" or "closed": whether close(writeCh) has happened  *)
  writer,      (* writer goroutine: at, and the frame it is writing        *)
  frames,      (* frames read so far (bounded by MaxFrames)                *)
  routed,      (* history: messages routed to the incarnation              *)
  got,         (* history: messages its goroutine received                 *)
  replied      (* history: kinds of frames it put into writeCh             *)

envVars  == <<conn, ctx, frames>>
tableVars == <<sem, sessions>>
sessVars == <<pc, idOf, shape, pend, got, replied>>
chanVars == <<recvCh, chClosed, closed, cancelled, routed>>
outVars  == <<writeCh, writeEnd, writer>>
vars     == <<envVars, reader, tableVars, sessVars, chanVars, outVars>>

Terminal == {"close", "error"}
Kinds    == {"message", "close", "error"}
Frame    == [id : Ids, kind : Kinds]

ReaderAt  == {"read", "start", "route", "close", "write", "cancel",
              "closeall", "wait", "flush", "returned"}
SessionAt == {"new", "first", "eof", "drain", "run", "recv", "send",
              "finish", "delete", "release", "done"}

(* A goroutine that startSession launched and whose defer has not run the  *)
(* delete, resp. has not given its slot back, resp. has not ended.         *)
Registered(s) == pc[s] \notin {"new", "release", "done"}
HoldsSlot(s)  == pc[s] \notin {"new", "done"}
Live          == {s \in Sess : HoldsSlot(s)}

(* Where entry.run starts.                                                 *)
FirstStep(sh) == IF sh \in OneRequest THEN "first" ELSE "run"

(* Fault: no return behind an error frame.                                 *)
RepliesPastError(sh) == {<<"error", "close">>, <<"close">>}
(* The frames with which a goroutine ends its session.                     *)
Replies(sh) ==
  {<<"error">>, IF sh \in SendsMany THEN <<"close">> ELSE <<"message", "close">>}

Idle == [at |-> "read", id |-> None, s |-> None, code |-> None]

Init ==
  /\ conn = "up" /\ ctx = "live" /\ frames = 0
  /\ reader = Idle
  /\ sem = 0
  /\ sessions = [i \in Ids |-> None]
  /\ pc = [s \in Sess |-> "new"]
  /\ idOf = [s \in Sess |-> None]
  /\ shape = [s \in Sess |-> None]
  /\ recvCh = [s \in Sess |-> <<>>]
  /\ chClosed = {}
  /\ closed = {}
  /\ cancelled = {}
  /\ pend = [s \in Sess |-> <<>>]
  /\ writeCh = <<>> /\ writeEnd = "open"
  /\ writer = [at |-> "idle", frame |-> None]
  /\ routed = [s \in Sess |-> 0]
  /\ got = [s \in Sess |-> <<>>]
  /\ replied = [s \in Sess |-> <<>>]

-----------------------------------------------------------------------------
(* The environment: the peer, the network, and the HTTP server's context.  *)

Disconnect ==
  /\ conn = "up"
  /\ conn' = "down"
  /\ UNCHANGED <<ctx, frames, reader, tableVars, sessVars, chanVars, outVars>>

BaseCancel ==
  /\ ctx = "live"
  /\ ctx' = "done"
  /\ UNCHANGED <<conn, frames, reader, tableVars, sessVars, chanVars, outVars>>

-----------------------------------------------------------------------------
(* readLoop and the frame handlers.                                        *)

NextFrame ==
  /\ reader.at = "read"
  /\ conn = "up"
  /\ frames < MaxFrames
  /\ frames' = frames + 1
  /\ UNCHANGED <<conn, ctx>>

(* writeFn with an error frame for id: the reader blocks until it is       *)
(* queued.                                                                 *)
Reject(i, c) == reader' = [at |-> "write", id |-> i, s |-> None, code |-> c]

(* Malformed JSON, or a frame type the switch does not know.               *)
ReadIgnored ==
  /\ NextFrame
  /\ UNCHANGED <<reader, tableVars, sessVars, chanVars, outVars>>

(* Faults: a semaphore with one slot too many, or one too few.             *)
OneSlotTooMany == sem <= MaxInflight
OneSlotUnused  == sem + 1 < MaxInflight
(* "case sem <- struct{}{}" is taken rather than "default".                *)
SlotFree == sem < MaxInflight

(* handleOpen up to startSession.                                          *)
ReadOpen(i, p, sh) ==
  /\ NextFrame
  /\ \/ /\ p \notin Procs
        /\ Reject(i, "unknown_procedure")
        /\ UNCHANGED sem
     \/ /\ p \in Procs /\ sh # ShapeOf[p]
        /\ Reject(i, "shape_mismatch")
        /\ UNCHANGED sem
     \/ /\ p \in Procs /\ sh = ShapeOf[p]
        /\ ~SlotFree
        /\ Reject(i, "unavailable")
        /\ UNCHANGED sem
     \/ /\ p \in Procs /\ sh = ShapeOf[p]
        /\ SlotFree
        /\ sem' = sem + 1
        /\ \E s \in Sess :
             /\ pc[s] = "new"
             /\ reader' = [at |-> "start", id |-> i, s |-> s, code |-> sh]
  /\ UNCHANGED <<sessions, sessVars, chanVars, outVars>>

(* Fault: no duplicate check.                                              *)
NeverTaken(i) == FALSE
(* startSession's duplicate check, under mu.                               *)
Taken(i) == sessions[i] # None

(* Fault: the slot of a rejected duplicate is not given back.              *)
KeepSlot(i) == UNCHANGED sem /\ Reject(i, "already_exists")
(* "<-sem" and the error; the slot was taken in handleOpen.                *)
RejectDuplicate(i) ==
  /\ sem > 0
  /\ sem' = sem - 1
  /\ Reject(i, "already_exists")

(* startSession: the duplicate check and the launch of the goroutine.      *)
StartSession ==
  LET i == reader.id
      s == reader.s
      sh == reader.code
  IN
  /\ reader.at = "start"
  /\ \/ /\ Taken(i)
        /\ RejectDuplicate(i)
        /\ UNCHANGED <<sessions, pc, idOf, shape>>
     \/ /\ ~Taken(i)
        /\ sessions' = [sessions EXCEPT ![i] = s]
        /\ pc' = [pc EXCEPT ![s] = FirstStep(sh)]
        /\ idOf' = [idOf EXCEPT ![s] = i]
        /\ shape' = [shape EXCEPT ![s] = sh]
        /\ reader' = Idle
        /\ UNCHANGED sem
  /\ UNCHANGED <<envVars, pend, got, replied, chanVars, outVars>>

(* Fault: sessionInfo.closed is not tested.                                *)
NeverLate(s) == FALSE
(* A message behind its session's close frame.                             *)
Late(s) == s \in closed

(* handleMessage up to mu.Unlock().                                        *)
ReadMessage(i) ==
  LET s == sessions[i] IN
  /\ NextFrame
  /\ \/ /\ s = None
        /\ Reject(i, "session_not_found")
        /\ UNCHANGED routed
     \/ /\ s # None /\ Late(s)
        /\ UNCHANGED <<reader, routed>>
     \/ /\ s # None /\ ~Late(s)
        /\ reader' = [Idle EXCEPT !.at = "route", !.s = s]
        /\ routed' = [routed EXCEPT ![s] = @ + 1]
  /\ UNCHANGED <<tableVars, sessVars, recvCh, chClosed, closed, cancelled, outVars>>

(* Fault: a channel that holds one message less.                           *)
RoomButOne(s) == Len(recvCh[s]) + 1 < RecvCap
(* "case sess.recvCh <- frame.Payload" is taken.                           *)
HasRoom(s) == Len(recvCh[s]) < RecvCap

(* The select of handleMessage: dropped when the channel is full.          *)
RouteMessage ==
  LET s == reader.s IN
  /\ reader.at = "route"
  /\ recvCh' = IF HasRoom(s)
               THEN [recvCh EXCEPT ![s] = Append(@, routed[s])]
               ELSE recvCh
  /\ reader' = Idle
  /\ UNCHANGED <<envVars, tableVars, sessVars, chClosed, closed, cancelled, routed, outVars>>

(* handleClose up to mu.Unlock().                                          *)
ReadClose(i) ==
  LET s == sessions[i] IN
  /\ NextFrame
  /\ \/ /\ s = None
        /\ UNCHANGED <<reader, closed>>
     \/ /\ s # None
        /\ closed' = closed \union {s}
        /\ reader' = [Idle EXCEPT !.at = "close", !.s = s]
  /\ UNCHANGED <<tableVars, sessVars, recvCh, chClosed, cancelled, routed, outVars>>

(* Fault: handleClose sets the flag but leaves the channel open.           *)
LeaveRecvChOpen ==
  /\ reader.at = "close"
  /\ reader' = Idle
  /\ UNCHANGED <<envVars, tableVars, sessVars, chanVars, outVars>>

(* safeCloseRecvCh at the end of handleClose; a second close is recovered. *)
CloseRecvCh ==
  /\ reader.at = "close"
  /\ chClosed' = chClosed \union {reader.s}
  /\ reader' = Idle
  /\ UNCHANGED <<envVars, tableVars, sessVars, recvCh, closed, cancelled, routed, outVars>>

(* Fault: handleCancel finds the session but does not cancel its context.  *)
IgnoreCancel(i) ==
  /\ NextFrame
  /\ UNCHANGED <<reader, tableVars, sessVars, chanVars, outVars>>

(* handleCancel.                                                           *)
ReadCancel(i) ==
  LET s == sessions[i] IN
  /\ NextFrame
  /\ cancelled' = cancelled \union ({s} \ {None})
  /\ UNCHANGED <<reader, tableVars, sessVars, recvCh, chClosed, closed, routed, outVars>>

(* writeFn from the read loop: queue the error frame, or give up once the  *)
(* context is done.                                                        *)
ReaderWrite ==
  /\ reader.at = "write"
  /\ \/ /\ Len(writeCh) < WriteCap
        /\ writeCh' = Append(writeCh, [id |-> reader.id, kind |-> "error"])
     \/ /\ ctx = "done"
        /\ UNCHANGED writeCh
  /\ reader' = Idle
  /\ UNCHANGED <<envVars, tableVars, sessVars, chanVars, writeEnd, writer>>

-----------------------------------------------------------------------------
(* serve after readLoop: the shutdown sequence.                            *)

ReadFail ==
  /\ reader.at = "read"
  /\ conn = "down" \/ ctx = "done"
  /\ reader' = [reader EXCEPT !.at = "cancel"]
  /\ UNCHANGED <<envVars, tableVars, sessVars, chanVars, outVars>>

CancelContext ==
  /\ reader.at = "cancel"
  /\ ctx' = "done"
  /\ reader' = [reader EXCEPT !.at = "closeall"]
  /\ UNCHANGED <<conn, frames, tableVars, sessVars, chanVars, outVars>>

(* Fault: closeAllSessions only cancels the contexts.                      *)
CancelAllSessions ==
  LET Open == {sessions[i] : i \in Ids} \ {None} IN
  /\ reader.at = "closeall"
  /\ cancelled' = cancelled \union Open
  /\ reader' = [reader EXCEPT !.at = "wait"]
  /\ UNCHANGED <<envVars, tableVars, sessVars, recvCh, chClosed, closed, routed, outVars>>

(* closeAllSessions runs under mu.                                         *)
CloseAllSessions ==
  LET Open == {sessions[i] : i \in Ids} \ {None} IN
  /\ reader.at = "closeall"
  /\ cancelled' = cancelled \union Open
  /\ chClosed' = chClosed \union Open
  /\ reader' = [reader EXCEPT !.at = "wait"]
  /\ UNCHANGED <<envVars, tableVars, sessVars, recvCh, closed, routed, outVars>>

(* Fault: no handleWG.Wait().                                              *)
NotAwaited == TRUE
(* handleWG.Wait() returns.                                                *)
HandlersDone == Live = {}

(* handleWG.Wait(); close(writeCh).                                        *)
CloseWriteCh ==
  /\ reader.at = "wait"
  /\ HandlersDone
  /\ writeEnd' = "closed"
  /\ reader' = [reader EXCEPT !.at = "flush"]
  /\ UNCHANGED <<envVars, tableVars, sessVars, chanVars, writeCh, writer>>

(* writeWG.Wait(), then ServeHTTP's deferred CloseNow.                     *)
Return ==
  /\ reader.at = "flush"
  /\ writer.at = "done"
  /\ reader' = [reader EXCEPT !.at = "returned"]
  /\ conn' = "down"
  /\ UNCHANGED <<ctx, frames, tableVars, sessVars, chanVars, outVars>>

-----------------------------------------------------------------------------
(* runWriter.                                                              *)

WriterTake ==
  /\ writer.at = "idle"
  /\ writeCh # <<>>
  /\ writer' = [at |-> "writing", frame |-> Head(writeCh)]
  /\ writeCh' = Tail(writeCh)
  /\ UNCHANGED <<envVars, reader, tableVars, sessVars, chanVars, writeEnd>>

(* conn.Write returns: the peer has room for the frame.                    *)
WriterWrote ==
  /\ writer.at = "writing"
  /\ conn = "up"
  /\ writer' = [at |-> "idle", frame |-> None]
  /\ UNCHANGED <<envVars, reader, tableVars, sessVars, chanVars, writeCh, writeEnd>>

(* Fault: the writer returns without draining the channel.                 *)
WriterQuits ==
  /\ writer.at = "writing"
  /\ conn = "down" \/ ctx = "done"
  /\ writer' = [at |-> "done", frame |-> None]
  /\ UNCHANGED <<envVars, reader, tableVars, sessVars, chanVars, writeCh, writeEnd>>

WriterFailed ==
  /\ writer.at = "writing"
  /\ conn = "down" \/ ctx = "done"
  /\ writer' = [at |-> "drain", frame |-> None]
  /\ UNCHANGED <<envVars, reader, tableVars, sessVars, chanVars, writeCh, writeEnd>>

WriterDrain ==
  /\ writer.at = "drain"
  /\ writeCh # <<>>
  /\ writeCh' = Tail(writeCh)
  /\ UNCHANGED <<envVars, reader, tableVars, sessVars, chanVars, writeEnd, writer>>

WriterEnd ==
  /\ writer.at \in {"idle", "drain"}
  /\ writeCh = <<>>
  /\ writeEnd = "closed"
  /\ writer' = [at |-> "done", frame |-> None]
  /\ UNCHANGED <<envVars, reader, tableVars, sessVars, chanVars, writeCh, writeEnd>>

-----------------------------------------------------------------------------
(* A session's goroutine: entry.run and the deferred cleanup.              *)

Goto(s, at) == pc' = [pc EXCEPT ![s] = at]

(* A receive from recvCh: the next message, or EOF once it is closed and   *)
(* empty.  It blocks otherwise, whatever the state of the context.         *)
TakeMessage(s) ==
  /\ recvCh[s] # <<>>
  /\ got' = [got EXCEPT ![s] = Append(@, Head(recvCh[s]))]
  /\ recvCh' = [recvCh EXCEPT ![s] = Tail(@)]

(* Fault: a receive that takes an empty channel for a closed one.          *)
TakeNothing(s) ==
  /\ recvCh[s] = <<>>
  /\ UNCHANGED <<got, recvCh>>

TakeEof(s) ==
  /\ recvCh[s] = <<>>
  /\ s \in chClosed
  /\ UNCHANGED <<got, recvCh>>

Finish(s, reply) ==
  /\ Goto(s, "finish")
  /\ pend' = [pend EXCEPT ![s] = reply]

(* recvExactlyOne.                                                         *)
RecvExactlyOne(s) ==
  /\ pc[s] = "first"
  /\ \/ TakeMessage(s) /\ Goto(s, "eof") /\ UNCHANGED pend
     \/ TakeEof(s) /\ Finish(s, <<"error">>)
  /\ UNCHANGED <<envVars, reader, tableVars, idOf, shape, replied,
                 chClosed, closed, cancelled, routed, outVars>>

(* drainAndVerifyEmpty up to its loop; at EOF the request is unmarshalled, *)
(* which may fail, and the handler runs.                                   *)
VerifyEmpty(s) ==
  /\ pc[s] = "eof"
  /\ \/ TakeMessage(s) /\ Goto(s, "drain") /\ UNCHANGED pend
     \/ TakeEof(s) /\ Goto(s, "run") /\ UNCHANGED pend
     \/ TakeEof(s) /\ Finish(s, <<"error">>)
  /\ UNCHANGED <<envVars, reader, tableVars, idOf, shape, replied,
                 chClosed, closed, cancelled, routed, outVars>>

(* "for range recvCh": ends only when the channel is closed.               *)
DrainRest(s) ==
  /\ pc[s] = "drain"
  /\ \/ TakeMessage(s) /\ UNCHANGED <<pc, pend>>
     \/ TakeEof(s) /\ Finish(s, <<"error">>)
  /\ UNCHANGED <<envVars, reader, tableVars, idOf, shape, replied,
                 chClosed, closed, cancelled, routed, outVars>>

(* The user's handler calls Receive on its stream ...                      *)
CallReceive(s) ==
  /\ pc[s] = "run"
  /\ shape[s] \in ReadsMany
  /\ Goto(s, "recv")
  /\ UNCHANGED <<envVars, reader, tableVars, idOf, shape, pend, got, replied,
                 chanVars, outVars>>

(* ... and receiveRequest returns a message, an unmarshal error or io.EOF. *)
ReceiveRequest(s) ==
  /\ pc[s] = "recv"
  /\ TakeMessage(s) \/ TakeEof(s)
  /\ Goto(s, "run")
  /\ UNCHANGED <<envVars, reader, tableVars, idOf, shape, pend, replied,
                 chClosed, closed, cancelled, routed, outVars>>

(* The user's handler calls Send on its stream.                            *)
CallSend(s) ==
  /\ pc[s] = "run"
  /\ shape[s] \in SendsMany
  /\ Len(replied[s]) < MaxSends
  /\ Goto(s, "send")
  /\ pend' = [pend EXCEPT ![s] = <<"message">>]
  /\ UNCHANGED <<envVars, reader, tableVars, idOf, shape, got, replied,
                 chanVars, outVars>>

(* The user's handler returns: a result, or an error.                      *)
HandlerReturn(s) ==
  /\ pc[s] = "run"
  /\ \E reply \in Replies(shape[s]) : Finish(s, reply)
  /\ UNCHANGED <<envVars, reader, tableVars, idOf, shape, got, replied,
                 chanVars, outVars>>

(* writeFn from the goroutine: its next frame is queued, or dropped when   *)
(* the context is done.                                                    *)
AfterWrite(s) ==
  /\ pend' = [pend EXCEPT ![s] = Tail(@)]
  /\ Goto(s, IF pc[s] = "send" THEN "run"
             ELSE IF Tail(pend[s]) = <<>> THEN "delete" ELSE "finish")

WriteFrame(s) ==
  /\ pc[s] \in {"send", "finish"}
  /\ Len(writeCh) < WriteCap
  /\ writeCh' = Append(writeCh, [id |-> idOf[s], kind |-> Head(pend[s])])
  /\ replied' = [replied EXCEPT ![s] = Append(@, Head(pend[s]))]
  /\ AfterWrite(s)
  /\ UNCHANGED <<envVars, reader, tableVars, idOf, shape, got, chanVars,
                 writeEnd, writer>>

SkipFrame(s) ==
  /\ pc[s] \in {"send", "finish"}
  /\ ctx = "done"
  /\ AfterWrite(s)
  /\ UNCHANGED <<envVars, reader, tableVars, idOf, shape, got, replied,
                 chanVars, outVars>>

(* Fault: the goroutine leaves the table before it replies.                *)
DeleteEarly(s) ==
  /\ pc[s] \in {"finish", "delete"}
  /\ sessions' = [sessions EXCEPT ![idOf[s]] = None]
  /\ Goto(s, IF pc[s] = "finish" THEN "finish" ELSE "release")
  /\ UNCHANGED <<envVars, reader, sem, idOf, shape, pend, got, replied,
                 chanVars, outVars>>

(* The deferred function: delete under mu ...                              *)
DeleteSession(s) ==
  /\ pc[s] = "delete"
  /\ sessions' = [sessions EXCEPT ![idOf[s]] = None]
  /\ Goto(s, "release")
  /\ UNCHANGED <<envVars, reader, sem, idOf, shape, pend, got, replied,
                 chanVars, outVars>>

(* ... then <-sem (which would block on an empty channel) and sessCancel.  *)
ReleaseSlot(s) ==
  /\ pc[s] = "release"
  /\ sem > 0
  /\ sem' = sem - 1
  /\ cancelled' = cancelled \union {s}
  /\ Goto(s, "done")
  /\ UNCHANGED <<envVars, reader, sessions, idOf, shape, pend, got, replied,
                 recvCh, chClosed, closed, routed, outVars>>

-----------------------------------------------------------------------------
PeerFrame ==
  \/ ReadIgnored
  \/ \E i \in Ids, p \in Procs \union {None}, sh \in Shapes : ReadOpen(i, p, sh)
  \/ \E i \in Ids : ReadMessage(i)
  \/ \E i \in Ids : ReadClose(i)
  \/ \E i \in Ids : ReadCancel(i)

Environment == Disconnect \/ BaseCancel

Reader == StartSession \/ RouteMessage \/ CloseRecvCh \/ ReaderWrite

Shutdown == ReadFail \/ CancelContext \/ CloseAllSessions \/ CloseWriteCh \/ Return

Writer == WriterTake \/ WriterWrote \/ WriterFailed \/ WriterDrain \/ WriterEnd

(* The goroutine's own code, without the user's handler.                   *)
Transport(s) ==
  \/ RecvExactlyOne(s) \/ VerifyEmpty(s) \/ DrainRest(s) \/ ReceiveRequest(s)
  \/ WriteFrame(s) \/ SkipFrame(s) \/ DeleteSession(s) \/ ReleaseSlot(s)

Handler(s) == CallReceive(s) \/ CallSend(s) \/ HandlerReturn(s)

(* serve has returned: nothing is left to do.                              *)
Returned == reader.at = "returned" /\ UNCHANGED vars

Next ==
  \/ PeerFrame
  \/ Environment
  \/ Reader
  \/ Shutdown
  \/ Writer
  \/ \E s \in Sess : Transport(s) \/ Handler(s)
  \/ Returned

Spec == Init /\ [][Next]_vars
-----------------------------------------------------------------------------
(* Fairness.  The server's goroutines are scheduled; a handler returns     *)
(* once its context is cancelled, whenever it is not blocked in Receive.   *)
Ended(s) == s \in cancelled \/ ctx = "done"

ThreadFairness ==
  /\ WF_vars(Reader)
  /\ WF_vars(Shutdown)
  /\ WF_vars(WriterTake) /\ WF_vars(WriterFailed)
  /\ WF_vars(WriterDrain) /\ WF_vars(WriterEnd)
  /\ \A s \in Sess : WF_vars(Transport(s))

FairSpec ==
  /\ Spec
  /\ ThreadFairness
  /\ \A s \in Sess : SF_vars(HandlerReturn(s) /\ Ended(s))
=============================================================================
