------------------------------ MODULE WsClient ------------------------------
(***************************************************************************)
(* One multiplexed connection of the RPC client (transport/ws/client.go,   *)
(* call.go, client_stream.go).                                             *)
(*                                                                         *)
(* The threads are the read loop, the write loop, the goroutine that waits *)
(* for both and closes the connection's sessions (the closer), and the     *)
(* callers: one call per member of Calls, its Receive side (pc) and its    *)
(* Send side (snd) running concurrently where the API allows it.  They     *)
(* share the session table (under mu), one receive channel per session,    *)
(* the write channel and the channel done.                                 *)
(***************************************************************************)
EXTENDS Naturals, Sequences, FiniteSets

CONSTANTS
  Calls,      (* calls made on the connection; ids are never reused        *)
  ShapeOf,    (* call shape of each call                                   *)
  RecvCap,    (* recvChBufSize                                             *)
  WriteCap,   (* writeBufSize                                              *)
  MaxFrames,  (* bound on the frames the server sends per call             *)
  MaxSends,   (* bound on the frames a stream's user sends                 *)
  NoCall      (* no call                                                   *)

Shapes      == {"unary", "client_stream", "server_stream", "bidi"}
OneResponse == {"unary", "client_stream"}  \* the first message is the result
Receives    == {"server_stream", "bidi"}   \* the stream has Receive
Sends       == {"client_stream", "bidi"}   \* the stream has Send

ASSUME ClientAssumption ==
  /\ ShapeOf \in [Calls -> Shapes]
  /\ RecvCap \in Nat \ {0}    \* 64 in the code
  /\ WriteCap \in Nat \ {0}   \* 64 in the code
  /\ MaxFrames \in Nat
  /\ MaxSends \in Nat
  /\ NoCall \notin Calls

VARIABLES
  conn,        (* "up" or "down": the WebSocket connection                 *)
  ctx,         (* "live" or "done": the internal context of NewConn        *)
  reader,      (* read loop: at, and the frame it is routing               *)
  writer,      (* write loop: at, and the frame it is writing              *)
  closer,      (* "wait", "closing" (sessions = nil), "closed" (done)      *)
  sessions,    (* calls in the session table                               *)
  recvCh,      (* receive channel of each call                             *)
  recvClosed,  (* calls whose receive channel is closed                    *)
  writeCh,     (* the write channel                                        *)
  pc,          (* where each caller is                                     *)
  snd,         (* frames it is about to pass to send                       *)
  result,      (* "none", "ok" or "err": its result, or its stream's end   *)
  closing,     (* ServerStream.Close: "no", "removed", "done"              *)
  dead,        (* calls whose caller's context is done                     *)
  cancelled,   (* calls whose stream context has been cancelled            *)
  sent,        (* number of frames the server has sent to each call        *)
  opened,      (* calls whose open frame reached the server                *)
  got,         (* history: numbers of the frames the call received         *)
  queued,      (* history: kinds of the frames it put into writeCh         *)
  orphans      (* history: calls made when there was no table left         *)

envVars  == <<conn, ctx>>
loopVars == <<reader, writer, closer>>
chanVars == <<sessions, recvCh, recvClosed>>
callVars == <<pc, snd, result, closing, got, orphans>>
ctxVars  == <<dead, cancelled>>
outVars  == <<writeCh, queued>>
peerVars == <<sent, opened>>
vars     == <<envVars, loopVars, chanVars, callVars, ctxVars, outVars, peerVars>>

(* Frames of the server; "unknown" is any other type.                      *)
Kinds == {"message", "close", "error", "unknown"}
Out   == {"open", "message", "close", "cancel"}

(* The frames a call sends before it returns to, or waits for, its user.   *)
Opening(c) == IF ShapeOf[c] \in Sends THEN <<"open">> ELSE <<"open", "message", "close">>

(* The user holds the stream that the call returned.                       *)
Handed(c) ==
  /\ pc[c] \in {"stream", "recv", "cleanup", "done"}
  /\ ShapeOf[c] # "unary" /\ Len(queued[c]) >= Len(Opening(c))

Idle == [at |-> "read", call |-> NoCall, n |-> 0, kind |-> "unknown"]

Init ==
  /\ conn = "up" /\ ctx = "live"
  /\ reader = Idle
  /\ writer = [at |-> "idle", call |-> NoCall, kind |-> "open"]
  /\ closer = "wait"
  /\ sessions = {} /\ recvClosed = {}
  /\ recvCh = [c \in Calls |-> <<>>]
  /\ writeCh = <<>>
  /\ pc = [c \in Calls |-> "idle"]
  /\ snd = [c \in Calls |-> <<>>]
  /\ result = [c \in Calls |-> "none"]
  /\ closing = [c \in Calls |-> "no"]
  /\ dead = {} /\ cancelled = {} /\ opened = {} /\ orphans = {}
  /\ sent = [c \in Calls |-> 0]
  /\ got = [c \in Calls |-> <<>>]
  /\ queued = [c \in Calls |-> <<>>]

-----------------------------------------------------------------------------
(* The environment: the connection ends (Conn.Close among others), the     *)
(* context given to NewConn or to a call is cancelled.                     *)

Disconnect ==
  /\ conn = "up"
  /\ conn' = "down"
  /\ UNCHANGED <<ctx, loopVars, chanVars, callVars, ctxVars, outVars, peerVars>>

BaseCancel ==
  /\ ctx = "live"
  /\ ctx' = "done"
  /\ UNCHANGED <<conn, loopVars, chanVars, callVars, ctxVars, outVars, peerVars>>

CallerCancel(c) ==
  /\ c \notin dead
  /\ dead' = dead \union {c}
  /\ UNCHANGED <<envVars, loopVars, chanVars, callVars, cancelled, outVars, peerVars>>

-----------------------------------------------------------------------------
(* readLoop.                                                               *)

(* Read and the lookup under mu: a frame of no session is skipped.         *)
ReadFrame(c, k) ==
  /\ reader.at = "read"
  /\ conn = "up"
  /\ c \in opened /\ sent[c] < MaxFrames
  /\ sent' = [sent EXCEPT ![c] = @ + 1]
  /\ reader' = IF c \in sessions
               THEN [at |-> "deliver", call |-> c, n |-> sent'[c], kind |-> k]
               ELSE Idle
  /\ UNCHANGED <<envVars, writer, closer, chanVars, callVars, ctxVars, outVars, opened>>

(* Fault: a channel that takes one frame too many.                         *)
RoomForOneMore(c) == Len(recvCh[c]) <= RecvCap
HasRoom(c) == Len(recvCh[c]) < RecvCap

(* Fault: a full channel drops the frame, as on the server.                *)
DropOrDeliver ==
  LET c == reader.call IN
  /\ reader.at = "deliver"
  /\ recvCh' = IF HasRoom(c)
               THEN [recvCh EXCEPT ![c] = Append(@, [n |-> reader.n, kind |-> reader.kind])]
               ELSE recvCh
  /\ reader' = Idle
  /\ UNCHANGED <<envVars, writer, closer, sessions, recvClosed, callVars, ctxVars, outVars,
                 peerVars>>

(* The select: the frame is delivered once there is room, ...              *)
Deliver ==
  LET c == reader.call IN
  /\ reader.at = "deliver"
  /\ HasRoom(c)
  /\ recvCh' = [recvCh EXCEPT ![c] = Append(@, [n |-> reader.n, kind |-> reader.kind])]
  /\ reader' = Idle
  /\ UNCHANGED <<envVars, writer, closer, sessions, recvClosed, callVars, ctxVars, outVars,
                 peerVars>>

(* ... or the loop ends with the context; it ends, too, when Read fails.   *)
(* Its goroutine then calls cancel().                                      *)
ReadLoopEnds ==
  /\ \/ reader.at = "read" /\ (conn = "down" \/ ctx = "done")
     \/ reader.at = "deliver" /\ ctx = "done"
  /\ reader' = [Idle EXCEPT !.at = "done"]
  /\ ctx' = "done"
  /\ UNCHANGED <<conn, writer, closer, chanVars, callVars, ctxVars, outVars, peerVars>>

-----------------------------------------------------------------------------
(* writeLoop.                                                              *)

WriterTake ==
  /\ writer.at = "idle"
  /\ writeCh # <<>>
  /\ writer' = [at |-> "writing", call |-> Head(writeCh).call, kind |-> Head(writeCh).kind]
  /\ writeCh' = Tail(writeCh)
  /\ UNCHANGED <<envVars, reader, closer, chanVars, callVars, ctxVars, queued, peerVars>>

WriterWrote ==
  /\ writer.at = "writing"
  /\ conn = "up"
  /\ opened' = IF writer.kind = "open" THEN opened \union {writer.call} ELSE opened
  /\ writer' = [at |-> "idle", call |-> NoCall, kind |-> "open"]
  /\ UNCHANGED <<envVars, reader, closer, chanVars, callVars, ctxVars, outVars, sent>>

WriteLoopEnds ==
  /\ \/ writer.at = "writing" /\ (conn = "down" \/ ctx = "done")
     \/ writer.at = "idle" /\ ctx = "done"
  /\ writer' = [at |-> "done", call |-> NoCall, kind |-> "open"]
  /\ UNCHANGED <<envVars, reader, closer, chanVars, callVars, ctxVars, outVars, peerVars>>

-----------------------------------------------------------------------------
(* The closer of NewConn: wg.Wait, the table under mu, and done.           *)

(* Fault: it waits for the write loop alone.                               *)
WriterDone == writer.at = "done"
LoopsDone == reader.at = "done" /\ writer.at = "done"

(* Fault: it drops the table but leaves the receive channels open.         *)
ForgetSessions ==
  /\ closer = "wait"
  /\ LoopsDone
  /\ sessions' = {}
  /\ closer' = "closing"
  /\ UNCHANGED <<envVars, reader, writer, recvCh, recvClosed, callVars, ctxVars, outVars,
                 peerVars>>

CloseSessions ==
  /\ closer = "wait"
  /\ LoopsDone
  /\ recvClosed' = recvClosed \union sessions
  /\ sessions' = {}
  /\ closer' = "closing"
  /\ UNCHANGED <<envVars, reader, writer, recvCh, callVars, ctxVars, outVars, peerVars>>

CloseDone ==
  /\ closer = "closing"
  /\ closer' = "closed"
  /\ UNCHANGED <<envVars, reader, writer, chanVars, callVars, ctxVars, outVars, peerVars>>

-----------------------------------------------------------------------------
(* send, for every frame of a call.                                        *)

(* Where the call stands once its last frame is queued: a unary call and   *)
(* CloseAndReceive go on to receiveResponse, other calls return a stream.  *)
AllSent(c) ==
  CASE pc[c] = "opening" /\ ShapeOf[c] # "unary" -> "stream"
    [] pc[c] \in {"opening", "finishing"}        -> "recv"
    [] pc[c] = "cancelling"                      -> "cleanup"
    [] OTHER                                     -> pc[c]

SendFrame(c) ==
  /\ snd[c] # <<>>
  /\ Len(writeCh) < WriteCap
  /\ writeCh' = Append(writeCh, [call |-> c, kind |-> Head(snd[c])])
  /\ queued' = [queued EXCEPT ![c] = Append(@, Head(snd[c]))]
  /\ snd' = [snd EXCEPT ![c] = Tail(@)]
  /\ pc' = [pc EXCEPT ![c] = IF Len(snd[c]) = 1 THEN AllSent(c) ELSE @]
  /\ UNCHANGED <<envVars, loopVars, chanVars, result, closing, got, orphans, ctxVars, peerVars>>

(* done is closed: send returns closeErr, which ends a call that is still  *)
(* opening or closing; a failed Send or Close of a stream ends nothing.    *)
SendFails(c) ==
  /\ snd[c] # <<>>
  /\ closer = "closed"
  /\ snd' = [snd EXCEPT ![c] = <<>>]
  /\ IF pc[c] \in {"opening", "finishing", "cancelling"}
     THEN pc' = [pc EXCEPT ![c] = "cleanup"] /\ result' = [result EXCEPT ![c] = "err"]
     ELSE UNCHANGED <<pc, result>>
  /\ UNCHANGED <<envVars, loopVars, chanVars, closing, got, orphans, ctxVars, outVars, peerVars>>

-----------------------------------------------------------------------------
(* CallUnary, CallServerStream, CallClientStream, CallBidi.                *)

(* newSession: without a table the session's channel is never closed.      *)
NewSession(c) ==
  /\ pc[c] = "idle"
  /\ pc' = [pc EXCEPT ![c] = "opening"]
  /\ snd' = [snd EXCEPT ![c] = Opening(c)]
  /\ IF closer = "wait"
     THEN sessions' = sessions \union {c} /\ UNCHANGED orphans
     ELSE orphans' = orphans \union {c} /\ UNCHANGED sessions
  /\ UNCHANGED <<envVars, loopVars, recvCh, recvClosed, result, closing, got, ctxVars, outVars,
                 peerVars>>

(* sendRequest marshals the request after it has sent the open frame.      *)
MarshalFails(c) ==
  /\ pc[c] = "opening"
  /\ snd[c] # <<>> /\ Head(snd[c]) = "message"
  /\ snd' = [snd EXCEPT ![c] = <<>>]
  /\ pc' = [pc EXCEPT ![c] = "cleanup"]
  /\ result' = [result EXCEPT ![c] = "err"]
  /\ UNCHANGED <<envVars, loopVars, chanVars, closing, got, orphans, ctxVars, outVars, peerVars>>

(* Fault: the table entry outlives the call.                               *)
KeepSession(c) ==
  /\ pc[c] = "cleanup"
  /\ pc' = [pc EXCEPT ![c] = "done"]
  /\ UNCHANGED <<envVars, loopVars, chanVars, snd, result, closing, got, orphans, ctxVars,
                 outVars, peerVars>>

(* removeSession: deferred by CallUnary and CloseAndReceive, after a       *)
(* failed open, and once after the terminal error of a stream.             *)
RemoveSession(c) ==
  /\ pc[c] = "cleanup"
  /\ sessions' = sessions \ {c}
  /\ pc' = [pc EXCEPT ![c] = "done"]
  /\ UNCHANGED <<envVars, loopVars, recvCh, recvClosed, snd, result, closing, got, orphans,
                 ctxVars, outVars, peerVars>>

-----------------------------------------------------------------------------
(* receiveResponse, and what its caller does with the outcome.             *)

Ended(c) == c \in dead \union cancelled

(* An error: CallUnary sends a cancel frame if its context is done.        *)
Fail(c) ==
  /\ result' = [result EXCEPT ![c] = "err"]
  /\ IF ShapeOf[c] = "unary" /\ c \in dead
     THEN pc' = [pc EXCEPT ![c] = "cancelling"] /\ snd' = [snd EXCEPT ![c] = <<"cancel">>]
     ELSE pc' = [pc EXCEPT ![c] = "cleanup"] /\ UNCHANGED snd

(* A message that is decoded: the result, or one of a stream's messages.   *)
Succeed(c) ==
  /\ UNCHANGED snd
  /\ IF ShapeOf[c] \in OneResponse
     THEN pc' = [pc EXCEPT ![c] = "cleanup"] /\ result' = [result EXCEPT ![c] = "ok"]
     ELSE pc' = [pc EXCEPT ![c] = "stream"] /\ UNCHANGED result

(* Fault: a close frame without a message counts as an empty response.     *)
TakeCloseAsResult(c) ==
  /\ pc[c] = "recv"
  /\ recvCh[c] # <<>>
  /\ LET f == Head(recvCh[c]) IN
     /\ got' = [got EXCEPT ![c] = Append(@, f.n)]
     /\ \/ f.kind \in {"message", "close"} /\ Succeed(c)
        \/ f.kind # "unknown" /\ Fail(c)
        \/ f.kind = "unknown" /\ UNCHANGED <<pc, snd, result>>
  /\ recvCh' = [recvCh EXCEPT ![c] = Tail(@)]
  /\ UNCHANGED <<envVars, loopVars, sessions, recvClosed, closing, orphans, ctxVars, outVars,
                 peerVars>>

TakeFrame(c) ==
  /\ pc[c] = "recv"
  /\ recvCh[c] # <<>>
  /\ LET f == Head(recvCh[c]) IN
     /\ got' = [got EXCEPT ![c] = Append(@, f.n)]
     /\ \/ f.kind = "message" /\ Succeed(c)
        \/ f.kind # "unknown" /\ Fail(c)  \* close, error, or undecodable
        \/ f.kind = "unknown" /\ UNCHANGED <<pc, snd, result>>
  /\ recvCh' = [recvCh EXCEPT ![c] = Tail(@)]
  /\ UNCHANGED <<envVars, loopVars, sessions, recvClosed, closing, orphans, ctxVars, outVars,
                 peerVars>>

(* The channel is closed and empty, or the context of the call is done.    *)
GiveUp(c) ==
  /\ pc[c] = "recv"
  /\ (recvCh[c] = <<>> /\ c \in recvClosed) \/ Ended(c)
  /\ Fail(c)
  /\ UNCHANGED <<envVars, loopVars, chanVars, closing, got, orphans, ctxVars, outVars, peerVars>>

-----------------------------------------------------------------------------
(* What the user does with a stream.                                       *)

(* Fault: Receive does not look at termErr.                                *)
ReceiveAgain(c) ==
  /\ pc[c] \in {"stream", "done"} /\ Handed(c)
  /\ ShapeOf[c] \in Receives
  /\ pc' = [pc EXCEPT ![c] = "recv"]
  /\ UNCHANGED <<envVars, loopVars, chanVars, snd, result, closing, got, orphans, ctxVars,
                 outVars, peerVars>>

(* Receive; after a terminal error it returns that error at once.          *)
CallReceive(c) ==
  /\ pc[c] \in {"stream", "done"} /\ Handed(c)
  /\ ShapeOf[c] \in Receives
  /\ result[c] = "none"
  /\ pc' = [pc EXCEPT ![c] = "recv"]
  /\ UNCHANGED <<envVars, loopVars, chanVars, snd, result, closing, got, orphans, ctxVars,
                 outVars, peerVars>>

(* Send, and CloseSend of a bidirectional stream.                          *)
CallSend(c) ==
  /\ Handed(c) /\ snd[c] = <<>>
  /\ ShapeOf[c] \in Sends
  /\ Len(queued[c]) <= MaxSends
  /\ \E k \in IF ShapeOf[c] = "bidi" THEN {"message", "close"} ELSE {"message"} :
       snd' = [snd EXCEPT ![c] = <<k>>]
  /\ ShapeOf[c] = "client_stream" => pc[c] = "stream"
  /\ UNCHANGED <<envVars, loopVars, chanVars, pc, result, closing, got, orphans, ctxVars,
                 outVars, peerVars>>

CloseAndReceive(c) ==
  /\ pc[c] = "stream" /\ snd[c] = <<>>
  /\ ShapeOf[c] = "client_stream"
  /\ snd' = [snd EXCEPT ![c] = <<"close">>]
  /\ pc' = [pc EXCEPT ![c] = "finishing"]
  /\ UNCHANGED <<envVars, loopVars, chanVars, result, closing, got, orphans, ctxVars, outVars,
                 peerVars>>

(* ServerStream.Close, also while Receive blocks: removeSession, ...       *)
CloseStream(c) ==
  /\ Handed(c) /\ ShapeOf[c] = "server_stream"
  /\ closing[c] = "no"
  /\ sessions' = sessions \ {c}
  /\ closing' = [closing EXCEPT ![c] = "removed"]
  /\ UNCHANGED <<envVars, loopVars, recvCh, recvClosed, pc, snd, result, got, orphans, ctxVars,
                 outVars, peerVars>>

(* ... the stream's cancel function, and the cancel frame.                 *)
CancelStream(c) ==
  /\ closing[c] = "removed"
  /\ cancelled' = cancelled \union {c}
  /\ closing' = [closing EXCEPT ![c] = "done"]
  /\ snd' = [snd EXCEPT ![c] = <<"cancel">>]
  /\ UNCHANGED <<envVars, loopVars, chanVars, pc, result, got, orphans, dead, outVars, peerVars>>

-----------------------------------------------------------------------------
Environment == Disconnect \/ BaseCancel \/ \E c \in Calls : CallerCancel(c)

Reader ==
  \/ \E c \in Calls, k \in Kinds : ReadFrame(c, k)
  \/ Deliver \/ ReadLoopEnds

Writer == WriterTake \/ WriterWrote \/ WriteLoopEnds

Closer == CloseSessions \/ CloseDone

(* A call's own code on its two sides, and what its user decides.          *)
Sending(c) == SendFrame(c) \/ SendFails(c)
Receiving(c) == TakeFrame(c) \/ GiveUp(c) \/ RemoveSession(c)

User(c) ==
  \/ NewSession(c) \/ MarshalFails(c)
  \/ CallReceive(c) \/ CallSend(c) \/ CloseAndReceive(c) \/ CloseStream(c)

Next ==
  \/ Environment
  \/ Reader
  \/ Writer
  \/ Closer
  \/ \E c \in Calls : Sending(c) \/ Receiving(c) \/ CancelStream(c) \/ User(c)

Spec == Init /\ [][Next]_vars

-----------------------------------------------------------------------------
(* Fairness.  A goroutine that is sending gets its turn; while another one *)
(* can move, one does.  (Each of the other steps uses up a frame, a call   *)
(* or the connection: none that stays possible is put off for ever.)  The  *)
(* server, the network and the users are left free, ...                    *)
SendersMove == \A c \in Calls : WF_vars(Sending(c))
Progress ==
  \/ Deliver \/ ReadLoopEnds \/ WriterTake \/ WriteLoopEnds \/ Closer
  \/ \E c \in Calls : Receiving(c) \/ CancelStream(c)

FairSpec == Spec /\ SendersMove /\ WF_vars(Progress)

(* ... or the user who holds a stream receives until it ends, and at the   *)
(* latest then closes it.                                                  *)
Consume(c) == (closing[c] = "no" /\ CallReceive(c)) \/ CloseAndReceive(c) \/ CloseStream(c)

UserSpec ==
  /\ Spec /\ SendersMove
  /\ WF_vars(Progress \/ \E c \in Calls : Consume(c))
=============================================================================
