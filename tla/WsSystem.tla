------------------------------ MODULE WsSystem ------------------------------
(***************************************************************************)
(* One WebSocket connection with the two programs of transport/ws at its   *)
(* ends: a client's Conn (WsClient) and a server's serve (WsServer).       *)
(*                                                                         *)
(* Each end keeps its own variables and takes its own steps; what joins    *)
(* them is one ordered stream of frames in each direction.  The frames     *)
(* that the two components leave to an arbitrary peer are here the ones    *)
(* the other end wrote.  Either end may lose the connection at any time,   *)
(* and with it what is under way; an end that is left notices later.       *)
(*                                                                         *)
(* A call invokes the procedure of its own name, and its id is the id of   *)
(* its session: the client draws ids from a counter (client.go:97).        *)
(***************************************************************************)
EXTENDS Naturals, Sequences, SequencesExt

CONSTANTS
  Calls, ShapeOf,     (* the calls made on the connection, and their shapes *)
  Sess, MaxInflight,  (* of the server, see WsServer                       *)
  RecvCap, WriteCap,  (* capacities of the channels, the same at both ends *)
  NetCap,             (* frames the network holds in one direction         *)
  MaxSends,           (* bound on the frames a stream's user sends, and on *)
                      (* those its handler sends                           *)
  MaxFrames,          (* bound on the frames an end reads, met in no run:  *)
                      (* the other end's bounds are                        *)
  None

VARIABLES
  c2s, s2c,  (* frames under way to the server, and to the client          *)
  answers,   (* history: what the server queued for each id, and why       *)
  \* The client, see WsClient.
  cConn, cCtx, cReader, cWriter, closer, cTable, cRecvCh, cRecvClosed, cWriteCh,
  cPc, snd, result, closing, dead, cCancelled, sent, opened, cGot, queued, orphans,
  \* The server, see WsServer.
  sConn, sCtx, sReader, sem, sTable, sPc, idOf, shape, sRecvCh, sRecvClosed, halfClosed,
  sCancelled, pend, sWriteCh, writeEnd, sWriter, frames, routed, sGot, replied

clientVars ==
  <<cConn, cCtx, cReader, cWriter, closer, cTable, cRecvCh, cRecvClosed, cWriteCh, cPc, snd,
    result, closing, dead, cCancelled, sent, opened, cGot, queued, orphans>>
serverVars ==
  <<sConn, sCtx, sReader, sem, sTable, sPc, idOf, shape, sRecvCh, sRecvClosed, halfClosed,
    sCancelled, pend, sWriteCh, writeEnd, sWriter, frames, routed, sGot, replied>>
netVars == <<c2s, s2c>>
vars    == <<netVars, answers, clientVars, serverVars>>

C == INSTANCE WsClient WITH
  conn <- cConn, ctx <- cCtx, reader <- cReader, writer <- cWriter, sessions <- cTable,
  recvCh <- cRecvCh, recvClosed <- cRecvClosed, writeCh <- cWriteCh, pc <- cPc,
  cancelled <- cCancelled, got <- cGot, NoCall <- None

S == INSTANCE WsServer WITH
  conn <- sConn, ctx <- sCtx, reader <- sReader, writer <- sWriter, sessions <- sTable,
  recvCh <- sRecvCh, chClosed <- sRecvClosed, writeCh <- sWriteCh, pc <- sPc,
  closed <- halfClosed, cancelled <- sCancelled, got <- sGot,
  Ids <- Calls, Procs <- Calls

ASSUME SystemAssumption ==
  /\ C!ClientAssumption
  /\ S!ConstantsAssumption

Init ==
  /\ C!Init /\ S!Init
  /\ c2s = <<>> /\ s2c = <<>>
  /\ answers = [c \in Calls |-> <<>>]

-----------------------------------------------------------------------------
(* The network.  A frame that is written is under way until the other end  *)
(* reads it; a write blocks while the network is full.                     *)

ClientWrites ==
  /\ Len(c2s) < NetCap
  /\ C!WriterWrote
  /\ c2s' = Append(c2s, [call |-> cWriter.call, kind |-> cWriter.kind])
  /\ UNCHANGED <<s2c, answers, serverVars>>

ServerReads ==
  /\ c2s # <<>>
  /\ LET f == Head(c2s) IN
     \/ f.kind = "open" /\ S!ReadOpen(f.call, f.call, ShapeOf[f.call])
     \/ f.kind = "message" /\ S!ReadMessage(f.call)
     \/ f.kind = "close" /\ S!ReadClose(f.call)
     \/ f.kind = "cancel" /\ S!ReadCancel(f.call)
  /\ c2s' = Tail(c2s)
  /\ UNCHANGED <<s2c, answers, clientVars>>

ServerWrites ==
  /\ Len(s2c) < NetCap
  /\ S!WriterWrote
  /\ s2c' = Append(s2c, sWriter.frame)
  /\ UNCHANGED <<c2s, answers, clientVars>>

ClientReads ==
  /\ s2c # <<>>
  /\ C!ReadFrame(Head(s2c).id, Head(s2c).kind)
  /\ s2c' = Tail(s2c)
  /\ UNCHANGED <<c2s, answers, serverVars>>

(* One end finds that the other has gone.                                  *)
ClientNotices == sConn = "down" /\ C!Disconnect /\ UNCHANGED <<netVars, answers, serverVars>>
ServerNotices == cConn = "down" /\ S!Disconnect /\ UNCHANGED <<netVars, answers, clientVars>>

-----------------------------------------------------------------------------
(* Every other step of one end.                                            *)

(* The frame a step of the server has put into its write channel, if any.  *)
Record(cause) ==
  answers' =
    IF Len(sWriteCh') <= Len(sWriteCh) THEN answers
    ELSE LET f == Last(sWriteCh')
         IN  [answers EXCEPT ![f.id] = Append(@, [kind |-> f.kind, cause |-> cause])]

ServerThread(A) == A /\ UNCHANGED <<netVars, clientVars>>

ServerReader   == ServerThread(S!Reader /\ Record(sReader.code))
Serving(s)     == ServerThread(S!Transport(s) /\ Record("handler"))
HandlerCode(s) == ServerThread(S!Handler(s) /\ UNCHANGED answers)
ServerShutdown == ServerThread(S!Shutdown /\ UNCHANGED answers)
ServerWriter   ==
  ServerThread((S!WriterTake \/ S!WriterFailed \/ S!WriterDrain \/ S!WriterEnd)
               /\ UNCHANGED answers)

ClientThread(A) == A /\ UNCHANGED <<netVars, answers, serverVars>>

ClientReader == ClientThread(C!Deliver \/ C!ReadLoopEnds)
ClientWriter == ClientThread(C!WriterTake \/ C!WriteLoopEnds)
Closing      == ClientThread(C!Closer)
Sending(c)   == ClientThread(C!Sending(c))
Receiving(c) == ClientThread(C!Receiving(c))
Aborting(c)  == ClientThread(C!CancelStream(c))
User(c)      == ClientThread(C!User(c))

(* Connections break, contexts are cancelled.                              *)
Faults ==
  \/ ClientThread(C!Environment)
  \/ ServerThread(S!Environment /\ UNCHANGED answers)

Next ==
  \/ ClientWrites \/ ServerReads \/ ServerWrites \/ ClientReads
  \/ ClientNotices \/ ServerNotices
  \/ ServerReader \/ ServerShutdown \/ ServerWriter
  \/ \E s \in Sess : Serving(s) \/ HandlerCode(s)
  \/ ClientReader \/ ClientWriter \/ Closing
  \/ \E c \in Calls : Sending(c) \/ Receiving(c) \/ Aborting(c) \/ User(c)
  \/ Faults

Spec == Init /\ [][Next]_vars

-----------------------------------------------------------------------------
(* Fairness.  Handlers return, whatever else they could go on doing; but a *)
(* server stream may last until its context is cancelled.  Users receive   *)
(* from the streams they hold, and need do nothing else.  While a          *)
(* goroutine can move or a frame arrive, something does: each of these     *)
(* steps uses up a frame, a call or a connection, so none that stays       *)
(* possible is put off for ever.                                           *)
Returns(s) ==
  /\ shape[s] = "server_stream" => S!Ended(s)
  /\ ServerThread(S!HandlerReturn(s) /\ UNCHANGED answers)

Receives(c) ==
  C!CloseAndReceive(c) \/ (closing[c] = "no" /\ C!CallReceive(c))

Progress ==
  \/ ClientWrites \/ ServerReads \/ ServerWrites \/ ClientReads
  \/ ClientNotices \/ ServerNotices
  \/ ServerReader \/ ServerShutdown \/ ServerWriter
  \/ \E s \in Sess : Serving(s) \/ Returns(s)
  \/ ClientReader \/ ClientWriter \/ Closing
  \/ \E c \in Calls :
       Sending(c) \/ Receiving(c) \/ Aborting(c) \/ ClientThread(Receives(c))

FairSpec ==
  /\ Spec
  /\ WF_vars(Progress)
  /\ SF_vars(\E s \in Sess : Returns(s))
=============================================================================
