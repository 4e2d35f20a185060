--------------------------- MODULE WsSystemProofs ---------------------------
(***************************************************************************)
(* Client and server together carry out calls as RemoteCalls says, for     *)
(* every value of the constants: any number of calls, of any shapes, with  *)
(* channels and a network of any capacity.                                 *)
(*                                                                         *)
(* Each end alone keeps the invariants proved of it against any peer; what *)
(* is added here is about the frames between the two.                      *)
(***************************************************************************)
EXTENDS WsSystemProperties, SequenceLemmas

CP == INSTANCE WsClientProofs WITH
  conn <- cConn, ctx <- cCtx, reader <- cReader, writer <- cWriter, sessions <- cTable,
  recvCh <- cRecvCh, recvClosed <- cRecvClosed, writeCh <- cWriteCh, pc <- cPc,
  cancelled <- cCancelled, got <- cGot, NoCall <- None

SP == INSTANCE WsServerProofs WITH
  conn <- sConn, ctx <- sCtx, reader <- sReader, writer <- sWriter, sessions <- sTable,
  recvCh <- sRecvCh, chClosed <- sRecvClosed, writeCh <- sWriteCh, pc <- sPc,
  closed <- halfClosed, cancelled <- sCancelled, got <- sGot,
  Ids <- Calls, Procs <- Calls

-----------------------------------------------------------------------------
(* The two ends are the programs that the proofs about each end speak of.  *)

LEMMA ClientInit == C!Init => CP!Init
BY DEF C!Init, CP!Init, C!Idle, CP!Idle

LEMMA ServerInit == S!Init => SP!Init
BY DEF S!Init, SP!Init, S!Idle, SP!Idle

LEMMA ClientNext == C!Next => CP!Next
BY DEF C!Shapes, C!OneResponse, C!Receives, C!Sends, C!envVars, C!loopVars, C!chanVars,
       C!callVars, C!ctxVars, C!outVars, C!peerVars, C!vars, C!Kinds, C!Out, C!Opening,
       C!Handed, C!Idle, C!Disconnect, C!BaseCancel, C!CallerCancel, C!ReadFrame,
       C!HasRoom, C!Deliver, C!ReadLoopEnds, C!WriterTake, C!WriterWrote,
       C!WriteLoopEnds, C!LoopsDone, C!CloseSessions, C!CloseDone, C!AllSent,
       C!SendFrame, C!SendFails, C!NewSession, C!MarshalFails, C!RemoveSession, C!Ended,
       C!Fail, C!Succeed, C!TakeFrame, C!GiveUp, C!CallReceive, C!CallSend,
       C!CloseAndReceive, C!CloseStream, C!CancelStream, C!Environment, C!Reader,
       C!Writer, C!Closer, C!Sending, C!Receiving, C!User, C!Next, CP!Shapes,
       CP!OneResponse, CP!Receives, CP!Sends, CP!envVars, CP!loopVars, CP!chanVars,
       CP!callVars, CP!ctxVars, CP!outVars, CP!peerVars, CP!vars, CP!Kinds, CP!Out,
       CP!Opening, CP!Handed, CP!Idle, CP!Disconnect, CP!BaseCancel, CP!CallerCancel,
       CP!ReadFrame, CP!HasRoom, CP!Deliver, CP!ReadLoopEnds, CP!WriterTake,
       CP!WriterWrote, CP!WriteLoopEnds, CP!LoopsDone, CP!CloseSessions, CP!CloseDone,
       CP!AllSent, CP!SendFrame, CP!SendFails, CP!NewSession, CP!MarshalFails,
       CP!RemoveSession, CP!Ended, CP!Fail, CP!Succeed, CP!TakeFrame, CP!GiveUp,
       CP!CallReceive, CP!CallSend, CP!CloseAndReceive, CP!CloseStream, CP!CancelStream,
       CP!Environment, CP!Reader, CP!Writer, CP!Closer, CP!Sending, CP!Receiving,
       CP!User, CP!Next

LEMMA ServerNext == S!Next => SP!Next
BY DEF S!Shapes, S!OneRequest, S!ReadsMany, S!SendsMany, S!envVars, S!tableVars,
       S!sessVars, S!chanVars, S!outVars, S!vars, S!HoldsSlot, S!Live, S!FirstStep,
       S!Replies, S!Idle, S!Disconnect, S!BaseCancel, S!NextFrame, S!Reject,
       S!ReadIgnored, S!SlotFree, S!ReadOpen, S!Taken, S!RejectDuplicate,
       S!StartSession, S!Late, S!ReadMessage, S!HasRoom, S!RouteMessage, S!ReadClose,
       S!CloseRecvCh, S!ReadCancel, S!ReaderWrite, S!ReadFail, S!CancelContext,
       S!CloseAllSessions, S!HandlersDone, S!CloseWriteCh, S!Return, S!WriterTake,
       S!WriterWrote, S!WriterFailed, S!WriterDrain, S!WriterEnd, S!Goto, S!TakeMessage,
       S!TakeEof, S!Finish, S!RecvExactlyOne, S!VerifyEmpty, S!DrainRest, S!CallReceive,
       S!ReceiveRequest, S!CallSend, S!HandlerReturn, S!AfterWrite, S!WriteFrame,
       S!SkipFrame, S!DeleteSession, S!ReleaseSlot, S!PeerFrame, S!Environment,
       S!Reader, S!Shutdown, S!Writer, S!Transport, S!Handler, S!Returned, S!Next,
       SP!Shapes, SP!OneRequest, SP!ReadsMany, SP!SendsMany, SP!envVars, SP!tableVars,
       SP!sessVars, SP!chanVars, SP!outVars, SP!vars, SP!HoldsSlot, SP!Live,
       SP!FirstStep, SP!Replies, SP!Idle, SP!Disconnect, SP!BaseCancel, SP!NextFrame,
       SP!Reject, SP!ReadIgnored, SP!SlotFree, SP!ReadOpen, SP!Taken,
       SP!RejectDuplicate, SP!StartSession, SP!Late, SP!ReadMessage, SP!HasRoom,
       SP!RouteMessage, SP!ReadClose, SP!CloseRecvCh, SP!ReadCancel, SP!ReaderWrite,
       SP!ReadFail, SP!CancelContext, SP!CloseAllSessions, SP!HandlersDone,
       SP!CloseWriteCh, SP!Return, SP!WriterTake, SP!WriterWrote, SP!WriterFailed,
       SP!WriterDrain, SP!WriterEnd, SP!Goto, SP!TakeMessage, SP!TakeEof, SP!Finish,
       SP!RecvExactlyOne, SP!VerifyEmpty, SP!DrainRest, SP!CallReceive,
       SP!ReceiveRequest, SP!CallSend, SP!HandlerReturn, SP!AfterWrite, SP!WriteFrame,
       SP!SkipFrame, SP!DeleteSession, SP!ReleaseSlot, SP!PeerFrame, SP!Environment,
       SP!Reader, SP!Shutdown, SP!Writer, SP!Transport, SP!Handler, SP!Returned, SP!Next

(* What has been proved of each end holds of it here.                      *)
LEMMA Assumptions == CP!ClientAssumption /\ SP!ConstantsAssumption
BY SystemAssumption
   DEF C!ClientAssumption, CP!ClientAssumption, C!Shapes, CP!Shapes,
       S!ConstantsAssumption, SP!ConstantsAssumption, S!Shapes, SP!Shapes, S!Codes, SP!Codes

LEMMA ClientStarts == CP!Init => CP!IInv
BY Assumptions, CP!InitIInv DEF CP!InitIInv, CP!ClientAssumption, CP!Shapes

LEMMA ClientKeeps == CP!IInv /\ [CP!Next]_(CP!vars) => CP!IInv'
BY Assumptions, CP!StepIInv DEF CP!StepIInv, CP!ClientAssumption, CP!Shapes

LEMMA ServerStarts == SP!Init => SP!IInv
BY Assumptions, SP!InitIInv DEF SP!InitIInv, SP!ConstantsAssumption, SP!Shapes, SP!Codes

LEMMA ServerKeeps == SP!IInv /\ [SP!Next]_(SP!vars) => SP!IInv'
BY Assumptions, SP!StepIInv DEF SP!StepIInv, SP!ConstantsAssumption, SP!Shapes, SP!Codes

LEMMA ServerAnswers == SP!Spec => []SP!AnswerLocals
BY Assumptions, SP!AnswersCorrect DEF SP!AnswersCorrect, SP!ConstantsAssumption, SP!Shapes, SP!Codes

LEMMA ServerMessages == SP!Spec => []SP!MessageInv
BY Assumptions, SP!MessagesCorrect DEF SP!MessagesCorrect, SP!ConstantsAssumption, SP!Shapes, SP!Codes

LEMMA ServerRequests == SP!Spec => []SP!AnswersRequest
BY Assumptions, SP!AnswersCorrectly DEF SP!AnswersCorrectly, SP!ConstantsAssumption, SP!Shapes, SP!Codes

LEMMA ServerSteps ==
  SP!IInv /\ [SP!Next]_(SP!vars) =>
    SP!Quiet \/ SP!StartSession \/ \E s \in Sess : SP!Transport(s) \/ SP!Handler(s)
BY Assumptions, SP!Steps DEF SP!Steps, SP!ConstantsAssumption, SP!Shapes, SP!Codes

LEMMA SessionSteps ==
  ASSUME SP!IInv, SP!AnswerLocals, NEW s \in Sess, SP!Transport(s) \/ SP!Handler(s)
  PROVE  SP!Silent(s) \/ SP!Queued(s) \/ SP!Left(s)
BY Assumptions, SP!SessionSteps DEF SP!SessionSteps, SP!ConstantsAssumption, SP!Shapes, SP!Codes

-----------------------------------------------------------------------------
(* Channels and the network: what a frame appended or taken leaves.        *)

LEMMA FrameAdded ==
  ASSUME NEW F, NEW q \in Seq(F), NEW e \in F
  PROVE  /\ Append(q, e) \in Seq(F)
         /\ Range(Append(q, e)) = Range(q) \union {e}
         /\ \A f : AtMostOne(q, f) /\ (e = f => f \notin Range(q)) => AtMostOne(Append(q, e), f)
<1> DEFINE r == Append(q, e)
<1>1. /\ r \in Seq(F) /\ Len(r) = Len(q) + 1 /\ Len(q) \in Nat
      /\ DOMAIN q = 1 .. Len(q) /\ DOMAIN r = 1 .. Len(q) + 1
      /\ \A k \in DOMAIN q : r[k] = q[k]
      /\ r[Len(q) + 1] = e
  OBVIOUS
<1> HIDE DEF r
<1>2. \A k \in DOMAIN r : k \in DOMAIN q \/ k = Len(q) + 1
  BY <1>1
<1>3. DOMAIN q \subseteq DOMAIN r /\ Len(q) + 1 \in DOMAIN r
  BY <1>1
<1>4. Range(r) = Range(q) \union {e}
  BY <1>1, <1>2, <1>3 DEF Range
<1>5. ASSUME NEW f, AtMostOne(q, f), e = f => f \notin Range(q),
             NEW k \in DOMAIN r, NEW l \in DOMAIN r, r[k] = f, r[l] = f
      PROVE  k = l
  <2>1. CASE k \in DOMAIN q /\ l \in DOMAIN q
    BY <1>1, <1>5, <2>1 DEF AtMostOne
  <2>2. CASE k \in DOMAIN q /\ l = Len(q) + 1
    BY <1>1, <1>5, <2>2 DEF Range
  <2>3. CASE l \in DOMAIN q /\ k = Len(q) + 1
    BY <1>1, <1>5, <2>3 DEF Range
  <2> QED
    BY <1>2, <1>5, <2>1, <2>2, <2>3
<1> QED
  BY <1>1, <1>4, <1>5 DEF AtMostOne, r

LEMMA FrameTaken ==
  ASSUME NEW F, NEW q \in Seq(F), q # <<>>
  PROVE  /\ Tail(q) \in Seq(F) /\ Head(q) \in F
         /\ Range(q) = Range(Tail(q)) \union {Head(q)}
         /\ \A f : AtMostOne(q, f) => /\ AtMostOne(Tail(q), f)
                                      /\ Head(q) = f => f \notin Range(Tail(q))
<1> DEFINE r == Tail(q)
<1>1. /\ r \in Seq(F) /\ Head(q) \in F /\ Head(q) = q[1]
      /\ Len(q) \in Nat /\ Len(q) > 0 /\ Len(r) = Len(q) - 1
      /\ DOMAIN q = 1 .. Len(q) /\ DOMAIN r = 1 .. Len(q) - 1
      /\ \A k \in 1 .. Len(q) - 1 : r[k] = q[k + 1]
  OBVIOUS
<1> HIDE DEF r
<1>2. \A k \in DOMAIN r : k \in Int /\ k + 1 \in DOMAIN q /\ k + 1 # 1 /\ r[k] = q[k + 1]
  BY <1>1
<1>3. \A k \in DOMAIN q : k = 1 \/ (k - 1 \in DOMAIN r /\ r[k - 1] = q[k])
  BY <1>1
<1>4. 1 \in DOMAIN q
  BY <1>1
<1>5. Range(q) = Range(r) \union {Head(q)}
  <2>1. ASSUME NEW k \in DOMAIN q PROVE q[k] \in Range(r) \union {Head(q)}
    BY <1>1, <1>3, <2>1 DEF Range
  <2>2. ASSUME NEW k \in DOMAIN r PROVE r[k] \in Range(q)
    BY <1>2, <2>2 DEF Range
  <2>3. Head(q) \in Range(q)
    BY <1>1, <1>4 DEF Range
  <2> QED
    BY <2>1, <2>2, <2>3 DEF Range
<1>6. ASSUME NEW f, AtMostOne(q, f)
      PROVE  AtMostOne(r, f) /\ (Head(q) = f => f \notin Range(r))
  <2>1. ASSUME NEW k \in DOMAIN r, NEW l \in DOMAIN r, r[k] = f, r[l] = f PROVE k = l
    <3>1. k + 1 = l + 1
      BY <1>2, <1>6, <2>1 DEF AtMostOne
    <3> QED
      BY <1>2, <2>1, <3>1
  <2>2. ASSUME Head(q) = f, NEW k \in DOMAIN r, r[k] = f PROVE FALSE
    BY <1>1, <1>2, <1>4, <1>6, <2>2 DEF AtMostOne
  <2> QED
    BY <2>1, <2>2 DEF AtMostOne, Range
<1> QED
  BY <1>1, <1>5, <1>6 DEF r

-----------------------------------------------------------------------------
(* Every step of the connection is one of each end, or leaves it alone.    *)

Ends == CP!IInv /\ SP!IInv /\ NetOK

LEMMA FrameTypes ==
  ASSUME Ends
  PROVE  /\ cWriteCh \in Seq(Request) /\ sWriteCh \in Seq(Response)
         /\ cWriter.at = "writing" => [call |-> cWriter.call, kind |-> cWriter.kind] \in Request
         /\ \A f \in Request : f.call \in Calls /\ f.kind \in C!Out
         /\ \A f \in Response : f.id \in Calls /\ f.kind \in C!Kinds
<1>1. /\ cWriteCh \in Seq(CP!Queued) /\ CP!Queued = Request
      /\ cWriter \in [at : {"idle", "writing", "done"}, call : Calls \union {None}, kind : C!Out]
      /\ cWriter.at = "writing" => cWriter.call \in Calls
  BY DEF Ends, CP!IInv, CP!TypeOK, CP!OutOK, CP!LoopsOK, CP!HeldFrames, CP!Queued, Request,
         C!Out, CP!Out
<1>2. sWriteCh \in Seq(SP!Frame) /\ SP!Frame = Response
  BY DEF Ends, SP!IInv, SP!TypeOK, SP!OutOK, SP!Frame, Response, S!Kinds, SP!Kinds
<1> QED
  BY <1>1, <1>2 DEF Request, Response, S!Kinds, C!Kinds

LEMMA EndSteps ==
  ASSUME Ends, [Next]_vars
  PROVE  [C!Next]_clientVars /\ [S!Next]_serverVars
<1>1. /\ \A f \in Request : f.call \in Calls
      /\ \A f \in Response : f.id \in Calls /\ f.kind \in C!Kinds
      /\ c2s \in Seq(Request) /\ s2c \in Seq(Response)
  BY FrameTypes DEF Ends, NetOK
<1>2. /\ c2s # <<>> => Head(c2s).call \in Calls
      /\ s2c # <<>> => Head(s2c).id \in Calls /\ Head(s2c).kind \in C!Kinds
  <2>1. /\ c2s # <<>> => Head(c2s) \in Request
        /\ s2c # <<>> => Head(s2c) \in Response
    BY <1>1
  <2> QED
    BY <1>1, <2>1
<1>3. \A c \in Calls : ShapeOf[c] \in S!Shapes
  BY SystemAssumption DEF S!ConstantsAssumption
<1>4. CASE ClientWrites
  BY <1>4 DEF ClientWrites, C!Next, C!Writer
<1>5. CASE ServerReads
  <2> DEFINE f == Head(c2s)
  <2>1. /\ UNCHANGED clientVars /\ f.call \in Calls /\ ShapeOf[f.call] \in S!Shapes
        /\ \/ S!ReadOpen(f.call, f.call, ShapeOf[f.call])
           \/ S!ReadMessage(f.call) \/ S!ReadClose(f.call) \/ S!ReadCancel(f.call)
    BY <1>2, <1>3, <1>5 DEF ServerReads
  <2>2. S!PeerFrame
    BY <2>1 DEF S!PeerFrame
  <2> QED
    BY <2>1, <2>2 DEF S!Next
<1>6. CASE ServerWrites
  BY <1>6 DEF ServerWrites, S!Next, S!Writer
<1>7. CASE ClientReads
  <2>1. UNCHANGED serverVars /\ \E c \in Calls, k \in C!Kinds : C!ReadFrame(c, k)
    BY <1>2, <1>7 DEF ClientReads
  <2> QED
    BY <2>1 DEF C!Next, C!Reader
<1>8. CASE ClientNotices \/ ServerNotices
  BY <1>8 DEF ClientNotices, ServerNotices, C!Next, C!Environment, S!Next, S!Environment
<1>9. CASE ServerReader \/ ServerShutdown \/ ServerWriter
  BY <1>9 DEF ServerReader, ServerShutdown, ServerWriter, ServerThread, S!Next, S!Writer
<1>10. CASE \E s \in Sess : Serving(s) \/ HandlerCode(s)
  BY <1>10 DEF Serving, HandlerCode, ServerThread, S!Next
<1>11. CASE ClientReader \/ ClientWriter \/ Closing
  BY <1>11 DEF ClientReader, ClientWriter, Closing, ClientThread, C!Next, C!Reader, C!Writer
<1>12. CASE \E c \in Calls : Sending(c) \/ Receiving(c) \/ Aborting(c) \/ User(c)
  BY <1>12 DEF Sending, Receiving, Aborting, User, ClientThread, C!Next
<1>13. CASE Faults
  BY <1>13 DEF Faults, ClientThread, ServerThread, C!Next, S!Next
<1>14. CASE UNCHANGED vars
  BY <1>14 DEF vars
<1> QED
  BY <1>4, <1>5, <1>6, <1>7, <1>8, <1>9, <1>10, <1>11, <1>12, <1>13, <1>14 DEF Next

LEMMA BothStep ==
  ASSUME Ends, [Next]_vars
  PROVE  [CP!Next]_(CP!vars) /\ [SP!Next]_(SP!vars)
<1>1. UNCHANGED clientVars => UNCHANGED CP!vars
  BY DEF clientVars, CP!vars, CP!envVars, CP!loopVars, CP!chanVars, CP!callVars, CP!ctxVars,
         CP!outVars, CP!peerVars
<1>2. UNCHANGED serverVars => UNCHANGED SP!vars
  BY DEF serverVars, SP!vars, SP!envVars, SP!tableVars, SP!sessVars, SP!chanVars, SP!outVars
<1> QED
  BY <1>1, <1>2, EndSteps, ClientNext, ServerNext

LEMMA NetStep ==
  ASSUME Ends, [Next]_vars
  PROVE  NetOK'
<1>1. /\ c2s \in Seq(Request) /\ s2c \in Seq(Response) /\ sWriteCh \in Seq(Response)
      /\ sWriter.at = "writing" => sWriter.frame \in Response
      /\ cWriter.at = "writing" => [call |-> cWriter.call, kind |-> cWriter.kind] \in Request
  BY FrameTypes DEF Ends, NetOK
<1>2. c2s' \in Seq(Request)
  <2>1. \/ c2s' = c2s \/ (c2s # <<>> /\ c2s' = Tail(c2s))
        \/ /\ cWriter.at = "writing"
           /\ c2s' = Append(c2s, [call |-> cWriter.call, kind |-> cWriter.kind])
    BY DEF Next, vars, netVars, ClientWrites, ServerReads, ServerWrites, ClientReads,
           ClientNotices, ServerNotices, ServerReader, ServerShutdown, ServerWriter, Serving,
           HandlerCode, ClientReader, ClientWriter, Closing, Sending, Receiving, Aborting, User,
           Faults, ClientThread, ServerThread, C!WriterWrote
  <2>2. CASE c2s # <<>> /\ c2s' = Tail(c2s)
    BY <1>1, <2>2, FrameTaken
  <2>3. CASE /\ cWriter.at = "writing"
             /\ c2s' = Append(c2s, [call |-> cWriter.call, kind |-> cWriter.kind])
    BY <1>1, <2>3, FrameAdded
  <2> QED
    BY <1>1, <2>1, <2>2, <2>3
<1>3. s2c' \in Seq(Response)
  <2>1. \/ s2c' = s2c \/ (s2c # <<>> /\ s2c' = Tail(s2c))
        \/ sWriter.at = "writing" /\ s2c' = Append(s2c, sWriter.frame)
    BY DEF Next, vars, netVars, ClientWrites, ServerReads, ServerWrites, ClientReads,
           ClientNotices, ServerNotices, ServerReader, ServerShutdown, ServerWriter, Serving,
           HandlerCode, ClientReader, ClientWriter, Closing, Sending, Receiving, Aborting, User,
           Faults, ClientThread, ServerThread, S!WriterWrote
  <2>2. CASE s2c # <<>> /\ s2c' = Tail(s2c)
    BY <1>1, <2>2, FrameTaken
  <2>3. CASE sWriter.at = "writing" /\ s2c' = Append(s2c, sWriter.frame)
    BY <1>1, <2>3, FrameAdded
  <2> QED
    BY <1>1, <2>1, <2>2, <2>3
<1>4. sWriter'.at = "writing" => sWriter'.frame \in Response
  <2>1. SP!Writer \/ UNCHANGED sWriter
    BY BothStep DEF SP!Next, SP!PeerFrame, SP!ReadIgnored, SP!ReadOpen, SP!ReadMessage,
       SP!ReadClose, SP!ReadCancel, SP!Environment, SP!Disconnect, SP!BaseCancel, SP!Reader,
       SP!StartSession, SP!RouteMessage, SP!CloseRecvCh, SP!ReaderWrite, SP!Shutdown,
       SP!ReadFail, SP!CancelContext, SP!CloseAllSessions, SP!CloseWriteCh, SP!Return,
       SP!Transport, SP!Handler, SP!RecvExactlyOne, SP!VerifyEmpty, SP!DrainRest,
       SP!ReceiveRequest, SP!WriteFrame, SP!SkipFrame, SP!DeleteSession, SP!ReleaseSlot,
       SP!CallReceive, SP!CallSend, SP!HandlerReturn, SP!Returned, SP!vars, SP!outVars
  <2>2. sWriteCh # <<>> => Head(sWriteCh) \in Response
    BY <1>1
  <2>3. CASE SP!Writer
    BY <1>1, <2>2, <2>3 DEF SP!Writer, SP!WriterTake, SP!WriterWrote, SP!WriterFailed,
       SP!WriterDrain, SP!WriterEnd
  <2>4. CASE UNCHANGED sWriter
    BY <1>1, <2>4
  <2> QED
    BY <2>1, <2>3, <2>4
<1> QED
  BY <1>2, <1>3, <1>4 DEF NetOK

LEMMA EndsStep == Ends /\ [Next]_vars => Ends'
BY BothStep, NetStep, ClientKeeps, ServerKeeps DEF Ends

LEMMA EndsInit == Init => Ends
BY ClientInit, ClientStarts, ServerInit, ServerStarts DEF Init, Ends, NetOK, S!Init
-----------------------------------------------------------------------------
(* Where the open frames go.  Most steps of an end move none: ...          *)

ClientCalm ==
  /\ UNCHANGED <<cWriteCh, cWriter, opened, queued>>
  /\ \A c \in Calls :
       /\ cPc'[c] = "idle" => cPc[c] = "idle"
       /\ \/ snd'[c] = snd[c]
          \/ \A k \in DOMAIN snd'[c] : snd'[c][k] # "open"
          \/ cPc[c] = "idle" /\ snd'[c] = C!Opening(c)

ServerCalm ==
  /\ sReader'.at = "start" => sReader' = sReader
  /\ \A c \in Calls : SessionsOf(c)' = SessionsOf(c)

(* What the ends' invariants say of the variables used below.              *)
LEMMA ClientTypes ==
  ASSUME CP!IInv
  PROVE  /\ cPc \in [Calls -> CP!CallAt]
         /\ snd \in [Calls -> Seq(C!Out)] /\ queued \in [Calls -> Seq(C!Out)]
         /\ result \in [Calls -> {"none", "ok", "err"}]
         /\ cRecvCh \in [Calls -> Seq(CP!Received)]
         /\ cWriteCh \in Seq(Request) /\ opened \subseteq Calls
         /\ cWriter.at = "writing" => [call |-> cWriter.call, kind |-> cWriter.kind] \in Request
<1>1. Request = CP!Queued /\ C!Out = CP!Out
  BY DEF Request, CP!Queued, C!Out, CP!Out
<1>2. /\ cWriter \in [at : {"idle", "writing", "done"}, call : Calls \union {None}, kind : CP!Out]
      /\ cWriter.at = "writing" => cWriter.call \in Calls
  BY DEF CP!IInv, CP!TypeOK, CP!LoopsOK, CP!HeldFrames
<1>3. cWriter.at = "writing" => [call |-> cWriter.call, kind |-> cWriter.kind] \in Request
  BY <1>1, <1>2 DEF Request
<1> QED
  BY <1>1, <1>3 DEF CP!IInv, CP!TypeOK, CP!CallsOK, CP!ChannelsOK, CP!OutOK, CP!PeerOK

LEMMA CalmCall ==
  ASSUME CP!IInv, NEW c \in Calls,
         \/ C!SendFails(c) \/ C!TakeFrame(c) \/ C!GiveUp(c) \/ C!RemoveSession(c)
         \/ C!CancelStream(c) \/ C!User(c)
  PROVE  ClientCalm
<1>1. /\ cPc \in [Calls -> CP!CallAt] /\ snd \in [Calls -> Seq(C!Out)]
  BY ClientTypes
<1>2. ASSUME NEW ks, snd' = [snd EXCEPT ![c] = ks],
             \/ \A k \in DOMAIN ks : ks[k] # "open"
             \/ cPc[c] = "idle" /\ ks = C!Opening(c)
      PROVE  \A d \in Calls : \/ snd'[d] = snd[d]
                              \/ \A k \in DOMAIN snd'[d] : snd'[d][k] # "open"
                              \/ cPc[d] = "idle" /\ snd'[d] = C!Opening(d)
  BY <1>1, <1>2
<1>3. ASSUME NEW at, cPc' = [cPc EXCEPT ![c] = at], at # "idle"
      PROVE  \A d \in Calls : cPc'[d] = "idle" => cPc[d] = "idle"
  BY <1>1, <1>3
<1>4. /\ \A k \in DOMAIN <<>> : <<>>[k] # "open"
      /\ \A k \in DOMAIN <<"cancel">> : <<"cancel">>[k] # "open"
      /\ \A k \in DOMAIN <<"close">> : <<"close">>[k] # "open"
      /\ \A k \in DOMAIN <<"message">> : <<"message">>[k] # "open"
  OBVIOUS
<1> DEFINE Kept == UNCHANGED <<cWriteCh, cWriter, opened, queued>>
<1>5. CASE C!SendFails(c)
  <2>1. Kept /\ snd' = [snd EXCEPT ![c] = <<>>]
        /\ (UNCHANGED cPc \/ cPc' = [cPc EXCEPT ![c] = "cleanup"])
    BY <1>5 DEF C!SendFails, C!outVars, C!loopVars, C!peerVars
  <2> QED
    BY <1>2, <1>3, <1>4, <2>1 DEF ClientCalm
<1>6. ASSUME C!Fail(c) PROVE /\ UNCHANGED snd \/ snd' = [snd EXCEPT ![c] = <<"cancel">>]
                             /\ \E at \in {"cancelling", "cleanup"} : cPc' = [cPc EXCEPT ![c] = at]
  BY <1>6 DEF C!Fail
<1>7. CASE C!TakeFrame(c)
  <2>1. Kept /\ (C!Succeed(c) \/ C!Fail(c) \/ UNCHANGED <<cPc, snd>>)
    BY <1>7 DEF C!TakeFrame, C!outVars, C!loopVars, C!peerVars
  <2>2. C!Succeed(c) => /\ UNCHANGED snd
                        /\ \E at \in {"stream", "cleanup"} : cPc' = [cPc EXCEPT ![c] = at]
    BY DEF C!Succeed
  <2> QED
    BY <1>2, <1>3, <1>4, <1>6, <2>1, <2>2 DEF ClientCalm
<1>8. CASE C!GiveUp(c)
  <2>1. Kept /\ C!Fail(c)
    BY <1>8 DEF C!GiveUp, C!outVars, C!loopVars, C!peerVars
  <2> QED
    BY <1>2, <1>3, <1>4, <1>6, <2>1 DEF ClientCalm
<1>9. CASE C!RemoveSession(c) \/ C!CallReceive(c)
  <2>1. Kept /\ UNCHANGED snd /\ \E at \in {"done", "recv"} : cPc' = [cPc EXCEPT ![c] = at]
    BY <1>9 DEF C!RemoveSession, C!CallReceive, C!outVars, C!loopVars, C!peerVars
  <2> QED
    BY <1>3, <2>1 DEF ClientCalm
<1>10. CASE C!CancelStream(c)
  <2>1. Kept /\ UNCHANGED cPc /\ snd' = [snd EXCEPT ![c] = <<"cancel">>]
    BY <1>10 DEF C!CancelStream, C!outVars, C!loopVars, C!peerVars
  <2> QED
    BY <1>2, <1>4, <2>1 DEF ClientCalm
<1>11. CASE C!NewSession(c)
  <2>1. /\ Kept /\ cPc[c] = "idle" /\ cPc' = [cPc EXCEPT ![c] = "opening"]
        /\ snd' = [snd EXCEPT ![c] = C!Opening(c)]
    BY <1>11 DEF C!NewSession, C!outVars, C!loopVars, C!peerVars
  <2> QED
    BY <1>2, <1>3, <2>1 DEF ClientCalm
<1>12. CASE C!MarshalFails(c)
  <2>1. Kept /\ cPc' = [cPc EXCEPT ![c] = "cleanup"] /\ snd' = [snd EXCEPT ![c] = <<>>]
    BY <1>12 DEF C!MarshalFails, C!outVars, C!loopVars, C!peerVars
  <2> QED
    BY <1>2, <1>3, <1>4, <2>1 DEF ClientCalm
<1>13. CASE C!CallSend(c)
  <2>1. /\ Kept /\ UNCHANGED cPc
        /\ \E k \in {"message", "close"} : snd' = [snd EXCEPT ![c] = <<k>>]
    BY <1>13 DEF C!CallSend, C!outVars, C!loopVars, C!peerVars
  <2> QED
    BY <1>2, <1>4, <2>1 DEF ClientCalm
<1>14. CASE C!CloseAndReceive(c)
  <2>1. Kept /\ cPc' = [cPc EXCEPT ![c] = "finishing"] /\ snd' = [snd EXCEPT ![c] = <<"close">>]
    BY <1>14 DEF C!CloseAndReceive, C!outVars, C!loopVars, C!peerVars
  <2> QED
    BY <1>2, <1>3, <1>4, <2>1 DEF ClientCalm
<1>15. CASE C!CloseStream(c)
  BY <1>15 DEF C!CloseStream, C!outVars, C!loopVars, C!peerVars, ClientCalm
<1> QED
  BY <1>5, <1>7, <1>8, <1>9, <1>10, <1>11, <1>12, <1>13, <1>14, <1>15 DEF C!User

LEMMA CalmLoops ==
  ASSUME \/ C!Deliver \/ C!ReadLoopEnds \/ C!Closer \/ C!Environment
         \/ \E c \in Calls, k \in C!Kinds : C!ReadFrame(c, k)
         \/ UNCHANGED clientVars
  PROVE  ClientCalm
BY DEF C!Deliver, C!ReadLoopEnds, C!Closer, C!CloseSessions, C!CloseDone, C!Environment,
       C!Disconnect, C!BaseCancel, C!CallerCancel, C!ReadFrame, ClientCalm, clientVars,
       C!outVars, C!loopVars, C!peerVars, C!callVars

(* ... and most steps of the server start no session.                      *)
LEMMA SessionActions ==
  ASSUME NEW s \in Sess, S!Transport(s) \/ S!Handler(s)
  PROVE  SP!Transport(s) \/ SP!Handler(s)
BY DEF S!envVars, S!tableVars, S!sessVars, S!chanVars, S!outVars, S!Goto, S!TakeMessage,
       S!TakeEof, S!Finish, S!RecvExactlyOne, S!VerifyEmpty, S!DrainRest, S!CallReceive,
       S!ReceiveRequest, S!CallSend, S!HandlerReturn, S!AfterWrite, S!WriteFrame,
       S!SkipFrame, S!DeleteSession, S!ReleaseSlot, S!Transport, S!Handler, S!ReadsMany,
       S!SendsMany, S!Replies,
       SP!envVars, SP!tableVars, SP!sessVars, SP!chanVars, SP!outVars, SP!Goto, SP!TakeMessage,
       SP!TakeEof, SP!Finish, SP!RecvExactlyOne, SP!VerifyEmpty, SP!DrainRest, SP!CallReceive,
       SP!ReceiveRequest, SP!CallSend, SP!HandlerReturn, SP!AfterWrite, SP!WriteFrame,
       SP!SkipFrame, SP!DeleteSession, SP!ReleaseSlot, SP!Transport, SP!Handler, SP!ReadsMany,
       SP!SendsMany, SP!Replies

LEMMA SessionMoves ==
  ASSUME Ends, SP!AnswerLocals, NEW s \in Sess, SP!Transport(s) \/ SP!Handler(s)
  PROVE  /\ UNCHANGED <<sReader, idOf, shape>>
         /\ sPc[s] # "new" /\ sPc'[s] # "new"
         /\ \A t \in Sess : t # s => UNCHANGED <<sPc[t], pend[t], replied[t]>>
         /\ \A c \in Calls : SessionsOf(c)' = SessionsOf(c)
<1>1. SP!Silent(s) \/ SP!Queued(s) \/ SP!Left(s)
  BY SessionSteps DEF Ends
<1>2. /\ UNCHANGED <<idOf, shape>> /\ sPc[s] # "new" /\ sPc'[s] # "new"
      /\ \A t \in Sess : t # s => UNCHANGED <<sPc[t], pend[t], replied[t]>>
  BY <1>1 DEF SP!Silent, SP!Queued, SP!Left, SP!Same, SP!Phase
<1>3. UNCHANGED sReader
  BY DEF SP!Transport, SP!Handler, SP!RecvExactlyOne, SP!VerifyEmpty, SP!DrainRest,
         SP!ReceiveRequest, SP!WriteFrame, SP!SkipFrame, SP!DeleteSession, SP!ReleaseSlot,
         SP!CallReceive, SP!CallSend, SP!HandlerReturn
<1>4. \A t \in Sess : sPc'[t] # "new" <=> sPc[t] # "new"
  BY <1>2
<1> QED
  BY <1>2, <1>3, <1>4 DEF SessionsOf

LEMMA CalmServer ==
  ASSUME Ends,
         \/ S!Environment \/ S!Shutdown \/ S!Writer
         \/ S!RouteMessage \/ S!CloseRecvCh \/ S!ReaderWrite
  PROVE  ServerCalm
<1>1. UNCHANGED <<sPc, idOf>> /\ (sReader'.at = "start" => sReader' = sReader)
  <2>1. CASE S!Environment \/ S!Writer
    <3>1. UNCHANGED <<sReader, S!sessVars>>
      BY <2>1 DEF S!Environment, S!Disconnect, S!BaseCancel, S!Writer, S!WriterTake, S!WriterWrote,
             S!WriterFailed, S!WriterDrain, S!WriterEnd
    <3> QED
      BY <3>1 DEF S!sessVars
  <2>2. CASE S!RouteMessage \/ S!CloseRecvCh \/ S!ReaderWrite
    BY <2>2 DEF S!RouteMessage, S!CloseRecvCh, S!ReaderWrite, S!sessVars, S!Idle
  <2>3. CASE S!Shutdown
    <3>1. UNCHANGED S!sessVars
          /\ \E at \in {"cancel", "closeall", "wait", "flush", "returned"} :
               sReader' = [sReader EXCEPT !.at = at]
      BY <2>3 DEF S!Shutdown, S!ReadFail, S!CancelContext, S!CloseAllSessions, S!CloseWriteCh,
             S!Return
    <3>2. sReader \in [at : SP!ReaderAt, id : Calls \union {None}, s : Sess \union {None},
                       code : SP!Codes \union SP!Shapes \union {None}]
      BY DEF Ends, SP!IInv, SP!TypeOK, SP!ReaderOK
    <3> QED
      BY <3>1, <3>2 DEF S!sessVars
  <2> QED
    BY <2>1, <2>2, <2>3
<1> QED
  BY <1>1 DEF ServerCalm, SessionsOf

LEMMA Moves ==
  ASSUME Ends, SP!AnswerLocals, [Next]_vars
  PROVE  \/ ClientWrites \/ ServerReads
         \/ /\ UNCHANGED <<c2s, serverVars>>
            /\ \/ ClientCalm \/ \E c \in Calls : C!SendFrame(c)
               \/ C!WriterTake \/ C!WriteLoopEnds
         \/ UNCHANGED <<c2s, clientVars>> /\ (ServerCalm \/ S!StartSession)
<1>1. CASE ServerWrites
  BY <1>1, CalmServer DEF ServerWrites, S!Writer
<1>2. CASE ClientReads
  <2>1. s2c # <<>> => Head(s2c) \in Response
    BY DEF Ends, NetOK
  <2>2. \E c \in Calls, k \in C!Kinds : C!ReadFrame(c, k)
    BY <1>2, <2>1, FrameTypes DEF ClientReads
  <2> QED
    BY <1>2, <2>2, CalmLoops DEF ClientReads
<1>3. CASE ClientNotices
  BY <1>3, CalmLoops DEF ClientNotices, netVars, C!Environment
<1>4. CASE ServerNotices
  BY <1>4, CalmServer DEF ServerNotices, netVars, S!Environment
<1>5. CASE ServerReader
  BY <1>5, CalmServer DEF ServerReader, ServerThread, S!Reader, netVars
<1>6. CASE ServerShutdown \/ ServerWriter
  BY <1>6, CalmServer DEF ServerShutdown, ServerWriter, ServerThread, S!Writer, netVars
<1>7. ASSUME NEW s \in Sess, Serving(s) \/ HandlerCode(s)
      PROVE  UNCHANGED <<c2s, clientVars>> /\ ServerCalm
  BY <1>7, SessionActions, SessionMoves DEF Serving, HandlerCode, ServerThread, netVars, ServerCalm
<1>8. CASE ClientReader \/ Closing
  BY <1>8, CalmLoops DEF ClientReader, Closing, ClientThread, netVars
<1>9. CASE ClientWriter
  BY <1>9 DEF ClientWriter, ClientThread, netVars
<1>10. ASSUME NEW c \in Calls, Sending(c) \/ Receiving(c) \/ Aborting(c) \/ User(c)
       PROVE  UNCHANGED <<c2s, serverVars>> /\ (ClientCalm \/ C!SendFrame(c))
  BY <1>10, CalmCall DEF Sending, Receiving, Aborting, User, ClientThread, netVars, C!Sending,
     C!Receiving, Ends
<1>11. CASE Faults
  BY <1>11, CalmLoops, CalmServer DEF Faults, ClientThread, ServerThread, netVars
<1>12. CASE UNCHANGED vars
  BY <1>12, CalmLoops DEF vars, netVars
<1> QED
  BY <1>1, <1>2, <1>3, <1>4, <1>5, <1>6, <1>7, <1>8, <1>9, <1>10, <1>11, <1>12 DEF Next

(* What is calm leaves every open frame where it is, ...                   *)
LEMMA OpenStays ==
  ASSUME Ends, OpensOnce, NEW c \in Calls,
         \/ UNCHANGED <<c2s, serverVars>> /\ ClientCalm
         \/ UNCHANGED <<c2s, clientVars>> /\ ServerCalm
  PROVE  OpenOnce(c)'
<1>1. OpenOnce(c)
  BY DEF OpensOnce
<1>2. CASE UNCHANGED <<c2s, serverVars>> /\ ClientCalm
  <2>1. /\ OpenQueued(c)' <=> OpenQueued(c)
        /\ OpenHeld(c)' <=> OpenHeld(c)
        /\ OpenSent(c)' <=> OpenSent(c)
        /\ Starting(c)' <=> Starting(c)
        /\ SessionsOf(c)' = SessionsOf(c)
        /\ opened' = opened /\ cWriteCh' = cWriteCh /\ c2s' = c2s /\ queued' = queued
    BY <1>2 DEF ClientCalm, OpenQueued, OpenHeld, OpenSent, Starting, SessionsOf, serverVars
  <2>2. cPc'[c] = "idle" => queued[c] = <<>>
    BY <1>1, <1>2 DEF ClientCalm, OpenOnce
  <2>3. \A k \in DOMAIN snd'[c] : snd'[c][k] = "open" => k = 1 /\ queued[c] = <<>>
    <3>1. \A k \in DOMAIN C!Opening(c) : C!Opening(c)[k] = "open" => k = 1
      BY DEF C!Opening
    <3> QED
      BY <1>1, <1>2, <3>1 DEF ClientCalm, OpenOnce
  <2> QED
    BY <1>1, <2>1, <2>2, <2>3 DEF OpenOnce, AtMostOne
<1>3. CASE UNCHANGED <<c2s, clientVars>> /\ ServerCalm
  <2>1. /\ OpenQueued(c)' <=> OpenQueued(c)
        /\ OpenHeld(c)' <=> OpenHeld(c)
        /\ OpenSent(c)' <=> OpenSent(c)
        /\ Starting(c)' => Starting(c)
        /\ SessionsOf(c)' = SessionsOf(c)
        /\ opened' = opened /\ cWriteCh' = cWriteCh /\ c2s' = c2s /\ queued' = queued
        /\ snd' = snd /\ cPc' = cPc
    BY <1>3 DEF ServerCalm, OpenQueued, OpenHeld, OpenSent, Starting, clientVars
  <2> QED
    BY <1>1, <2>1 DEF OpenOnce, AtMostOne
<1> QED
  BY <1>2, <1>3

(* ... and so they move on one by one: queued, ...                         *)
LEMMA OpenQueues ==
  ASSUME Ends, OpensOnce, NEW c \in Calls, NEW d \in Calls, C!SendFrame(d),
         UNCHANGED <<c2s, serverVars>>
  PROVE  OpenOnce(c)'
<1>1. OpenOnce(c) /\ OpenOnce(d)
  BY DEF OpensOnce
<1>2. /\ cPc \in [Calls -> CP!CallAt]
      /\ snd \in [Calls -> Seq(C!Out)] /\ queued \in [Calls -> Seq(C!Out)]
      /\ cWriteCh \in Seq(Request)
  BY ClientTypes DEF Ends
<1> DEFINE k == Head(snd[d])
           f == [call |-> d, kind |-> k]
<1>3. /\ snd[d] # <<>> /\ UNCHANGED <<cWriter, opened>>
      /\ cWriteCh' = Append(cWriteCh, f)
      /\ queued' = [queued EXCEPT ![d] = Append(queued[d], k)]
      /\ snd' = [snd EXCEPT ![d] = Tail(snd[d])]
      /\ cPc' = [cPc EXCEPT ![d] = IF Len(snd[d]) = 1 THEN C!AllSent(d) ELSE cPc[d]]
  BY DEF C!SendFrame, C!loopVars, C!peerVars
<1>4. k \in C!Out /\ f \in Request /\ k = snd[d][1] /\ 1 \in DOMAIN snd[d]
  BY <1>2, <1>3, HeadTail DEF Request
<1>5. /\ Range(cWriteCh') = Range(cWriteCh) \union {f}
      /\ \A g : AtMostOne(cWriteCh, g) /\ (f = g => g \notin Range(cWriteCh)) => AtMostOne(cWriteCh', g)
  BY <1>2, <1>3, <1>4, FrameAdded
<1>6. f = Open(c) <=> c = d /\ k = "open"
  BY DEF Open
<1>7. k = "open" => queued[d] = <<>>
  BY <1>1, <1>4 DEF OpenOnce
<1>8. queued'[d] # <<>> /\ (c # d => queued'[c] = queued[c])
  BY <1>2, <1>3, <1>4
<1>9. \A j \in DOMAIN snd'[c] : snd'[c][j] # "open" \/ (c # d /\ snd'[c][j] = snd[c][j] /\ j \in DOMAIN snd[c])
  <2>1. CASE c # d
    BY <1>2, <1>3, <2>1
  <2>2. CASE c = d
    <3>1. snd'[d] = Tail(snd[d])
      BY <1>2, <1>3
    <3>2. ASSUME NEW j \in DOMAIN Tail(snd[d]) PROVE Tail(snd[d])[j] # "open"
      <4>1. snd[d] \in Seq(C!Out) /\ snd[d] # <<>>
        BY <1>2, <1>3
      <4>2. j + 1 \in DOMAIN snd[d] /\ Tail(snd[d])[j] = snd[d][j + 1] /\ j + 1 # 1
        BY <3>2, <4>1, HeadTail
      <4> QED
        BY <1>1, <4>2 DEF OpenOnce
    <3> QED
      BY <2>2, <3>1, <3>2
  <2> QED
    BY <2>1, <2>2
<1>10. cPc'[c] = "idle" => queued'[c] = <<>>
  <2>1. cPc[d] # "idle"
    BY <1>3 DEF Ends, CP!IInv, CP!IdleCalls, CP!NotMade
  <2>2. C!AllSent(d) # "idle"
    BY <2>1 DEF C!AllSent
  <2>3. cPc'[d] # "idle" /\ (c # d => cPc'[c] = cPc[c])
    BY <1>2, <1>3, <2>1, <2>2
  <2> QED
    BY <1>1, <1>8, <2>3 DEF OpenOnce
<1>11. /\ OpenQueued(c)' <=> OpenQueued(c) \/ (c = d /\ k = "open")
       /\ OpenHeld(c)' <=> OpenHeld(c)
       /\ OpenSent(c)' <=> OpenSent(c)
       /\ Starting(c)' <=> Starting(c)
       /\ SessionsOf(c)' = SessionsOf(c)
       /\ opened' = opened /\ c2s' = c2s
  BY <1>3, <1>5, <1>6 DEF OpenQueued, OpenHeld, OpenSent, Starting, SessionsOf, serverVars, Open
<1>12. AtMostOne(cWriteCh, Open(c))' /\ AtMostOne(c2s, Open(c))'
  <2>1. f = Open(c) => Open(c) \notin Range(cWriteCh)
    BY <1>1, <1>6, <1>7 DEF OpenOnce, OpenQueued
  <2>2. AtMostOne(cWriteCh', Open(c)) /\ AtMostOne(c2s', Open(c))
    BY <1>1, <1>5, <1>11, <2>1 DEF OpenOnce
  <2> QED
    BY <2>2 DEF AtMostOne, Open
<1> HIDE DEF k, f
<1> QED
  BY <1>1, <1>7, <1>8, <1>9, <1>10, <1>11, <1>12 DEF OpenOnce

(* ... taken by the write loop, or lost with it, ...                       *)
LEMMA OpenTakes ==
  ASSUME Ends, OpensOnce, NEW c \in Calls, C!WriterTake \/ C!WriteLoopEnds,
         UNCHANGED <<c2s, serverVars>>
  PROVE  OpenOnce(c)'
<1>1. OpenOnce(c)
  BY DEF OpensOnce
<1>2. UNCHANGED <<cPc, snd, queued, opened>>
  BY DEF C!WriterTake, C!WriteLoopEnds, C!callVars, C!outVars, C!peerVars
<1>3. /\ OpenSent(c)' <=> OpenSent(c)
      /\ Starting(c)' <=> Starting(c)
      /\ SessionsOf(c)' = SessionsOf(c)
      /\ AtMostOne(c2s, Open(c))' <=> AtMostOne(c2s, Open(c))
  BY DEF OpenSent, Starting, SessionsOf, serverVars, AtMostOne, Open
<1>4. CASE C!WriteLoopEnds
  <2>1. /\ OpenQueued(c)' <=> OpenQueued(c)
        /\ ~OpenHeld(c)'
        /\ AtMostOne(cWriteCh, Open(c))' <=> AtMostOne(cWriteCh, Open(c))
    BY <1>4 DEF C!WriteLoopEnds, C!outVars, OpenQueued, OpenHeld, AtMostOne, Open
  <2> QED
    BY <1>1, <1>2, <1>3, <2>1 DEF OpenOnce
<1>5. CASE C!WriterTake
  <2>1. /\ cWriter.at = "idle" /\ cWriteCh # <<>> /\ cWriteCh' = Tail(cWriteCh)
        /\ cWriter' = [at |-> "writing", call |-> Head(cWriteCh).call,
                       kind |-> Head(cWriteCh).kind]
    BY <1>5 DEF C!WriterTake
  <2>2. cWriteCh \in Seq(Request)
    BY ClientTypes DEF Ends
  <2>3. /\ Head(cWriteCh) \in Request
        /\ Range(cWriteCh) = Range(Tail(cWriteCh)) \union {Head(cWriteCh)}
        /\ \A f : AtMostOne(cWriteCh, f) => /\ AtMostOne(Tail(cWriteCh), f)
                                            /\ Head(cWriteCh) = f => f \notin Range(Tail(cWriteCh))
    BY <2>1, <2>2, FrameTaken
  <2>4. Head(cWriteCh) = Open(c) <=> Head(cWriteCh).call = c /\ Head(cWriteCh).kind = "open"
    BY <2>3 DEF Request, Open
  <2>5. /\ OpenHeld(c)' <=> Head(cWriteCh) = Open(c)
        /\ OpenQueued(c)' <=> Open(c) \in Range(Tail(cWriteCh))
        /\ OpenQueued(c) <=> OpenQueued(c)' \/ OpenHeld(c)'
    BY <2>1, <2>3, <2>4 DEF OpenHeld, OpenQueued, Open
  <2>6. AtMostOne(cWriteCh, Open(c))' /\ (OpenQueued(c)' => ~OpenHeld(c)')
    <3>1. AtMostOne(cWriteCh', Open(c)) /\ (Head(cWriteCh) = Open(c) => ~OpenQueued(c)')
      BY <1>1, <2>1, <2>3, <2>5 DEF OpenOnce
    <3> QED
      BY <2>5, <3>1 DEF AtMostOne, Open
  <2> QED
    BY <1>1, <1>2, <1>3, <2>5, <2>6 DEF OpenOnce
<1> QED
  BY <1>4, <1>5

(* ... written, ...                                                        *)
LEMMA OpenWrites ==
  ASSUME Ends, OpensOnce, NEW c \in Calls, ClientWrites
  PROVE  OpenOnce(c)'
<1>1. OpenOnce(c)
  BY DEF OpensOnce
<1> DEFINE f == [call |-> cWriter.call, kind |-> cWriter.kind]
<1>2. /\ UNCHANGED <<cPc, snd, queued, cWriteCh, serverVars>>
      /\ cWriter.at = "writing" /\ c2s' = Append(c2s, f)
      /\ cWriter' = [at |-> "idle", call |-> None, kind |-> "open"]
      /\ opened' = IF cWriter.kind = "open" THEN opened \union {cWriter.call} ELSE opened
  BY DEF ClientWrites, C!WriterWrote, C!callVars, C!outVars
<1>3. f \in Request /\ c2s \in Seq(Request)
  BY <1>2, FrameTypes DEF Ends, NetOK
<1>4. /\ Range(c2s') = Range(c2s) \union {f}
      /\ \A g : AtMostOne(c2s, g) /\ (f = g => g \notin Range(c2s)) => AtMostOne(c2s', g)
  BY <1>2, <1>3, FrameAdded
<1>5. f = Open(c) <=> OpenHeld(c)
  BY <1>2 DEF Open, OpenHeld
<1> HIDE DEF f
<1>6. /\ OpenQueued(c)' <=> OpenQueued(c)
      /\ ~OpenHeld(c)'
      /\ OpenSent(c)' <=> OpenSent(c) \/ OpenHeld(c)
      /\ c \in opened' <=> c \in opened \/ OpenHeld(c)
      /\ Starting(c)' <=> Starting(c)
      /\ SessionsOf(c)' = SessionsOf(c)
      /\ AtMostOne(cWriteCh, Open(c))' <=> AtMostOne(cWriteCh, Open(c))
  <2>1. OpenSent(c)' <=> OpenSent(c) \/ OpenHeld(c)
    BY <1>4, <1>5 DEF OpenSent, Open
  <2>2. c \in opened' <=> c \in opened \/ OpenHeld(c)
    BY <1>2 DEF OpenHeld
  <2>3. Starting(c)' <=> Starting(c)
    BY <1>2 DEF Starting, serverVars
  <2>4. SessionsOf(c)' = SessionsOf(c)
    BY <1>2 DEF SessionsOf, serverVars
  <2>5. (OpenQueued(c)' <=> OpenQueued(c)) /\ ~OpenHeld(c)'
    BY <1>2 DEF OpenQueued, OpenHeld, Open
  <2> QED
    BY <1>2, <2>1, <2>2, <2>3, <2>4, <2>5 DEF AtMostOne, Open
<1>7. AtMostOne(c2s, Open(c))'
  <2>1. AtMostOne(c2s', Open(c))
    BY <1>1, <1>4, <1>5 DEF OpenOnce, OpenSent
  <2> QED
    BY <2>1 DEF AtMostOne, Open
<1> QED
  BY <1>1, <1>2, <1>6, <1>7 DEF OpenOnce

(* ... read, ...                                                           *)
LEMMA OpenReads ==
  ASSUME Ends, OpensOnce, NEW c \in Calls, ServerReads
  PROVE  OpenOnce(c)'
<1>1. OpenOnce(c)
  BY DEF OpensOnce
<1> DEFINE f == Head(c2s)
<1>2. c2s # <<>> /\ c2s' = Tail(c2s) /\ UNCHANGED clientVars
  BY DEF ServerReads
<1>3. c2s \in Seq(Request)
  BY DEF Ends, NetOK
<1>4. /\ f \in Request
      /\ Range(c2s) = Range(c2s') \union {f}
      /\ \A g : AtMostOne(c2s, g) => AtMostOne(c2s', g) /\ (f = g => g \notin Range(c2s'))
  BY <1>2, <1>3, FrameTaken
<1>5. f = Open(c) <=> f.call = c /\ f.kind = "open"
  BY <1>4 DEF Open, Request
<1>6. sReader.at = "read" /\ UNCHANGED <<sPc, idOf>>
  BY DEF ServerReads, S!ReadOpen, S!ReadMessage, S!ReadClose, S!ReadCancel, S!NextFrame,
         S!sessVars
<1>7. Starting(c)' => f = Open(c)
  <2>1. CASE f.kind = "open" /\ S!ReadOpen(f.call, f.call, ShapeOf[f.call])
    <3>1. \/ \E i, why : sReader' = [at |-> "write", id |-> i, s |-> None, code |-> why]
          \/ \E s, sh : sReader' = [at |-> "start", id |-> f.call, s |-> s, code |-> sh]
      BY <2>1 DEF S!ReadOpen, S!Reject
    <3>2. sReader'.at = "start" => sReader'.id = f.call
      BY <3>1
    <3> QED
      BY <1>5, <2>1, <3>2 DEF Starting
  <2>2. CASE S!ReadMessage(f.call) \/ S!ReadClose(f.call) \/ S!ReadCancel(f.call)
    <3>1. \/ UNCHANGED sReader
          \/ \E s : \/ sReader' = [S!Idle EXCEPT !.at = "route", !.s = s]
                   \/ sReader' = [S!Idle EXCEPT !.at = "close", !.s = s]
          \/ \E i, why : sReader' = [at |-> "write", id |-> i, s |-> None, code |-> why]
      <4>1. CASE S!ReadMessage(f.call)
        BY <4>1 DEF S!ReadMessage, S!Reject
      <4>2. CASE S!ReadClose(f.call) \/ S!ReadCancel(f.call)
        BY <4>2 DEF S!ReadClose, S!ReadCancel
      <4> QED
        BY <2>2, <4>1, <4>2
    <3>2. \A s : /\ [S!Idle EXCEPT !.at = "route", !.s = s].at = "route"
                 /\ [S!Idle EXCEPT !.at = "close", !.s = s].at = "close"
      BY DEF S!Idle
    <3>3. CASE UNCHANGED sReader
      BY <1>6, <3>3 DEF Starting
    <3>4. ASSUME NEW s, \/ sReader' = [S!Idle EXCEPT !.at = "route", !.s = s]
                        \/ sReader' = [S!Idle EXCEPT !.at = "close", !.s = s]
          PROVE  ~Starting(c)'
      BY <3>2, <3>4 DEF Starting
    <3>5. ASSUME NEW i, NEW why,
                 sReader' = [at |-> "write", id |-> i, s |-> None, code |-> why]
          PROVE  ~Starting(c)'
      BY <3>5 DEF Starting
    <3> QED
      BY <3>1, <3>3, <3>4, <3>5
  <2> QED
    BY <2>1, <2>2 DEF ServerReads
<1> HIDE DEF f
<1>8. /\ OpenQueued(c)' <=> OpenQueued(c)
      /\ OpenHeld(c)' <=> OpenHeld(c)
      /\ OpenSent(c) <=> OpenSent(c)' \/ f = Open(c)
      /\ ~Starting(c)
      /\ SessionsOf(c)' = SessionsOf(c)
      /\ AtMostOne(cWriteCh, Open(c))' <=> AtMostOne(cWriteCh, Open(c))
      /\ UNCHANGED <<cPc, snd, queued, opened>>
  <2>1. (OpenQueued(c)' <=> OpenQueued(c)) /\ (OpenHeld(c)' <=> OpenHeld(c))
    BY <1>2 DEF clientVars, OpenQueued, OpenHeld, Open
  <2>2. OpenSent(c) <=> OpenSent(c)' \/ f = Open(c)
    BY <1>4 DEF OpenSent, Open
  <2>3. SessionsOf(c)' = SessionsOf(c) /\ ~Starting(c)
    BY <1>6 DEF SessionsOf, Starting
  <2>4. AtMostOne(cWriteCh, Open(c))' <=> AtMostOne(cWriteCh, Open(c))
    BY <1>2 DEF clientVars, AtMostOne, Open
  <2>5. UNCHANGED <<cPc, snd, queued, opened>>
    BY <1>2 DEF clientVars
  <2> QED
    BY <2>1, <2>2, <2>3, <2>4, <2>5
<1>9. AtMostOne(c2s, Open(c))' /\ (f = Open(c) => ~OpenSent(c)')
  <2>1. AtMostOne(c2s', Open(c)) /\ (f = Open(c) => Open(c) \notin Range(c2s'))
    BY <1>1, <1>4 DEF OpenOnce
  <2> QED
    BY <2>1 DEF AtMostOne, Open, OpenSent
<1> QED
  BY <1>1, <1>7, <1>8, <1>9 DEF OpenOnce

(* ... and answered, or its session started.                               *)
LEMMA OpenStarts ==
  ASSUME Ends, OpensOnce, NEW c \in Calls, S!StartSession, UNCHANGED <<c2s, clientVars>>
  PROVE  OpenOnce(c)'
<1>1. OpenOnce(c)
  BY DEF OpensOnce
<1>2. sReader.at = "start" /\ sReader'.at # "start"
  BY DEF S!StartSession, S!RejectDuplicate, S!Reject, S!Idle
<1>3. /\ sPc \in [Sess -> SP!SessionAt] /\ idOf \in [Sess -> Calls \union {None}]
      /\ sReader.s \in Sess /\ sPc[sReader.s] = "new" /\ sReader.code \in SP!Shapes
  BY <1>2 DEF Ends, SP!IInv, SP!TypeOK, SP!SessOK, SP!ReaderLocals
<1>4. \/ SessionsOf(c)' = SessionsOf(c)
      \/ Starting(c) /\ SessionsOf(c)' = SessionsOf(c) \union {sReader.s}
  <2>1. CASE UNCHANGED <<sPc, idOf>>
    BY <2>1 DEF SessionsOf
  <2>2. CASE /\ sPc' = [sPc EXCEPT ![sReader.s] = S!FirstStep(sReader.code)]
             /\ idOf' = [idOf EXCEPT ![sReader.s] = sReader.id]
    <3>1. S!FirstStep(sReader.code) # "new"
      BY DEF S!FirstStep
    <3>2. /\ sPc'[sReader.s] # "new" /\ idOf'[sReader.s] = sReader.id
          /\ \A t \in Sess : t # sReader.s => UNCHANGED <<sPc[t], idOf[t]>>
      BY <1>3, <2>2, <3>1
    <3>3. CASE sReader.id = c
      BY <1>2, <1>3, <3>2, <3>3 DEF SessionsOf, Starting
    <3>4. CASE sReader.id # c
      BY <1>3, <3>2, <3>4 DEF SessionsOf
    <3> QED
      BY <3>3, <3>4
  <2> QED
    BY <2>1, <2>2 DEF S!StartSession
<1>5. /\ OpenQueued(c)' <=> OpenQueued(c)
      /\ OpenHeld(c)' <=> OpenHeld(c)
      /\ OpenSent(c)' <=> OpenSent(c)
      /\ ~Starting(c)'
      /\ AtMostOne(cWriteCh, Open(c))' <=> AtMostOne(cWriteCh, Open(c))
      /\ AtMostOne(c2s, Open(c))' <=> AtMostOne(c2s, Open(c))
      /\ UNCHANGED <<cPc, snd, queued, opened>>
  BY <1>2 DEF clientVars, OpenQueued, OpenHeld, OpenSent, Open, Starting, AtMostOne
<1> QED
  BY <1>1, <1>4, <1>5 DEF OpenOnce

LEMMA OpensStep ==
  ASSUME Ends, SP!AnswerLocals, OpensOnce, [Next]_vars
  PROVE  OpensOnce'
<1> SUFFICES ASSUME NEW c \in Calls PROVE OpenOnce(c)'
  BY DEF OpensOnce
<1> QED
  BY Moves, OpenStays, OpenQueues, OpenTakes, OpenWrites, OpenReads, OpenStarts

-----------------------------------------------------------------------------
(* What becomes of the sessions and their answers.                         *)

(* A session keeps its id, its shape and its answers; it may answer more.  *)
LEMMA SessionsStand ==
  ASSUME Ends, SP!AnswerLocals, [Next]_vars, NEW s \in Sess, sPc[s] # "new"
  PROVE  /\ sPc'[s] # "new" /\ idOf'[s] = idOf[s] /\ shape'[s] = shape[s]
         /\ \/ replied'[s] = replied[s]
            \/ /\ replied'[s] = Append(replied[s], Head(pend[s]))
               /\ sPc[s] \in {"send", "finish"} /\ pend[s] # <<>>
<1>1. SP!Quiet \/ SP!StartSession \/ \E t \in Sess : SP!Transport(t) \/ SP!Handler(t)
  BY BothStep, ServerSteps DEF Ends
<1>2. CASE SP!Quiet
  BY <1>2 DEF SP!Quiet, SP!sessVars
<1>3. CASE SP!StartSession
  <2>1. sReader.s \in Sess /\ sPc[sReader.s] = "new"
    BY <1>3 DEF Ends, SP!IInv, SP!ReaderLocals, SP!StartSession
  <2>2. /\ sPc \in [Sess -> SP!SessionAt] /\ idOf \in [Sess -> Calls \union {None}]
        /\ shape \in [Sess -> SP!Shapes \union {None}]
    BY DEF Ends, SP!IInv, SP!TypeOK, SP!SessOK
  <2>3. /\ UNCHANGED replied
        /\ \/ UNCHANGED <<sPc, idOf, shape>>
           \/ \E at, i, sh : /\ sPc' = [sPc EXCEPT ![sReader.s] = at]
                             /\ idOf' = [idOf EXCEPT ![sReader.s] = i]
                             /\ shape' = [shape EXCEPT ![sReader.s] = sh]
    BY <1>3 DEF SP!StartSession
  <2> QED
    BY <2>1, <2>2, <2>3
<1>4. ASSUME NEW t \in Sess, SP!Transport(t) \/ SP!Handler(t)
      PROVE  /\ sPc'[s] # "new" /\ UNCHANGED <<idOf, shape>>
             /\ \/ replied'[s] = replied[s]
                \/ /\ replied'[s] = Append(replied[s], Head(pend[s]))
                   /\ sPc[s] \in {"send", "finish"} /\ pend[s] # <<>>
  <2>1. /\ UNCHANGED <<idOf, shape>> /\ sPc'[t] # "new"
        /\ s # t => sPc'[s] = sPc[s] /\ replied'[s] = replied[s]
    BY <1>4, SessionMoves
  <2>2. SP!Silent(t) \/ SP!Queued(t) \/ SP!Left(t)
    BY <1>4, SessionSteps DEF Ends
  <2>3. \/ replied'[t] = replied[t]
        \/ /\ replied'[t] = Append(replied[t], Head(pend[t]))
           /\ sPc[t] \in {"send", "finish"} /\ pend[t] # <<>>
    BY <2>2 DEF SP!Silent, SP!Queued, SP!Left
  <2> QED
    BY <2>1, <2>3
<1> QED
  BY <1>1, <1>2, <1>3, <1>4

(* A handler that has answered has done so on its whole request.           *)
LEMMA AnsweredIs ==
  ASSUME NEW s \in Sess
  PROVE  /\ SP!AnswersRequest =>
              (Answered(s) <=> replied[s] # <<>> /\ Head(replied[s]) = "message")
         /\ SP!AnswersRequest' =>
              (Answered(s)' <=> replied'[s] # <<>> /\ Head(replied'[s]) = "message")
BY DEF SP!AnswersRequest, Answered, S!OneRequest, SP!OneRequest

LEMMA FirstStays ==
  ASSUME NEW F, NEW q \in Seq(F), q # <<>>, NEW e \in F
  PROVE  Append(q, e) # <<>> /\ Head(Append(q, e)) = Head(q)
OBVIOUS

LEMMA AnswersStand ==
  ASSUME Ends, SP!AnswerLocals, SP!AnswersRequest, SP!AnswersRequest', [Next]_vars,
         NEW s \in Sess, sPc[s] # "new", Answered(s)
  PROVE  Answered(s)'
<1>1. replied \in [Sess -> Seq(SP!Kinds)] /\ pend \in [Sess -> Seq(SP!Kinds)]
  BY DEF Ends, SP!IInv, SP!TypeOK, SP!SessOK
<1>2. replied[s] # <<>> /\ Head(replied[s]) = "message"
  BY AnsweredIs
<1>3. ASSUME NEW e \in SP!Kinds
      PROVE  Append(replied[s], e) # <<>> /\ Head(Append(replied[s], e)) = "message"
  BY <1>1, <1>2, <1>3, FirstStays
<1>4. pend[s] # <<>> => Head(pend[s]) \in SP!Kinds
  BY <1>1, HeadTail
<1>5. replied'[s] # <<>> /\ Head(replied'[s]) = "message"
  BY <1>2, <1>3, <1>4, SessionsStand
<1> QED
  BY <1>5, AnsweredIs

-----------------------------------------------------------------------------
(* Where the messages go.                                                  *)

LEMMA MessageQueues ==
  ASSUME Ends, [S!Next]_serverVars, NEW c \in Calls, MessageQueued(c)'
  PROVE  \/ MessageQueued(c)
         \/ \E s \in Sess : S!WriteFrame(s) /\ idOf[s] = c /\ Head(pend[s]) = "message"
<1>1. sWriteCh \in Seq(Response)
  BY FrameTypes
<1>2. CASE UNCHANGED <<sWriteCh, sWriter>>
  BY <1>2 DEF MessageQueued, Message
<1>3. CASE S!WriterTake
  <2>1. /\ sWriteCh # <<>> /\ sWriteCh' = Tail(sWriteCh)
        /\ sWriter' = [at |-> "writing", frame |-> Head(sWriteCh)]
    BY <1>3 DEF S!WriterTake
  <2>2. Range(sWriteCh) = Range(Tail(sWriteCh)) \union {Head(sWriteCh)}
    BY <1>1, <2>1, FrameTaken
  <2> QED
    BY <2>1, <2>2 DEF MessageQueued, Message
<1>4. CASE S!WriterDrain
  <2>1. sWriteCh # <<>> /\ sWriteCh' = Tail(sWriteCh) /\ UNCHANGED sWriter
    BY <1>4 DEF S!WriterDrain
  <2>2. Range(sWriteCh) = Range(Tail(sWriteCh)) \union {Head(sWriteCh)}
    BY <1>1, <2>1, FrameTaken
  <2> QED
    BY <2>1, <2>2 DEF MessageQueued, Message
<1>5. CASE UNCHANGED sWriteCh /\ sWriter'.at # "writing"
  BY <1>5 DEF MessageQueued, Message
<1>6. ASSUME NEW e \in Response, sWriteCh' = Append(sWriteCh, e), UNCHANGED sWriter
      PROVE  MessageQueued(c) \/ e = Message(c)
  <2>1. Range(sWriteCh') = Range(sWriteCh) \union {e}
    BY <1>1, <1>6, FrameAdded
  <2> QED
    BY <1>6, <2>1 DEF MessageQueued, Message
<1>7. CASE S!ReaderWrite
  <2>1. CASE UNCHANGED sWriteCh
    BY <1>2, <1>7, <2>1 DEF S!ReaderWrite
  <2>2. CASE sWriteCh' = Append(sWriteCh, [id |-> sReader.id, kind |-> "error"])
    <3>1. sReader.id \in Calls /\ UNCHANGED sWriter
      BY <1>7 DEF S!ReaderWrite, Ends, SP!IInv, SP!ReaderLocals
    <3>2. [id |-> sReader.id, kind |-> "error"] \in Response
      BY <3>1 DEF Response, S!Kinds
    <3>3. [id |-> sReader.id, kind |-> "error"] # Message(c)
      BY DEF Message
    <3> QED
      BY <1>6, <2>2, <3>1, <3>2, <3>3
  <2> QED
    BY <1>7, <2>1, <2>2 DEF S!ReaderWrite
<1>8. ASSUME NEW s \in Sess, S!WriteFrame(s)
      PROVE  MessageQueued(c) \/ (idOf[s] = c /\ Head(pend[s]) = "message")
  <2>1. /\ sWriteCh' = Append(sWriteCh, [id |-> idOf[s], kind |-> Head(pend[s])])
        /\ UNCHANGED sWriter /\ sPc[s] \in {"send", "finish"}
    BY <1>8 DEF S!WriteFrame
  <2>2. idOf[s] \in Calls /\ pend[s] # <<>> /\ pend \in [Sess -> Seq(SP!Kinds)]
    BY <2>1 DEF Ends, SP!IInv, SP!SessionLocals, SP!TypeOK, SP!SessOK
  <2>3. Head(pend[s]) \in S!Kinds
    BY <2>2, HeadTail DEF S!Kinds, SP!Kinds
  <2>4. [id |-> idOf[s], kind |-> Head(pend[s])] \in Response
    BY <2>2, <2>3 DEF Response
  <2> QED
    BY <1>6, <2>1, <2>4 DEF Message
<1>9. \/ UNCHANGED <<sWriteCh, sWriter>>
      \/ S!WriterTake \/ S!WriterDrain \/ (UNCHANGED sWriteCh /\ sWriter'.at # "writing")
      \/ S!ReaderWrite \/ \E s \in Sess : S!WriteFrame(s)
  <2>1. CASE S!PeerFrame \/ S!Environment \/ S!Reader \/ S!Shutdown \/ UNCHANGED serverVars
    BY <2>1 DEF S!PeerFrame, S!ReadIgnored, S!ReadOpen, S!ReadMessage, S!ReadClose, S!ReadCancel,
       S!Environment, S!Disconnect, S!BaseCancel, S!Reader, S!StartSession, S!RouteMessage,
       S!CloseRecvCh, S!Shutdown, S!ReadFail, S!CancelContext, S!CloseAllSessions,
       S!CloseWriteCh, S!Return, S!outVars, serverVars
  <2>2. CASE S!Writer \/ S!Returned
    BY <2>2 DEF S!Writer, S!WriterWrote, S!WriterFailed, S!WriterEnd, S!Returned, S!vars, S!outVars
  <2>3. CASE \E s \in Sess : S!Transport(s) \/ S!Handler(s)
    BY <2>3 DEF S!Transport, S!Handler, S!RecvExactlyOne, S!VerifyEmpty, S!DrainRest,
       S!ReceiveRequest, S!SkipFrame, S!DeleteSession, S!ReleaseSlot, S!CallReceive, S!CallSend,
       S!HandlerReturn, S!outVars
  <2> QED
    BY <2>1, <2>2, <2>3 DEF S!Next
<1> QED
  BY <1>2, <1>3, <1>4, <1>5, <1>7, <1>8, <1>9

(* No other step of the client than reading a frame brings it a message.   *)
LEMMA MessageReads ==
  ASSUME Ends, NEW c \in Calls, MessageRead(c)',
         \/ C!Deliver \/ C!ReadLoopEnds \/ C!Closer \/ C!Environment \/ C!Writer
         \/ \E d \in Calls : C!Sending(d) \/ C!Receiving(d) \/ C!CancelStream(d) \/ C!User(d)
         \/ UNCHANGED clientVars
  PROVE  MessageRead(c)
<1>1. cRecvCh \in [Calls -> Seq(CP!Received)]
  BY ClientTypes DEF Ends
<1>2. CASE UNCHANGED <<cReader, cRecvCh>>
  BY <1>2 DEF MessageRead
<1>3. CASE C!ReadLoopEnds
  <2>1. cReader' = [C!Idle EXCEPT !.at = "done"] /\ UNCHANGED cRecvCh
    BY <1>3 DEF C!ReadLoopEnds, C!chanVars
  <2>2. [C!Idle EXCEPT !.at = "done"].at = "done"
    BY DEF C!Idle
  <2> QED
    BY <2>1, <2>2 DEF MessageRead
<1>4. CASE C!Deliver
  <2> DEFINE d == cReader.call
             e == [n |-> cReader.n, kind |-> cReader.kind]
  <2>1. /\ cReader.at = "deliver" /\ cReader'.at = "read"
        /\ cRecvCh' = [cRecvCh EXCEPT ![d] = Append(cRecvCh[d], e)]
    BY <1>4 DEF C!Deliver, C!Idle
  <2>2. d \in Calls /\ e \in CP!Received
    <3>1. cReader \in [at : {"read", "deliver", "done"}, call : Calls \union {None},
                       n : Nat, kind : CP!Kinds]
      BY DEF Ends, CP!IInv, CP!TypeOK, CP!LoopsOK
    <3> QED
      BY <2>1, <3>1 DEF Ends, CP!IInv, CP!HeldFrames, CP!Received
  <2>3. Range(Append(cRecvCh[d], e)) = Range(cRecvCh[d]) \union {e}
    BY <1>1, <2>2, FrameAdded
  <2>4. \E f \in Range(cRecvCh'[c]) : f.kind = "message"
    BY <2>1 DEF MessageRead
  <2>5. CASE c # d
    BY <1>1, <2>1, <2>4, <2>5 DEF MessageRead
  <2>6. CASE c = d
    <3>1. cRecvCh'[c] = Append(cRecvCh[d], e)
      BY <1>1, <2>1, <2>6
    <3>2. \E f \in Range(cRecvCh[d]) \union {e} : f.kind = "message"
      BY <2>3, <2>4, <3>1
    <3> QED
      BY <2>1, <2>6, <3>2 DEF MessageRead
  <2> QED
    BY <2>5, <2>6
<1>5. ASSUME NEW d \in Calls, C!TakeFrame(d) PROVE MessageRead(c)
  <2>1. /\ UNCHANGED cReader /\ cRecvCh[d] # <<>>
        /\ cRecvCh' = [cRecvCh EXCEPT ![d] = Tail(cRecvCh[d])]
    BY <1>5 DEF C!TakeFrame, C!loopVars
  <2>2. Range(cRecvCh[d]) = Range(Tail(cRecvCh[d])) \union {Head(cRecvCh[d])}
    BY <1>1, <2>1, FrameTaken
  <2>3. Range(cRecvCh'[c]) \subseteq Range(cRecvCh[c])
    BY <1>1, <2>1, <2>2
  <2> QED
    BY <2>1, <2>3 DEF MessageRead
<1>6. \/ UNCHANGED <<cReader, cRecvCh>> \/ C!ReadLoopEnds \/ C!Deliver
      \/ \E d \in Calls : C!TakeFrame(d)
  <2>1. CASE C!Closer \/ C!Environment \/ C!Writer \/ UNCHANGED clientVars
    BY <2>1 DEF C!Closer, C!CloseSessions, C!CloseDone, C!Environment, C!Disconnect, C!BaseCancel,
       C!CallerCancel, C!Writer, C!WriterTake, C!WriterWrote, C!WriteLoopEnds, C!chanVars,
       C!loopVars, clientVars
  <2>2. CASE \E d \in Calls : C!Sending(d) \/ C!Receiving(d) \/ C!CancelStream(d) \/ C!User(d)
    BY <2>2 DEF C!Sending, C!Receiving, C!SendFrame, C!SendFails, C!GiveUp, C!RemoveSession,
       C!CancelStream, C!User, C!NewSession, C!MarshalFails, C!CallReceive, C!CallSend,
       C!CloseAndReceive, C!CloseStream, C!chanVars, C!loopVars
  <2> QED
    BY <2>1, <2>2
<1> QED
  BY <1>2, <1>3, <1>4, <1>5, <1>6

Carried(c) == MessageQueued(c) \/ MessageSent(c) \/ MessageRead(c)

LEMMA MessageCarried ==
  ASSUME Ends, [Next]_vars, NEW c \in Calls, Carried(c)'
  PROVE  \/ Carried(c)
         \/ \E s \in Sess : S!WriteFrame(s) /\ idOf[s] = c /\ Head(pend[s]) = "message"
<1> DEFINE Writes == \E s \in Sess : S!WriteFrame(s) /\ idOf[s] = c /\ Head(pend[s]) = "message"
<1>1. MessageQueued(c)' => MessageQueued(c) \/ Writes
  BY EndSteps, MessageQueues
<1>2. s2c \in Seq(Response)
  BY DEF Ends, NetOK
<1> HIDE DEF Writes
<1>3. CASE ServerWrites
  <2>1. /\ UNCHANGED clientVars /\ sWriter.at = "writing" /\ s2c' = Append(s2c, sWriter.frame)
        /\ sWriter.frame \in Response
    BY <1>3 DEF ServerWrites, S!WriterWrote, Ends, NetOK
  <2>2. Range(s2c') = Range(s2c) \union {sWriter.frame}
    BY <1>2, <2>1, FrameAdded
  <2>3. MessageSent(c)' => MessageSent(c) \/ MessageQueued(c)
    BY <2>1, <2>2 DEF MessageSent, MessageQueued, Message
  <2>4. MessageRead(c)' => MessageRead(c)
    BY <2>1, MessageReads
  <2> QED
    BY <1>1, <2>3, <2>4 DEF Carried, Writes
<1>4. CASE ClientReads
  <2> DEFINE f == Head(s2c)
  <2>1. s2c # <<>> /\ s2c' = Tail(s2c) /\ C!ReadFrame(f.id, f.kind)
    BY <1>4 DEF ClientReads
  <2>2. /\ f \in Response
        /\ Range(s2c) = Range(s2c') \union {f}
    BY <1>2, <2>1, FrameTaken
  <2>3. f.id = c /\ f.kind = "message" => f = Message(c)
    BY <2>2 DEF Response, Message
  <2>4. /\ UNCHANGED cRecvCh
        /\ \/ cReader' = C!Idle
           \/ \E n : cReader' = [at |-> "deliver", call |-> f.id, n |-> n, kind |-> f.kind]
    BY <2>1 DEF C!ReadFrame, C!chanVars
  <2> HIDE DEF f
  <2>5. MessageRead(c)' => MessageRead(c) \/ MessageSent(c)
    <3>1. CASE cReader' = C!Idle
      BY <2>4, <3>1 DEF MessageRead, C!Idle
    <3>2. ASSUME NEW n, cReader' = [at |-> "deliver", call |-> f.id, n |-> n, kind |-> f.kind]
          PROVE  MessageRead(c)' => MessageRead(c) \/ MessageSent(c)
      BY <2>2, <2>3, <2>4, <3>2 DEF MessageRead, MessageSent
    <3> QED
      BY <2>4, <3>1, <3>2
  <2>6. MessageSent(c)' => MessageSent(c)
    BY <2>2 DEF MessageSent, Message
  <2> QED
    BY <1>1, <2>5, <2>6 DEF Carried, Writes
<1>5. CASE UNCHANGED s2c /\ (MessageRead(c)' => MessageRead(c))
  <2>1. MessageSent(c)' <=> MessageSent(c)
    BY <1>5 DEF MessageSent, Message
  <2> QED
    BY <1>1, <1>5, <2>1 DEF Carried, Writes
<1>6. \/ ServerWrites \/ ClientReads
      \/ /\ UNCHANGED s2c
         /\ \/ C!Deliver \/ C!ReadLoopEnds \/ C!Closer \/ C!Environment \/ C!Writer
            \/ \E d \in Calls : C!Sending(d) \/ C!Receiving(d) \/ C!CancelStream(d) \/ C!User(d)
            \/ UNCHANGED clientVars
  BY DEF Next, vars, netVars, ClientWrites, ServerReads, ClientNotices, ServerNotices, ServerReader,
     ServerShutdown, ServerWriter, Serving, HandlerCode, ClientReader, ClientWriter, Closing,
     Sending, Receiving, Aborting, User, Faults, ClientThread, ServerThread, C!Writer, C!Environment
<1> QED
  BY <1>3, <1>4, <1>5, <1>6, MessageReads

LEMMA MessagesStep ==
  ASSUME Ends, SP!AnswerLocals, SP!RepliesWellFormed, SP!AnswersRequest, SP!AnswersRequest',
         MessagesAnswered, [Next]_vars
  PROVE  MessagesAnswered'
<1> SUFFICES ASSUME NEW c \in Calls, Carried(c)' PROVE HasAnswer(c)'
  BY DEF MessagesAnswered, Carried
<1>1. CASE Carried(c)
  <2>1. PICK s \in Sess : sPc[s] # "new" /\ idOf[s] = c /\ Answered(s)
    BY <1>1 DEF MessagesAnswered, Carried, HasAnswer, SessionsOf
  <2>2. sPc'[s] # "new" /\ idOf'[s] = c /\ Answered(s)'
    BY <2>1, SessionsStand, AnswersStand
  <2> QED
    BY <2>2 DEF HasAnswer, SessionsOf
<1>2. ASSUME NEW s \in Sess, S!WriteFrame(s), idOf[s] = c, Head(pend[s]) = "message"
      PROVE  HasAnswer(c)'
  <2>1. /\ replied \in [Sess -> Seq(SP!Kinds)]
    BY DEF Ends, SP!IInv, SP!TypeOK, SP!SessOK
  <2>2. /\ sPc[s] \in {"send", "finish"}
        /\ replied' = [replied EXCEPT ![s] = Append(replied[s], "message")]
    BY <1>2 DEF S!WriteFrame
  <2>3. replied'[s] = Append(replied[s], "message")
    BY <2>1, <2>2
  <2> DEFINE q == replied[s]
  <2>4. q \in Seq(SP!Kinds) /\ "message" \in SP!Kinds
    BY <2>1 DEF SP!Kinds
  <2>5. q = <<>> \/ q[1] = "message"
    <3>1. /\ \A k \in 1 .. Len(q) - 1 : q[k] = "message"
          /\ q # <<>> => q[Len(q)] \notin SP!Terminal
      BY <2>2 DEF SP!RepliesWellFormed
    <3>2. q # <<>> => q[Len(q)] \in SP!Kinds
      BY <2>4
    <3>3. q # <<>> => q[Len(q)] = "message"
      BY <3>1, <3>2 DEF SP!Kinds, SP!Terminal
    <3> QED
      BY <2>4, <3>1, <3>3
  <2> HIDE DEF q
  <2>6. Append(q, "message") # <<>> /\ Head(Append(q, "message")) = "message"
    <3>1. CASE q = <<>>
      BY <3>1
    <3>2. CASE q # <<>>
      <4>1. Head(q) = "message"
        BY <2>4, <2>5, <3>2, HeadTail
      <4> QED
        BY <2>4, <3>2, <4>1, FirstStays
    <3> QED
      BY <3>1, <3>2
  <2>7. replied'[s] # <<>> /\ Head(replied'[s]) = "message"
    BY <2>3, <2>6 DEF q
  <2>8. Answered(s)' /\ sPc'[s] # "new" /\ idOf'[s] = c
    BY <1>2, <2>2, <2>7, AnsweredIs, SessionsStand
  <2> QED
    BY <2>8 DEF HasAnswer, SessionsOf
<1> QED
  BY <1>1, <1>2, MessageCarried

-----------------------------------------------------------------------------
(* What a step of the connection is for the calls.                         *)

(* The work of a call with one session is what that session has done.      *)
LEMMA WorkOf ==
  ASSUME NEW c \in Calls, NEW s \in Sess
  PROVE  /\ SessionsOf(c) = {s} => Work(c) = [x \in {s} |-> Fate(s)]
         /\ SessionsOf(c)' = {s} => Work(c)' = [x \in {s} |-> Fate(s)']
BY DEF Work

LEMMA WorkSame ==
  ASSUME NEW c \in Calls, SessionsOf(c)' = SessionsOf(c),
         \A s \in SessionsOf(c) : (Answered(s)' <=> Answered(s)) /\ (Ended(s)' <=> Ended(s))
  PROVE  Work(c)' = Work(c)
<1>1. \A s \in SessionsOf(c) : Fate(s)' = Fate(s)
  BY DEF Fate
<1> QED
  BY <1>1 DEF Work

(* A step that leaves the goroutines' locals alone does no work.           *)
LEMMA WorkStays ==
  ASSUME UNCHANGED <<sPc, idOf, shape, sGot, replied>>, NEW c \in Calls
  PROVE  Work(c)' = Work(c)
<1>1. SessionsOf(c)' = SessionsOf(c)
  BY DEF SessionsOf
<1>2. \A s \in SessionsOf(c) : (Answered(s)' <=> Answered(s)) /\ (Ended(s)' <=> Ended(s))
  BY DEF Answered, Ended
<1> QED
  BY <1>1, <1>2, WorkSame

Untried(c)     == DOMAIN Work(c) = {}
Begun(c, s)    == Work(c) = [x \in {s} |-> "begun"]
Over(c, s)     == \E how \in {"answered", "failed"} : Work(c) = [x \in {s} |-> how]

LEMMA WorkStarts ==
  ASSUME Ends, SP!AnswerLocals, SP!AnswersRequest, SP!AnswersRequest', OpensOnce, SP!StartSession
  PROVE  \/ \A c \in Calls : Work(c)' = Work(c)
         \/ \E c \in Calls :
              /\ \A d \in Calls : d # c => Work(d)' = Work(d)
              /\ Starting(c) /\ Untried(c) /\ \E s \in Sess : Begun(c, s)'
<1>0. sReader.at = "start" /\ sReader.s \in Sess /\ sReader.id \in Calls
  BY DEF SP!StartSession, Ends, SP!IInv, SP!ReaderLocals
<1> PICK r \in Sess, i \in Calls : r = sReader.s /\ i = sReader.id
  BY <1>0
<1>1. /\ sReader.at = "start" /\ UNCHANGED <<sGot, replied>>
      /\ \/ UNCHANGED <<sPc, idOf, shape>>
         \/ /\ sPc' = [sPc EXCEPT ![r] = SP!FirstStep(sReader.code)]
            /\ idOf' = [idOf EXCEPT ![r] = i]
            /\ shape' = [shape EXCEPT ![r] = sReader.code]
  BY DEF SP!StartSession
<1>2. /\ r \in Sess /\ sPc[r] = "new" /\ i \in Calls
      /\ sPc \in [Sess -> SP!SessionAt] /\ idOf \in [Sess -> Calls \union {None}]
      /\ shape \in [Sess -> SP!Shapes \union {None}]
  BY <1>1 DEF Ends, SP!IInv, SP!ReaderLocals, SP!TypeOK, SP!SessOK
<1>3. CASE UNCHANGED <<sPc, idOf, shape>>
  <2>1. ASSUME NEW c \in Calls PROVE Work(c)' = Work(c)
    BY <1>1, <1>3, WorkStays
  <2> QED
    BY <2>1
<1>4. CASE /\ sPc' = [sPc EXCEPT ![r] = SP!FirstStep(sReader.code)]
           /\ idOf' = [idOf EXCEPT ![r] = i]
           /\ shape' = [shape EXCEPT ![r] = sReader.code]
  <2>1. /\ sPc'[r] \in {"first", "run"} /\ idOf'[r] = i
        /\ \A t \in Sess : t # r => UNCHANGED <<sPc[t], idOf[t], shape[t]>>
    BY <1>2, <1>4 DEF SP!FirstStep
  <2>2. ASSUME NEW d \in Calls, d # i PROVE Work(d)' = Work(d)
    <3>1. SessionsOf(d)' = SessionsOf(d)
      BY <1>2, <2>1, <2>2 DEF SessionsOf
    <3>2. ASSUME NEW s \in SessionsOf(d)
          PROVE  (Answered(s)' <=> Answered(s)) /\ (Ended(s)' <=> Ended(s))
      <4>1. s \in Sess /\ s # r
        BY <1>2, <3>2 DEF SessionsOf
      <4> QED
        BY <1>1, <2>1, <4>1 DEF Answered, Ended
    <3> QED
      BY <3>1, <3>2, WorkSame
  <2>3. Starting(i) /\ SessionsOf(i) = {}
    BY <1>1, <1>2 DEF Starting, OpensOnce, OpenOnce
  <2>4. SessionsOf(i)' = {r}
    BY <1>2, <2>1, <2>3 DEF SessionsOf
  <2>5. ~Answered(r)' /\ ~Ended(r)'
    <3>1. replied'[r] = <<>>
      BY <1>1, <1>2 DEF SP!AnswerLocals
    <3> QED
      BY <1>2, <2>1, <3>1, AnsweredIs DEF Ended
  <2>6. Untried(i)
    BY <2>3 DEF Untried, Work
  <2>7. Begun(i, r)'
    <3>1. Fate(r)' = "begun"
      BY <2>5 DEF Fate
    <3> QED
      BY <1>2, <2>4, <3>1, WorkOf DEF Begun
  <2> QED
    BY <1>2, <2>2, <2>3, <2>6, <2>7
<1> QED
  BY <1>1, <1>3, <1>4

LEMMA WorkGoesOn ==
  ASSUME Ends, SP!AnswerLocals, SP!AnswersRequest, SP!AnswersRequest', OpensOnce, [Next]_vars,
         NEW s \in Sess, SP!Transport(s) \/ SP!Handler(s)
  PROVE  \/ \A c \in Calls : Work(c)' = Work(c)
         \/ \E c \in Calls :
              /\ \A d \in Calls : d # c => Work(d)' = Work(d)
              /\ \E t \in Sess : Begun(c, t) /\ Over(c, t)'
<1>1. /\ UNCHANGED idOf /\ sPc[s] # "new" /\ sPc'[s] # "new"
      /\ \A t \in Sess : t # s => UNCHANGED <<sPc[t], replied[t]>>
      /\ \A c \in Calls : SessionsOf(c)' = SessionsOf(c)
  BY SessionMoves
<1>2. idOf[s] \in Calls
  BY <1>1 DEF Ends, SP!IInv, SP!SessionLocals
<1> PICK c \in Calls : c = idOf[s]
  BY <1>2
<1>3. ASSUME NEW d \in Calls, d # c PROVE Work(d)' = Work(d)
  <2>1. ASSUME NEW t \in SessionsOf(d)
        PROVE  (Answered(t)' <=> Answered(t)) /\ (Ended(t)' <=> Ended(t))
    <3>1. t \in Sess /\ t # s
      BY <1>3, <2>1 DEF SessionsOf
    <3> QED
      BY <1>1, <3>1, AnsweredIs DEF Ended
  <2> QED
    BY <1>1, <2>1, WorkSame
<1>4. SessionsOf(c) = {s} /\ SessionsOf(c)' = {s}
  <2>1. s \in SessionsOf(c) /\ \A t \in SessionsOf(c) : t = s
    BY <1>1, <1>2 DEF SessionsOf, OpensOnce, OpenOnce
  <2> QED
    BY <1>1, <1>2, <2>1
<1>5. Answered(s) => Answered(s)'
  BY <1>1, AnswersStand
<1>6. Ended(s) => Ended(s)' /\ (Answered(s)' => Answered(s))
  <2>1. SP!Silent(s) \/ SP!Queued(s) \/ SP!Left(s)
    BY SessionSteps DEF Ends
  <2>2. Ended(s) => SP!Left(s)
    BY <2>1 DEF SP!Silent, SP!Queued, SP!Phase, Ended
  <2>3. SP!Left(s) => Ended(s)' /\ replied'[s] = replied[s]
    BY DEF SP!Left, Ended
  <2> QED
    BY <2>2, <2>3, AnsweredIs
<1>7. Work(c) = [x \in {s} |-> Fate(s)] /\ Work(c)' = [x \in {s} |-> Fate(s)']
  BY <1>2, <1>4, WorkOf
<1>8. Fate(s)' = Fate(s) \/ (Fate(s) = "begun" /\ Fate(s)' \in {"answered", "failed"})
  BY <1>5, <1>6 DEF Fate
<1>9. CASE Fate(s)' = Fate(s)
  <2>1. Work(c)' = Work(c)
    BY <1>7, <1>9
  <2> QED
    BY <1>3, <2>1
<1>10. CASE Fate(s) = "begun" /\ Fate(s)' \in {"answered", "failed"}
  <2>1. Begun(c, s) /\ Over(c, s)'
    BY <1>7, <1>10 DEF Begun, Over
  <2> QED
    BY <1>2, <1>3, <2>1
<1> QED
  BY <1>8, <1>9, <1>10

(* What a caller knows changes with a step of that call alone, from        *)
(* nothing to a call in progress and from there to its outcome.            *)
LEMMA OneStatus ==
  ASSUME Ends, NEW c \in Calls
  PROVE  /\ \A at : at # "idle" /\ cPc[c] # "idle" /\ UNCHANGED result
                    /\ cPc' = [cPc EXCEPT ![c] = at]
              => \A d \in Calls : Status(d)' = Status(d)
         /\ \A at, r : at # "idle" /\ cPc[c] # "idle" /\ result[c] = "none" /\ r \in {"ok", "err"}
                       /\ cPc' = [cPc EXCEPT ![c] = at] /\ result' = [result EXCEPT ![c] = r]
              => /\ \A d \in Calls : d # c => Status(d)' = Status(d)
                 /\ Status(c) = "pending"
                 /\ Status(c)' = IF r = "ok" THEN "ok" ELSE "failed"
<1>1. cPc \in [Calls -> CP!CallAt] /\ result \in [Calls -> {"none", "ok", "err"}]
  BY ClientTypes DEF Ends
<1>2. ASSUME NEW at, at # "idle", cPc[c] # "idle", UNCHANGED result, cPc' = [cPc EXCEPT ![c] = at],
             NEW d \in Calls
      PROVE  Status(d)' = Status(d)
  <2>1. cPc'[d] = "idle" <=> cPc[d] = "idle"
    BY <1>1, <1>2
  <2> QED
    BY <1>2, <2>1 DEF Status
<1>3. ASSUME NEW at, NEW r \in {"ok", "err"}, at # "idle", cPc[c] # "idle", result[c] = "none",
             cPc' = [cPc EXCEPT ![c] = at], result' = [result EXCEPT ![c] = r]
      PROVE  /\ \A d \in Calls : d # c => Status(d)' = Status(d)
             /\ Status(c) = "pending"
             /\ Status(c)' = IF r = "ok" THEN "ok" ELSE "failed"
  <2>1. /\ \A d \in Calls : d # c => cPc'[d] = cPc[d] /\ result'[d] = result[d]
        /\ cPc'[c] = at /\ result'[c] = r
    BY <1>1, <1>3
  <2> QED
    BY <1>3, <2>1 DEF Status
<1> QED
  BY <1>2, <1>3

LEMMA StatusMoves ==
  ASSUME Ends, NEW c \in Calls,
         C!Sending(c) \/ C!Receiving(c) \/ C!CancelStream(c) \/ C!User(c)
  PROVE  \/ \A d \in Calls : Status(d)' = Status(d)
         \/ /\ \A d \in Calls : d # c => Status(d)' = Status(d)
            /\ \/ Status(c) = "idle" /\ Status(c)' = "pending"
               \/ Status(c) = "pending" /\ Status(c)' = "failed"
               \/ Status(c) = "pending" /\ Status(c)' = "ok" /\ MessageRead(c)
<1>1. cPc \in [Calls -> CP!CallAt] /\ result \in [Calls -> {"none", "ok", "err"}]
  BY ClientTypes DEF Ends
<1>2. /\ result[c] # "none" <=> cPc[c] \in {"cancelling", "cleanup", "done"}
      /\ cPc[c] = "cancelling" => result[c] = "err"
  BY DEF Ends, CP!IInv, CP!Outcomes
<1>3. ASSUME UNCHANGED <<cPc, result>> PROVE \A d \in Calls : Status(d)' = Status(d)
  BY <1>3 DEF Status
<1>4. ASSUME NEW at, at # "idle", cPc[c] # "idle", UNCHANGED result, cPc' = [cPc EXCEPT ![c] = at]
      PROVE  \A d \in Calls : Status(d)' = Status(d)
  BY <1>4, OneStatus
<1>5. ASSUME NEW at, NEW r \in {"ok", "err"}, at # "idle", cPc[c] # "idle", result[c] = "none",
             cPc' = [cPc EXCEPT ![c] = at], result' = [result EXCEPT ![c] = r]
      PROVE  /\ \A d \in Calls : d # c => Status(d)' = Status(d)
             /\ Status(c) = "pending"
             /\ Status(c)' = IF r = "ok" THEN "ok" ELSE "failed"
  BY <1>5, OneStatus
<1>6. CASE C!SendFrame(c)
  <2>1. /\ UNCHANGED result
        /\ cPc' = [cPc EXCEPT ![c] = IF Len(snd[c]) = 1 THEN C!AllSent(c) ELSE cPc[c]]
    BY <1>6 DEF C!SendFrame
  <2>2. cPc[c] # "idle"
    BY <1>6 DEF C!SendFrame, Ends, CP!IInv, CP!IdleCalls, CP!NotMade
  <2>3. C!AllSent(c) # "idle"
    BY <2>2 DEF C!AllSent
  <2> QED
    BY <1>4, <2>1, <2>2, <2>3
<1>7. CASE C!SendFails(c)
  <2>1. CASE cPc[c] \in {"opening", "finishing"}
    <3>1. cPc' = [cPc EXCEPT ![c] = "cleanup"] /\ result' = [result EXCEPT ![c] = "err"]
      BY <1>7, <2>1 DEF C!SendFails
    <3> QED
      BY <1>2, <1>5, <2>1, <3>1
  <2>2. CASE cPc[c] = "cancelling"
    <3>1. cPc' = [cPc EXCEPT ![c] = "cleanup"] /\ result' = [result EXCEPT ![c] = "err"]
      BY <1>7, <2>2 DEF C!SendFails
    <3>2. result' = result
      BY <1>1, <1>2, <2>2, <3>1
    <3> QED
      BY <1>4, <2>2, <3>1, <3>2
  <2>3. CASE cPc[c] \notin {"opening", "finishing", "cancelling"}
    BY <1>3, <1>7, <2>3 DEF C!SendFails
  <2> QED
    BY <2>1, <2>2, <2>3
<1>8. ASSUME C!Fail(c), cPc[c] = "recv"
      PROVE  /\ \A d \in Calls : d # c => Status(d)' = Status(d)
             /\ Status(c) = "pending" /\ Status(c)' = "failed"
  <2>1. /\ result' = [result EXCEPT ![c] = "err"]
        /\ \E at \in {"cancelling", "cleanup"} : cPc' = [cPc EXCEPT ![c] = at]
    BY <1>8 DEF C!Fail
  <2> QED
    BY <1>2, <1>5, <1>8, <2>1
<1>9. CASE C!TakeFrame(c)
  <2>1. /\ cPc[c] = "recv" /\ cRecvCh[c] # <<>>
        /\ \/ Head(cRecvCh[c]).kind = "message" /\ C!Succeed(c)
           \/ C!Fail(c) \/ UNCHANGED <<cPc, result>>
    BY <1>9 DEF C!TakeFrame
  <2>2. ASSUME Head(cRecvCh[c]).kind = "message" PROVE MessageRead(c)
    <3>1. cRecvCh[c] \in Seq(CP!Received)
      BY ClientTypes DEF Ends
    <3>2. Head(cRecvCh[c]) \in Range(cRecvCh[c])
      BY <2>1, <3>1, FrameTaken
    <3> QED
      BY <2>2, <3>2 DEF MessageRead
  <2>3. ASSUME C!Succeed(c)
        PROVE  \/ \A d \in Calls : Status(d)' = Status(d)
               \/ /\ \A d \in Calls : d # c => Status(d)' = Status(d)
                  /\ Status(c) = "pending" /\ Status(c)' = "ok"
    <3>1. \/ cPc' = [cPc EXCEPT ![c] = "cleanup"] /\ result' = [result EXCEPT ![c] = "ok"]
          \/ cPc' = [cPc EXCEPT ![c] = "stream"] /\ UNCHANGED result
      BY <2>3 DEF C!Succeed
    <3> QED
      BY <1>2, <1>4, <1>5, <2>1, <3>1
  <2> QED
    BY <1>3, <1>8, <2>1, <2>2, <2>3
<1>10. CASE C!GiveUp(c)
  BY <1>8, <1>10 DEF C!GiveUp
<1>11. CASE C!RemoveSession(c) \/ C!CallReceive(c) \/ C!CloseAndReceive(c)
  <2>1. /\ cPc[c] # "idle" /\ UNCHANGED result
        /\ \E at \in {"done", "recv", "finishing"} : cPc' = [cPc EXCEPT ![c] = at]
    BY <1>11 DEF C!RemoveSession, C!CallReceive, C!CloseAndReceive
  <2> QED
    BY <1>4, <2>1
<1>12. CASE C!CancelStream(c) \/ C!CallSend(c) \/ C!CloseStream(c)
  BY <1>3, <1>12 DEF C!CancelStream, C!CallSend, C!CloseStream
<1>13. CASE C!NewSession(c)
  <2>1. cPc[c] = "idle" /\ cPc' = [cPc EXCEPT ![c] = "opening"] /\ UNCHANGED result
    BY <1>13 DEF C!NewSession
  <2>2. cPc'[c] = "opening" /\ \A d \in Calls : d # c => cPc'[d] = cPc[d]
    BY <1>1, <2>1
  <2>3. \A d \in Calls : d # c => Status(d)' = Status(d)
    BY <2>1, <2>2 DEF Status
  <2>4. Status(c) = "idle" /\ Status(c)' = "pending"
    BY <1>2, <2>1, <2>2 DEF Status
  <2> QED
    BY <2>3, <2>4
<1>14. CASE C!MarshalFails(c)
  <2>1. /\ cPc[c] = "opening" /\ cPc' = [cPc EXCEPT ![c] = "cleanup"]
        /\ result' = [result EXCEPT ![c] = "err"]
    BY <1>14 DEF C!MarshalFails
  <2> QED
    BY <1>2, <1>5, <2>1
<1> QED
  BY <1>6, <1>7, <1>9, <1>10, <1>11, <1>12, <1>13, <1>14 DEF C!Sending, C!Receiving, C!User

-----------------------------------------------------------------------------
(* The invariant of the whole connection.                                  *)

ServerInv == SP!AnswerLocals /\ SP!RepliesWellFormed /\ SP!AnswersRequest
ConnInv   == Ends /\ SysInv

LEMMA InitConnInv == Init => ConnInv
<1> SUFFICES ASSUME Init PROVE ConnInv
  OBVIOUS
<1>1. Ends
  BY EndsInit
<1>2. /\ cWriteCh = <<>> /\ c2s = <<>> /\ s2c = <<>> /\ sWriteCh = <<>>
      /\ cWriter.at = "idle" /\ sWriter.at = "idle" /\ cReader.at = "read" /\ sReader.at = "read"
      /\ opened = {} /\ \A c \in Calls : snd[c] = <<>> /\ queued[c] = <<>> /\ cRecvCh[c] = <<>>
      /\ \A s \in Sess : sPc[s] = "new"
  BY DEF Init, C!Init, S!Init, C!Idle, S!Idle
<1>3. \A f : f \notin Range(<<>>)
  BY DEF Range
<1>4. ASSUME NEW c \in Calls PROVE OpenOnce(c)
  <2>1. ~OpenQueued(c) /\ ~OpenHeld(c) /\ ~OpenSent(c) /\ ~Starting(c) /\ SessionsOf(c) = {}
    BY <1>2, <1>3 DEF OpenQueued, OpenHeld, OpenSent, Starting, SessionsOf
  <2> QED
    BY <1>2, <2>1 DEF OpenOnce, AtMostOne
<1>5. ASSUME NEW c \in Calls PROVE ~Carried(c)
  BY <1>2, <1>3, <1>5 DEF Carried, MessageQueued, MessageSent, MessageRead
<1> QED
  BY <1>1, <1>4, <1>5 DEF ConnInv, SysInv, Ends, OpensOnce, MessagesAnswered, Carried

LEMMA StepConnInv == ConnInv /\ ServerInv /\ ServerInv' /\ [Next]_vars => ConnInv'
BY EndsStep, OpensStep, MessagesStep DEF ConnInv, ServerInv, SysInv, Ends

(* Every step of the connection is a step of one call, or none.            *)
LEMMA StepRemote ==
  ASSUME ConnInv, ServerInv, ServerInv', [Next]_vars
  PROVE  [Remote!Next]_(Remote!vars)
<1> DEFINE status == [c \in Calls |-> Status(c)]
           work   == [c \in Calls |-> Work(c)]
<1> USE DEF Remote!vars
<1>1. /\ Ends /\ OpensOnce /\ MessagesAnswered
      /\ SP!AnswerLocals /\ SP!AnswersRequest /\ SP!AnswersRequest'
  BY DEF ConnInv, SysInv, ServerInv
<1>2. (\A c \in Calls : Status(c)' = Status(c)) => status' = status
  OBVIOUS
<1>3. (\A c \in Calls : Work(c)' = Work(c)) => work' = work
  OBVIOUS
<1>4. ASSUME NEW c \in Calls, \A d \in Calls : d # c => Status(d)' = Status(d)
      PROVE  status' = [status EXCEPT ![c] = Status(c)']
  BY <1>4
<1>5. ASSUME NEW c \in Calls, \A d \in Calls : d # c => Work(d)' = Work(d)
      PROVE  work' = [work EXCEPT ![c] = Work(c)']
  BY <1>5
<1>6. \A c \in Calls : status[c] = Status(c) /\ work[c] = Work(c)
  OBVIOUS
<1> HIDE DEF status, work
<1>7. ASSUME UNCHANGED serverVars PROVE work' = work
  BY <1>3, <1>7, WorkStays DEF serverVars
<1>8. ASSUME UNCHANGED clientVars PROVE status' = status
  BY <1>2, <1>8 DEF Status, clientVars
<1>9. ASSUME NEW c \in Calls, UNCHANGED serverVars,
             C!Sending(c) \/ C!Receiving(c) \/ C!CancelStream(c) \/ C!User(c)
      PROVE  [Remote!Next]_(Remote!vars)
  <2>1. work' = work
    BY <1>7, <1>9
  <2>2. CASE \A d \in Calls : Status(d)' = Status(d)
    BY <1>2, <2>1, <2>2 DEF status, work
  <2>3. CASE /\ \A d \in Calls : d # c => Status(d)' = Status(d)
             /\ \/ Status(c) = "idle" /\ Status(c)' = "pending"
                \/ Status(c) = "pending" /\ Status(c)' = "failed"
                \/ Status(c) = "pending" /\ Status(c)' = "ok" /\ MessageRead(c)
    <3>1. status' = [status EXCEPT ![c] = Status(c)']
      BY <1>4, <2>3
    <3>2. MessageRead(c) => \E s \in DOMAIN work[c] : work[c][s] = "answered"
      <4>1. MessageRead(c) => \E s \in SessionsOf(c) : Answered(s)
        BY <1>1 DEF MessagesAnswered, HasAnswer
      <4>2. work[c] = [s \in SessionsOf(c) |-> Fate(s)]
        BY <1>6 DEF Work
      <4> QED
        BY <4>1, <4>2 DEF Fate
    <3>3. \/ status[c] = "idle" /\ status' = [status EXCEPT ![c] = "pending"]
          \/ status[c] = "pending" /\ status' = [status EXCEPT ![c] = "failed"]
          \/ /\ status[c] = "pending" /\ \E s \in DOMAIN work[c] : work[c][s] = "answered"
             /\ status' = [status EXCEPT ![c] = "ok"]
      BY <1>6, <2>3, <3>1, <3>2
    <3>4. Remote!Invoke(c) \/ Remote!Fail(c) \/ Remote!Succeed(c)
      BY <2>1, <3>3 DEF status, work, Remote!Invoke, Remote!Fail, Remote!Succeed
    <3> QED
      BY <3>4 DEF Remote!Next
  <2> QED
    BY <1>1, <1>9, <2>2, <2>3, StatusMoves
<1>10. CASE UNCHANGED serverVars /\ UNCHANGED <<cPc, result>>
  <2>1. status' = status
    BY <1>2, <1>10 DEF Status
  <2> QED
    BY <1>7, <1>10, <2>1 DEF status, work
<1>11. CASE UNCHANGED clientVars
  <2>1. \/ \A c \in Calls : Work(c)' = Work(c)
        \/ \E c \in Calls :
             /\ \A d \in Calls : d # c => Work(d)' = Work(d)
             /\ \/ Starting(c) /\ Untried(c) /\ \E s \in Sess : Begun(c, s)'
                \/ \E s \in Sess : Begun(c, s) /\ Over(c, s)'
    <3>1. SP!Quiet \/ SP!StartSession \/ \E s \in Sess : SP!Transport(s) \/ SP!Handler(s)
      BY <1>1, BothStep, ServerSteps DEF Ends
    <3>2. SP!Quiet => \A c \in Calls : Work(c)' = Work(c)
      BY WorkStays DEF SP!Quiet, SP!sessVars
    <3> QED
      BY <1>1, <3>1, <3>2, WorkStarts, WorkGoesOn
  <2>2. CASE \A c \in Calls : Work(c)' = Work(c)
    BY <1>3, <1>8, <1>11, <2>2 DEF status, work
  <2>3. ASSUME NEW c \in Calls, \A d \in Calls : d # c => Work(d)' = Work(d),
               \/ Starting(c) /\ Untried(c) /\ \E s \in Sess : Begun(c, s)'
               \/ \E s \in Sess : Begun(c, s) /\ Over(c, s)'
        PROVE  Remote!Begin(c) \/ Remote!End(c)
    <3>1. work' = [work EXCEPT ![c] = Work(c)']
      BY <1>5, <2>3
    <3>2. Starting(c) => status[c] # "idle"
      <4>1. Starting(c) => c \in opened
        BY <1>1 DEF OpensOnce, OpenOnce
      <4>2. c \in opened => cPc[c] # "idle"
        BY <1>1 DEF Ends, CP!IInv, CP!IdleCalls, CP!NotMade
      <4> QED
        BY <1>6, <4>1, <4>2 DEF Status
    <3>3. status' = status
      BY <1>8, <1>11
    <3>4. CASE Starting(c) /\ Untried(c) /\ \E s \in Sess : Begun(c, s)'
      <4>1. PICK s \in Sess : Work(c)' = [x \in {s} |-> "begun"]
        BY <3>4 DEF Begun
      <4>2. DOMAIN work[c] = {} /\ work' = [work EXCEPT ![c] = [x \in {s} |-> "begun"]]
        BY <1>6, <3>1, <3>4, <4>1 DEF Untried
      <4> QED
        BY <3>2, <3>3, <3>4, <4>2 DEF status, work, Remote!Begin
    <3>5. CASE \E s \in Sess : Begun(c, s) /\ Over(c, s)'
      <4>1. PICK s \in Sess, how \in {"answered", "failed"} :
              Work(c) = [x \in {s} |-> "begun"] /\ Work(c)' = [x \in {s} |-> how]
        BY <3>5 DEF Begun, Over
      <4>2. work[c] = [x \in {s} |-> "begun"]
        BY <1>6, <4>1
      <4>3. [work[c] EXCEPT ![s] = how] = [x \in {s} |-> how]
        BY <4>2
      <4>4. /\ s \in DOMAIN work[c] /\ work[c][s] = "begun"
            /\ work' = [work EXCEPT ![c] = [work[c] EXCEPT ![s] = how]]
        BY <3>1, <4>1, <4>2, <4>3
      <4>5. work' = [work EXCEPT ![c][s] = how]
        BY <4>4
      <4> QED
        BY <3>3, <4>4, <4>5 DEF status, work, Remote!End
    <3> QED
      BY <2>3, <3>4, <3>5
  <2> QED
    BY <2>1, <2>2, <2>3 DEF Remote!Next
<1>12. \/ UNCHANGED clientVars
       \/ UNCHANGED serverVars /\ UNCHANGED <<cPc, result>>
       \/ /\ UNCHANGED serverVars
          /\ \E c \in Calls : C!Sending(c) \/ C!Receiving(c) \/ C!CancelStream(c) \/ C!User(c)
  <2>1. CASE \/ ServerReads \/ ServerWrites \/ ServerNotices \/ ServerReader \/ ServerShutdown
             \/ ServerWriter \/ UNCHANGED vars \/ \E s \in Sess : Serving(s) \/ HandlerCode(s)
    BY <2>1 DEF ServerReads, ServerWrites, ServerNotices, ServerReader, ServerShutdown,
       ServerWriter, Serving, HandlerCode, ServerThread, vars
  <2>2. CASE \E c \in Calls : Sending(c) \/ Receiving(c) \/ Aborting(c) \/ User(c)
    BY <2>2 DEF Sending, Receiving, Aborting, User, ClientThread
  <2>3. CASE ClientReads \/ ClientWrites \/ ClientNotices
    BY <2>3 DEF ClientReads, ClientWrites, ClientNotices, C!ReadFrame, C!WriterWrote,
       C!Disconnect, C!callVars
  <2>4. CASE ClientReader \/ ClientWriter \/ Closing
    BY <2>4 DEF ClientReader, ClientWriter, Closing, ClientThread, C!Deliver, C!ReadLoopEnds,
       C!WriterTake, C!WriteLoopEnds, C!Closer, C!CloseSessions, C!CloseDone, C!callVars
  <2>5. CASE Faults
    BY <2>5 DEF Faults, ClientThread, ServerThread, C!Environment, C!Disconnect, C!BaseCancel,
       C!CallerCancel, C!callVars
  <2> QED
    BY <2>1, <2>2, <2>3, <2>4, <2>5 DEF Next
<1> QED
  BY <1>9, <1>10, <1>11, <1>12

LEMMA InitRemote == Init => Remote!Init
<1> SUFFICES ASSUME Init PROVE Remote!Init
  OBVIOUS
<1>1. \A c \in Calls : Status(c) = "idle"
  BY DEF Init, C!Init, Status
<1>2. \A c \in Calls : Work(c) = [a \in {} |-> "begun"]
  <2>1. \A c \in Calls : SessionsOf(c) = {}
    BY DEF Init, S!Init, SessionsOf
  <2> QED
    BY <2>1 DEF Work
<1> QED
  BY <1>1, <1>2 DEF Remote!Init

LEMMA EndsHold == Spec => []Ends
<1>1. Init => Ends
  BY EndsInit
<1>2. Ends /\ [Next]_vars => Ends'
  BY EndsStep
<1> QED
  BY <1>1, <1>2, PTL DEF Spec

(* The server of the connection behaves as one that meets any peer.        *)
LEMMA ServerIsOne == Spec => SP!Spec
<1>1. Init => SP!Init
  BY ServerInit DEF Init
<1>2. Ends /\ [Next]_vars => [SP!Next]_(SP!vars)
  BY BothStep
<1> QED
  BY <1>1, <1>2, EndsHold, PTL DEF Spec, SP!Spec

(* The invariants of the server alone, and those of the two together: a    *)
(* call has one open frame and so one session at most, wherever its frames *)
(* are, and a message on its way to a caller is one that the call's own    *)
(* handler answered, on its whole request (client.go:97, server.go:435).   *)
THEOREM ConnectionInvariant == Spec => [](ServerInv /\ ConnInv)
<1>1. SP!MessageInv => SP!RepliesWellFormed
  BY DEF SP!MessageInv
<1>2. SP!AnswerLocals /\ SP!RepliesWellFormed /\ SP!AnswersRequest => ServerInv
  BY DEF ServerInv
<1>3. Spec => []ServerInv
  BY <1>1, <1>2, ServerIsOne, ServerAnswers, ServerMessages, ServerRequests, PTL
<1>4. Init => ConnInv
  BY InitConnInv
<1>5. ConnInv /\ ServerInv /\ ServerInv' /\ [Next]_vars => ConnInv'
  BY StepConnInv
<1> QED
  BY <1>3, <1>4, <1>5, PTL DEF Spec

(* Client and server together carry out every call at most once: no second *)
(* session is ever opened for it; and its caller has a result only if the  *)
(* handler of that session answered, on the whole request where the call   *)
(* has a single one, whatever is lost, cancelled or refused                *)
(* (call.go:10-101, server.go:56-255).                                     *)
THEOREM CallsImplemented == Spec => ImplementsCalls
<1>1. Init => Remote!Init
  BY InitRemote
<1>2. ServerInv /\ ConnInv /\ ServerInv' /\ [Next]_vars => [Remote!Next]_(Remote!vars)
  BY StepRemote
<1> QED
  BY <1>1, <1>2, ConnectionInvariant, PTL DEF Spec, ImplementsCalls, Remote!Spec
=============================================================================
