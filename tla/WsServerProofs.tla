--------------------------- MODULE WsServerProofs ---------------------------
(* Theorems about WsServer, for every value of its constants.              *)
EXTENDS WsServerProperties, FiniteSetTheorems, SequenceLemmas

USE ConstantsAssumption

(* The initial state of a connection satisfies the inductive invariant.    *)
LEMMA InitIInv == Init => IInv
<1> SUFFICES ASSUME Init PROVE IInv
  OBVIOUS
<1>1. TypeOK
  BY DEF Init, TypeOK, EnvOK, ReaderOK, TableOK, SessOK, ChanOK, OutOK, Idle, ReaderAt,
         SessionAt
<1>2. Live = {}
  BY DEF Init, Live, HoldsSlot
<1>3. IsFiniteSet(Live) /\ SlotAccounting
  BY <1>1, <1>2, FS_EmptySet DEF Init, SlotAccounting, Idle
<1>4. ReaderLocals /\ SessionLocals /\ TableExact /\ ClosedChannels /\ UnblockedAtShutdown
  BY DEF Init, Idle, ReaderLocals, SessionLocals, TableExact, ClosedChannels,
         UnblockedAtShutdown, Registered, HoldsSlot
<1> QED
  BY <1>1, <1>3, <1>4 DEF IInv

-----------------------------------------------------------------------------
(* A group of variables that a step leaves alone keeps its type.           *)
LEMMA Unchanged ==
  ASSUME TypeOK
  PROVE  /\ UNCHANGED envVars => EnvOK'
         /\ UNCHANGED reader => ReaderOK'
         /\ UNCHANGED tableVars => TableOK'
         /\ UNCHANGED sessVars => SessOK'
         /\ UNCHANGED chanVars => ChanOK'
         /\ UNCHANGED outVars => OutOK'
BY DEF TypeOK, EnvOK, ReaderOK, TableOK, SessOK, ChanOK, OutOK,
       envVars, tableVars, sessVars, chanVars, outVars

(* The frames the peer sends: NextFrame and the read half of the handlers  *)
(* keep the types.                                                         *)
LEMMA TypePeerFrame ==
  ASSUME TypeOK, PeerFrame
  PROVE  TypeOK'
<1> USE Unchanged DEF TypeOK
<1>1. NextFrame => EnvOK'
  BY DEF NextFrame, EnvOK
<1>2. ASSUME NEW i \in Ids, NEW c \in Codes, Reject(i, c) PROVE ReaderOK'
  BY <1>2 DEF Reject, ReaderOK, ReaderAt
<1>3. CASE ReadIgnored
  BY <1>1, <1>3 DEF ReadIgnored
<1>4. ASSUME NEW i \in Ids, NEW p \in Procs \union {None}, NEW sh \in Shapes,
             ReadOpen(i, p, sh)
      PROVE  TypeOK'
  <2>1. TableOK'
    BY <1>4 DEF ReadOpen, TableOK, SlotFree
  <2>2. ReaderOK'
    BY <1>2, <1>4 DEF ReadOpen, ReaderOK, ReaderAt, Codes
  <2> QED
    BY <1>1, <1>4, <2>1, <2>2 DEF ReadOpen
<1>5. ASSUME NEW i \in Ids, ReadMessage(i) PROVE TypeOK'
  <2>1. sessions[i] \in Sess \union {None}
    BY DEF TableOK
  <2>2. \/ Reject(i, "session_not_found") \/ reader' = reader
        \/ reader' = [Idle EXCEPT !.at = "route", !.s = sessions[i]]
    BY <1>5 DEF ReadMessage
  <2>3. ReaderOK'
    BY <1>2, <2>1, <2>2 DEF ReaderOK, ReaderAt, Codes, Idle
  <2>4. routed' \in [Sess -> Nat]
    BY <1>5, <2>1 DEF ReadMessage, Late, ChanOK
  <2>5. ChanOK'
    BY <1>5, <2>4 DEF ReadMessage, ChanOK
  <2> QED
    BY <1>1, <1>5, <2>3, <2>5 DEF ReadMessage
<1>6. ASSUME NEW i \in Ids, ReadClose(i) PROVE TypeOK'
  <2>1. ReaderOK'
    BY <1>6 DEF ReadClose, ReaderOK, TableOK, ReaderAt, Idle
  <2>2. ChanOK'
    BY <1>6 DEF ReadClose, ChanOK, TableOK
  <2> QED
    BY <1>1, <1>6, <2>1, <2>2 DEF ReadClose
<1>7. ASSUME NEW i \in Ids, ReadCancel(i) PROVE TypeOK'
  <2>1. ChanOK'
    BY <1>7 DEF ReadCancel, ChanOK, TableOK
  <2> QED
    BY <1>1, <1>7, <2>1 DEF ReadCancel
<1> QED
  BY <1>3, <1>4, <1>5, <1>6, <1>7 DEF PeerFrame

(* The other steps of the read loop keep the types.                        *)
LEMMA TypeReader ==
  ASSUME TypeOK, ReaderLocals, Reader
  PROVE  TypeOK'
<1> USE Unchanged DEF TypeOK
<1>1. reader' = Idle => ReaderOK'
  BY DEF ReaderOK, ReaderAt, Idle
<1>2. CASE StartSession
  <2>1. ReaderOK'
    BY <1>1, <1>2 DEF StartSession, RejectDuplicate, ReaderLocals, Reject, ReaderOK, ReaderAt, Codes
  <2>2. TableOK'
    BY <1>2 DEF StartSession, RejectDuplicate, ReaderLocals, TableOK
  <2>3. SessOK'
    BY <1>2 DEF StartSession, ReaderLocals, SessOK, FirstStep, SessionAt
  <2> QED
    BY <1>2, <2>1, <2>2, <2>3 DEF StartSession
<1>3. CASE RouteMessage
  <2>1. ChanOK'
    BY <1>3 DEF RouteMessage, ReaderLocals, ChanOK
  <2> QED
    BY <1>1, <1>3, <2>1 DEF RouteMessage
<1>4. CASE CloseRecvCh
  <2>1. ChanOK'
    BY <1>4 DEF CloseRecvCh, ReaderLocals, ChanOK
  <2> QED
    BY <1>1, <1>4, <2>1 DEF CloseRecvCh
<1>5. CASE ReaderWrite
  <2>1. [id |-> reader.id, kind |-> "error"] \in Frame
    BY <1>5 DEF ReaderWrite, ReaderLocals, Frame, Kinds
  <2>2. writeCh' \in Seq(Frame)
    BY <1>5, <2>1 DEF ReaderWrite, OutOK
  <2>3. OutOK'
    BY <1>5, <2>2 DEF ReaderWrite, OutOK
  <2> QED
    BY <1>1, <1>5, <2>3 DEF ReaderWrite
<1> QED
  BY <1>2, <1>3, <1>4, <1>5 DEF Reader

(* The shutdown sequence, the writer and the environment keep the types.   *)
LEMMA TypeShutdown ==
  ASSUME TypeOK, Shutdown \/ Writer \/ Environment
  PROVE  TypeOK'
<1> USE Unchanged DEF TypeOK
<1>1. ASSUME NEW at \in ReaderAt, reader' = [reader EXCEPT !.at = at] PROVE ReaderOK'
  BY <1>1 DEF ReaderOK
<1>2. CASE ReadFail
  BY <1>1, <1>2 DEF ReadFail, ReaderAt
<1>3. CASE CancelContext
  <2>1. EnvOK'
    BY <1>3 DEF CancelContext, EnvOK
  <2> QED
    BY <1>1, <1>3, <2>1 DEF CancelContext, ReaderAt
<1>4. CASE CloseAllSessions
  <2>1. ChanOK'
    BY <1>4 DEF CloseAllSessions, ChanOK, TableOK
  <2> QED
    BY <1>1, <1>4, <2>1 DEF CloseAllSessions, ReaderAt
<1>5. CASE CloseWriteCh
  <2>1. OutOK'
    BY <1>5 DEF CloseWriteCh, OutOK
  <2> QED
    BY <1>1, <1>5, <2>1 DEF CloseWriteCh, ReaderAt
<1>6. CASE Return
  <2>1. EnvOK'
    BY <1>6 DEF Return, EnvOK
  <2> QED
    BY <1>1, <1>6, <2>1 DEF Return, ReaderAt
<1>7. CASE Writer
  <2>1. OutOK'
    BY <1>7 DEF Writer, WriterTake, WriterWrote, WriterFailed, WriterDrain, WriterEnd, OutOK
  <2> QED
    BY <1>7, <2>1 DEF Writer, WriterTake, WriterWrote, WriterFailed, WriterDrain, WriterEnd
<1>8. CASE Environment
  <2>1. EnvOK'
    BY <1>8 DEF Environment, Disconnect, BaseCancel, EnvOK
  <2> QED
    BY <1>8, <2>1 DEF Environment, Disconnect, BaseCancel
<1> QED
  BY <1>2, <1>3, <1>4, <1>5, <1>6, <1>7, <1>8 DEF Shutdown

(* The handler goroutines keep the types.                                  *)
LEMMA TypeSession ==
  ASSUME TypeOK, SessionLocals, NEW s \in Sess, Transport(s) \/ Handler(s)
  PROVE  TypeOK'
<1> USE Unchanged DEF TypeOK
<1> DEFINE Received == (TakeMessage(s) \/ TakeEof(s))
                       /\ UNCHANGED <<chClosed, closed, cancelled, routed>>
<1>1. ASSUME Received
      PROVE  got' \in [Sess -> Seq(Nat)] /\ ChanOK'
  <2>1. recvCh \in [Sess -> Seq(Nat)] /\ got \in [Sess -> Seq(Nat)]
    BY DEF SessOK, ChanOK
  <2>2. ASSUME recvCh[s] # <<>>
        PROVE  Head(recvCh[s]) \in Nat /\ Tail(recvCh[s]) \in Seq(Nat)
    BY <2>1, <2>2
  <2>3. got' \in [Sess -> Seq(Nat)] /\ recvCh' \in [Sess -> Seq(Nat)]
    <3>1. CASE TakeMessage(s)
      BY <2>1, <2>2, <3>1 DEF TakeMessage
    <3>2. CASE TakeEof(s)
      BY <2>1, <3>2 DEF TakeEof
    <3> QED
      BY <1>1, <3>1, <3>2
  <2> QED
    BY <1>1, <2>3 DEF ChanOK
<1>2. ASSUME NEW at \in SessionAt, Goto(s, at) PROVE pc' \in [Sess -> SessionAt]
  BY <1>2 DEF Goto, SessOK
<1>3. ASSUME NEW reply \in Seq(Kinds), pend' = [pend EXCEPT ![s] = reply]
      PROVE  pend' \in [Sess -> Seq(Kinds)]
  BY <1>3 DEF SessOK
<1>4. \A k \in Kinds : <<k>> \in Seq(Kinds)
  OBVIOUS
<1>5. ASSUME NEW reply \in Seq(Kinds), Finish(s, reply)
      PROVE  pc' \in [Sess -> SessionAt] /\ pend' \in [Sess -> Seq(Kinds)]
  BY <1>2, <1>3, <1>5 DEF Finish, SessionAt
<1>6. <<"error">> \in Seq(Kinds)
  BY <1>4 DEF Kinds
<1>7. CASE RecvExactlyOne(s) \/ VerifyEmpty(s) \/ DrainRest(s) \/ ReceiveRequest(s)
  <2>1. Received /\ UNCHANGED <<envVars, reader, tableVars, outVars, idOf, shape, replied>>
    BY <1>7 DEF RecvExactlyOne, VerifyEmpty, DrainRest, ReceiveRequest
  <2>2. \/ UNCHANGED pend /\ \E at \in SessionAt : Goto(s, at)
        \/ UNCHANGED <<pc, pend>>
        \/ Finish(s, <<"error">>)
    BY <1>7 DEF RecvExactlyOne, VerifyEmpty, DrainRest, ReceiveRequest, SessionAt
  <2>3. pc' \in [Sess -> SessionAt] /\ pend' \in [Sess -> Seq(Kinds)]
    BY <1>2, <1>5, <1>6, <2>2 DEF SessOK
  <2> QED
    BY <1>1, <2>1, <2>3 DEF SessOK
<1>8. CASE WriteFrame(s) \/ SkipFrame(s)
  <2>1. /\ Head(pend[s]) \in Kinds /\ Tail(pend[s]) \in Seq(Kinds)
        /\ idOf[s] \in Ids
    BY <1>8 DEF WriteFrame, SkipFrame, SessionLocals, SessOK
  <2>2. AfterWrite(s)
    BY <1>8 DEF WriteFrame, SkipFrame
  <2>3. pend' \in [Sess -> Seq(Kinds)]
    BY <1>3, <2>1, <2>2 DEF AfterWrite
  <2>4. pc' \in [Sess -> SessionAt]
    BY <1>2, <2>2 DEF AfterWrite, SessionAt
  <2>5. CASE SkipFrame(s)
    BY <2>3, <2>4, <2>5 DEF SkipFrame, SessOK
  <2>6. CASE WriteFrame(s)
    <3>1. [id |-> idOf[s], kind |-> Head(pend[s])] \in Frame
      BY <2>1 DEF Frame
    <3>2. writeCh' \in Seq(Frame)
      BY <2>6, <3>1 DEF WriteFrame, OutOK
    <3>3. replied' \in [Sess -> Seq(Kinds)]
      BY <2>1, <2>6 DEF WriteFrame, SessOK
    <3>4. OutOK'
      BY <2>6, <3>2 DEF WriteFrame, OutOK
    <3>5. SessOK'
      BY <2>3, <2>4, <2>6, <3>3 DEF WriteFrame, SessOK
    <3> QED
      BY <2>6, <3>4, <3>5 DEF WriteFrame
  <2> QED
    BY <1>8, <2>5, <2>6
<1>9. CASE DeleteSession(s)
  <2>1. pc' \in [Sess -> SessionAt]
    BY <1>2, <1>9 DEF DeleteSession, SessionAt
  <2>2. SessOK'
    BY <1>9, <2>1 DEF DeleteSession, SessOK
  <2>3. TableOK'
    BY <1>9 DEF DeleteSession, TableOK
  <2> QED
    BY <1>9, <2>2, <2>3 DEF DeleteSession
<1>10. CASE ReleaseSlot(s)
  <2>1. pc' \in [Sess -> SessionAt]
    BY <1>2, <1>10 DEF ReleaseSlot, SessionAt
  <2>2. SessOK'
    BY <1>10, <2>1 DEF ReleaseSlot, SessOK
  <2>3. TableOK'
    BY <1>10 DEF ReleaseSlot, TableOK
  <2>4. ChanOK'
    BY <1>10 DEF ReleaseSlot, ChanOK
  <2> QED
    BY <1>10, <2>2, <2>3, <2>4 DEF ReleaseSlot
<1>11. CASE Handler(s)
  <2>1. <<"message">> \in Seq(Kinds) /\ <<"close">> \in Seq(Kinds)
    BY <1>4 DEF Kinds
  <2>2. <<"message", "close">> \in Seq(Kinds)
    BY DEF Kinds
  <2>3. \A reply \in Replies(shape[s]) : reply \in Seq(Kinds)
    BY <1>6, <2>1, <2>2 DEF Replies
  <2>4. \/ UNCHANGED pend /\ Goto(s, "recv")
        \/ pend' = [pend EXCEPT ![s] = <<"message">>] /\ Goto(s, "send")
        \/ \E reply \in Replies(shape[s]) : Finish(s, reply)
    BY <1>11 DEF Handler, CallReceive, CallSend, HandlerReturn
  <2>5. "recv" \in SessionAt /\ "send" \in SessionAt
    BY DEF SessionAt
  <2>6. pc' \in [Sess -> SessionAt] /\ pend' \in [Sess -> Seq(Kinds)]
    BY <1>2, <1>3, <1>5, <2>1, <2>3, <2>4, <2>5 DEF SessOK
  <2> QED
    BY <1>11, <2>6 DEF Handler, CallReceive, CallSend, HandlerReturn, SessOK
<1> QED
  BY <1>7, <1>8, <1>9, <1>10, <1>11 DEF Transport

(* Every step of the connection keeps the variables in their types.        *)
LEMMA TypeStep ==
  ASSUME TypeOK, ReaderLocals, SessionLocals, [Next]_vars
  PROVE  TypeOK'
<1>1. CASE UNCHANGED vars
  BY <1>1, Unchanged DEF TypeOK, vars
<1> QED
  BY <1>1, TypePeerFrame, TypeReader, TypeShutdown, TypeSession DEF Next, Returned
-----------------------------------------------------------------------------
(* What a step of the user's handler, or of entry.run around it, may       *)
(* change: not the table, the semaphore or a channel's end, and the        *)
(* goroutine stays registered.                                             *)
Active == SessionAt \ {"new", "delete", "release", "done"}

LEMMA ActiveStep ==
  ASSUME TypeOK, SessionLocals, NEW s \in Sess, Transport(s) \/ Handler(s),
         ~DeleteSession(s), ~ReleaseSlot(s)
  PROVE  /\ pc[s] \in Active
         /\ \E at \in Active \union {"delete"} :
              /\ pc' = [pc EXCEPT ![s] = at]
              /\ at \in {"send", "finish"} => pend'[s] # <<>>
         /\ \A t \in Sess : t # s => pend'[t] = pend[t]
         /\ UNCHANGED <<envVars, reader, tableVars, idOf, shape, chClosed, closed,
                        cancelled, writeEnd>>
<1> USE DEF Active, SessionAt, Goto
<1>1. pc \in [Sess -> SessionAt] /\ pend \in [Sess -> Seq(Kinds)]
  BY DEF TypeOK, SessOK
<1>2. ASSUME NEW reply, reply # <<>>, Finish(s, reply)
      PROVE  /\ pc' = [pc EXCEPT ![s] = "finish"] /\ pend'[s] # <<>>
             /\ \A t \in Sess : t # s => pend'[t] = pend[t]
  BY <1>1, <1>2 DEF Finish
<1>3. <<"error">> # <<>> /\ <<"close">> # <<>> /\ <<"message", "close">> # <<>>
  OBVIOUS
<1>4. \A at : at \in {"run", "recv", "delete", "finish"} => at \in Active \union {"delete"}
  OBVIOUS
<1>5. CASE RecvExactlyOne(s)
  BY <1>1, <1>2, <1>3, <1>5 DEF RecvExactlyOne, outVars
<1>6. CASE VerifyEmpty(s)
  BY <1>1, <1>2, <1>3, <1>6 DEF VerifyEmpty, outVars
<1>7. CASE DrainRest(s)
  <2>1. pc = [pc EXCEPT ![s] = "drain"]
    BY <1>1, <1>7 DEF DrainRest
  <2> QED
    BY <1>1, <1>2, <1>3, <1>7, <2>1 DEF DrainRest, outVars
<1>8. CASE ReceiveRequest(s)
  <2>1. pc[s] = "recv" /\ pc' = [pc EXCEPT ![s] = "run"] /\ pend' = pend
    BY <1>8 DEF ReceiveRequest
  <2>2. UNCHANGED <<envVars, reader, tableVars, idOf, shape, chClosed, closed, cancelled,
                    writeEnd>>
    BY <1>8 DEF ReceiveRequest, outVars
  <2> QED
    BY <2>1, <2>2, <1>4
<1>9. CASE WriteFrame(s) \/ SkipFrame(s)
  <2>1. AfterWrite(s) /\ pc[s] \in {"send", "finish"}
    BY <1>9 DEF WriteFrame, SkipFrame
  <2>2. UNCHANGED <<envVars, reader, tableVars, idOf, shape, chClosed, closed, cancelled,
                    writeEnd>>
    BY <1>9 DEF WriteFrame, SkipFrame, chanVars, outVars
  <2>3. pend' = [pend EXCEPT ![s] = Tail(pend[s])]
    BY <2>1 DEF AfterWrite
  <2>4. pend'[s] = Tail(pend[s]) /\ \A t \in Sess : t # s => pend'[t] = pend[t]
    BY <1>1, <2>3
  <2>5. \/ pc' = [pc EXCEPT ![s] = "run"]
        \/ pc' = [pc EXCEPT ![s] = "delete"]
        \/ pc' = [pc EXCEPT ![s] = "finish"] /\ pend'[s] # <<>>
    BY <2>1, <2>4 DEF AfterWrite
  <2> QED
    <3>1. pc[s] \in Active
      BY <2>1
    <3>2. \E at \in {"run", "delete", "finish"} :
            /\ pc' = [pc EXCEPT ![s] = at]
            /\ at \in {"send", "finish"} => pend'[s] # <<>>
      BY <2>5
    <3> QED
      BY <1>4, <2>2, <2>4, <3>1, <3>2
<1>10. CASE CallReceive(s)
  <2>1. pc[s] = "run" /\ pc' = [pc EXCEPT ![s] = "recv"] /\ pend' = pend
    BY <1>10 DEF CallReceive
  <2>2. UNCHANGED <<envVars, reader, tableVars, idOf, shape, chClosed, closed, cancelled,
                    writeEnd>>
    BY <1>10 DEF CallReceive, chanVars, outVars
  <2> QED
    BY <2>1, <2>2, <1>4
<1>11. CASE CallSend(s)
  <2>1. pend'[s] = <<"message">> /\ \A t \in Sess : t # s => pend'[t] = pend[t]
    BY <1>1, <1>11 DEF CallSend
  <2> QED
    BY <1>1, <1>11, <2>1 DEF CallSend, chanVars, outVars
<1>12. CASE HandlerReturn(s)
  BY <1>1, <1>2, <1>3, <1>12 DEF HandlerReturn, Replies, chanVars, outVars
<1> QED
  BY <1>5, <1>6, <1>7, <1>8, <1>9, <1>10, <1>11, <1>12 DEF Transport, Handler

(* A step of a goroutine before its deferred function keeps the rest of    *)
(* the invariant: it is registered and holds its slot before and after.    *)
LEMMA ActiveIInv ==
  ASSUME IInv, TypeOK', NEW s \in Sess, Transport(s) \/ Handler(s),
         ~DeleteSession(s), ~ReleaseSlot(s)
  PROVE  IInv'
<1> USE DEF IInv
<1>1. PICK at \in Active \union {"delete"} :
        /\ pc' = [pc EXCEPT ![s] = at]
        /\ at \in {"send", "finish"} => pend'[s] # <<>>
  BY ActiveStep
<1>2. /\ pc[s] \in Active
      /\ \A t \in Sess : t # s => pend'[t] = pend[t]
      /\ UNCHANGED <<envVars, reader, tableVars, idOf, shape, chClosed, closed, cancelled,
                     writeEnd>>
  BY ActiveStep
<1>3. pc \in [Sess -> SessionAt]
  BY DEF TypeOK, SessOK
<1>4. \A t \in Sess : pc'[t] = IF t = s THEN at ELSE pc[t]
  BY <1>1, <1>3
<1>5. \A t \in Sess : /\ pc'[t] = "new" <=> pc[t] = "new"
                      /\ Registered(t)' <=> Registered(t)
                      /\ HoldsSlot(t)' <=> HoldsSlot(t)
  BY <1>2, <1>4 DEF Registered, HoldsSlot, Active, SessionAt
<1>6. Live' = Live
  BY <1>5 DEF Live
<1>7. ReaderLocals'
  BY <1>2, <1>5 DEF ReaderLocals, Idle
<1>8. SessionLocals'
  BY <1>1, <1>2, <1>4, <1>5 DEF SessionLocals
<1>9. TableExact'
  BY <1>2, <1>5 DEF TableExact, TypeOK, TableOK, tableVars
<1>10. ClosedChannels' /\ UnblockedAtShutdown'
  BY <1>2, <1>5 DEF ClosedChannels, UnblockedAtShutdown
<1>11. IsFiniteSet(Live)' /\ SlotAccounting'
  BY <1>2, <1>6 DEF SlotAccounting, tableVars
<1> QED
  BY <1>7, <1>8, <1>9, <1>10, <1>11
(* The deferred delete: TableExact says that the entry under the           *)
(* goroutine's id is its own, so no other session is touched.              *)
LEMMA DeleteIInv ==
  ASSUME IInv, TypeOK', NEW s \in Sess, DeleteSession(s)
  PROVE  IInv'
<1> USE DEF IInv
<1>1. /\ pc \in [Sess -> SessionAt] /\ sessions \in [Ids -> Sess \union {None}]
  BY DEF TypeOK, SessOK, TableOK
<1>2. /\ pc[s] = "delete"
      /\ \A t \in Sess : pc'[t] = IF t = s THEN "release" ELSE pc[t]
      /\ UNCHANGED <<envVars, reader, sem, idOf, shape, pend, chanVars, outVars>>
  BY <1>1 DEF DeleteSession, Goto
<1>3. \A i \in Ids : sessions'[i] = IF i = idOf[s] THEN None ELSE sessions[i]
  BY <1>1 DEF DeleteSession
<1>4. \A t \in Sess : /\ pc'[t] = "new" <=> pc[t] = "new"
                      /\ Registered(t)' <=> Registered(t) /\ t # s
                      /\ HoldsSlot(t)' <=> HoldsSlot(t)
  BY <1>2 DEF Registered, HoldsSlot
<1>5. idOf[s] \in Ids /\ sessions[idOf[s]] = s
  BY <1>2 DEF SessionLocals, TableExact, Registered
<1>6. TableExact'
  <2>1. ASSUME NEW i \in Ids, NEW t, t = sessions'[i], t # None
        PROVE  idOf'[t] = i /\ Registered(t)'
    <3>1. i # idOf[s] /\ t = sessions[i]
      BY <1>3, <2>1
    <3>2. t \in Sess /\ idOf[t] = i /\ Registered(t)
      BY <1>1, <2>1, <3>1 DEF TableExact
    <3>3. t # s
      BY <3>1, <3>2
    <3> QED
      BY <1>2, <1>4, <3>2, <3>3
  <2>2. ASSUME NEW t \in Sess, Registered(t)' PROVE sessions'[idOf'[t]] = t
    <3>1. Registered(t) /\ t # s /\ idOf[t] \in Ids
      BY <1>4, <2>2 DEF SessionLocals, Registered
    <3>2. sessions[idOf[t]] = t
      BY <3>1 DEF TableExact
    <3> QED
      BY <1>2, <1>3, <1>5, <3>1, <3>2
  <2> QED
    BY <2>1, <2>2 DEF TableExact, Registered
<1>7. ReaderLocals' /\ SessionLocals'
  BY <1>2, <1>4 DEF ReaderLocals, SessionLocals, Idle, chanVars
<1>8. ClosedChannels' /\ UnblockedAtShutdown'
  BY <1>2, <1>4 DEF ClosedChannels, UnblockedAtShutdown, chanVars, outVars
<1>9. Live' = Live
  BY <1>4 DEF Live
<1>10. IsFiniteSet(Live)' /\ SlotAccounting'
  BY <1>2, <1>9 DEF SlotAccounting
<1> QED
  BY <1>6, <1>7, <1>8, <1>10

(* <-sem: one token and one slot holder less.                              *)
LEMMA ReleaseIInv ==
  ASSUME IInv, TypeOK', NEW s \in Sess, ReleaseSlot(s)
  PROVE  IInv'
<1> USE DEF IInv
<1>1. pc \in [Sess -> SessionAt] /\ sem \in Nat /\ sem' \in 0..MaxInflight
  BY DEF TypeOK, SessOK, TableOK
<1>2. /\ pc[s] = "release" /\ sem > 0 /\ sem' = sem - 1
      /\ \A t \in Sess : pc'[t] = IF t = s THEN "done" ELSE pc[t]
      /\ cancelled' = cancelled \union {s}
      /\ UNCHANGED <<envVars, reader, sessions, idOf, shape, pend, recvCh, chClosed, closed,
                     outVars>>
  BY <1>1 DEF ReleaseSlot, Goto
<1>3. \A t \in Sess : /\ pc'[t] = "new" <=> pc[t] = "new"
                      /\ Registered(t)' <=> Registered(t)
                      /\ HoldsSlot(t)' <=> HoldsSlot(t) /\ t # s
  BY <1>2 DEF Registered, HoldsSlot
<1>4. ReaderLocals' /\ SessionLocals'
  BY <1>2, <1>3 DEF ReaderLocals, SessionLocals, Idle
<1>5. TableExact'
  BY <1>2, <1>3 DEF TableExact, TypeOK, TableOK
<1>6. ClosedChannels' /\ UnblockedAtShutdown'
  BY <1>2, <1>3 DEF ClosedChannels, UnblockedAtShutdown, outVars
<1>7. Live' = Live \ {s} /\ s \in Live
  BY <1>2, <1>3 DEF Live, HoldsSlot
<1>8. IsFiniteSet(Live') /\ Cardinality(Live') = Cardinality(Live) - 1
  BY <1>7, FS_RemoveElement
<1>9. Cardinality(Live) \in Nat
  BY FS_CardinalityType
<1>10. SlotAccounting'
  BY <1>1, <1>2, <1>8, <1>9 DEF SlotAccounting
<1> QED
  BY <1>4, <1>5, <1>6, <1>8, <1>10
-----------------------------------------------------------------------------
(* Steps that leave the goroutines, the table and the ends of the channels *)
(* alone keep the invariant if they keep the reader's locals and pay for   *)
(* the token of an open frame.                                             *)
LEMMA QuietIInv ==
  ASSUME IInv, TypeOK', ReaderLocals',
         UNCHANGED <<sessVars, sessions, writeEnd>>,
         \A s \in Sess : s \in chClosed' /\ s \notin chClosed => s \in closed',
         closed \subseteq closed', cancelled \subseteq cancelled', chClosed \subseteq chClosed',
         reader.at \notin {"wait", "flush", "returned"},
         reader'.at \notin {"wait", "flush", "returned"},
         \/ sem' = sem /\ reader.at # "start" /\ reader'.at # "start"
         \/ sem' = sem + 1 /\ reader.at # "start" /\ reader'.at = "start"
         \/ sem' = sem - 1 /\ reader.at = "start" /\ reader'.at # "start"
  PROVE  IInv'
<1> USE DEF IInv
<1>1. UNCHANGED <<pc, idOf, shape, pend, sessions, writeEnd>>
  BY DEF sessVars
<1>2. \A s \in Sess : /\ Registered(s)' <=> Registered(s)
                      /\ HoldsSlot(s)' <=> HoldsSlot(s)
  BY <1>1 DEF Registered, HoldsSlot
<1>3. Live' = Live
  BY <1>2 DEF Live
<1>4. SessionLocals'
  BY <1>1 DEF SessionLocals
<1>5. TableExact'
  BY <1>1 DEF TableExact, Registered
<1>6. UnblockedAtShutdown'
  BY DEF UnblockedAtShutdown
<1>7. ClosedChannels'
  BY <1>1 DEF ClosedChannels
<1>8. SlotAccounting'
  <2>1. sem \in Nat /\ sem' \in 0..MaxInflight /\ Cardinality(Live) \in Nat
    BY FS_CardinalityType DEF TypeOK, TableOK
  <2> QED
    BY <1>3, <2>1 DEF SlotAccounting
<1> QED
  BY <1>3, <1>4, <1>5, <1>6, <1>7, <1>8

(* Every frame the peer may send keeps the invariant.                      *)
LEMMA PeerFrameIInv ==
  ASSUME IInv, TypeOK', PeerFrame
  PROVE  IInv'
<1> USE DEF IInv
<1>1. /\ reader.at = "read" /\ reader = Idle
      /\ sem \in Nat /\ sem' \in Nat
      /\ sessions \in [Ids -> Sess \union {None}]
  <2>1. NextFrame
    BY DEF PeerFrame, ReadIgnored, ReadOpen, ReadMessage, ReadClose, ReadCancel
  <2>2. sem \in Nat /\ sem' \in Nat
    BY DEF TypeOK, TableOK
  <2> QED
    BY <2>1, <2>2 DEF NextFrame, ReaderLocals, TypeOK, TableOK
<1>2. CASE ReadIgnored
  <2>1. UNCHANGED <<reader, sem, sessions, sessVars, chClosed, closed, cancelled, writeEnd>>
    BY <1>2 DEF ReadIgnored, tableVars, chanVars, outVars
  <2>2. ReaderLocals'
    BY <2>1 DEF ReaderLocals, Idle, sessVars
  <2> QED
    BY <1>1, <2>1, <2>2, QuietIInv
<1>3. ASSUME NEW i \in Ids, NEW p \in Procs \union {None}, NEW sh \in Shapes,
             ReadOpen(i, p, sh)
      PROVE  IInv'
  <2>1. UNCHANGED <<sessions, sessVars, chClosed, closed, cancelled, writeEnd>>
    BY <1>3 DEF ReadOpen, chanVars, outVars
  <2>2. \/ /\ \E c \in Codes : Reject(i, c)
           /\ sem' = sem
        \/ /\ sem' = sem + 1
           /\ \E s \in Sess :
                /\ pc[s] = "new"
                /\ reader' = [at |-> "start", id |-> i, s |-> s, code |-> sh]
    BY <1>3 DEF ReadOpen, Codes
  <2>3. ReaderLocals'
    BY <2>1, <2>2 DEF ReaderLocals, Reject, sessVars
  <2>4. \/ sem' = sem /\ reader'.at = "write"
        \/ sem' = sem + 1 /\ reader'.at = "start"
    BY <2>2 DEF Reject
  <2>5. reader'.at \notin {"wait", "flush", "returned"}
    BY <2>4
  <2> QED
    BY <1>1, <2>1, <2>3, <2>4, <2>5, QuietIInv
<1>4. ASSUME NEW i \in Ids, ReadMessage(i) PROVE IInv'
  <2>1. UNCHANGED <<sem, sessions, sessVars, chClosed, closed, cancelled, writeEnd>>
    BY <1>4 DEF ReadMessage, tableVars, outVars
  <2>2. \/ reader' = [at |-> "write", id |-> i, s |-> None, code |-> "session_not_found"]
        \/ reader' = reader
        \/ \E s \in Sess : s \notin closed /\ reader' = [Idle EXCEPT !.at = "route", !.s = s]
    BY <1>1, <1>4 DEF ReadMessage, Late, Reject
  <2>3. ReaderLocals' /\ reader'.at \in {"read", "write", "route"}
    <3>1. CASE reader' = [at |-> "write", id |-> i, s |-> None, code |-> "session_not_found"]
      BY <3>1 DEF ReaderLocals
    <3>2. CASE reader' = reader
      BY <1>1, <3>2 DEF ReaderLocals, Idle
    <3>3. ASSUME NEW s \in Sess, s \notin closed,
                 reader' = [Idle EXCEPT !.at = "route", !.s = s]
          PROVE  ReaderLocals' /\ reader'.at \in {"read", "write", "route"}
      BY <2>1, <3>3 DEF ReaderLocals, Idle
    <3> QED
      BY <2>2, <3>1, <3>2, <3>3
  <2> QED
    BY <1>1, <2>1, <2>3, QuietIInv
<1>5. ASSUME NEW i \in Ids, ReadClose(i) PROVE IInv'
  <2>1. /\ UNCHANGED <<sem, sessions, sessVars, chClosed, cancelled, writeEnd>>
        /\ closed \subseteq closed'
    BY <1>5 DEF ReadClose, tableVars, outVars
  <2>2. \/ reader' = reader
        \/ \E s \in Sess : s \in closed' /\ reader' = [Idle EXCEPT !.at = "close", !.s = s]
    BY <1>1, <1>5 DEF ReadClose
  <2>3. ReaderLocals' /\ reader'.at \in {"read", "close"}
    BY <1>1, <2>2 DEF ReaderLocals, Idle
  <2> QED
    BY <1>1, <2>1, <2>3, QuietIInv
<1>6. ASSUME NEW i \in Ids, ReadCancel(i) PROVE IInv'
  <2>1. /\ UNCHANGED <<reader, sem, sessions, sessVars, chClosed, closed, writeEnd>>
        /\ cancelled \subseteq cancelled'
    BY <1>6 DEF ReadCancel, tableVars, outVars
  <2>2. ReaderLocals'
    BY <2>1 DEF ReaderLocals, Idle, sessVars
  <2> QED
    BY <1>1, <2>1, <2>2, QuietIInv
<1> QED
  BY <1>2, <1>3, <1>4, <1>5, <1>6 DEF PeerFrame

(* startSession: the new goroutine takes over the token the reader held,   *)
(* or the duplicate gives it back.                                         *)
LEMMA StartIInv ==
  ASSUME IInv, TypeOK', StartSession
  PROVE  IInv'
<1> USE DEF IInv
<1> DEFINE i == reader.id
           s == reader.s
<1>1. /\ reader.at = "start" /\ i \in Ids /\ s \in Sess /\ pc[s] = "new"
      /\ reader.code \in Shapes
      /\ sem \in Nat /\ Cardinality(Live) \in Nat
      /\ sem = Cardinality(Live) + 1
      /\ sessions \in [Ids -> Sess \union {None}]
      /\ UNCHANGED <<pend, chClosed, closed, cancelled, writeEnd>>
  BY FS_CardinalityType DEF StartSession, ReaderLocals, TypeOK, TableOK, SlotAccounting,
                            chanVars, outVars
<1>2. CASE sessions[i] # None
  <2>1. /\ sem' = sem - 1 /\ Reject(i, "already_exists")
        /\ UNCHANGED <<sessions, sessVars>>
    BY <1>2 DEF StartSession, Taken, RejectDuplicate, sessVars
  <2>2. ReaderLocals' /\ reader'.at = "write"
    BY <1>1, <2>1 DEF ReaderLocals, Reject, sessVars
  <2> QED
    BY <1>1, <2>1, <2>2, QuietIInv
<1>3. CASE sessions[i] = None
  <2>1. /\ sem' = sem /\ reader' = Idle
        /\ pc' = [pc EXCEPT ![s] = FirstStep(reader.code)]
        /\ sessions' = [sessions EXCEPT ![i] = s]
        /\ idOf' = [idOf EXCEPT ![s] = i]
        /\ shape' = [shape EXCEPT ![s] = reader.code]
    BY <1>3 DEF StartSession, Taken
  <2>2. /\ pc \in [Sess -> SessionAt] /\ idOf \in [Sess -> Ids \union {None}]
        /\ shape \in [Sess -> Shapes \union {None}]
    BY DEF TypeOK, SessOK
  <2>3. /\ \A t \in Sess : t # s => pc'[t] = pc[t] /\ idOf'[t] = idOf[t] /\ shape'[t] = shape[t]
        /\ pc'[s] \in {"first", "run"} /\ idOf'[s] = i /\ shape'[s] \in Shapes
        /\ \A j \in Ids : sessions'[j] = IF j = i THEN s ELSE sessions[j]
    BY <1>1, <2>1, <2>2 DEF FirstStep
  <2>4. \A t \in Sess : /\ Registered(t)' <=> Registered(t) \/ t = s
                        /\ HoldsSlot(t)' <=> HoldsSlot(t) \/ t = s
    BY <2>3 DEF Registered, HoldsSlot
  <2>5. ~Registered(s) /\ ~HoldsSlot(s)
    BY <1>1 DEF Registered, HoldsSlot
  <2>6. ReaderLocals'
    BY <2>1 DEF ReaderLocals, Idle
  <2>7. SessionLocals'
    BY <1>1, <2>3 DEF SessionLocals
  <2>8. TableExact'
    <3>1. ASSUME NEW j \in Ids, NEW t, t = sessions'[j], t # None
          PROVE  idOf'[t] = j /\ Registered(t)'
      <4>1. CASE j = i
        BY <1>1, <2>3, <2>4, <3>1, <4>1
      <4>2. CASE j # i
        <5>1. t \in Sess /\ idOf[t] = j /\ Registered(t)
          BY <1>1, <2>3, <3>1, <4>2 DEF TableExact
        <5> QED
          BY <2>3, <2>4, <2>5, <5>1
      <4> QED
        BY <4>1, <4>2
    <3>2. ASSUME NEW t \in Sess, Registered(t)' PROVE sessions'[idOf'[t]] = t
      <4>1. CASE t = s
        BY <1>1, <2>3, <4>1
      <4>2. CASE t # s
        <5>1. sessions[idOf[t]] = t /\ idOf[t] \in Ids
          BY <2>4, <3>2, <4>2 DEF TableExact, SessionLocals, Registered
        <5>2. idOf[t] # i
          BY <1>3, <5>1
        <5> QED
          BY <2>3, <4>2, <5>1, <5>2
      <4> QED
        BY <4>1, <4>2
    <3> QED
      BY <3>1, <3>2 DEF TableExact, Registered
  <2>9. ClosedChannels' /\ UnblockedAtShutdown'
    BY <1>1, <2>1 DEF ClosedChannels, UnblockedAtShutdown, Idle
  <2>10. Live' = Live \union {s} /\ s \notin Live
    BY <1>1, <2>4, <2>5 DEF Live
  <2>11. IsFiniteSet(Live') /\ Cardinality(Live') = Cardinality(Live) + 1
    BY <2>10, FS_AddElement
  <2>12. SlotAccounting'
    BY <1>1, <2>1, <2>11 DEF SlotAccounting, Idle
  <2> QED
    BY <2>6, <2>7, <2>8, <2>9, <2>11, <2>12
<1> QED
  BY <1>2, <1>3
(* The other steps of the read loop: routing, closing, answering.          *)
LEMMA ReaderIInv ==
  ASSUME IInv, TypeOK', Reader
  PROVE  IInv'
<1> USE DEF IInv
<1>1. CASE StartSession
  BY <1>1, StartIInv
<1>2. CASE RouteMessage \/ ReaderWrite \/ CloseRecvCh
  <2>1. /\ reader.at \in {"route", "write", "close"} /\ reader' = Idle
        /\ UNCHANGED <<sem, sessions, sessVars, closed, cancelled, writeEnd>>
        /\ chClosed \subseteq chClosed'
    BY <1>2 DEF RouteMessage, ReaderWrite, CloseRecvCh, tableVars, chanVars, outVars
  <2>2. \A s \in Sess : s \in chClosed' /\ s \notin chClosed => s \in closed'
    BY <1>2, <2>1 DEF RouteMessage, ReaderWrite, CloseRecvCh, ReaderLocals, chanVars
  <2>3. ReaderLocals' /\ reader'.at = "read"
    BY <2>1 DEF ReaderLocals, Idle
  <2>4. sem \in Nat
    BY DEF TypeOK, TableOK
  <2> QED
    BY <2>1, <2>2, <2>3, <2>4, QuietIInv
<1> QED
  BY <1>1, <1>2 DEF Reader

(* The shutdown: closeAllSessions reaches every registered goroutine, and  *)
(* no step after it registers another.                                     *)
LEMMA ShutdownIInv ==
  ASSUME IInv, TypeOK', Shutdown
  PROVE  IInv'
<1> USE DEF IInv
<1>1. /\ UNCHANGED <<sem, sessions, pc, idOf, shape, pend, closed>>
      /\ reader.at \in {"read", "cancel", "closeall", "wait", "flush"}
      /\ reader'.at \in {"cancel", "closeall", "wait", "flush", "returned"}
  BY DEF Shutdown, ReadFail, CancelContext, CloseAllSessions, CloseWriteCh, Return,
         tableVars, sessVars, chanVars, TypeOK, ReaderOK
<1>2. \A s \in Sess : /\ Registered(s)' <=> Registered(s)
                      /\ HoldsSlot(s)' <=> HoldsSlot(s)
  BY <1>1 DEF Registered, HoldsSlot
<1>3. Live' = Live
  BY <1>2 DEF Live
<1>4. ReaderLocals' /\ SessionLocals'
  BY <1>1 DEF ReaderLocals, SessionLocals
<1>5. TableExact'
  BY <1>1 DEF TableExact, Registered
<1>6. SlotAccounting'
  BY <1>1, <1>3 DEF SlotAccounting
<1>7. ClosedChannels' /\ UnblockedAtShutdown'
  <2>1. CASE ReadFail \/ CancelContext
    <3>1. UNCHANGED <<chClosed, cancelled, writeEnd>> /\ reader'.at \in {"cancel", "closeall"}
      BY <2>1 DEF ReadFail, CancelContext, chanVars, outVars, TypeOK, ReaderOK
    <3>2. reader.at \in {"read", "cancel"}
      BY <2>1 DEF ReadFail, CancelContext
    <3> QED
      BY <1>1, <3>1, <3>2 DEF ClosedChannels, UnblockedAtShutdown
  <2>2. CASE CloseAllSessions
    <3>1. reader.at = "closeall" /\ reader'.at = "wait" /\ writeEnd' = writeEnd
      BY <2>2 DEF CloseAllSessions, outVars, TypeOK, ReaderOK
    <3>2. ASSUME NEW s \in Sess, Registered(s) PROVE s \in chClosed' /\ s \in cancelled'
      <4>1. s = sessions[idOf[s]] /\ idOf[s] \in Ids /\ s # None
        BY <3>2 DEF TableExact, SessionLocals, Registered
      <4> QED
        BY <2>2, <4>1 DEF CloseAllSessions
    <3>3. UnblockedAtShutdown'
      BY <1>2, <3>2 DEF UnblockedAtShutdown
    <3>4. ClosedChannels'
      BY <3>1 DEF ClosedChannels
    <3> QED
      BY <3>3, <3>4
  <2>3. CASE CloseWriteCh
    <3>1. /\ reader.at = "wait" /\ reader'.at = "flush"
          /\ UNCHANGED <<chClosed, cancelled>>
      BY <2>3 DEF CloseWriteCh, chanVars, TypeOK, ReaderOK
    <3>2. \A s \in Sess : ~HoldsSlot(s)
      BY <2>3 DEF CloseWriteCh, HandlersDone, Live
    <3> QED
      BY <1>1, <1>2, <3>1, <3>2 DEF ClosedChannels, UnblockedAtShutdown
  <2>4. CASE Return
    <3>1. /\ reader.at = "flush" /\ reader'.at = "returned"
          /\ UNCHANGED <<chClosed, cancelled, writeEnd>>
      BY <2>4 DEF Return, chanVars, outVars, TypeOK, ReaderOK
    <3> QED
      BY <1>1, <1>2, <3>1 DEF ClosedChannels, UnblockedAtShutdown
  <2> QED
    BY <2>1, <2>2, <2>3, <2>4 DEF Shutdown
<1> QED
  BY <1>3, <1>4, <1>5, <1>6, <1>7

(* The invariant says nothing about the network, the writer's hands or the *)
(* content of the write channel.                                           *)
LEMMA OtherIInv ==
  ASSUME IInv, TypeOK', Writer \/ Environment \/ UNCHANGED vars
  PROVE  IInv'
<1> USE DEF IInv
<1>1. UNCHANGED <<reader, sem, sessions, pc, idOf, shape, pend, chClosed, closed, cancelled,
                  writeEnd>>
  BY DEF Writer, WriterTake, WriterWrote, WriterFailed, WriterDrain, WriterEnd, Environment,
         Disconnect, BaseCancel, vars, tableVars, sessVars, chanVars, outVars
<1>2. Live' = Live
  BY <1>1 DEF Live, HoldsSlot
<1>3. ReaderLocals' /\ SessionLocals'
  BY <1>1 DEF ReaderLocals, SessionLocals, Idle
<1>4. TableExact'
  BY <1>1 DEF TableExact, Registered
<1>5. ClosedChannels' /\ UnblockedAtShutdown'
  BY <1>1 DEF ClosedChannels, UnblockedAtShutdown, HoldsSlot, Registered
<1>6. SlotAccounting'
  BY <1>1, <1>2 DEF SlotAccounting
<1> QED
  BY <1>2, <1>3, <1>4, <1>5, <1>6

LEMMA StepIInv == IInv /\ [Next]_vars => IInv'
<1> SUFFICES ASSUME IInv, [Next]_vars PROVE IInv'
  OBVIOUS
<1>1. TypeOK'
  BY TypeStep DEF IInv
<1>2. ASSUME NEW s \in Sess, Transport(s) \/ Handler(s) PROVE IInv'
  BY <1>1, <1>2, ActiveIInv, DeleteIInv, ReleaseIInv
<1>3. CASE UNCHANGED vars
  BY <1>1, <1>3, OtherIInv
<1> QED
  BY <1>1, <1>2, <1>3, PeerFrameIInv, ReaderIInv, ShutdownIInv, OtherIInv DEF Next, Returned

-----------------------------------------------------------------------------
(* IInv holds throughout every run of a connection.                        *)
THEOREM Invariance == Spec => []IInv
<1>1. Init => IInv
  BY InitIInv
<1>2. IInv /\ [Next]_vars => IInv'
  BY StepIInv
<1> QED
  BY <1>1, <1>2, PTL DEF Spec

(* Every variable keeps its type: the semaphore never exceeds maxInflight, *)
(* and no frame is taken from an empty channel or list.                    *)
THEOREM TypeCorrect == Spec => []TypeOK
<1>1. IInv => TypeOK
  BY DEF IInv
<1> QED
  BY <1>1, Invariance, PTL

(* No path leaks a slot of the semaphore or gives one back twice.          *)
THEOREM SlotsCorrect == Spec => []SlotAccounting
<1>1. IInv => SlotAccounting
  BY DEF IInv
<1> QED
  BY <1>1, Invariance, PTL

(* A session is in the table, under its id, exactly while its goroutine is *)
(* between its launch and its delete.                                      *)
THEOREM TableCorrect == Spec => []TableExact
<1>1. IInv => TableExact
  BY DEF IInv
<1> QED
  BY <1>1, Invariance, PTL

(* The read loop never sends on a closed receive channel: only a close     *)
(* frame sets closed, and it does so before it closes the channel.         *)
THEOREM RecvChSafe == Spec => []NoSendOnClosedRecvCh
<1>1. IInv => NoSendOnClosedRecvCh
  BY DEF IInv, ReaderLocals, ClosedChannels, NoSendOnClosedRecvCh
<1> QED
  BY <1>1, Invariance, PTL

(* No goroutine can still call writeFn when the write channel is closed.   *)
THEOREM WriteChSafe == Spec => []NoSendOnClosedWriteCh
<1>1. IInv => NoSendOnClosedWriteCh
  BY DEF IInv, ClosedChannels, NoSendOnClosedWriteCh
<1> QED
  BY <1>1, Invariance, PTL

(* After closeAllSessions every goroutine that could block in Receive has  *)
(* been unblocked.                                                         *)
THEOREM ShutdownUnblocks == Spec => []UnblockedAtShutdown
<1>1. IInv => UnblockedAtShutdown
  BY DEF IInv
<1> QED
  BY <1>1, Invariance, PTL

(* "max inflight exceeded" is answered only when MaxInflight goroutines    *)
(* hold slots.                                                             *)
THEOREM RejectionJustified == Spec => RejectsOnlyWhenFull
<1> DEFINE A == reader.at = "read" /\ reader'.code = "unavailable"
                  => Cardinality(Live) = MaxInflight
<1>1. IInv /\ [Next]_vars => [A]_vars
  <2> SUFFICES ASSUME IInv, Next, reader.at = "read", reader'.code = "unavailable"
               PROVE  Cardinality(Live) = MaxInflight
    OBVIOUS
  <2>1. reader = Idle
    BY DEF IInv, ReaderLocals
  <2>2. reader'.code # reader.code
    BY <2>1, ConstantsAssumption DEF Idle, Codes
  <2>3. PeerFrame
    <3>1. ~Reader
      BY <2>1 DEF Reader, StartSession, RouteMessage, CloseRecvCh, ReaderWrite, Idle
    <3>2. ~Shutdown
      BY <2>1, <2>2 DEF Shutdown, ReadFail, CancelContext, CloseAllSessions, CloseWriteCh,
                        Return, Idle
    <3>3. ~(Writer \/ Environment \/ Returned)
      BY <2>2 DEF Writer, WriterTake, WriterWrote, WriterFailed, WriterDrain, WriterEnd,
                  Environment, Disconnect, BaseCancel, Returned, vars
    <3>4. ASSUME NEW s \in Sess PROVE ~(Transport(s) \/ Handler(s))
      BY <2>2 DEF Transport, RecvExactlyOne, VerifyEmpty, DrainRest, ReceiveRequest, WriteFrame,
                  SkipFrame, DeleteSession, ReleaseSlot, Handler, CallReceive, CallSend,
                  HandlerReturn
    <3> QED
      BY <3>1, <3>2, <3>3, <3>4 DEF Next
  <2>4. None # "unavailable"
    BY ConstantsAssumption DEF Codes
  <2>5. ~ReadIgnored
    BY <2>2 DEF ReadIgnored
  <2>6. ASSUME NEW i \in Ids PROVE ~(ReadMessage(i) \/ ReadClose(i) \/ ReadCancel(i))
    <3>1. ~ReadMessage(i)
      <4>1. ReadMessage(i) =>
              \/ reader' = [at |-> "write", id |-> i, s |-> None, code |-> "session_not_found"]
              \/ reader' = reader
              \/ reader' = [at |-> "route", id |-> None, s |-> sessions[i], code |-> None]
        BY DEF ReadMessage, Reject, Idle
      <4> QED
        BY <2>2, <2>4, <4>1
    <3>2. ~ReadClose(i)
      BY <2>2, <2>4 DEF ReadClose, Idle
    <3>3. ~ReadCancel(i)
      BY <2>2 DEF ReadCancel
    <3> QED
      BY <3>1, <3>2, <3>3
  <2>7. ~SlotFree
    <3>1. PICK i \in Ids, p \in Procs \union {None}, sh \in Shapes : ReadOpen(i, p, sh)
      BY <2>3, <2>5, <2>6 DEF PeerFrame
    <3>2. \/ ~SlotFree
          \/ \E c \in {"unknown_procedure", "shape_mismatch"} :
               reader' = [at |-> "write", id |-> i, s |-> None, code |-> c]
          \/ \E s \in Sess : reader' = [at |-> "start", id |-> i, s |-> s, code |-> sh]
      BY <3>1 DEF ReadOpen, Reject
    <3>3. ASSUME NEW at, NEW s, NEW c, reader' = [at |-> at, id |-> i, s |-> s, code |-> c]
          PROVE  c = "unavailable"
      BY <3>3
    <3>4. sh # "unavailable"
      BY DEF Shapes
    <3> QED
      BY <3>2, <3>3, <3>4
  <2>8. sem \in 0..MaxInflight /\ sem = Cardinality(Live) + 0
    BY <2>1 DEF IInv, TypeOK, TableOK, SlotAccounting, Idle
  <2>9. Cardinality(Live) \in Nat
    BY FS_CardinalityType DEF IInv
  <2> QED
    BY <2>7, <2>8, <2>9, ConstantsAssumption DEF SlotFree
<1> QED
  BY <1>1, Invariance, PTL DEF Spec, RejectsOnlyWhenFull

-----------------------------------------------------------------------------
(* WsServer implements the session service of RpcSessions, and what its    *)
(* sessions receive and answer is right.                                   *)

(* A step that touches no goroutine: only the context may have changed.    *)
Quiet == UNCHANGED sessVars /\ (ctx' = ctx \/ ctx' = "done")

LEMMA QuietSteps ==
  ASSUME TypeOK,
         \/ PeerFrame \/ Environment \/ Shutdown \/ Writer \/ UNCHANGED vars
         \/ RouteMessage \/ CloseRecvCh \/ ReaderWrite
  PROVE  Quiet
<1>1. CASE PeerFrame
  BY <1>1 DEF PeerFrame, ReadIgnored, ReadOpen, ReadMessage, ReadClose, ReadCancel, NextFrame,
              Quiet
<1>2. CASE Environment \/ Shutdown
  BY <1>2 DEF Environment, Disconnect, BaseCancel, Shutdown, ReadFail, CancelContext,
              CloseAllSessions, CloseWriteCh, Return, Quiet, envVars
<1>3. CASE Writer
  BY <1>3 DEF Writer, WriterTake, WriterWrote, WriterFailed, WriterDrain, WriterEnd, Quiet,
              envVars
<1>4. CASE RouteMessage \/ CloseRecvCh \/ ReaderWrite
  BY <1>4 DEF RouteMessage, CloseRecvCh, ReaderWrite, Quiet, envVars
<1>5. CASE UNCHANGED vars
  BY <1>5 DEF vars, Quiet, envVars
<1> QED
  BY <1>1, <1>2, <1>3, <1>4, <1>5

-----------------------------------------------------------------------------
(* The five things a goroutine's step can be for the peer: nothing, the    *)
(* choice of its reply, a message, its last frame (queued or dropped), or  *)
(* its departure.                                                          *)
Same(s) == UNCHANGED <<ctx, idOf, shape>>
           /\ \A t \in Sess : t # s => UNCHANGED <<pc[t], pend[t], replied[t]>>

Silent(s) ==
  /\ Same(s)
  /\ Phase(s) = "open" /\ pc[s] \notin {"send", "finish"}
  /\ replied'[s] = replied[s]
  /\ \/ pc'[s] \in {"first", "eof", "drain", "run", "recv"}
     \/ pc'[s] = "send" /\ pend'[s] = <<"message">> /\ ~SingleReply(s)
     \/ /\ pc'[s] = "finish"
        /\ \/ pend'[s] = <<"error">>
           \/ pend'[s] = <<"close">> /\ ~SingleReply(s)
           \/ pend'[s] = <<"message", "close">> /\ SingleReply(s)

Queued(s) ==
  /\ Same(s)
  /\ pc[s] \in {"send", "finish"} /\ pend[s] # <<>>
  /\ \/ replied'[s] = Append(replied[s], Head(pend[s]))
     \/ replied'[s] = replied[s] /\ ctx = "done"
  /\ pend'[s] = Tail(pend[s])
  /\ pc'[s] = IF pc[s] = "send" THEN "run"
              ELSE IF pend'[s] = <<>> THEN "delete" ELSE "finish"

Left(s) ==
  /\ Same(s)
  /\ replied'[s] = replied[s] /\ pend'[s] = pend[s]
  /\ \/ pc[s] = "delete" /\ pc'[s] = "release"
     \/ pc[s] = "release" /\ pc'[s] = "done"

LEMMA SessionSteps ==
  ASSUME IInv, AnswerLocals, NEW s \in Sess, Transport(s) \/ Handler(s)
  PROVE  Silent(s) \/ Queued(s) \/ Left(s)
<1> USE DEF Goto, Same
<1>1. /\ pc \in [Sess -> SessionAt] /\ pend \in [Sess -> Seq(Kinds)]
      /\ replied \in [Sess -> Seq(Kinds)]
  BY DEF IInv, TypeOK, SessOK
<1>2. ASSUME NEW reply, Finish(s, reply), UNCHANGED <<ctx, idOf, shape, replied>>
      PROVE  Same(s) /\ pc'[s] = "finish" /\ pend'[s] = reply /\ replied'[s] = replied[s]
  BY <1>1, <1>2 DEF Finish
<1>3. ASSUME NEW at, Goto(s, at), UNCHANGED <<ctx, idOf, shape, replied, pend>>
      PROVE  Same(s) /\ pc'[s] = at /\ pend'[s] = pend[s] /\ replied'[s] = replied[s]
  BY <1>1, <1>3
<1>4. pc[s] \notin {"new", "delete", "release", "done"} <=> Phase(s) = "open"
  BY DEF Phase
<1>5. CASE RecvExactlyOne(s)
  <2>1. pc[s] = "first" /\ UNCHANGED <<ctx, idOf, shape, replied>>
    BY <1>5 DEF RecvExactlyOne, envVars
  <2>2. (Goto(s, "eof") /\ UNCHANGED pend) \/ Finish(s, <<"error">>)
    BY <1>5 DEF RecvExactlyOne
  <2> QED
    BY <1>2, <1>3, <1>4, <2>1, <2>2 DEF Silent
<1>6. CASE VerifyEmpty(s)
  <2>1. pc[s] = "eof" /\ UNCHANGED <<ctx, idOf, shape, replied>>
    BY <1>6 DEF VerifyEmpty, envVars
  <2>2. (\E at \in {"drain", "run"} : Goto(s, at) /\ UNCHANGED pend) \/ Finish(s, <<"error">>)
    BY <1>6 DEF VerifyEmpty
  <2> QED
    BY <1>2, <1>3, <1>4, <2>1, <2>2 DEF Silent
<1>7. CASE DrainRest(s)
  <2>1. pc[s] = "drain" /\ UNCHANGED <<ctx, idOf, shape, replied>>
    BY <1>7 DEF DrainRest, envVars
  <2>2. UNCHANGED <<pc, pend>> \/ Finish(s, <<"error">>)
    BY <1>7 DEF DrainRest
  <2> QED
    BY <1>2, <1>4, <2>1, <2>2 DEF Silent
<1>8. CASE ReceiveRequest(s) \/ CallReceive(s)
  <2>1. pc[s] \in {"run", "recv"} /\ UNCHANGED <<ctx, idOf, shape, replied, pend>>
    BY <1>8 DEF ReceiveRequest, CallReceive, envVars
  <2>2. \E at \in {"run", "recv"} : Goto(s, at)
    BY <1>8 DEF ReceiveRequest, CallReceive
  <2> QED
    BY <1>3, <1>4, <2>1, <2>2 DEF Silent
<1>9. CASE CallSend(s)
  <2>1. /\ pc[s] = "run" /\ shape[s] \in SendsMany /\ UNCHANGED <<ctx, idOf, shape, replied>>
        /\ Goto(s, "send") /\ pend' = [pend EXCEPT ![s] = <<"message">>]
    BY <1>9 DEF CallSend, envVars
  <2>2. /\ Same(s) /\ pc'[s] = "send" /\ pend'[s] = <<"message">> /\ replied'[s] = replied[s]
        /\ ~SingleReply(s)
    BY <1>1, <2>1 DEF SingleReply
  <2> QED
    BY <1>4, <2>1, <2>2 DEF Silent
<1>10. CASE HandlerReturn(s)
  <2>1. pc[s] = "run" /\ UNCHANGED <<ctx, idOf, shape, replied>>
    BY <1>10 DEF HandlerReturn, envVars
  <2>2. shape[s] \in Shapes
    BY <2>1 DEF IInv, SessionLocals
  <2>3. \/ Finish(s, <<"error">>)
        \/ Finish(s, <<"close">>) /\ ~SingleReply(s)
        \/ Finish(s, <<"message", "close">>) /\ SingleReply(s)
    BY <1>10, <2>2 DEF HandlerReturn, Replies, SingleReply
  <2> QED
    BY <1>2, <1>4, <2>1, <2>3 DEF Silent
<1>11. CASE WriteFrame(s) \/ SkipFrame(s)
  <2>1. /\ pc[s] \in {"send", "finish"} /\ AfterWrite(s) /\ UNCHANGED <<ctx, idOf, shape>>
        /\ \/ replied' = [replied EXCEPT ![s] = Append(@, Head(pend[s]))]
           \/ replied' = replied /\ ctx = "done"
    BY <1>11 DEF WriteFrame, SkipFrame, envVars
  <2>2. pend[s] # <<>>
    BY <2>1 DEF IInv, SessionLocals
  <2>3. pend' = [pend EXCEPT ![s] = Tail(pend[s])]
    BY <2>1 DEF AfterWrite
  <2>4. pend'[s] = Tail(pend[s]) /\ \A t \in Sess : t # s => pend'[t] = pend[t]
    BY <1>1, <2>3
  <2>5. /\ pc'[s] = IF pc[s] = "send" THEN "run"
                    ELSE IF pend'[s] = <<>> THEN "delete" ELSE "finish"
        /\ \A t \in Sess : t # s => pc'[t] = pc[t]
    BY <1>1, <2>1, <2>4 DEF AfterWrite
  <2>6. /\ \/ replied'[s] = Append(replied[s], Head(pend[s]))
           \/ replied'[s] = replied[s] /\ ctx = "done"
        /\ \A t \in Sess : t # s => replied'[t] = replied[t]
    BY <1>1, <2>1
  <2> QED
    BY <2>1, <2>2, <2>4, <2>5, <2>6 DEF Queued
<1>12. CASE DeleteSession(s) \/ ReleaseSlot(s)
  <2>1. /\ UNCHANGED <<ctx, idOf, shape, replied, pend>>
        /\ \/ pc[s] = "delete" /\ Goto(s, "release")
           \/ pc[s] = "release" /\ Goto(s, "done")
    BY <1>12 DEF DeleteSession, ReleaseSlot, envVars
  <2> QED
    BY <1>3, <2>1 DEF Left
<1> QED
  BY <1>5, <1>6, <1>7, <1>8, <1>9, <1>10, <1>11, <1>12 DEF Transport, Handler

-----------------------------------------------------------------------------
(* The frames a goroutine still has to send fit those it has sent.         *)
LEMMA StepAnswers ==
  ASSUME IInv, AnswerLocals, [Next]_vars
  PROVE  AnswerLocals'
<1>1. CASE Quiet
  BY <1>1 DEF Quiet, AnswerLocals, SingleReply, Phase, sessVars
<1>2. CASE StartSession
  <2>1. UNCHANGED <<ctx, pend, replied>>
    BY <1>2 DEF StartSession, envVars
  <2>2. CASE UNCHANGED <<pc, shape>>
    BY <2>1, <2>2 DEF AnswerLocals, SingleReply, Phase
  <2>3. ASSUME ~UNCHANGED <<pc, shape>> PROVE AnswerLocals'
    <3> DEFINE r == reader.s
    <3>1. r \in Sess /\ pc[r] = "new"
      BY <1>2 DEF IInv, ReaderLocals, StartSession
    <3>2. /\ pc \in [Sess -> SessionAt] /\ shape \in [Sess -> Shapes \union {None}]
      BY DEF IInv, TypeOK, SessOK
    <3>3. /\ pc' = [pc EXCEPT ![r] = FirstStep(reader.code)]
          /\ shape' = [shape EXCEPT ![r] = reader.code]
      BY <1>2, <2>3 DEF StartSession
    <3>4. pc'[r] \in {"first", "run"} /\ replied'[r] = <<>>
      BY <2>1, <3>1, <3>2, <3>3 DEF FirstStep, AnswerLocals
    <3>5. \A t \in Sess : t # r => pc'[t] = pc[t] /\ shape'[t] = shape[t]
      BY <3>1, <3>2, <3>3
    <3> QED
      BY <2>1, <3>4, <3>5 DEF AnswerLocals, SingleReply, Phase
  <2> QED
    BY <2>2, <2>3
<1>3. ASSUME NEW s \in Sess, Transport(s) \/ Handler(s) PROVE AnswerLocals'
  <2>1. ASSUME Same(s), NEW t \in Sess, t # s
        PROVE  /\ UNCHANGED <<ctx, pc[t], pend[t], replied[t], shape[t]>>
               /\ SingleReply(t)' <=> SingleReply(t)
    BY <2>1 DEF Same, SingleReply
  <2>2. SUFFICES ASSUME Same(s)
                 PROVE  /\ pc'[s] # "new"
                        /\ pc'[s] = "send" => pend'[s] = <<"message">> /\ ~SingleReply(s)
                        /\ pc'[s] = "finish" =>
                             \/ pend'[s] = <<"error">>
                             \/ pend'[s] = <<"close">>
                             \/ pend'[s] = <<"message", "close">> /\ SingleReply(s)
                        /\ SingleReply(s) /\ pc'[s] \notin {"new", "delete", "release", "done"} =>
                             IF pc'[s] = "finish" /\ pend'[s] = <<"close">>
                             THEN replied'[s] = <<"message">> \/ ctx = "done"
                             ELSE replied'[s] = <<>>
    <3>1. Same(s)
      BY <1>3, SessionSteps DEF Silent, Queued, Left
    <3>2. SingleReply(s)' <=> SingleReply(s)
      BY <3>1 DEF Same, SingleReply
    <3> QED
      BY <2>1, <2>2, <3>1, <3>2 DEF AnswerLocals, Phase, Same
  <2>3. <<"error">> # <<"close">> /\ <<"message", "close">> # <<"close">>
    OBVIOUS
  <2>4. CASE Silent(s)
    BY <2>3, <2>4 DEF Silent, AnswerLocals, Phase
  <2>5. CASE Queued(s)
    <3>1. CASE pc[s] = "send"
      BY <2>5, <3>1 DEF Queued, AnswerLocals
    <3>2. CASE pc[s] = "finish" /\ pend[s] \in {<<"error">>, <<"close">>}
      <4>1. Tail(<<"error">>) = <<>> /\ Tail(<<"close">>) = <<>>
        OBVIOUS
      <4>2. pend'[s] = <<>>
        BY <2>5, <3>2, <4>1 DEF Queued
      <4>3. pc'[s] = "delete"
        BY <2>5, <3>2, <4>2 DEF Queued
      <4> QED
        BY <4>3
    <3>3. CASE pc[s] = "finish" /\ pend[s] = <<"message", "close">> /\ SingleReply(s)
      <4>1. pend'[s] = <<"close">> /\ Head(pend[s]) = "message"
        BY <2>5, <3>3 DEF Queued
      <4>2. replied[s] = <<>>
        BY <2>3, <3>3 DEF AnswerLocals, Phase
      <4>3. replied'[s] = <<"message">> \/ ctx = "done"
        BY <2>5, <4>1, <4>2 DEF Queued
      <4>4. pc'[s] = "finish"
        BY <2>5, <3>3, <4>1 DEF Queued
      <4> QED
        BY <3>3, <4>1, <4>3, <4>4
    <3> QED
      BY <2>5, <3>1, <3>2, <3>3 DEF Queued, AnswerLocals
  <2>6. CASE Left(s)
    BY <2>6 DEF Left
  <2> QED
    BY <1>3, <2>4, <2>5, <2>6, SessionSteps
<1> QED
  BY <1>1, <1>2, <1>3, QuietSteps DEF IInv, Next, Reader, Returned
-----------------------------------------------------------------------------
(* Every step of the connection is a step of the abstract service, or      *)
(* leaves the service's state alone.                                       *)
LEMMA StepService ==
  ASSUME IInv, AnswerLocals, TypeOK', [Next]_vars
  PROVE  [Service!Next]_(Service!vars)
<1> DEFINE phase == [s \in Sess |-> Phase(s)]
           single == {s \in Sess : SingleReply(s)}
<1> USE DEF Service!vars
<1>1. /\ pc \in [Sess -> SessionAt] /\ idOf \in [Sess -> Ids \union {None}]
      /\ shape \in [Sess -> Shapes \union {None}] /\ replied \in [Sess -> Seq(Kinds)]
      /\ pend \in [Sess -> Seq(Kinds)] /\ ctx \in {"live", "done"}
      /\ replied' \in [Sess -> Seq(Kinds)]
  BY DEF IInv, TypeOK, SessOK, EnvOK
<1>2. CASE Quiet
  <2>1. phase' = phase /\ single' = single /\ idOf' = idOf /\ replied' = replied
    BY <1>2 DEF Quiet, sessVars, Phase, SingleReply
  <2> QED
    BY <1>2, <2>1 DEF Quiet, Service!Next, Service!GoDown
<1>3. CASE StartSession
  <2>1. UNCHANGED <<ctx, replied>>
    BY <1>3 DEF StartSession, envVars
  <2>2. CASE UNCHANGED <<pc, idOf, shape>>
    <3>1. phase' = phase /\ single' = single
      BY <2>2 DEF Phase, SingleReply
    <3> QED
      BY <2>1, <2>2, <3>1
  <2>3. CASE ~UNCHANGED <<pc, idOf, shape>>
    <3> DEFINE r == reader.s
               i == reader.id
    <3>1. r \in Sess /\ i \in Ids /\ pc[r] = "new" /\ reader.code \in Shapes
      BY <1>3 DEF IInv, ReaderLocals, StartSession
    <3>2. /\ sessions[i] = None
          /\ pc' = [pc EXCEPT ![r] = FirstStep(reader.code)]
          /\ idOf' = [idOf EXCEPT ![r] = i]
          /\ shape' = [shape EXCEPT ![r] = reader.code]
      BY <1>3, <2>3 DEF StartSession, Taken
    <3>3. phase[r] = "none"
      BY <3>1 DEF Phase
    <3>4. phase' = [phase EXCEPT ![r] = "open"]
      <4>1. pc'[r] \in {"first", "run"} /\ \A t \in Sess : t # r => pc'[t] = pc[t]
        BY <1>1, <3>1, <3>2 DEF FirstStep
      <4> QED
        BY <3>1, <4>1 DEF Phase
    <3>5. \E one \in {{}, {r}} : single' = single \union one
      <4>1. \A t \in Sess : t # r => (SingleReply(t)' <=> SingleReply(t))
        BY <1>1, <3>1, <3>2 DEF SingleReply
      <4>2. ~SingleReply(r)
        BY <3>1, ConstantsAssumption DEF AnswerLocals, SingleReply
      <4>3. single = {t \in Sess : shape[t] \in Shapes \ SendsMany}
        BY DEF SingleReply
      <4>4. single' = {t \in Sess : shape'[t] \in Shapes \ SendsMany}
        BY DEF SingleReply
      <4>5. \A t \in Sess : t # r =>
              (shape'[t] \in Shapes \ SendsMany <=> shape[t] \in Shapes \ SendsMany)
        BY <4>1 DEF SingleReply
      <4>6. shape[r] \notin Shapes \ SendsMany
        BY <4>2 DEF SingleReply
      <4> HIDE DEF single
      <4>7. CASE shape'[r] \in Shapes \ SendsMany
        <5>1. single' = single \union {r}
          BY <3>1, <4>3, <4>4, <4>5, <4>7
        <5> QED
          BY <5>1
      <4>8. CASE shape'[r] \notin Shapes \ SendsMany
        <5>1. single' = single \union {}
          BY <3>1, <4>3, <4>4, <4>5, <4>6, <4>8
        <5> QED
          BY <5>1
      <4> QED
        BY <4>7, <4>8
    <3>6. \A t \in Service!Present : t \in Live /\ Registered(t) /\ idOf[t] # i
      <4>1. ASSUME NEW t \in Service!Present PROVE t \in Sess /\ Registered(t) /\ HoldsSlot(t)
        BY <4>1 DEF Service!Present, Phase, Registered, HoldsSlot
      <4> QED
        BY <3>2, <4>1, ConstantsAssumption DEF IInv, TableExact, Live
    <3>7. Cardinality(Service!Present) < MaxInflight
      <4>1. IsFiniteSet(Live) /\ Cardinality(Live) \in Nat /\ sem \in 0..MaxInflight
        BY FS_CardinalityType DEF IInv, TypeOK, TableOK
      <4>2. Cardinality(Live) < MaxInflight
        BY <1>3, <4>1, ConstantsAssumption DEF IInv, SlotAccounting, StartSession
      <4>3. /\ Cardinality(Service!Present) <= Cardinality(Live)
            /\ Cardinality(Service!Present) \in Nat
        <5>1. Service!Present \subseteq Live
          BY <3>6
        <5> QED
          BY <4>1, <5>1, FS_Subset, FS_CardinalityType
      <4> QED
        BY <4>1, <4>2, <4>3, ConstantsAssumption
    <3>8. Service!Accept(r, i)
      <4>1. Service!Cardinality(Service!Present) = Cardinality(Service!Present)
        BY DEF Service!Cardinality, Cardinality
      <4> QED
        BY <2>1, <3>2, <3>3, <3>4, <3>5, <3>6, <3>7, <4>1 DEF Service!Accept
    <3> QED
      BY <3>1, <3>8 DEF Service!Next
  <2> QED
    BY <2>2, <2>3
<1>4. ASSUME NEW s \in Sess, Transport(s) \/ Handler(s)
      PROVE  [Service!Next]_(Service!vars)
  <2>1. /\ UNCHANGED <<ctx, idOf>>
        /\ single' = single
        /\ \A t \in Sess : t # s => pc'[t] = pc[t] /\ replied'[t] = replied[t]
    <3>1. Same(s)
      BY <1>4, SessionSteps DEF Silent, Queued, Left
    <3> QED
      BY <3>1 DEF Same, SingleReply
  <2>2. \A t \in Sess : t # s => Phase(t)' = Phase(t)
    BY <2>1 DEF Phase
  <2>3. ASSUME NEW p, Phase(s)' = p
        PROVE  phase' = [phase EXCEPT ![s] = p]
    BY <2>2, <2>3
  <2>4. CASE Silent(s)
    <3>1. Phase(s)' = Phase(s) /\ replied'[s] = replied[s]
      BY <2>4 DEF Silent, Phase
    <3>2. phase' = phase /\ replied' = replied
      BY <1>1, <2>1, <2>2, <3>1
    <3> QED
      BY <2>1, <3>2
  <2>5. CASE Queued(s)
    <3> DEFINE k == Head(pend[s])
    <3>1. Phase(s) = "open" /\ phase[s] = "open"
      BY <2>5 DEF Queued, Phase
    <3>2. CASE replied'[s] = replied[s] /\ ctx = "done"
      <4>1. replied' = replied
        BY <1>1, <2>1, <3>2
      <4>2. CASE Phase(s)' = "open"
        <5>1. phase' = phase
          BY <2>2, <3>1, <4>2
        <5> QED
          BY <2>1, <4>1, <5>1
      <4>3. CASE Phase(s)' = "ended"
        <5>1. Service!Abandon(s)
          BY <2>1, <2>3, <3>1, <3>2, <4>1, <4>3 DEF Service!Abandon
        <5> QED
          BY <5>1 DEF Service!Next
      <4> QED
        BY <2>5, <4>2, <4>3 DEF Queued, Phase
    <3>3. CASE replied'[s] = Append(replied[s], k)
      <4>1. replied' = [replied EXCEPT ![s] = Append(replied[s], k)]
        BY <1>1, <2>1, <3>3
      <4>2. CASE pc[s] = "send" \/ pend[s] = <<"message", "close">>
        <5>1. k = "message" /\ Phase(s)' = "open"
          <6>1. /\ Head(<<"message">>) = "message" /\ Head(<<"message", "close">>) = "message"
                /\ Tail(<<"message", "close">>) = <<"close">> /\ <<"close">> # <<>>
                /\ <<"message", "close">> # <<"close">>
                /\ <<"message", "close">> # <<"error">>
            OBVIOUS
          <6>2. CASE pc[s] = "send"
            <7>1. pend[s] = <<"message">> /\ pc'[s] = "run"
              BY <2>5, <6>2 DEF Queued, AnswerLocals
            <7> QED
              BY <6>1, <7>1 DEF Phase
          <6>3. CASE pc[s] = "finish" /\ pend[s] = <<"message", "close">>
            <7>1. pend'[s] = <<"close">> /\ pc'[s] = "finish"
              BY <2>5, <6>1, <6>3 DEF Queued
            <7> QED
              BY <6>1, <6>3, <7>1 DEF Phase
          <6> QED
            BY <2>5, <4>2, <6>2, <6>3 DEF Queued
        <5>2. phase' = phase
          BY <2>2, <3>1, <5>1
        <5>3. s \in single => replied[s] = <<>>
          BY <2>5, <3>1, <4>2 DEF Queued, AnswerLocals
        <5>4. Service!Answer(s)
          BY <2>1, <3>1, <4>1, <5>1, <5>2, <5>3 DEF Service!Answer
        <5> QED
          BY <5>4 DEF Service!Next
      <4>3. CASE pc[s] = "finish" /\ pend[s] \in {<<"close">>, <<"error">>}
        <5>1. k \in {"close", "error"} /\ pend[s] = <<k>> /\ Tail(pend[s]) = <<>>
          <6>1. /\ Head(<<"close">>) = "close" /\ Tail(<<"close">>) = <<>>
                /\ Head(<<"error">>) = "error" /\ Tail(<<"error">>) = <<>>
            OBVIOUS
          <6>2. CASE pend[s] = <<"close">>
            BY <6>1, <6>2
          <6>3. CASE pend[s] = <<"error">>
            BY <6>1, <6>3
          <6> QED
            BY <4>3, <6>2, <6>3
        <5>2. Phase(s)' = "ended"
          BY <2>5, <4>3, <5>1 DEF Queued, Phase
        <5>3. /\ k = "close" /\ s \in single => replied[s] = <<"message">> \/ ctx = "done"
              /\ k = "error" /\ s \in single => replied[s] = <<>>
          BY <3>1, <4>3, <5>1 DEF AnswerLocals
        <5>4. Service!End(s, k)
          BY <2>1, <2>3, <3>1, <4>1, <5>2, <5>3 DEF Service!End
        <5> QED
          BY <5>1, <5>4 DEF Service!Next
      <4> QED
        BY <2>5, <4>2, <4>3 DEF Queued, AnswerLocals
    <3> QED
      BY <2>5, <3>2, <3>3 DEF Queued
  <2>6. CASE Left(s)
    <3>1. replied' = replied
      BY <1>1, <2>1, <2>6 DEF Left
    <3>2. CASE pc[s] = "delete"
      <4>1. phase[s] = "ended" /\ Phase(s)' = "gone"
        BY <2>6, <3>2 DEF Left, Phase
      <4>2. Service!Leave(s)
        BY <2>1, <2>3, <3>1, <4>1 DEF Service!Leave
      <4> QED
        BY <4>2 DEF Service!Next
    <3>3. CASE pc[s] = "release"
      <4>1. Phase(s)' = Phase(s)
        BY <2>6, <3>3 DEF Left, Phase
      <4>2. phase' = phase
        BY <2>2, <4>1
      <4> QED
        BY <2>1, <3>1, <4>2
    <3> QED
      BY <2>6, <3>2, <3>3 DEF Left
  <2> QED
    BY <1>4, <2>4, <2>5, <2>6, SessionSteps
<1> QED
  BY <1>2, <1>3, <1>4, QuietSteps DEF IInv, Next, Reader, Returned

-----------------------------------------------------------------------------
(* A launched goroutine's unsent frames always fit the ones it has sent    *)
(* (server.go:255-280): the invariant the refinement needs besides IInv.   *)
THEOREM AnswersCorrect == Spec => []AnswerLocals
<1>1. Init => AnswerLocals
  BY ConstantsAssumption DEF Init, AnswerLocals, SingleReply, Phase
<1>2. IInv /\ AnswerLocals /\ [Next]_vars => AnswerLocals'
  BY StepAnswers
<1> QED
  BY <1>1, <1>2, Invariance, PTL DEF Spec

LEMMA InitService == Init => Service!Init
<1> SUFFICES ASSUME Init PROVE Service!Init
  OBVIOUS
<1>1. [s \in Sess |-> Phase(s)] = [s \in Sess |-> "none"]
  BY DEF Init, Phase
<1>2. {s \in Sess : SingleReply(s)} = {}
  BY ConstantsAssumption DEF Init, SingleReply
<1> QED
  BY <1>1, <1>2 DEF Init, Service!Init

(* The goroutines, the tables and the channels of the connection together  *)
(* behave as the session service of RpcSessions (server.go:295-539): one   *)
(* session per id, at most MaxInflight, each ended exactly once.           *)
THEOREM ImplementsSessions == Spec => ImplementsService
<1>1. Init => Service!Init
  BY InitService
<1>2. IInv /\ AnswerLocals /\ TypeOK' /\ [Next]_vars => [Service!Next]_(Service!vars)
  BY StepService
<1>3. IInv => TypeOK
  BY DEF IInv
<1> QED
  BY <1>1, <1>2, <1>3, Invariance, AnswersCorrect, PTL
     DEF Spec, ImplementsService, Service!Spec

-----------------------------------------------------------------------------
(* A launch touches the goroutine of one fresh incarnation, or none.       *)
LEMMA StartSteps ==
  ASSUME IInv, AnswerLocals, StartSession
  PROVE  /\ UNCHANGED <<ctx, got, replied, chanVars>>
         /\ reader.at = "start" /\ reader'.at \in {"read", "write"}
         /\ reader'.code # "session_not_found"
         /\ \E r \in Sess :
              /\ pc[r] = "new" /\ replied[r] = <<>>
              /\ pc'[r] \in {"new", "first", "run"}
              /\ pc'[r] = "run" => shape'[r] \in ReadsMany
              /\ \A t \in Sess : t # r => UNCHANGED <<pc[t], idOf[t], shape[t]>>
<1> DEFINE r == reader.s
           sh == reader.code
<1>1. /\ r \in Sess /\ pc[r] = "new" /\ sh \in Shapes
      /\ reader.at = "start" /\ UNCHANGED <<ctx, got, replied, chanVars>>
  BY DEF IInv, ReaderLocals, StartSession, envVars
<1>2. /\ pc \in [Sess -> SessionAt] /\ shape \in [Sess -> Shapes \union {None}]
      /\ idOf \in [Sess -> Ids \union {None}]
  BY DEF IInv, TypeOK, SessOK
<1>3. replied[r] = <<>>
  BY <1>1 DEF AnswerLocals
<1>4. CASE UNCHANGED <<pc, idOf, shape>> /\ RejectDuplicate(reader.id)
  BY <1>1, <1>2, <1>3, <1>4 DEF RejectDuplicate, Reject
<1>5. CASE /\ pc' = [pc EXCEPT ![r] = FirstStep(sh)]
           /\ idOf' = [idOf EXCEPT ![r] = reader.id]
           /\ shape' = [shape EXCEPT ![r] = sh]
           /\ reader' = Idle
  <2>1. pc'[r] = FirstStep(sh) /\ shape'[r] = sh
    BY <1>1, <1>2, <1>5
  <2>2. pc'[r] \in {"first", "run"} /\ (pc'[r] = "run" => shape'[r] \in ReadsMany)
    BY <1>1, <2>1 DEF FirstStep, Shapes, OneRequest, ReadsMany
  <2>3. \A t \in Sess : t # r => UNCHANGED <<pc[t], idOf[t], shape[t]>>
    BY <1>1, <1>2, <1>5
  <2>4. reader'.at = "read" /\ reader'.code # "session_not_found"
    BY <1>5 DEF Idle, Codes
  <2> QED
    BY <1>1, <1>3, <2>2, <2>3, <2>4
<1> QED
  BY <1>4, <1>5 DEF StartSession

(* The steps of the connection, by whom they touch.                        *)
LEMMA Steps ==
  ASSUME IInv, [Next]_vars
  PROVE  Quiet \/ StartSession \/ \E s \in Sess : Transport(s) \/ Handler(s)
BY QuietSteps DEF IInv, Next, Reader, Returned

-----------------------------------------------------------------------------
(* Answers.                                                                *)

(* What a goroutine that has not ended has sent is messages, and what it   *)
(* queues last is the one close or error frame.                            *)
LEMMA RepliesStep ==
  ASSUME IInv, AnswerLocals, RepliesWellFormed, [Next]_vars
  PROVE  RepliesWellFormed'
<1> USE DEF RepliesWellFormed
<1>1. CASE Quiet
  BY <1>1 DEF Quiet, sessVars
<1>2. CASE StartSession
  BY <1>2, StartSteps
<1>3. ASSUME NEW s \in Sess, Transport(s) \/ Handler(s) PROVE RepliesWellFormed'
  <2>1. Silent(s) \/ Queued(s) \/ Left(s)
    BY <1>3, SessionSteps
  <2>2. Same(s)
    BY <2>1 DEF Silent, Queued, Left
  <2>3. \A t \in Sess : t # s => UNCHANGED <<ctx, pc[t], replied[t], shape[t]>>
    BY <2>2 DEF Same
  <2> DEFINE r == replied[s]
  <2>4. UNCHANGED <<ctx, shape>>
    BY <2>2 DEF Same
  <2>5. CASE Left(s)
    BY <2>3, <2>4, <2>5 DEF Left
  <2>6. CASE Silent(s)
    <3>1. /\ r' = r /\ pc'[s] \notin {"delete", "release", "done"}
          /\ pc[s] \notin {"delete", "release", "done"}
      BY <2>6 DEF Silent, Phase
    <3> QED
      BY <2>3, <2>4, <3>1
  <2>7. CASE Queued(s) /\ r' = r
    <3>1. pc[s] \notin {"delete", "release", "done"} /\ ctx = "done"
      <4>1. \A x \in Seq(Kinds), e \in Kinds : Append(x, e) # x
        <5> SUFFICES ASSUME NEW x \in Seq(Kinds), NEW e \in Kinds PROVE Append(x, e) # x
          OBVIOUS
        <5>1. Len(Append(x, e)) = Len(x) + 1 /\ Len(x) \in Nat
          BY Appended
        <5> QED
          BY <5>1
      <4>2. r \in Seq(Kinds) /\ Head(pend[s]) \in Kinds
        BY <2>7, HeadTail DEF IInv, TypeOK, SessOK, Queued
      <4> QED
        BY <2>7, <4>1, <4>2 DEF Queued
    <3> QED
      BY <2>3, <2>4, <2>7, <3>1
  <2>8. CASE Queued(s) /\ r' = Append(r, Head(pend[s]))
    <3>1. pend[s] \in Seq(Kinds) /\ pend[s] # <<>> /\ r \in Seq(Kinds)
      BY <2>8 DEF IInv, TypeOK, SessOK, Queued
    <3>2. Head(pend[s]) \in Kinds
      BY <3>1, HeadTail
    <3>3. \A k \in 1 .. Len(r) : r[k] = "message"
      <4>1. pc[s] \in {"send", "finish"}
        BY <2>8 DEF Queued
      <4>2. ASSUME r # <<>> PROVE r[Len(r)] = "message"
        <5>1. r[Len(r)] \in Kinds \ Terminal
          BY <3>1, <4>1, <4>2
        <5> QED
          BY <5>1 DEF Kinds, Terminal
      <4>3. \A k \in 1 .. Len(r) - 1 : r[k] = "message"
        BY <4>1
      <4> QED
        BY <3>1, <4>2, <4>3
    <3>4. /\ Len(r') = Len(r) + 1 /\ r'[Len(r) + 1] = Head(pend[s])
          /\ \A k \in 1 .. Len(r) : r'[k] = r[k]
      BY <2>8, <3>1, <3>2, Appended
    <3>5. r' # <<>> /\ r'[Len(r')] = Head(pend[s])
          /\ \A k \in 1 .. Len(r') - 1 : r'[k] = "message"
      BY <3>1, <3>3, <3>4
    <3>6. CASE pc'[s] = "delete"
      <4>1. pend[s] = <<"error">> \/ pend[s] = <<"close">>
        <5>1. pc[s] = "finish" /\ Tail(pend[s]) = <<>>
          BY <2>8, <3>6 DEF Queued
        <5>2. Tail(<<"message", "close">>) # <<>>
          OBVIOUS
        <5> QED
          BY <5>1, <5>2 DEF AnswerLocals
      <4>2. Head(pend[s]) \in Terminal
        BY <4>1 DEF Terminal
      <4>3. ASSUME shape[s] \notin SendsMany, ctx = "live"
            PROVE  r' \in {<<"error">>, <<"message", "close">>}
        <5>1. SingleReply(s) /\ Phase(s) = "open" /\ pc[s] = "finish"
          BY <2>8, <3>6, <4>3 DEF Queued, Phase, SingleReply, IInv, SessionLocals
        <5>2. /\ Append(<<"message">>, "close") = <<"message", "close">>
              /\ Append(<<>>, "error") = <<"error">>
              /\ Head(<<"close">>) = "close" /\ Head(<<"error">>) = "error"
              /\ <<"error">> # <<"close">>
          BY SecondAppended
        <5>3. IF pend[s] = <<"close">> THEN r = <<"message">> ELSE r = <<>>
          BY <4>3, <5>1 DEF AnswerLocals
        <5>4. CASE pend[s] = <<"close">>
          <6>1. r' = Append(r, Head(pend[s])) /\ r = <<"message">>
            BY <2>8, <5>3, <5>4
          <6>2. Head(pend[s]) = "close"
            BY <5>2, <5>4
          <6>3. r' = <<"message", "close">>
            BY <5>2, <6>1, <6>2, Zenon
          <6> QED
            BY <6>3
        <5>5. CASE pend[s] = <<"error">>
          <6>1. r' = Append(r, Head(pend[s])) /\ r = <<>>
            BY <2>8, <5>2, <5>3, <5>5
          <6>2. Head(pend[s]) = "error"
            BY <5>2, <5>5
          <6>3. r' = <<"error">>
            BY <5>2, <6>1, <6>2, Zenon
          <6> QED
            BY <6>3
        <5> QED
          BY <4>1, <5>4, <5>5
      <4> QED
        BY <2>3, <2>4, <3>5, <3>6, <4>2, <4>3
    <3>7. CASE pc'[s] # "delete"
      <4>1. pc'[s] \notin {"delete", "release", "done"}
        BY <2>8, <3>7 DEF Queued
      <4>2. pend[s] = <<"message">> \/ pend[s] = <<"message", "close">>
        <5>1. pc[s] = "send" \/ (pc[s] = "finish" /\ Tail(pend[s]) # <<>>)
          BY <2>8, <3>7 DEF Queued
        <5>2. Tail(<<"error">>) = <<>> /\ Tail(<<"close">>) = <<>>
          OBVIOUS
        <5> QED
          BY <5>1, <5>2 DEF AnswerLocals
      <4>3. Head(pend[s]) = "message"
        BY <4>2
      <4> QED
        BY <2>3, <2>4, <3>5, <4>1, <4>3 DEF Terminal
    <3> QED
      BY <3>6, <3>7
  <2> QED
    BY <2>1, <2>5, <2>6, <2>7, <2>8 DEF Queued
<1> QED
  BY <1>1, <1>2, <1>3, Steps

(* "session not found" is queued for an id only when nothing is registered *)
(* under it.                                                               *)
LEMMA NotFoundRead ==
  ASSUME IInv, Quiet, reader' # reader,
         reader'.at = "write", reader'.code = "session_not_found",
         \/ PeerFrame \/ Environment \/ Shutdown \/ Writer \/ UNCHANGED vars
         \/ RouteMessage \/ CloseRecvCh \/ ReaderWrite
  PROVE  \E i \in Ids : reader'.id = i /\ sessions[i] = None
<1>1. CASE PeerFrame
  <2>1. reader = Idle
    BY <1>1 DEF PeerFrame, ReadIgnored, ReadOpen, ReadMessage, ReadClose, ReadCancel,
                NextFrame, IInv, ReaderLocals
  <2>2. ASSUME NEW i, NEW c, Reject(i, c)
        PROVE  reader'.at = "write" /\ reader'.id = i /\ reader'.code = c
    BY <2>2 DEF Reject
  <2>3. ASSUME NEW i \in Ids, NEW p, NEW sh, ReadOpen(i, p, sh) PROVE FALSE
    <3>1. (\E r \in Sess : reader' = [at |-> "start", id |-> i, s |-> r, code |-> sh])
          \/ \E c \in Codes \ {"session_not_found"} : Reject(i, c)
      BY <2>3 DEF ReadOpen, Codes
    <3> QED
      BY <2>2, <3>1
  <2>4. ASSUME NEW i \in Ids, ReadClose(i) PROVE FALSE
    BY <2>1, <2>4 DEF ReadClose, Idle
  <2>5. PICK i \in Ids : ReadMessage(i)
    BY <1>1, <2>3, <2>4 DEF PeerFrame, ReadIgnored, ReadCancel
  <2>6. sessions[i] = None /\ Reject(i, "session_not_found")
    <3>1. reader'.at # "route"
      OBVIOUS
    <3>2. [Idle EXCEPT !.at = "route", !.s = sessions[i]].at = "route"
      BY DEF Idle
    <3> QED
      BY <2>5, <3>1, <3>2 DEF ReadMessage
  <2> QED
    BY <2>2, <2>6
<1>2. CASE Environment \/ Writer \/ UNCHANGED vars
  BY <1>2 DEF Environment, Disconnect, BaseCancel, Writer, WriterTake, WriterWrote,
              WriterFailed, WriterDrain, WriterEnd, vars
<1>3. CASE Shutdown
  BY <1>3 DEF Shutdown, ReadFail, CancelContext, CloseAllSessions, CloseWriteCh, Return, IInv,
              TypeOK, ReaderOK
<1>4. CASE RouteMessage \/ CloseRecvCh \/ ReaderWrite
  BY <1>4 DEF RouteMessage, CloseRecvCh, ReaderWrite, Idle
<1> QED
  BY <1>1, <1>2, <1>3, <1>4

LEMMA SessionReader ==
  ASSUME NEW s \in Sess, Transport(s) \/ Handler(s)
  PROVE  UNCHANGED <<ctx, reader, chClosed, closed, routed>>
BY DEF Transport, Handler, RecvExactlyOne, VerifyEmpty, DrainRest, ReceiveRequest, WriteFrame,
       SkipFrame, DeleteSession, ReleaseSlot, CallReceive, CallSend, HandlerReturn, envVars,
       chanVars

LEMMA NotFoundStep ==
  ASSUME IInv, AnswerLocals, RepliesWellFormed, NotFoundAfterTerminal, [Next]_vars
  PROVE  NotFoundAfterTerminal'
<1> SUFFICES ASSUME reader'.at = "write", reader'.code = "session_not_found", ctx' = "live",
                    NEW s \in Sess, idOf'[s] = reader'.id, pc'[s] # "new"
             PROVE  replied'[s] # <<>> /\ replied'[s][Len(replied'[s])] \in Terminal
  BY DEF NotFoundAfterTerminal
<1>1. ASSUME \/ PeerFrame \/ Environment \/ Shutdown \/ Writer \/ UNCHANGED vars
             \/ RouteMessage \/ CloseRecvCh \/ ReaderWrite
      PROVE  replied'[s] # <<>> /\ replied'[s][Len(replied'[s])] \in Terminal
  <2>1. Quiet
    BY <1>1, QuietSteps DEF IInv
  <2>2. ctx = "live" /\ idOf[s] = idOf'[s] /\ pc[s] = pc'[s] /\ replied'[s] = replied[s]
    BY <2>1 DEF Quiet, sessVars
  <2>3. CASE reader' = reader
    BY <2>2, <2>3 DEF NotFoundAfterTerminal
  <2>4. CASE reader' # reader
    <3>1. idOf[s] \in Ids /\ sessions[idOf[s]] = None
      BY <1>1, <2>1, <2>2, <2>4, NotFoundRead
    <3>2. ~Registered(s)
      BY <3>1 DEF IInv, TableExact
    <3> QED
      BY <2>2, <3>2 DEF Registered, RepliesWellFormed
  <2> QED
    BY <2>3, <2>4
<1>2. CASE StartSession
  BY <1>2, StartSteps
<1>3. ASSUME NEW t \in Sess, Transport(t) \/ Handler(t)
      PROVE  replied'[s] # <<>> /\ replied'[s][Len(replied'[s])] \in Terminal
  <2>1. Silent(t) \/ Queued(t) \/ Left(t)
    BY <1>3, SessionSteps
  <2>2. UNCHANGED <<ctx, reader>>
    BY <1>3, SessionReader
  <2>3. idOf[s] = idOf'[s] /\ pc[s] # "new"
    BY <2>1 DEF Silent, Queued, Left, Same, Phase
  <2>4. replied[s] # <<>> /\ replied[s][Len(replied[s])] \in Terminal
    BY <2>2, <2>3 DEF NotFoundAfterTerminal
  <2>5. pc[s] \in {"delete", "release", "done"}
    BY <2>4 DEF RepliesWellFormed
  <2>6. replied'[s] = replied[s]
    BY <2>1, <2>5 DEF Silent, Queued, Left, Same, Phase
  <2> QED
    BY <2>4, <2>6
<1> QED
  BY <1>1, <1>2, <1>3 DEF Next, Reader, Returned

-----------------------------------------------------------------------------
(* Messages.                                                               *)

(* A goroutine's step moves at most one message from its channel to what   *)
(* it has received, and runs the handler of a single request only at EOF.  *)
LEMMA SessionMessages ==
  ASSUME IInv, NEW s \in Sess, Transport(s) \/ Handler(s)
  PROVE  /\ \A t \in Sess : Seen(t)' = Seen(t)
         /\ \A t \in Sess : t # s => UNCHANGED <<pc[t], got[t]>>
         /\ pc[s] # "new" /\ pc'[s] \notin {"new", "first"}
         /\ pc'[s] = "eof" => pc[s] = "first" /\ \E e \in Nat : got'[s] = Append(got[s], e)
         /\ pc'[s] = "recv" => shape[s] \in ReadsMany
         /\ pc'[s] \in {"run", "send"} =>
              \/ pc[s] \in {"run", "send"} /\ got'[s] = got[s]
              \/ pc[s] = "recv"
              \/ pc[s] = "eof" /\ got'[s] = got[s] /\ recvCh[s] = <<>> /\ s \in chClosed
<1>1. /\ pc \in [Sess -> SessionAt] /\ got \in [Sess -> Seq(Nat)] /\ recvCh \in [Sess -> Seq(Nat)]
  BY DEF IInv, TypeOK, SessOK, ChanOK
<1>2. ASSUME TakeMessage(s)
      PROVE  /\ \A t \in Sess : Seen(t)' = Seen(t)
             /\ \A t \in Sess : t # s => got'[t] = got[t]
             /\ \E e \in Nat : got'[s] = Append(got[s], e)
  <2>1. /\ recvCh[s] \in Seq(Nat) /\ recvCh[s] # <<>> /\ got[s] \in Seq(Nat)
        /\ got'[s] = Append(got[s], Head(recvCh[s])) /\ recvCh'[s] = Tail(recvCh[s])
        /\ \A t \in Sess : t # s => got'[t] = got[t] /\ recvCh'[t] = recvCh[t]
    BY <1>1, <1>2 DEF TakeMessage
  <2>2. Seen(s)' = Seen(s)
    <3>1. \A g, q \in Seq(Nat) : q # <<>> => Append(g, Head(q)) \o Tail(q) = g \o q
      BY TakenIsMoved
    <3>2. Append(got[s], Head(recvCh[s])) \o Tail(recvCh[s]) = got[s] \o recvCh[s]
      BY <2>1, <3>1, Zenon
    <3>3. got'[s] \o recvCh'[s] = got[s] \o recvCh[s]
      BY <2>1, <3>2, Zenon
    <3> QED
      BY <3>3 DEF Seen
  <2>3. Head(recvCh[s]) \in Nat
    BY <2>1, HeadTail
  <2> QED
    BY <2>1, <2>2, <2>3 DEF Seen
<1>3. ASSUME UNCHANGED <<got, recvCh>>
      PROVE  \A t \in Sess : Seen(t)' = Seen(t) /\ got'[t] = got[t]
  BY <1>3 DEF Seen
<1>4. ASSUME NEW at, Goto(s, at)
      PROVE  pc'[s] = at /\ \A t \in Sess : t # s => pc'[t] = pc[t]
  BY <1>1, <1>4 DEF Goto
<1>5. CASE RecvExactlyOne(s)
  <2>1. /\ pc[s] = "first"
        /\ \/ TakeMessage(s) /\ Goto(s, "eof")
           \/ UNCHANGED <<got, recvCh>> /\ Goto(s, "finish")
    BY <1>5 DEF RecvExactlyOne, TakeEof, Finish
  <2> QED
    BY <1>2, <1>3, <1>4, <2>1
<1>6. CASE VerifyEmpty(s)
  <2>1. /\ pc[s] = "eof"
        /\ \/ TakeMessage(s) /\ Goto(s, "drain")
           \/ /\ UNCHANGED <<got, recvCh>> /\ recvCh[s] = <<>> /\ s \in chClosed
              /\ Goto(s, "run")
           \/ UNCHANGED <<got, recvCh>> /\ Goto(s, "finish")
    BY <1>6 DEF VerifyEmpty, TakeEof, Finish
  <2> QED
    BY <1>2, <1>3, <1>4, <2>1
<1>7. CASE DrainRest(s)
  <2>1. /\ pc[s] = "drain"
        /\ \/ TakeMessage(s) /\ UNCHANGED pc
           \/ UNCHANGED <<got, recvCh>> /\ Goto(s, "finish")
    BY <1>7 DEF DrainRest, TakeEof, Finish
  <2> QED
    BY <1>2, <1>3, <1>4, <2>1
<1>8. CASE ReceiveRequest(s)
  <2>1. /\ pc[s] = "recv"
        /\ TakeMessage(s) \/ UNCHANGED <<got, recvCh>>
        /\ Goto(s, "run")
    BY <1>8 DEF ReceiveRequest, TakeEof
  <2> QED
    BY <1>2, <1>3, <1>4, <2>1
<1>9. CASE CallReceive(s)
  <2>1. pc[s] = "run" /\ shape[s] \in ReadsMany /\ Goto(s, "recv") /\ UNCHANGED <<got, recvCh>>
    BY <1>9 DEF CallReceive, chanVars
  <2> QED
    BY <1>3, <1>4, <2>1
<1>10. CASE CallSend(s) \/ HandlerReturn(s)
  <2>1. /\ pc[s] = "run" /\ UNCHANGED <<got, recvCh>>
        /\ Goto(s, "send") \/ Goto(s, "finish")
    BY <1>10 DEF CallSend, HandlerReturn, Finish, chanVars
  <2> QED
    BY <1>3, <1>4, <2>1
<1>11. CASE WriteFrame(s) \/ SkipFrame(s)
  <2>1. /\ pc[s] \in {"send", "finish"} /\ UNCHANGED <<got, recvCh>>
        /\ Goto(s, IF pc[s] = "send" THEN "run"
                   ELSE IF Tail(pend[s]) = <<>> THEN "delete" ELSE "finish")
    BY <1>11 DEF WriteFrame, SkipFrame, AfterWrite, chanVars
  <2> QED
    BY <1>3, <1>4, <2>1
<1>12. CASE DeleteSession(s) \/ ReleaseSlot(s)
  <2>1. /\ pc[s] \in {"delete", "release"} /\ UNCHANGED <<got, recvCh>>
        /\ Goto(s, "release") \/ Goto(s, "done")
    BY <1>12 DEF DeleteSession, ReleaseSlot, chanVars
  <2> QED
    BY <1>3, <1>4, <2>1
<1> QED
  BY <1>5, <1>6, <1>7, <1>8, <1>9, <1>10, <1>11, <1>12 DEF Transport, Handler

(* No other step but the select of handleMessage touches the messages, and *)
(* none is routed to a session whose channel is closed.                    *)
LEMMA QuietMessages ==
  ASSUME IInv, MessageLocals,
         PeerFrame \/ Environment \/ Shutdown \/ Writer \/ UNCHANGED vars
           \/ CloseRecvCh \/ ReaderWrite
  PROVE  /\ \A t \in Sess : Seen(t)' = Seen(t) /\ Routed(t)' = Routed(t)
         /\ \A t \in Sess : t \in chClosed => t \in chClosed' /\ routed'[t] = routed[t]
         /\ \A t \in Sess : t \in closed => t \in closed'
         /\ reader'.at = "route" => routed'[reader'.s] > 0
         /\ reader'.at \in {"closeall", "wait", "flush", "returned"} => ctx' = "done"
<1>1. /\ routed \in [Sess -> Nat] /\ got \in [Sess -> Seq(Nat)] /\ recvCh \in [Sess -> Seq(Nat)]
      /\ sessions \in [Ids -> Sess \union {None}]
      /\ reader \in [at : ReaderAt, id : Ids \union {None}, s : Sess \union {None},
                     code : Codes \union Shapes \union {None}]
  BY DEF IInv, TypeOK, TableOK, ReaderOK, SessOK, ChanOK
<1>2. ASSUME UNCHANGED <<got, recvCh>>
      PROVE  \A t \in Sess : Seen(t)' = Seen(t)
  BY <1>2 DEF Seen
<1>3. CASE \E i \in Ids : ReadMessage(i)
  <2>1. PICK i \in Ids : ReadMessage(i)
    BY <1>3
  <2> DEFINE s == sessions[i]
  <2>2. reader.at = "read" /\ UNCHANGED <<ctx, got, recvCh, chClosed, closed>>
    BY <2>1 DEF ReadMessage, NextFrame, sessVars
  <2>3. CASE UNCHANGED routed /\ reader'.at \in {"read", "write"}
    BY <1>1, <1>2, <2>2, <2>3 DEF Routed
  <2>4. CASE /\ s # None /\ ~Late(s)
             /\ reader' = [Idle EXCEPT !.at = "route", !.s = s]
             /\ routed' = [routed EXCEPT ![s] = @ + 1]
    <3>1. s \in Sess /\ s \notin closed
      BY <1>1, <2>4 DEF Late
    <3>2. s \notin chClosed
      BY <2>2, <3>1 DEF IInv, ClosedChannels
    <3>3. reader'.at = "route" /\ reader'.s = s
      BY <2>4 DEF Idle
    <3>4. routed'[s] = routed[s] + 1 /\ \A t \in Sess : t # s => routed'[t] = routed[t]
      BY <1>1, <2>4, <3>1
    <3>5. \A t \in Sess : Routed(t)' = Routed(t)
      BY <1>1, <2>2, <3>1, <3>3, <3>4 DEF Routed
    <3>6. routed[s] \in Nat
      BY <1>1, <3>1
    <3> QED
      BY <1>2, <2>2, <3>2, <3>3, <3>4, <3>5, <3>6
  <2> QED
    <3>1. ASSUME Reject(i, "session_not_found") PROVE reader'.at = "write"
      BY <3>1 DEF Reject
    <3> QED
      BY <2>1, <2>2, <2>3, <2>4, <3>1 DEF ReadMessage
<1>4. ASSUME UNCHANGED <<got, recvCh, routed>>,
             reader' = reader \/ (reader.at # "route" /\ reader'.at # "route"),
             chClosed \subseteq chClosed', closed \subseteq closed',
             reader'.at \in {"closeall", "wait", "flush", "returned"} => ctx' = "done"
      PROVE  /\ \A t \in Sess : Seen(t)' = Seen(t) /\ Routed(t)' = Routed(t)
             /\ \A t \in Sess : t \in chClosed => t \in chClosed' /\ routed'[t] = routed[t]
             /\ \A t \in Sess : t \in closed => t \in closed'
             /\ reader'.at = "route" => routed'[reader'.s] > 0
             /\ reader'.at \in {"closeall", "wait", "flush", "returned"} => ctx' = "done"
  <2>1. \A t \in Sess : Routed(t)' = Routed(t)
    BY <1>4 DEF Routed
  <2> QED
    BY <1>2, <1>4, <2>1 DEF MessageLocals
<1>5. CASE PeerFrame /\ ~\E i \in Ids : ReadMessage(i)
  <2>1. reader.at = "read" /\ UNCHANGED <<ctx, got, recvCh, routed, chClosed>>
    BY <1>5 DEF PeerFrame, ReadIgnored, ReadOpen, ReadClose, ReadCancel, NextFrame, sessVars,
                chanVars
  <2>2. closed \subseteq closed' /\ reader'.at \in {"read", "write", "start", "close"}
    <3>1. ASSUME NEW i, NEW c, Reject(i, c) PROVE reader'.at = "write"
      BY <3>1 DEF Reject
    <3>2. ASSUME NEW i, NEW p, NEW sh, ReadOpen(i, p, sh)
          PROVE  UNCHANGED closed /\ reader'.at \in {"write", "start"}
      BY <3>1, <3>2 DEF ReadOpen, chanVars
    <3>3. ASSUME NEW i, ReadClose(i)
          PROVE  closed \subseteq closed' /\ reader'.at \in {"read", "close"}
      BY <2>1, <3>3 DEF ReadClose, Idle
    <3>4. ASSUME ReadIgnored \/ \E i \in Ids : ReadCancel(i)
          PROVE  UNCHANGED <<closed, reader>>
      BY <3>4 DEF ReadIgnored, ReadCancel, chanVars
    <3> QED
      BY <1>5, <2>1, <3>2, <3>3, <3>4 DEF PeerFrame
  <2> QED
    BY <1>4, <2>1, <2>2
<1>6. CASE Environment \/ Writer \/ UNCHANGED vars
  <2>1. UNCHANGED <<reader, got, recvCh, routed, chClosed, closed>>
        /\ (ctx' = ctx \/ ctx' = "done")
    BY <1>6 DEF Environment, Disconnect, BaseCancel, Writer, WriterTake, WriterWrote,
                WriterFailed, WriterDrain, WriterEnd, vars, envVars, sessVars, chanVars
  <2> QED
    BY <1>4, <2>1 DEF MessageLocals
<1>7. CASE Shutdown
  <2>1. /\ UNCHANGED <<got, recvCh, routed, closed>> /\ chClosed \subseteq chClosed'
        /\ ctx' = ctx \/ ctx' = "done"
    BY <1>7 DEF Shutdown, ReadFail, CancelContext, CloseAllSessions, CloseWriteCh, Return,
                envVars, sessVars, chanVars
  <2>2. /\ reader.at # "route" /\ reader'.at # "route"
        /\ reader'.at = "cancel" \/ ctx' = "done"
    BY <1>1, <1>7 DEF Shutdown, ReadFail, CancelContext, CloseAllSessions, CloseWriteCh, Return,
                      MessageLocals, envVars
  <2> QED
    BY <1>4, <2>1, <2>2
<1>8. CASE CloseRecvCh \/ ReaderWrite
  <2>1. /\ UNCHANGED <<got, recvCh, routed, closed>> /\ chClosed \subseteq chClosed'
        /\ reader.at \in {"close", "write"} /\ reader'.at = "read"
    BY <1>8 DEF CloseRecvCh, ReaderWrite, Idle, sessVars, chanVars
  <2> QED
    BY <1>4, <2>1
<1> QED
  BY <1>3, <1>5, <1>6, <1>7, <1>8

(* The select of handleMessage: the message goes to the end of the         *)
(* channel, or is dropped on top of RecvCap others.                        *)
LEMMA RouteMessages ==
  ASSUME IInv, MessageLocals, KeptInOrder, RouteMessage
  PROVE  /\ KeptInOrder'
         /\ \A t \in Sess : /\ Routed(t)' >= RecvCap => Len(Seen(t)') >= RecvCap
                            /\ \A k \in 1 .. Len(Seen(t)') : Seen(t)'[k] > 0
<1>0. reader.s \in Sess /\ \A t \in Sess : routed[t] \in Nat
  BY DEF IInv, ReaderLocals, TypeOK, ChanOK, RouteMessage
<1>s. PICK s \in Sess : s = reader.s
  BY <1>0
<1>n. PICK n \in Nat : n = routed[s]
  BY <1>0, <1>s
<1>1. /\ s = reader.s /\ n = routed[s] /\ n \in Nat /\ n > 0
      /\ reader.at = "route" /\ reader'.at = "read" /\ UNCHANGED <<got, routed>>
  BY <1>s, <1>n DEF IInv, ReaderLocals, TypeOK, ChanOK, RouteMessage, Idle, sessVars,
                    MessageLocals
<1>2. recvCh \in [Sess -> Seq(Nat)] /\ got \in [Sess -> Seq(Nat)]
  BY DEF IInv, TypeOK, ChanOK, SessOK
<1>3. \A t \in Sess : t # s => Seen(t)' = Seen(t) /\ Routed(t)' = Routed(t)
  <2>1. \A t \in Sess : t # s => recvCh'[t] = recvCh[t]
    BY <1>1, <1>2 DEF RouteMessage
  <2> QED
    BY <1>1, <2>1 DEF Seen, Routed
<1>4. Routed(s) = n - 1 /\ Routed(s)' = n
  BY <1>1 DEF Routed
<1>g. PICK g \in Seq(Nat), c \in Seq(Nat) : g = got[s] /\ c = recvCh[s]
  BY <1>2
<1>q. PICK q \in Seq(Nat) : q = g \o c /\ Len(q) = Len(g) + Len(c)
  BY Joined
<1>5. q \in Seq(Nat) /\ Len(q) \in Nat
  OBVIOUS
<1>6. q = Seen(s)
  BY <1>g, <1>q DEF Seen
<1>7. /\ \A a, b \in 1 .. Len(q) : a < b => q[a] < q[b]
      /\ \A k \in 1 .. Len(q) : q[k] <= n - 1 /\ q[k] > 0
      /\ n - 1 <= RecvCap => Len(q) = n - 1
      /\ n - 1 >= RecvCap => Len(q) >= RecvCap
  BY <1>1, <1>4, <1>6 DEF KeptInOrder, MessageLocals
<1>8. ASSUME NEW p, Seen(s)' = p, p \in Seq(Nat),
             \A a, b \in 1 .. Len(p) : a < b => p[a] < p[b],
             \A k \in 1 .. Len(p) : p[k] <= n /\ p[k] > 0,
             n <= RecvCap => Len(p) = n,
             n >= RecvCap => Len(p) >= RecvCap
      PROVE  /\ KeptInOrder'
             /\ \A t \in Sess : /\ Routed(t)' >= RecvCap => Len(Seen(t)') >= RecvCap
                                /\ \A k \in 1 .. Len(Seen(t)') : Seen(t)'[k] > 0
  <2>1. ASSUME NEW t \in Sess, t # s
        PROVE  /\ \A a, b \in 1 .. Len(Seen(t)') : a < b => Seen(t)'[a] < Seen(t)'[b]
               /\ \A k \in 1 .. Len(Seen(t)') : Seen(t)'[k] <= Routed(t)' /\ Seen(t)'[k] > 0
               /\ Routed(t)' <= RecvCap => Len(Seen(t)') = Routed(t)'
               /\ Routed(t)' >= RecvCap => Len(Seen(t)') >= RecvCap
    BY <1>3, <2>1 DEF KeptInOrder, MessageLocals
  <2> QED
    BY <1>4, <1>8, <2>1 DEF KeptInOrder
<1>9. CASE HasRoom(s)
  <2>1. Seen(s)' = Append(q, n)
    <3>1. recvCh'[s] = Append(c, n) /\ got'[s] = g
      BY <1>1, <1>2, <1>9, <1>g DEF RouteMessage
    <3>2. g \o Append(c, n) = Append(g \o c, n)
      BY PutAtTheEnd
    <3> QED
      BY <1>q, <3>1, <3>2 DEF Seen
  <2>2. /\ Append(q, n) \in Seq(Nat) /\ Len(Append(q, n)) = Len(q) + 1
        /\ Append(q, n)[Len(q) + 1] = n
        /\ \A k \in 1 .. Len(q) : Append(q, n)[k] = q[k]
    BY <1>1, <1>5, Appended
  <2> DEFINE p == Append(q, n)
  <2>3. \A k \in 1 .. Len(q) : q[k] \in Nat
    BY <1>5
  <2> HIDE DEF p
  <2>4. /\ p \in Seq(Nat) /\ Len(p) = Len(q) + 1 /\ p[Len(q) + 1] = n
        /\ \A k \in 1 .. Len(q) : p[k] = q[k]
    BY <2>2 DEF p
  <2>5. ASSUME NEW k \in 1 .. Len(p) PROVE p[k] <= n /\ p[k] > 0
    <3>1. CASE k \in 1 .. Len(q)
      <4>1. p[k] = q[k] /\ q[k] <= n - 1 /\ q[k] > 0 /\ q[k] \in Nat
        BY <1>7, <2>3, <2>4, <3>1
      <4> QED
        BY <1>1, <4>1
    <3>2. CASE k = Len(q) + 1
      BY <1>1, <2>4, <3>2
    <3> QED
      BY <1>5, <2>4, <3>1, <3>2
  <2>6. \A a, b \in 1 .. Len(p) : a < b => p[a] < p[b]
    <3> SUFFICES ASSUME NEW a \in 1 .. Len(p), NEW b \in 1 .. Len(p), a < b PROVE p[a] < p[b]
      OBVIOUS
    <3>1. a \in 1 .. Len(q) /\ p[a] = q[a]
      <4>1. a \in 1 .. Len(q) + 1 /\ b \in 1 .. Len(q) + 1 /\ a < b
        BY <2>4
      <4>2. a \in 1 .. Len(q)
        BY <1>5, <4>1
      <4> QED
        BY <2>4, <4>2
    <3>2. CASE b \in 1 .. Len(q)
      BY <1>7, <2>4, <3>1, <3>2
    <3>3. CASE b = Len(q) + 1
      <4>1. q[a] <= n - 1 /\ q[a] \in Nat
        BY <1>7, <2>3, <3>1
      <4>2. p[a] = q[a] /\ p[b] = n
        BY <2>4, <3>1, <3>3
      <4> QED
        BY <1>1, <4>1, <4>2
    <3>4. b \in 1 .. Len(q) \/ b = Len(q) + 1
      BY <1>5, <2>4
    <3> QED
      BY <3>2, <3>3, <3>4
  <2>7. (n <= RecvCap => Len(p) = n) /\ (n >= RecvCap => Len(p) >= RecvCap)
    BY <1>1, <1>5, <1>7, <2>4
  <2> QED
    BY <1>8, <2>1, <2>4, <2>5, <2>6, <2>7 DEF p
<1>10. CASE ~HasRoom(s)
  <2>1. Seen(s)' = q
    BY <1>1, <1>6, <1>10 DEF RouteMessage, Seen
  <2>2. Len(q) >= RecvCap
    <3>1. Len(c) >= RecvCap
      BY <1>10, <1>g DEF HasRoom
    <3> QED
      BY <1>q, <3>1
  <2>3. \A k \in 1 .. Len(q) : q[k] <= n
    BY <1>1, <1>5, <1>7
  <2> QED
    BY <1>1, <1>5, <1>7, <1>8, <2>1, <2>2, <2>3
<1> QED
  BY <1>9, <1>10

LEMMA MessagesStep ==
  ASSUME IInv, AnswerLocals, MessageLocals, KeptInOrder, RunsOnWholeRequest, [Next]_vars
  PROVE  MessageLocals' /\ KeptInOrder' /\ RunsOnWholeRequest'
<1> DEFINE Filled(t) == /\ Routed(t) >= RecvCap => Len(Seen(t)) >= RecvCap
                        /\ \A k \in 1 .. Len(Seen(t)) : Seen(t)[k] > 0
           Received(t) == /\ pc[t] \in {"new", "first"} => got[t] = <<>>
                          /\ pc[t] = "eof" => Len(got[t]) = 1
                          /\ pc[t] = "recv" => shape[t] \in ReadsMany
           Runs(t) == pc[t] \in {"run", "send"} /\ shape[t] \in OneRequest =>
                        /\ routed[t] = 1 /\ got[t] = <<1>>
                        /\ t \in chClosed /\ (t \in closed \/ ctx = "done")
<1>1. ASSUME \A t \in Sess : Seen(t)' = Seen(t) /\ Routed(t)' = Routed(t)
      PROVE  KeptInOrder' /\ \A t \in Sess : Filled(t)'
  BY <1>1 DEF KeptInOrder, MessageLocals
<1>2. /\ \A t \in Sess : Received(t) /\ Runs(t)
      /\ reader.at = "route" => routed[reader.s] > 0
      /\ reader.at \in {"closeall", "wait", "flush", "returned"} => ctx = "done"
  BY DEF MessageLocals, RunsOnWholeRequest
<1>3. SUFFICES /\ KeptInOrder' /\ \A t \in Sess : Filled(t)'
               /\ \A t \in Sess : Received(t)' /\ Runs(t)'
               /\ reader'.at = "route" => routed'[reader'.s] > 0
               /\ reader'.at \in {"closeall", "wait", "flush", "returned"} => ctx' = "done"
  BY DEF MessageLocals, RunsOnWholeRequest
<1>4. ASSUME Quiet,
             \A t \in Sess : t \in chClosed => t \in chClosed' /\ routed'[t] = routed[t],
             \A t \in Sess : t \in closed => t \in closed'
      PROVE  \A t \in Sess : Received(t)' /\ Runs(t)'
  BY <1>2, <1>4 DEF Quiet, sessVars
<1>5. ASSUME PeerFrame \/ Environment \/ Shutdown \/ Writer \/ UNCHANGED vars
               \/ CloseRecvCh \/ ReaderWrite
      PROVE  /\ KeptInOrder' /\ \A t \in Sess : Filled(t)'
             /\ \A t \in Sess : Received(t)' /\ Runs(t)'
             /\ reader'.at = "route" => routed'[reader'.s] > 0
             /\ reader'.at \in {"closeall", "wait", "flush", "returned"} => ctx' = "done"
  <2>1. Quiet
    BY <1>5, QuietSteps DEF IInv
  <2> HIDE DEF Filled, Received, Runs
  <2> QED
    BY <1>1, <1>4, <1>5, <2>1, QuietMessages
<1>6. CASE RouteMessage
  <2>1. Quiet
    BY <1>6, QuietSteps DEF IInv
  <2>2. UNCHANGED <<routed, chClosed, closed>> /\ reader'.at = "read"
    BY <1>6 DEF RouteMessage, Idle
  <2>3. KeptInOrder' /\ \A t \in Sess : Filled(t)'
    BY <1>6, RouteMessages
  <2> HIDE DEF Filled, Received, Runs
  <2> QED
    BY <1>4, <2>1, <2>2, <2>3
<1>7. CASE StartSession
  <2>1. /\ UNCHANGED <<ctx, got, chanVars>> /\ reader.at = "start"
        /\ reader'.at \in {"read", "write"}
    BY <1>7, StartSteps
  <2>2. PICK r \in Sess :
          /\ pc[r] = "new" /\ pc'[r] \in {"new", "first", "run"}
          /\ pc'[r] = "run" => shape'[r] \in ReadsMany
          /\ \A t \in Sess : t # r => UNCHANGED <<pc[t], shape[t]>>
    BY <1>7, StartSteps
  <2>3. \A t \in Sess : Seen(t)' = Seen(t) /\ Routed(t)' = Routed(t)
    BY <2>1 DEF chanVars, Seen, Routed
  <2>4. ASSUME NEW t \in Sess PROVE Received(t)' /\ Runs(t)'
    <3>1. CASE t = r
      BY <1>2, <2>1, <2>2, <3>1 DEF ReadsMany, OneRequest
    <3>2. CASE t # r
      BY <1>2, <2>1, <2>2, <3>2 DEF chanVars
    <3> QED
      BY <3>1, <3>2
  <2> QED
    BY <1>1, <2>1, <2>3, <2>4
<1>8. ASSUME NEW s \in Sess, Transport(s) \/ Handler(s)
      PROVE  /\ KeptInOrder' /\ \A t \in Sess : Filled(t)'
             /\ \A t \in Sess : Received(t)' /\ Runs(t)'
             /\ reader'.at = "route" => routed'[reader'.s] > 0
             /\ reader'.at \in {"closeall", "wait", "flush", "returned"} => ctx' = "done"
  <2>1. UNCHANGED <<ctx, reader, chClosed, closed, routed>>
    BY <1>8, SessionReader
  <2>2. UNCHANGED shape
    BY <1>8, SessionSteps DEF Silent, Queued, Left, Same
  <2>3. /\ \A t \in Sess : Seen(t)' = Seen(t)
        /\ \A t \in Sess : t # s => UNCHANGED <<pc[t], got[t]>>
        /\ pc[s] # "new" /\ pc'[s] \notin {"new", "first"}
        /\ pc'[s] = "eof" => pc[s] = "first" /\ \E e \in Nat : got'[s] = Append(got[s], e)
        /\ pc'[s] = "recv" => shape[s] \in ReadsMany
        /\ pc'[s] \in {"run", "send"} =>
             \/ pc[s] \in {"run", "send"} /\ got'[s] = got[s]
             \/ pc[s] = "recv"
             \/ pc[s] = "eof" /\ got'[s] = got[s] /\ recvCh[s] = <<>> /\ s \in chClosed
    BY <1>8, SessionMessages
  <2>4. \A t \in Sess : Routed(t)' = Routed(t)
    BY <2>1 DEF Routed
  <2>5. Received(s)'
    <3>1. ASSUME pc'[s] = "eof" PROVE Len(got'[s]) = 1
      <4>1. PICK e \in Nat : got'[s] = Append(<<>>, e)
        BY <1>2, <2>3, <3>1
      <4>2. <<>> \in Seq(Nat) /\ Len(<<>>) = 0
        OBVIOUS
      <4>3. Len(Append(<<>>, e)) = Len(<<>>) + 1
        BY <4>2, Appended
      <4> QED
        BY <4>1, <4>2, <4>3
    <3> QED
      BY <2>2, <2>3, <3>1
  <2>6. Runs(s)'
    <3> SUFFICES ASSUME pc'[s] \in {"run", "send"}, shape[s] \in OneRequest
                 PROVE  /\ routed[s] = 1 /\ got'[s] = <<1>>
                        /\ s \in chClosed /\ (s \in closed \/ ctx = "done")
      BY <2>1, <2>2
    <3>1. CASE pc[s] \in {"run", "send"} /\ got'[s] = got[s]
      BY <1>2, <3>1
    <3>2. CASE pc[s] = "recv"
      BY <1>2, <3>2 DEF ReadsMany, OneRequest
    <3>3. CASE pc[s] = "eof" /\ got'[s] = got[s] /\ recvCh[s] = <<>> /\ s \in chClosed
      <4>1. s \in closed \/ reader.at \in {"wait", "flush", "returned"}
        BY <3>3 DEF IInv, ClosedChannels
      <4>2. ~(reader.at = "route" /\ reader.s = s)
        BY <4>1 DEF IInv, ReaderLocals
      <4>3. got[s] \in Seq(Nat) /\ Len(got[s]) = 1 /\ routed[s] \in Nat
        BY <1>2, <3>3 DEF IInv, TypeOK, SessOK, ChanOK
      <4>4. Seen(s) = got[s] /\ Routed(s) = routed[s]
        <5>1. got[s] \o <<>> = got[s]
          BY <4>3
        <5> QED
          BY <3>3, <4>2, <4>3, <5>1 DEF Seen, Routed
      <4>5. routed[s] < RecvCap
        <5>1. Len(Seen(s)) = 1
          BY <4>3, <4>4
        <5>2. Routed(s) >= RecvCap => Len(Seen(s)) >= RecvCap
          BY DEF MessageLocals
        <5>3. Routed(s) = routed[s]
          BY <4>4
        <5> QED
          BY <4>3, <5>1, <5>2, <5>3
      <4>6. routed[s] = 1
        <5>1. Len(Seen(s)) = 1
          BY <4>3, <4>4
        <5>2. Routed(s) <= RecvCap
          BY <4>3, <4>4, <4>5
        <5> QED
          BY <4>4, <5>1, <5>2 DEF KeptInOrder
      <4>7. got[s][1] \in Nat /\ got[s][1] <= 1 /\ got[s][1] > 0
        BY <4>3, <4>4, <4>6 DEF KeptInOrder, MessageLocals
      <4>8. got[s] = <<1>>
        <5>1. <<1>> \in Seq(Nat) /\ Len(<<1>>) = 1 /\ <<1>>[1] = 1
          OBVIOUS
        <5>2. got[s][1] = 1
          BY <4>7
        <5>3. Len(got[s]) = Len(<<1>>) /\ \A k \in 1 .. Len(<<1>>) : got[s][k] = <<1>>[k]
          BY <4>3, <5>1, <5>2
        <5> QED
          BY <4>3, <5>1, <5>3, SameElements
      <4> QED
        BY <1>2, <3>3, <4>1, <4>6, <4>8
    <3> QED
      BY <2>3, <3>1, <3>2, <3>3
  <2>7. \A t \in Sess : t # s => Received(t)' /\ Runs(t)'
    BY <1>2, <2>1, <2>2, <2>3
  <2> HIDE DEF Filled, Received, Runs
  <2> QED
    BY <1>1, <1>2, <2>1, <2>3, <2>4, <2>5, <2>6, <2>7
<1> QED
  BY <1>5, <1>6, <1>7, <1>8 DEF Next, Reader, Returned

-----------------------------------------------------------------------------
(* With IInv and AnswerLocals, MessageInv is inductive: what a session may *)
(* answer rests on what it has received, and what it has received on the   *)
(* windows of the read loop that ReaderLocals and ClosedChannels close.    *)
THEOREM MessagesCorrect == Spec => []MessageInv
<1>1. Init => MessageInv
  <2> SUFFICES ASSUME Init PROVE MessageInv
    OBVIOUS
  <2>1. \A s \in Sess : Seen(s) = <<>> /\ Routed(s) = 0
    BY DEF Init, Seen, Routed, Idle
  <2>2. Len(<<>>) = 0
    OBVIOUS
  <2>3. KeptInOrder
    BY <2>1, <2>2 DEF KeptInOrder
  <2>4. MessageLocals
    BY <2>1, <2>2 DEF MessageLocals, Init, Idle
  <2>5. RunsOnWholeRequest /\ NotFoundAfterTerminal
    BY DEF Init, Idle, RunsOnWholeRequest, NotFoundAfterTerminal
  <2>6. RepliesWellFormed
    BY <2>2 DEF Init, RepliesWellFormed
  <2> QED
    BY <2>3, <2>4, <2>5, <2>6 DEF MessageInv
<1>2. IInv /\ AnswerLocals /\ MessageInv /\ [Next]_vars => MessageInv'
  BY RepliesStep, NotFoundStep, MessagesStep DEF MessageInv
<1> QED
  BY <1>1, <1>2, Invariance, AnswersCorrect, PTL DEF Spec

(* A unary or server-stream handler runs only on exactly one complete      *)
(* request, whatever was routed, dropped or closed before                  *)
(* (server.go:233-251, 517).                                               *)
THEOREM RequestsWhole == Spec => []RunsOnWholeRequest
<1>1. MessageInv => RunsOnWholeRequest
  BY DEF MessageInv
<1> QED
  BY <1>1, MessagesCorrect, PTL

(* The select of handleMessage, seen from every session.                   *)
LEMMA RouteDelivers ==
  ASSUME IInv, RouteMessage, NEW t \in Sess
  PROVE  Delivers(t)
<1>1. /\ reader.s \in Sess /\ routed[t] \in Nat
      /\ recvCh \in [Sess -> Seq(Nat)] /\ got \in [Sess -> Seq(Nat)]
      /\ Len(recvCh[t]) \in Nat
  <2>1. TypeOK /\ ReaderLocals /\ reader.at = "route"
    BY DEF IInv, RouteMessage
  <2>2. reader.s \in Sess
    BY <2>1 DEF ReaderLocals
  <2>3. got \in [Sess -> Seq(Nat)]
    BY <2>1 DEF TypeOK, SessOK
  <2>4. recvCh \in [Sess -> Seq(Nat)] /\ routed \in [Sess -> Nat]
    BY <2>1 DEF TypeOK, ChanOK
  <2> QED
    BY <2>2, <2>3, <2>4
<1>2. reader.at = "route" /\ reader'.at = "read" /\ UNCHANGED <<got, routed>>
  BY DEF RouteMessage, Idle, sessVars
<1>3. CASE t # reader.s
  <2>1. recvCh'[t] = recvCh[t]
    BY <1>1, <1>3 DEF RouteMessage
  <2> QED
    BY <1>2, <1>3, <2>1 DEF Delivers, Seen, Routed
<1>4. CASE t = reader.s
  <2>1. Routed(t)' = Routed(t) + 1 /\ Routed(t)' = routed[t]
    BY <1>1, <1>2, <1>4 DEF Routed
  <2>2. CASE HasRoom(t)
    <3>1. recvCh'[t] = Append(recvCh[t], routed[t]) /\ got'[t] = got[t]
      BY <1>1, <1>2, <1>4, <2>2 DEF RouteMessage
    <3>2. got[t] \o Append(recvCh[t], routed[t]) = Append(got[t] \o recvCh[t], routed[t])
      BY <1>1, PutAtTheEnd
    <3> QED
      BY <2>1, <3>1, <3>2 DEF Delivers, Seen
  <2>3. CASE ~HasRoom(t)
    <3>1. Seen(t)' = Seen(t)
      BY <1>2, <1>4, <2>3 DEF RouteMessage, Seen
    <3>2. Len(recvCh[t]) >= RecvCap
      BY <1>1, <2>3, ConstantsAssumption DEF HasRoom, ConstantsAssumption
    <3> QED
      BY <2>1, <3>1, <3>2 DEF Delivers
  <2> QED
    BY <2>2, <2>3
<1> QED
  BY <1>3, <1>4

(* No other step of any goroutine changes what a session has received or   *)
(* can still receive.                                                      *)
LEMMA StepDelivers ==
  ASSUME IInv, AnswerLocals, MessageLocals, [Next]_vars, NEW t \in Sess
  PROVE  Delivers(t)
<1>1. SUFFICES ASSUME ~RouteMessage
               PROVE  Seen(t)' = Seen(t) /\ Routed(t)' = Routed(t)
  BY RouteDelivers DEF Delivers
<1>2. CASE PeerFrame \/ Environment \/ Shutdown \/ Writer \/ UNCHANGED vars
             \/ CloseRecvCh \/ ReaderWrite
  BY <1>2, QuietMessages
<1>3. CASE StartSession
  <2>1. UNCHANGED <<got, chanVars>> /\ reader.at = "start" /\ reader'.at \in {"read", "write"}
    BY <1>3, StartSteps
  <2> QED
    BY <2>1 DEF chanVars, Seen, Routed
<1>4. ASSUME NEW s \in Sess, Transport(s) \/ Handler(s)
      PROVE  Seen(t)' = Seen(t) /\ Routed(t)' = Routed(t)
  <2>1. UNCHANGED <<reader, routed>>
    BY <1>4, SessionReader
  <2>2. Seen(t)' = Seen(t)
    BY <1>4, SessionMessages
  <2> QED
    BY <2>1, <2>2 DEF Routed
<1> QED
  BY <1>1, <1>2, <1>3, <1>4 DEF Next, Reader, Returned

(* Messages reach the handler in order and none twice; each is delivered,  *)
(* or dropped by handleMessage on a channel that is full at that moment    *)
(* (server.go:514-518).                                                    *)
THEOREM MessagesInOrder == Spec => DeliveredInOrder
<1>1. MessageInv => \A s \in Sess : Increasing(Seen(s))
  BY DEF MessageInv, KeptInOrder, Increasing
<1>2. IInv /\ AnswerLocals /\ MessageInv /\ [Next]_vars => [\A s \in Sess : Delivers(s)]_vars
  BY StepDelivers DEF MessageInv
<1> QED
  BY <1>1, <1>2, Invariance, AnswersCorrect, MessagesCorrect, PTL DEF Spec, DeliveredInOrder

(* A goroutine answers with messages and then one terminal frame before it *)
(* leaves the table, unless the connection is being torn down              *)
(* (server.go:255-280).                                                    *)
THEOREM RepliesCorrect == Spec => []RepliesWellFormed
<1>1. MessageInv => RepliesWellFormed
  BY DEF MessageInv
<1> QED
  BY <1>1, MessagesCorrect, PTL

(* "session not found" follows the terminal frame of every session that    *)
(* was opened under the id (server.go:502 against 478).                    *)
THEOREM NotFoundIsLast == Spec => []NotFoundAfterTerminal
<1>1. MessageInv => NotFoundAfterTerminal
  BY DEF MessageInv
<1> QED
  BY <1>1, MessagesCorrect, PTL

-----------------------------------------------------------------------------
(* What a handler that reads its request whole answers.                    *)

LEMMA GotStep ==
  ASSUME got \in [Sess -> Seq(Nat)], NEW s \in Sess, Transport(s) \/ Handler(s)
  PROVE  \A t \in Sess : t # s => got'[t] = got[t]
BY DEF Transport, Handler, RecvExactlyOne, VerifyEmpty, DrainRest, ReceiveRequest, WriteFrame,
       SkipFrame, DeleteSession, ReleaseSlot, CallReceive, CallSend, HandlerReturn, TakeMessage,
       TakeEof

LEMMA AnswersStep ==
  ASSUME IInv, AnswerLocals, MessageInv, AnswersRequest, [Next]_vars
  PROVE  AnswersRequest'
<1>1. /\ pc \in [Sess -> SessionAt] /\ pend \in [Sess -> Seq(Kinds)]
      /\ got \in [Sess -> Seq(Nat)] /\ replied \in [Sess -> Seq(Kinds)]
  BY DEF IInv, TypeOK, SessOK
<1>2. CASE Quiet
  BY <1>2 DEF Quiet, sessVars, AnswersRequest
<1>3. CASE StartSession
  <2>1. PICK r \in Sess :
          /\ pc[r] = "new" /\ replied[r] = <<>> /\ UNCHANGED <<got, replied>>
          /\ pc'[r] \in {"new", "first", "run"}
          /\ \A t \in Sess : t # r => UNCHANGED <<pc[t], shape[t]>>
    BY <1>3, StartSteps
  <2>2. UNCHANGED pend
    BY <1>3 DEF StartSession
  <2> QED
    BY <2>1, <2>2 DEF AnswersRequest
<1>4. ASSUME NEW s \in Sess, Transport(s) \/ Handler(s) PROVE AnswersRequest'
  <2>1. UNCHANGED shape /\ \A t \in Sess : t # s => UNCHANGED <<pc[t], pend[t], replied[t]>>
    BY <1>4, SessionSteps DEF Silent, Queued, Left, Same
  <2>2. \A t \in Sess : t # s => got'[t] = got[t]
    BY <1>1, <1>4, GotStep
  <2> DEFINE Good ==
        shape[s] \in OneRequest =>
          /\ replied'[s] # <<>> /\ Head(replied'[s]) = "message" =>
               /\ pc'[s] \in {"run", "send", "finish", "delete", "release", "done"}
               /\ got'[s] = <<1>>
          /\ pc'[s] = "finish" /\ Head(pend'[s]) = "message" => got'[s] = <<1>>
  <2> SUFFICES ASSUME shape[s] \in OneRequest PROVE Good
    BY <2>1, <2>2 DEF AnswersRequest
  <2>3. /\ replied[s] # <<>> /\ Head(replied[s]) = "message" =>
             pc[s] \in {"run", "send", "finish", "delete", "release", "done"} /\ got[s] = <<1>>
        /\ pc[s] = "finish" /\ Head(pend[s]) = "message" => got[s] = <<1>>
        /\ pc[s] \in {"run", "send"} => got[s] = <<1>>
    BY DEF AnswersRequest, MessageInv, RunsOnWholeRequest
  <2>4. shape[s] \notin ReadsMany /\ pc[s] # "recv"
    BY DEF OneRequest, ReadsMany, MessageInv, MessageLocals
  <2>5. Head(<<"error">>) # "message"
    OBVIOUS
  <2>6. CASE RecvExactlyOne(s) \/ VerifyEmpty(s) \/ DrainRest(s)
    <3>1. pc[s] \in {"first", "eof", "drain"} /\ replied'[s] = replied[s]
      BY <2>6 DEF RecvExactlyOne, VerifyEmpty, DrainRest
    <3>2. pc'[s] # "finish" \/ pend'[s] = <<"error">>
      BY <1>1, <2>6, <3>1 DEF RecvExactlyOne, VerifyEmpty, DrainRest, Goto, Finish
    <3> QED
      BY <2>3, <2>5, <3>1, <3>2
  <2>7. CASE CallSend(s) \/ HandlerReturn(s)
    <3>1. pc[s] = "run" /\ pc'[s] \in {"send", "finish"} /\ UNCHANGED <<got, replied>>
      BY <1>1, <2>7 DEF CallSend, HandlerReturn, Goto, Finish
    <3> QED
      BY <2>3, <3>1
  <2>8. CASE WriteFrame(s) \/ SkipFrame(s)
    <3>1. Queued(s) /\ got' = got
      <4>1. got' = got /\ pc[s] \in {"send", "finish"}
        BY <2>8 DEF WriteFrame, SkipFrame
      <4> QED
        BY <1>4, <4>1, SessionSteps DEF Silent, Left
    <3>2. pc'[s] \in {"run", "delete", "finish"}
      BY <3>1 DEF Queued
    <3>3. /\ replied'[s] = replied[s] \/ replied'[s] = Append(replied[s], Head(pend[s]))
          /\ replied[s] \in Seq(Kinds) /\ Head(pend[s]) \in Kinds
      BY <1>1, <3>1 DEF Queued
    <3>4. replied'[s] = replied[s] \/ Head(replied'[s]) = IF replied[s] = <<>> THEN Head(pend[s])
                                                         ELSE Head(replied[s])
      BY <3>3
    <3>5. /\ pc[s] \in {"send", "finish"} /\ pend'[s] = Tail(pend[s])
          /\ pc'[s] = "finish" => pc[s] = "finish" /\ pend'[s] # <<>>
      BY <3>1 DEF Queued
    <3>6. got[s] = <<1>> \/ (pc[s] = "finish" /\ Head(pend[s]) # "message")
      BY <2>3, <3>5
    <3>7. pc'[s] = "finish" => Head(pend'[s]) # "message"
      <4>1. \/ pend[s] = <<"error">> \/ pend[s] = <<"close">> \/ pend[s] = <<"message", "close">>
            \/ pc[s] = "send"
        BY <3>1 DEF AnswerLocals, Queued
      <4>2. pend'[s] = <<>> \/ pend'[s] = <<"close">> \/ pc[s] = "send"
        <5>1. /\ Tail(<<"error">>) = <<>> /\ Tail(<<"close">>) = <<>>
              /\ Tail(<<"message", "close">>) = <<"close">>
          OBVIOUS
        <5> QED
          BY <3>5, <4>1, <5>1
      <4>3. Head(<<"close">>) # "message"
        OBVIOUS
      <4> QED
        BY <3>5, <4>2, <4>3
    <3> QED
      BY <2>3, <3>1, <3>2, <3>4, <3>6, <3>7
  <2>9. CASE DeleteSession(s) \/ ReleaseSlot(s)
    <3>1. /\ pc[s] \in {"delete", "release"} /\ pc'[s] \in {"release", "done"}
          /\ UNCHANGED <<got, replied>>
      BY <1>1, <2>9 DEF DeleteSession, ReleaseSlot, Goto
    <3> QED
      BY <2>3, <3>1
  <2> QED
    BY <1>4, <2>4, <2>6, <2>7, <2>8, <2>9 DEF Transport, Handler, CallReceive, ReceiveRequest
<1> QED
  BY <1>2, <1>3, <1>4, Steps

(* A unary or server-stream handler has received exactly its one request   *)
(* when it answers (server.go:56-104, 233-260).                            *)
THEOREM AnswersCorrectly == Spec => []AnswersRequest
<1>1. Init => AnswersRequest
  BY DEF Init, AnswersRequest
<1>2. IInv /\ AnswerLocals /\ MessageInv /\ AnswersRequest /\ [Next]_vars => AnswersRequest'
  BY AnswersStep
<1> QED
  BY <1>1, <1>2, Invariance, AnswersCorrect, MessagesCorrect, PTL DEF Spec
=============================================================================
