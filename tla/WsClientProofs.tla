--------------------------- MODULE WsClientProofs ---------------------------
(* Theorems about WsClient, for every value of its constants.              *)
EXTENDS WsClientProperties, SequenceLemmas, TLAPS

USE ClientAssumption

(* The initial state of a connection satisfies the inductive invariant.    *)
LEMMA InitIInv == Init => IInv
<1> SUFFICES ASSUME Init PROVE IInv
  OBVIOUS
<1>1. TypeOK
  BY DEF Init, Idle, Kinds, Out, CallAt, TypeOK, EnvOK, LoopsOK, ChannelsOK, CallsOK, ContextsOK,
         OutOK, PeerOK
<1>2. LoopsBeforeCloser /\ HeldFrames /\ IdleCalls /\ Outcomes /\ TableExact /\ WaitersReleased
  BY DEF Init, Idle, LoopsBeforeCloser, HeldFrames, IdleCalls, NotMade, Outcomes, TableExact,
         WaitersReleased
<1>3. ASSUME NEW c \in Calls PROVE Seen(c) = <<>>
  BY DEF Init, Seen, Numbers
<1>4. DeliveredWithoutGap
  BY <1>3 DEF Init, Idle, DeliveredWithoutGap
<1> QED
  BY <1>1, <1>2, <1>4 DEF IInv

-----------------------------------------------------------------------------
(* A group of variables that a step leaves alone keeps its type.           *)
LEMMA Unchanged ==
  ASSUME TypeOK
  PROVE  /\ UNCHANGED envVars => EnvOK'
         /\ UNCHANGED loopVars => LoopsOK'
         /\ UNCHANGED chanVars => ChannelsOK'
         /\ UNCHANGED callVars => CallsOK'
         /\ UNCHANGED ctxVars => ContextsOK'
         /\ UNCHANGED outVars => OutOK'
         /\ UNCHANGED peerVars => PeerOK'
BY DEF TypeOK, EnvOK, LoopsOK, ChannelsOK, CallsOK, ContextsOK, OutOK, PeerOK,
       envVars, loopVars, chanVars, callVars, ctxVars, outVars, peerVars

(* The steps of the environment and of the three loops keep the types.     *)
LEMMA TypeLoops ==
  ASSUME TypeOK, HeldFrames, Environment \/ Reader \/ Writer \/ Closer
  PROVE  TypeOK'
<1> USE Unchanged DEF TypeOK
<1>1. CASE Environment
  BY <1>1 DEF Environment, Disconnect, BaseCancel, CallerCancel, EnvOK, ContextsOK
<1>2. ASSUME NEW c \in Calls, NEW k \in Kinds, ReadFrame(c, k)
      PROVE  TypeOK'
  <2>1. PeerOK'
    BY <1>2 DEF ReadFrame, PeerOK
  <2>2. LoopsOK'
    BY <1>2, <2>1 DEF ReadFrame, LoopsOK, PeerOK, Idle, Kinds
  <2> QED
    BY <1>2, <2>1, <2>2 DEF ReadFrame
<1>3. CASE Deliver
  <2> DEFINE f == [n |-> reader.n, kind |-> reader.kind]
  <2>1. reader.call \in Calls /\ f \in Received
    BY <1>3 DEF Deliver, HeldFrames, LoopsOK, Received
  <2>2. recvCh \in [Calls -> Seq(Received)]
        /\ recvCh' = [recvCh EXCEPT ![reader.call] = Append(@, f)]
    BY <1>3 DEF Deliver, ChannelsOK
  <2> HIDE DEF f
  <2>3. recvCh' \in [Calls -> Seq(Received)]
    BY <2>1, <2>2
  <2>4. ASSUME NEW c \in Calls PROVE Len(recvCh'[c]) <= RecvCap
    <3>1. CASE c = reader.call
      <4>1. recvCh'[c] = Append(recvCh[c], f) /\ Len(recvCh[c]) < RecvCap
        BY <1>3, <2>1, <2>2, <3>1 DEF Deliver, HasRoom
      <4>2. Len(recvCh'[c]) = Len(recvCh[c]) + 1
        BY <2>1, <2>2, <4>1
      <4> QED
        BY <2>2, <4>1, <4>2
    <3>2. CASE c # reader.call
      BY <2>2, <3>2 DEF ChannelsOK
    <3> QED
      BY <3>1, <3>2
  <2>5. ChannelsOK'
    BY <1>3, <2>3, <2>4 DEF Deliver, ChannelsOK
  <2>6. LoopsOK'
    BY <1>3 DEF Deliver, LoopsOK, Idle, Kinds
  <2> QED
    BY <1>3, <2>5, <2>6 DEF Deliver
<1>4. CASE ReadLoopEnds
  BY <1>4 DEF ReadLoopEnds, EnvOK, LoopsOK, Idle, Kinds
<1>5. CASE WriterTake
  <2>1. LoopsOK'
    <3>1. Head(writeCh) \in Queued
      BY <1>5 DEF WriterTake, OutOK
    <3> QED
      BY <1>5, <3>1 DEF WriterTake, LoopsOK, Queued
  <2>2. OutOK'
    BY <1>5 DEF WriterTake, OutOK
  <2> QED
    BY <1>5, <2>1, <2>2 DEF WriterTake
<1>6. CASE WriterWrote
  <2>1. LoopsOK'
    BY <1>6 DEF WriterWrote, LoopsOK, Out
  <2>2. PeerOK'
    BY <1>6 DEF WriterWrote, HeldFrames, PeerOK
  <2> QED
    BY <1>6, <2>1, <2>2 DEF WriterWrote
<1>7. CASE WriteLoopEnds
  BY <1>7 DEF WriteLoopEnds, LoopsOK, Out
<1>8. CASE Closer
  BY <1>8 DEF Closer, CloseSessions, CloseDone, LoopsOK, ChannelsOK
<1> QED
  BY <1>1, <1>2, <1>3, <1>4, <1>5, <1>6, <1>7, <1>8 DEF Reader, Writer

(* The sequences of frames that a call passes to send.                     *)
LEMMA SeqsOfOut ==
  /\ <<>> \in Seq(Out) /\ <<"open", "message", "close">> \in Seq(Out)
  /\ \A k \in {"open", "message", "close", "cancel"} : <<k>> \in Seq(Out)
BY DEF Out

(* The steps of a call and of its user keep the types.                     *)
LEMMA TypeCall ==
  ASSUME TypeOK, NEW c \in Calls,
         Sending(c) \/ Receiving(c) \/ CancelStream(c) \/ User(c)
  PROVE  TypeOK'
<1> USE Unchanged DEF TypeOK
<1>1. CASE SendFrame(c)
  <2>1. Head(snd[c]) \in Out /\ Tail(snd[c]) \in Seq(Out)
    BY <1>1 DEF SendFrame, CallsOK
  <2>2. OutOK'
    <3>1. writeCh' = Append(writeCh, [call |-> c, kind |-> Head(snd[c])])
          /\ Len(writeCh) < WriteCap
      BY <1>1 DEF SendFrame
    <3>2. [call |-> c, kind |-> Head(snd[c])] \in Queued
      BY <2>1 DEF Queued
    <3>3. writeCh' \in Seq(Queued) /\ Len(writeCh') <= WriteCap
      BY <3>1, <3>2 DEF OutOK
    <3>4. queued' \in [Calls -> Seq(Out)]
      BY <1>1, <2>1 DEF SendFrame, OutOK
    <3> QED
      BY <3>3, <3>4 DEF OutOK
  <2>3. CallsOK'
    BY <1>1, <2>1 DEF SendFrame, AllSent, CallsOK, CallAt
  <2> QED
    BY <1>1, <2>2, <2>3 DEF SendFrame
<1> DEFINE Pass(e) == snd' = [snd EXCEPT ![c] = e]
<1>2. ASSUME NEW e \in Seq(Out), Pass(e) PROVE snd' \in [Calls -> Seq(Out)]
  BY <1>2 DEF CallsOK
<1>3. CASE SendFails(c) \/ MarshalFails(c)
  <2>1. Pass(<<>>)
    BY <1>3 DEF SendFails, MarshalFails
  <2>2. snd' \in [Calls -> Seq(Out)]
    BY <1>2, <2>1, SeqsOfOut
  <2>3. CallsOK'
    BY <1>3, <2>2 DEF SendFails, MarshalFails, CallsOK, CallAt
  <2> QED
    BY <1>3, <2>3 DEF SendFails, MarshalFails
<1>4. CASE NewSession(c)
  <2>1. Opening(c) \in Seq(Out)
    BY SeqsOfOut DEF Opening
  <2>2. CallsOK'
    BY <1>4, <2>1 DEF NewSession, CallsOK, CallAt
  <2>3. ChannelsOK'
    BY <1>4 DEF NewSession, ChannelsOK
  <2> QED
    BY <1>4, <2>2, <2>3 DEF NewSession
<1>5. ASSUME Fail(c)
      PROVE  /\ pc' \in [Calls -> CallAt] /\ snd' \in [Calls -> Seq(Out)]
             /\ result' \in [Calls -> {"none", "ok", "err"}]
  BY <1>5, SeqsOfOut DEF Fail, CallsOK, CallAt
<1>6. CASE TakeFrame(c)
  <2>1. /\ Head(recvCh[c]) \in Received
        /\ Tail(recvCh[c]) \in Seq(Received) /\ Len(Tail(recvCh[c])) <= RecvCap
    BY <1>6 DEF TakeFrame, ChannelsOK
  <2>2. got' \in [Calls -> Seq(Nat)]
    BY <1>6, <2>1 DEF TakeFrame, CallsOK, Received
  <2>3. Succeed(c) \/ Fail(c) \/ UNCHANGED <<pc, snd, result>>
    BY <1>6 DEF TakeFrame
  <2>4. CallsOK'
    BY <1>5, <1>6, <2>2, <2>3 DEF TakeFrame, Succeed, CallsOK, CallAt
  <2>5. ChannelsOK'
    BY <1>6, <2>1 DEF TakeFrame, ChannelsOK
  <2> QED
    BY <1>6, <2>4, <2>5 DEF TakeFrame
<1>7. CASE GiveUp(c)
  BY <1>5, <1>7 DEF GiveUp, CallsOK
<1>8. CASE RemoveSession(c) \/ CallReceive(c) \/ CloseStream(c)
  BY <1>8 DEF RemoveSession, CallReceive, CloseStream, CallsOK, CallAt, ChannelsOK
<1>9. CASE CancelStream(c)
  BY <1>9, SeqsOfOut DEF CancelStream, CallsOK, ContextsOK
<1>10. CASE CallSend(c) \/ CloseAndReceive(c)
  <2>1. \E k \in {"message", "close"} : Pass(<<k>>)
    BY <1>10 DEF CallSend, CloseAndReceive
  <2>2. snd' \in [Calls -> Seq(Out)]
    BY <1>2, <2>1, SeqsOfOut
  <2>3. CallsOK'
    BY <1>10, <2>2 DEF CallSend, CloseAndReceive, CallsOK, CallAt
  <2> QED
    BY <1>10, <2>3 DEF CallSend, CloseAndReceive
<1> QED
  BY <1>1, <1>3, <1>4, <1>6, <1>7, <1>8, <1>9, <1>10 DEF Sending, Receiving, User

(* Every step of the connection keeps the variables in their types.        *)
LEMMA TypeStep ==
  ASSUME TypeOK, HeldFrames, [Next]_vars
  PROVE  TypeOK'
<1>1. CASE UNCHANGED vars
  BY <1>1, Unchanged DEF TypeOK, vars
<1> QED
  BY <1>1, TypeLoops, TypeCall DEF Next
-----------------------------------------------------------------------------
(* Only the loops themselves leave their loops, and only then the closer   *)
(* closes the channels.                                                    *)
LEMMA LoopsStep ==
  ASSUME TypeOK, LoopsBeforeCloser, [Next]_vars
  PROVE  LoopsBeforeCloser'
<1> USE DEF LoopsBeforeCloser
<1>1. CASE UNCHANGED <<loopVars, chanVars>>
  BY <1>1 DEF loopVars, chanVars
<1>2. CASE UNCHANGED vars
  BY <1>1, <1>2 DEF vars
<1>3. CASE Environment
  BY <1>1, <1>3 DEF Environment, Disconnect, BaseCancel, CallerCancel
<1>4. CASE Reader
  BY <1>4 DEF Reader, ReadFrame, Deliver, ReadLoopEnds, chanVars
<1>5. CASE Writer
  BY <1>5 DEF Writer, WriterTake, WriterWrote, WriteLoopEnds, chanVars
<1>6. CASE Closer
  BY <1>6 DEF Closer, CloseSessions, CloseDone, LoopsDone, chanVars
<1>7. ASSUME NEW c \in Calls, Sending(c) \/ Receiving(c) \/ CancelStream(c) \/ User(c)
      PROVE  UNCHANGED <<loopVars, recvClosed>>
  BY <1>7 DEF Sending, SendFrame, SendFails, Receiving, TakeFrame, GiveUp, RemoveSession,
              CancelStream, User, NewSession, MarshalFails, CallReceive, CallSend,
              CloseAndReceive, CloseStream, chanVars
<1> QED
  BY <1>2, <1>3, <1>4, <1>5, <1>6, <1>7 DEF Next, loopVars

-----------------------------------------------------------------------------
(* The state of the calls against the table and the closed channels.       *)
CallStates == Outcomes /\ TableExact /\ WaitersReleased

LEMMA CallStatesLoops ==
  ASSUME TypeOK, LoopsBeforeCloser, CallStates,
         Environment \/ Reader \/ Writer \/ Closer
  PROVE  CallStates'
<1> USE DEF CallStates, Outcomes, TableExact, WaitersReleased
<1>1. UNCHANGED callVars
  BY DEF Environment, Disconnect, BaseCancel, CallerCancel, Reader, ReadFrame, Deliver,
         ReadLoopEnds, Writer, WriterTake, WriterWrote, WriteLoopEnds, Closer, CloseSessions,
         CloseDone
<1>2. CASE CloseSessions
  BY <1>1, <1>2 DEF CloseSessions, callVars, ctxVars, TypeOK, CallsOK
<1>3. CASE CloseDone
  BY <1>1, <1>3 DEF CloseDone, callVars, ctxVars, chanVars
<1>4. CASE Environment \/ Reader \/ Writer
  <2>1. UNCHANGED <<closer, sessions, recvClosed, cancelled>>
    BY <1>4 DEF Environment, Disconnect, BaseCancel, CallerCancel, Reader, ReadFrame, Deliver,
         ReadLoopEnds, Writer, WriterTake, WriterWrote, WriteLoopEnds, loopVars, chanVars,
         ctxVars
  <2> QED
    BY <1>1, <2>1 DEF callVars
<1> QED
  BY <1>2, <1>3, <1>4 DEF Closer

LEMMA CallStatesCall ==
  ASSUME TypeOK, IdleCalls, CallStates, NEW c \in Calls,
         Sending(c) \/ Receiving(c) \/ CancelStream(c) \/ User(c)
  PROVE  CallStates'
<1> USE DEF CallStates, Outcomes, TableExact, WaitersReleased
<1> USE DEF CallsOK, CallAt, TypeOK
<1>1. CASE SendFrame(c)
  BY <1>1 DEF SendFrame, AllSent, loopVars, chanVars, ctxVars
<1>2. CASE SendFails(c)
  BY <1>2 DEF SendFails, loopVars, chanVars, ctxVars
<1>3. CASE MarshalFails(c)
  BY <1>3 DEF MarshalFails, loopVars, chanVars, ctxVars
<1>4. CASE NewSession(c)
  BY <1>4 DEF NewSession, IdleCalls, NotMade, loopVars, chanVars, ctxVars
<1>5. CASE TakeFrame(c)
  <2>1. /\ pc[c] = "recv"
        /\ Succeed(c) \/ Fail(c) \/ UNCHANGED <<pc, snd, result>>
        /\ UNCHANGED <<closer, sessions, recvClosed, closing, cancelled, orphans>>
    BY <1>5 DEF TakeFrame, loopVars, ctxVars
  <2>2. CASE Succeed(c)
    BY <2>1, <2>2 DEF Succeed
  <2>3. CASE Fail(c)
    BY <2>1, <2>3 DEF Fail
  <2>4. CASE UNCHANGED <<pc, snd, result>>
    BY <2>1, <2>4
  <2> QED
    BY <2>1, <2>2, <2>3, <2>4
<1>6. CASE GiveUp(c)
  BY <1>6 DEF GiveUp, Fail, loopVars, chanVars, ctxVars
<1>7. CASE RemoveSession(c)
  BY <1>7 DEF RemoveSession, loopVars, chanVars, ctxVars
<1>8. CASE CallReceive(c)
  BY <1>8 DEF CallReceive, loopVars, chanVars, ctxVars
<1>9. CASE CallSend(c)
  BY <1>9 DEF CallSend, loopVars, chanVars, ctxVars
<1>10. CASE CloseAndReceive(c)
  BY <1>10 DEF CloseAndReceive, loopVars, chanVars, ctxVars
<1>11. CASE CloseStream(c)
  BY <1>11 DEF CloseStream, Handed, loopVars, chanVars, ctxVars
<1>12. CASE CancelStream(c)
  BY <1>12 DEF CancelStream, loopVars, chanVars, ctxVars
<1> QED
  BY <1>1, <1>2, <1>3, <1>4, <1>5, <1>6, <1>7, <1>8, <1>9, <1>10, <1>11, <1>12
  DEF Sending, Receiving, User
-----------------------------------------------------------------------------
(* The frame numbers in a receive channel, when a frame is taken from it,  *)
(* and when one is put into it.                                            *)
LEMMA NumbersOf ==
  ASSUME NEW ch \in Seq(Received)
  PROVE  Numbers(ch) \in Seq(Nat) /\ Len(Numbers(ch)) = Len(ch)
<1>1. \A f \in Received : f.n \in Nat
  BY DEF Received
<1>2. Numbers(ch) \in [1 .. Len(ch) -> Nat]
  BY <1>1 DEF Numbers
<1> QED
  BY <1>2, Listed

LEMMA NumbersOfTail ==
  ASSUME NEW ch \in Seq(Received), ch # <<>>
  PROVE  /\ Numbers(ch) # <<>> /\ Head(Numbers(ch)) = Head(ch).n
         /\ Numbers(Tail(ch)) = Tail(Numbers(ch))
<1>1. Numbers(ch) \in Seq(Nat) /\ Len(Numbers(ch)) = Len(ch)
  BY NumbersOf
<1>2. /\ Len(ch) > 0 /\ Head(ch) = ch[1]
      /\ Tail(ch) \in Seq(Received) /\ Len(Tail(ch)) = Len(ch) - 1
      /\ \A k \in 1 .. Len(ch) - 1 : Tail(ch)[k] = ch[k + 1]
  BY HeadTail
<1>3. Numbers(ch) # <<>>
  BY <1>1, <1>2
<1>4. /\ Head(Numbers(ch)) = Numbers(ch)[1]
      /\ Tail(Numbers(ch)) \in Seq(Nat) /\ Len(Tail(Numbers(ch))) = Len(ch) - 1
      /\ \A k \in 1 .. Len(ch) - 1 : Tail(Numbers(ch))[k] = Numbers(ch)[k + 1]
  BY <1>1, <1>3, HeadTail
<1>5. Head(Numbers(ch)) = Head(ch).n
  BY <1>2, <1>4 DEF Numbers
<1>6. Numbers(Tail(ch)) \in Seq(Nat) /\ Len(Numbers(Tail(ch))) = Len(ch) - 1
  BY <1>2, NumbersOf
<1>7. ASSUME NEW k \in 1 .. Len(ch) - 1 PROVE Numbers(Tail(ch))[k] = Tail(Numbers(ch))[k]
  BY <1>2, <1>4 DEF Numbers
<1>8. Numbers(Tail(ch)) = Tail(Numbers(ch))
  BY <1>4, <1>6, <1>7, SameElements
<1> QED
  BY <1>3, <1>5, <1>8

LEMMA NumbersOfAppend ==
  ASSUME NEW ch \in Seq(Received), NEW f \in Received
  PROVE  f.n \in Nat /\ Numbers(Append(ch, f)) = Append(Numbers(ch), f.n)
<1>1. f.n \in Nat
  BY DEF Received
<1>2. Numbers(ch) \in Seq(Nat) /\ Len(Numbers(ch)) = Len(ch)
  BY NumbersOf
<1>3. /\ Append(ch, f) \in Seq(Received) /\ Len(Append(ch, f)) = Len(ch) + 1
      /\ Append(ch, f)[Len(ch) + 1] = f
      /\ \A k \in 1 .. Len(ch) : Append(ch, f)[k] = ch[k]
  BY Appended
<1>4. /\ Append(Numbers(ch), f.n) \in Seq(Nat)
      /\ Len(Append(Numbers(ch), f.n)) = Len(ch) + 1
      /\ Append(Numbers(ch), f.n)[Len(ch) + 1] = f.n
      /\ \A k \in 1 .. Len(ch) : Append(Numbers(ch), f.n)[k] = Numbers(ch)[k]
  BY <1>1, <1>2, Appended
<1>5. Numbers(Append(ch, f)) \in Seq(Nat) /\ Len(Numbers(Append(ch, f))) = Len(ch) + 1
  BY <1>3, NumbersOf
<1>6. ASSUME NEW k \in 1 .. Len(ch) + 1
      PROVE  Numbers(Append(ch, f))[k] = Append(Numbers(ch), f.n)[k]
  <2>1. Numbers(Append(ch, f))[k] = Append(ch, f)[k].n
    BY <1>3 DEF Numbers
  <2>2. CASE k = Len(ch) + 1
    BY <1>3, <1>4, <2>1, <2>2
  <2>3. CASE k \in 1 .. Len(ch)
    <3>1. Numbers(ch)[k] = ch[k].n
      BY <2>3 DEF Numbers
    <3> QED
      BY <1>3, <1>4, <2>1, <2>3, <3>1
  <2> QED
    BY <1>2, <2>2, <2>3
<1>7. Numbers(Append(ch, f)) = Append(Numbers(ch), f.n)
  BY <1>4, <1>5, <1>6, SameElements
<1> QED
  BY <1>1, <1>7

(* The frames a call has seen, under the two steps.                        *)
LEMMA SeenStep ==
  ASSUME NEW g \in Seq(Nat), NEW ch \in Seq(Received)
  PROVE  /\ g \o Numbers(ch) \in Seq(Nat)
         /\ ch # <<>> => Append(g, Head(ch).n) \o Numbers(Tail(ch)) = g \o Numbers(ch)
         /\ \A f \in Received :
              g \o Numbers(Append(ch, f)) = Append(g \o Numbers(ch), f.n)
<1>1. Numbers(ch) \in Seq(Nat)
  BY NumbersOf
<1>2. g \o Numbers(ch) \in Seq(Nat)
  BY <1>1
<1>3. ASSUME ch # <<>>
      PROVE  Append(g, Head(ch).n) \o Numbers(Tail(ch)) = g \o Numbers(ch)
  <2>1. /\ Numbers(ch) # <<>> /\ Head(Numbers(ch)) = Head(ch).n
        /\ Numbers(Tail(ch)) = Tail(Numbers(ch))
    BY <1>3, NumbersOfTail
  <2>2. Append(g, Head(Numbers(ch))) \o Tail(Numbers(ch)) = g \o Numbers(ch)
    BY <1>1, <2>1, TakenIsMoved
  <2> QED
    BY <2>1, <2>2
<1>4. ASSUME NEW f \in Received
      PROVE  g \o Numbers(Append(ch, f)) = Append(g \o Numbers(ch), f.n)
  <2>1. f.n \in Nat /\ Numbers(Append(ch, f)) = Append(Numbers(ch), f.n)
    BY NumbersOfAppend
  <2>2. g \o Append(Numbers(ch), f.n) = Append(g \o Numbers(ch), f.n)
    BY <1>1, <2>1, PutAtTheEnd
  <2> QED
    BY <2>1, <2>2
<1> QED
  BY <1>2, <1>3, <1>4
-----------------------------------------------------------------------------
(* What the steps do to frames: what a call has seen, what is held for it, *)
(* and what is counted.                                                    *)
Frames == HeldFrames /\ IdleCalls /\ DeliveredWithoutGap

(* A call's own step leaves its frames alone, or moves one from the        *)
(* channel to the call.                                                    *)
LEMMA SeenKept ==
  ASSUME TypeOK, NEW c \in Calls, NEW d \in Calls,
         Sending(d) \/ Receiving(d) \/ CancelStream(d) \/ User(d)
  PROVE  Seen(c)' = Seen(c)
<1>1. ASSUME UNCHANGED <<got, recvCh>> PROVE Seen(c)' = Seen(c)
  BY <1>1 DEF Seen
<1>2. CASE TakeFrame(d)
  <2>1. got[d] \in Seq(Nat) /\ recvCh[d] \in Seq(Received) /\ recvCh[d] # <<>>
    BY <1>2 DEF TypeOK, CallsOK, ChannelsOK, TakeFrame
  <2>2. /\ got' = [got EXCEPT ![d] = Append(@, Head(recvCh[d]).n)]
        /\ recvCh' = [recvCh EXCEPT ![d] = Tail(@)]
    BY <1>2 DEF TakeFrame
  <2>3. got \in [Calls -> Seq(Nat)] /\ recvCh \in [Calls -> Seq(Received)]
    BY DEF TypeOK, CallsOK, ChannelsOK
  <2>4. CASE c = d
    <3>1. got'[c] = Append(got[c], Head(recvCh[c]).n) /\ recvCh'[c] = Tail(recvCh[c])
      BY <2>2, <2>3, <2>4
    <3>2. Append(got[c], Head(recvCh[c]).n) \o Numbers(Tail(recvCh[c]))
            = got[c] \o Numbers(recvCh[c])
      BY <2>1, <2>4, SeenStep
    <3> QED
      BY <3>1, <3>2 DEF Seen
  <2>5. CASE c # d
    BY <2>2, <2>3, <2>5 DEF Seen
  <2> QED
    BY <2>4, <2>5
<1>3. CASE ~TakeFrame(d)
  <2>1. UNCHANGED <<got, recvCh>>
    BY <1>3 DEF Sending, SendFrame, SendFails, Receiving, GiveUp, RemoveSession, CancelStream,
         User, NewSession, MarshalFails, CallReceive, CallSend, CloseAndReceive, CloseStream,
         chanVars
  <2> QED
    BY <1>1, <2>1
<1> QED
  BY <1>2, <1>3

LEMMA FramesCall ==
  ASSUME TypeOK, Frames, TableExact, NEW d \in Calls,
         Sending(d) \/ Receiving(d) \/ CancelStream(d) \/ User(d)
  PROVE  Frames'
<1> USE DEF TypeOK
<1>1. \A c \in Calls : Seen(c)' = Seen(c)
  BY SeenKept
<1>2. UNCHANGED <<loopVars, peerVars>>
  BY DEF Sending, SendFrame, SendFails, Receiving, TakeFrame, GiveUp, RemoveSession,
         CancelStream, User, NewSession, MarshalFails, CallReceive, CallSend,
         CloseAndReceive, CloseStream
<1>3. \A c \in Calls : pc'[c] = "idle" => pc[c] = "idle" /\ c # d
  BY DEF CallsOK, IdleCalls, NotMade, Frames, Sending, SendFrame, SendFails, AllSent, Receiving, TakeFrame,
         Succeed, Fail, GiveUp, RemoveSession, CancelStream, User, NewSession, MarshalFails,
         CallReceive, CallSend, CloseAndReceive, CloseStream, Handed
<1>4. HeldFrames'
  <2>1. CASE reader.at = "deliver"
    BY <1>1, <1>2, <1>3, <2>1 DEF Frames, HeldFrames, loopVars
  <2>2. CASE reader.at # "deliver"
    BY <1>2, <2>2 DEF Frames, HeldFrames, loopVars
  <2> QED
    BY <2>1, <2>2
<1>5. ASSUME NEW c \in Calls, pc'[c] = "idle" PROVE NotMade(c)'
  <2>1. pc[c] = "idle" /\ c # d /\ NotMade(c)
    BY <1>3, <1>5 DEF Frames, IdleCalls
  <2>2. got'[c] = got[c] /\ recvCh'[c] = recvCh[c] /\ snd'[c] = snd[c]
        /\ closing'[c] = closing[c]
    BY <2>1 DEF CallsOK, ChannelsOK, Sending, SendFrame, SendFails, Receiving, TakeFrame,
         Succeed, Fail, GiveUp, RemoveSession, CancelStream, User, NewSession, MarshalFails,
         CallReceive, CallSend, CloseAndReceive, CloseStream, chanVars
  <2>3. \A k \in 1 .. Len(writeCh') : writeCh'[k].call # c
    <3>1. CASE UNCHANGED outVars
      BY <2>1, <3>1 DEF NotMade, outVars
    <3>2. CASE SendFrame(d)
      <4> DEFINE f == [call |-> d, kind |-> Head(snd[d])]
      <4>1. writeCh \in Seq(Queued) /\ writeCh' = Append(writeCh, f) /\ f \in Queued
        BY <3>2, HeadTail DEF OutOK, SendFrame, Queued, CallsOK
      <4>2. f.call = d
        OBVIOUS
      <4> HIDE DEF f
      <4>3. /\ Len(writeCh') = Len(writeCh) + 1 /\ writeCh'[Len(writeCh) + 1] = f
            /\ \A k \in 1 .. Len(writeCh) : writeCh'[k] = writeCh[k]
        BY <4>1, Appended
      <4> QED
        BY <2>1, <4>1, <4>2, <4>3 DEF NotMade
    <3> QED
      BY <3>1, <3>2 DEF Sending, SendFails, Receiving, TakeFrame, GiveUp, RemoveSession,
         CancelStream, User, NewSession, MarshalFails, CallReceive, CallSend,
         CloseAndReceive, CloseStream
  <2> QED
    BY <1>2, <2>1, <2>2, <2>3 DEF NotMade, loopVars, peerVars
<1>6. ASSUME NEW c \in Calls
      PROVE  \/ c \in sessions' => c \in sessions
             \/ pc[c] = "idle"
  BY DEF Sending, SendFrame, SendFails, Receiving, TakeFrame, GiveUp, RemoveSession,
         CancelStream, User, NewSession, MarshalFails, CallReceive, CallSend,
         CloseAndReceive, CloseStream, chanVars
<1>7. ASSUME NEW c \in Calls, pc[c] = "idle"
      PROVE  /\ Len(Seen(c)) = 0 /\ sent[c] = 0
             /\ reader.at = "deliver" => reader.call # c
  <2>1. NotMade(c)
    BY <1>7 DEF Frames, IdleCalls
  <2>2. Numbers(<<>>) = <<>>
    BY DEF Numbers
  <2>3. Seen(c) = <<>>
    BY <2>1, <2>2 DEF NotMade, Seen
  <2> QED
    BY <1>7, <2>1, <2>3 DEF NotMade, Frames, HeldFrames
<1>8. DeliveredWithoutGap'
  BY <1>1, <1>2, <1>6, <1>7 DEF Frames, DeliveredWithoutGap, loopVars, peerVars
<1> QED
  BY <1>4, <1>5, <1>8 DEF Frames, IdleCalls

(* The loops: the read loop counts a frame, looks its call up, and later   *)
(* puts it behind those the call has seen.                                 *)
LEMMA FramesLoops ==
  ASSUME TypeOK, TypeOK', LoopsBeforeCloser, Frames,
         Environment \/ Reader \/ Writer \/ Closer
  PROVE  Frames'
<1> USE DEF TypeOK
<1>1. UNCHANGED callVars
  BY DEF Environment, Disconnect, BaseCancel, CallerCancel, Reader, ReadFrame, Deliver,
         ReadLoopEnds, Writer, WriterTake, WriterWrote, WriteLoopEnds, Closer, CloseSessions,
         CloseDone
<1>2. ASSUME UNCHANGED recvCh, NEW c \in Calls PROVE Seen(c)' = Seen(c)
  BY <1>1, <1>2 DEF Seen, callVars
<1>3. CASE Environment
  <2>1. UNCHANGED <<loopVars, recvCh, sessions, outVars, peerVars>>
    BY <1>3 DEF Environment, Disconnect, BaseCancel, CallerCancel, chanVars
  <2>2. HeldFrames'
    BY <1>1, <1>2, <2>1 DEF Frames, HeldFrames, loopVars, callVars
  <2>3. IdleCalls'
    BY <1>1, <2>1 DEF Frames, IdleCalls, NotMade, loopVars, callVars, outVars, peerVars
  <2>4. DeliveredWithoutGap'
    BY <1>2, <2>1 DEF Frames, DeliveredWithoutGap, loopVars, peerVars
  <2> QED
    BY <2>2, <2>3, <2>4 DEF Frames
<1>4. ASSUME NEW c \in Calls, NEW k \in Kinds, ReadFrame(c, k)
      PROVE  Frames'
  <2>1. /\ UNCHANGED <<writer, closer, chanVars, outVars, opened>>
        /\ reader.at = "read" /\ c \in opened
        /\ sent' = [sent EXCEPT ![c] = @ + 1]
        /\ reader' = IF c \in sessions
                     THEN [at |-> "deliver", call |-> c, n |-> sent'[c], kind |-> k]
                     ELSE Idle
    BY <1>4 DEF ReadFrame
  <2>2. pc[c] # "idle"
    BY <2>1 DEF Frames, IdleCalls, NotMade
  <2>3. \A d \in Calls : Seen(d)' = Seen(d)
    BY <1>2, <2>1 DEF chanVars
  <2>4. sent'[c] = sent[c] + 1 /\ \A d \in Calls : d # c => sent'[d] = sent[d]
    BY <2>1 DEF PeerOK
  <2>5. c \in sessions => Len(Seen(c)) = sent[c]
    BY <2>1 DEF Frames, DeliveredWithoutGap, PeerOK
  <2>6. HeldFrames'
    BY <1>1, <2>1, <2>2, <2>3, <2>4, <2>5 DEF Frames, HeldFrames, Idle, callVars
  <2>7. IdleCalls'
    BY <1>1, <2>1, <2>2, <2>4 DEF Frames, IdleCalls, NotMade, callVars, chanVars, outVars
  <2>8. ASSUME NEW d \in Calls, d \in sessions'
        PROVE  Len(Seen(d)') + (IF reader'.at = "deliver" /\ reader'.call = d THEN 1 ELSE 0)
                 = sent'[d]
    <3>1. d \in sessions /\ Len(Seen(d)) = sent[d] /\ sent[d] \in Nat
      BY <2>1, <2>8 DEF chanVars, Frames, DeliveredWithoutGap, PeerOK
    <3> QED
      BY <2>1, <2>3, <2>4, <2>8, <3>1 DEF Idle
  <2>9. DeliveredWithoutGap'
    BY <2>3, <2>8 DEF Frames, DeliveredWithoutGap
  <2> QED
    BY <2>6, <2>7, <2>9 DEF Frames
<1>5. CASE Deliver
  <2> DEFINE f == [n |-> reader.n, kind |-> reader.kind]
  <2>1. PICK d \in Calls :
        /\ reader.at = "deliver" /\ reader' = Idle
        /\ d = reader.call /\ pc[d] # "idle" /\ reader.n = Len(Seen(d)) + 1
        /\ recvCh' = [recvCh EXCEPT ![d] = Append(@, f)]
        /\ UNCHANGED <<writer, closer, sessions, outVars, peerVars>>
    BY <1>5 DEF Deliver, Frames, HeldFrames
  <2>2. f \in Received /\ f.n = reader.n
    BY DEF LoopsOK, Received
  <2> HIDE DEF f
  <2>3. recvCh \in [Calls -> Seq(Received)] /\ \A c \in Calls : got[c] \in Seq(Nat)
    BY DEF ChannelsOK, CallsOK
  <2>4. Seen(d) \in Seq(Nat) /\ Seen(d)' = Append(Seen(d), reader.n)
    <3>1. recvCh'[d] = Append(recvCh[d], f) /\ got'[d] = got[d]
      BY <1>1, <2>1, <2>3 DEF callVars
    <3>2. got[d] \in Seq(Nat) /\ recvCh[d] \in Seq(Received)
      BY <2>3
    <3>3. /\ got[d] \o Numbers(recvCh[d]) \in Seq(Nat)
          /\ got[d] \o Numbers(Append(recvCh[d], f)) = Append(got[d] \o Numbers(recvCh[d]), f.n)
      BY <2>2, <3>2, SeenStep
    <3> QED
      BY <2>2, <3>1, <3>3 DEF Seen
  <2>5. ASSUME NEW c \in Calls, c # d PROVE recvCh'[c] = recvCh[c] /\ Seen(c)' = Seen(c)
    BY <1>1, <2>1, <2>3, <2>5 DEF Seen, callVars
  <2>6. /\ Len(Seen(d)') = Len(Seen(d)) + 1 /\ Seen(d)'[Len(Seen(d)) + 1] = reader.n
        /\ \A k \in 1 .. Len(Seen(d)) : Seen(d)'[k] = Seen(d)[k]
    <3>1. reader.n \in Nat
      BY DEF LoopsOK
    <3> QED
      BY <2>4, <3>1, Appended
  <2>7. HeldFrames'
    BY <2>1 DEF Frames, HeldFrames, Idle
  <2>8. IdleCalls'
    BY <1>1, <2>1, <2>5 DEF Frames, IdleCalls, NotMade, callVars, outVars, peerVars
  <2>9. ASSUME NEW c \in Calls
        PROVE  /\ \A k \in 1 .. Len(Seen(c)') : Seen(c)'[k] = k
               /\ c \in sessions' => Len(Seen(c)') = sent'[c]
    <3>1. CASE c = d
      <4>1. /\ \A k \in 1 .. Len(Seen(d)) : Seen(d)[k] = k
            /\ d \in sessions => Len(Seen(d)) + 1 = sent[d]
        BY <2>1 DEF Frames, DeliveredWithoutGap
      <4>2. Len(Seen(d)) \in Nat
        BY <2>4
      <4> QED
        BY <2>1, <2>6, <3>1, <4>1, <4>2 DEF peerVars
    <3>2. CASE c # d
      <4>1. Len(Seen(c)) \in Nat
        BY <2>3, SeenStep DEF Seen
      <4> QED
        BY <2>1, <2>5, <3>2, <4>1 DEF Frames, DeliveredWithoutGap, peerVars
    <3> QED
      BY <3>1, <3>2
  <2>10. DeliveredWithoutGap'
    BY <2>1, <2>3, <2>9 DEF DeliveredWithoutGap, Idle, PeerOK
  <2> QED
    BY <2>7, <2>8, <2>10 DEF Frames
<1>6. CASE ReadLoopEnds
  <2>1. reader'.at = "done" /\ UNCHANGED <<writer, recvCh, outVars, peerVars>>
    BY <1>6 DEF ReadLoopEnds, Idle, chanVars
  <2> QED
    BY <1>1, <1>2, <2>1 DEF Frames, HeldFrames, IdleCalls, NotMade, DeliveredWithoutGap, callVars,
                            outVars, peerVars
<1>7. CASE Writer
  <2>1. UNCHANGED <<reader, chanVars, sent>>
    BY <1>7 DEF Writer, WriterTake, WriterWrote, WriteLoopEnds, peerVars
  <2>2. DeliveredWithoutGap'
    BY <1>2, <2>1 DEF Frames, DeliveredWithoutGap, chanVars
  <2>3. reader.at = "deliver" => Seen(reader.call)' = Seen(reader.call)
    BY <1>2, <2>1 DEF chanVars, Frames, HeldFrames
  <2>4. CASE WriterTake
    <3>1. /\ writeCh \in Seq(Queued) /\ writeCh # <<>>
          /\ writer' = [at |-> "writing", call |-> Head(writeCh).call,
                        kind |-> Head(writeCh).kind]
          /\ writeCh' = Tail(writeCh) /\ UNCHANGED opened
      BY <2>4 DEF WriterTake, OutOK, peerVars
    <3>2. /\ Head(writeCh) = writeCh[1] /\ Head(writeCh) \in Queued /\ Len(writeCh) > 0
          /\ Len(writeCh') = Len(writeCh) - 1
          /\ \A k \in 1 .. Len(writeCh) - 1 : writeCh'[k] = writeCh[k + 1]
      BY <3>1, HeadTail
    <3>3. HeldFrames'
      BY <1>1, <2>1, <2>3, <3>1, <3>2 DEF Frames, HeldFrames, callVars, Queued
    <3>4. ASSUME NEW c \in Calls, pc'[c] = "idle" PROVE NotMade(c)'
      <4>1. NotMade(c)
        BY <1>1, <3>4 DEF Frames, IdleCalls, callVars
      <4>2. \A k \in 1 .. Len(writeCh') : writeCh'[k].call # c
        BY <3>1, <3>2, <4>1 DEF NotMade
      <4> QED
        BY <1>1, <2>1, <3>1, <3>2, <4>1, <4>2 DEF NotMade, callVars, chanVars
    <3> QED
      BY <2>2, <3>3, <3>4 DEF Frames, IdleCalls
  <2>5. CASE WriterWrote \/ WriteLoopEnds
    <3>1. writer'.at # "writing" /\ UNCHANGED writeCh
          /\ opened' \subseteq opened \union ({writer.call} \cap {x \in Calls : writer.at = "writing"})
      BY <2>5 DEF WriterWrote, WriteLoopEnds, outVars, peerVars, Frames, HeldFrames
    <3>2. HeldFrames'
      BY <1>1, <2>1, <2>3, <3>1 DEF Frames, HeldFrames, callVars
    <3>3. IdleCalls'
      BY <1>1, <2>1, <3>1 DEF Frames, IdleCalls, NotMade, callVars, chanVars
    <3> QED
      BY <2>2, <3>2, <3>3 DEF Frames
  <2> QED
    BY <1>7, <2>4, <2>5 DEF Writer
<1>8. CASE Closer
  <2>1. UNCHANGED <<reader, writer, recvCh, outVars, peerVars>> /\ reader.at = "done"
    BY <1>8 DEF Closer, CloseSessions, CloseDone, LoopsDone, LoopsBeforeCloser, chanVars
  <2> QED
    BY <1>1, <1>2, <2>1 DEF Frames, HeldFrames, IdleCalls, NotMade, DeliveredWithoutGap, callVars,
                            outVars, peerVars
<1> QED
  BY <1>3, <1>4, <1>5, <1>6, <1>7, <1>8 DEF Reader
-----------------------------------------------------------------------------
(* Every step of the client preserves the inductive invariant.             *)
LEMMA StepIInv == IInv /\ [Next]_vars => IInv'
<1> SUFFICES ASSUME IInv, [Next]_vars PROVE IInv'
  OBVIOUS
<1> USE DEF IInv
<1>1. TypeOK'
  BY TypeStep
<1>2. LoopsBeforeCloser'
  BY LoopsStep
<1>3. CASE UNCHANGED vars
  <2>1. CallStates'
    BY <1>3 DEF CallStates, Outcomes, TableExact, WaitersReleased, vars, loopVars, chanVars,
                callVars, ctxVars
  <2>2. UNCHANGED <<loopVars, chanVars, callVars, outVars, peerVars>>
    BY <1>3 DEF vars
  <2>3. \A c \in Calls : Seen(c)' = Seen(c)
    BY <2>2 DEF Seen, chanVars, callVars
  <2>4. HeldFrames' /\ DeliveredWithoutGap'
    BY <2>2, <2>3 DEF HeldFrames, DeliveredWithoutGap, loopVars, chanVars, callVars, peerVars
  <2>5. IdleCalls'
    BY <2>2 DEF IdleCalls, NotMade, loopVars, chanVars, callVars, outVars, peerVars
  <2> QED
    BY <1>1, <1>2, <2>1, <2>4, <2>5 DEF CallStates
<1>4. CASE Environment \/ Reader \/ Writer \/ Closer
  BY <1>1, <1>2, <1>4, CallStatesLoops, FramesLoops DEF CallStates, Frames
<1>5. ASSUME NEW c \in Calls, Sending(c) \/ Receiving(c) \/ CancelStream(c) \/ User(c)
      PROVE  IInv'
  BY <1>1, <1>2, <1>5, CallStatesCall, FramesCall DEF CallStates, Frames
<1> QED
  BY <1>3, <1>4, <1>5 DEF Next

(* The inductive invariant holds at all times on every client connection.  *)
THEOREM Invariance == Spec => []IInv
BY InitIInv, StepIInv, PTL DEF Spec

-----------------------------------------------------------------------------
(* Every variable of a client connection keeps its type, and no channel    *)
(* takes more frames than its capacity (client.go:16-36).                  *)
THEOREM TypeCorrect == Spec => []TypeOK
<1>1. IInv => TypeOK
  BY DEF IInv
<1> QED
  BY <1>1, Invariance, PTL

(* The read loop never sends on a closed receive channel: the closer waits *)
(* for it before it closes them (client.go:66-70, 133-139).                *)
THEOREM ClosedRecvChSafe == Spec => []NoSendOnClosedRecvCh
<1>1. IInv => NoSendOnClosedRecvCh
  BY DEF IInv, LoopsBeforeCloser, NoSendOnClosedRecvCh
<1> QED
  BY <1>1, Invariance, PTL

(* The session table holds exactly the calls in progress and the streams   *)
(* that are open, on every path out of a call (call.go:16-18,              *)
(* client_stream.go:63-69, 95).                                            *)
THEOREM TableIsExact == Spec => []TableExact
<1>1. IInv => TableExact
  BY DEF IInv
<1> QED
  BY <1>1, Invariance, PTL

(* The end of the connection leaves no call of its table waiting for a     *)
(* frame that cannot come (client.go:65-74, client_stream.go:68-70).       *)
THEOREM EndReleasesWaiters == Spec => []WaitersReleased
<1>1. IInv => WaitersReleased
  BY DEF IInv
<1> QED
  BY <1>1, Invariance, PTL

(* A call sees its own frames from the first on, in order and without a    *)
(* gap, however slow it and its neighbours are (client.go:132-142).        *)
THEOREM NothingDropped == Spec => []DeliveredWithoutGap
<1>1. IInv => DeliveredWithoutGap
  BY DEF IInv
<1> QED
  BY <1>1, Invariance, PTL

(* A call that has its outcome keeps it and takes no further frame         *)
(* (client_stream.go:53-63, 109-127).                                      *)
THEOREM OutcomeIsFinal == Spec => TerminalSticks
<1> DEFINE Final == \A c \in Calls :
             result[c] # "none" => got'[c] = got[c] /\ result'[c] = result[c]
<1>1. ASSUME IInv, [Next]_vars PROVE Final
  <2>1. CASE UNCHANGED callVars
    BY <2>1 DEF callVars
  <2>2. ASSUME NEW d \in Calls, NEW c \in Calls, result[c] # "none",
               Sending(d) \/ Receiving(d) \/ CancelStream(d) \/ User(d)
        PROVE  got'[c] = got[c] /\ result'[c] = result[c]
    <3>1. /\ pc[c] \in {"cancelling", "cleanup", "done"}
          /\ pc[c] = "cancelling" => result[c] = "err"
      BY <1>1, <2>2 DEF IInv, Outcomes
    <3>2. got \in [Calls -> Seq(Nat)] /\ result \in [Calls -> {"none", "ok", "err"}]
      BY <1>1 DEF IInv, TypeOK, CallsOK
    <3> QED
      BY <2>2, <3>1, <3>2
      DEF Sending, SendFrame, SendFails, Receiving, TakeFrame, Succeed, Fail, GiveUp,
          RemoveSession, CancelStream, User, NewSession, MarshalFails, CallReceive, CallSend,
          CloseAndReceive, CloseStream
  <2>3. CASE UNCHANGED vars
    BY <2>1, <2>3 DEF vars
  <2>4. CASE Environment \/ Reader \/ Writer \/ Closer
    <3>1. UNCHANGED callVars
      BY <2>4 DEF Environment, Disconnect, BaseCancel, CallerCancel, Reader, ReadFrame,
         Deliver, ReadLoopEnds, Writer, WriterTake, WriterWrote, WriteLoopEnds, Closer,
         CloseSessions, CloseDone
    <3> QED
      BY <2>1, <3>1
  <2> QED
    BY <1>1, <2>2, <2>3, <2>4 DEF Next
<1>2. IInv /\ [Next]_vars => [Final]_vars
  BY <1>1
<1>3. [][IInv /\ [Next]_vars]_vars => [][Final]_vars
  BY <1>2, PTL
<1> QED
  BY <1>3, Invariance, PTL DEF Spec, TerminalSticks
=============================================================================
