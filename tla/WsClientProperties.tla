------------------------- MODULE WsClientProperties -------------------------
(* What must hold of one client connection: the type invariant and the     *)
(* safety, action and liveness properties of WsClient.                     *)
EXTENDS WsClient

Received == [n : Nat, kind : Kinds]
Queued   == [call : Calls, kind : Out]

CallAt == {"idle", "opening", "stream", "finishing", "recv", "cancelling", "cleanup", "done"}

EnvOK == conn \in {"up", "down"} /\ ctx \in {"live", "done"}
LoopsOK ==
  /\ reader \in [at : {"read", "deliver", "done"}, call : Calls \union {NoCall},
                 n : Nat, kind : Kinds]
  /\ writer \in [at : {"idle", "writing", "done"}, call : Calls \union {NoCall}, kind : Out]
  /\ closer \in {"wait", "closing", "closed"}
ChannelsOK ==
  /\ sessions \subseteq Calls /\ recvClosed \subseteq Calls
  /\ recvCh \in [Calls -> Seq(Received)]
  /\ \A c \in Calls : Len(recvCh[c]) <= RecvCap
CallsOK ==
  /\ pc \in [Calls -> CallAt]
  /\ snd \in [Calls -> Seq(Out)]
  /\ result \in [Calls -> {"none", "ok", "err"}]
  /\ closing \in [Calls -> {"no", "removed", "done"}]
  /\ got \in [Calls -> Seq(Nat)] /\ orphans \subseteq Calls
ContextsOK == dead \subseteq Calls /\ cancelled \subseteq Calls
OutOK ==
  /\ writeCh \in Seq(Queued) /\ Len(writeCh) <= WriteCap
  /\ queued \in [Calls -> Seq(Out)]
PeerOK == sent \in [Calls -> Nat] /\ opened \subseteq Calls

(* Every variable ranges over the values the code gives it, and no channel *)
(* holds more than its capacity (client.go:16-36).                         *)
TypeOK == EnvOK /\ LoopsOK /\ ChannelsOK /\ CallsOK /\ ContextsOK /\ OutOK /\ PeerOK

(* The read loop never sends on a receive channel that the closer has      *)
(* closed, which would panic: the lookup under mu and the send are apart,  *)
(* so only the wait for both loops prevents it (client.go:66-70, 133-139). *)
NoSendOnClosedRecvCh == reader.at = "deliver" => reader.call \notin recvClosed

(* The numbers of the frames the call has taken or can take.               *)
Numbers(ch) == [k \in 1 .. Len(ch) |-> ch[k].n]
Seen(c) == got[c] \o Numbers(recvCh[c])

(* A call receives its own frames, in the order the server sent them, and  *)
(* as long as it is in the table every one: nothing is dropped, whoever    *)
(* else is slow (client.go:132-142).                                       *)
DeliveredWithoutGap ==
  \A c \in Calls :
    LET held == IF reader.at = "deliver" /\ reader.call = c THEN 1 ELSE 0 IN
    /\ \A k \in 1 .. Len(Seen(c)) : Seen(c)[k] = k
    /\ c \in sessions /\ reader.at \in {"read", "deliver"} => Len(Seen(c)) + held = sent[c]

(* While the connection lives the table holds exactly the calls that have  *)
(* not ended and streams that have not been closed: no path out of a call  *)
(* leaves its session behind (call.go:16-18, client_stream.go:63-69, 95).  *)
TableExact ==
  \A c \in Calls :
    c \in sessions <=> /\ closer = "wait"
                       /\ pc[c] \notin {"idle", "done"}
                       /\ closing[c] = "no"

(* Once the table is gone, whoever waits for a frame has its channel       *)
(* closed, is cancelled or about to be -- or made its call after the end   *)
(* of the connection (client.go:65-74, client_stream.go:68-70).            *)
WaitersReleased ==
  closer # "wait" =>
    \A c \in Calls : pc[c] \in {"opening", "stream", "finishing", "recv"} =>
      c \in recvClosed \/ closing[c] = "removed" \/ c \in cancelled \/ c \in orphans

(* The first error of a stream is final: no later Receive takes another    *)
(* frame or changes the outcome (client_stream.go:53-63, 109-127).         *)
TerminalSticks ==
  [][\A c \in Calls : result[c] # "none" => got'[c] = got[c] /\ result'[c] = result[c]]_vars

(* Nobody reads the channel of the call: it is still sending, it is over,  *)
(* or the user has closed its stream.                                      *)
Unread(c) ==
  /\ pc[c] # "recv"
  /\ ShapeOf[c] \in Receives => closing[c] # "no" \/ result[c] # "none"

(* The read loop waits for room in such a channel (client.go:138).         *)
Overrun ==
  ctx = "live" /\ reader.at = "deliver" /\ ~HasRoom(reader.call) /\ Unread(reader.call)

(* Once the connection or its context has ended, a call returns, whether   *)
(* it is sending or waiting for its answer (client.go:38-40, 148-149, 179; *)
(* client_stream.go:147-149).  Two things alone can keep it: the call was  *)
(* made when the table was gone (CallAfterCloseEnds), or the read loop is  *)
(* held for ever by a channel nobody reads and never notices the end       *)
(* (LoopsEndAfterClose).                                                   *)
InCall(c) == pc[c] \in {"opening", "finishing", "recv", "cancelling"}
PendingCallsEnd ==
  \A c \in Calls :
    InCall(c) /\ (conn = "down" \/ ctx = "done") ~> ~InCall(c) \/ c \in orphans \/ []Overrun

(* The loops run until the connection is closed: so they end when it is,   *)
(* once the user has closed the stream (client.go:38-40).                  *)
LoopsEndAfterClose ==
  \A c \in Calls : (conn = "down" /\ closing[c] = "done") ~> reader.at = "done"

(* A call made after Close returns an error rather than hanging            *)
(* (integration_test.go:2799-2801).                                        *)
CallAfterCloseEnds ==
  \A c \in Calls : (closer = "closed" /\ pc[c] = "opening") ~> pc[c] = "done"
-----------------------------------------------------------------------------
(* The inductive invariant behind the safety properties.                   *)

(* The closer waits for both loops, and only it closes receive channels.   *)
LoopsBeforeCloser ==
  /\ closer # "wait" => reader.at = "done" /\ writer.at = "done"
  /\ closer = "wait" => recvClosed = {}

(* The frame the read loop holds is the next one of a call in progress,    *)
(* and the one being written is a call's.                                  *)
HeldFrames ==
  /\ reader.at = "deliver" =>
       /\ reader.call \in Calls /\ pc[reader.call] # "idle"
       /\ reader.n = Len(Seen(reader.call)) + 1
  /\ writer.at = "writing" => writer.call \in Calls

(* A call that has not been made has left no trace anywhere.               *)
NotMade(c) ==
  /\ c \notin opened /\ sent[c] = 0 /\ got[c] = <<>> /\ recvCh[c] = <<>>
  /\ snd[c] = <<>> /\ closing[c] = "no"
  /\ \A k \in 1 .. Len(writeCh) : writeCh[k].call # c
  /\ writer.at = "writing" => writer.call # c
IdleCalls == \A c \in Calls : pc[c] = "idle" => NotMade(c)

(* A call has its outcome from its first error or result on, and a stream  *)
(* that Close has dealt with is cancelled.                                 *)
Outcomes ==
  \A c \in Calls :
    /\ result[c] # "none" <=> pc[c] \in {"cancelling", "cleanup", "done"}
    /\ pc[c] = "cancelling" => result[c] = "err"
    /\ closing[c] = "done" => c \in cancelled

(* The strengthening of the safety properties that every step preserves    *)
(* (client.go:59-155, call.go:10-101, client_stream.go:53-127).            *)
IInv ==
  /\ TypeOK
  /\ LoopsBeforeCloser
  /\ HeldFrames
  /\ IdleCalls
  /\ Outcomes
  /\ TableExact
  /\ WaitersReleased
  /\ DeliveredWithoutGap
=============================================================================
