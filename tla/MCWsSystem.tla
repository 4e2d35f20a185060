---------------------------- MODULE MCWsSystem -----------------------------
(***************************************************************************)
(* Instances of WsSystem for model checking.                               *)
(***************************************************************************)
EXTENDS WsSystemProperties, FiniteSets

ShapeByName == [c \in Calls |-> IF c = "again" THEN "unary" ELSE c]

Made == {c \in Calls : cPc[c] # "idle"}

(* Incarnations are interchangeable: s2 is taken only after s1.            *)
CONSTANTS s1, s2
InOrder == sReader.s = s2 => sPc[s1] # "new"

(* No caller's context is cancelled; the connection and the contexts of    *)
(* its ends last; or they end, but not both before the server shuts down.  *)
CallersStay == dead = {}
Healthy     == cConn = "up" /\ cCtx = "live" /\ sConn = "up" /\ sCtx = "live"
OneFault    ==
  /\ cCtx = "live" \/ cReader.at = "done"
  /\ \/ sCtx = "live" \/ sReader.at = "returned"
     \/ cConn = "up" /\ sConn = "up"
     \/ sConn = "down" /\ sReader.at \in {"closeall", "wait", "flush"}

(* A stream's user and its handler send one message at most.               *)
OneSend ==
  /\ \A c \in {"client_stream", "bidi"} :
       snd[c] # <<>> /\ cPc[c] \notin {"opening", "finishing"} => Len(queued[c]) <= 1
  /\ \A s \in Sess : sPc[s] = "send" => replied[s] = <<>>

(* A server stream that its user leaves unread; it is over at the server,  *)
(* closed, and holds up the client.                                        *)
LeftUnread == cPc["server_stream"] # "recv" /\ cGot["server_stream"] = <<>>
Abandoned  ==
  /\ HeldUp /\ closing["server_stream"] = "done"
  /\ \A s \in SessionsOf("server_stream") : sPc[s] = "done"

(* Users make two unary calls, the second once the first has queued its    *)
(* open frame; or one of any shape, where the caller's context matters to  *)
(* the server at times cancelled; or a unary one while the connection      *)
(* breaks, or the server's context ends; or a server stream that they      *)
(* leave unread, and a unary call once that is abandoned.  Calls, faults   *)
(* and sends are not fair; of the fair steps only the receives of that     *)
(* last stream are cut off.                                                *)
Scenarios ==
  /\ InOrder
  /\ \/ /\ Healthy /\ CallersStay /\ Made \subseteq {"unary", "again"}
        /\ "again" \in Made => queued["unary"] # <<>>
     \/ /\ Healthy /\ Cardinality(Made) <= 1 /\ OneSend
        /\ dead \subseteq Made \cap {"unary", "server_stream"}
     \/ OneFault /\ CallersStay /\ Made \subseteq {"unary"}
     \/ /\ Healthy /\ CallersStay /\ Made \subseteq {"server_stream", "unary"}
        /\ LeftUnread /\ ("unary" \in Made => Abandoned)

(* One call and no fault; its handler returns without a Receive.           *)
ReturnsEarly ==
  /\ Healthy /\ CallersStay
  /\ \A s \in Sess : sPc[s] # "recv"
=============================================================================
