----------------------------- MODULE MCWsClient -----------------------------
(* Instances of WsClient for model checking: a call is named by its shape. *)
EXTENDS WsClientProperties

NamedByShape == [c \in Calls |-> c]

Made  == {c \in Calls : pc[c] # "idle"}
Alone == Cardinality(Made) <= 1

(* A unary call, answered by one frame at most, beside a bidirectional     *)
(* stream of which a second frame overruns the channel.                    *)
Beside ==
  /\ Made = {"unary", "bidi"}
  /\ sent["unary"] <= 1 /\ sent["bidi"] <= 2
  /\ Len(queued["bidi"]) + Len(snd["bidi"]) <= 1
  /\ dead = {}

(* One call of any shape with as many frames as the bounds allow, or two   *)
(* calls.  What is left out are choices of the network, of the server and  *)
(* of users, none of them fair.                                            *)
Scenarios == dead \subseteq Made /\ (Alone \/ Beside)
=============================================================================
