---------------------------- MODULE HandlerCall -----------------------------
(***************************************************************************)
(* What a transport and a typed handler expect of each other when no       *)
(* middleware stands between them: the handler runs once, is handed the    *)
(* requests of the transport in order, what it sends goes out in order,    *)
(* and its return decides the answer.                                      *)
(***************************************************************************)
EXTENDS Naturals, Sequences

CONSTANT MaxMsgs   (* requests the client of a stream sends at most        *)

VARIABLES
  shape,    (* call shape                                                  *)
  left,     (* requests the transport can still hand out                   *)
  phase,    (* "idle", "running", "returned"                               *)
  got,      (* numbers of the requests handed to the handler               *)
  outs,     (* number of responses it sent on the stream                   *)
  verdict,  (* "none", "ok" or "err": its error result                     *)
  given,    (* "none", "nilmsg" or "resp": its response result             *)
  wire      (* "none", "response", "end" or "error": the transport's answer*)
vars == <<shape, left, phase, got, outs, verdict, given, wire>>

OneRequest  == {"unary", "server_stream"}
OneResponse == {"unary", "client_stream"}
Shapes      == {"unary", "client_stream", "server_stream", "bidi"}

Init ==
  /\ shape \in Shapes
  /\ left = IF shape \in OneRequest THEN 1 ELSE MaxMsgs
  /\ phase = "idle" /\ got = <<>> /\ outs = 0
  /\ verdict = "none" /\ given = "none" /\ wire = "none"

Start ==
  /\ phase = "idle"
  /\ phase' = "running"
  /\ IF shape \in OneRequest
     THEN left' = 0 /\ got' = <<1>>
     ELSE UNCHANGED <<left, got>>
  /\ UNCHANGED <<shape, outs, verdict, given, wire>>

Receive ==
  /\ phase = "running" /\ shape \notin OneRequest /\ left > 0
  /\ \/ left' = left - 1 /\ got' = Append(got, Len(got) + 1)
     \/ left' = 0 /\ UNCHANGED got
  /\ UNCHANGED <<shape, phase, outs, verdict, given, wire>>

Send ==
  /\ phase = "running" /\ shape \notin OneResponse
  /\ outs' = outs + 1
  /\ UNCHANGED <<shape, left, phase, got, verdict, given, wire>>

Finish ==
  /\ phase = "running"
  /\ phase' = "returned"
  /\ \/ verdict' = "err" /\ UNCHANGED given
     \/ verdict' = "ok" /\ UNCHANGED given
     \/ verdict' = "ok" /\ shape \in OneResponse /\ given' \in {"nilmsg", "resp"}
  /\ UNCHANGED <<shape, left, got, outs, wire>>

Answer ==
  /\ phase = "returned" /\ wire = "none"
  /\ wire' = IF verdict = "ok"
             THEN IF shape \notin OneResponse THEN "end"
                  ELSE IF given = "resp" THEN "response" ELSE "error"
             ELSE "error"
  /\ UNCHANGED <<shape, left, phase, got, outs, verdict, given>>

Next == Start \/ Receive \/ Send \/ Finish \/ Answer

Spec == Init /\ [][Next]_vars
=============================================================================
