---------------------------- MODULE RemoteCalls ----------------------------
(***************************************************************************)
(* What a client and a server promise together about the calls made on     *)
(* their connection, whatever frames, tables and goroutines it takes: a    *)
(* call is carried out at most once, in one attempt; its caller learns of  *)
(* success only after that attempt has answered; and it may be told of a   *)
(* failure at any time, with the work never begun, still going on, or even *)
(* done.                                                                   *)
(***************************************************************************)
CONSTANTS
  Calls,
  Attempts  (* of the server at carrying out a call                        *)

VARIABLES
  status,  (* "idle", "pending", "ok" or "failed": what the caller knows   *)
  work     (* for each call the attempts made at it, each "begun",         *)
           (* "answered" or "failed"                                       *)
vars == <<status, work>>

Init ==
  /\ status = [c \in Calls |-> "idle"]
  /\ work = [c \in Calls |-> [a \in {} |-> "begun"]]

Invoke(c) ==
  /\ status[c] = "idle"
  /\ status' = [status EXCEPT ![c] = "pending"]
  /\ UNCHANGED work

(* No call is begun again, whatever came of the first attempt.             *)
Begin(c) ==
  /\ status[c] # "idle" /\ DOMAIN work[c] = {}
  /\ \E a \in Attempts : work' = [work EXCEPT ![c] = [x \in {a} |-> "begun"]]
  /\ UNCHANGED status

End(c) ==
  /\ \E a \in DOMAIN work[c], how \in {"answered", "failed"} :
       /\ work[c][a] = "begun"
       /\ work' = [work EXCEPT ![c][a] = how]
  /\ UNCHANGED status

Succeed(c) ==
  /\ status[c] = "pending"
  /\ \E a \in DOMAIN work[c] : work[c][a] = "answered"
  /\ status' = [status EXCEPT ![c] = "ok"]
  /\ UNCHANGED work

Fail(c) ==
  /\ status[c] = "pending"
  /\ status' = [status EXCEPT ![c] = "failed"]
  /\ UNCHANGED work

Next == \E c \in Calls : Invoke(c) \/ Begin(c) \/ End(c) \/ Succeed(c) \/ Fail(c)

Spec == Init /\ [][Next]_vars
=============================================================================
