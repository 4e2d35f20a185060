---------------------------- MODULE RpcSessions -----------------------------
(***************************************************************************)
(* What the WebSocket server promises a peer about the sessions of one     *)
(* connection, whatever goroutines and channels it uses: at most           *)
(* MaxInflight sessions at a time and one per id; each is answered by      *)
(* messages and ended by exactly one close or error frame; only the end of *)
(* the connection lets a session end without one.                          *)
(***************************************************************************)
EXTENDS Naturals, Sequences, FiniteSets

CONSTANTS
  Ids,          (* session ids                                             *)
  Sess,         (* sessions, each opened at most once                      *)
  MaxInflight,  (* limit on concurrent sessions                            *)
  None          (* no id                                                   *)

VARIABLES
  state,   (* "live", or "done" once the connection is being torn down     *)
  phase,   (* "none", "open", "ended" (answered for good), "gone"          *)
  owner,   (* id under which the session was opened                        *)
  single,  (* sessions whose call has a single response                    *)
  answer   (* kinds of the frames queued for the peer                      *)
vars == <<state, phase, owner, single, answer>>

Present == {s \in Sess : phase[s] \in {"open", "ended"}}

Init ==
  /\ state = "live"
  /\ phase = [s \in Sess |-> "none"]
  /\ owner = [s \in Sess |-> None]
  /\ single = {}
  /\ answer = [s \in Sess |-> <<>>]

Accept(s, i) ==
  /\ phase[s] = "none"
  /\ \A t \in Present : owner[t] # i
  /\ Cardinality(Present) < MaxInflight
  /\ phase' = [phase EXCEPT ![s] = "open"]
  /\ owner' = [owner EXCEPT ![s] = i]
  /\ \E one \in {{}, {s}} : single' = single \union one
  /\ UNCHANGED <<state, answer>>

Answer(s) ==
  /\ phase[s] = "open"
  /\ s \in single => answer[s] = <<>>
  /\ answer' = [answer EXCEPT ![s] = Append(@, "message")]
  /\ UNCHANGED <<state, phase, owner, single>>

(* A single-response session closes after its response: only a connection  *)
(* that is going away may have lost it.                                    *)
End(s, k) ==
  /\ phase[s] = "open"
  /\ k = "close" /\ s \in single => answer[s] = <<"message">> \/ state = "done"
  /\ k = "error" /\ s \in single => answer[s] = <<>>
  /\ phase' = [phase EXCEPT ![s] = "ended"]
  /\ answer' = [answer EXCEPT ![s] = Append(@, k)]
  /\ UNCHANGED <<state, owner, single>>

Abandon(s) ==
  /\ phase[s] = "open"
  /\ state = "done"
  /\ phase' = [phase EXCEPT ![s] = "ended"]
  /\ UNCHANGED <<state, owner, single, answer>>

Leave(s) ==
  /\ phase[s] = "ended"
  /\ phase' = [phase EXCEPT ![s] = "gone"]
  /\ UNCHANGED <<state, owner, single, answer>>

GoDown ==
  /\ state' = "done"
  /\ UNCHANGED <<phase, owner, single, answer>>

Next ==
  \/ GoDown
  \/ \E s \in Sess :
       \/ \E i \in Ids : Accept(s, i)
       \/ Answer(s)
       \/ \E k \in {"close", "error"} : End(s, k)
       \/ Abandon(s)
       \/ Leave(s)

Spec == Init /\ [][Next]_vars
=============================================================================
