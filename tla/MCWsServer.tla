----------------------------- MODULE MCWsServer -----------------------------
(* Instances of WsServer for model checking.  A registered procedure is    *)
(* named by its shape; incarnations are interchangeable, and so are ids.   *)
EXTENDS WsServerProperties, TLC

NamedByShape == [p \in Procs |-> p]

Symmetry == Permutations(Sess) \union Permutations(Ids)

(* Two calls and the open of a third: with few frames, or with more where  *)
(* the calls are unary and made one after the other.                       *)
Scenarios ==
  /\ Cardinality({s \in Sess : pc[s] # "new"}) <= 2
  /\ \/ frames <= 3
     \/ Cardinality(Live) <= 1 /\ \A s \in Sess : shape[s] \in {"unary", None}
=============================================================================
