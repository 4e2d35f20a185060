----------------------- MODULE InterceptorsProperties -----------------------
(***************************************************************************)
(* What the library owes transports and handlers whatever the interceptors *)
(* between them do.                                                        *)
(***************************************************************************)
EXTENDS Interceptors

(* Each of the transport's requests reaches the typed handler at most      *)
(* once and in order, however often interceptors retry it or read ahead:   *)
(* the Conn of a single request answers io.EOF from then on, so a retry    *)
(* cannot run the handler again on the same request.                       *)
RequestsOnce ==
  \A i, j \in DOMAIN seen :
    i < j /\ seen[i].n > 0 /\ seen[j].n > 0 => seen[i].n < seen[j].n

Ascending(q)  == \A i, j \in DOMAIN q : i < j => q[i] < q[j]
Descending(q) == \A i, j \in DOMAIN q : i < j => q[i] > q[j]

(* Interceptors see requests in the order of the list and responses in the *)
(* reverse order, nil entries and unwrapped Conns left out.                *)
OnionOrder ==
  /\ \A i \in DOMAIN seen : Ascending(seen[i].trail)
  /\ \A i \in DOMAIN out : Descending(out[i].trail)

(* Whatever handlers and interceptors return, send or substitute, the      *)
(* transport's stream gets only responses of the right type that carry a   *)
(* message.  A single answer is one of those or an error: never the result *)
(* of an earlier Send when the chain returned an error in the end, and     *)
(* that result, not an error, when it did not.                             *)
NoNilOnWire ==
  /\ \A i \in DOMAIN out : out[i].kind = "resp"
  /\ wire = "response" => result = "resp" /\ ret = "ok"
  /\ wire = "error" => result # "resp" \/ ret = "err"

(* Interceptors that only look on change nothing: the call is the one the  *)
(* transport and the typed handler would have had between themselves.      *)
Direct == INSTANCE HandlerCall WITH
  phase   <- IF runs = 0 THEN "idle"
             ELSE IF InHandler /\ Top.running THEN "running" ELSE "returned",
  got     <- [i \in DOMAIN seen |-> seen[i].n],
  outs    <- Len(out),
  verdict <- IF runs = 1 /\ ~InHandler THEN ret ELSE "none",
  given   <- result

ImplementsDirect ==
  /\ passive => Direct!Init
  /\ [][passive => [Direct!Next]_(Direct!vars)]_vars

-----------------------------------------------------------------------------
(* The inductive invariant behind these properties.                        *)

Names     == 1..Slots
Requested == [kind : {"req", "eof", "err"} \union {MadeReq[a] : a \in DOMAIN MadeReq},
              n : Nat, trail : Seq(Names)]
Responded == [kind : Responses \union {"drop", "fail"}, trail : Seq(Names)]
Frame     == [conn : Seq(Names), calls : Nat, running : BOOLEAN]

(* Requests a transport has for one call of the shape.                     *)
Budget == IF shape \in OneRequest THEN 1 ELSE MaxMsgs

TypeOK ==
  /\ passive \in BOOLEAN /\ shape \in Shapes
  /\ chain \in Seq(1..Handler) /\ stack \in Seq(Frame)
  /\ left \in 0..Budget
  /\ result \in {"none", "nilmsg", "resp"}
  /\ ret \in {"none", "ok", "err"} /\ wire \in {"none", "response", "end", "error"}
  /\ seen \in Seq(Requested) /\ out \in Seq(Responded)
  /\ runs \in Nat /\ sends \in Nat

(* The chain ascends to the handler, the calls in progress run down it,    *)
(* and the wrappers of a Conn are those of the calls above.                *)
ChainOrder ==
  /\ Ascending(chain) /\ Len(chain) > 0 /\ chain[Len(chain)] = Handler
  /\ Len(stack) <= Len(chain)
  /\ \A d \in DOMAIN stack :
       /\ Ascending(stack[d].conn)
       /\ \A i \in DOMAIN stack[d].conn : stack[d].conn[i] < chain[d]
       /\ stack[d].running => chain[d] = Handler

(* The handler has got no request the base Conn can still hand out.        *)
HandedOut ==
  /\ \A i \in DOMAIN seen : seen[i].n <= Budget - left
  /\ wire # "none" => stack = <<>> /\ ret # "none"

(* Where a call stands whose interceptors only look on: on its way to the  *)
(* handler, in it, or on its way back, each having called next once.       *)
OnlyLooking ==
  /\ runs \in {0, 1}
  /\ \A d \in DOMAIN stack :
       /\ stack[d].calls = IF d = Depth /\ ret = "none" THEN 0 ELSE 1
       /\ stack[d].running <=> chain[d] = Handler /\ runs = 1
  /\ runs = 0 => /\ seen = <<>> /\ out = <<>> /\ result = "none"
                 /\ ret = "none" /\ left = Budget
  /\ runs = 1 => (ret = "none" <=> InHandler)
  /\ shape \in OneRequest => left = (IF runs = 0 THEN 1 ELSE 0)
  /\ shape \notin OneRequest /\ left > 0 => Len(seen) = MaxMsgs - left
  /\ wire # "none" => stack = <<>> /\ ret # "none"

(* Every step preserves it, whatever the interceptors do                   *)
(* (interceptor.go:87-221, 311-417).                                       *)
IInv ==
  /\ TypeOK
  /\ ChainOrder
  /\ HandedOut
  /\ RequestsOnce
  /\ OnionOrder
  /\ NoNilOnWire
  /\ passive => OnlyLooking
=============================================================================
