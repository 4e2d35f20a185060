---------------------------- MODULE Interceptors ----------------------------
(***************************************************************************)
(* One RPC passing through the interceptor chain (interceptor.go), from    *)
(* the transport that invokes it to the answer it gives (the handlers of   *)
(* transport/connect/connect.go).                                          *)
(*                                                                         *)
(* The code is sequential.  stack holds the calls in progress: the call at *)
(* depth d is that of chain[d], an interceptor or, innermost, the typed    *)
(* handler.  Interceptors are the application's: they may wrap the Conn    *)
(* they pass on, call next any number of times or not at all, use the Conn *)
(* themselves and return any error.  What the library fixes is the order   *)
(* of the chain, what the Conn of each shape does, and the casts between   *)
(* the typed and the type-erased views.                                    *)
(***************************************************************************)
EXTENDS Naturals, Sequences, SequencesExt

CONSTANTS
  Slots,     (* length of the interceptor list, nil entries included       *)
  MaxCalls,  (* bound on the calls of next by one run of an interceptor    *)
  MaxMsgs,   (* bound on the requests of a client's stream; a handler gets  *)
             (* no more than one in addition, made by interceptors          *)
  MaxSends   (* bound on the responses sent during one call                *)

ASSUME InterceptorAssumption ==
  {Slots, MaxCalls, MaxMsgs, MaxSends} \subseteq Nat

VARIABLES
  passive, (* the interceptors only look on (chosen once per behaviour)    *)
  shape,   (* call shape                                                   *)
  chain,   (* the wrapped functions, outermost first                       *)
  stack,   (* calls in progress, outermost first                           *)
  left,    (* requests the base Conn can still hand out                    *)
  result,  (* result of the base Conn: "none" or the kind of a response    *)
  ret,     (* "none", "ok" or "err": what the call finished last returned  *)
  wire,    (* "none", "response", "end" or "error": the transport's answer *)
  seen,    (* history: requests the typed handler got                      *)
  out,     (* history: responses that reached the transport's stream       *)
  runs,    (* history: how often the typed handler has been entered        *)
  sends    (* number of responses sent, to bound them                      *)
vars == <<passive, shape, chain, stack, left, result, ret, wire, seen, out, runs, sends>>

Shapes      == {"unary", "client_stream", "server_stream", "bidi"}
OneRequest  == {"unary", "server_stream"}  \* unaryConn, serverStreamConn
OneResponse == {"unary", "client_stream"}  \* unaryConn, clientStreamConn

Handler == Slots + 1

(* Fault: wrap from the first entry to the last.                           *)
ChainBackwards(nils) ==
  LET wrap(next, i) == IF i \in nils THEN next ELSE <<i>> \o next
  IN  FoldLeft(wrap, <<Handler>>, [i \in 1..Slots |-> i])

(* chainInterceptors: wrap from the last entry to the first, skipping nil. *)
ChainOf(nils) ==
  LET wrap(next, i) == IF i \in nils THEN next ELSE <<i>> \o next
  IN  FoldLeft(wrap, <<Handler>>, [i \in 1..Slots |-> Slots + 1 - i])

-----------------------------------------------------------------------------
(* Requests on their way to the handler.  A wrapped Conn delegates and     *)
(* passes the request on, or replaces it by a request of the right type,   *)
(* of another type, or by nil; or it does not delegate: it replays a       *)
(* request of its own or fails.  n is the number of the transport's        *)
(* request, 0 for any other; trail names the wrappers that passed it on.   *)

Alone    == {"replay", "fail"}  \* without delegating
MadeReq  == [replace |-> "req", foreign |-> "foreign", nil |-> "nil",
             replay |-> "req", fail |-> "err"]
ReceiveActs == {"pass"} \union DOMAIN MadeReq

Request(kind, n) == [kind |-> kind, n |-> n, trail |-> <<>>]

PassUp(act, s, r) ==
  IF act \notin Alone /\ r.kind \in {"eof", "err"} THEN r
  ELSE IF act = "pass" THEN [r EXCEPT !.trail = Append(@, s)]
  ELSE Request(MadeReq[act], 0)

(* Fault: received is never set.                                           *)
BaseReceiveAgain ==
  IF shape \in OneRequest
  THEN {[req |-> Request("req", 1), left |-> 1]}
  ELSE {[req |-> Request("eof", 0), left |-> 0]}

(* Receive of the Conn of each shape: its answer, and what it can still    *)
(* hand out afterwards.                                                    *)
BaseReceive ==
  IF shape \in OneRequest
  THEN {[req |-> Request(IF left = 0 THEN "eof" ELSE "req", left), left |-> 0]}
  ELSE {[req |-> Request(k, 0), left |-> 0] : k \in {"eof", "err"}}
       \union IF left = 0 THEN {}
              ELSE {[req |-> Request("req", MaxMsgs + 1 - left), left |-> left - 1]}

(* castRequest: nil and foreign requests become errors.                    *)
CastRequest(r) ==
  IF r.kind \in {"nil", "foreign"} THEN Request("err", 0) ELSE r

(* Receive on a Conn under these wrappers.                                 *)
Received(conn, act, base) ==
  LET up(r, s) == PassUp(act[s], s, r) IN FoldLeft(up, base.req, conn)

LeftAfter(conn, act, base) ==
  IF \E s \in ToSet(conn) : act[s] \in Alone THEN left ELSE base.left

-----------------------------------------------------------------------------
(* Responses on their way to the transport.  A wrapped Conn passes the     *)
(* response on, replaces it, drops it (returning nil) or fails.            *)

Responses == {"resp", "nilmsg", "foreign", "nil"}
SendActs  == {"pass", "replace", "foreign", "nil", "drop", "fail"}

Response(kind) == [kind |-> kind, trail |-> <<>>]

PassDown(act, s, r) ==
  IF r.kind \in {"drop", "fail"} THEN r
  ELSE IF act = "pass" THEN [r EXCEPT !.trail = Append(@, s)]
  ELSE Response(IF act = "replace" THEN "resp" ELSE act)

Sent(conn, act, kind) ==
  LET down(r, s) == PassDown(act[s], s, r)
  IN  FoldLeft(down, Response(kind), Reverse(conn))

(* Fault: the stream Conns check for a nil response but not for a nil Msg. *)
RefusedNil(r) ==
  \/ r.kind \in {"foreign", "fail"}
  \/ shape \notin OneResponse /\ r.kind = "nil"

(* What Send of the Conn of each shape refuses, castResponse included.     *)
Refused(r) ==
  \/ r.kind \in {"foreign", "fail"}
  \/ shape \notin OneResponse /\ r.kind \in {"nil", "nilmsg"}

(* r arrives at the transport's Conn, or at the wrapper that swallowed it; *)
(* err: Send returns an error, which a stream's transport may add.         *)
Arrive(r, err) ==
  /\ sends < MaxSends /\ sends' = sends + 1
  /\ Refused(r) => err
  /\ IF Refused(r) \/ r.kind = "drop"
     THEN UNCHANGED <<result, out>> /\ (err => Refused(r))
     ELSE IF shape \in OneResponse
     THEN /\ ~err /\ UNCHANGED out
          /\ result' = IF r.kind = "nil" THEN result ELSE r.kind
     ELSE /\ UNCHANGED result
          /\ out' = IF err THEN out ELSE Append(out, r)

-----------------------------------------------------------------------------
Depth == Len(stack)
Top   == stack[Depth]

InInterceptor == Depth > 0 /\ chain[Depth] # Handler
InHandler     == Depth > 0 /\ chain[Depth] = Handler

Call(conn)  == [conn |-> conn, calls |-> 0, running |-> FALSE]
Return(err) == stack' = Front(stack) /\ ret' = IF err THEN "err" ELSE "ok"

Init ==
  /\ passive \in BOOLEAN
  /\ shape \in Shapes
  /\ \E nils \in SUBSET (1..Slots) : chain = ChainOf(nils)
  /\ stack = <<>>
  /\ left = IF shape \in OneRequest THEN 1 ELSE MaxMsgs
  /\ result = "none" /\ ret = "none" /\ wire = "none"
  /\ seen = <<>> /\ out = <<>> /\ runs = 0 /\ sends = 0

(* InvokeUnary, InvokeClientStream, InvokeServerStream, InvokeBidi.  With  *)
(* no interceptor InvokeUnary calls the handler itself; an undecorated     *)
(* Conn hands it the same request and takes the same result.               *)
Invoke ==
  /\ stack = <<>> /\ ret = "none"
  /\ stack' = <<Call(<<>>)>>
  /\ UNCHANGED <<passive, shape, chain, left, result, ret, wire, seen, out, runs, sends>>

(* An interceptor calls next with the Conn it was given, or a wrapped one. *)
(* One that only looks on does so once and returns what next returned.     *)
CallNext(wrap) ==
  /\ InInterceptor /\ Top.calls < (IF passive THEN 1 ELSE MaxCalls)
  /\ stack' = Append([stack EXCEPT ![Depth].calls = @ + 1],
                     Call(IF wrap THEN Append(Top.conn, chain[Depth]) ELSE Top.conn))
  /\ UNCHANGED <<passive, shape, chain, left, result, ret, wire, seen, out, runs, sends>>

(* An interceptor uses the Conn it was given.                              *)
InterceptorReceive ==
  /\ InInterceptor /\ ~passive
  /\ \E act \in [ToSet(Top.conn) -> ReceiveActs], base \in BaseReceive :
       left' = LeftAfter(Top.conn, act, base)
  /\ UNCHANGED <<passive, shape, chain, stack, result, ret, wire, seen, out, runs, sends>>

InterceptorSend ==
  /\ InInterceptor /\ ~passive
  /\ \E act \in [ToSet(Top.conn) -> SendActs], kind \in Responses, err \in BOOLEAN :
       Arrive(Sent(Top.conn, act, kind), err)
  /\ UNCHANGED <<passive, shape, chain, stack, left, ret, wire, seen, runs>>

InterceptorReturn(err) ==
  /\ InInterceptor
  /\ passive => Top.calls = 1 /\ err = (ret = "err")
  /\ Return(err)
  /\ UNCHANGED <<passive, shape, chain, left, result, wire, seen, out, runs, sends>>

(* The typed handler gets what Receive returned, cast to its type.         *)
Get(r) ==
  /\ runs' = runs + 1
  /\ stack' = [stack EXCEPT ![Depth].running = TRUE]
  /\ seen' = Append(seen, r)
  /\ UNCHANGED ret

(* The inner function of the two shapes with one request: Receive, cast,   *)
(* and only then the typed handler.                                        *)
EnterWithRequest(act) ==
  /\ ~Top.running /\ shape \in OneRequest
  /\ \E base \in BaseReceive :
       LET r == CastRequest(Received(Top.conn, act, base))
       IN  /\ left' = LeftAfter(Top.conn, act, base)
           /\ IF r.kind = "req" THEN Get(r)
              ELSE Return(TRUE) /\ UNCHANGED <<seen, runs>>
  /\ UNCHANGED <<passive, shape, chain, result, wire, out, sends>>

(* The inner function of the other two enters the handler at once.         *)
EnterWithStream ==
  /\ ~Top.running /\ shape \notin OneRequest
  /\ runs' = runs + 1
  /\ stack' = [stack EXCEPT ![Depth].running = TRUE]
  /\ UNCHANGED <<passive, shape, chain, left, result, ret, wire, seen, out, sends>>

(* connClientStream.Receive, connBidiStream.Receive.                       *)
HandlerReceive(act) ==
  /\ Top.running /\ shape \notin OneRequest /\ Len(seen) <= MaxMsgs
  /\ \E base \in BaseReceive :
       LET r == CastRequest(Received(Top.conn, act, base))
       IN  /\ left' = LeftAfter(Top.conn, act, base)
           /\ seen' = IF r.kind = "req" THEN Append(seen, r) ELSE seen
  /\ UNCHANGED <<passive, shape, chain, stack, result, ret, wire, out, runs, sends>>

(* connServerStream.Send, connBidiStream.Send: nil is refused before it    *)
(* reaches the Conn, which refuses it as well.                             *)
HandlerSend(act, kind) ==
  /\ Top.running /\ shape \notin OneResponse
  /\ \E err \in BOOLEAN :
       Arrive(IF kind = "nil" THEN Response("nil") ELSE Sent(Top.conn, act, kind), err)
  /\ UNCHANGED <<passive, shape, chain, stack, left, ret, wire, seen, runs>>

(* The typed handler returns an error, no response, or, in the shapes with *)
(* one response, a response that the inner function sends.                 *)
HandlerReturn(err) ==
  /\ Top.running
  /\ Return(err)
  /\ UNCHANGED <<passive, shape, chain, left, result, wire, seen, out, runs, sends>>

HandlerRespond(act, kind) ==
  /\ Top.running /\ shape \in OneResponse
  /\ \E err \in BOOLEAN :
       Arrive(Sent(Top.conn, act, kind), err) /\ Return(err)
  /\ UNCHANGED <<passive, shape, chain, left, wire, seen, runs>>

(* Fault: the transport checks for a nil response but not for a nil Msg.   *)
AnswerUnchecked ==
  /\ stack = <<>> /\ ret # "none" /\ wire = "none"
  /\ wire' = IF ret = "err" THEN "error"
             ELSE IF shape \notin OneResponse THEN "end"
             ELSE IF result # "none" THEN "response" ELSE "error"
  /\ UNCHANGED <<passive, shape, chain, stack, left, result, ret, seen, out, runs, sends>>

(* The transport's answer to what the outermost function returned.         *)
Answer ==
  /\ stack = <<>> /\ ret # "none" /\ wire = "none"
  /\ wire' = IF ret = "err" THEN "error"
             ELSE IF shape \notin OneResponse THEN "end"
             ELSE IF result = "resp" THEN "response" ELSE "error"
  /\ UNCHANGED <<passive, shape, chain, stack, left, result, ret, seen, out, runs, sends>>

Finished == wire # "none" /\ UNCHANGED vars

(* What happens inside the innermost function, its Conn's wrappers doing   *)
(* any of receives and sending.                                            *)
Handling(receives, sending) ==
  /\ InHandler
  /\ \/ \E act \in [ToSet(Top.conn) -> receives] : EnterWithRequest(act)
     \/ EnterWithStream
     \/ \E act \in [ToSet(Top.conn) -> receives] : HandlerReceive(act)
     \/ \E act \in [ToSet(Top.conn) -> sending], kind \in Responses \ {"foreign"} :
          HandlerSend(act, kind)
     \/ \E act \in [ToSet(Top.conn) -> sending], kind \in {"resp", "nilmsg"} :
          HandlerRespond(act, kind)
     \/ \E err \in BOOLEAN : HandlerReturn(err)

Next ==
  \/ Invoke
  \/ \E wrap \in BOOLEAN : CallNext(wrap)
  \/ InterceptorReceive
  \/ InterceptorSend
  \/ \E err \in BOOLEAN : InterceptorReturn(err)
  \/ IF passive THEN Handling({"pass"}, {"pass"}) ELSE Handling(ReceiveActs, SendActs)
  \/ Answer
  \/ Finished

Spec == Init /\ [][Next]_vars
=============================================================================
