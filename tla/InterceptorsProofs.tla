------------------------- MODULE InterceptorsProofs -------------------------
(* The properties of InterceptorsProperties, for interceptor lists of      *)
(* every length and every number of calls and messages.                    *)
EXTENDS InterceptorsProperties, SequenceLemmas

LEMMA Limits == Slots \in Nat /\ MaxCalls \in Nat /\ MaxMsgs \in Nat /\ MaxSends \in Nat
BY InterceptorAssumption

-----------------------------------------------------------------------------
(* What travels through the wrappers of a Conn.                            *)

LEMMA RequestType ==
  ASSUME NEW r \in Requested
  PROVE  /\ r.kind \in {"req", "eof", "err"} \union {MadeReq[a] : a \in DOMAIN MadeReq}
         /\ r.n \in Nat /\ r.trail \in Seq(Names)
BY DEF Requested

LEMMA ResponseType ==
  ASSUME NEW r \in Responded
  PROVE  r.kind \in Responses \union {"drop", "fail"} /\ r.trail \in Seq(Names)
BY DEF Responded

(* A request made on the way has no number, any other is passed on.        *)
LEMMA PassUpIs ==
  ASSUME NEW a \in ReceiveActs, NEW s \in Names, NEW r \in Requested
  PROVE  /\ PassUp(a, s, r) \in Requested
         /\ PassUp(a, s, r).n \in {0, r.n}
         /\ a \in Alone => PassUp(a, s, r).n = 0
         /\ PassUp(a, s, r).trail \in {<<>>, r.trail, Append(r.trail, s)}
         /\ a = "pass" => PassUp(a, s, r).kind = r.kind /\ PassUp(a, s, r).n = r.n
<1>1. CASE a \notin Alone /\ r.kind \in {"eof", "err"}
  BY <1>1 DEF PassUp
<1>2. CASE ~(a \notin Alone /\ r.kind \in {"eof", "err"}) /\ a = "pass"
  <2>1. PassUp(a, s, r) = [r EXCEPT !.trail = Append(@, s)]
    BY <1>2 DEF PassUp
  <2>2. PassUp(a, s, r) = [kind |-> r.kind, n |-> r.n, trail |-> Append(r.trail, s)]
    BY <2>1 DEF Requested
  <2>3. Append(r.trail, s) \in Seq(Names)
    BY RequestType, Appended
  <2> QED
    BY <1>2, <2>2, <2>3, RequestType DEF Requested, Alone
<1>3. CASE ~(a \notin Alone /\ r.kind \in {"eof", "err"}) /\ a # "pass"
  <2>1. PassUp(a, s, r) = [kind |-> MadeReq[a], n |-> 0, trail |-> <<>>]
    BY <1>3 DEF PassUp, Request
  <2>2. a \in DOMAIN MadeReq
    BY <1>3 DEF ReceiveActs
  <2>3. <<>> \in Seq(Names)
    OBVIOUS
  <2> QED
    BY <1>3, <2>1, <2>2, <2>3 DEF Requested
<1> QED
  BY <1>1, <1>2, <1>3

LEMMA PassDownIs ==
  ASSUME NEW a \in SendActs, NEW s \in Names, NEW r \in Responded
  PROVE  /\ PassDown(a, s, r) \in Responded
         /\ PassDown(a, s, r).trail \in {<<>>, r.trail, Append(r.trail, s)}
         /\ a = "pass" => PassDown(a, s, r).kind = r.kind
<1>1. CASE r.kind \in {"drop", "fail"}
  BY <1>1 DEF PassDown
<1>2. CASE r.kind \notin {"drop", "fail"} /\ a = "pass"
  <2>1. PassDown(a, s, r) = [r EXCEPT !.trail = Append(@, s)]
    BY <1>2 DEF PassDown
  <2>2. PassDown(a, s, r) = [kind |-> r.kind, trail |-> Append(r.trail, s)]
    BY <2>1 DEF Responded
  <2>3. Append(r.trail, s) \in Seq(Names)
    BY ResponseType, Appended
  <2> QED
    BY <2>2, <2>3, ResponseType DEF Responded
<1>3. CASE r.kind \notin {"drop", "fail"} /\ a # "pass"
  <2>1. PassDown(a, s, r) = [kind |-> IF a = "replace" THEN "resp" ELSE a, trail |-> <<>>]
    BY <1>3 DEF PassDown, Response
  <2>2. (IF a = "replace" THEN "resp" ELSE a) \in Responses \union {"drop", "fail"}
    BY <1>3 DEF SendActs, Responses
  <2>3. <<>> \in Seq(Names)
    OBVIOUS
  <2> QED
    BY <1>3, <2>1, <2>2, <2>3 DEF Responded
<1> QED
  BY <1>1, <1>2, <1>3

(* Receive on a wrapped Conn goes through its wrappers one by one, ...     *)
LEMMA ReceivedSteps ==
  ASSUME NEW conn \in Seq(Names), NEW act \in [ToSet(conn) -> ReceiveActs],
         NEW base, base.req \in Requested
  PROVE  \E h \in [0 .. Len(conn) -> Requested] :
           /\ h[0] = base.req
           /\ \A k \in 1 .. Len(conn) : h[k] = PassUp(act[conn[k]], conn[k], h[k - 1])
           /\ h[Len(conn)] = Received(conn, act, base)
<1> DEFINE n == Len(conn)
           step(k, r) == PassUp(act[conn[k]], conn[k], r)
           g == [p \in (1 .. n) \X Requested |-> step(p[1], p[2])]
           Is(f) == f = [s \in SUBSET DOMAIN conn |->
                           IF s = {} THEN base.req ELSE step(Max(s), f[s \ {Max(s)}])]
           fold == CHOOSE f : Is(f)
<1>1. n \in Nat /\ DOMAIN conn = 1 .. n
  OBVIOUS
<1>2. \A k \in 1 .. n : conn[k] \in Names /\ act[conn[k]] \in ReceiveActs
  BY DEF ToSet
<1>3. \A k \in 1 .. n : \A r \in Requested : step(k, r) \in Requested
  BY <1>2, PassUpIs
<1>4. g \in [(1 .. n) \X Requested -> Requested]
  <2> HIDE DEF step
  <2> QED
    BY <1>3
<1>5. PICK f \in [SUBSET (1 .. n) -> Requested] :
         \A s \in SUBSET (1 .. n) :
           /\ f[s] = IF s = {} THEN base.req ELSE g[<<Max(s), f[s \ {Max(s)}]>>]
           /\ s # {} => Max(s) \in s
  <2> HIDE DEF g, n
  <2> QED
    BY <1>1, <1>4, FoldExists
<1>6. Is(f)
  <2> HIDE DEF step, n
  <2>1. ASSUME NEW s \in SUBSET (1 .. n), s # {}
        PROVE  f[s] = step(Max(s), f[s \ {Max(s)}])
    <3>1. Max(s) \in 1 .. n /\ s \ {Max(s)} \in SUBSET (1 .. n)
      BY <1>5, <2>1
    <3>2. f[s \ {Max(s)}] \in Requested
      BY <1>5, <3>1
    <3> QED
      BY <1>5, <2>1, <3>1, <3>2
  <2> QED
    BY <1>1, <1>5, <2>1
<1>7. Is(fold)
  <2> HIDE DEF Is
  <2> QED
    BY <1>6
<1>8. FoldsUp(fold, Requested, n, base.req, g)
  <2> HIDE DEF step, fold, n
  <2> QED
    BY <1>1, <1>7 DEF FoldsUp
<1>9. PICK h : Trace(h, fold[1 .. n], Requested, n, base.req, g)
  <2> HIDE DEF g, fold, n
  <2> QED
    BY <1>1, <1>4, <1>8, FoldValues
<1>10. \A k \in 1 .. n : h[k] = step(k, h[k - 1])
  <2> SUFFICES ASSUME NEW k \in 1 .. n PROVE h[k] = step(k, h[k - 1])
    OBVIOUS
  <2> HIDE DEF step, fold, n
  <2>1. <<k, h[k - 1]>> \in (1 .. n) \X Requested
    BY <1>1, <1>9 DEF Trace
  <2> QED
    BY <1>9, <2>1 DEF Trace
<1>11. fold[1 .. n] = Received(conn, act, base)
  BY <1>1 DEF Received, FoldLeft, MapThenFoldSet
<1> QED
  <2> HIDE DEF fold
  <2> QED
    BY <1>9, <1>10, <1>11 DEF Trace

(* ... and Send through the same wrappers the other way.                   *)
LEMMA SentSteps ==
  ASSUME NEW conn \in Seq(Names), NEW act \in [ToSet(conn) -> SendActs],
         NEW kind \in Responses
  PROVE  \E h \in [0 .. Len(conn) -> Responded] :
           /\ h[0] = Response(kind)
           /\ \A k \in 1 .. Len(conn) :
                h[k] = PassDown(act[Reverse(conn)[k]], Reverse(conn)[k], h[k - 1])
           /\ h[Len(conn)] = Sent(conn, act, kind)
<1> DEFINE n == Len(conn)
           back == Reverse(conn)
           base == Response(kind)
           step(k, r) == PassDown(act[back[k]], back[k], r)
           g == [p \in (1 .. n) \X Responded |-> step(p[1], p[2])]
           Is(f) == f = [s \in SUBSET DOMAIN back |->
                           IF s = {} THEN base ELSE step(Max(s), f[s \ {Max(s)}])]
           fold == CHOOSE f : Is(f)
<1>1. /\ n \in Nat /\ DOMAIN back = 1 .. n
      /\ base \in Responded
  <2>1. <<>> \in Seq(Names)
    OBVIOUS
  <2> QED
    BY <2>1 DEF Reverse, Response, Responded
<1>2. \A k \in 1 .. n : back[k] \in Names /\ act[back[k]] \in SendActs
  BY DEF ToSet, Reverse
<1>3. \A k \in 1 .. n : \A r \in Responded : step(k, r) \in Responded
  BY <1>2, PassDownIs
<1>4. g \in [(1 .. n) \X Responded -> Responded]
  <2> HIDE DEF step
  <2> QED
    BY <1>3
<1>5. PICK f \in [SUBSET (1 .. n) -> Responded] :
         \A s \in SUBSET (1 .. n) :
           /\ f[s] = IF s = {} THEN base ELSE g[<<Max(s), f[s \ {Max(s)}]>>]
           /\ s # {} => Max(s) \in s
  <2> HIDE DEF g, n, base
  <2> QED
    BY <1>1, <1>4, FoldExists
<1>6. Is(f)
  <2> HIDE DEF step, n, back, base
  <2>1. ASSUME NEW s \in SUBSET (1 .. n), s # {}
        PROVE  f[s] = step(Max(s), f[s \ {Max(s)}])
    <3>1. Max(s) \in 1 .. n /\ s \ {Max(s)} \in SUBSET (1 .. n)
      BY <1>5, <2>1
    <3>2. f[s \ {Max(s)}] \in Responded
      BY <1>5, <3>1
    <3> QED
      BY <1>5, <2>1, <3>1, <3>2
  <2> QED
    BY <1>1, <1>5, <2>1
<1>7. Is(fold)
  <2> HIDE DEF Is
  <2> QED
    BY <1>6
<1>8. FoldsUp(fold, Responded, n, base, g)
  <2> HIDE DEF step, fold, n, back, base
  <2> QED
    BY <1>1, <1>7 DEF FoldsUp
<1>9. PICK h : Trace(h, fold[1 .. n], Responded, n, base, g)
  <2> HIDE DEF g, fold, n, base
  <2> QED
    BY <1>1, <1>4, <1>8, FoldValues
<1>10. \A k \in 1 .. n : h[k] = step(k, h[k - 1])
  <2> SUFFICES ASSUME NEW k \in 1 .. n PROVE h[k] = step(k, h[k - 1])
    OBVIOUS
  <2> HIDE DEF step, fold, n, back, base
  <2>1. <<k, h[k - 1]>> \in (1 .. n) \X Responded
    BY <1>1, <1>9 DEF Trace
  <2> QED
    BY <1>9, <2>1 DEF Trace
<1>11. fold[1 .. n] = Sent(conn, act, kind)
  BY <1>1 DEF Sent, FoldLeft, MapThenFoldSet
<1> QED
  <2> HIDE DEF fold
  <2> QED
    BY <1>9, <1>10, <1>11 DEF Trace

-----------------------------------------------------------------------------
(* A sequence that ascends still does with an element above all others at  *)
(* its end, or one below them at its head.                                 *)
LEMMA AppendOrder ==
  ASSUME NEW q \in Seq(Nat), NEW e \in Nat
  PROVE  /\ Ascending(q) /\ (\A j \in DOMAIN q : q[j] < e) => Ascending(Append(q, e))
         /\ Descending(q) /\ (\A j \in DOMAIN q : q[j] > e) => Descending(Append(q, e))
<1> DEFINE a == Append(q, e)
<1>1. /\ a \in Seq(Nat) /\ Len(a) = Len(q) + 1 /\ a[Len(q) + 1] = e
      /\ \A k \in 1 .. Len(q) : a[k] = q[k]
  BY Appended
<1>2. DOMAIN q = 1 .. Len(q) /\ DOMAIN a = 1 .. Len(q) + 1 /\ Len(q) \in Nat
  BY <1>1
<1>3. ASSUME NEW j \in DOMAIN a, NEW k \in DOMAIN a, j < k
      PROVE  /\ j \in DOMAIN q /\ a[j] = q[j]
             /\ (k \in DOMAIN q /\ a[k] = q[k]) \/ a[k] = e
  <2> HIDE DEF a
  <2> QED
    BY <1>1, <1>2, <1>3
<1> QED
  <2> HIDE DEF a
  <2>1. Ascending(q) /\ (\A j \in DOMAIN q : q[j] < e) => Ascending(a)
    BY <1>3 DEF Ascending
  <2>2. Descending(q) /\ (\A j \in DOMAIN q : q[j] > e) => Descending(a)
    BY <1>3 DEF Descending
  <2> QED
    BY <2>1, <2>2 DEF a

LEMMA PrependOrder ==
  ASSUME NEW q \in Seq(Nat), NEW e \in Nat, Ascending(q), \A j \in DOMAIN q : q[j] > e
  PROVE  Ascending(<<e>> \o q)
<1> DEFINE a == <<e>> \o q
<1>1. /\ a \in Seq(Nat) /\ Len(a) = Len(q) + 1 /\ a[1] = e
      /\ \A k \in 2 .. Len(q) + 1 : a[k] = q[k - 1]
  <2>1. <<e>> \in Seq(Nat) /\ Len(<<e>>) = 1 /\ <<e>>[1] = e
    OBVIOUS
  <2>2. /\ a \in Seq(Nat) /\ Len(a) = 1 + Len(q)
        /\ \A k \in 1 .. 1 + Len(q) : a[k] = IF k <= 1 THEN <<e>>[k] ELSE q[k - 1]
    BY <2>1, Joined
  <2> HIDE DEF a
  <2>3. Len(q) \in Nat
    OBVIOUS
  <2> QED
    BY <2>1, <2>2, <2>3
<1>2. DOMAIN q = 1 .. Len(q) /\ DOMAIN a = 1 .. Len(q) + 1 /\ Len(q) \in Nat
  BY <1>1
<1> HIDE DEF a
<1>3. ASSUME NEW j \in DOMAIN a, NEW k \in DOMAIN a, j < k
      PROVE  a[j] < a[k]
  <2>1. k - 1 \in DOMAIN q /\ a[k] = q[k - 1] /\ q[k - 1] > e
    BY <1>1, <1>2, <1>3
  <2>2. CASE j = 1
    BY <1>1, <2>1, <2>2
  <2>3. CASE j # 1
    <3>1. j \in 2 .. Len(q) + 1 /\ k \in 2 .. Len(q) + 1
      BY <1>2, <1>3, <2>3
    <3>2. a[j] = q[j - 1] /\ a[k] = q[k - 1]
      BY <1>1, <3>1
    <3>3. j - 1 \in DOMAIN q /\ k - 1 \in DOMAIN q /\ j - 1 < k - 1
      BY <1>2, <1>3, <3>1
    <3> QED
      BY <3>2, <3>3 DEF Ascending
  <2> QED
    BY <2>2, <2>3
<1> QED
  BY <1>3 DEF Ascending, a

(* chainInterceptors: the entries that are not nil in the order of the     *)
(* list, and the handler behind them.                                      *)
LEMMA ChainSteps ==
  ASSUME NEW nils \in SUBSET (1 .. Slots)
  PROVE  \E h \in [0 .. Slots -> Seq(Nat)] :
           /\ h[0] = <<Handler>>
           /\ \A k \in 1 .. Slots :
                h[k] = IF Slots + 1 - k \in nils THEN h[k - 1] ELSE <<Slots + 1 - k>> \o h[k - 1]
           /\ h[Slots] = ChainOf(nils)
<1> DEFINE back == [k \in 1 .. Slots |-> Slots + 1 - k]
           V == Seq(Nat)
           step(k, q) == IF back[k] \in nils THEN q ELSE <<back[k]>> \o q
           g == [p \in (1 .. Slots) \X V |-> step(p[1], p[2])]
           Is(f) == f = [s \in SUBSET DOMAIN back |->
                           IF s = {} THEN <<Handler>> ELSE step(Max(s), f[s \ {Max(s)}])]
           fold == CHOOSE f : Is(f)
<1>1. Slots \in Nat /\ DOMAIN back = 1 .. Slots /\ <<Handler>> \in V
  BY Limits DEF Handler
<1>2. \A k \in 1 .. Slots : back[k] \in Nat
  BY <1>1
<1>3. ASSUME NEW k \in 1 .. Slots, NEW q \in V PROVE step(k, q) \in V
  <2> HIDE DEF back
  <2>1. <<back[k]>> \in Seq(Nat)
    BY <1>2
  <2>2. <<back[k]>> \o q \in Seq(Nat)
    BY <2>1, Joined
  <2> QED
    BY <2>2
<1>4. g \in [(1 .. Slots) \X V -> V]
  <2> HIDE DEF step, V
  <2> QED
    BY <1>3
<1>5. PICK f \in [SUBSET (1 .. Slots) -> V] :
         \A s \in SUBSET (1 .. Slots) :
           /\ f[s] = IF s = {} THEN <<Handler>> ELSE g[<<Max(s), f[s \ {Max(s)}]>>]
           /\ s # {} => Max(s) \in s
  <2> HIDE DEF g, V
  <2> QED
    BY <1>1, <1>4, FoldExists
<1>6. Is(f)
  <2> HIDE DEF step, back, V
  <2>1. ASSUME NEW s \in SUBSET (1 .. Slots), s # {}
        PROVE  f[s] = step(Max(s), f[s \ {Max(s)}])
    <3>1. Max(s) \in 1 .. Slots /\ s \ {Max(s)} \in SUBSET (1 .. Slots)
      BY <1>5, <2>1
    <3>2. f[s \ {Max(s)}] \in V
      BY <1>5, <3>1
    <3> QED
      BY <1>5, <2>1, <3>1, <3>2
  <2> QED
    BY <1>1, <1>5, <2>1
<1>7. Is(fold)
  <2> HIDE DEF Is
  <2> QED
    BY <1>6
<1>8. FoldsUp(fold, V, Slots, <<Handler>>, g)
  <2> HIDE DEF step, fold, back, V
  <2> QED
    BY <1>1, <1>7 DEF FoldsUp
<1>9. PICK h : Trace(h, fold[1 .. Slots], V, Slots, <<Handler>>, g)
  <2> HIDE DEF g, fold, V
  <2> QED
    BY <1>1, <1>4, <1>8, FoldValues
<1>10. ASSUME NEW k \in 1 .. Slots PROVE h[k] = step(k, h[k - 1])
  <2> HIDE DEF step, fold, back, V
  <2>1. <<k, h[k - 1]>> \in (1 .. Slots) \X V
    BY <1>1, <1>9 DEF Trace
  <2> QED
    BY <1>9, <2>1 DEF Trace
<1>11. fold[1 .. Slots] = ChainOf(nils)
  BY <1>1 DEF ChainOf, FoldLeft, MapThenFoldSet
<1> QED
  <2> HIDE DEF fold, V
  <2>1. h \in [0 .. Slots -> V] /\ h[0] = <<Handler>> /\ h[Slots] = ChainOf(nils)
    BY <1>9, <1>11 DEF Trace
  <2>2. \A k \in 1 .. Slots :
          h[k] = IF Slots + 1 - k \in nils THEN h[k - 1] ELSE <<Slots + 1 - k>> \o h[k - 1]
    BY <1>10
  <2> QED
    BY <2>1, <2>2 DEF V

LEMMA ChainAscends ==
  ASSUME NEW nils \in SUBSET (1 .. Slots)
  PROVE  /\ ChainOf(nils) \in Seq(1 .. Handler) /\ Ascending(ChainOf(nils))
         /\ Len(ChainOf(nils)) > 0 /\ ChainOf(nils)[Len(ChainOf(nils))] = Handler
<1>1. PICK h \in [0 .. Slots -> Seq(Nat)] :
         /\ h[0] = <<Handler>>
         /\ \A k \in 1 .. Slots :
              h[k] = IF Slots + 1 - k \in nils THEN h[k - 1] ELSE <<Slots + 1 - k>> \o h[k - 1]
         /\ h[Slots] = ChainOf(nils)
  BY ChainSteps
<1> DEFINE Good(q, k) == /\ q \in Seq(Nat) /\ Ascending(q)
                         /\ Len(q) > 0 /\ q[Len(q)] = Handler
                         /\ \A j \in DOMAIN q : q[j] > Slots - k
           P == {k \in 0 .. Slots : Good(h[k], k)}
<1>2. Slots \in Nat /\ Handler = Slots + 1
  BY Limits DEF Handler
<1>3. 0 \in P
  <2>1. ASSUME NEW q, q = <<Handler>> PROVE Good(q, 0)
    BY <1>2, <2>1 DEF Ascending
  <2> HIDE DEF Good
  <2>2. Good(h[0], 0) /\ 0 \in 0 .. Slots
    BY <1>1, <1>2, <2>1
  <2> QED
    BY <2>2
<1>4. ASSUME NEW q, NEW k \in 1 .. Slots, Good(q, k - 1)
      PROVE  Good(q, k) /\ Good(<<Slots + 1 - k>> \o q, k)
  <2> DEFINE e == Slots + 1 - k
             a == <<e>> \o q
  <2>1. /\ q \in Seq(Nat) /\ Len(q) \in Nat /\ DOMAIN q = 1 .. Len(q)
        /\ \A j \in DOMAIN q : q[j] \in Nat
    BY <1>4
  <2>2. e \in Nat /\ e > Slots - k /\ e = Slots - (k - 1)
    BY <1>2
  <2> HIDE DEF e
  <2>3. \A j \in DOMAIN q : q[j] > e /\ q[j] > Slots - k
    BY <1>2, <1>4, <2>1, <2>2
  <2>4. Good(q, k)
    BY <1>4, <2>3
  <2>5. Ascending(a)
    BY <1>4, <2>1, <2>2, <2>3, PrependOrder
  <2>6. /\ a \in Seq(Nat) /\ Len(a) = 1 + Len(q)
        /\ \A j \in 1 .. 1 + Len(q) : a[j] = IF j <= 1 THEN e ELSE q[j - 1]
    <3>1. <<e>> \in Seq(Nat) /\ Len(<<e>>) = 1 /\ <<e>>[1] = e
      BY <2>2
    <3>2. /\ a \in Seq(Nat) /\ Len(a) = 1 + Len(q)
          /\ \A j \in 1 .. 1 + Len(q) : a[j] = IF j <= 1 THEN <<e>>[j] ELSE q[j - 1]
      BY <2>1, <3>1, Joined
    <3> HIDE DEF a
    <3> QED
      BY <2>1, <3>1, <3>2
  <2> HIDE DEF a
  <2>7. Len(a) > 0 /\ a[Len(a)] = Handler
    BY <1>4, <2>1, <2>6
  <2>8. ASSUME NEW j \in DOMAIN a PROVE a[j] > Slots - k
    <3>1. j \in 1 .. 1 + Len(q)
      BY <2>1, <2>6
    <3>2. CASE j <= 1
      BY <2>2, <2>6, <3>1, <3>2
    <3>3. CASE ~(j <= 1)
      <4>1. a[j] = q[j - 1] /\ j - 1 \in DOMAIN q
        BY <2>1, <2>6, <3>1, <3>3
      <4> QED
        BY <2>3, <4>1
    <3> QED
      BY <3>2, <3>3
  <2> QED
    BY <2>4, <2>5, <2>6, <2>7, <2>8 DEF a, e
<1>5. ASSUME NEW k \in 1 .. Slots, k - 1 \in P PROVE k \in P
  <2>1. Good(h[k - 1], k - 1) /\ k \in 0 .. Slots
    BY <1>2, <1>5
  <2> HIDE DEF Good
  <2>2. Good(h[k], k)
    BY <1>1, <1>4, <2>1
  <2> QED
    BY <2>1, <2>2
<1>6. Good(ChainOf(nils), Slots)
  <2>1. \A k \in 0 .. Slots : k \in P
    <3> HIDE DEF P
    <3> QED
      BY <1>2, <1>3, <1>5, Climb
  <2> HIDE DEF Good
  <2> QED
    BY <1>1, <1>2, <2>1
<1>7. ASSUME NEW q, Good(q, Slots) PROVE q \in Seq(1 .. Handler)
  <2>1. q \in Seq(Nat) /\ Len(q) \in Nat /\ DOMAIN q = 1 .. Len(q)
    BY <1>7
  <2>2. ASSUME NEW j \in DOMAIN q PROVE q[j] \in 1 .. Handler
    <3>1. q[j] \in Nat /\ q[j] > 0
      BY <1>2, <1>7, <2>1
    <3>2. j = Len(q) \/ q[j] < q[Len(q)]
      BY <1>7, <2>1 DEF Ascending
    <3> QED
      BY <1>2, <1>7, <3>1, <3>2
  <2>3. q \in [1 .. Len(q) -> 1 .. Handler]
    BY <2>1, <2>2
  <2> QED
    BY <2>1, <2>3, Listed
<1> QED
  BY <1>6, <1>7

-----------------------------------------------------------------------------
(* A request the handler gets is the transport's, with its number, or has  *)
(* none; it went through the wrappers in their order; and if a wrapper did *)
(* not delegate it is not the transport's.                                 *)
LEMMA ReceivedIs ==
  ASSUME NEW conn \in Seq(Names), NEW act \in [ToSet(conn) -> ReceiveActs],
         NEW base, base.req \in Requested, base.req.trail = <<>>, Ascending(conn)
  PROVE  /\ Received(conn, act, base) \in Requested
         /\ Received(conn, act, base).n \in {0, base.req.n}
         /\ (\E s \in ToSet(conn) : act[s] \in Alone) => Received(conn, act, base).n = 0
         /\ Ascending(Received(conn, act, base).trail)
         /\ (\A s \in ToSet(conn) : act[s] = "pass") =>
              /\ Received(conn, act, base).kind = base.req.kind
              /\ Received(conn, act, base).n = base.req.n
<1> DEFINE m == Len(conn)
           b == base.req
<1>1. PICK h \in [0 .. m -> Requested] :
         /\ h[0] = b
         /\ \A k \in 1 .. m : h[k] = PassUp(act[conn[k]], conn[k], h[k - 1])
         /\ h[m] = Received(conn, act, base)
  BY ReceivedSteps
<1>2. /\ m \in Nat /\ DOMAIN conn = 1 .. m
      /\ \A k \in 1 .. m : /\ conn[k] \in Names /\ conn[k] \in Nat
                           /\ act[conn[k]] \in ReceiveActs /\ conn[k] \in ToSet(conn)
  BY Limits DEF ToSet, Names
<1> DEFINE Good(r, k) ==
             /\ r.n \in {0, b.n}
             /\ (\E j \in 1 .. k : act[conn[j]] \in Alone) => r.n = 0
             /\ Ascending(r.trail)
             /\ \A j \in DOMAIN r.trail : k > 0 /\ r.trail[j] <= conn[k]
             /\ (\A j \in 1 .. k : act[conn[j]] = "pass") => r.kind = b.kind /\ r.n = b.n
           P == {k \in 0 .. m : Good(h[k], k)}
<1>3. 0 \in P
  <2>1. h[0].trail = <<>> /\ h[0].n = b.n /\ h[0].kind = b.kind
    BY <1>1
  <2>2. 0 \in 0 .. m /\ 1 .. 0 = {} /\ DOMAIN <<>> = {}
    BY <1>2
  <2> HIDE DEF m, b
  <2>3. Ascending(h[0].trail) /\ DOMAIN h[0].trail = {}
    BY <2>1, <2>2 DEF Ascending
  <2> QED
    BY <2>1, <2>2, <2>3
<1>4. ASSUME NEW k \in 1 .. m, Good(h[k - 1], k - 1) PROVE Good(h[k], k)
  <2> DEFINE r == h[k - 1]
             s == conn[k]
             u == h[k]
  <2>1. r \in Requested /\ s \in Names /\ s \in Nat /\ act[s] \in ReceiveActs /\ k - 1 \in 0 .. m
    <3>1. k - 1 \in 0 .. m
      BY <1>1
    <3>2. s \in Names /\ s \in Nat /\ act[s] \in ReceiveActs
      BY <1>1, <1>2
    <3>3. r \in Requested
      BY <3>1
    <3> QED
      BY <3>1, <3>2, <3>3
  <2>2. u = PassUp(act[s], s, r)
    BY <1>1
  <2> HIDE DEF r, s, u, m
  <2>3. /\ u.n \in {0, r.n} /\ (act[s] \in Alone => u.n = 0)
        /\ u.trail \in {<<>>, r.trail, Append(r.trail, s)}
        /\ act[s] = "pass" => u.kind = r.kind /\ u.n = r.n
    BY <2>1, <2>2, PassUpIs
  <2>4. r.trail \in Seq(Nat) /\ Len(r.trail) \in Nat
    BY <2>1, Limits DEF Requested, Names
  <2>5. \A j \in DOMAIN r.trail : r.trail[j] \in Nat /\ r.trail[j] < s
    <3> SUFFICES ASSUME NEW j \in DOMAIN r.trail PROVE r.trail[j] \in Nat /\ r.trail[j] < s
      OBVIOUS
    <3>1. k - 1 > 0 /\ r.trail[j] <= conn[k - 1]
      BY <1>4 DEF r
    <3>2. k - 1 \in 1 .. m /\ k - 1 < k
      BY <1>2, <3>1
    <3>3. conn[k - 1] < s /\ conn[k - 1] \in Nat
      BY <1>2, <3>2 DEF Ascending, s
    <3>4. r.trail[j] \in Nat
      BY <2>4
    <3> QED
      BY <2>1, <3>1, <3>3, <3>4
  <2>6. /\ Ascending(r.trail) /\ Ascending(<<>>)
        /\ Ascending(Append(r.trail, s))
    <3>1. Ascending(r.trail)
      BY <1>4 DEF r
    <3>2. Ascending(<<>>)
      BY DEF Ascending
    <3> QED
      BY <2>1, <2>4, <2>5, <3>1, <3>2, AppendOrder
  <2>7. \A j \in DOMAIN Append(r.trail, s) : Append(r.trail, s)[j] <= s
    <3>1. /\ Append(r.trail, s) \in Seq(Nat) /\ Append(r.trail, s)[Len(r.trail) + 1] = s
          /\ Len(Append(r.trail, s)) = Len(r.trail) + 1
          /\ \A j \in 1 .. Len(r.trail) : Append(r.trail, s)[j] = r.trail[j]
      BY <2>1, <2>4, Appended
    <3>2. \A j \in DOMAIN Append(r.trail, s) : j \in DOMAIN r.trail \/ j = Len(r.trail) + 1
      BY <2>4, <3>1
    <3> QED
      BY <2>1, <2>4, <2>5, <3>1, <3>2
  <2>8. Ascending(u.trail) /\ \A j \in DOMAIN u.trail : k > 0 /\ u.trail[j] <= s
    <3>1. k > 0
      BY <1>2
    <3>2. CASE u.trail = <<>>
      <4>1. DOMAIN <<>> = {}
        OBVIOUS
      <4> QED
        BY <2>6, <3>2, <4>1
    <3>3. CASE u.trail = r.trail
      BY <2>1, <2>5, <2>6, <3>1, <3>3
    <3>4. CASE u.trail = Append(r.trail, s)
      BY <2>6, <2>7, <3>1, <3>4
    <3> QED
      BY <2>3, <3>2, <3>3, <3>4
  <2>9. \A j \in 1 .. k : j \in 1 .. k - 1 \/ j = k
    BY <1>2
  <2>10. \A j \in 1 .. k - 1 : j \in 1 .. k
    BY <1>2
  <2>11. k \in 1 .. k
    BY <1>2
  <2> HIDE DEF b
  <2>12. r.n \in {0, b.n} /\ ((\E j \in 1 .. k - 1 : act[conn[j]] \in Alone) => r.n = 0)
    BY <1>4 DEF r
  <2>13. (\A j \in 1 .. k - 1 : act[conn[j]] = "pass") => r.kind = b.kind /\ r.n = b.n
    BY <1>4 DEF r
  <2>14. (\E j \in 1 .. k : act[conn[j]] \in Alone) => u.n = 0
    BY <2>3, <2>9, <2>12 DEF s
  <2>15. (\A j \in 1 .. k : act[conn[j]] = "pass") => u.kind = b.kind /\ u.n = b.n
    BY <2>3, <2>10, <2>11, <2>13 DEF s
  <2>16. u.n \in {0, b.n}
    BY <2>3, <2>12
  <2> QED
    BY <2>8, <2>14, <2>15, <2>16 DEF u, s
<1>5. Good(h[m], m)
  <2> HIDE DEF Good, m
  <2>1. ASSUME NEW k \in 1 .. m, k - 1 \in P PROVE k \in P
    <3>1. Good(h[k - 1], k - 1) /\ k \in 0 .. m
      BY <1>2, <2>1
    <3>2. Good(h[k], k)
      BY <1>4, <3>1
    <3> QED
      BY <3>1, <3>2
  <2>2. \A k \in 0 .. m : k \in P
    <3> HIDE DEF P
    <3> QED
      BY <1>2, <1>3, <2>1, Climb
  <2> QED
    BY <1>2, <2>2
<1>6. \A s \in ToSet(conn) : \E j \in 1 .. m : s = conn[j]
  BY DEF ToSet
<1>7. h[m] \in Requested
  BY <1>1, <1>2
<1> HIDE DEF m, b
<1> QED
  BY <1>1, <1>2, <1>5, <1>6, <1>7 DEF b

(* A response goes through the wrappers in the reverse order.              *)
LEMMA SentIs ==
  ASSUME NEW conn \in Seq(Names), NEW act \in [ToSet(conn) -> SendActs],
         NEW kind \in Responses, Ascending(conn)
  PROVE  /\ Sent(conn, act, kind) \in Responded
         /\ Descending(Sent(conn, act, kind).trail)
         /\ (\A s \in ToSet(conn) : act[s] = "pass") => Sent(conn, act, kind).kind = kind
<1> DEFINE m == Len(conn)
           back == Reverse(conn)
<1>1. PICK h \in [0 .. m -> Responded] :
         /\ h[0] = Response(kind)
         /\ \A k \in 1 .. m : h[k] = PassDown(act[back[k]], back[k], h[k - 1])
         /\ h[m] = Sent(conn, act, kind)
  BY SentSteps
<1>2. /\ m \in Nat /\ DOMAIN conn = 1 .. m
      /\ \A k \in 1 .. m : /\ back[k] = conn[m - k + 1] /\ m - k + 1 \in 1 .. m
                           /\ back[k] \in Names /\ back[k] \in Nat
                           /\ act[back[k]] \in SendActs /\ back[k] \in ToSet(conn)
  BY Limits DEF ToSet, Names, Reverse
<1> DEFINE Good(r, k) ==
             /\ Descending(r.trail)
             /\ \A j \in DOMAIN r.trail : k > 0 /\ r.trail[j] >= back[k]
             /\ (\A j \in 1 .. k : act[back[j]] = "pass") => r.kind = kind
           P == {k \in 0 .. m : Good(h[k], k)}
<1>3. 0 \in P
  <2>1. h[0].trail = <<>> /\ h[0].kind = kind
    BY <1>1 DEF Response
  <2>2. 0 \in 0 .. m /\ 1 .. 0 = {} /\ DOMAIN <<>> = {}
    BY <1>2
  <2> HIDE DEF m, back
  <2>3. Descending(h[0].trail) /\ DOMAIN h[0].trail = {}
    BY <2>1, <2>2 DEF Descending
  <2> QED
    BY <2>1, <2>2, <2>3
<1>4. ASSUME NEW k \in 1 .. m, Good(h[k - 1], k - 1) PROVE Good(h[k], k)
  <2> DEFINE r == h[k - 1]
             s == back[k]
             u == h[k]
  <2>1. r \in Responded /\ s \in Names /\ s \in Nat /\ act[s] \in SendActs /\ k - 1 \in 0 .. m
    <3> HIDE DEF back, m
    <3>1. k - 1 \in 0 .. m
      BY <1>2
    <3> QED
      BY <1>1, <1>2, <3>1
  <2>2. u = PassDown(act[s], s, r)
    BY <1>1
  <2> HIDE DEF r, s, u, m, back
  <2>3. /\ u.trail \in {<<>>, r.trail, Append(r.trail, s)}
        /\ act[s] = "pass" => u.kind = r.kind
    BY <2>1, <2>2, PassDownIs
  <2>4. r.trail \in Seq(Nat) /\ Len(r.trail) \in Nat
    BY <2>1, Limits DEF Responded, Names
  <2>5. \A j \in DOMAIN r.trail : r.trail[j] \in Nat /\ r.trail[j] > s
    <3> SUFFICES ASSUME NEW j \in DOMAIN r.trail PROVE r.trail[j] \in Nat /\ r.trail[j] > s
      OBVIOUS
    <3>1. k - 1 > 0 /\ r.trail[j] >= back[k - 1]
      BY <1>4 DEF r
    <3>2. k - 1 \in 1 .. m /\ k - 1 < k
      BY <1>2, <3>1
    <3>3. back[k - 1] > s /\ back[k - 1] \in Nat
      <4>1. /\ back[k - 1] = conn[m - (k - 1) + 1] /\ s = conn[m - k + 1]
            /\ m - (k - 1) + 1 \in 1 .. m /\ m - k + 1 \in 1 .. m
            /\ m - k + 1 < m - (k - 1) + 1
        BY <1>2, <3>2 DEF s
      <4>2. conn[m - k + 1] < conn[m - (k - 1) + 1]
        BY <1>2, <4>1 DEF Ascending
      <4> QED
        BY <1>2, <2>1, <3>2, <4>1, <4>2
    <3>4. r.trail[j] \in Nat
      BY <2>4
    <3> QED
      BY <2>1, <3>1, <3>3, <3>4
  <2>6. /\ Descending(r.trail) /\ Descending(<<>>)
        /\ Descending(Append(r.trail, s))
    <3>1. Descending(r.trail)
      BY <1>4 DEF r
    <3>2. Descending(<<>>)
      BY DEF Descending
    <3> QED
      BY <2>1, <2>4, <2>5, <3>1, <3>2, AppendOrder
  <2>7. \A j \in DOMAIN Append(r.trail, s) : Append(r.trail, s)[j] >= s
    <3>1. /\ Append(r.trail, s) \in Seq(Nat) /\ Append(r.trail, s)[Len(r.trail) + 1] = s
          /\ Len(Append(r.trail, s)) = Len(r.trail) + 1
          /\ \A j \in 1 .. Len(r.trail) : Append(r.trail, s)[j] = r.trail[j]
      BY <2>1, <2>4, Appended
    <3>2. \A j \in DOMAIN Append(r.trail, s) : j \in DOMAIN r.trail \/ j = Len(r.trail) + 1
      BY <2>4, <3>1
    <3> QED
      BY <2>1, <2>4, <2>5, <3>1, <3>2
  <2>8. Descending(u.trail) /\ \A j \in DOMAIN u.trail : k > 0 /\ u.trail[j] >= s
    <3>1. k > 0
      BY <1>2
    <3>2. CASE u.trail = <<>>
      <4>1. DOMAIN <<>> = {}
        OBVIOUS
      <4> QED
        BY <2>6, <3>2, <4>1
    <3>3. CASE u.trail = r.trail
      BY <2>1, <2>5, <2>6, <3>1, <3>3
    <3>4. CASE u.trail = Append(r.trail, s)
      BY <2>6, <2>7, <3>1, <3>4
    <3> QED
      BY <2>3, <3>2, <3>3, <3>4
  <2>10. \A j \in 1 .. k - 1 : j \in 1 .. k
    BY <1>2
  <2>11. k \in 1 .. k
    BY <1>2
  <2>12. (\A j \in 1 .. k - 1 : act[back[j]] = "pass") => r.kind = kind
    BY <1>4 DEF r
  <2>13. (\A j \in 1 .. k : act[back[j]] = "pass") => u.kind = kind
    BY <2>3, <2>10, <2>11, <2>12 DEF s
  <2> QED
    BY <2>8, <2>13 DEF u, s
<1>5. Good(h[m], m)
  <2> HIDE DEF Good, m, back
  <2>1. ASSUME NEW k \in 1 .. m, k - 1 \in P PROVE k \in P
    <3>1. Good(h[k - 1], k - 1) /\ k \in 0 .. m
      BY <1>2, <2>1
    <3>2. Good(h[k], k)
      BY <1>4, <3>1
    <3> QED
      BY <3>1, <3>2
  <2>2. \A k \in 0 .. m : k \in P
    <3> HIDE DEF P
    <3> QED
      BY <1>2, <1>3, <2>1, Climb
  <2> QED
    BY <1>2, <2>2
<1>6. h[m] \in Responded /\ \A j \in 1 .. m : back[j] \in ToSet(conn)
  BY <1>1, <1>2
<1> HIDE DEF m, back
<1> QED
  BY <1>1, <1>2, <1>5, <1>6

-----------------------------------------------------------------------------
(* What the base Conn hands out and takes.                                 *)

LEMMA BaseReceiveIs ==
  ASSUME TypeOK, NEW base \in BaseReceive
  PROVE  /\ base.req \in Requested /\ base.req.trail = <<>>
         /\ base.left \in Nat /\ base.left <= left
         /\ base.req.n > 0 => base.left = left - 1 /\ base.req.n = Budget - base.left
<1>1. left \in Nat /\ left <= Budget /\ Budget \in Nat /\ MaxMsgs \in Nat /\ <<>> \in Seq(Names)
  BY Limits DEF TypeOK, Budget
<1>2. CASE shape \in OneRequest
  <2>1. /\ base = [req |-> Request(IF left = 0 THEN "eof" ELSE "req", left), left |-> 0]
        /\ Budget = 1
    BY <1>2 DEF BaseReceive, Budget
  <2>2. left \in {0, 1}
    BY <1>1, <2>1
  <2>3. CASE left = 0
    <3>1. base = [req |-> [kind |-> "eof", n |-> 0, trail |-> <<>>], left |-> 0]
      BY <2>1, <2>3 DEF Request
    <3>2. [kind |-> "eof", n |-> 0, trail |-> <<>>] \in Requested
      BY <1>1 DEF Requested
    <3> QED
      BY <2>3, <3>1, <3>2
  <2>4. CASE left = 1
    <3>1. base = [req |-> [kind |-> "req", n |-> 1, trail |-> <<>>], left |-> 0]
      BY <2>1, <2>4 DEF Request
    <3>2. [kind |-> "req", n |-> 1, trail |-> <<>>] \in Requested
      BY <1>1 DEF Requested
    <3> QED
      BY <2>1, <2>4, <3>1, <3>2
  <2> QED
    BY <2>2, <2>3, <2>4
<1>3. CASE shape \notin OneRequest
  <2>1. \/ \E k \in {"eof", "err"} : base = [req |-> Request(k, 0), left |-> 0]
        \/ left # 0 /\ base = [req |-> Request("req", MaxMsgs + 1 - left), left |-> left - 1]
    BY <1>3 DEF BaseReceive
  <2>2. Budget = MaxMsgs
    BY <1>3 DEF Budget
  <2>3. ASSUME NEW k \in {"eof", "err"}, base = [req |-> Request(k, 0), left |-> 0]
        PROVE  base.req \in Requested /\ base.req.trail = <<>> /\ base.req.n = 0 /\ base.left = 0
    BY <1>1, <2>3 DEF Request, Requested
  <2>4. ASSUME left # 0,
               base = [req |-> Request("req", MaxMsgs + 1 - left), left |-> left - 1]
        PROVE  /\ base.req \in Requested /\ base.req.trail = <<>>
               /\ base.left = left - 1 /\ base.req.n = MaxMsgs + 1 - left
    <3> DEFINE n == MaxMsgs + 1 - left
    <3>1. n \in Nat
      BY <1>1, <2>2
    <3>2. base.req = [kind |-> "req", n |-> n, trail |-> <<>>] /\ base.left = left - 1
      BY <2>4 DEF Request
    <3> HIDE DEF n
    <3>3. [kind |-> "req", n |-> n, trail |-> <<>>] \in Requested
      BY <1>1, <3>1 DEF Requested
    <3> QED
      BY <3>2, <3>3 DEF n
  <2>5. CASE \E k \in {"eof", "err"} : base = [req |-> Request(k, 0), left |-> 0]
    BY <1>1, <2>3, <2>5
  <2>6. CASE left # 0 /\ base = [req |-> Request("req", MaxMsgs + 1 - left), left |-> left - 1]
    <3>1. /\ base.req \in Requested /\ base.req.trail = <<>>
          /\ base.left = left - 1 /\ base.req.n = MaxMsgs + 1 - left
      BY <2>4, <2>6
    <3> QED
      BY <1>1, <2>2, <2>6, <3>1
  <2> QED
    BY <2>1, <2>5, <2>6
<1> QED
  BY <1>2, <1>3

(* The call that is on top.                                                *)
LEMMA TopIs ==
  ASSUME TypeOK, ChainOrder, Depth > 0
  PROVE  /\ Depth \in DOMAIN stack /\ Depth \in DOMAIN chain /\ Depth \in Nat
         /\ Top \in Frame /\ Top.conn \in Seq(Names) /\ Ascending(Top.conn)
         /\ \A i \in DOMAIN Top.conn : Top.conn[i] < chain[Depth]
         /\ Len(chain) \in Nat /\ chain[Depth] \in 1 .. Handler
<1>1. /\ stack \in Seq(Frame) /\ chain \in Seq(1 .. Handler)
      /\ Len(stack) \in Nat /\ Len(chain) \in Nat
      /\ Len(stack) <= Len(chain)
  BY DEF TypeOK, ChainOrder
<1>2. Depth \in DOMAIN stack /\ Depth \in DOMAIN chain /\ Depth \in Nat
  BY <1>1 DEF Depth
<1>3. stack[Depth] \in Frame
  BY <1>1, <1>2
<1>5. chain[Depth] \in 1 .. Handler
  <2> DEFINE H == 1 .. Handler
             d == Depth
  <2>1. chain \in Seq(H) /\ d \in DOMAIN chain
    BY <1>1, <1>2
  <2> HIDE DEF H, d
  <2>2. chain[d] \in H
    BY <2>1
  <2> QED
    BY <2>2 DEF H, d
<1>4. /\ Ascending(stack[Depth].conn)
      /\ \A i \in DOMAIN stack[Depth].conn : stack[Depth].conn[i] < chain[Depth]
  BY <1>2 DEF ChainOrder
<1> QED
  BY <1>1, <1>2, <1>3, <1>4, <1>5 DEF Top, Frame

(* A call of Receive, whoever makes it.                                    *)
LEMMA ReceiveIs ==
  ASSUME TypeOK, ChainOrder, HandedOut, Depth > 0,
         NEW act \in [ToSet(Top.conn) -> ReceiveActs], NEW base \in BaseReceive,
         left' = LeftAfter(Top.conn, act, base)
  PROVE  /\ left' \in 0 .. Budget /\ left' <= left
         /\ Received(Top.conn, act, base) \in Requested
         /\ Ascending(Received(Top.conn, act, base).trail)
         /\ Received(Top.conn, act, base).n <= Budget - left'
         /\ Received(Top.conn, act, base).n > 0
              => \A i \in DOMAIN seen : seen[i].n < Received(Top.conn, act, base).n
<1> DEFINE r == Received(Top.conn, act, base)
<1>1. Top.conn \in Seq(Names) /\ Ascending(Top.conn)
  BY TopIs
<1>2. /\ base.req \in Requested /\ base.req.trail = <<>>
      /\ base.left \in Nat /\ base.left <= left
      /\ base.req.n > 0 => base.left = left - 1 /\ base.req.n = Budget - base.left
  BY BaseReceiveIs
<1>3. /\ r \in Requested /\ r.n \in {0, base.req.n}
      /\ (\E s \in ToSet(Top.conn) : act[s] \in Alone) => r.n = 0
      /\ Ascending(r.trail)
  BY <1>1, <1>2, ReceivedIs
<1> HIDE DEF r
<1>4. left \in Nat /\ left <= Budget /\ Budget \in Nat
  BY Limits DEF TypeOK, Budget
<1>5. (left' = left /\ r.n = 0) \/ left' = base.left
  BY <1>3 DEF LeftAfter
<1>6. left' \in 0 .. Budget /\ left' <= left
  BY <1>2, <1>4, <1>5
<1>7. base.req.n \in Nat /\ r.n \in Nat
  BY <1>2, <1>3 DEF Requested
<1>8. r.n > 0 => left' = left - 1 /\ r.n = Budget - left'
  BY <1>2, <1>3, <1>5, <1>7
<1>9. r.n <= Budget - left'
  BY <1>4, <1>6, <1>7, <1>8
<1>10. ASSUME r.n > 0, NEW i \in DOMAIN seen PROVE seen[i].n < r.n
  <2>1. seen[i].n <= Budget - left
    BY <1>10 DEF HandedOut
  <2>2. seen[i] \in Requested
    BY <1>10 DEF TypeOK
  <2>3. seen[i].n \in Nat
    BY <2>2, RequestType
  <2> QED
    BY <1>4, <1>6, <1>7, <1>8, <1>10, <2>1, <2>3
<1> QED
  BY <1>3, <1>6, <1>9, <1>10 DEF r

(* The history of requests, when the handler gets another.                 *)
LEMMA SeenGrows ==
  ASSUME seen \in Seq(Requested), NEW r \in Requested, NEW limit \in Nat,
         \A i \in DOMAIN seen : seen[i].n <= limit /\ Ascending(seen[i].trail),
         RequestsOnce, Ascending(r.trail), r.n <= limit,
         r.n > 0 => \A i \in DOMAIN seen : seen[i].n < r.n,
         seen' = Append(seen, r)
  PROVE  /\ seen' \in Seq(Requested) /\ RequestsOnce'
         /\ \A i \in DOMAIN seen' : seen'[i].n <= limit /\ Ascending(seen'[i].trail)
<1>1. /\ seen' \in Seq(Requested) /\ Len(seen') = Len(seen) + 1 /\ seen'[Len(seen) + 1] = r
      /\ \A k \in 1 .. Len(seen) : seen'[k] = seen[k]
  BY Appended
<1>2. DOMAIN seen = 1 .. Len(seen) /\ DOMAIN seen' = 1 .. Len(seen) + 1 /\ Len(seen) \in Nat
  BY <1>1
<1>3. \A i \in DOMAIN seen' : (i \in DOMAIN seen /\ seen'[i] = seen[i]) \/ seen'[i] = r
  BY <1>1, <1>2
<1>4. \A i, j \in DOMAIN seen' : i < j => i \in DOMAIN seen
  BY <1>2
<1>5. RequestsOnce'
  <2> SUFFICES ASSUME NEW i \in DOMAIN seen', NEW j \in DOMAIN seen', i < j,
                      seen'[i].n > 0, seen'[j].n > 0
               PROVE  seen'[i].n < seen'[j].n
    BY DEF RequestsOnce
  <2>1. i \in DOMAIN seen /\ seen'[i] = seen[i]
    BY <1>2, <1>3, <1>4
  <2>2. CASE j \in DOMAIN seen /\ seen'[j] = seen[j]
    BY <2>1, <2>2 DEF RequestsOnce
  <2>3. CASE seen'[j] = r
    BY <2>1, <2>3
  <2> QED
    BY <1>3, <2>2, <2>3
<1> QED
  BY <1>1, <1>3, <1>5

(* A response on its way to the transport.                                 *)
LEMMA ArriveIs ==
  ASSUME TypeOK, OnionOrder, NoNilOnWire, NEW r \in Responded, Descending(r.trail),
         NEW err \in BOOLEAN, Arrive(r, err)
  PROVE  /\ result' \in {"none", "nilmsg", "resp"} /\ sends' \in Nat
         /\ out' \in Seq(Responded)
         /\ \A i \in DOMAIN out' : out'[i].kind = "resp" /\ Descending(out'[i].trail)
<1>1. sends' \in Nat
  BY DEF Arrive, TypeOK
<1>2. r.kind \in {"resp", "nilmsg", "foreign", "nil", "drop", "fail"}
  BY DEF Responded, Responses
<1>3. /\ out \in Seq(Responded) /\ result \in {"none", "nilmsg", "resp"}
      /\ \A i \in DOMAIN out : out[i].kind = "resp" /\ Descending(out[i].trail)
  BY DEF TypeOK, NoNilOnWire, OnionOrder
<1>4. CASE Refused(r) \/ r.kind = "drop"
  BY <1>1, <1>3, <1>4 DEF Arrive
<1>5. CASE ~(Refused(r) \/ r.kind = "drop") /\ shape \in OneResponse
  <2>1. UNCHANGED out /\ result' = (IF r.kind = "nil" THEN result ELSE r.kind)
    BY <1>5 DEF Arrive
  <2>2. r.kind \in {"resp", "nilmsg", "nil"}
    BY <1>2, <1>5 DEF Refused
  <2> QED
    BY <1>1, <1>3, <2>1, <2>2
<1>6. CASE ~(Refused(r) \/ r.kind = "drop") /\ shape \notin OneResponse
  <2>1. UNCHANGED result /\ out' = (IF err THEN out ELSE Append(out, r))
    BY <1>6 DEF Arrive
  <2>2. r.kind = "resp"
    BY <1>2, <1>6 DEF Refused
  <2>3. CASE err
    BY <1>1, <1>3, <2>1, <2>3
  <2>4. CASE ~err
    <3>1. /\ out' \in Seq(Responded) /\ Len(out') = Len(out) + 1 /\ out'[Len(out) + 1] = r
          /\ \A k \in 1 .. Len(out) : out'[k] = out[k]
      BY <1>3, <2>1, <2>4, Appended
    <3>2. \A i \in DOMAIN out' : (i \in DOMAIN out /\ out'[i] = out[i]) \/ out'[i] = r
      BY <1>3, <3>1
    <3> QED
      BY <1>1, <1>3, <2>1, <2>2, <3>1, <3>2
  <2> QED
    BY <2>3, <2>4
<1> QED
  BY <1>4, <1>5, <1>6

-----------------------------------------------------------------------------
(* The calls in progress.                                                  *)

(* Call d of the stack becomes f.                                          *)
LEMMA Replaced ==
  ASSUME NEW q \in Seq(Frame), NEW d \in DOMAIN q, NEW f \in Frame,
         NEW r, r = [q EXCEPT ![d] = f]
  PROVE  /\ r \in Seq(Frame) /\ Len(r) = Len(q)
         /\ \A k \in DOMAIN q : r[k] = IF k = d THEN f ELSE q[k]
<1>1. r \in [1 .. Len(q) -> Frame] /\ Len(q) \in Nat
  OBVIOUS
<1> QED
  BY <1>1, Listed

LEMMA FrameIs ==
  ASSUME NEW f \in Frame
  PROVE  /\ f.conn \in Seq(Names) /\ f.calls \in Nat /\ f.running \in BOOLEAN
         /\ [f EXCEPT !.calls = @ + 1]
              = [conn |-> f.conn, calls |-> f.calls + 1, running |-> f.running]
         /\ [f EXCEPT !.running = TRUE]
              = [conn |-> f.conn, calls |-> f.calls, running |-> TRUE]
<1>1. f.conn \in Seq(Names) /\ f.calls \in Nat /\ f.running \in BOOLEAN
  BY DEF Frame
<1>2. [f EXCEPT !.calls = @ + 1]
        = [conn |-> f.conn, calls |-> f.calls + 1, running |-> f.running]
  BY DEF Frame
<1>3. [f EXCEPT !.running = TRUE]
        = [conn |-> f.conn, calls |-> f.calls, running |-> TRUE]
  <2>1. ASSUME NEW b
        PROVE  [f EXCEPT !.running = b] = [conn |-> f.conn, calls |-> f.calls, running |-> b]
    BY DEF Frame
  <2> QED
    BY <2>1, Zenon
<1> QED
  BY <1>1, <1>2, <1>3

(* Call d of the stack keeps its Conn and runs the handler, if at all.     *)
Placed(f, d) ==
  /\ Ascending(f.conn) /\ (\A i \in DOMAIN f.conn : f.conn[i] < chain[d])
  /\ f.running => chain[d] = Handler

LEMMA PlacedIs ==
  ASSUME TypeOK, ChainOrder
  PROVE  /\ stack \in Seq(Frame) /\ Len(stack) \in Nat /\ Len(stack) <= Len(chain)
         /\ \A d \in DOMAIN stack : Placed(stack[d], d)
BY DEF TypeOK, ChainOrder, Placed

LEMMA ChainOrderIs ==
  ASSUME ChainOrder, chain' = chain, Len(stack') <= Len(chain),
         \A d \in DOMAIN stack' : Placed(stack'[d], d)
  PROVE  ChainOrder'
BY DEF ChainOrder, Placed

LEMMA StackPushed ==
  ASSUME TypeOK, ChainOrder, NEW wrap \in BOOLEAN, CallNext(wrap)
  PROVE  stack' \in Seq(Frame) /\ ChainOrder'
<1> DEFINE c == Top.calls
           f == [conn |-> Top.conn, calls |-> Top.calls + 1, running |-> Top.running]
           conn == IF wrap THEN Append(Top.conn, chain[Depth]) ELSE Top.conn
           e == [conn |-> conn, calls |-> 0, running |-> FALSE]
           q == [stack EXCEPT ![Depth] = f]
<1>1. /\ Depth > 0 /\ chain[Depth] # Handler /\ chain' = chain
      /\ stack' = Append([stack EXCEPT ![Depth].calls = @ + 1], e)
  BY DEF CallNext, InInterceptor, Call
<1>2. /\ Depth \in DOMAIN stack /\ Depth \in DOMAIN chain /\ Depth \in Nat
      /\ Top \in Frame /\ Top.conn \in Seq(Names) /\ Ascending(Top.conn)
      /\ \A i \in DOMAIN Top.conn : Top.conn[i] < chain[Depth]
      /\ Len(chain) \in Nat /\ chain[Depth] \in 1 .. Handler
  BY <1>1, TopIs
<1>3. f \in Frame /\ Placed(f, Depth)
  <2>1. f \in Frame
    BY <1>2 DEF Frame
  <2>2. Top.running => chain[Depth] = Handler
    BY <1>2 DEF ChainOrder, Top
  <2> QED
    BY <1>2, <2>1, <2>2 DEF Placed
<1>4. [stack EXCEPT ![Depth].calls = @ + 1] = q
  <2>1. [Top EXCEPT !.calls = @ + 1] = f
    BY <1>2, FrameIs
  <2> QED
    BY <2>1 DEF Top
<1>5. /\ q \in Seq(Frame) /\ Len(q) = Depth
      /\ \A k \in DOMAIN stack : q[k] = IF k = Depth THEN f ELSE stack[k]
  <2> HIDE DEF f
  <2>1. stack \in Seq(Frame)
    BY DEF TypeOK
  <2> QED
    BY <1>2, <1>3, <2>1, Replaced DEF Depth
<1>6. Depth + 1 <= Len(chain) /\ chain[Depth] \in Names /\ chain[Depth] < chain[Depth + 1]
  <2>1. Depth # Len(chain) /\ Depth <= Len(chain)
    BY <1>1, <1>2 DEF ChainOrder, Depth
  <2>2. Slots \in Nat /\ Handler = Slots + 1
    BY Limits DEF Handler
  <2>3. chain[Depth] \in Names
    BY <1>1, <1>2, <2>2 DEF Names
  <2>4. Depth + 1 <= Len(chain) /\ Depth < Depth + 1 /\ Depth + 1 \in 1 .. Len(chain)
    BY <1>2, <2>1
  <2>5. DOMAIN chain = 1 .. Len(chain)
    BY DEF TypeOK
  <2> QED
    BY <1>2, <2>3, <2>4, <2>5 DEF ChainOrder, Ascending
<1>7. e \in Frame /\ Placed(e, Depth + 1)
  <2> DEFINE t == Top.conn
             s == chain[Depth]
  <2>1. /\ t \in Seq(Names) /\ t \in Seq(Nat) /\ s \in Names /\ s \in Nat /\ Ascending(t)
        /\ \A i \in DOMAIN t : t[i] < s /\ t[i] \in Nat
        /\ chain[Depth + 1] \in Nat /\ s < chain[Depth + 1]
    <3>1. Names \subseteq Nat
      BY DEF Names
    <3>2. chain[Depth + 1] \in Nat
      <4> DEFINE d == Depth + 1
                 H == 1 .. Handler
      <4>1. chain \in Seq(H) /\ d \in 1 .. Len(chain) /\ H \subseteq Nat
        BY <1>2, <1>6 DEF TypeOK
      <4> HIDE DEF d, H
      <4>2. chain[d] \in H
        BY <4>1
      <4> QED
        BY <4>1, <4>2 DEF d
    <3> HIDE DEF t, s
    <3>3. t \in Seq(Names) /\ s \in Names /\ Ascending(t) /\ \A i \in DOMAIN t : t[i] < s
      BY <1>2, <1>6 DEF t, s
    <3>4. t \in Seq(Nat) /\ s \in Nat /\ \A i \in DOMAIN t : t[i] \in Nat
      <4>1. t \in [1 .. Len(t) -> Nat] /\ Len(t) \in Nat
        BY <3>3, Limits DEF Names
      <4> QED
        BY <3>1, <3>3, <4>1
    <3>5. s < chain[Depth + 1]
      BY <1>6 DEF s
    <3> QED
      BY <3>2, <3>3, <3>4, <3>5
  <2> HIDE DEF t, s
  <2>2. conn = IF wrap THEN Append(t, s) ELSE t
    BY DEF t, s
  <2> HIDE DEF conn
  <2>3. /\ Append(t, s) \in Seq(Names) /\ Len(Append(t, s)) = Len(t) + 1
        /\ Append(t, s)[Len(t) + 1] = s
        /\ \A k \in 1 .. Len(t) : Append(t, s)[k] = t[k]
    BY <2>1, Appended
  <2>4. Ascending(Append(t, s))
    BY <2>1, AppendOrder
  <2>5. \A i \in DOMAIN Append(t, s) : i \in DOMAIN t \/ i = Len(t) + 1
    BY <2>1, <2>3
  <2>6. \A i \in DOMAIN Append(t, s) : Append(t, s)[i] < chain[Depth + 1]
    <3> SUFFICES ASSUME NEW i \in DOMAIN Append(t, s)
                 PROVE  Append(t, s)[i] < chain[Depth + 1]
      OBVIOUS
    <3>1. CASE i \in DOMAIN t
      <4>1. Append(t, s)[i] = t[i] /\ t[i] < s /\ t[i] \in Nat
        BY <2>1, <2>3, <3>1
      <4> QED
        BY <2>1, <4>1
    <3>2. CASE i = Len(t) + 1
      BY <2>1, <2>3, <3>2
    <3> QED
      BY <2>5, <3>1, <3>2
  <2>7. \A i \in DOMAIN t : t[i] < chain[Depth + 1]
    BY <2>1
  <2>8. /\ conn \in Seq(Names) /\ Ascending(conn)
        /\ \A i \in DOMAIN conn : conn[i] < chain[Depth + 1]
    BY <2>1, <2>2, <2>3, <2>4, <2>6, <2>7
  <2> QED
    BY <2>8 DEF Frame, Placed
<1>8. /\ stack' \in Seq(Frame) /\ Len(stack') = Depth + 1 /\ stack'[Depth + 1] = e
      /\ \A k \in 1 .. Depth : stack'[k] = q[k]
  <2> HIDE DEF q, e, f
  <2>1. stack' = Append(q, e) /\ e \in Frame
    BY <1>1, <1>4, <1>7
  <2> QED
    BY <1>5, <2>1, Appended
<1>9. \A d \in DOMAIN stack' : Placed(stack'[d], d)
  <2> SUFFICES ASSUME NEW d \in DOMAIN stack' PROVE Placed(stack'[d], d)
    OBVIOUS
  <2> HIDE DEF q, e, f
  <2>1. d \in DOMAIN stack \/ d = Depth + 1
    BY <1>2, <1>8 DEF Depth, TypeOK
  <2>2. CASE d \in DOMAIN stack
    <3>1. d \in 1 .. Depth
      BY <2>2 DEF Depth, TypeOK
    <3>2. stack'[d] = IF d = Depth THEN f ELSE stack[d]
      BY <1>5, <1>8, <2>2, <3>1
    <3> QED
      BY <1>3, <2>2, <3>2, PlacedIs
  <2>3. CASE d = Depth + 1
    BY <1>7, <1>8, <2>3
  <2> QED
    BY <2>1, <2>2, <2>3
<1> QED
  BY <1>1, <1>6, <1>8, <1>9, ChainOrderIs

LEMMA StackPopped ==
  ASSUME TypeOK, ChainOrder, Depth > 0, chain' = chain, NEW err \in BOOLEAN, Return(err)
  PROVE  /\ stack' \in Seq(Frame) /\ ChainOrder' /\ ret' \in {"ok", "err"}
         /\ Len(stack') = Depth - 1
         /\ \A d \in 1 .. Depth - 1 : stack'[d] = stack[d]
<1>1. stack \in Seq(Frame) /\ Depth = Len(stack) /\ Depth \in Nat
  BY DEF TypeOK, Depth
<1>2. stack' = [k \in 1 .. Len(stack) - 1 |-> stack[k]]
  BY DEF Return, Front
<1>3. stack' \in [1 .. Depth - 1 -> Frame] /\ Depth - 1 \in Nat
  BY <1>1, <1>2
<1>4. stack' \in Seq(Frame) /\ Len(stack') = Depth - 1
  BY <1>3, Listed
<1>5. \A d \in 1 .. Depth - 1 : stack'[d] = stack[d]
  BY <1>1, <1>2
<1>6. \A d \in DOMAIN stack' : d \in 1 .. Depth - 1 /\ d \in DOMAIN stack
  BY <1>1, <1>3
<1>7. \A d \in DOMAIN stack' : Placed(stack'[d], d)
  BY <1>5, <1>6, PlacedIs
<1>8. Len(stack') <= Len(chain)
  BY <1>1, <1>4 DEF ChainOrder, TypeOK
<1>9. ret' \in {"ok", "err"}
  BY DEF Return
<1> QED
  BY <1>4, <1>5, <1>7, <1>8, <1>9, ChainOrderIs

LEMMA StackMarked ==
  ASSUME TypeOK, ChainOrder, InHandler, chain' = chain,
         stack' = [stack EXCEPT ![Depth].running = TRUE]
  PROVE  /\ stack' \in Seq(Frame) /\ ChainOrder' /\ Len(stack') = Depth
         /\ \A d \in DOMAIN stack :
              stack'[d] = IF d = Depth THEN [conn |-> Top.conn, calls |-> Top.calls, running |-> TRUE]
                          ELSE stack[d]
<1> DEFINE f == [conn |-> Top.conn, calls |-> Top.calls, running |-> TRUE]
<1>1. /\ Depth \in DOMAIN stack /\ Depth \in Nat
      /\ Top \in Frame /\ Top.conn \in Seq(Names) /\ Ascending(Top.conn)
      /\ \A i \in DOMAIN Top.conn : Top.conn[i] < chain[Depth]
  BY TopIs DEF InHandler
<1>2. f \in Frame /\ Placed(f, Depth)
  BY <1>1 DEF Frame, Placed, InHandler
<1>3. stack' = [stack EXCEPT ![Depth] = f]
  <2>1. [Top EXCEPT !.running = TRUE] = f
    BY <1>1, FrameIs, Zenon
  <2> QED
    BY <2>1 DEF Top
<1> HIDE DEF f
<1>4. stack \in Seq(Frame) /\ Depth = Len(stack)
  BY DEF TypeOK, Depth
<1>5. /\ stack' \in Seq(Frame) /\ Len(stack') = Depth
      /\ \A d \in DOMAIN stack : stack'[d] = IF d = Depth THEN f ELSE stack[d]
  <2>1. /\ stack' \in Seq(Frame) /\ Len(stack') = Len(stack)
        /\ \A d \in DOMAIN stack : stack'[d] = IF d = Depth THEN f ELSE stack[d]
    <3> DEFINE q == stack
               d == Depth
               r == stack'
    <3>1. q \in Seq(Frame) /\ d \in DOMAIN q /\ f \in Frame /\ r = [q EXCEPT ![d] = f]
      BY <1>1, <1>2, <1>3, <1>4
    <3> HIDE DEF q, d, r
    <3>2. /\ r \in Seq(Frame) /\ Len(r) = Len(q)
          /\ \A k \in DOMAIN q : r[k] = IF k = d THEN f ELSE q[k]
      BY <3>1, Replaced
    <3> QED
      BY <3>2, Zenon DEF q, d, r
  <2> QED
    BY <1>4, <2>1
<1>6. \A d \in DOMAIN stack' : d \in DOMAIN stack
  BY <1>4, <1>5
<1>7. \A d \in DOMAIN stack' : Placed(stack'[d], d)
  BY <1>2, <1>5, <1>6, PlacedIs
<1>8. Len(stack') <= Len(chain)
  BY <1>4, <1>5 DEF ChainOrder
<1> QED
  BY <1>5, <1>7, <1>8, ChainOrderIs DEF f

-----------------------------------------------------------------------------
(* The steps, whatever the interceptors do.                                *)

Safe == TypeOK /\ ChainOrder /\ HandedOut /\ RequestsOnce /\ OnionOrder /\ NoNilOnWire

(* What the histories of a step may look like.                             *)
SeenOK(upTo) ==
  /\ seen \in Seq(Requested) /\ RequestsOnce
  /\ \A i \in DOMAIN seen : seen[i].n <= upTo /\ Ascending(seen[i].trail)

OutOK ==
  /\ result \in {"none", "nilmsg", "resp"} /\ sends \in Nat /\ out \in Seq(Responded)
  /\ \A i \in DOMAIN out : out[i].kind = "resp" /\ Descending(out[i].trail)

StackOK == stack \in Seq(Frame) /\ ChainOrder

LEMMA SafeHas ==
  ASSUME Safe
  PROVE  /\ SeenOK(Budget - left) /\ OutOK /\ StackOK
         /\ left \in 0 .. Budget /\ Budget \in Nat
         /\ runs \in Nat /\ ret \in {"none", "ok", "err"}
<1>1. SeenOK(Budget - left)
  BY DEF Safe, SeenOK, TypeOK, HandedOut, OnionOrder
<1>2. OutOK
  BY DEF Safe, OutOK, TypeOK, NoNilOnWire, OnionOrder
<1>3. Budget \in Nat
  BY Limits DEF Budget
<1> QED
  BY <1>1, <1>2, <1>3 DEF Safe, StackOK, TypeOK

(* A step inside the call keeps them together.                             *)
LEMMA Kept ==
  ASSUME Safe, UNCHANGED <<passive, shape, chain, wire>>, wire = "none",
         StackOK', left' \in 0 .. Budget, SeenOK(Budget - left)', OutOK',
         runs' \in Nat, ret' \in {"none", "ok", "err"}
  PROVE  Safe'
<1>1. Budget' = Budget
  BY DEF Budget
<1>2. TypeOK'
  <2> HIDE DEF Budget
  <2> QED
    BY <1>1 DEF Safe, TypeOK, StackOK, SeenOK, OutOK
<1>3. HandedOut'
  BY DEF HandedOut, SeenOK
<1>4. OnionOrder' /\ NoNilOnWire'
  BY DEF OnionOrder, NoNilOnWire, SeenOK, OutOK
<1> QED
  BY <1>2, <1>3, <1>4 DEF Safe, StackOK, SeenOK

LEMMA NotAnswered ==
  ASSUME Safe, Depth > 0 \/ ret = "none"
  PROVE  wire = "none"
<1>1. Depth > 0 => stack # <<>>
  BY DEF Depth
<1> QED
  BY <1>1 DEF Safe, HandedOut

LEMMA SeenKept ==
  ASSUME Safe, UNCHANGED <<shape, seen>>, left' \in 0 .. Budget, left' <= left
  PROVE  SeenOK(Budget - left)'
<1>1. SeenOK(Budget - left) /\ left \in Nat /\ Budget \in Nat
  BY SafeHas
<1>2. Budget' = Budget /\ left' \in Nat
  <2>1. Budget' = Budget
    BY DEF Budget
  <2> QED
    BY <1>1, <2>1
<1>3. ASSUME NEW i \in DOMAIN seen PROVE seen[i].n <= Budget - left'
  <2>1. seen[i].n <= Budget - left
    BY <1>1, <1>3 DEF SeenOK
  <2>2. seen[i] \in Requested
    BY <1>1, <1>3 DEF SeenOK
  <2>3. seen[i].n \in Nat
    BY <2>2, RequestType
  <2> QED
    BY <1>1, <1>2, <2>1, <2>3
<1>4. RequestsOnce'
  BY <1>1 DEF SeenOK, RequestsOnce
<1> QED
  BY <1>1, <1>2, <1>3, <1>4 DEF SeenOK

LEMMA OutKept ==
  ASSUME Safe, UNCHANGED <<result, out, sends>>
  PROVE  OutOK'
BY SafeHas DEF OutOK

LEMMA StackKept ==
  ASSUME Safe, UNCHANGED <<chain, stack>>
  PROVE  StackOK'
BY SafeHas DEF StackOK, ChainOrder

(* A step that only moves between the calls.                               *)
LEMMA SafeMove ==
  ASSUME Safe, StackOK', Depth > 0 \/ ret = "none",
         UNCHANGED <<passive, shape, chain, left, result, wire, seen, out, sends>>,
         runs' \in Nat, ret' \in {"none", "ok", "err"}
  PROVE  Safe'
<1>1. left' \in 0 .. Budget /\ left' <= left
  BY SafeHas
<1> QED
  BY <1>1, SeenKept, OutKept, NotAnswered, Kept

LEMMA SafeInvoke ==
  ASSUME Safe, Invoke
  PROVE  Safe'
<1>1. stack' = <<Call(<<>>)>> /\ chain' = chain /\ ret = "none"
  BY DEF Invoke
<1>2. Call(<<>>) = [conn |-> <<>>, calls |-> 0, running |-> FALSE]
  BY DEF Call
<1>3. Call(<<>>) \in Frame /\ Placed(Call(<<>>), 1)
  <2>1. <<>> \in Seq(Names) /\ DOMAIN <<>> = {}
    OBVIOUS
  <2>2. Call(<<>>) \in Frame
    <3>1. [conn |-> <<>>, calls |-> 0, running |-> FALSE] \in Frame
      BY <2>1 DEF Frame
    <3> QED
      BY <1>2, <3>1
  <2>3. Call(<<>>).conn = <<>> /\ Call(<<>>).running = FALSE
    BY <1>2
  <2> HIDE DEF Call
  <2> QED
    BY <2>1, <2>2, <2>3 DEF Placed, Ascending
<1>4. stack' \in Seq(Frame) /\ DOMAIN stack' = {1} /\ Len(stack') = 1 /\ stack'[1] = Call(<<>>)
  BY <1>1, <1>3
<1>5. Len(stack') <= Len(chain)
  BY <1>4 DEF Safe, ChainOrder, TypeOK
<1>6. ChainOrder'
  BY <1>1, <1>3, <1>4, <1>5, ChainOrderIs DEF Safe
<1>7. runs' \in Nat /\ ret' \in {"none", "ok", "err"}
  BY SafeHas DEF Invoke
<1> QED
  BY <1>1, <1>4, <1>6, <1>7, SafeMove DEF Invoke, StackOK

LEMMA SafeCallNext ==
  ASSUME Safe, NEW wrap \in BOOLEAN, CallNext(wrap)
  PROVE  Safe'
<1>1. StackOK'
  BY StackPushed DEF Safe, StackOK
<1>2. runs' \in Nat /\ ret' \in {"none", "ok", "err"}
  BY SafeHas DEF CallNext
<1> QED
  BY <1>1, <1>2, SafeMove DEF CallNext, InInterceptor

LEMMA SafeReturn ==
  ASSUME Safe, Depth > 0, NEW err \in BOOLEAN, Return(err),
         UNCHANGED <<passive, shape, chain, left, result, wire, seen, out, runs, sends>>
  PROVE  Safe'
<1>1. StackOK' /\ ret' \in {"ok", "err"}
  BY StackPopped DEF Safe, StackOK
<1>2. runs' \in Nat
  BY SafeHas
<1> QED
  BY <1>1, <1>2, SafeMove

LEMMA SafeInterceptorReceive ==
  ASSUME Safe, InterceptorReceive
  PROVE  Safe'
<1>1. PICK act \in [ToSet(Top.conn) -> ReceiveActs], base \in BaseReceive :
         left' = LeftAfter(Top.conn, act, base)
  BY DEF InterceptorReceive
<1>2. Depth > 0
  BY DEF InterceptorReceive, InInterceptor
<1>3. left' \in 0 .. Budget /\ left' <= left
  BY <1>1, <1>2, ReceiveIs DEF Safe
<1>4. runs' \in Nat /\ ret' \in {"none", "ok", "err"}
  BY SafeHas DEF InterceptorReceive
<1> QED
  BY <1>2, <1>3, <1>4, SeenKept, OutKept, StackKept, NotAnswered, Kept DEF InterceptorReceive

(* What the wrappers let through on the way down is fit to arrive.         *)
LEMMA SentArrives ==
  ASSUME Safe, Depth > 0, NEW act \in [ToSet(Top.conn) -> SendActs],
         NEW kind \in Responses
  PROVE  /\ Sent(Top.conn, act, kind) \in Responded
         /\ Descending(Sent(Top.conn, act, kind).trail)
<1>1. Top.conn \in Seq(Names) /\ Ascending(Top.conn)
  BY TopIs DEF Safe
<1> QED
  BY <1>1, SentIs

LEMMA OutArrives ==
  ASSUME Safe, NEW r \in Responded, Descending(r.trail), NEW err \in BOOLEAN, Arrive(r, err)
  PROVE  OutOK'
BY ArriveIs DEF Safe, OutOK

LEMMA SafeInterceptorSend ==
  ASSUME Safe, InterceptorSend
  PROVE  Safe'
<1>1. PICK act \in [ToSet(Top.conn) -> SendActs], kind \in Responses, err \in BOOLEAN :
         Arrive(Sent(Top.conn, act, kind), err)
  BY DEF InterceptorSend
<1>2. Depth > 0
  BY DEF InterceptorSend, InInterceptor
<1>3. OutOK'
  BY <1>1, <1>2, SentArrives, OutArrives
<1>4. runs' \in Nat /\ ret' \in {"none", "ok", "err"} /\ left' \in 0 .. Budget /\ left' <= left
  BY SafeHas DEF InterceptorSend
<1> QED
  BY <1>2, <1>3, <1>4, SeenKept, StackKept, NotAnswered, Kept DEF InterceptorSend

(* What the typed handler gets has been through a Receive.                 *)
LEMMA CastIs ==
  ASSUME NEW r, CastRequest(r).kind = "req"
  PROVE  CastRequest(r) = r
BY DEF CastRequest, Request

LEMMA HandlerGets ==
  ASSUME Safe, Depth > 0, NEW act \in [ToSet(Top.conn) -> ReceiveActs], NEW base \in BaseReceive,
         left' = LeftAfter(Top.conn, act, base), shape' = shape,
         seen' = seen \/ /\ CastRequest(Received(Top.conn, act, base)).kind = "req"
                         /\ seen' = Append(seen, CastRequest(Received(Top.conn, act, base)))
  PROVE  left' \in 0 .. Budget /\ SeenOK(Budget - left)'
<1> DEFINE r == Received(Top.conn, act, base)
<1>1. /\ left' \in 0 .. Budget /\ left' <= left
      /\ r \in Requested /\ Ascending(r.trail) /\ r.n <= Budget - left'
      /\ r.n > 0 => \A i \in DOMAIN seen : seen[i].n < r.n
  BY ReceiveIs DEF Safe
<1>2. CASE seen' = seen
  BY <1>1, <1>2, SeenKept
<1>3. CASE seen' = Append(seen, CastRequest(r)) /\ CastRequest(r).kind = "req"
  <2>1. seen' = Append(seen, r)
    BY <1>3, CastIs
  <2> HIDE DEF r
  <2> DEFINE limit == Budget - left'
  <2>2. SeenOK(Budget - left) /\ left \in Nat /\ Budget \in Nat /\ left' \in Nat /\ limit \in Nat
    BY <1>1, SafeHas
  <2>3. ASSUME NEW i \in DOMAIN seen PROVE seen[i].n <= limit /\ Ascending(seen[i].trail)
    <3>1. seen[i].n <= Budget - left /\ seen[i] \in Requested /\ Ascending(seen[i].trail)
      BY <2>2, <2>3 DEF SeenOK
    <3>2. seen[i].n \in Nat
      BY <3>1, RequestType
    <3> QED
      BY <1>1, <2>2, <3>1, <3>2
  <2>4. r.n <= limit
    BY <1>1
  <2> HIDE DEF limit
  <2>5. /\ seen' \in Seq(Requested) /\ RequestsOnce'
        /\ \A i \in DOMAIN seen' : seen'[i].n <= limit /\ Ascending(seen'[i].trail)
    <3>1. seen \in Seq(Requested) /\ RequestsOnce
      BY <2>2 DEF SeenOK
    <3> QED
      BY <1>1, <2>1, <2>2, <2>3, <2>4, <3>1, SeenGrows
  <2>6. Budget' = Budget
    BY DEF Budget
  <2> QED
    BY <1>1, <2>5, <2>6 DEF SeenOK, limit
<1> QED
  BY <1>2, <1>3

LEMMA SafeEnterWithRequest ==
  ASSUME Safe, InHandler, NEW act \in [ToSet(Top.conn) -> ReceiveActs], EnterWithRequest(act)
  PROVE  Safe'
<1>1. PICK base \in BaseReceive :
         /\ left' = LeftAfter(Top.conn, act, base)
         /\ LET r == CastRequest(Received(Top.conn, act, base))
            IN  IF r.kind = "req" THEN Get(r) ELSE Return(TRUE) /\ UNCHANGED <<seen, runs>>
  BY DEF EnterWithRequest
<1> DEFINE r == CastRequest(Received(Top.conn, act, base))
<1>2. Depth > 0 /\ UNCHANGED <<passive, shape, chain, result, wire, out, sends>>
  BY DEF EnterWithRequest, InHandler
<1>3. left' \in 0 .. Budget /\ SeenOK(Budget - left)'
  <2>1. seen' = seen \/ (r.kind = "req" /\ seen' = Append(seen, r))
    BY <1>1 DEF Get
  <2> QED
    BY <1>1, <1>2, <2>1, HandlerGets
<1>4. StackOK' /\ runs' \in Nat /\ ret' \in {"none", "ok", "err"}
  <2>1. CASE Get(r)
    <3>1. /\ stack' = [stack EXCEPT ![Depth].running = TRUE]
          /\ ret' = ret /\ runs' = runs + 1
      BY <2>1 DEF Get
    <3>2. StackOK'
      BY <1>2, <3>1, StackMarked DEF Safe, StackOK
    <3> QED
      BY <3>1, <3>2, SafeHas
  <2>2. CASE Return(TRUE) /\ runs' = runs
    BY <1>2, <2>2, StackPopped, SafeHas DEF Safe, StackOK
  <2> QED
    BY <1>1, <2>1, <2>2
<1> QED
  BY <1>2, <1>3, <1>4, OutKept, NotAnswered, Kept

LEMMA SafeEnterWithStream ==
  ASSUME Safe, InHandler, EnterWithStream
  PROVE  Safe'
<1>1. StackOK'
  BY StackMarked DEF EnterWithStream, Safe, StackOK
<1>2. runs' \in Nat /\ ret' \in {"none", "ok", "err"}
  BY SafeHas DEF EnterWithStream
<1> QED
  BY <1>1, <1>2, SafeMove DEF EnterWithStream, InHandler

LEMMA SafeHandlerReceive ==
  ASSUME Safe, InHandler, NEW act \in [ToSet(Top.conn) -> ReceiveActs], HandlerReceive(act)
  PROVE  Safe'
<1>1. PICK base \in BaseReceive :
         /\ left' = LeftAfter(Top.conn, act, base)
         /\ LET r == CastRequest(Received(Top.conn, act, base))
            IN  seen' = IF r.kind = "req" THEN Append(seen, r) ELSE seen
  BY DEF HandlerReceive
<1>2. Depth > 0
  BY DEF InHandler
<1>3. left' \in 0 .. Budget /\ SeenOK(Budget - left)'
  BY <1>1, <1>2, HandlerGets DEF HandlerReceive
<1>4. runs' \in Nat /\ ret' \in {"none", "ok", "err"}
  BY SafeHas DEF HandlerReceive
<1> QED
  BY <1>2, <1>3, <1>4, OutKept, StackKept, NotAnswered, Kept DEF HandlerReceive

LEMMA SafeHandlerSend ==
  ASSUME Safe, InHandler, NEW act \in [ToSet(Top.conn) -> SendActs], NEW kind \in Responses,
         HandlerSend(act, kind)
  PROVE  Safe'
<1> DEFINE r == IF kind = "nil" THEN Response("nil") ELSE Sent(Top.conn, act, kind)
<1>1. PICK err \in BOOLEAN : Arrive(r, err)
  BY DEF HandlerSend
<1>2. Depth > 0
  BY DEF InHandler
<1>3. r \in Responded /\ Descending(r.trail)
  <2>1. CASE kind = "nil"
    <3>1. r = [kind |-> "nil", trail |-> <<>>]
      BY <2>1 DEF Response
    <3>2. <<>> \in Seq(Names) /\ DOMAIN <<>> = {} /\ "nil" \in Responses
      BY DEF Responses
    <3> HIDE DEF r
    <3>3. r \in Responded
      BY <3>1, <3>2 DEF Responded
    <3>4. r.trail = <<>>
      BY <3>1
    <3> QED
      BY <3>2, <3>3, <3>4 DEF Descending
  <2>2. CASE kind # "nil"
    BY <1>2, <2>2, SentArrives
  <2> QED
    BY <2>1, <2>2
<1> HIDE DEF r
<1>4. OutOK'
  BY <1>1, <1>3, OutArrives
<1>5. runs' \in Nat /\ ret' \in {"none", "ok", "err"} /\ left' \in 0 .. Budget /\ left' <= left
  BY SafeHas DEF HandlerSend
<1> QED
  BY <1>2, <1>4, <1>5, SeenKept, StackKept, NotAnswered, Kept DEF HandlerSend

LEMMA SafeHandlerRespond ==
  ASSUME Safe, InHandler, NEW act \in [ToSet(Top.conn) -> SendActs], NEW kind \in Responses,
         HandlerRespond(act, kind)
  PROVE  Safe'
<1>1. PICK err \in BOOLEAN : Arrive(Sent(Top.conn, act, kind), err) /\ Return(err)
  BY DEF HandlerRespond
<1>2. Depth > 0
  BY DEF InHandler
<1>3. OutOK'
  BY <1>1, <1>2, SentArrives, OutArrives
<1>4. StackOK' /\ ret' \in {"ok", "err"}
  BY <1>1, <1>2, StackPopped DEF Safe, StackOK, HandlerRespond
<1>5. runs' \in Nat /\ left' \in 0 .. Budget /\ left' <= left
  BY SafeHas DEF HandlerRespond
<1> QED
  BY <1>2, <1>3, <1>4, <1>5, SeenKept, NotAnswered, Kept DEF HandlerRespond

LEMMA SafeAnswer ==
  ASSUME Safe, Answer
  PROVE  Safe'
<1>1. /\ stack = <<>> /\ ret # "none"
      /\ wire' = IF ret = "err" THEN "error"
                 ELSE IF shape \notin OneResponse THEN "end"
                 ELSE IF result = "resp" THEN "response" ELSE "error"
      /\ UNCHANGED <<passive, shape, chain, stack, left, result, ret, seen, out, runs, sends>>
  BY DEF Answer
<1>2. /\ wire' \in {"response", "end", "error"}
      /\ wire' = "response" => result = "resp" /\ ret = "ok"
      /\ wire' = "error" => result # "resp" \/ ret = "err"
  BY <1>1 DEF Safe, TypeOK
<1>3. Budget' = Budget
  BY <1>1 DEF Budget
<1>4. TypeOK'
  <2> HIDE DEF Budget
  <2> QED
    BY <1>1, <1>2, <1>3 DEF Safe, TypeOK
<1>5. HandedOut' /\ NoNilOnWire' /\ OnionOrder' /\ RequestsOnce' /\ ChainOrder'
  BY <1>1, <1>2, <1>3 DEF Safe, HandedOut, NoNilOnWire, OnionOrder, RequestsOnce, ChainOrder
<1> QED
  BY <1>4, <1>5 DEF Safe

(* Interceptors that only look on are among the others.                    *)
LEMMA HandlingSteps ==
  ASSUME passive \in BOOLEAN,
         IF passive THEN Handling({"pass"}, {"pass"}) ELSE Handling(ReceiveActs, SendActs)
  PROVE  /\ InHandler
         /\ \/ \E act \in [ToSet(Top.conn) -> ReceiveActs] : EnterWithRequest(act)
            \/ EnterWithStream
            \/ \E act \in [ToSet(Top.conn) -> ReceiveActs] : HandlerReceive(act)
            \/ \E act \in [ToSet(Top.conn) -> SendActs], kind \in Responses : HandlerSend(act, kind)
            \/ \E act \in [ToSet(Top.conn) -> SendActs], kind \in Responses :
                 HandlerRespond(act, kind)
            \/ \E err \in BOOLEAN : HandlerReturn(err)
<1>1. "pass" \in ReceiveActs /\ "pass" \in SendActs
  BY DEF ReceiveActs, SendActs
<1>2. ASSUME NEW S, NEW T, "pass" \in T, NEW f \in [S -> {"pass"}] PROVE f \in [S -> T]
  BY <1>2
<1>3. /\ \A f \in [ToSet(Top.conn) -> {"pass"}] : f \in [ToSet(Top.conn) -> ReceiveActs]
      /\ \A f \in [ToSet(Top.conn) -> {"pass"}] : f \in [ToSet(Top.conn) -> SendActs]
  BY <1>1, <1>2
<1>4. {"resp", "nilmsg"} \subseteq Responses /\ Responses \ {"foreign"} \subseteq Responses
  BY DEF Responses
<1> QED
  BY <1>3, <1>4 DEF Handling

(* The six parts of the invariant hold at the start.                       *)
LEMMA SafeInit ==
  ASSUME Init
  PROVE  Safe
<1>1. PICK nils \in SUBSET (1 .. Slots) : chain = ChainOf(nils)
  BY DEF Init
<1>2. /\ chain \in Seq(1 .. Handler) /\ Ascending(chain) /\ Len(chain) > 0
      /\ chain[Len(chain)] = Handler
  BY <1>1, ChainAscends
<1>3. stack = <<>> /\ seen = <<>> /\ out = <<>>
  BY DEF Init
<1>4. /\ stack \in Seq(Frame) /\ Len(stack) = 0 /\ DOMAIN stack = {}
      /\ seen \in Seq(Requested) /\ DOMAIN seen = {}
      /\ out \in Seq(Responded) /\ DOMAIN out = {}
  BY <1>3
<1>5. left \in 0 .. Budget
  BY Limits DEF Init, Budget
<1>6. TypeOK
  <2> HIDE DEF Budget
  <2> QED
    BY <1>2, <1>4, <1>5 DEF Init, TypeOK
<1>7. ChainOrder
  BY <1>2, <1>4 DEF ChainOrder
<1>8. HandedOut /\ RequestsOnce /\ OnionOrder /\ NoNilOnWire
  BY <1>4 DEF Init, HandedOut, RequestsOnce, OnionOrder, NoNilOnWire
<1> QED
  BY <1>6, <1>7, <1>8 DEF Safe

LEMMA SafeNext ==
  ASSUME Safe, [Next]_vars
  PROVE  Safe'
<1>1. CASE Invoke
  BY <1>1, SafeInvoke
<1>2. CASE \E wrap \in BOOLEAN : CallNext(wrap)
  BY <1>2, SafeCallNext
<1>3. CASE InterceptorReceive
  BY <1>3, SafeInterceptorReceive
<1>4. CASE InterceptorSend
  BY <1>4, SafeInterceptorSend
<1>5. CASE \E err \in BOOLEAN : InterceptorReturn(err)
  BY <1>5, SafeReturn DEF InterceptorReturn, InInterceptor
<1>6. CASE IF passive THEN Handling({"pass"}, {"pass"}) ELSE Handling(ReceiveActs, SendActs)
  <2>1. passive \in BOOLEAN
    BY DEF Safe, TypeOK
  <2>2. /\ InHandler
        /\ \/ \E act \in [ToSet(Top.conn) -> ReceiveActs] : EnterWithRequest(act)
           \/ EnterWithStream
           \/ \E act \in [ToSet(Top.conn) -> ReceiveActs] : HandlerReceive(act)
           \/ \E act \in [ToSet(Top.conn) -> SendActs], kind \in Responses : HandlerSend(act, kind)
           \/ \E act \in [ToSet(Top.conn) -> SendActs], kind \in Responses :
                HandlerRespond(act, kind)
           \/ \E err \in BOOLEAN : HandlerReturn(err)
    BY <1>6, <2>1, HandlingSteps
  <2>3. CASE \E err \in BOOLEAN : HandlerReturn(err)
    BY <2>2, <2>3, SafeReturn DEF HandlerReturn, InHandler
  <2> QED
    BY <2>2, <2>3, SafeEnterWithRequest, SafeEnterWithStream, SafeHandlerReceive,
       SafeHandlerSend, SafeHandlerRespond
<1>7. CASE Answer
  BY <1>7, SafeAnswer
<1>8. CASE UNCHANGED vars
  <2>1. Budget' = Budget
    BY <1>8 DEF vars, Budget
  <2> HIDE DEF Budget
  <2> QED
    BY <1>8, <2>1 DEF vars, Safe, TypeOK, ChainOrder, HandedOut, RequestsOnce, OnionOrder, NoNilOnWire
<1> QED
  BY <1>1, <1>2, <1>3, <1>4, <1>5, <1>6, <1>7, <1>8 DEF Next, Finished

-----------------------------------------------------------------------------
(* Interceptors that only look on.                                         *)

Looking == Safe /\ passive /\ OnlyLooking

(* What the transport and the typed handler see of the call.               *)
Phase   == IF runs = 0 THEN "idle"
           ELSE IF InHandler /\ Top.running THEN "running" ELSE "returned"
Got     == [i \in DOMAIN seen |-> seen[i].n]
Verdict == IF runs = 1 /\ ~InHandler THEN ret ELSE "none"

(* The call on top has called next if something has returned to it, and    *)
(* those above it have.                                                    *)
LEMMA LookingTop ==
  ASSUME Looking, Depth > 0
  PROVE  /\ Top.calls = IF ret = "none" THEN 0 ELSE 1
         /\ Top.running <=> chain[Depth] = Handler /\ runs = 1
         /\ \A d \in 1 .. Depth - 1 : /\ d \in DOMAIN stack /\ stack[d].calls = 1
                                     /\ ~stack[d].running /\ chain[d] # Handler
         /\ wire = "none" /\ Top \in Frame
<1>1. /\ Depth \in DOMAIN stack /\ Depth \in DOMAIN chain /\ Depth \in Nat /\ Top \in Frame
      /\ Len(chain) \in Nat /\ chain[Depth] \in 1 .. Handler
  BY TopIs DEF Looking, Safe
<1>2. OnlyLooking /\ wire = "none"
  BY DEF Looking, OnlyLooking, Depth
<1>3. /\ Top.calls = IF ret = "none" THEN 0 ELSE 1
      /\ Top.running <=> chain[Depth] = Handler /\ runs = 1
  BY <1>1, <1>2 DEF OnlyLooking, Top
<1>4. ASSUME NEW d \in 1 .. Depth - 1
      PROVE  /\ d \in DOMAIN stack /\ stack[d].calls = 1
             /\ ~stack[d].running /\ chain[d] # Handler
  <2>1. d \in DOMAIN stack /\ d # Depth /\ d < Depth
    BY <1>1 DEF Depth, Looking, Safe, TypeOK
  <2>2. d \in DOMAIN chain
    BY <1>1, <1>4 DEF Looking, Safe, TypeOK
  <2>3. chain[d] < chain[Depth]
    BY <1>1, <2>1, <2>2 DEF Looking, Safe, ChainOrder, Ascending
  <2>4. Handler \in Nat
    BY Limits DEF Handler
  <2>5. chain[d] # Handler
    BY <1>1, <2>3, <2>4
  <2> QED
    BY <1>2, <2>1, <2>5 DEF OnlyLooking
<1> QED
  BY <1>1, <1>2, <1>3, <1>4

LEMMA PhaseIs ==
  ASSUME Looking
  PROVE  /\ Phase = IF runs = 0 THEN "idle" ELSE IF InHandler THEN "running" ELSE "returned"
         /\ runs \in {0, 1}
         /\ runs = 0 => Verdict = "none" /\ ret = "none"
         /\ runs = 1 /\ InHandler => Verdict = "none" /\ ret = "none"
         /\ runs = 1 /\ ~InHandler => Verdict = ret /\ ret \in {"ok", "err"}
<1>1. runs \in {0, 1} /\ (runs = 0 => ret = "none") /\ (runs = 1 => (ret = "none" <=> InHandler))
  BY DEF Looking, OnlyLooking
<1>2. InHandler => (Top.running <=> runs = 1)
  BY LookingTop DEF InHandler
<1>3. ret \in {"none", "ok", "err"}
  BY DEF Looking, Safe, TypeOK
<1> QED
  BY <1>1, <1>2, <1>3 DEF Phase, Verdict

(* A call that goes back keeps where the others stand.                     *)
LEMMA LookingBack ==
  ASSUME Looking, Depth > 0, runs = 1, runs' = 1, NEW err \in BOOLEAN, Return(err),
         UNCHANGED <<passive, shape, chain, left, wire, seen>>
  PROVE  OnlyLooking' /\ ~InHandler' /\ ret' # "none"
<1>1. /\ Len(stack') = Depth - 1 /\ ret' \in {"ok", "err"} /\ stack' \in Seq(Frame)
      /\ \A d \in 1 .. Depth - 1 : stack'[d] = stack[d]
  BY StackPopped DEF Looking, Safe
<1>2. Depth \in Nat /\ Depth' = Depth - 1 /\ DOMAIN stack' = 1 .. Depth - 1
  BY <1>1 DEF Depth, Looking, Safe, TypeOK
<1>3. wire = "none" /\ \A d \in 1 .. Depth - 1 : /\ stack[d].calls = 1
                                               /\ ~stack[d].running /\ chain[d] # Handler
  BY LookingTop
<1>4. ~InHandler'
  <2>1. Depth - 1 > 0 => Depth - 1 \in 1 .. Depth - 1
    BY <1>2
  <2> QED
    BY <1>2, <1>3, <2>1 DEF InHandler
<1>5. \A d \in DOMAIN stack' :
        /\ stack'[d].calls = IF d = Depth' /\ ret' = "none" THEN 0 ELSE 1
        /\ stack'[d].running <=> chain'[d] = Handler /\ runs' = 1
  BY <1>1, <1>2, <1>3
<1>6. /\ shape \in OneRequest => left = 0
      /\ shape \notin OneRequest /\ left > 0 => Len(seen) = MaxMsgs - left
  BY DEF Looking, OnlyLooking
<1> QED
  BY <1>1, <1>3, <1>4, <1>5, <1>6 DEF OnlyLooking

(* The typed handler is entered once.                                      *)
LEMMA LookingIn ==
  ASSUME Looking, InHandler, ~Top.running, runs' = runs + 1,
         stack' = [stack EXCEPT ![Depth].running = TRUE],
         UNCHANGED <<passive, shape, chain, ret, wire>>,
         shape \in OneRequest => left' = 0,
         shape \notin OneRequest => left' = left /\ seen' = seen
  PROVE  OnlyLooking' /\ InHandler' /\ runs = 0 /\ runs' = 1 /\ Phase' = "running"
<1>1. /\ Top.calls = IF ret = "none" THEN 0 ELSE 1
      /\ Top.running <=> chain[Depth] = Handler /\ runs = 1
      /\ \A d \in 1 .. Depth - 1 : /\ d \in DOMAIN stack /\ stack[d].calls = 1
                                  /\ ~stack[d].running /\ chain[d] # Handler
      /\ wire = "none"
  BY LookingTop DEF InHandler
<1>2. runs = 0 /\ runs' = 1 /\ ret = "none" /\ left = Budget /\ seen = <<>>
  BY <1>1 DEF Looking, OnlyLooking, InHandler
<1>3. /\ Len(stack') = Depth /\ Len(stack) = Depth /\ stack' \in Seq(Frame)
      /\ \A d \in DOMAIN stack :
           stack'[d] = IF d = Depth THEN [conn |-> Top.conn, calls |-> Top.calls, running |-> TRUE]
                       ELSE stack[d]
  BY StackMarked DEF Looking, Safe, Depth
<1>4. /\ Depth' = Depth /\ Depth \in Nat /\ Depth > 0
      /\ DOMAIN stack = 1 .. Depth /\ DOMAIN stack' = 1 .. Depth
  BY <1>3 DEF Depth, InHandler, Looking, Safe, TypeOK
<1>5. stack'[Depth].calls = 0 /\ stack'[Depth].running
  <2>1. Depth \in DOMAIN stack
    BY <1>4
  <2>2. stack'[Depth] = [conn |-> Top.conn, calls |-> Top.calls, running |-> TRUE]
    BY <1>3, <2>1, Zenon
  <2> QED
    BY <1>1, <1>2, <2>2
<1>6. \A d \in 1 .. Depth - 1 : stack'[d] = stack[d]
  BY <1>3, <1>4
<1>7. \A d \in DOMAIN stack' : d = Depth \/ d \in 1 .. Depth - 1
  BY <1>4
<1>8. \A d \in DOMAIN stack' :
        /\ stack'[d].calls = IF d = Depth' /\ ret' = "none" THEN 0 ELSE 1
        /\ stack'[d].running <=> chain'[d] = Handler /\ runs' = 1
  <2> SUFFICES ASSUME NEW d \in DOMAIN stack'
               PROVE  /\ stack'[d].calls = IF d = Depth' /\ ret' = "none" THEN 0 ELSE 1
                      /\ stack'[d].running <=> chain'[d] = Handler /\ runs' = 1
    OBVIOUS
  <2>1. CASE d = Depth
    BY <1>2, <1>4, <1>5, <2>1 DEF InHandler
  <2>2. CASE d \in 1 .. Depth - 1
    <3>1. stack'[d].calls = 1 /\ ~stack'[d].running /\ chain'[d] # Handler /\ d # Depth
      BY <1>1, <1>4, <1>6, <2>2
    <3> QED
      BY <1>4, <3>1
  <2> QED
    BY <1>7, <2>1, <2>2
<1>9. InHandler'
  BY <1>4 DEF InHandler
<1>10. shape \notin OneRequest /\ left' > 0 => Len(seen') = MaxMsgs - left'
  <2>1. shape \notin OneRequest => left' = MaxMsgs /\ seen' = <<>> /\ MaxMsgs \in Nat
    BY <1>2, Limits DEF Budget
  <2> QED
    BY <2>1
<1>11. OnlyLooking'
  BY <1>1, <1>2, <1>8, <1>9, <1>10 DEF OnlyLooking
<1>12. Phase' = "running"
  BY <1>2, <1>4, <1>5, <1>9 DEF Phase, Top
<1> QED
  BY <1>2, <1>9, <1>11, <1>12

(* How their steps look to the transport and the typed handler.            *)
DirectVars == <<shape, left, Phase, Got, Len(out), Verdict, result, wire>>

LEMMA DirectStutter ==
  ASSUME UNCHANGED DirectVars
  PROVE  [Direct!Next]_(Direct!vars)
BY DEF DirectVars, Direct!vars, Phase, Got, Verdict

LEMMA DirectStart ==
  ASSUME UNCHANGED <<shape, out, Verdict, result, wire>>,
         Phase = "idle", Phase' = "running",
         IF shape \in OneRequest THEN left' = 0 /\ Got' = << 1 >> ELSE UNCHANGED <<left, Got>>
  PROVE  Direct!Next
<1>1. Direct!Start
  BY DEF Direct!Start, Direct!OneRequest, OneRequest, Phase, Got, Verdict
<1> QED
  BY <1>1 DEF Direct!Next

LEMMA DirectReceive ==
  ASSUME UNCHANGED <<shape, Phase, out, Verdict, result, wire>>,
         Phase = "running", shape \notin OneRequest, left > 0,
         \/ left' = left - 1 /\ Got' = Append(Got, Len(Got) + 1)
         \/ left' = 0 /\ UNCHANGED Got
  PROVE  Direct!Next
<1>1. Direct!Receive
  BY DEF Direct!Receive, Direct!OneRequest, OneRequest, Phase, Got, Verdict
<1> QED
  BY <1>1 DEF Direct!Next

LEMMA DirectSend ==
  ASSUME UNCHANGED <<shape, left, Phase, Got, Verdict, result, wire>>,
         Phase = "running", shape \notin OneResponse, Len(out') = Len(out) + 1
  PROVE  Direct!Next
<1>1. Direct!Send
  BY DEF Direct!Send, Direct!OneResponse, OneResponse, Phase, Got, Verdict
<1> QED
  BY <1>1 DEF Direct!Next

LEMMA DirectFinish ==
  ASSUME UNCHANGED <<shape, left, Got, out, wire>>,
         Phase = "running", Phase' = "returned",
         \/ Verdict' \in {"ok", "err"} /\ UNCHANGED result
         \/ Verdict' = "ok" /\ shape \in OneResponse /\ result' \in {"nilmsg", "resp"}
  PROVE  Direct!Next
<1>1. Direct!Finish
  BY DEF Direct!Finish, Direct!OneResponse, OneResponse, Phase, Got, Verdict
<1> QED
  BY <1>1 DEF Direct!Next

LEMMA DirectAnswer ==
  ASSUME UNCHANGED <<shape, left, Phase, Got, out, Verdict, result>>,
         Phase = "returned", wire = "none",
         wire' = IF Verdict = "ok"
                 THEN IF shape \notin OneResponse THEN "end"
                      ELSE IF result = "resp" THEN "response" ELSE "error"
                 ELSE "error"
  PROVE  Direct!Next
<1>1. Direct!Answer
  BY DEF Direct!Answer, Direct!OneResponse, OneResponse, Phase, Got, Verdict
<1> QED
  BY <1>1 DEF Direct!Next

LEMMA LookingInvoke ==
  ASSUME Looking, Invoke
  PROVE  OnlyLooking' /\ [Direct!Next]_(Direct!vars)
<1>1. /\ stack = <<>> /\ ret = "none" /\ stack' = <<Call(<<>>)>>
      /\ UNCHANGED <<passive, shape, chain, left, result, ret, wire, seen, out, runs, sends>>
  BY DEF Invoke
<1>2. ~InHandler /\ OnlyLooking
  BY <1>1 DEF InHandler, Depth, Looking
<1>3. runs = 0 /\ wire = "none"
  BY <1>1, <1>2 DEF OnlyLooking
<1>4. Call(<<>>).calls = 0 /\ ~Call(<<>>).running
  BY DEF Call
<1>5. Depth' = 1 /\ DOMAIN stack' = {1} /\ stack'[1] = Call(<<>>)
  BY <1>1 DEF Depth
<1>6. OnlyLooking'
  BY <1>1, <1>2, <1>3, <1>4, <1>5 DEF OnlyLooking, Budget
<1>7. UNCHANGED DirectVars
  BY <1>1, <1>3 DEF DirectVars, Phase, Got, Verdict
<1> QED
  BY <1>6, <1>7, DirectStutter

LEMMA LookingCallNext ==
  ASSUME Looking, NEW wrap \in BOOLEAN, CallNext(wrap)
  PROVE  OnlyLooking' /\ [Direct!Next]_(Direct!vars)
<1> DEFINE q == [stack EXCEPT ![Depth].calls = @ + 1]
           e == Call(IF wrap THEN Append(Top.conn, chain[Depth]) ELSE Top.conn)
<1>1. /\ InInterceptor /\ Top.calls < 1 /\ stack' = Append(q, e)
      /\ UNCHANGED <<passive, shape, chain, left, result, ret, wire, seen, out, runs, sends>>
  BY DEF CallNext, Looking
<1>2. /\ Depth > 0 /\ chain[Depth] # Handler /\ OnlyLooking
  BY <1>1 DEF InInterceptor, Looking
<1>3. /\ Top.calls = IF ret = "none" THEN 0 ELSE 1
      /\ Top.running <=> chain[Depth] = Handler /\ runs = 1
      /\ \A d \in 1 .. Depth - 1 : /\ d \in DOMAIN stack /\ stack[d].calls = 1
                                  /\ ~stack[d].running /\ chain[d] # Handler
      /\ wire = "none" /\ Top \in Frame
  BY <1>2, LookingTop
<1>4. ret = "none" /\ runs = 0 /\ ~Top.running
  BY <1>1, <1>2, <1>3 DEF OnlyLooking, InHandler
<1>5. stack \in Seq(Frame) /\ Len(stack) = Depth /\ Depth \in Nat /\ DOMAIN stack = 1 .. Depth
  BY DEF Looking, Safe, TypeOK, Depth
<1>6. e.calls = 0 /\ ~e.running
  BY DEF Call
<1>7. stack' \in Seq(Frame)
  BY StackPushed DEF Looking, Safe
<1> DEFINE f == [conn |-> Top.conn, calls |-> Top.calls + 1, running |-> Top.running]
<1>8. q = [stack EXCEPT ![Depth] = f]
  <2>1. [Top EXCEPT !.calls = @ + 1] = f
    BY <1>3, FrameIs
  <2> QED
    BY <2>1 DEF Top
<1>9. Len(q) = Depth /\ \A d \in 1 .. Depth : q[d] = IF d = Depth THEN f ELSE stack[d]
  <2> HIDE DEF f
  <2> QED
    BY <1>5, <1>8
<1>10. f.calls = 1 /\ ~f.running
  BY <1>1, <1>3, <1>4
<1>11. /\ Len(stack') = Depth + 1 /\ stack'[Depth + 1] = e
       /\ \A d \in 1 .. Depth : stack'[d] = q[d]
  <2> DEFINE S == {q[d] : d \in 1 .. Depth} \union {e}
  <2>1. q \in Seq(S) /\ e \in S
    <3> HIDE DEF e
    <3>1. q \in [1 .. Depth -> S]
      BY <1>5
    <3> HIDE DEF q, S
    <3>2. q \in Seq(S)
      BY <1>5, <3>1, Listed
    <3> QED
      BY <3>2 DEF S
  <2> HIDE DEF q, e, S
  <2> QED
    BY <1>1, <1>9, <2>1, Appended
<1> HIDE DEF q, e, f
<1>12. Depth' = Depth + 1 /\ DOMAIN stack' = 1 .. Depth + 1
  BY <1>5, <1>7, <1>11 DEF Depth
<1>13. \A d \in DOMAIN stack' :
         /\ stack'[d].calls = IF d = Depth' /\ ret' = "none" THEN 0 ELSE 1
         /\ stack'[d].running <=> chain'[d] = Handler /\ runs' = 1
  <2> SUFFICES ASSUME NEW d \in DOMAIN stack'
               PROVE  /\ stack'[d].calls = IF d = Depth' /\ ret' = "none" THEN 0 ELSE 1
                      /\ ~stack'[d].running
    BY <1>1, <1>4
  <2>1. CASE d = Depth + 1
    BY <1>1, <1>4, <1>6, <1>11, <1>12, <2>1
  <2>2. CASE d \in 1 .. Depth /\ d = Depth
    <3>1. stack'[d] = f /\ d # Depth'
      BY <1>5, <1>9, <1>11, <1>12, <2>2
    <3> QED
      BY <1>10, <3>1
  <2>3. CASE d \in 1 .. Depth /\ d # Depth
    <3>1. stack'[d] = stack[d] /\ d # Depth' /\ d \in 1 .. Depth - 1
      BY <1>5, <1>9, <1>11, <1>12, <2>3
    <3> QED
      BY <1>3, <3>1
  <2> QED
    BY <1>5, <1>12, <2>1, <2>2, <2>3
<1>14. OnlyLooking'
  BY <1>1, <1>2, <1>3, <1>4, <1>13 DEF OnlyLooking, Budget
<1>15. UNCHANGED DirectVars
  BY <1>1, <1>4 DEF DirectVars, Phase, Got, Verdict
<1> QED
  BY <1>14, <1>15, DirectStutter

LEMMA LookingReturn ==
  ASSUME Looking, NEW err \in BOOLEAN, InterceptorReturn(err)
  PROVE  OnlyLooking' /\ [Direct!Next]_(Direct!vars)
<1>1. /\ Depth > 0 /\ chain[Depth] # Handler /\ Top.calls = 1 /\ err = (ret = "err") /\ Return(err)
      /\ UNCHANGED <<passive, shape, chain, left, result, wire, seen, out, runs, sends>>
  BY DEF InterceptorReturn, InInterceptor, Looking
<1>2. ret # "none"
  BY <1>1, LookingTop
<1>3. runs = 1 /\ runs' = 1 /\ ~InHandler /\ ret \in {"ok", "err"}
  BY <1>1, <1>2 DEF Looking, OnlyLooking, InHandler, Safe, TypeOK
<1>4. OnlyLooking' /\ ~InHandler'
  BY <1>1, <1>3, LookingBack
<1>5. ret' = ret
  BY <1>1, <1>3 DEF Return
<1>6. UNCHANGED DirectVars
  BY <1>1, <1>3, <1>4, <1>5 DEF DirectVars, Phase, Got, Verdict
<1> QED
  BY <1>4, <1>6, DirectStutter

(* Nothing changes on the way through interceptors that only look on.      *)
LEMMA PassedUp ==
  ASSUME Looking, Depth > 0, NEW act \in [ToSet(Top.conn) -> {"pass"}], NEW base \in BaseReceive
  PROVE  /\ Received(Top.conn, act, base) \in Requested
         /\ Received(Top.conn, act, base).kind = base.req.kind
         /\ Received(Top.conn, act, base).n = base.req.n
         /\ LeftAfter(Top.conn, act, base) = base.left
<1>1. Top.conn \in Seq(Names) /\ Ascending(Top.conn)
  BY TopIs DEF Looking, Safe
<1>2. base.req \in Requested /\ base.req.trail = <<>>
  BY BaseReceiveIs DEF Looking, Safe
<1>3. act \in [ToSet(Top.conn) -> ReceiveActs] /\ \A s \in ToSet(Top.conn) : act[s] = "pass"
  BY DEF ReceiveActs
<1>4. /\ Received(Top.conn, act, base) \in Requested
      /\ Received(Top.conn, act, base).kind = base.req.kind
      /\ Received(Top.conn, act, base).n = base.req.n
  BY <1>1, <1>2, <1>3, ReceivedIs
<1>5. LeftAfter(Top.conn, act, base) = base.left
  BY <1>3 DEF LeftAfter, Alone
<1> QED
  BY <1>4, <1>5

LEMMA PassedDown ==
  ASSUME Looking, Depth > 0, NEW act \in [ToSet(Top.conn) -> {"pass"}], NEW kind \in Responses
  PROVE  Sent(Top.conn, act, kind).kind = kind
<1>1. Top.conn \in Seq(Names) /\ Ascending(Top.conn)
  BY TopIs DEF Looking, Safe
<1>2. act \in [ToSet(Top.conn) -> SendActs] /\ \A s \in ToSet(Top.conn) : act[s] = "pass"
  BY DEF SendActs
<1> QED
  BY <1>1, <1>2, SentIs

LEMMA LookingEnterWithRequest ==
  ASSUME Looking, InHandler, NEW act \in [ToSet(Top.conn) -> {"pass"}], EnterWithRequest(act)
  PROVE  OnlyLooking' /\ [Direct!Next]_(Direct!vars)
<1>1. PICK base \in BaseReceive :
         /\ left' = LeftAfter(Top.conn, act, base)
         /\ LET r == CastRequest(Received(Top.conn, act, base))
            IN  IF r.kind = "req" THEN Get(r) ELSE Return(TRUE) /\ UNCHANGED <<seen, runs>>
  BY DEF EnterWithRequest
<1>2. /\ Depth > 0 /\ ~Top.running /\ shape \in OneRequest
      /\ UNCHANGED <<passive, shape, chain, result, wire, out, sends>>
  BY DEF EnterWithRequest, InHandler
<1>3. runs = 0 /\ left = 1 /\ seen = <<>>
  BY <1>2, LookingTop DEF Looking, OnlyLooking, InHandler
<1>4. base.req.kind = "req" /\ base.req.n = 1 /\ base.left = 0
  BY <1>2, <1>3 DEF BaseReceive, Request
<1> DEFINE g == Received(Top.conn, act, base)
<1>5. g.kind = "req" /\ g.n = 1 /\ left' = 0
  BY <1>1, <1>2, <1>4, PassedUp
<1>6. CastRequest(g) = g
  BY <1>5 DEF CastRequest
<1>7. Get(g)
  BY <1>1, <1>5, <1>6
<1> HIDE DEF g
<1>8. /\ runs' = runs + 1 /\ stack' = [stack EXCEPT ![Depth].running = TRUE]
      /\ seen' = Append(<<>>, g) /\ ret' = ret
  BY <1>3, <1>7 DEF Get
<1>9. OnlyLooking' /\ InHandler' /\ runs' = 1 /\ Phase' = "running"
  BY <1>2, <1>5, <1>8, LookingIn
<1>10. Phase = "idle" /\ Verdict = "none" /\ Verdict' = "none"
  BY <1>3, <1>9 DEF Phase, Verdict
<1>11. Got' = <<1>>
  <2>1. seen' = <<g>>
    BY <1>8
  <2>2. DOMAIN seen' = {1} /\ seen'[1] = g
    BY <2>1
  <2> QED
    BY <1>5, <2>2 DEF Got
<1> QED
  BY <1>2, <1>5, <1>9, <1>10, <1>11, DirectStart

LEMMA LookingEnterWithStream ==
  ASSUME Looking, InHandler, EnterWithStream
  PROVE  OnlyLooking' /\ [Direct!Next]_(Direct!vars)
<1>1. /\ ~Top.running /\ shape \notin OneRequest /\ runs' = runs + 1
      /\ stack' = [stack EXCEPT ![Depth].running = TRUE]
      /\ UNCHANGED <<passive, shape, chain, left, result, ret, wire, seen, out, sends>>
  BY DEF EnterWithStream
<1>2. OnlyLooking' /\ InHandler' /\ runs = 0 /\ runs' = 1 /\ Phase' = "running"
  BY <1>1, LookingIn
<1>3. Phase = "idle" /\ Verdict = "none" /\ Verdict' = "none" /\ Got' = Got
  BY <1>1, <1>2 DEF Phase, Verdict, Got
<1> QED
  BY <1>1, <1>2, <1>3, DirectStart

(* A step inside the typed handler that leaves the calls alone.            *)
LEMMA LookingInside ==
  ASSUME Looking, InHandler, Top.running,
         UNCHANGED <<passive, shape, chain, stack, ret, wire, runs>>,
         shape \in OneRequest => left' = left,
         shape \notin OneRequest /\ left' > 0 => Len(seen') = MaxMsgs - left'
  PROVE  /\ OnlyLooking' /\ UNCHANGED <<Phase, Verdict>>
         /\ Phase = "running" /\ runs = 1
<1>1. runs = 1 /\ OnlyLooking
  BY LookingTop DEF InHandler, Looking
<1>2. UNCHANGED <<Phase, Verdict, InHandler, Depth>>
  BY DEF Phase, Verdict, InHandler, Top, Depth
<1>3. OnlyLooking'
  BY <1>1, <1>2 DEF OnlyLooking
<1> QED
  BY <1>1, <1>2, <1>3 DEF Phase

LEMMA LookingHandlerReceive ==
  ASSUME Looking, InHandler, NEW act \in [ToSet(Top.conn) -> {"pass"}], HandlerReceive(act)
  PROVE  OnlyLooking' /\ [Direct!Next]_(Direct!vars)
<1>1. PICK base \in BaseReceive :
         /\ left' = LeftAfter(Top.conn, act, base)
         /\ LET r == CastRequest(Received(Top.conn, act, base))
            IN  seen' = IF r.kind = "req" THEN Append(seen, r) ELSE seen
  BY DEF HandlerReceive
<1>2. /\ Top.running /\ shape \notin OneRequest /\ Depth > 0
      /\ UNCHANGED <<passive, shape, chain, stack, result, ret, wire, out, runs, sends>>
  BY DEF HandlerReceive, InHandler
<1> DEFINE g == Received(Top.conn, act, base)
<1>3. g \in Requested /\ g.kind = base.req.kind /\ g.n = base.req.n /\ left' = base.left
  BY <1>1, <1>2, PassedUp
<1>4. /\ seen \in Seq(Requested) /\ MaxMsgs \in Nat
      /\ left \in Nat /\ (left > 0 => Len(seen) = MaxMsgs - left)
  BY <1>2, Limits, SafeHas DEF Looking, Safe, TypeOK, OnlyLooking
<1>5. \/ base.req.kind \in {"eof", "err"} /\ base.left = 0
      \/ /\ base.req.kind = "req" /\ left > 0
         /\ base.req.n = MaxMsgs + 1 - left /\ base.left = left - 1
  BY <1>2, <1>4 DEF BaseReceive, Request
<1>6. CASE base.req.kind \in {"eof", "err"} /\ base.left = 0
  <2>1. seen' = seen /\ left' = 0
    BY <1>1, <1>3, <1>6 DEF CastRequest
  <2>2. OnlyLooking' /\ UNCHANGED <<Phase, Verdict>> /\ Phase = "running"
    BY <1>2, <2>1, LookingInside
  <2>3. Got' = Got
    BY <2>1 DEF Got
  <2>4. CASE left = 0
    BY <1>2, <2>1, <2>2, <2>3, <2>4, DirectStutter DEF DirectVars
  <2>5. CASE left # 0
    BY <1>2, <1>4, <2>1, <2>2, <2>3, <2>5, DirectReceive
  <2> QED
    BY <2>2, <2>4, <2>5
<1>7. CASE /\ base.req.kind = "req" /\ left > 0
           /\ base.req.n = MaxMsgs + 1 - left /\ base.left = left - 1
  <2>1. CastRequest(g) = g /\ g.kind = "req"
    BY <1>3, <1>7 DEF CastRequest
  <2>2. seen' = Append(seen, g) /\ left' = left - 1 /\ g.n = Len(seen) + 1
    <3>1. seen' = Append(seen, g)
      BY <1>1, <2>1
    <3>2. left' = left - 1 /\ g.n = MaxMsgs + 1 - left
      BY <1>3, <1>7
    <3>3. Len(seen) = MaxMsgs - left /\ Len(seen) \in Nat
      BY <1>4, <1>7
    <3> HIDE DEF g
    <3>4. MaxMsgs + 1 - left = Len(seen) + 1
      BY <1>4, <3>3
    <3> QED
      BY <3>1, <3>2, <3>4
  <2> HIDE DEF g
  <2>3. /\ seen' \in Seq(Requested) /\ Len(seen') = Len(seen) + 1 /\ seen'[Len(seen) + 1] = g
        /\ \A k \in 1 .. Len(seen) : seen'[k] = seen[k]
    BY <1>3, <1>4, <2>2, Appended
  <2>4. OnlyLooking' /\ UNCHANGED <<Phase, Verdict>> /\ Phase = "running"
    <3>1. left' > 0 => Len(seen') = MaxMsgs - left'
      <4>1. Len(seen) = MaxMsgs - left /\ left' = left - 1 /\ Len(seen') = Len(seen) + 1
        BY <1>4, <1>7, <2>2, <2>3
      <4> QED
        BY <1>4, <4>1
    <3> QED
      BY <1>2, <3>1, LookingInside
  <2>5. Got' = Append(Got, Len(Got) + 1)
    <3>1. /\ Got \in Seq(Nat) /\ Len(Got) = Len(seen)
          /\ \A k \in 1 .. Len(seen) : Got[k] = seen[k].n
      <4>1. \A k \in 1 .. Len(seen) : seen[k] \in Requested
        BY <1>4
      <4>2. \A k \in 1 .. Len(seen) : seen[k].n \in Nat
        BY <4>1, RequestType
      <4>3. Got \in [1 .. Len(seen) -> Nat] /\ Len(seen) \in Nat
        BY <1>4, <4>2 DEF Got
      <4> QED
        BY <4>3, Listed DEF Got
    <3>2. /\ Got' \in Seq(Nat) /\ Len(Got') = Len(seen')
          /\ \A k \in 1 .. Len(seen') : Got'[k] = seen'[k].n
      <4>1. \A k \in 1 .. Len(seen') : seen'[k] \in Requested
        BY <2>3
      <4>2. \A k \in 1 .. Len(seen') : seen'[k].n \in Nat
        BY <4>1, RequestType
      <4>3. Got' \in [1 .. Len(seen') -> Nat] /\ Len(seen') \in Nat
        BY <2>3, <4>2 DEF Got
      <4> QED
        BY <4>3, Listed DEF Got
    <3> DEFINE a == Append(Got, Len(Got) + 1)
               b == Got'
               n == Len(seen)
               G == Got
    <3>3. /\ a \in Seq(Nat) /\ Len(a) = n + 1 /\ a[n + 1] = n + 1
          /\ \A k \in 1 .. n : a[k] = G[k]
      <4> HIDE DEF n
      <4>1. G \in Seq(Nat) /\ Len(G) = n /\ n \in Nat /\ n + 1 \in Nat /\ a = Append(G, n + 1)
        BY <3>1 DEF n
      <4> HIDE DEF a, G
      <4> QED
        BY <4>1, Appended
    <3>5. b \in Seq(Nat) /\ Len(b) = n + 1 /\ n \in Nat
      BY <1>4, <2>3, <3>2
    <3>4. \A k \in 1 .. n + 1 : b[k] = IF k = n + 1 THEN n + 1 ELSE G[k]
      <4> SUFFICES ASSUME NEW k \in 1 .. n + 1
                   PROVE  b[k] = IF k = n + 1 THEN n + 1 ELSE G[k]
        OBVIOUS
      <4>1. b[k] = seen'[k].n
        BY <2>3, <3>2
      <4>2. CASE k = n + 1
        <5>1. seen'[k] = g /\ g.n = n + 1
          BY <2>2, <2>3, <4>2
        <5> QED
          BY <4>1, <4>2, <5>1
      <4>3. CASE k # n + 1
        <5>1. k \in 1 .. n
          BY <3>5, <4>3
        <5>2. seen'[k] = seen[k] /\ G[k] = seen[k].n
          BY <2>3, <3>1, <5>1
        <5> QED
          BY <4>1, <4>3, <5>2
      <4> QED
        BY <4>2, <4>3
    <3> HIDE DEF a, b, n, G
    <3>6. Len(b) = Len(a) /\ \A k \in 1 .. Len(a) : b[k] = a[k]
      <4> SUFFICES ASSUME NEW k \in 1 .. n + 1 PROVE b[k] = a[k]
        BY <3>3, <3>5
      <4>1. CASE k = n + 1
        BY <3>3, <3>4, <4>1
      <4>2. CASE k # n + 1
        <5>1. k \in 1 .. n
          BY <3>5, <4>2
        <5> QED
          BY <3>3, <3>4, <4>2, <5>1
      <4> QED
        BY <4>1, <4>2
    <3>7. b = a
      BY <3>3, <3>5, <3>6, SameElements
    <3> QED
      BY <3>7 DEF a, b
  <2> QED
    BY <1>2, <1>7, <2>2, <2>4, <2>5, DirectReceive
<1> QED
  BY <1>5, <1>6, <1>7

LEMMA LookingHandlerSend ==
  ASSUME Looking, InHandler, NEW act \in [ToSet(Top.conn) -> {"pass"}], NEW kind \in Responses,
         HandlerSend(act, kind)
  PROVE  OnlyLooking' /\ [Direct!Next]_(Direct!vars)
<1> DEFINE r == IF kind = "nil" THEN Response("nil") ELSE Sent(Top.conn, act, kind)
<1>1. PICK err \in BOOLEAN : Arrive(r, err)
  BY DEF HandlerSend
<1> HIDE DEF r
<1>2. /\ Top.running /\ shape \notin OneResponse
      /\ UNCHANGED <<passive, shape, chain, stack, left, ret, wire, seen, runs>>
  BY DEF HandlerSend
<1>3. shape \notin OneRequest /\ left' > 0 => Len(seen') = MaxMsgs - left'
  BY <1>2 DEF Looking, OnlyLooking
<1>4. OnlyLooking' /\ UNCHANGED <<Phase, Verdict>> /\ Phase = "running"
  BY <1>2, <1>3, LookingInside
<1>5. result' = result /\ (out' = out \/ out' = Append(out, r))
  BY <1>1, <1>2 DEF Arrive
<1>6. Got' = Got
  BY <1>2 DEF Got
<1>7. CASE out' = out
  BY <1>2, <1>4, <1>5, <1>6, <1>7, DirectStutter DEF DirectVars
<1>8. CASE out' = Append(out, r)
  <2>1. out \in Seq(Responded)
    BY DEF Looking, Safe, TypeOK
  <2>2. Len(out') = Len(out) + 1
    BY <1>8, <2>1
  <2> QED
    BY <1>2, <1>4, <1>5, <1>6, <2>2, DirectSend
<1> QED
  BY <1>4, <1>5, <1>7, <1>8

(* The typed handler is left.                                              *)
LEMMA LookingLeave ==
  ASSUME Looking, InHandler, Top.running, NEW err \in BOOLEAN, Return(err),
         UNCHANGED <<passive, shape, chain, left, wire, seen, out, runs>>,
         \/ UNCHANGED result
         \/ ~err /\ shape \in OneResponse /\ result' \in {"nilmsg", "resp"}
  PROVE  OnlyLooking' /\ [Direct!Next]_(Direct!vars)
<1>1. runs = 1 /\ runs' = 1 /\ Depth > 0
  BY LookingTop DEF InHandler
<1>2. OnlyLooking' /\ ~InHandler'
  BY <1>1, LookingBack
<1>3. Phase = "running" /\ Phase' = "returned" /\ Verdict' = ret' /\ Got' = Got
  BY <1>1, <1>2 DEF Phase, Verdict, Got
<1>4. ret' \in {"ok", "err"} /\ (~err => ret' = "ok")
  BY DEF Return
<1> QED
  BY <1>2, <1>3, <1>4, DirectFinish

LEMMA LookingHandlerReturn ==
  ASSUME Looking, InHandler, NEW err \in BOOLEAN, HandlerReturn(err)
  PROVE  OnlyLooking' /\ [Direct!Next]_(Direct!vars)
BY LookingLeave DEF HandlerReturn

LEMMA LookingHandlerRespond ==
  ASSUME Looking, InHandler, NEW act \in [ToSet(Top.conn) -> {"pass"}],
         NEW kind \in {"resp", "nilmsg"}, HandlerRespond(act, kind)
  PROVE  OnlyLooking' /\ [Direct!Next]_(Direct!vars)
<1> DEFINE r == Sent(Top.conn, act, kind)
<1>1. PICK err \in BOOLEAN : Arrive(r, err) /\ Return(err)
  BY DEF HandlerRespond
<1>2. /\ Top.running /\ shape \in OneResponse
      /\ UNCHANGED <<passive, shape, chain, left, wire, seen, runs>>
  BY DEF HandlerRespond
<1>3. r.kind = kind
  BY PassedDown DEF InHandler, Responses
<1> HIDE DEF r
<1>4. ~Refused(r) /\ r.kind # "drop" /\ r.kind # "nil"
  BY <1>2, <1>3 DEF Refused
<1>5. ~err /\ out' = out /\ result' = kind
  BY <1>1, <1>2, <1>3, <1>4 DEF Arrive
<1> QED
  BY <1>1, <1>2, <1>5, LookingLeave

LEMMA LookingAnswer ==
  ASSUME Looking, Answer
  PROVE  OnlyLooking' /\ [Direct!Next]_(Direct!vars)
<1>1. /\ stack = <<>> /\ ret # "none" /\ wire = "none"
      /\ wire' = IF ret = "err" THEN "error"
                 ELSE IF shape \notin OneResponse THEN "end"
                 ELSE IF result = "resp" THEN "response" ELSE "error"
      /\ UNCHANGED <<passive, shape, chain, stack, left, result, ret, seen, out, runs, sends>>
  BY DEF Answer
<1>2. ~InHandler /\ ~InHandler'
  BY <1>1 DEF InHandler, Depth
<1>3. runs = 1 /\ runs' = 1 /\ ret \in {"ok", "err"}
  BY <1>1 DEF Looking, OnlyLooking, Safe, TypeOK
<1>4. OnlyLooking'
  BY <1>1, <1>2, <1>3 DEF Looking, OnlyLooking, Depth
<1>5. /\ Phase = "returned" /\ Phase' = "returned" /\ Got' = Got
      /\ Verdict = ret /\ Verdict' = ret
  BY <1>1, <1>2, <1>3 DEF Phase, Verdict, Got
<1> QED
  BY <1>1, <1>3, <1>4, <1>5, DirectAnswer

LEMMA LookingNext ==
  ASSUME Looking, [Next]_vars
  PROVE  OnlyLooking' /\ [Direct!Next]_(Direct!vars)
<1>1. passive
  BY DEF Looking
<1>2. CASE Invoke
  BY <1>2, LookingInvoke
<1>3. CASE \E wrap \in BOOLEAN : CallNext(wrap)
  BY <1>3, LookingCallNext
<1>4. CASE InterceptorReceive \/ InterceptorSend
  BY <1>1, <1>4 DEF InterceptorReceive, InterceptorSend
<1>5. CASE \E err \in BOOLEAN : InterceptorReturn(err)
  BY <1>5, LookingReturn
<1>6. CASE Handling({"pass"}, {"pass"})
  <2>1. InHandler
    BY <1>6 DEF Handling
  <2>2. CASE \E act \in [ToSet(Top.conn) -> {"pass"}] : EnterWithRequest(act)
    BY <2>1, <2>2, LookingEnterWithRequest
  <2>3. CASE EnterWithStream
    BY <2>1, <2>3, LookingEnterWithStream
  <2>4. CASE \E act \in [ToSet(Top.conn) -> {"pass"}] : HandlerReceive(act)
    BY <2>1, <2>4, LookingHandlerReceive
  <2>5. CASE \E act \in [ToSet(Top.conn) -> {"pass"}], kind \in Responses \ {"foreign"} :
               HandlerSend(act, kind)
    BY <2>1, <2>5, LookingHandlerSend
  <2>6. CASE \E act \in [ToSet(Top.conn) -> {"pass"}], kind \in {"resp", "nilmsg"} :
               HandlerRespond(act, kind)
    BY <2>1, <2>6, LookingHandlerRespond
  <2>7. CASE \E err \in BOOLEAN : HandlerReturn(err)
    BY <2>1, <2>7, LookingHandlerReturn
  <2> QED
    BY <1>6, <2>2, <2>3, <2>4, <2>5, <2>6, <2>7 DEF Handling
<1>7. CASE Answer
  BY <1>7, LookingAnswer
<1>8. CASE UNCHANGED vars
  <2>1. UNCHANGED DirectVars
    BY <1>8 DEF vars, DirectVars, Phase, Got, Verdict, InHandler, Top, Depth
  <2>2. UNCHANGED <<InHandler, Depth, Budget>>
    BY <1>8 DEF vars, InHandler, Depth, Budget
  <2>3. OnlyLooking'
    BY <1>8, <2>2 DEF vars, Looking, OnlyLooking
  <2> QED
    BY <2>1, <2>3, DirectStutter
<1> QED
  BY <1>1, <1>2, <1>3, <1>4, <1>5, <1>6, <1>7, <1>8 DEF Next, Finished

-----------------------------------------------------------------------------
(* The results.                                                            *)

(* The invariant holds at the start and is kept by every step, whatever    *)
(* the interceptors do (interceptor.go:87-221, 311-417).                   *)
THEOREM Invariance == Spec => []IInv
<1>1. ASSUME Init PROVE IInv
  <2>1. Safe
    BY <1>1, SafeInit
  <2>2. OnlyLooking
    <3>1. DOMAIN <<>> = {}
      OBVIOUS
    <3> QED
      BY <1>1, <3>1, Limits DEF Init, OnlyLooking, Budget
  <2> QED
    BY <2>1, <2>2 DEF IInv, Safe
<1>2. ASSUME IInv, [Next]_vars PROVE IInv'
  <2>1. Safe
    BY <1>2 DEF IInv, Safe
  <2>2. Safe'
    BY <1>2, <2>1, SafeNext
  <2>3. passive' = passive
    BY <1>2 DEF Next, Invoke, CallNext, InterceptorReceive, InterceptorSend, InterceptorReturn,
                Handling, EnterWithRequest, EnterWithStream, HandlerReceive, HandlerSend,
                HandlerRespond, HandlerReturn, Answer, Finished, vars
  <2>4. passive => OnlyLooking'
    BY <1>2, <2>1, LookingNext DEF Looking, IInv
  <2> QED
    BY <2>2, <2>3, <2>4 DEF IInv, Safe
<1> QED
  BY <1>1, <1>2, PTL DEF Spec

(* The single request of a call and each of a stream's requests reach the  *)
(* handler once at most and in order (received in unaryConn.Receive and    *)
(* serverStreamConn.Receive, interceptor.go:311-317, 371-377).             *)
THEOREM EachRequestOnce == Spec => []RequestsOnce
<1>1. IInv => RequestsOnce
  BY DEF IInv
<1> QED
  BY <1>1, Invariance, PTL

(* Interceptors act on requests from the first to the last and on          *)
(* responses from the last to the first (chainInterceptors,                *)
(* interceptor.go:212-221).                                                *)
THEOREM ChainIsAnOnion == Spec => []OnionOrder
<1>1. IInv => OnionOrder
  BY DEF IInv
<1> QED
  BY <1>1, Invariance, PTL

(* No response without a message reaches the transport's stream or is      *)
(* answered with (castResponse, interceptor.go:491-506, and the Send of    *)
(* the stream Conns).                                                      *)
THEOREM OnlyMessagesOnWire == Spec => []NoNilOnWire
<1>1. IInv => NoNilOnWire
  BY DEF IInv
<1> QED
  BY <1>1, Invariance, PTL

(* A call through interceptors that only look on is the call the transport *)
(* and the handler would have had without them (HandlerCall).              *)
THEOREM LookersAreTransparent == Spec => ImplementsDirect
<1>1. ASSUME Init PROVE passive => Direct!Init
  <2>1. [i \in DOMAIN <<>> |-> <<>>[i].n] = <<>> /\ Len(<<>>) = 0
    OBVIOUS
  <2> QED
    BY <1>1, <2>1 DEF Init, Direct!Init, Direct!Shapes, Direct!OneRequest, Shapes, OneRequest
<1>2. ASSUME IInv, [Next]_vars PROVE [passive => [Direct!Next]_(Direct!vars)]_vars
  BY <1>2, LookingNext DEF Looking, Safe, IInv
<1> QED
  BY <1>1, <1>2, Invariance, PTL DEF Spec, ImplementsDirect
=============================================================================
