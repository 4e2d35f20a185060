--------------------------- MODULE WsFramesProofs ---------------------------
(***************************************************************************)
(* What a call receives is what its own session answered, for every value  *)
(* of the constants (FramesFaithful).                                      *)
(*                                                                         *)
(* The open frame of a call goes ahead of its others, so once the server   *)
(* has read one of them the call is being served or refused, and only a    *)
(* frame after the call's end is answered with an unknown session.  The    *)
(* answers then go through five queues; numbering them says that none is   *)
(* lost, repeated or overtaken on the way.                                 *)
(***************************************************************************)
EXTENDS WsSystemProofs

(* The numbers of the frames under way.                                    *)

(* When the first frame is taken, it is the next answer to its call.       *)
LEMMA NumbersTaken ==
  ASSUME NEW q \in Seq(Response), q # <<>>, NEW nums \in [DOMAIN q -> Nat],
         NEW a \in [Calls -> Seq(Answer)], NEW read \in [Calls -> Nat],
         Numbers(q, nums, a, read)
  PROVE  LET c    == q[1].id
             next == [read EXCEPT ![c] = read[c] + 1] IN
         /\ nums[1] = next[c] /\ nums[1] \in DOMAIN a[c] /\ a[c][nums[1]].kind = q[1].kind
         /\ \E rest \in [DOMAIN Tail(q) -> Nat] :
              /\ Numbers(Tail(q), rest, a, next)
              /\ AllNumbered(q, nums, a, read) => AllNumbered(Tail(q), rest, a, next)
<1>0. PICK c : c = q[1].id
  OBVIOUS
<1>a. PICK next : next = [read EXCEPT ![c] = read[c] + 1]
  OBVIOUS
<1>b. PICK rest : rest = [k \in 1 .. Len(q) - 1 |-> nums[k + 1]]
  OBVIOUS
<1>1. /\ Len(q) \in Nat /\ Len(q) > 0 /\ DOMAIN q = 1 .. Len(q) /\ 1 \in DOMAIN q
      /\ DOMAIN Tail(q) = 1 .. Len(q) - 1
      /\ \A k \in 1 .. Len(q) - 1 : Tail(q)[k] = q[k + 1]
      /\ \A k \in DOMAIN q : q[k] \in Response /\ q[k].id \in Calls
  <2>1. Len(q) \in Nat /\ Len(q) > 0 /\ DOMAIN q = 1 .. Len(q) /\ DOMAIN Tail(q) = 1 .. Len(q) - 1
    BY HeadTail
  <2>2. \A k \in 1 .. Len(q) - 1 : Tail(q)[k] = q[k + 1]
    BY HeadTail
  <2>3. \A k \in DOMAIN q : q[k] \in Response
    BY <2>1
  <2> QED
    BY <2>1, <2>2, <2>3 DEF Response
<1>2. ASSUME NEW k \in DOMAIN q
      PROVE  /\ nums[k] \in DOMAIN a[q[k].id] /\ a[q[k].id][nums[k]].kind = q[k].kind
             /\ nums[k] > read[q[k].id]
             /\ \A j \in 1 .. k - 1 : q[j].id = q[k].id => nums[j] < nums[k]
             /\ \/ nums[k] = read[q[k].id] + 1
                \/ \E j \in 1 .. k - 1 : q[j].id = q[k].id /\ nums[j] = nums[k] - 1
  BY DEF Numbers
<1>3. nums[1] = read[c] + 1
  <2>1. ~\E j \in 1 .. 1 - 1 : TRUE
    OBVIOUS
  <2> QED
    BY <1>0, <1>1, <1>2, <2>1
<1>4. /\ next[c] = read[c] + 1 /\ \A d \in Calls : d # c => next[d] = read[d]
      /\ next \in [Calls -> Nat] /\ c \in Calls
  <2>1. c \in Calls
    BY <1>0, <1>1
  <2> QED
    BY <1>a, <2>1
<1>5. rest \in [DOMAIN Tail(q) -> Nat] /\ \A k \in 1 .. Len(q) - 1 : rest[k] = nums[k + 1]
  <2>1. \A k \in 1 .. Len(q) - 1 : k + 1 \in DOMAIN q
    BY <1>1
  <2>2. \A k \in 1 .. Len(q) - 1 : nums[k + 1] \in Nat
    BY <2>1
  <2> QED
    BY <1>1, <1>b, <2>2
<1>6. ASSUME NEW k \in DOMAIN Tail(q)
      PROVE  LET d == Tail(q)[k].id IN
             /\ rest[k] \in DOMAIN a[d] /\ a[d][rest[k]].kind = Tail(q)[k].kind
             /\ rest[k] > next[d]
             /\ \A j \in 1 .. k - 1 : Tail(q)[j].id = d => rest[j] < rest[k]
             /\ rest[k] = next[d] + 1 \/ \E j \in 1 .. k - 1 : Tail(q)[j].id = d /\ rest[j] = rest[k] - 1
  <2> DEFINE d == q[k + 1].id
             n == nums[k + 1]
  <2>1. /\ k \in 1 .. Len(q) - 1 /\ k + 1 \in DOMAIN q /\ Tail(q)[k] = q[k + 1] /\ rest[k] = n
        /\ d \in Calls /\ n \in Nat /\ read[d] \in Nat
    BY <1>1, <1>5
  <2>2. /\ n \in DOMAIN a[d] /\ a[d][n].kind = q[k + 1].kind /\ n > read[d]
        /\ \A j \in 1 .. k : q[j].id = d => nums[j] < n
        /\ n = read[d] + 1 \/ \E j \in 1 .. k : q[j].id = d /\ nums[j] = n - 1
    <3>1. (k + 1) - 1 = k
      BY <2>1
    <3> QED
      BY <1>2, <2>1, <3>1
  <2> HIDE DEF d, n
  <2>3. n > next[d]
    <3>1. CASE d = c
      <4>1. 1 \in 1 .. k
        BY <2>1
      <4> QED
        BY <1>0, <1>3, <1>4, <2>1, <2>2, <3>1, <4>1
    <3>2. CASE d # c
      BY <1>4, <2>1, <2>2, <3>2
    <3> QED
      BY <3>1, <3>2
  <2>4. ASSUME NEW j \in 1 .. k - 1, Tail(q)[j].id = d PROVE rest[j] < rest[k]
    <3>1. j \in 1 .. Len(q) - 1 /\ j + 1 \in 1 .. k /\ rest[j] = nums[j + 1] /\ Tail(q)[j] = q[j + 1]
      BY <1>1, <1>5, <2>1
    <3> QED
      BY <2>1, <2>2, <2>4, <3>1
  <2>5. n = next[d] + 1 \/ \E j \in 1 .. k - 1 : Tail(q)[j].id = d /\ rest[j] = n - 1
    <3>1. CASE n = read[d] + 1
      <4>1. next[d] = read[d] \/ next[d] = read[d] + 1
        BY <1>4, <2>1
      <4>2. n = next[d] + 1
        BY <2>1, <2>3, <3>1, <4>1
      <4> QED
        BY <4>2
    <3>2. ASSUME NEW i \in 1 .. k, q[i].id = d, nums[i] = n - 1, i = 1
          PROVE  n = next[d] + 1
      <4>1. d = c
        BY <1>0, <3>2
      <4> QED
        <5>1. n - 1 = read[c] + 1 /\ next[d] = read[c] + 1 /\ read[c] \in Nat
          BY <1>3, <1>4, <3>2, <4>1
        <5> QED
          BY <2>1, <5>1
    <3>3. ASSUME NEW i \in 1 .. k, q[i].id = d, nums[i] = n - 1, i # 1
          PROVE  \E j \in 1 .. k - 1 : Tail(q)[j].id = d /\ rest[j] = n - 1
      <4>1. /\ i - 1 \in 1 .. k - 1 /\ i - 1 \in 1 .. Len(q) - 1 /\ (i - 1) + 1 = i
        BY <1>1, <2>1, <3>3
      <4>2. rest[i - 1] = nums[i] /\ Tail(q)[i - 1] = q[i]
        BY <1>1, <1>5, <4>1
      <4> QED
        BY <3>3, <4>1, <4>2
    <3> QED
      BY <2>2, <3>1, <3>2, <3>3
  <2> QED
    BY <2>1, <2>2, <2>3, <2>4, <2>5 DEF d, n
<1>7. Numbers(Tail(q), rest, a, next)
  BY <1>6 DEF Numbers
<1>8. ASSUME AllNumbered(q, nums, a, read), NEW d \in Calls, NEW n \in next[d] + 1 .. Len(a[d])
      PROVE  \E k \in DOMAIN Tail(q) : Tail(q)[k].id = d /\ rest[k] = n
  <2>1. n \in read[d] + 1 .. Len(a[d]) /\ n > next[d] /\ Len(a[d]) \in Nat /\ n \in Nat
    <3>1. read[d] \in Nat /\ next[d] \in Nat /\ next[d] >= read[d] /\ Len(a[d]) \in Nat
      <4>1. read[d] \in Nat /\ (next[d] = read[d] + 1 \/ next[d] = read[d])
        BY <1>4
      <4>2. a[d] \in Seq(Answer)
        OBVIOUS
      <4> QED
        BY <4>1, <4>2
    <3> QED
      BY <3>1
  <2>2. PICK k \in DOMAIN q : q[k].id = d /\ nums[k] = n
    BY <1>8, <2>1 DEF AllNumbered
  <2>3. k # 1
    BY <1>0, <1>3, <1>4, <2>1, <2>2
  <2>4. k - 1 \in DOMAIN Tail(q) /\ k - 1 \in 1 .. Len(q) - 1 /\ (k - 1) + 1 = k
    BY <1>1, <2>3
  <2>5. Tail(q)[k - 1] = q[k] /\ rest[k - 1] = nums[k]
    BY <1>1, <1>5, <2>4
  <2> QED
    BY <2>2, <2>4, <2>5
<1>9. nums[1] = next[c] /\ nums[1] \in DOMAIN a[c] /\ a[c][nums[1]].kind = q[1].kind
  BY <1>0, <1>1, <1>2, <1>3, <1>4
<1>10. AllNumbered(q, nums, a, read) => AllNumbered(Tail(q), rest, a, next)
  BY <1>8 DEF AllNumbered
<1> QED
  BY <1>0, <1>a, <1>5, <1>7, <1>9, <1>10

(* A frame that is added is the last answer to its call.                   *)
LEMMA NumbersAdded ==
  ASSUME NEW q \in Seq(Response), NEW f \in Response, NEW nums \in [DOMAIN q -> Nat],
         NEW a \in [Calls -> Seq(Answer)], NEW read \in [Calls -> Nat],
         Numbers(q, nums, a, read), AllNumbered(q, nums, a, read),
         NEW c \in Calls, c = f.id, read[c] <= Len(a[c]),
         NEW e \in Answer, e.kind = f.kind,
         NEW b, b = [a EXCEPT ![c] = Append(a[c], e)],
         NEW more, more = [k \in 1 .. Len(q) + 1 |-> IF k = Len(q) + 1 THEN Len(a[c]) + 1 ELSE nums[k]]
  PROVE  /\ more \in [DOMAIN Append(q, f) -> Nat]
         /\ Numbers(Append(q, f), more, b, read)
         /\ AllNumbered(Append(q, f), more, b, read)
<1> DEFINE p == Append(q, f)
           m == Len(q) + 1
           z == Len(a[c]) + 1
<1>1. /\ Len(q) \in Nat /\ DOMAIN q = 1 .. Len(q)
      /\ DOMAIN p = 1 .. m /\ p[m] = f /\ m \in Nat /\ m \in DOMAIN p
      /\ \A k \in DOMAIN q : p[k] = q[k] /\ k \in DOMAIN p
      /\ \A k \in DOMAIN p : k \in DOMAIN q \/ k = m
  <2>1. p \in Seq(Response) /\ Len(p) = m /\ p[m] = f /\ \A k \in 1 .. Len(q) : p[k] = q[k]
    BY Appended
  <2>2. Len(q) \in Nat /\ DOMAIN q = 1 .. Len(q) /\ DOMAIN p = 1 .. Len(p)
    BY <2>1
  <2> QED
    BY <2>1, <2>2
<1>2. /\ a[c] \in Seq(Answer) /\ Len(a[c]) \in Nat /\ z \in Nat
      /\ DOMAIN a[c] = 1 .. Len(a[c])
  OBVIOUS
<1>3. /\ b[c] \in Seq(Answer) /\ Len(b[c]) = z /\ b[c][z] = e /\ DOMAIN b[c] = 1 .. z
      /\ \A n \in DOMAIN a[c] : n \in DOMAIN b[c] /\ b[c][n] = a[c][n]
  <2>1. b[c] = Append(a[c], e)
    OBVIOUS
  <2>2. /\ Append(a[c], e) \in Seq(Answer) /\ Len(Append(a[c], e)) = z /\ Append(a[c], e)[z] = e
        /\ \A n \in 1 .. Len(a[c]) : Append(a[c], e)[n] = a[c][n]
    BY <1>2, Appended
  <2> QED
    BY <1>2, <2>1, <2>2
<1>4. \A d \in Calls : d # c => b[d] = a[d]
  OBVIOUS
<1>5. /\ more \in [DOMAIN p -> Nat] /\ more[m] = z /\ \A k \in DOMAIN q : more[k] = nums[k]
  <2>1. \A k \in 1 .. m : (IF k = m THEN z ELSE nums[k]) \in Nat
    BY <1>1, <1>2
  <2>2. more \in [1 .. m -> Nat] /\ m \in 1 .. m
    BY <1>1, <2>1
  <2>3. more[m] = z
    BY <2>2
  <2>4. \A k \in DOMAIN q : k # m /\ k \in 1 .. m
    BY <1>1
  <2>5. \A k \in DOMAIN q : more[k] = nums[k]
    BY <2>4
  <2>6. more \in [DOMAIN p -> Nat]
    <3>1. DOMAIN p = 1 .. m
      BY <1>1
    <3> QED
      BY <2>2, <3>1
  <2> QED
    BY <2>3, <2>5, <2>6
<1>6. \A k \in DOMAIN q : q[k].id \in Calls
  <2>1. \A k \in DOMAIN q : q[k] \in Response
    OBVIOUS
  <2> QED
    BY <2>1 DEF Response
<1> HIDE DEF p, m, z
<1>7. ASSUME NEW k \in DOMAIN q
      PROVE  LET d == p[k].id IN
             /\ more[k] \in DOMAIN b[d] /\ b[d][more[k]].kind = p[k].kind
             /\ more[k] > read[d]
             /\ \A j \in 1 .. k - 1 : p[j].id = d => more[j] < more[k]
             /\ \/ more[k] = read[d] + 1
                \/ \E j \in 1 .. k - 1 : p[j].id = d /\ more[j] = more[k] - 1
  <2>1. /\ nums[k] \in DOMAIN a[q[k].id] /\ a[q[k].id][nums[k]].kind = q[k].kind
        /\ nums[k] > read[q[k].id]
        /\ \A j \in 1 .. k - 1 : q[j].id = q[k].id => nums[j] < nums[k]
        /\ \/ nums[k] = read[q[k].id] + 1
           \/ \E j \in 1 .. k - 1 : q[j].id = q[k].id /\ nums[j] = nums[k] - 1
    BY DEF Numbers
  <2>2. p[k] = q[k] /\ more[k] = nums[k] /\ q[k].id \in Calls
    BY <1>1, <1>5, <1>6
  <2>3. \A j \in 1 .. k - 1 : j \in DOMAIN q /\ p[j] = q[j] /\ more[j] = nums[j]
    <3>1. \A j \in 1 .. k - 1 : j \in DOMAIN q
      BY <1>1
    <3> QED
      BY <1>1, <1>5, <3>1
  <2>4. nums[k] \in DOMAIN b[q[k].id] /\ b[q[k].id][nums[k]] = a[q[k].id][nums[k]]
    BY <1>3, <1>4, <2>1, <2>2
  <2> QED
    BY <2>1, <2>2, <2>3, <2>4
<1>8. LET d == p[m].id IN
      /\ more[m] \in DOMAIN b[d] /\ b[d][more[m]].kind = p[m].kind
      /\ more[m] > read[d]
      /\ \A j \in 1 .. m - 1 : p[j].id = d => more[j] < more[m]
      /\ \/ more[m] = read[d] + 1
         \/ \E j \in 1 .. m - 1 : p[j].id = d /\ more[j] = more[m] - 1
  <2>1. p[m].id = c /\ more[m] = z /\ p[m].kind = e.kind /\ z \in DOMAIN b[c] /\ b[c][z] = e
    BY <1>1, <1>2, <1>3, <1>5 DEF z
  <2>2. 1 .. m - 1 = DOMAIN q
    BY <1>1 DEF m
  <2>3. \A j \in DOMAIN q : p[j] = q[j] /\ more[j] = nums[j]
    BY <1>1, <1>5
  <2>4. ASSUME NEW j \in DOMAIN q, q[j].id = c PROVE nums[j] < z
    <3>1. nums[j] \in DOMAIN a[c]
      BY <2>4 DEF Numbers
    <3> QED
      BY <1>2, <3>1 DEF z
  <2>5. z = read[c] + 1 \/ \E j \in DOMAIN q : q[j].id = c /\ nums[j] = z - 1
    <3>1. CASE read[c] = Len(a[c])
      BY <3>1 DEF z
    <3>2. CASE read[c] # Len(a[c])
      <4>1. Len(a[c]) \in read[c] + 1 .. Len(a[c]) /\ z - 1 = Len(a[c])
        BY <1>2, <3>2 DEF z
      <4>2. PICK j \in DOMAIN q : q[j].id = c /\ nums[j] = Len(a[c])
        BY <4>1 DEF AllNumbered
      <4> QED
        BY <4>1, <4>2
    <3> QED
      BY <3>1, <3>2
  <2>6. z > read[c]
    BY <1>2 DEF z
  <2> QED
    BY <2>1, <2>2, <2>3, <2>4, <2>5, <2>6
<1>9. Numbers(p, more, b, read)
  <2>1. \A k \in DOMAIN p : k \in DOMAIN q \/ k = m
    BY <1>1
  <2> QED
    BY <1>7, <1>8, <2>1 DEF Numbers
<1>10. ASSUME NEW d \in Calls, NEW n \in read[d] + 1 .. Len(b[d])
       PROVE  \E k \in DOMAIN p : p[k].id = d /\ more[k] = n
  <2>1. CASE n \in read[d] + 1 .. Len(a[d])
    <3>1. PICK k \in DOMAIN q : q[k].id = d /\ nums[k] = n
      BY <2>1 DEF AllNumbered
    <3> QED
      BY <1>1, <1>5, <3>1
  <2>2. CASE n \notin read[d] + 1 .. Len(a[d])
    <3>1. d = c /\ n = z
      BY <1>2, <1>3, <1>4, <2>2 DEF z
    <3> QED
      BY <1>1, <1>5, <3>1
  <2> QED
    BY <2>1, <2>2
<1> QED
  BY <1>5, <1>9, <1>10 DEF AllNumbered, p

(* The numbers stay when more is answered, and when the last frames of the *)
(* queue are thrown away.                                                  *)
LEMMA NumbersKept ==
  ASSUME NEW q, NEW p, NEW nums \in [DOMAIN q -> Nat], NEW a, NEW b, NEW read,
         Numbers(q, nums, a, read),
         \A k \in DOMAIN p : k \in DOMAIN q /\ p[k] = q[k] /\ p[k].id \in Calls,
         \A k \in DOMAIN p : \A j \in 1 .. k - 1 : j \in DOMAIN p,
         \A c \in Calls : \A n \in DOMAIN a[c] : n \in DOMAIN b[c] /\ b[c][n] = a[c][n],
         NEW less, less = [k \in DOMAIN p |-> nums[k]]
  PROVE  less \in [DOMAIN p -> Nat] /\ Numbers(p, less, b, read)
<1>1. less \in [DOMAIN p -> Nat] /\ \A k \in DOMAIN p : less[k] = nums[k]
  OBVIOUS
<1>2. ASSUME NEW k \in DOMAIN p
      PROVE  LET d == p[k].id IN
             /\ less[k] \in DOMAIN b[d] /\ b[d][less[k]].kind = p[k].kind
             /\ less[k] > read[d]
             /\ \A j \in 1 .. k - 1 : p[j].id = d => less[j] < less[k]
             /\ \/ less[k] = read[d] + 1
                \/ \E j \in 1 .. k - 1 : p[j].id = d /\ less[j] = less[k] - 1
  <2>1. k \in DOMAIN q /\ p[k] = q[k] /\ p[k].id \in Calls /\ less[k] = nums[k]
    BY <1>1
  <2>2. /\ nums[k] \in DOMAIN a[q[k].id] /\ a[q[k].id][nums[k]].kind = q[k].kind
        /\ nums[k] > read[q[k].id]
        /\ \A j \in 1 .. k - 1 : q[j].id = q[k].id => nums[j] < nums[k]
        /\ \/ nums[k] = read[q[k].id] + 1
           \/ \E j \in 1 .. k - 1 : q[j].id = q[k].id /\ nums[j] = nums[k] - 1
    BY <2>1 DEF Numbers
  <2>3. \A j \in 1 .. k - 1 : p[j] = q[j] /\ less[j] = nums[j]
    BY <1>1
  <2>4. nums[k] \in DOMAIN b[p[k].id] /\ b[p[k].id][nums[k]] = a[p[k].id][nums[k]]
    BY <2>1, <2>2
  <2> QED
    BY <2>1, <2>2, <2>3, <2>4
<1> QED
  BY <1>1, <1>2 DEF Numbers

-----------------------------------------------------------------------------
(* What the server queues for a call, and what its write loop passes on.   *)

(* Frame e.kind is put into the write channel for call c, and recorded.    *)
Answers(c, e) ==
  /\ c \in Calls /\ e \in Answer
  /\ answers' = [answers EXCEPT ![c] = Append(answers[c], e)]
  /\ sWriteCh' = Append(sWriteCh, [id |-> c, kind |-> e.kind])

(* The server puts a frame into its write channel from a session, or from  *)
(* its read loop.                                                          *)
HandlerAnswers(s) ==
  S!WriteFrame(s) /\ Answers(idOf[s], [kind |-> Head(pend[s]), cause |-> "handler"])
ReaderAnswers ==
  S!ReaderWrite /\ Answers(sReader.id, [kind |-> "error", cause |-> sReader.code])

(* A frame that enters the write channel is recorded as an answer.         *)
LEMMA Recorded ==
  ASSUME Ends, NEW f \in Response, NEW cause, sWriteCh' = Append(sWriteCh, f), Record(cause),
         [kind |-> f.kind, cause |-> cause] \in Answer
  PROVE  Answers(f.id, [kind |-> f.kind, cause |-> cause])
<1>1. sWriteCh \in Seq(Response)
  BY FrameTypes
<1>2. /\ Len(sWriteCh) \in Nat /\ Len(sWriteCh') = Len(sWriteCh) + 1
      /\ sWriteCh'[Len(sWriteCh) + 1] = f
  BY <1>1, Appended
<1>3. Last(sWriteCh') = f /\ ~(Len(sWriteCh') <= Len(sWriteCh))
  BY <1>2 DEF Last
<1>4. answers' = [answers EXCEPT ![f.id] = Append(@, [kind |-> f.kind, cause |-> cause])]
  BY <1>3 DEF Record
<1>5. f.id \in Calls /\ f = [id |-> f.id, kind |-> f.kind]
  BY DEF Response
<1> QED
  BY <1>4, <1>5 DEF Answers

(* A channel that does not grow records none.                              *)
LEMMA NothingRecorded ==
  ASSUME Ends, NEW cause, sWriteCh' = sWriteCh, Record(cause)
  PROVE  answers' = answers
<1>1. Len(sWriteCh) \in Nat
  BY FrameTypes
<1> QED
  BY <1>1 DEF Record

(* A step of a session answers its own call, or no call.                   *)
LEMMA SessionAnswers ==
  ASSUME Ends, NEW s \in Sess, S!Transport(s), Record("handler")
  PROVE  HandlerAnswers(s) \/ UNCHANGED <<answers, sWriteCh, sWriter, replied>>
<1>1. CASE S!WriteFrame(s)
  <2> DEFINE f == [id |-> idOf[s], kind |-> Head(pend[s])]
  <2>1. sPc[s] \in {"send", "finish"} /\ sWriteCh' = Append(sWriteCh, f)
    BY <1>1 DEF S!WriteFrame
  <2>2. idOf[s] \in Calls /\ pend[s] # <<>> /\ pend[s] \in Seq(SP!Kinds)
    BY <2>1 DEF Ends, SP!IInv, SP!SessionLocals, SP!TypeOK, SP!SessOK
  <2>3. Head(pend[s]) \in S!Kinds
    BY <2>2, HeadTail DEF S!Kinds, SP!Kinds
  <2>4. /\ f \in Response /\ f.id = idOf[s] /\ f.kind = Head(pend[s])
        /\ [kind |-> Head(pend[s]), cause |-> "handler"] \in Answer
    BY <2>2, <2>3 DEF Response, Answer
  <2> HIDE DEF f
  <2>5. Answers(f.id, [kind |-> f.kind, cause |-> "handler"])
    BY <2>1, <2>4, Recorded
  <2> QED
    BY <1>1, <2>4, <2>5 DEF HandlerAnswers
<1>2. CASE ~S!WriteFrame(s)
  <2>1. UNCHANGED <<sWriteCh, sWriter, replied>>
    BY <1>2 DEF S!Transport, S!RecvExactlyOne, S!VerifyEmpty, S!DrainRest, S!ReceiveRequest,
       S!SkipFrame, S!DeleteSession, S!ReleaseSlot, S!outVars, S!sessVars
  <2> QED
    BY <2>1, NothingRecorded
<1> QED
  BY <1>1, <1>2

(* The read loop answers only the frames it refuses.                       *)
LEMMA ReadLoopAnswers ==
  ASSUME Ends, OpensHandled, S!Reader, Record(sReader.code)
  PROVE  ReaderAnswers \/ UNCHANGED <<answers, sWriteCh, sWriter, replied>>
<1>1. CASE S!ReaderWrite /\ sWriteCh' = Append(sWriteCh, [id |-> sReader.id, kind |-> "error"])
  <2> DEFINE f == [id |-> sReader.id, kind |-> "error"]
  <2>1. sReader.at = "write" /\ sWriteCh' = Append(sWriteCh, f)
    BY <1>1 DEF S!ReaderWrite
  <2>2. sReader.id \in Calls /\ sReader.code \in {"unavailable", "session_not_found"}
    BY <2>1 DEF Ends, SP!IInv, SP!ReaderLocals, OpensHandled
  <2>3. /\ f \in Response /\ f.id = sReader.id /\ f.kind = "error"
        /\ [kind |-> "error", cause |-> sReader.code] \in Answer
    BY <2>2 DEF Response, Answer, S!Kinds
  <2> HIDE DEF f
  <2>4. Answers(f.id, [kind |-> f.kind, cause |-> sReader.code])
    BY <2>1, <2>3, Recorded
  <2> QED
    BY <1>1, <2>3, <2>4 DEF ReaderAnswers
<1>2. CASE ~(S!ReaderWrite /\ sWriteCh' = Append(sWriteCh, [id |-> sReader.id, kind |-> "error"]))
  <2>1. UNCHANGED <<sWriteCh, sWriter, replied>>
    BY <1>2 DEF S!Reader, S!StartSession, S!RouteMessage, S!CloseRecvCh, S!ReaderWrite, S!outVars, S!sessVars
  <2> QED
    BY <2>1, NothingRecorded
<1> QED
  BY <1>1, <1>2

PassedOn == S!WriterTake \/ S!WriterFailed \/ S!WriterDrain \/ S!WriterEnd

(* So an answer enters the write channel, is passed on, is written, is     *)
(* read, or stays where it is.                                             *)
LEMMA AnswerMoves ==
  ASSUME Ends, OpensHandled, [Next]_vars
  PROVE  \/ UNCHANGED <<s2c, answers, sent, sWriteCh, sWriter, replied>>
         \/ ServerWrites \/ ClientReads
         \/ UNCHANGED <<s2c, answers, sent>> /\ PassedOn
         \/ UNCHANGED <<s2c, clientVars>> /\ (ReaderAnswers \/ \E s \in Sess : HandlerAnswers(s))
<1>1. CASE ClientWrites \/ ClientNotices
  BY <1>1 DEF ClientWrites, ClientNotices, C!WriterWrote, C!Disconnect, C!peerVars, serverVars,
     netVars
<1>2. CASE ServerReads
  BY <1>2 DEF ServerReads, clientVars, S!ReadOpen, S!ReadMessage, S!ReadClose, S!ReadCancel,
     S!outVars, S!sessVars
<1>3. CASE ServerNotices \/ ServerShutdown
  BY <1>3 DEF ServerNotices, ServerShutdown, ServerThread, clientVars, netVars, S!Disconnect,
     S!Shutdown, S!ReadFail, S!CancelContext, S!CloseAllSessions, S!CloseWriteCh, S!Return,
     S!outVars, S!sessVars
<1>4. CASE ServerReader
  <2>1. ReaderAnswers \/ UNCHANGED <<answers, sWriteCh, sWriter, replied>>
    BY <1>4, ReadLoopAnswers DEF ServerReader, ServerThread
  <2> QED
    BY <1>4, <2>1 DEF ServerReader, ServerThread, netVars, clientVars
<1>5. CASE ServerWriter
  BY <1>5 DEF ServerWriter, ServerThread, netVars, clientVars, PassedOn
<1>6. ASSUME NEW s \in Sess, Serving(s)
      PROVE  /\ UNCHANGED <<s2c, clientVars>>
             /\ HandlerAnswers(s) \/ UNCHANGED <<answers, sWriteCh, sWriter, replied>>
  BY <1>6, SessionAnswers DEF Serving, ServerThread, netVars
<1>7. ASSUME NEW s \in Sess, HandlerCode(s)
      PROVE  UNCHANGED <<s2c, answers, sent, sWriteCh, sWriter, replied>>
  BY <1>7 DEF HandlerCode, ServerThread, netVars, clientVars, S!Handler, S!CallReceive,
     S!CallSend, S!HandlerReturn, S!outVars, S!sessVars
<1>8. CASE ClientReader \/ ClientWriter \/ Closing
  BY <1>8 DEF ClientReader, ClientWriter, Closing, ClientThread, netVars, serverVars, C!Deliver,
     C!ReadLoopEnds, C!WriterTake, C!WriteLoopEnds, C!Closer, C!CloseSessions, C!CloseDone,
     C!peerVars
<1>9. ASSUME NEW c \in Calls, Sending(c) \/ Receiving(c) \/ Aborting(c) \/ User(c)
      PROVE  UNCHANGED <<s2c, answers, sent, sWriteCh, sWriter, replied>>
  <2>1. /\ UNCHANGED <<netVars, answers, serverVars>>
        /\ C!Sending(c) \/ C!Receiving(c) \/ C!CancelStream(c) \/ C!User(c)
    BY <1>9 DEF Sending, Receiving, Aborting, User, ClientThread
  <2>2. UNCHANGED C!peerVars
    BY <2>1 DEF C!Sending, C!Receiving, C!User, C!SendFrame, C!SendFails, C!TakeFrame, C!GiveUp,
       C!RemoveSession, C!CancelStream, C!NewSession, C!MarshalFails, C!CallReceive, C!CallSend,
       C!CloseAndReceive, C!CloseStream
  <2> QED
    BY <2>1, <2>2 DEF netVars, serverVars, C!peerVars
<1>10. CASE Faults
  BY <1>10 DEF Faults, ClientThread, ServerThread, netVars, serverVars, clientVars,
     C!Environment, C!Disconnect, C!BaseCancel, C!CallerCancel, C!peerVars, S!Environment,
     S!Disconnect, S!BaseCancel, S!outVars, S!sessVars
<1>11. CASE UNCHANGED vars
  BY <1>11 DEF vars, netVars, clientVars, serverVars
<1>12. UNCHANGED clientVars => UNCHANGED sent
  BY DEF clientVars
<1> QED
  BY <1>1, <1>2, <1>3, <1>4, <1>5, <1>6, <1>7, <1>8, <1>9, <1>10, <1>11, <1>12 DEF Next

-----------------------------------------------------------------------------
(* Answers reach the client in order.                                      *)

(* What is appended to a sequence leaves its head where it is.             *)
LEMMA Heads ==
  ASSUME NEW F, NEW g \in Seq(F), g # <<>>
  PROVE  /\ \A e \in F : Append(g, e) # <<>> /\ Head(Append(g, e)) = Head(g)
                         /\ Tail(Append(g, e)) = Append(Tail(g), e)
         /\ \A q \in Seq(F) : g \o q # <<>> /\ Head(g \o q) = Head(g)
                              /\ Tail(g \o q) = Tail(g) \o q
<1>1. /\ Len(g) \in Nat /\ Len(g) > 0 /\ Tail(g) \in Seq(F) /\ Len(Tail(g)) = Len(g) - 1
      /\ \A k \in 1 .. Len(g) - 1 : Tail(g)[k] = g[k + 1]
  BY HeadTail
<1>2. ASSUME NEW e \in F
      PROVE  Append(g, e) # <<>> /\ Head(Append(g, e)) = Head(g)
             /\ Tail(Append(g, e)) = Append(Tail(g), e)
  <2>1. Append(g, e) # <<>> /\ Head(Append(g, e)) = Head(g)
    OBVIOUS
  <2>2. /\ Tail(Append(g, e)) \in Seq(F) /\ Len(Tail(Append(g, e))) = Len(g)
        /\ \A k \in 1 .. Len(g) : Tail(Append(g, e))[k] = Append(g, e)[k + 1]
    BY <1>1, <2>1, Appended, HeadTail
  <2>3. /\ Append(Tail(g), e) \in Seq(F) /\ Len(Append(Tail(g), e)) = Len(g)
        /\ Append(Tail(g), e)[Len(g)] = e
        /\ \A k \in 1 .. Len(g) - 1 : Append(Tail(g), e)[k] = Tail(g)[k]
    BY <1>1, Appended
  <2>4. Append(g, e)[Len(g) + 1] = e /\ \A k \in 1 .. Len(g) : Append(g, e)[k] = g[k]
    BY Appended
  <2>5. ASSUME NEW k \in 1 .. Len(g) PROVE Tail(Append(g, e))[k] = Append(Tail(g), e)[k]
    <3>1. Tail(Append(g, e))[k] = Append(g, e)[k + 1]
      BY <2>2
    <3>2. CASE k = Len(g)
      BY <2>3, <2>4, <3>1, <3>2
    <3>3. CASE k # Len(g)
      <4>1. Len(g) \in Nat /\ k \in 1 .. Len(g) /\ k # Len(g)
        BY <1>1, <3>3
      <4>2. k \in 1 .. Len(g) - 1 /\ k + 1 \in 1 .. Len(g)
        BY <4>1
      <4> QED
        BY <1>1, <2>3, <2>4, <3>1, <4>2
    <3> QED
      BY <3>2, <3>3
  <2>6. Tail(Append(g, e)) = Append(Tail(g), e)
    BY <2>2, <2>3, <2>5, SameElements
  <2> QED
    BY <2>1, <2>6
<1>3. ASSUME NEW q \in Seq(F)
      PROVE  g \o q # <<>> /\ Head(g \o q) = Head(g) /\ Tail(g \o q) = Tail(g) \o q
  <2> DEFINE m == Len(g) + Len(q) - 1
  <2>1. /\ g \o q \in Seq(F) /\ Len(g \o q) = Len(g) + Len(q) /\ Len(q) \in Nat
        /\ \A k \in 1 .. Len(g) + Len(q) :
             (g \o q)[k] = IF k <= Len(g) THEN g[k] ELSE q[k - Len(g)]
    BY Joined
  <2>2. g \o q # <<>> /\ Head(g \o q) = Head(g)
    BY <1>1, <2>1, HeadTail
  <2>3. /\ Tail(g \o q) \in Seq(F) /\ Len(Tail(g \o q)) = m
        /\ \A k \in 1 .. m : Tail(g \o q)[k] = (g \o q)[k + 1]
    BY <1>1, <2>1, <2>2, HeadTail
  <2>4. /\ Tail(g) \o q \in Seq(F) /\ Len(Tail(g) \o q) = m
        /\ \A k \in 1 .. m :
             (Tail(g) \o q)[k] = IF k <= Len(g) - 1 THEN Tail(g)[k] ELSE q[k - (Len(g) - 1)]
    BY <1>1, <2>1, Joined
  <2>5. ASSUME NEW k \in 1 .. m PROVE Tail(g \o q)[k] = (Tail(g) \o q)[k]
    <3>1. k + 1 \in 1 .. Len(g) + Len(q) /\ (k + 1) - Len(g) = k - (Len(g) - 1)
      BY <1>1, <2>1
    <3> QED
      BY <1>1, <2>1, <2>3, <2>4, <3>1
  <2>6. Tail(g \o q) = Tail(g) \o q
    BY <2>3, <2>4, <2>5, SameElements
  <2> QED
    BY <2>2, <2>6
<1> QED
  BY <1>2, <1>3

Passing == sWriter.at \in {"idle", "writing"}

(* The frames under way: of the network, the writer and the channel.       *)
LEMMA UnderWayIs ==
  ASSUME Ends
  PROVE  /\ UnderWay \in Seq(Response)
         /\ \A k \in DOMAIN s2c : k \in DOMAIN UnderWay /\ UnderWay[k] = s2c[k]
<1>1. /\ s2c \in Seq(Response) /\ sWriteCh \in Seq(Response)
      /\ sWriter.at = "writing" => sWriter.frame \in Response
  BY FrameTypes DEF Ends, NetOK
<1>2. ASSUME NEW g \in Seq(Response), Len(g) >= Len(s2c), \A k \in DOMAIN s2c : g[k] = s2c[k]
      PROVE  /\ g \o sWriteCh \in Seq(Response)
             /\ \A k \in DOMAIN s2c : k \in DOMAIN (g \o sWriteCh) /\ (g \o sWriteCh)[k] = s2c[k]
  <2>1. /\ g \o sWriteCh \in Seq(Response) /\ Len(g \o sWriteCh) = Len(g) + Len(sWriteCh)
        /\ \A k \in 1 .. Len(g) + Len(sWriteCh) :
             (g \o sWriteCh)[k] = IF k <= Len(g) THEN g[k] ELSE sWriteCh[k - Len(g)]
    BY <1>1, Joined
  <2>2. \A k \in DOMAIN s2c : k \in 1 .. Len(g) + Len(sWriteCh) /\ k <= Len(g)
    BY <1>1, <1>2
  <2> QED
    BY <1>2, <2>1, <2>2
<1>3. CASE sWriter.at = "idle"
  BY <1>1, <1>2, <1>3 DEF UnderWay
<1>4. CASE sWriter.at = "writing"
  <2> DEFINE g == Append(s2c, sWriter.frame)
  <2>1. g \in Seq(Response) /\ Len(g) >= Len(s2c) /\ \A k \in DOMAIN s2c : g[k] = s2c[k]
    BY <1>1, <1>4, Appended
  <2>2. UnderWay = g \o sWriteCh
    BY <1>4 DEF UnderWay
  <2> HIDE DEF g
  <2> QED
    BY <1>2, <2>1, <2>2
<1>5. CASE ~Passing
  BY <1>1, <1>5 DEF UnderWay, Passing
<1> QED
  BY <1>3, <1>4, <1>5 DEF Passing

(* To number the frames under way after a step is enough, ...              *)
LEMMA InOrderNow ==
  ASSUME NEW q, q = UnderWay', NEW nums \in [DOMAIN q -> Nat],
         NEW a, a = answers', NEW read, read = sent',
         \A c \in Calls : read[c] <= Len(a[c]),
         Numbers(q, nums, a, read), Passing' => AllNumbered(q, nums, a, read)
  PROVE  AnswersInOrder'
BY DEF AnswersInOrder, Passing, Numbers, AllNumbered

(* What is under way does not change when its first frame is put into the  *)
(* network, or taken by the write loop; ...                                *)
LEMMA InOrderStays ==
  ASSUME Ends, AnswersInOrder,
         \/ UNCHANGED <<s2c, answers, sent, sWriteCh, sWriter>>
         \/ ServerWrites
         \/ UNCHANGED <<s2c, answers, sent>> /\ S!WriterTake
  PROVE  AnswersInOrder'
<1>1. /\ s2c \in Seq(Response) /\ sWriteCh \in Seq(Response)
      /\ sWriter.at = "writing" => sWriter.frame \in Response
  BY FrameTypes DEF Ends, NetOK
<1>2. UnderWay' = UnderWay /\ UNCHANGED <<answers, sent>> /\ (Passing' <=> Passing)
  <2>1. CASE UNCHANGED <<s2c, answers, sent, sWriteCh, sWriter>>
    BY <2>1 DEF UnderWay, Passing
  <2>2. CASE ServerWrites
    BY <2>2 DEF ServerWrites, S!WriterWrote, UnderWay, Passing, clientVars
  <2>3. CASE UNCHANGED <<s2c, answers, sent>> /\ S!WriterTake
    <3>1. /\ sWriter.at = "idle" /\ sWriteCh # <<>> /\ sWriteCh' = Tail(sWriteCh)
          /\ sWriter' = [at |-> "writing", frame |-> Head(sWriteCh)]
      BY <2>3 DEF S!WriterTake
    <3>2. Append(s2c, Head(sWriteCh)) \o Tail(sWriteCh) = s2c \o sWriteCh
      BY <1>1, <3>1, TakenIsMoved
    <3> QED
      BY <2>3, <3>1, <3>2 DEF UnderWay, Passing
  <2> QED
    BY <2>1, <2>2, <2>3
<1>3. PICK nums \in [DOMAIN UnderWay -> Nat] :
        /\ Numbers(UnderWay, nums, answers, sent)
        /\ Passing => AllNumbered(UnderWay, nums, answers, sent)
  BY DEF AnswersInOrder, Passing
<1>4. \A c \in Calls : sent[c] <= Len(answers[c])
  BY DEF AnswersInOrder
<1> QED
  BY <1>2, <1>3, <1>4, InOrderNow

(* ... it loses its first frame to the read loop of the client, ...        *)
LEMMA InOrderRead ==
  ASSUME Ends, AnswersOK, AnswersInOrder, ClientReads
  PROVE  AnswersInOrder'
<1>0. PICK q : q = UnderWay
  OBVIOUS
<1>1. /\ s2c \in Seq(Response) /\ sWriteCh \in Seq(Response)
      /\ sWriter.at = "writing" => sWriter.frame \in Response
      /\ sent \in [Calls -> Nat] /\ answers \in [Calls -> Seq(Answer)]
  BY FrameTypes DEF Ends, NetOK, AnswersOK, CP!IInv, CP!TypeOK, CP!PeerOK
<1>2. /\ s2c # <<>> /\ s2c' = Tail(s2c) /\ UNCHANGED <<answers, sWriteCh, sWriter, replied>>
      /\ sent' = [sent EXCEPT ![Head(s2c).id] = @ + 1]
  BY DEF ClientReads, C!ReadFrame, serverVars
<1>3. q # <<>> /\ Head(q) = Head(s2c) /\ UnderWay' = Tail(q)
  <2>1. CASE sWriter.at = "idle"
    <3>1. UnderWay = s2c \o sWriteCh /\ UnderWay' = Tail(s2c) \o sWriteCh
      BY <1>2, <2>1 DEF UnderWay
    <3> QED
      BY <1>0, <1>1, <1>2, <3>1, Heads
  <2>2. CASE sWriter.at = "writing"
    <3> DEFINE g == Append(s2c, sWriter.frame)
    <3>1. /\ UnderWay = Append(s2c, sWriter.frame) \o sWriteCh
          /\ UnderWay' = Append(Tail(s2c), sWriter.frame) \o sWriteCh
      BY <1>2, <2>2 DEF UnderWay
    <3>2. /\ g \in Seq(Response) /\ g # <<>> /\ Head(g) = Head(s2c)
          /\ Tail(g) = Append(Tail(s2c), sWriter.frame)
      <4>1. g \in Seq(Response)
        BY <1>1, <2>2, Appended
      <4>2. \A e \in Response : /\ Append(s2c, e) # <<>> /\ Head(Append(s2c, e)) = Head(s2c)
                                /\ Tail(Append(s2c, e)) = Append(Tail(s2c), e)
        BY <1>1, <1>2, Heads
      <4> QED
        BY <1>1, <2>2, <4>1, <4>2
    <3> HIDE DEF g
    <3>3. g \o sWriteCh # <<>> /\ Head(g \o sWriteCh) = Head(g)
          /\ Tail(g \o sWriteCh) = Tail(g) \o sWriteCh
      BY <1>1, <3>2, Heads
    <3> QED
      BY <1>0, <3>1, <3>2, <3>3 DEF g
  <2>3. CASE ~Passing
    BY <1>0, <1>2, <2>3 DEF UnderWay, Passing
  <2> QED
    BY <2>1, <2>2, <2>3 DEF Passing
<1>4. PICK nums \in [DOMAIN q -> Nat] :
        /\ Numbers(q, nums, answers, sent)
        /\ Passing => AllNumbered(q, nums, answers, sent)
  BY <1>0 DEF AnswersInOrder, Passing
<1>5. q \in Seq(Response)
  BY <1>0, UnderWayIs
<1>6. Head(q) = q[1] /\ q[1] \in Response
  BY <1>3, <1>5, HeadTail
<1>7. PICK c \in Calls : c = q[1].id
  BY <1>6 DEF Response
<1>8. PICK next : next = [sent EXCEPT ![c] = sent[c] + 1]
  OBVIOUS
<1>9. /\ sent' = next /\ next[c] = sent[c] + 1
      /\ \A d \in Calls : d # c => next[d] = sent[d]
  BY <1>1, <1>2, <1>3, <1>6, <1>7, <1>8
<1>10. /\ nums[1] = next[c] /\ nums[1] \in DOMAIN answers[c]
       /\ \E rest \in [DOMAIN Tail(q) -> Nat] :
            /\ Numbers(Tail(q), rest, answers, next)
            /\ AllNumbered(q, nums, answers, sent) => AllNumbered(Tail(q), rest, answers, next)
  BY <1>1, <1>3, <1>4, <1>5, <1>7, <1>8, NumbersTaken
<1>11. ASSUME NEW d \in Calls PROVE next[d] <= Len(answers[d])
  <2>1. CASE d = c
    <3>1. answers[c] \in Seq(Answer)
      BY <1>1
    <3> QED
      BY <1>10, <2>1, <3>1
  <2>2. CASE d # c
    BY <1>9, <2>2 DEF AnswersInOrder
  <2> QED
    BY <2>1, <2>2
<1>12. Passing' <=> Passing
  BY <1>2 DEF Passing
<1> QED
  BY <1>2, <1>3, <1>4, <1>9, <1>10, <1>11, <1>12, InOrderNow

(* ... it grows at the end with each answer, ...                           *)
LEMMA InOrderAdds ==
  ASSUME Ends, AnswersOK, AnswersInOrder, Passing, NEW c \in Calls, NEW e \in Answer,
         UNCHANGED <<s2c, sent, sWriter>>, Answers(c, e)
  PROVE  AnswersInOrder'
<1> DEFINE q == UnderWay
           f == [id |-> c, kind |-> e.kind]
<1>1. /\ s2c \in Seq(Response) /\ sWriteCh \in Seq(Response)
      /\ sWriter.at = "writing" => sWriter.frame \in Response
      /\ sent \in [Calls -> Nat] /\ answers \in [Calls -> Seq(Answer)]
  BY FrameTypes DEF Ends, NetOK, AnswersOK, CP!IInv, CP!TypeOK, CP!PeerOK
<1>2. f \in Response /\ f.id = c /\ f.kind = e.kind
  BY DEF Response, Answer
<1>3. sWriteCh' = Append(sWriteCh, f) /\ answers' = [answers EXCEPT ![c] = Append(answers[c], e)]
  BY DEF Answers
<1> HIDE DEF f
<1>4. UnderWay' = Append(q, f)
  <2>1. CASE sWriter.at = "idle"
    <3>1. UnderWay = s2c \o sWriteCh /\ UnderWay' = s2c \o Append(sWriteCh, f)
      BY <1>3, <2>1 DEF UnderWay
    <3> QED
      BY <1>1, <1>2, <3>1, PutAtTheEnd
  <2>2. CASE sWriter.at = "writing"
    <3> DEFINE g == Append(s2c, sWriter.frame)
    <3>1. UnderWay = g \o sWriteCh /\ UnderWay' = g \o Append(sWriteCh, f)
      BY <1>3, <2>2 DEF UnderWay
    <3>2. g \in Seq(Response)
      BY <1>1, <2>2, Appended
    <3> HIDE DEF g
    <3> QED
      BY <1>1, <1>2, <3>1, <3>2, PutAtTheEnd
  <2> QED
    BY <2>1, <2>2 DEF Passing
<1>5. PICK nums \in [DOMAIN UnderWay -> Nat] :
        /\ Numbers(UnderWay, nums, answers, sent)
        /\ AllNumbered(UnderWay, nums, answers, sent)
  BY DEF AnswersInOrder, Passing
<1>6. q \in Seq(Response) /\ \A d \in Calls : sent[d] <= Len(answers[d])
  BY UnderWayIs DEF AnswersInOrder
<1> DEFINE more == [k \in 1 .. Len(q) + 1 |-> IF k = Len(q) + 1 THEN Len(answers[c]) + 1 ELSE nums[k]]
           b == [answers EXCEPT ![c] = Append(answers[c], e)]
<1>7. ASSUME NEW d \in Calls PROVE sent[d] <= Len(b[d])
  <2>1. b[d] = IF d = c THEN Append(answers[c], e) ELSE answers[d]
    BY <1>1
  <2>2. answers[c] \in Seq(Answer) /\ Len(Append(answers[c], e)) = Len(answers[c]) + 1
    BY <1>1, Appended
  <2> QED
    BY <1>1, <1>6, <2>1, <2>2
<1> HIDE DEF q, more, b
<1>8. /\ more \in [DOMAIN Append(q, f) -> Nat]
      /\ Numbers(Append(q, f), more, b, sent)
      /\ AllNumbered(Append(q, f), more, b, sent)
  BY <1>1, <1>2, <1>5, <1>6, NumbersAdded DEF q, more, b
<1>9. answers' = b /\ sent' = sent
  BY <1>3 DEF b
<1> QED
  BY <1>4, <1>7, <1>8, <1>9, InOrderNow

(* ... and it is cut when the write loop ends.                             *)
LEMMA InOrderCut ==
  ASSUME Ends, Ends', AnswersOK, AnswersInOrder, UNCHANGED <<s2c, sent>>, ~Passing',
         answers' = answers \/ \E c \in Calls, e \in Answer : Answers(c, e)
  PROVE  AnswersInOrder'
<1>1. /\ s2c \in Seq(Response) /\ sent \in [Calls -> Nat] /\ answers \in [Calls -> Seq(Answer)]
  BY DEF Ends, NetOK, AnswersOK, CP!IInv, CP!TypeOK, CP!PeerOK
<1>2. \A c \in Calls : /\ \A n \in DOMAIN answers[c] : n \in DOMAIN answers'[c]
                                                       /\ answers'[c][n] = answers[c][n]
                       /\ sent[c] <= Len(answers'[c])
  <2>1. \A c \in Calls : sent[c] <= Len(answers[c])
    BY DEF AnswersInOrder
  <2>2. ASSUME NEW c \in Calls, NEW e \in Answer, Answers(c, e), NEW d \in Calls
        PROVE  /\ \A n \in DOMAIN answers[d] : n \in DOMAIN answers'[d]
                                               /\ answers'[d][n] = answers[d][n]
               /\ sent[d] <= Len(answers'[d])
    <3>1. answers'[d] = IF d = c THEN Append(answers[c], e) ELSE answers[d]
      BY <1>1, <2>2 DEF Answers
    <3>2. answers[c] \in Seq(Answer) /\ Len(answers[c]) \in Nat /\ DOMAIN answers[c] = 1 .. Len(answers[c])
      BY <1>1
    <3>3. /\ Append(answers[c], e) \in Seq(Answer)
          /\ Len(Append(answers[c], e)) = Len(answers[c]) + 1
          /\ \A n \in 1 .. Len(answers[c]) : Append(answers[c], e)[n] = answers[c][n]
      BY <3>2, Appended
    <3>4. DOMAIN Append(answers[c], e) = 1 .. Len(answers[c]) + 1
      BY <3>3
    <3>5. CASE d = c
      BY <1>1, <2>1, <3>1, <3>2, <3>3, <3>4, <3>5
    <3> QED
      BY <2>1, <3>1, <3>5
  <2> QED
    BY <2>1, <2>2
<1>3. UnderWay' = s2c
  BY DEF UnderWay, Passing
<1>4. PICK nums \in [DOMAIN UnderWay -> Nat] : Numbers(UnderWay, nums, answers, sent)
  BY DEF AnswersInOrder
<1> DEFINE less == [k \in DOMAIN s2c |-> nums[k]]
<1>5. \A k \in DOMAIN s2c : k \in DOMAIN UnderWay /\ s2c[k] = UnderWay[k] /\ s2c[k].id \in Calls
  <2>1. \A k \in DOMAIN s2c : s2c[k] \in Response
    BY <1>1
  <2> QED
    BY <2>1, UnderWayIs DEF Response
<1>6. \A k \in DOMAIN s2c : \A j \in 1 .. k - 1 : j \in DOMAIN s2c
  BY <1>1
<1> HIDE DEF less
<1>7. less \in [DOMAIN s2c -> Nat] /\ Numbers(s2c, less, answers', sent)
  <2>1. \A c \in Calls : \A n \in DOMAIN answers[c] : n \in DOMAIN answers'[c]
                                                    /\ answers'[c][n] = answers[c][n]
    BY <1>2
  <2>2. less = [k \in DOMAIN s2c |-> nums[k]]
    BY DEF less
  <2>3. PICK q, b : q = UnderWay /\ b = answers'
    OBVIOUS
  <2>4. /\ nums \in [DOMAIN q -> Nat] /\ Numbers(q, nums, answers, sent)
        /\ \A k \in DOMAIN s2c : k \in DOMAIN q /\ s2c[k] = q[k] /\ s2c[k].id \in Calls
    BY <1>4, <1>5, <2>3
  <2>5. \A c \in Calls : \A n \in DOMAIN answers[c] : n \in DOMAIN b[c] /\ b[c][n] = answers[c][n]
    BY <2>1, <2>3
  <2>6. less \in [DOMAIN s2c -> Nat] /\ Numbers(s2c, less, b, sent)
    BY <1>6, <2>2, <2>4, <2>5, NumbersKept
  <2> QED
    BY <2>3, <2>6
<1> QED
  BY <1>2, <1>3, <1>7, InOrderNow

(* Every step keeps the answers under way in order (server.go:489-520).    *)
LEMMA InOrderStep ==
  ASSUME Ends, Ends', OpensHandled, AnswersOK, AnswersInOrder, [Next]_vars
  PROVE  AnswersOK' /\ AnswersInOrder'
<1>1. AnswersOK'
  <2>1. ASSUME NEW c, NEW e, Answers(c, e) PROVE answers' \in [Calls -> Seq(Answer)]
    <3>1. /\ c \in Calls /\ e \in Answer /\ answers[c] \in Seq(Answer)
          /\ answers' = [answers EXCEPT ![c] = Append(answers[c], e)]
      BY <2>1 DEF Answers, AnswersOK
    <3>2. Append(answers[c], e) \in Seq(Answer)
      BY <3>1, Appended
    <3> QED
      BY <3>1, <3>2 DEF AnswersOK
  <2> QED
    BY <2>1, AnswerMoves DEF HandlerAnswers, ReaderAnswers, AnswersOK, ServerWrites, ClientReads
<1>2. CASE ClientReads
  BY <1>1, <1>2, InOrderRead
<1>3. CASE UNCHANGED <<s2c, answers, sent>> /\ PassedOn
  <2>1. CASE S!WriterTake
    BY <1>1, <1>3, <2>1, InOrderStays
  <2>2. CASE S!WriterFailed \/ S!WriterDrain \/ S!WriterEnd
    <3>1. ~Passing'
      BY <2>2 DEF S!WriterFailed, S!WriterDrain, S!WriterEnd, Passing
    <3> QED
      BY <1>1, <1>3, <3>1, InOrderCut
  <2> QED
    BY <1>3, <2>1, <2>2 DEF PassedOn
<1>4. CASE UNCHANGED <<s2c, clientVars>> /\ (ReaderAnswers \/ \E s \in Sess : HandlerAnswers(s))
  <2>1. PICK c \in Calls, e \in Answer : Answers(c, e)
    BY <1>4 DEF ReaderAnswers, HandlerAnswers, Answers
  <2>2. UNCHANGED <<s2c, sent, sWriter>>
    BY <1>4 DEF ReaderAnswers, HandlerAnswers, S!ReaderWrite, S!WriteFrame, clientVars
  <2>3. Passing' <=> Passing
    BY <2>2 DEF Passing
  <2> QED
    BY <1>1, <2>1, <2>2, <2>3, InOrderAdds, InOrderCut
<1> QED
  BY <1>1, <1>2, <1>3, <1>4, AnswerMoves, InOrderStays

-----------------------------------------------------------------------------
(* A call's open frame goes first.                                         *)

(* A call queues its open frame first (call.go:54-101, client.go:97).      *)
LEMMA QueuesOpenCall ==
  ASSUME Ends, QueuesOpen, NEW c \in Calls,
         C!Sending(c) \/ C!Receiving(c) \/ C!CancelStream(c) \/ C!User(c)
  PROVE  QueuesOpen'
<1>1. /\ cPc \in [Calls -> CP!CallAt] /\ snd \in [Calls -> Seq(C!Out)]
      /\ queued \in [Calls -> Seq(C!Out)]
      /\ closing \in [Calls -> {"no", "removed", "done"}]
      /\ QueuesOpenFirst(c)
  BY ClientTypes DEF Ends, CP!IInv, CP!TypeOK, CP!CallsOK, QueuesOpen
<1> DEFINE Rest == \A d \in Calls : d # c =>
                     UNCHANGED <<cPc[d], snd[d], queued[d], closing[d]>>
<1>2. Rest /\ QueuesOpenFirst(c)' => QueuesOpen'
  BY DEF QueuesOpen, QueuesOpenFirst
<1>3. C!Handed(c) => queued[c] # <<>>
  <2>1. Len(C!Opening(c)) > 0
    BY DEF C!Opening
  <2> QED
    BY <1>1, <2>1 DEF C!Handed
<1>4. CASE C!SendFrame(c)
  <2>1. snd[c] # <<>> /\ queued' = [queued EXCEPT ![c] = Append(@, Head(snd[c]))] /\ Rest
    BY <1>1, <1>4 DEF C!SendFrame
  <2>2. queued'[c] # <<>>
    <3>1. queued[c] \in Seq(C!Out) /\ snd[c] \in Seq(C!Out)
      BY <1>1
    <3>2. Head(snd[c]) \in C!Out
      BY <2>1, <3>1, HeadTail
    <3>3. Append(queued[c], Head(snd[c])) # <<>>
      BY <3>1, <3>2
    <3> QED
      BY <1>1, <2>1, <3>3
  <2> QED
    BY <1>2, <2>1, <2>2 DEF QueuesOpenFirst
<1>5. CASE C!SendFails(c)
  <2>1. /\ UNCHANGED <<queued, closing>> /\ snd'[c] = <<>> /\ Rest
        /\ UNCHANGED cPc \/ cPc'[c] = "cleanup"
    BY <1>1, <1>5 DEF C!SendFails, C!outVars
  <2> QED
    BY <1>1, <1>2, <2>1 DEF QueuesOpenFirst
<1>6. ASSUME C!Fail(c), cPc[c] = "recv", UNCHANGED <<queued, closing>> PROVE QueuesOpen'
  <2>1. queued[c] # <<>>
    BY <1>1, <1>6 DEF QueuesOpenFirst
  <2>2. Rest
    BY <1>1, <1>6 DEF C!Fail
  <2> QED
    BY <1>2, <1>6, <2>1, <2>2 DEF QueuesOpenFirst
<1>7. CASE C!TakeFrame(c)
  <2>1. /\ UNCHANGED <<queued, closing>> /\ cPc[c] = "recv"
        /\ C!Succeed(c) \/ C!Fail(c) \/ UNCHANGED <<cPc, snd>>
    BY <1>7 DEF C!TakeFrame, C!outVars
  <2>2. queued[c] # <<>>
    BY <1>1, <2>1 DEF QueuesOpenFirst
  <2>3. ASSUME C!Succeed(c) PROVE Rest
    BY <1>1, <2>1, <2>3 DEF C!Succeed
  <2> QED
    BY <1>2, <1>6, <2>1, <2>2, <2>3 DEF QueuesOpenFirst
<1>8. CASE C!GiveUp(c)
  <2>1. UNCHANGED <<queued, closing>> /\ cPc[c] = "recv" /\ C!Fail(c)
    BY <1>8 DEF C!GiveUp, C!outVars
  <2> QED
    BY <1>6, <2>1
<1>9. CASE C!RemoveSession(c)
  <2>1. UNCHANGED <<queued, closing, snd>> /\ cPc'[c] = "done" /\ Rest
    BY <1>1, <1>9 DEF C!RemoveSession, C!outVars
  <2> QED
    BY <1>1, <1>2, <2>1 DEF QueuesOpenFirst
<1>10. CASE C!CancelStream(c)
  <2>1. UNCHANGED queued /\ closing[c] = "removed" /\ Rest
    BY <1>1, <1>10 DEF C!CancelStream, C!outVars
  <2> QED
    BY <1>1, <1>2, <2>1 DEF QueuesOpenFirst
<1>11. CASE C!NewSession(c)
  <2>1. /\ UNCHANGED <<queued, closing>> /\ cPc'[c] = "opening" /\ snd'[c] = C!Opening(c) /\ Rest
    BY <1>1, <1>11 DEF C!NewSession, C!outVars
  <2>2. Head(C!Opening(c)) = "open"
    BY DEF C!Opening
  <2> QED
    BY <1>1, <1>2, <2>1, <2>2 DEF QueuesOpenFirst
<1>12. CASE C!MarshalFails(c)
  <2>1. UNCHANGED <<queued, closing>> /\ snd'[c] = <<>> /\ cPc'[c] = "cleanup" /\ Rest
    BY <1>1, <1>12 DEF C!MarshalFails, C!outVars
  <2> QED
    BY <1>1, <1>2, <2>1 DEF QueuesOpenFirst
<1>13. CASE C!CallReceive(c) \/ C!CallSend(c) \/ C!CloseStream(c)
  <2>1. UNCHANGED queued /\ queued[c] # <<>> /\ Rest
    BY <1>1, <1>3, <1>13 DEF C!CallReceive, C!CallSend, C!CloseStream, C!outVars
  <2> QED
    BY <1>2, <2>1 DEF QueuesOpenFirst
<1>14. CASE C!CloseAndReceive(c)
  <2>1. UNCHANGED queued /\ queued[c] # <<>> /\ Rest
    BY <1>1, <1>14 DEF C!CloseAndReceive, C!outVars, QueuesOpenFirst
  <2> QED
    BY <1>2, <2>1 DEF QueuesOpenFirst
<1> QED
  BY <1>4, <1>5, <1>7, <1>8, <1>9, <1>10, <1>11, <1>12, <1>13, <1>14 DEF C!Sending, C!Receiving, C!User

(* No other step lets it queue another.                                    *)
LEMMA QueuesOpenStep ==
  ASSUME Ends, QueuesOpen, [Next]_vars
  PROVE  QueuesOpen'
<1>1. CASE \E c \in Calls : C!Sending(c) \/ C!Receiving(c) \/ C!CancelStream(c) \/ C!User(c)
  BY <1>1, QueuesOpenCall
<1>2. CASE C!Environment \/ C!Reader \/ C!Writer \/ C!Closer \/ UNCHANGED clientVars
  <2>1. UNCHANGED <<cPc, snd, queued, closing>>
    <3>1. CASE C!Environment \/ C!Closer
      BY <3>1 DEF C!Environment, C!Disconnect, C!BaseCancel, C!CallerCancel, C!Closer,
         C!CloseSessions, C!CloseDone, C!callVars, C!outVars
    <3>2. CASE C!Reader
      BY <3>2 DEF C!Reader, C!ReadFrame, C!Deliver, C!ReadLoopEnds, C!callVars, C!outVars
    <3>3. CASE C!Writer
      BY <3>3 DEF C!Writer, C!WriterTake, C!WriterWrote, C!WriteLoopEnds, C!callVars, C!outVars
    <3>4. CASE UNCHANGED clientVars
      BY <3>4 DEF clientVars
    <3> QED
      BY <1>2, <3>1, <3>2, <3>3, <3>4
  <2> QED
    BY <2>1 DEF QueuesOpen, QueuesOpenFirst
<1>3. [C!Next]_clientVars
  BY EndSteps
<1> QED
  BY <1>1, <1>2, <1>3 DEF C!Next

(* The write channel and the frame in the write loop's hands.              *)
LEMMA AheadQueues ==
  ASSUME Ends, QueuesOpen, OpenAhead, NEW c \in Calls, C!SendFrame(c)
  PROVE  OpenAhead'
<1> DEFINE f == [call |-> c, kind |-> Head(snd[c])]
<1>1. /\ snd \in [Calls -> Seq(C!Out)] /\ queued \in [Calls -> Seq(C!Out)]
      /\ cWriteCh \in Seq(Request)
  BY ClientTypes DEF Ends
<1>2. /\ snd[c] # <<>> /\ cWriteCh' = Append(cWriteCh, f) /\ UNCHANGED <<cWriter, opened>>
      /\ \A d \in Calls : d # c => queued'[d] = queued[d]
  BY <1>1 DEF C!SendFrame, C!loopVars, C!peerVars
<1>3. f \in Request /\ f.call = c /\ (Head(snd[c]) = "open" => f = Open(c))
  <2>1. Head(snd[c]) \in C!Out
    BY <1>1, <1>2, HeadTail
  <2> QED
    BY <2>1 DEF Request, Open
<1>4. Head(snd[c]) = "open" \/ queued[c] # <<>>
  BY <1>2 DEF QueuesOpen, QueuesOpenFirst
<1> HIDE DEF f
<1>5. /\ Len(cWriteCh) \in Nat /\ DOMAIN cWriteCh = 1 .. Len(cWriteCh)
      /\ DOMAIN cWriteCh' = 1 .. Len(cWriteCh) + 1
      /\ \A k \in DOMAIN cWriteCh : cWriteCh'[k] = cWriteCh[k]
      /\ cWriteCh'[Len(cWriteCh) + 1] = f
      /\ Range(cWriteCh') = Range(cWriteCh) \union {f}
  <2>1. /\ cWriteCh' \in Seq(Request) /\ Len(cWriteCh') = Len(cWriteCh) + 1
        /\ \A k \in 1 .. Len(cWriteCh) : cWriteCh'[k] = cWriteCh[k]
        /\ cWriteCh'[Len(cWriteCh) + 1] = f
    BY <1>1, <1>2, <1>3, Appended
  <2>2. Range(cWriteCh') = Range(cWriteCh) \union {f}
    BY <1>1, <1>2, <1>3, FrameAdded
  <2>3. Len(cWriteCh) \in Nat /\ DOMAIN cWriteCh = 1 .. Len(cWriteCh)
    BY <1>1
  <2>4. DOMAIN cWriteCh' = 1 .. Len(cWriteCh')
    BY <2>1
  <2> QED
    BY <2>1, <2>2, <2>3, <2>4
<1>6. ASSUME NEW d
      PROVE  /\ OpenHeld(d)' <=> OpenHeld(d)
             /\ OpenQueued(d)' <=> OpenQueued(d) \/ f = Open(d)
             /\ Open(d)' = Open(d)
  BY <1>2, <1>5 DEF OpenHeld, OpenQueued, Open
<1>7. ASSUME NEW d \in Calls, queued'[d] # <<>>
      PROVE  (cWriter.at = "done" \/ OpenQueued(d) \/ OpenHeld(d) \/ d \in opened)'
  BY <1>2, <1>3, <1>4, <1>6, <1>7 DEF OpenAhead
<1>8. ASSUME NEW k \in DOMAIN cWriteCh'
      PROVE  (\/ cWriter.at = "done" \/ OpenHeld(cWriteCh[k].call) \/ cWriteCh[k].call \in opened
              \/ \E j \in 1 .. k : cWriteCh[j] = Open(cWriteCh[k].call))'
  <2>1. PICK d : d = cWriteCh'[k].call
    OBVIOUS
  <2>2. CASE k \in DOMAIN cWriteCh
    <3>1. cWriteCh'[k] = cWriteCh[k] /\ \A j \in 1 .. k : cWriteCh'[j] = cWriteCh[j]
      BY <1>5, <2>2
    <3>2. \/ cWriter.at = "done" \/ OpenHeld(d) \/ d \in opened
          \/ \E j \in 1 .. k : cWriteCh[j] = Open(d)
      BY <2>1, <2>2, <3>1 DEF OpenAhead
    <3> QED
      BY <1>2, <1>6, <2>1, <3>1, <3>2 DEF Open, OpenHeld
  <2>3. CASE k = Len(cWriteCh) + 1
    <3>1. d = c /\ k \in 1 .. k /\ \A j \in DOMAIN cWriteCh : j \in 1 .. k /\ cWriteCh'[j] = cWriteCh[j]
      BY <1>3, <1>5, <2>1, <2>3
    <3>2. CASE Head(snd[c]) = "open"
      BY <1>3, <1>5, <2>1, <2>3, <3>1, <3>2 DEF Open
    <3>3. CASE queued[c] # <<>>
      <4>1. cWriter.at = "done" \/ OpenHeld(c) \/ c \in opened \/ OpenQueued(c)
        BY <3>3 DEF OpenAhead
      <4>2. OpenQueued(c) => \E j \in DOMAIN cWriteCh : cWriteCh[j] = Open(c)
        BY DEF OpenQueued, Range
      <4> QED
        BY <1>2, <1>6, <2>1, <3>1, <4>1, <4>2 DEF Open, OpenHeld
    <3> QED
      BY <1>4, <3>2, <3>3
  <2> QED
    BY <1>5, <2>2, <2>3
<1>9. (cWriter.at = "writing" => cWriter.kind = "open" \/ cWriter.call \in opened)'
  BY <1>2 DEF OpenAhead
<1> QED
  BY <1>7, <1>8, <1>9 DEF OpenAhead

(* The write loop takes the oldest frame: a call opens first; ...          *)
LEMMA AheadTakes ==
  ASSUME Ends, OpenAhead, C!WriterTake
  PROVE  OpenAhead'
<1> DEFINE q == cWriteCh
<1>1. /\ cWriter.at = "idle" /\ cWriteCh # <<>> /\ cWriteCh' = Tail(cWriteCh)
      /\ cWriter' = [at |-> "writing", call |-> Head(cWriteCh).call, kind |-> Head(cWriteCh).kind]
      /\ UNCHANGED <<queued, opened>>
  BY DEF C!WriterTake, C!peerVars
<1>2. cWriteCh \in Seq(Request)
  BY ClientTypes DEF Ends
<1>3. /\ Len(cWriteCh) \in Nat /\ Len(cWriteCh) > 0 /\ DOMAIN cWriteCh = 1 .. Len(cWriteCh)
      /\ DOMAIN cWriteCh' = 1 .. Len(cWriteCh) - 1
      /\ \A k \in 1 .. Len(cWriteCh) - 1 : cWriteCh'[k] = cWriteCh[k + 1]
      /\ Head(cWriteCh) = cWriteCh[1] /\ Head(cWriteCh) \in Request
  <2>1. /\ Len(cWriteCh) > 0 /\ Tail(cWriteCh) \in Seq(Request)
        /\ Len(Tail(cWriteCh)) = Len(cWriteCh) - 1
        /\ \A k \in 1 .. Len(cWriteCh) - 1 : Tail(cWriteCh)[k] = cWriteCh[k + 1]
        /\ Head(cWriteCh) = cWriteCh[1] /\ Head(cWriteCh) \in Request
    BY <1>1, <1>2, HeadTail
  <2>2. Len(cWriteCh) \in Nat /\ DOMAIN cWriteCh = 1 .. Len(cWriteCh)
    BY <1>2
  <2>3. DOMAIN Tail(cWriteCh) = 1 .. Len(Tail(cWriteCh))
    BY <2>1
  <2> QED
    BY <1>1, <2>1, <2>2, <2>3
<1>4. ASSUME NEW d
      PROVE  /\ ~OpenHeld(d)
             /\ OpenHeld(d)' <=> cWriteCh[1] = Open(d)
             /\ OpenQueued(d) => OpenQueued(d)' \/ OpenHeld(d)'
             /\ Open(d)' = Open(d)
  <2>1. cWriteCh[1] = Open(d) <=> Head(cWriteCh).call = d /\ Head(cWriteCh).kind = "open"
    BY <1>3 DEF Open, Request
  <2>2. OpenHeld(d)' <=> cWriteCh[1] = Open(d)
    BY <1>1, <2>1 DEF OpenHeld
  <2>3. Range(cWriteCh) = Range(cWriteCh') \union {Head(cWriteCh)}
    BY <1>1, <1>2, FrameTaken
  <2> QED
    BY <1>1, <1>3, <2>2, <2>3 DEF OpenHeld, OpenQueued, Open
<1>5. ASSUME NEW d \in Calls, queued'[d] # <<>>
      PROVE  (cWriter.at = "done" \/ OpenQueued(d) \/ OpenHeld(d) \/ d \in opened)'
  <2>1. OpenQueued(d) \/ d \in opened
    BY <1>1, <1>4, <1>5 DEF OpenAhead
  <2> QED
    BY <1>1, <1>4, <2>1
<1>6. ASSUME NEW k \in DOMAIN cWriteCh'
      PROVE  (\/ cWriter.at = "done" \/ OpenHeld(cWriteCh[k].call) \/ cWriteCh[k].call \in opened
              \/ \E j \in 1 .. k : cWriteCh[j] = Open(cWriteCh[k].call))'
  <2>1. PICK d : d = cWriteCh'[k].call
    OBVIOUS
  <2>2. k + 1 \in DOMAIN cWriteCh /\ cWriteCh[k + 1].call = d /\ k \in 1 .. Len(cWriteCh) - 1
    BY <1>3, <2>1
  <2>3. d \in opened \/ \E j \in 1 .. k + 1 : cWriteCh[j] = Open(d)
    <3>1. \/ cWriter.at = "done" \/ OpenHeld(cWriteCh[k + 1].call) \/ cWriteCh[k + 1].call \in opened
          \/ \E j \in 1 .. k + 1 : cWriteCh[j] = Open(cWriteCh[k + 1].call)
      BY <2>2 DEF OpenAhead
    <3> QED
      BY <1>1, <1>4, <2>2, <3>1
  <2>4. ASSUME NEW j \in 1 .. k + 1, cWriteCh[j] = Open(d)
        PROVE  OpenHeld(d)' \/ \E i \in 1 .. k : cWriteCh'[i] = Open(d)
    <3>1. CASE j = 1
      BY <1>4, <2>4, <3>1
    <3>2. CASE j # 1
      <4>1. j - 1 \in 1 .. k /\ j - 1 \in 1 .. Len(cWriteCh) - 1 /\ (j - 1) + 1 = j
        BY <1>3, <2>2, <3>2
      <4>2. cWriteCh'[j - 1] = cWriteCh[j]
        BY <1>3, <4>1
      <4> QED
        BY <2>4, <4>1, <4>2
    <3> QED
      BY <3>1, <3>2
  <2> QED
    BY <1>1, <2>1, <2>3, <2>4 DEF Open, OpenHeld
<1>7. (cWriter.at = "writing" => cWriter.kind = "open" \/ cWriter.call \in opened)'
  <2>1. PICK d : d = cWriteCh[1].call
    OBVIOUS
  <2>2. d \in opened \/ cWriteCh[1] = Open(d)
    <3>1. 1 \in DOMAIN cWriteCh /\ \A j \in 1 .. 1 : j = 1
      BY <1>3
    <3>2. \/ cWriter.at = "done" \/ OpenHeld(d) \/ d \in opened
          \/ \E j \in 1 .. 1 : cWriteCh[j] = Open(d)
      BY <2>1, <3>1 DEF OpenAhead
    <3> QED
      BY <1>1, <1>4, <3>1, <3>2
  <2> QED
    BY <1>1, <1>3, <2>1, <2>2 DEF Open
<1> QED
  BY <1>5, <1>6, <1>7 DEF OpenAhead

(* ... it goes on, or ends and throws the rest away; ...                   *)
LEMMA AheadLoop ==
  ASSUME OpenAhead, C!WriterWrote \/ C!WriteLoopEnds
  PROVE  OpenAhead'
<1>1. CASE C!WriteLoopEnds
  <2>1. cWriter'.at = "done"
    BY <1>1 DEF C!WriteLoopEnds
  <2> QED
    BY <2>1 DEF OpenAhead
<1>2. CASE C!WriterWrote
  <2>1. /\ cWriter.at = "writing" /\ UNCHANGED <<queued, cWriteCh>>
        /\ cWriter' = [at |-> "idle", call |-> None, kind |-> "open"]
        /\ opened' = IF cWriter.kind = "open" THEN opened \union {cWriter.call} ELSE opened
    BY <1>2 DEF C!WriterWrote, C!outVars
  <2>2. ASSUME NEW d
        PROVE  /\ d \in opened \/ OpenHeld(d) => d \in opened'
               /\ OpenQueued(d)' <=> OpenQueued(d)
               /\ Open(d)' = Open(d)
    BY <2>1 DEF OpenHeld, OpenQueued, Open
  <2>3. ASSUME NEW d \in Calls, queued'[d] # <<>>
        PROVE  (cWriter.at = "done" \/ OpenQueued(d) \/ OpenHeld(d) \/ d \in opened)'
    BY <2>1, <2>2, <2>3 DEF OpenAhead
  <2>4. ASSUME NEW k \in DOMAIN cWriteCh'
        PROVE  (\/ cWriter.at = "done" \/ OpenHeld(cWriteCh[k].call) \/ cWriteCh[k].call \in opened
                \/ \E j \in 1 .. k : cWriteCh[j] = Open(cWriteCh[k].call))'
    <3>1. PICK d : d = cWriteCh[k].call
      OBVIOUS
    <3>2. d \in opened' \/ \E j \in 1 .. k : cWriteCh[j] = Open(d)
      BY <2>1, <2>2, <3>1 DEF OpenAhead
    <3> QED
      BY <2>1, <3>1, <3>2 DEF Open
  <2>5. cWriter'.at # "writing"
    BY <2>1
  <2> QED
    BY <2>3, <2>4, <2>5 DEF OpenAhead
<1> QED
  BY <1>1, <1>2

(* ... and other steps move no frame.                                      *)
LEMMA AheadStays ==
  ASSUME OpenAhead, UNCHANGED <<queued, opened, cWriter, cWriteCh>>
  PROVE  OpenAhead'
BY DEF OpenAhead, OpenHeld, OpenQueued, Open

(* The network.                                                            *)
LEMMA SentAheadWrites ==
  ASSUME Ends, OpensOnce, OpenAhead, OpenSentAhead, ClientWrites
  PROVE  OpenSentAhead'
<1> DEFINE f == [call |-> cWriter.call, kind |-> cWriter.kind]
           m == Len(c2s) + 1
<1>1. /\ cWriter.at = "writing" /\ c2s' = Append(c2s, f)
      /\ opened' = IF cWriter.kind = "open" THEN opened \union {cWriter.call} ELSE opened
  BY DEF ClientWrites, C!WriterWrote
<1>2. f \in Request /\ c2s \in Seq(Request)
  BY <1>1, FrameTypes DEF Ends, NetOK
<1>3. cWriter.call \in opened' /\ opened \subseteq opened'
  BY <1>1 DEF OpenAhead
<1>4. /\ Len(c2s) \in Nat /\ DOMAIN c2s = 1 .. Len(c2s) /\ DOMAIN c2s' = 1 .. m
      /\ \A k \in DOMAIN c2s : c2s'[k] = c2s[k] /\ c2s[k].call \in Calls
      /\ c2s'[m] = f
  <2>1. /\ c2s' \in Seq(Request) /\ Len(c2s') = m /\ c2s'[m] = f
        /\ \A k \in 1 .. Len(c2s) : c2s'[k] = c2s[k]
    BY <1>1, <1>2, Appended
  <2>2. DOMAIN c2s' = 1 .. Len(c2s')
    BY <2>1
  <2>3. Len(c2s) \in Nat /\ DOMAIN c2s = 1 .. Len(c2s) /\ \A k \in DOMAIN c2s : c2s[k] \in Request
    BY <1>2
  <2> QED
    BY <2>1, <2>2, <2>3 DEF Request
<1>5. f.call = cWriter.call /\ \A d : f = Open(d) => OpenHeld(d)
  BY <1>1 DEF Open, OpenHeld
<1> HIDE DEF f
<1>6. \A k \in DOMAIN c2s' : c2s'[k].call \in opened'
  <2>1. \A k \in DOMAIN c2s' : k \in DOMAIN c2s \/ k = m
    BY <1>4
  <2> QED
    BY <1>3, <1>4, <1>5, <2>1 DEF OpenSentAhead
<1>7. ASSUME NEW j \in DOMAIN c2s', NEW k \in DOMAIN c2s', c2s'[j] = Open(c2s'[k].call)
      PROVE  j <= k
  <2>1. CASE k = m
    BY <1>4, <2>1
  <2>2. CASE j = m /\ k # m
    <3>1. k \in DOMAIN c2s /\ c2s'[k] = c2s[k] /\ c2s[k].call \in Calls
      BY <1>4, <2>2
    <3>2. c2s[k].call \in opened /\ OpenHeld(c2s[k].call)
      BY <1>4, <1>5, <1>7, <2>2, <3>1 DEF OpenSentAhead
    <3> QED
      BY <3>1, <3>2 DEF OpensOnce, OpenOnce
  <2>3. CASE j # m /\ k # m
    <3>1. k \in DOMAIN c2s /\ c2s'[k] = c2s[k] /\ j \in DOMAIN c2s /\ c2s'[j] = c2s[j]
      BY <1>4, <2>3
    <3> QED
      BY <1>7, <3>1 DEF OpenSentAhead
  <2> QED
    BY <2>1, <2>2, <2>3
<1> QED
  BY <1>6, <1>7 DEF OpenSentAhead, Open

(* The server reads the oldest frame.                                      *)
LEMMA SentAheadReads ==
  ASSUME Ends, OpenSentAhead, ServerReads
  PROVE  OpenSentAhead'
<1>1. c2s \in Seq(Request) /\ c2s # <<>> /\ c2s' = Tail(c2s) /\ UNCHANGED opened
  BY DEF Ends, NetOK, ServerReads, clientVars
<1>2. /\ DOMAIN c2s' = 1 .. Len(c2s) - 1 /\ Len(c2s) \in Nat /\ DOMAIN c2s = 1 .. Len(c2s)
      /\ \A k \in 1 .. Len(c2s) - 1 : c2s'[k] = c2s[k + 1]
  BY <1>1, HeadTail
<1>3. \A k \in DOMAIN c2s' : k \in Int /\ k + 1 \in DOMAIN c2s /\ c2s'[k] = c2s[k + 1]
  BY <1>2
<1>4. \A k \in DOMAIN c2s' : c2s'[k].call \in opened'
  BY <1>1, <1>3 DEF OpenSentAhead
<1>5. ASSUME NEW j \in DOMAIN c2s', NEW k \in DOMAIN c2s', c2s'[j] = Open(c2s'[k].call)
      PROVE  j <= k
  <2>1. j + 1 <= k + 1
    BY <1>3, <1>5 DEF OpenSentAhead
  <2> QED
    BY <1>3, <2>1
<1> QED
  BY <1>4, <1>5 DEF OpenSentAhead, Open

(* Every step keeps the open frame of a call ahead of its others.          *)
LEMMA OpenFirstStep ==
  ASSUME Ends, SP!AnswerLocals, OpensOnce, OpenFirst, [Next]_vars
  PROVE  OpenFirst'
<1>1. QueuesOpen /\ OpenAhead /\ OpenSentAhead
  BY DEF OpenFirst
<1>2. QueuesOpen'
  BY <1>1, QueuesOpenStep
<1>3. OpenAhead' /\ OpenSentAhead'
  <2>1. CASE ClientWrites
    BY <1>1, <2>1, AheadLoop, SentAheadWrites DEF ClientWrites
  <2>2. CASE ServerReads
    <3>1. UNCHANGED <<queued, opened, cWriter, cWriteCh>>
      BY <2>2 DEF ServerReads, clientVars
    <3> QED
      BY <1>1, <2>2, <3>1, AheadStays, SentAheadReads
  <2>3. CASE UNCHANGED c2s /\ UNCHANGED <<queued, opened, cWriter, cWriteCh>>
    BY <1>1, <2>3, AheadStays DEF OpenSentAhead, Open
  <2>4. CASE UNCHANGED c2s /\ (C!WriterTake \/ C!WriteLoopEnds \/ \E c \in Calls : C!SendFrame(c))
    <3>1. UNCHANGED opened
      BY <2>4 DEF C!WriterTake, C!WriteLoopEnds, C!SendFrame, C!peerVars
    <3>2. OpenAhead'
      BY <1>1, <2>4, AheadTakes, AheadLoop, AheadQueues
    <3> QED
      BY <1>1, <2>4, <3>1, <3>2 DEF OpenSentAhead, Open
  <2> QED
    BY <2>1, <2>2, <2>3, <2>4, Moves DEF ClientCalm, clientVars
<1> QED
  BY <1>2, <1>3 DEF OpenFirst

-----------------------------------------------------------------------------
(* What the server's read loop does with the open frames.                  *)

(* The connection's context stays cancelled.                               *)
LEMMA DoneStays ==
  ASSUME Ends, [Next]_vars, sCtx = "done"
  PROVE  sCtx' = "done"
<1>1. [S!Next]_serverVars
  BY EndSteps
<1>2. CASE S!PeerFrame
  <2>1. S!NextFrame
    <3>1. \A i, p, sh : S!ReadOpen(i, p, sh) => S!NextFrame
      BY DEF S!ReadOpen
    <3>2. \A i : S!ReadMessage(i) \/ S!ReadClose(i) \/ S!ReadCancel(i) => S!NextFrame
      BY DEF S!ReadMessage, S!ReadClose, S!ReadCancel
    <3>3. S!ReadIgnored => S!NextFrame
      BY DEF S!ReadIgnored
    <3> QED
      BY <1>2, <3>1, <3>2, <3>3, Zenon DEF S!PeerFrame
  <2> QED
    BY <2>1 DEF S!NextFrame
<1>3. CASE S!Environment \/ S!Reader \/ S!Shutdown \/ S!Writer
  <2>1. CASE S!Environment \/ S!Shutdown
    BY <2>1 DEF S!Environment, S!Disconnect, S!BaseCancel, S!Shutdown, S!ReadFail,
       S!CancelContext, S!CloseAllSessions, S!CloseWriteCh, S!Return, S!envVars
  <2>2. CASE S!Reader
    BY <2>2 DEF S!Reader, S!StartSession, S!RouteMessage, S!CloseRecvCh, S!ReaderWrite, S!envVars
  <2>3. CASE S!Writer
    BY <2>3 DEF S!Writer, S!WriterTake, S!WriterWrote, S!WriterFailed, S!WriterDrain,
       S!WriterEnd, S!envVars
  <2> QED
    BY <1>3, <2>1, <2>2, <2>3
<1>4. CASE \E s \in Sess : S!Transport(s) \/ S!Handler(s)
  BY <1>4 DEF S!Transport, S!Handler, S!RecvExactlyOne, S!VerifyEmpty, S!DrainRest,
     S!ReceiveRequest, S!WriteFrame, S!SkipFrame, S!DeleteSession, S!ReleaseSlot,
     S!CallReceive, S!CallSend, S!HandlerReturn, S!envVars
<1>5. CASE S!Returned \/ UNCHANGED serverVars
  BY <1>5 DEF S!Returned, S!vars, S!envVars, serverVars
<1> QED
  BY <1>1, <1>2, <1>3, <1>4, <1>5 DEF S!Next

(* What has been answered to a call remains.                               *)
LEMMA AnswersGrow ==
  ASSUME Ends, OpensHandled, AnswersOK, [Next]_vars, NEW c \in Calls
  PROVE  /\ answers[c] \in Seq(Answer)
         /\ \/ answers'[c] = answers[c]
            \/ \E e \in Answer : answers'[c] = Append(answers[c], e) /\ Answers(c, e)
         /\ \A k \in DOMAIN answers[c] :
              k \in DOMAIN answers'[c] /\ answers'[c][k] = answers[c][k]
<1>1. answers \in [Calls -> Seq(Answer)]
  BY DEF AnswersOK
<1>2. answers'[c] = answers[c] \/ \E e \in Answer : answers'[c] = Append(answers[c], e) /\ Answers(c, e)
  <2>1. ASSUME NEW d, NEW e, Answers(d, e)
        PROVE  answers'[c] = answers[c] \/ (e \in Answer /\ answers'[c] = Append(answers[c], e) /\ d = c)
    BY <1>1, <2>1 DEF Answers
  <2>2. UNCHANGED answers \/ \E d, e : Answers(d, e)
    BY AnswerMoves DEF ServerWrites, ClientReads, ReaderAnswers, HandlerAnswers
  <2> QED
    BY <2>1, <2>2
<1>3. ASSUME NEW e \in Answer, answers'[c] = Append(answers[c], e)
      PROVE  \A k \in DOMAIN answers[c] : k \in DOMAIN answers'[c] /\ answers'[c][k] = answers[c][k]
  <2>1. answers[c] \in Seq(Answer) /\ Len(answers[c]) \in Nat /\ DOMAIN answers[c] = 1 .. Len(answers[c])
    BY <1>1
  <2>2. /\ Append(answers[c], e) \in Seq(Answer) /\ Len(Append(answers[c], e)) = Len(answers[c]) + 1
        /\ \A k \in 1 .. Len(answers[c]) : Append(answers[c], e)[k] = answers[c][k]
    BY <2>1, Appended
  <2>3. DOMAIN Append(answers[c], e) = 1 .. Len(answers[c]) + 1
    BY <2>2
  <2> QED
    BY <1>3, <2>1, <2>2, <2>3
<1> QED
  BY <1>1, <1>2, <1>3

(* Where the read loop gets to.                                            *)
LEMMA ReaderMoves ==
  ASSUME Ends, [Next]_vars
  PROVE  \/ UNCHANGED sReader
         \/ ServerReads
         \/ ServerReader /\ (S!StartSession \/ S!ReaderWrite)
         \/ sReader.at \notin {"write", "start"} /\ sReader'.at \notin {"write", "start"}
<1>1. CASE ServerReader
  <2>1. ASSUME S!RouteMessage \/ S!CloseRecvCh
        PROVE  sReader.at \notin {"write", "start"} /\ sReader'.at \notin {"write", "start"}
    BY <2>1 DEF S!RouteMessage, S!CloseRecvCh, S!Idle
  <2> QED
    BY <1>1, <2>1 DEF ServerReader, ServerThread, S!Reader
<1>2. CASE ServerShutdown
  <2>1. /\ sReader.at \in {"read", "cancel", "closeall", "wait", "flush"}
        /\ \E at \in {"cancel", "closeall", "wait", "flush", "returned"} :
             sReader' = [sReader EXCEPT !.at = at]
    BY <1>2 DEF ServerShutdown, ServerThread, S!Shutdown, S!ReadFail, S!CancelContext,
       S!CloseAllSessions, S!CloseWriteCh, S!Return
  <2>2. sReader \in [at : SP!ReaderAt, id : Calls \union {None}, s : Sess \union {None},
                     code : SP!Codes \union SP!Shapes \union {None}]
    BY DEF Ends, SP!IInv, SP!TypeOK, SP!ReaderOK
  <2>3. \A at : [sReader EXCEPT !.at = at].at = at
    BY <2>2
  <2> QED
    BY <2>1, <2>3
<1>3. CASE ServerWriter \/ ServerNotices \/ ServerWrites
  BY <1>3 DEF ServerWriter, ServerNotices, ServerWrites, ServerThread, S!Disconnect,
     S!WriterTake, S!WriterWrote, S!WriterFailed, S!WriterDrain, S!WriterEnd
<1>4. CASE \E s \in Sess : Serving(s) \/ HandlerCode(s)
  BY <1>4 DEF Serving, HandlerCode, ServerThread, S!Transport, S!Handler, S!RecvExactlyOne,
     S!VerifyEmpty, S!DrainRest, S!ReceiveRequest, S!WriteFrame, S!SkipFrame, S!DeleteSession,
     S!ReleaseSlot, S!CallReceive, S!CallSend, S!HandlerReturn
<1>5. CASE \/ ClientWrites \/ ClientReads \/ ClientNotices \/ ClientReader \/ ClientWriter \/ Closing
           \/ \E c \in Calls : Sending(c) \/ Receiving(c) \/ Aborting(c) \/ User(c)
  BY <1>5 DEF ClientWrites, ClientReads, ClientNotices, ClientReader, ClientWriter, Closing,
     Sending, Receiving, Aborting, User, ClientThread, serverVars
<1>6. CASE Faults \/ UNCHANGED vars
  BY <1>6 DEF Faults, ClientThread, ServerThread, S!Environment, S!Disconnect, S!BaseCancel,
     vars, serverVars
<1> QED
  BY <1>1, <1>2, <1>3, <1>4, <1>5, <1>6 DEF Next

(* The network changes only when a frame is written or read.               *)
LEMMA NetMoves ==
  ASSUME Ends, SP!AnswerLocals, [Next]_vars
  PROVE  UNCHANGED <<c2s, opened>> \/ ClientWrites \/ ServerReads
<1>1. \A c \in Calls : C!SendFrame(c) => UNCHANGED opened
  BY DEF C!SendFrame, C!peerVars
<1> QED
  BY <1>1, Moves DEF ClientCalm, C!WriterTake, C!WriteLoopEnds, C!peerVars, clientVars

(* Its open frame gives a call a session, or is refused.                   *)
LEMMA OpensRead ==
  ASSUME Ends, OpenFirst, OpensHandled, ServerReads
  PROVE  OpensHandled'
<1>0. PICK f : f = Head(c2s)
  OBVIOUS
<1>1. c2s # <<>> /\ c2s' = Tail(c2s) /\ c2s \in Seq(Request) /\ UNCHANGED <<opened, answers>>
  BY DEF ServerReads, Ends, NetOK, clientVars
<1>2. /\ f \in Request /\ f = c2s[1] /\ Len(c2s) \in Nat /\ Len(c2s) > 0
      /\ DOMAIN c2s = 1 .. Len(c2s) /\ DOMAIN c2s' = 1 .. Len(c2s) - 1
      /\ \A k \in 1 .. Len(c2s) - 1 : c2s'[k] = c2s[k + 1]
      /\ Range(c2s) = Range(c2s') \union {f}
  <2>1. /\ Len(c2s) > 0 /\ Head(c2s) \in Request /\ Head(c2s) = c2s[1] /\ Tail(c2s) \in Seq(Request)
        /\ Len(Tail(c2s)) = Len(c2s) - 1 /\ \A k \in 1 .. Len(c2s) - 1 : Tail(c2s)[k] = c2s[k + 1]
    BY <1>1, HeadTail
  <2>2. Range(c2s) = Range(Tail(c2s)) \union {Head(c2s)}
    BY <1>1, FrameTaken
  <2>3. DOMAIN Tail(c2s) = 1 .. Len(Tail(c2s)) /\ Len(c2s) \in Nat /\ DOMAIN c2s = 1 .. Len(c2s)
    BY <1>1, <2>1
  <2> QED
    BY <1>0, <1>1, <2>1, <2>2, <2>3
<1>3. f.call \in Calls /\ f.call \in opened /\ \A k \in DOMAIN c2s : c2s[k] = Open(f.call) => k = 1
  <2>1. f.call \in Calls /\ 1 \in DOMAIN c2s
    BY <1>2 DEF Request
  <2>2. \A k \in DOMAIN c2s : c2s[k] = Open(f.call) => k <= 1
    BY <1>2, <2>1 DEF OpenFirst, OpenSentAhead
  <2> QED
    BY <1>2, <2>1, <2>2 DEF OpenFirst, OpenSentAhead
<1>4. ~OpenSent(f.call)'
  <2>1. ASSUME NEW k \in DOMAIN c2s', c2s'[k] = Open(f.call) PROVE FALSE
    BY <1>2, <1>3, <2>1
  <2> QED
    BY <2>1 DEF OpenSent, Range, Open
<1>5. \A c : f = Open(c) <=> f.call = c /\ f.kind = "open"
  BY <1>2 DEF Open, Request
<1>6. sReader.at = "read" /\ UNCHANGED <<sPc, idOf, sCtx>>
  BY DEF ServerReads, S!ReadOpen, S!ReadMessage, S!ReadClose, S!ReadCancel, S!NextFrame,
     S!sessVars
<1>7. \/ /\ f.kind = "open"
         /\ \/ /\ sReader'.at = "write" /\ sReader'.id = f.call
               /\ sReader'.code = "unavailable"
            \/ sReader'.at = "start" /\ sReader'.id = f.call
      \/ f.kind # "open" /\ sReader'.at # "write"
      \/ /\ f.kind # "open" /\ sReader'.id = f.call
         /\ sReader'.code = "session_not_found"
  <2>1. CASE f.kind = "open" /\ S!ReadOpen(f.call, f.call, ShapeOf[f.call])
    <3>1. \/ sReader' = [at |-> "write", id |-> f.call, s |-> None, code |-> "unavailable"]
          \/ \E s, sh : sReader' = [at |-> "start", id |-> f.call, s |-> s, code |-> sh]
      BY <1>3, <2>1 DEF S!ReadOpen, S!Reject
    <3> QED
      BY <2>1, <3>1
  <2>2. CASE f.kind = "message" /\ S!ReadMessage(f.call)
    <3>1. \/ UNCHANGED sReader
          \/ sReader' = [S!Idle EXCEPT !.at = "route", !.s = sTable[f.call]]
          \/ sReader' = [at |-> "write", id |-> f.call, s |-> None, code |-> "session_not_found"]
      BY <2>2 DEF S!ReadMessage, S!Reject
    <3>2. [S!Idle EXCEPT !.at = "route", !.s = sTable[f.call]].at = "route"
      BY DEF S!Idle
    <3>3. \/ sReader'.at = "read" \/ sReader'.at = "route"
          \/ sReader'.id = f.call /\ sReader'.code = "session_not_found"
      <4>1. UNCHANGED sReader => sReader'.at = "read"
        BY <1>6
      <4>2. sReader' = [S!Idle EXCEPT !.at = "route", !.s = sTable[f.call]] => sReader'.at = "route"
        BY <3>2, Zenon
      <4>3. sReader' = [at |-> "write", id |-> f.call, s |-> None, code |-> "session_not_found"]
              => sReader'.id = f.call /\ sReader'.code = "session_not_found"
        OBVIOUS
      <4> QED
        BY <3>1, <4>1, <4>2, <4>3, Zenon
    <3> QED
      BY <2>2, <3>3
  <2>3. CASE \/ f.kind = "close" /\ S!ReadClose(f.call)
             \/ f.kind = "cancel" /\ S!ReadCancel(f.call)
    <3>1. UNCHANGED sReader \/ sReader' = [S!Idle EXCEPT !.at = "close", !.s = sTable[f.call]]
      BY <2>3 DEF S!ReadClose, S!ReadCancel
    <3>2. [S!Idle EXCEPT !.at = "close", !.s = sTable[f.call]].at = "close"
      BY DEF S!Idle
    <3>3. sReader'.at = "read" \/ sReader'.at = "close"
      BY <1>6, <3>1, <3>2
    <3> QED
      BY <2>3, <3>3
  <2> QED
    BY <1>0, <2>1, <2>2, <2>3 DEF ServerReads
<1>8. ASSUME NEW c \in opened'
      PROVE  (OpenSent(c) \/ Starting(c) \/ SessionsOf(c) # {} \/ Refused(c))'
  <2>1. CASE OpenSent(c)
    <3>1. OpenSent(c)' \/ f = Open(c)
      BY <1>2, <2>1 DEF OpenSent, Open
    <3> QED
      BY <1>5, <1>7, <3>1 DEF Starting, Refused
  <2>2. CASE SessionsOf(c) # {}
    BY <1>6, <2>2 DEF SessionsOf
  <2>3. CASE Refused(c)
    BY <1>1, <1>6, <2>3 DEF Refused
  <2>4. ~Starting(c) /\ c \in opened
    BY <1>1, <1>6 DEF Starting
  <2> QED
    BY <2>1, <2>2, <2>3, <2>4 DEF OpensHandled
<1>9. ASSUME sReader'.at = "write", sReader'.code # "unavailable"
      PROVE  sReader'.code = "session_not_found" /\ sReader'.id = f.call
  BY <1>7, <1>9
<1>10. f.call \in opened' /\ Open(f.call) \notin Range(c2s')
  BY <1>1, <1>3, <1>4 DEF OpenSent, Open
<1> QED
  BY <1>8, <1>9, <1>10 DEF OpensHandled, OpenSent, Open

(* A frame that is written is under way; nothing else changes here.        *)
LEMMA OpensWritten ==
  ASSUME Ends, OpensOnce, OpenFirst, OpensHandled, ClientWrites
  PROVE  OpensHandled'
<1>0. PICK f : f = [call |-> cWriter.call, kind |-> cWriter.kind]
  OBVIOUS
<1>1. /\ cWriter.at = "writing" /\ c2s' = Append(c2s, f) /\ UNCHANGED <<answers, serverVars>>
      /\ opened' = IF cWriter.kind = "open" THEN opened \union {cWriter.call} ELSE opened
  BY <1>0 DEF ClientWrites, C!WriterWrote
<1>2. f \in Request /\ c2s \in Seq(Request)
  BY <1>0, <1>1, FrameTypes DEF Ends, NetOK
<1>3. Range(c2s') = Range(c2s) \union {f}
  BY <1>1, <1>2, FrameAdded
<1>4. ASSUME NEW c
      PROVE  /\ OpenSent(c)' <=> OpenSent(c) \/ f = Open(c)
             /\ f = Open(c) <=> OpenHeld(c)
             /\ c \in opened' => c \in opened \/ OpenHeld(c)
             /\ c \in opened => c \in opened'
             /\ Starting(c)' = Starting(c) /\ SessionsOf(c)' = SessionsOf(c)
             /\ Refused(c)' = Refused(c)
  <2>1. f = Open(c) <=> OpenHeld(c)
    BY <1>0, <1>1 DEF Open, OpenHeld
  <2>2. OpenSent(c)' <=> OpenSent(c) \/ f = Open(c)
    BY <1>3 DEF OpenSent, Open
  <2>3. Starting(c)' = Starting(c) /\ SessionsOf(c)' = SessionsOf(c) /\ Refused(c)' = Refused(c)
    BY <1>1 DEF serverVars, Starting, SessionsOf, Refused
  <2> QED
    BY <1>1, <2>1, <2>2, <2>3 DEF OpenHeld
<1>5. \A c \in Calls : c \in opened => ~OpenHeld(c)
  BY DEF OpensOnce, OpenOnce
<1>6. sReader' = sReader /\ opened \subseteq Calls
  BY <1>1, ClientTypes DEF serverVars, Ends
<1>7. ASSUME NEW c \in opened'
      PROVE  (OpenSent(c) \/ Starting(c) \/ SessionsOf(c) # {} \/ Refused(c))'
  BY <1>4 DEF OpensHandled
<1>8. ASSUME sReader'.at = "write", sReader'.code # "unavailable"
      PROVE  /\ sReader'.code = "session_not_found" /\ sReader'.id \in opened'
             /\ Open(sReader'.id) \notin Range(c2s')
  <2>1. PICK i : i = sReader.id
    OBVIOUS
  <2>2. sReader.code = "session_not_found" /\ i \in opened /\ ~OpenSent(i)
    BY <1>6, <1>8, <2>1 DEF OpensHandled
  <2>3. i \in opened' /\ ~OpenSent(i)'
    BY <1>4, <1>5, <1>6, <2>2
  <2> QED
    BY <1>6, <2>1, <2>2, <2>3 DEF OpenSent, Open
<1> QED
  BY <1>7, <1>8 DEF OpensHandled, OpenSent, Open

(* When the read loop starts a session, the call has none in the table.    *)
LEMMA OpensStarted ==
  ASSUME Ends, OpensOnce, NEW c \in Calls, Starting(c), S!StartSession
  PROVE  SessionsOf(c)' # {} /\ sReader'.at # "write"
<1>1. sReader.at = "start" /\ sReader.id = c /\ SessionsOf(c) = {}
  BY DEF Starting, OpensOnce, OpenOnce
<1>2. /\ sPc \in [Sess -> SP!SessionAt] /\ idOf \in [Sess -> Calls \union {None}]
      /\ sReader.s \in Sess /\ sTable \in [Calls -> Sess \union {None}]
  BY <1>1 DEF Ends, SP!IInv, SP!TypeOK, SP!SessOK, SP!TableOK, SP!ReaderLocals
<1>3. ~S!Taken(c)
  <2>1. ASSUME sTable[c] # None PROVE FALSE
    <3>1. sTable[c] \in Sess /\ idOf[sTable[c]] = c /\ sPc[sTable[c]] # "new"
      BY <1>2, <2>1 DEF Ends, SP!IInv, SP!TableExact, SP!Registered
    <3> QED
      BY <1>1, <3>1 DEF SessionsOf
  <2> QED
    BY <2>1 DEF S!Taken
<1>4. /\ sPc' = [sPc EXCEPT ![sReader.s] = S!FirstStep(sReader.code)]
      /\ idOf' = [idOf EXCEPT ![sReader.s] = c]
      /\ sReader' = S!Idle
  BY <1>1, <1>3 DEF S!StartSession
<1>5. S!FirstStep(sReader.code) # "new" /\ S!Idle.at # "write"
  BY DEF S!FirstStep, S!Idle
<1>6. sPc'[sReader.s] # "new" /\ idOf'[sReader.s] = c
  BY <1>2, <1>4, <1>5
<1> QED
  BY <1>2, <1>4, <1>5, <1>6 DEF SessionsOf

(* Every step keeps the calls whose open frame was read served or refused  *)
(* (server.go:394-487).                                                    *)
LEMMA OpensHandledStep ==
  ASSUME Ends, SP!AnswerLocals, OpensOnce, OpenFirst, AnswersOK, OpensHandled, [Next]_vars
  PROVE  OpensHandled'
<1>1. CASE ClientWrites
  BY <1>1, OpensWritten
<1>2. CASE ServerReads
  BY <1>2, OpensRead
<1>3. CASE ~ClientWrites /\ ~ServerReads
  <2>1. UNCHANGED <<c2s, opened>> /\ opened \subseteq Calls
    BY <1>3, NetMoves, ClientTypes DEF Ends
  <2>2. ASSUME NEW c \in Calls, SessionsOf(c) # {} PROVE SessionsOf(c)' # {}
    <3>1. PICK s \in Sess : sPc[s] # "new" /\ idOf[s] = c
      BY <2>2 DEF SessionsOf
    <3>2. sPc'[s] # "new" /\ idOf'[s] = c
      BY <3>1, SessionsStand
    <3> QED
      BY <3>2 DEF SessionsOf
  <2>3. ASSUME NEW c \in Calls, NEW k \in DOMAIN answers[c], answers[c][k].kind = "error"
        PROVE  Refused(c)'
    BY <2>3, AnswersGrow DEF Refused
  <2>4. sCtx = "done" => \A c : Refused(c)'
    BY DoneStays DEF Refused
  <2>5. ASSUME NEW c \in Calls, sReader.at = "write", sReader.id = c, S!ReaderWrite, ServerReader
        PROVE  Refused(c)' /\ sReader'.at # "write"
    <3>1. sReader'.at # "write"
      BY <2>5 DEF S!ReaderWrite, S!Idle
    <3>2. CASE sCtx = "done"
      BY <2>4, <3>1, <3>2
    <3>3. CASE sCtx # "done"
      <4>1. sWriteCh' = Append(sWriteCh, [id |-> c, kind |-> "error"])
        BY <2>5, <3>3 DEF S!ReaderWrite
      <4>2. sWriteCh' # sWriteCh
        BY <4>1, FrameTypes
      <4>3. ReaderAnswers
        <5>1. S!Reader /\ Record(sReader.code)
          BY <2>5 DEF ServerReader, ServerThread
        <5> QED
          BY <4>2, <5>1, ReadLoopAnswers
      <4>4. PICK e \in Answer : e.kind = "error" /\ answers'[c] = Append(answers[c], e)
        BY <2>5, <4>3 DEF ReaderAnswers, Answers, AnswersOK
      <4>5. answers[c] \in Seq(Answer)
        BY DEF AnswersOK
      <4>6. /\ answers'[c] \in Seq(Answer) /\ Len(answers'[c]) = Len(answers[c]) + 1
            /\ answers'[c][Len(answers[c]) + 1] = e
        BY <4>4, <4>5, Appended
      <4>7. Len(answers[c]) + 1 \in DOMAIN answers'[c]
        BY <4>5, <4>6
      <4> QED
        BY <3>1, <4>4, <4>6, <4>7 DEF Refused
    <3> QED
      BY <3>2, <3>3
  <2>6. ASSUME NEW c \in opened'
        PROVE  (OpenSent(c) \/ Starting(c) \/ SessionsOf(c) # {} \/ Refused(c))'
    <3>1. c \in Calls /\ (OpenSent(c) \/ Starting(c) \/ SessionsOf(c) # {} \/ Refused(c))
      BY <2>1 DEF OpensHandled
    <3>2. CASE OpenSent(c)
      BY <2>1, <3>2 DEF OpenSent, Open
    <3>3. CASE Starting(c)
      <4>1. UNCHANGED sReader \/ S!StartSession
        BY <1>3, <3>3, ReaderMoves DEF Starting, S!ReaderWrite
      <4> QED
        BY <3>1, <3>3, <4>1, OpensStarted DEF Starting
    <3>4. CASE sReader.at = "write" /\ sReader.id = c /\ sReader.code = "unavailable"
      <4>1. UNCHANGED sReader \/ (ServerReader /\ S!ReaderWrite)
        BY <1>3, <3>4, ReaderMoves DEF S!StartSession
      <4> QED
        BY <2>5, <3>1, <3>4, <4>1 DEF Refused
    <3> QED
      BY <2>2, <2>3, <2>4, <3>1, <3>2, <3>3, <3>4 DEF Refused
  <2>7. ASSUME sReader'.at = "write", sReader'.code # "unavailable"
        PROVE  /\ sReader'.code = "session_not_found" /\ sReader'.id \in opened'
               /\ Open(sReader'.id) \notin Range(c2s')
    <3>1. sReader' = sReader
      <4>1. ASSUME S!StartSession PROVE FALSE
        <5>1. sReader.at = "start" /\ sReader.id \in Calls
          BY <4>1 DEF S!StartSession, Ends, SP!IInv, SP!ReaderLocals
        <5> QED
          BY <2>7, <4>1, <5>1, OpensStarted DEF Starting
      <4>2. ASSUME S!ReaderWrite PROVE FALSE
        BY <2>7, <4>2 DEF S!ReaderWrite, S!Idle
      <4> QED
        BY <1>3, <2>7, <4>1, <4>2, ReaderMoves
    <3> QED
      BY <2>1, <2>7, <3>1 DEF OpensHandled, OpenSent, Open
  <2> QED
    BY <2>6, <2>7 DEF OpensHandled, OpenSent, Open
<1> QED
  BY <1>1, <1>2, <1>3

-----------------------------------------------------------------------------
(* "Session not found" is answered after the end of the session.           *)

(* The answers of a session are among those recorded.                      *)
LEMMA EndsRecorded ==
  ASSUME Ends, SP!AnswerLocals, AnswersOK, OpensHandled, UnknownLast, [Next]_vars,
         NEW s \in Sess, sPc'[s] # "new", replied'[s] # <<>>, Last(replied'[s]) \in S!Terminal
  PROVE  LET c == idOf'[s] IN
         c \in Calls /\ \E k \in DOMAIN answers'[c] : answers'[c][k].kind \in S!Terminal
<1>1. /\ replied \in [Sess -> Seq(SP!Kinds)] /\ sPc \in [Sess -> SP!SessionAt]
      /\ \A t \in Sess : /\ sPc[t] = "new" => replied[t] = <<>>
                         /\ sPc[t] # "new" => idOf[t] \in Calls
  BY DEF Ends, SP!IInv, SP!TypeOK, SP!SessOK, SP!AnswerLocals, SP!SessionLocals
<1>2. ASSUME replied'[s] = replied[s]
      PROVE  LET c == idOf'[s] IN
             c \in Calls /\ \E k \in DOMAIN answers'[c] : answers'[c][k].kind \in S!Terminal
  <2>1. sPc[s] # "new" /\ idOf[s] \in Calls /\ Last(replied[s]) \in S!Terminal
    BY <1>1, <1>2
  <2>2. PICK c \in Calls : c = idOf[s]
    BY <2>1
  <2>3. idOf'[s] = c
    BY <2>1, <2>2, SessionsStand
  <2>4. PICK k \in 1 .. Len(answers[c]) : answers[c][k].kind \in S!Terminal
    BY <1>2, <2>1, <2>2 DEF UnknownLast, EndsIn
  <2>5. k \in DOMAIN answers[c]
    BY <2>4 DEF AnswersOK
  <2> QED
    BY <2>3, <2>4, <2>5, AnswersGrow
<1>3. ASSUME HandlerAnswers(s)
      PROVE  LET c == idOf'[s] IN
             c \in Calls /\ \E k \in DOMAIN answers'[c] : answers'[c][k].kind \in S!Terminal
  <2>1. PICK c \in Calls : c = idOf[s] /\ Answers(c, [kind |-> Head(pend[s]), cause |-> "handler"])
    BY <1>3 DEF HandlerAnswers, Answers
  <2>2. /\ replied' = [replied EXCEPT ![s] = Append(@, Head(pend[s]))] /\ idOf' = idOf
        /\ sPc[s] \in {"send", "finish"}
    BY <1>3 DEF HandlerAnswers, S!WriteFrame
  <2>3. Head(pend[s]) \in SP!Kinds
    <3>1. pend[s] \in Seq(SP!Kinds) /\ pend[s] # <<>>
      BY <2>2 DEF Ends, SP!IInv, SP!TypeOK, SP!SessOK, SP!SessionLocals
    <3> QED
      BY <3>1, HeadTail
  <2>4. Last(replied'[s]) = Head(pend[s])
    <3>1. replied[s] \in Seq(SP!Kinds) /\ replied'[s] = Append(replied[s], Head(pend[s]))
      BY <1>1, <2>2
    <3>2. /\ Len(Append(replied[s], Head(pend[s]))) = Len(replied[s]) + 1
          /\ Append(replied[s], Head(pend[s]))[Len(replied[s]) + 1] = Head(pend[s])
      BY <2>3, <3>1, Appended
    <3> QED
      BY <3>1, <3>2 DEF Last
  <2>5. PICK e \in Answer : e.kind = Head(pend[s]) /\ answers'[c] = Append(answers[c], e)
    BY <2>1 DEF Answers, AnswersOK
  <2>6. answers[c] \in Seq(Answer)
    BY DEF AnswersOK
  <2>7. /\ answers'[c] \in Seq(Answer) /\ Len(answers'[c]) = Len(answers[c]) + 1
        /\ answers'[c][Len(answers[c]) + 1] = e
    BY <2>5, <2>6, Appended
  <2>8. Len(answers[c]) + 1 \in DOMAIN answers'[c]
    BY <2>6, <2>7
  <2> QED
    BY <2>1, <2>2, <2>4, <2>5, <2>7, <2>8
<1>4. replied'[s] = replied[s] \/ HandlerAnswers(s)
  <2>1. UNCHANGED replied \/ \E t \in Sess : HandlerAnswers(t)
    BY AnswerMoves DEF ServerWrites, ClientReads, PassedOn, ReaderAnswers, S!ReaderWrite,
       S!WriterWrote, S!WriterTake, S!WriterFailed, S!WriterDrain, S!WriterEnd, S!sessVars,
       serverVars
  <2>2. ASSUME NEW t \in Sess, t # s, HandlerAnswers(t) PROVE replied'[s] = replied[s]
    BY <1>1, <2>2 DEF HandlerAnswers, S!WriteFrame
  <2> QED
    BY <2>1, <2>2
<1> QED
  BY <1>2, <1>3, <1>4

(* What the read loop says when it knows no session of a call.             *)
LEMMA UnknownAnswered ==
  ASSUME Ends, SP!AnswerLocals, SP!NotFoundAfterTerminal, AnswersOK, OpensHandled, UnknownLast,
         ReaderAnswers, sReader.code = "session_not_found"
  PROVE  EndsIn(sReader.id, Len(answers[sReader.id])) \/ sCtx = "done"
<1>1. PICK c \in Calls : c = sReader.id
  BY DEF ReaderAnswers, Answers
<1>2. sReader.at = "write" /\ c \in opened /\ ~OpenSent(c)
  BY <1>1 DEF ReaderAnswers, S!ReaderWrite, OpensHandled
<1>3. SessionsOf(c) # {} \/ Refused(c)
  BY <1>2 DEF OpensHandled, Starting
<1>4. sCtx \in {"live", "done"} /\ answers[c] \in Seq(Answer)
  BY DEF Ends, SP!IInv, SP!TypeOK, SP!EnvOK, AnswersOK
<1>5. ASSUME NEW s \in SessionsOf(c), sCtx = "live" PROVE EndsIn(c, Len(answers[c]))
  <2>1. s \in Sess /\ idOf[s] = c /\ sPc[s] # "new"
    BY DEF SessionsOf
  <2>2. replied[s] # <<>> /\ Last(replied[s]) \in S!Terminal
    BY <1>1, <1>2, <1>5, <2>1 DEF SP!NotFoundAfterTerminal, SP!Terminal, S!Terminal, Last
  <2> QED
    BY <2>1, <2>2 DEF UnknownLast
<1>6. ASSUME NEW k \in DOMAIN answers[c], answers[c][k].kind = "error"
      PROVE  EndsIn(c, Len(answers[c]))
  BY <1>4, <1>6 DEF EndsIn, S!Terminal
<1> QED
  BY <1>1, <1>3, <1>4, <1>5, <1>6 DEF Refused

(* Every step keeps the errors about unknown sessions last (server.go:478, *)
(* 502).                                                                   *)
LEMMA UnknownStep ==
  ASSUME Ends, SP!AnswerLocals, SP!NotFoundAfterTerminal, AnswersOK, OpensHandled, UnknownLast,
         AnswersOK', [Next]_vars
  PROVE  UnknownLast'
<1>1. ASSUME NEW s \in Sess, sPc'[s] # "new", replied'[s] # <<>>, Last(replied'[s]) \in S!Terminal
      PROVE  EndsIn(idOf[s], Len(answers[idOf[s]]))'
  <2>1. PICK c : c = idOf'[s]
    OBVIOUS
  <2>2. c \in Calls /\ \E k \in DOMAIN answers'[c] : answers'[c][k].kind \in S!Terminal
    BY <1>1, <2>1, EndsRecorded
  <2>3. DOMAIN answers'[c] = 1 .. Len(answers'[c])
    BY <2>2 DEF AnswersOK
  <2> QED
    BY <2>1, <2>2, <2>3 DEF EndsIn
<1>2. ASSUME NEW c \in Calls, NEW k \in DOMAIN answers'[c], answers'[c][k].cause = "session_not_found"
      PROVE  EndsIn(c, k - 1)' \/ sCtx' = "done"
  <2>1. /\ answers[c] \in Seq(Answer)
        /\ \A j \in DOMAIN answers[c] : j \in DOMAIN answers'[c] /\ answers'[c][j] = answers[c][j]
    BY AnswersGrow
  <2>2. Len(answers[c]) \in Nat /\ DOMAIN answers[c] = 1 .. Len(answers[c])
    BY <2>1
  <2>3. ASSUME k - 1 \in 0 .. Len(answers[c]), EndsIn(c, k - 1) PROVE EndsIn(c, k - 1)'
    <3>1. PICK j \in 1 .. k - 1 : answers[c][j].kind \in S!Terminal
      BY <2>3 DEF EndsIn
    <3>2. answers'[c][j].kind \in S!Terminal
      BY <2>1, <2>2, <2>3, <3>1
    <3> QED
      BY <3>1, <3>2 DEF EndsIn
  <2>4. CASE k \in DOMAIN answers[c]
    <3>1. EndsIn(c, k - 1) \/ sCtx = "done"
      BY <1>2, <2>1, <2>4 DEF UnknownLast
    <3>2. k - 1 \in 0 .. Len(answers[c])
      BY <2>2, <2>4
    <3> QED
      BY <2>3, <3>1, <3>2, DoneStays
  <2>5. CASE k \notin DOMAIN answers[c]
    <3>1. UNCHANGED answers \/ ReaderAnswers \/ \E s \in Sess : HandlerAnswers(s)
      BY AnswerMoves DEF ServerWrites, ClientReads
    <3>2. ASSUME NEW d, NEW e, Answers(d, e)
          PROVE  d = c /\ k = Len(answers[c]) + 1 /\ answers'[c][k] = e
      <4>1. /\ d \in Calls /\ e \in Answer
            /\ answers'[c] = IF c = d THEN Append(answers[c], e) ELSE answers[c]
        BY <3>2 DEF Answers, AnswersOK
      <4>2. d = c /\ answers'[c] = Append(answers[c], e)
        BY <2>5, <4>1
      <4>3. /\ answers'[c] \in Seq(Answer) /\ Len(answers'[c]) = Len(answers[c]) + 1
            /\ answers'[c][Len(answers[c]) + 1] = e
        BY <2>1, <4>1, <4>2, Appended
      <4>4. DOMAIN answers'[c] = 1 .. Len(answers[c]) + 1
        BY <4>3
      <4>5. k = Len(answers[c]) + 1
        BY <2>2, <2>5, <4>4
      <4> QED
        BY <4>2, <4>3, <4>5
    <3>3. CASE ReaderAnswers
      <4>1. sReader.id = c /\ k = Len(answers[c]) + 1 /\ sReader.code = "session_not_found"
        BY <1>2, <3>2, <3>3 DEF ReaderAnswers
      <4>2. EndsIn(c, k - 1) \/ sCtx = "done"
        <5>1. k - 1 = Len(answers[c])
          BY <2>2, <4>1
        <5> QED
          BY <3>3, <4>1, <5>1, UnknownAnswered
      <4>3. k - 1 \in 0 .. Len(answers[c])
        BY <2>2, <4>1
      <4> QED
        BY <2>3, <4>2, <4>3, DoneStays
    <3>4. ASSUME NEW s \in Sess, HandlerAnswers(s) PROVE FALSE
      BY <1>2, <3>2, <3>4 DEF HandlerAnswers
    <3> QED
      BY <2>5, <3>1, <3>3, <3>4
  <2> QED
    BY <2>4, <2>5
<1> QED
  BY <1>1, <1>2 DEF UnknownLast, EndsIn

-----------------------------------------------------------------------------
(* What reaches a call.                                                    *)

(* What has reached a call, as the property and the invariant say it.      *)
LEMMA ReachedFit ==
  ASSUME NEW c \in Calls
  PROVE  (\A f \in Reached(c) : f.n \in DOMAIN answers[c] /\ f.kind = answers[c][f.n].kind)
           <=> AllFit(c)
<1> DEFINE A(f) == f.n \in DOMAIN answers[c] /\ f.kind = answers[c][f.n].kind
           R(k) == [n |-> cRecvCh[c][k].n, kind |-> cRecvCh[c][k].kind]
           H == [n |-> cReader.n, kind |-> cReader.kind]
<1>1. Reached(c) = {R(k) : k \in DOMAIN cRecvCh[c]} \union {H : d \in {c} \cap {cReader.call}}
  BY DEF Reached
<1>2. (\A f \in Reached(c) : A(f)) <=>
         /\ \A k \in DOMAIN cRecvCh[c] : A(R(k))
         /\ cReader.call = c => A(H)
  BY <1>1
<1>3. (\A k \in DOMAIN cRecvCh[c] : A(R(k))) <=> \A f \in Range(cRecvCh[c]) : A(f)
  BY DEF Range
<1>4. A(H) <=> A(cReader)
  OBVIOUS
<1> QED
  BY <1>2, <1>3, <1>4 DEF AllFit, Fits

(* Frames reach the client's read loop, and through it the call.           *)
LEMMA ReachMoves ==
  ASSUME Ends, [Next]_vars
  PROVE  /\ \A c \in Calls : result'[c] = "none" => result[c] = "none"
         /\ \/ UNCHANGED <<cReader, cRecvCh, cGot>>
            \/ cReader'.call = None /\ UNCHANGED <<cRecvCh, cGot>>
            \/ ClientReads /\ UNCHANGED <<cRecvCh, cGot>>
            \/ C!Deliver
            \/ \E d \in Calls : C!TakeFrame(d)
<1>1. result \in [Calls -> {"none", "ok", "err"}]
  BY ClientTypes DEF Ends
<1>2. ASSUME UNCHANGED result
      PROVE  \A c \in Calls : result'[c] = "none" => result[c] = "none"
  BY <1>2
<1>3. CASE C!Closer \/ C!Environment \/ C!Writer \/ UNCHANGED clientVars
  BY <1>3 DEF C!Closer, C!CloseSessions, C!CloseDone, C!Environment, C!Disconnect, C!BaseCancel,
     C!CallerCancel, C!Writer, C!WriterTake, C!WriterWrote, C!WriteLoopEnds, C!chanVars,
     C!loopVars, C!callVars, clientVars
<1>4. CASE C!Deliver
  BY <1>2, <1>4 DEF C!Deliver, C!callVars
<1>5. CASE C!ReadLoopEnds
  <2>1. cReader' = [C!Idle EXCEPT !.at = "done"] /\ UNCHANGED <<cRecvCh, cGot, result>>
    BY <1>5 DEF C!ReadLoopEnds, C!chanVars, C!callVars
  <2>2. [C!Idle EXCEPT !.at = "done"].call = None
    BY DEF C!Idle
  <2>3. cReader'.call = None
    BY <2>1, <2>2, Zenon
  <2> QED
    BY <1>2, <2>1, <2>3
<1>6. CASE ClientReads
  BY <1>2, <1>6 DEF ClientReads, C!ReadFrame, C!chanVars, C!callVars
<1>7. ASSUME NEW d \in Calls, C!Sending(d) \/ C!Receiving(d) \/ C!CancelStream(d) \/ C!User(d)
      PROVE  /\ \A c \in Calls : result'[c] = "none" => result[c] = "none"
             /\ UNCHANGED <<cReader, cRecvCh, cGot>> \/ C!TakeFrame(d)
  <2>1. UNCHANGED <<cReader, cRecvCh, cGot>> \/ C!TakeFrame(d)
    BY <1>7 DEF C!Sending, C!Receiving, C!SendFrame, C!SendFails, C!GiveUp, C!RemoveSession,
       C!CancelStream, C!User, C!NewSession, C!MarshalFails, C!CallReceive, C!CallSend,
       C!CloseAndReceive, C!CloseStream, C!chanVars, C!loopVars
  <2>2. UNCHANGED result \/ \E r \in {"ok", "err"} : result' = [result EXCEPT ![d] = r]
    BY <1>7 DEF C!Sending, C!Receiving, C!SendFrame, C!SendFails, C!GiveUp, C!RemoveSession,
       C!CancelStream, C!User, C!NewSession, C!MarshalFails, C!CallReceive, C!CallSend,
       C!CloseAndReceive, C!CloseStream, C!TakeFrame, C!Fail, C!Succeed
  <2> QED
    BY <1>1, <1>2, <2>1, <2>2
<1>8. \/ ClientReads
      \/ C!Closer \/ C!Environment \/ C!Writer \/ UNCHANGED clientVars \/ C!Deliver \/ C!ReadLoopEnds
      \/ \E d \in Calls : C!Sending(d) \/ C!Receiving(d) \/ C!CancelStream(d) \/ C!User(d)
  <2>1. CASE \/ ServerReads \/ ServerWrites \/ ServerNotices \/ ServerReader \/ ServerShutdown
             \/ ServerWriter \/ UNCHANGED vars \/ \E s \in Sess : Serving(s) \/ HandlerCode(s)
    BY <2>1 DEF ServerReads, ServerWrites, ServerNotices, ServerReader, ServerShutdown,
       ServerWriter, Serving, HandlerCode, ServerThread, vars
  <2>2. CASE \E c \in Calls : Sending(c) \/ Receiving(c) \/ Aborting(c) \/ User(c)
    BY <2>2 DEF Sending, Receiving, Aborting, User, ClientThread
  <2>3. CASE ClientWrites \/ ClientNotices
    BY <2>3 DEF ClientWrites, ClientNotices, C!Environment, C!Writer
  <2>4. CASE ClientReader \/ ClientWriter \/ Closing
    BY <2>4 DEF ClientReader, ClientWriter, Closing, ClientThread, C!Writer
  <2>5. CASE Faults
    BY <2>5 DEF Faults, ClientThread, ServerThread
  <2> QED
    BY <2>1, <2>2, <2>3, <2>4, <2>5 DEF Next
<1> QED
  BY <1>3, <1>4, <1>5, <1>6, <1>7, <1>8

(* The frame that the client reads is the next answer to its call.         *)
LEMMA ReadFits ==
  ASSUME Ends, AnswersOK, AnswersInOrder, ClientReads, NEW c \in Calls, cReader'.call = c
  PROVE  Fits(c, cReader)'
<1>1. /\ s2c \in Seq(Response) /\ s2c # <<>> /\ sent \in [Calls -> Nat]
      /\ answers \in [Calls -> Seq(Answer)] /\ UNCHANGED answers
  BY DEF Ends, NetOK, AnswersOK, CP!IInv, CP!TypeOK, CP!PeerOK, ClientReads
<1>2. Head(s2c) = s2c[1] /\ s2c[1] \in Response /\ 1 \in DOMAIN s2c
  BY <1>1, HeadTail
<1>3. /\ cReader' = [at |-> "deliver", call |-> c, n |-> sent'[c], kind |-> Head(s2c).kind]
      /\ c = Head(s2c).id /\ sent' = [sent EXCEPT ![c] = sent[c] + 1]
  <2>1. None \notin Calls
    BY Assumptions DEF CP!ClientAssumption
  <2>2. cReader'.call # C!Idle.call
    BY <2>1 DEF C!Idle
  <2> QED
    BY <2>2 DEF ClientReads, C!ReadFrame
<1>4. PICK q : q = UnderWay
  OBVIOUS
<1>5. q \in Seq(Response) /\ q # <<>> /\ q[1] = Head(s2c)
  <2>1. q \in Seq(Response) /\ 1 \in DOMAIN q /\ q[1] = s2c[1]
    BY <1>2, <1>4, UnderWayIs
  <2> QED
    BY <1>2, <2>1
<1>6. PICK nums \in [DOMAIN q -> Nat] : Numbers(q, nums, answers, sent)
  BY <1>4 DEF AnswersInOrder
<1>7. /\ nums[1] = sent[c] + 1
      /\ nums[1] \in DOMAIN answers[c] /\ answers[c][nums[1]].kind = q[1].kind
  <2>1. 1 \in DOMAIN q /\ q[1].id = c
    BY <1>2, <1>3, <1>5
  <2>2. ~\E j \in 1 .. 1 - 1 : TRUE
    OBVIOUS
  <2> QED
    BY <1>6, <2>1, <2>2 DEF Numbers
<1>8. nums[1] = sent'[c]
  BY <1>1, <1>3, <1>7
<1> QED
  BY <1>1, <1>3, <1>5, <1>7, <1>8 DEF Fits

(* A call takes the next frame, and goes on only after a message.          *)
LEMMA TakenFits ==
  ASSUME Ends, AnswersOK, NEW c \in Calls, AllFit(c), GotMessages(c), C!TakeFrame(c),
         UNCHANGED answers
  PROVE  GotMessages(c)'
<1>0. PICK f : f = Head(cRecvCh[c])
  OBVIOUS
<1>1. /\ cRecvCh[c] \in Seq(CP!Received) /\ cGot \in [Calls -> Seq(Nat)]
      /\ result \in [Calls -> {"none", "ok", "err"}]
  BY DEF Ends, CP!IInv, CP!TypeOK, CP!ChannelsOK, CP!CallsOK
<1>2. /\ cPc[c] = "recv" /\ cRecvCh[c] # <<>> /\ cGot' = [cGot EXCEPT ![c] = Append(@, f.n)]
      /\ \/ f.kind = "message"
         \/ C!Fail(c)
         \/ f.kind = "unknown"
  BY <1>0 DEF C!TakeFrame
<1>3. f = cRecvCh[c][1] /\ f \in CP!Received /\ f \in Range(cRecvCh[c]) /\ Len(cRecvCh[c]) > 0
  BY <1>0, <1>1, <1>2, HeadTail, FrameTaken
<1>4. Fits(c, f)
  BY <1>3 DEF AllFit
<1>5. result[c] = "none"
  BY <1>2 DEF Ends, CP!IInv, CP!Outcomes
<1>6. f.n = Len(cGot[c]) + 1
  <2>1. PICK t : t = CP!Numbers(cRecvCh[c])
    OBVIOUS
  <2>2. t \in Seq(Nat) /\ Len(t) = Len(cRecvCh[c]) /\ t[1] = f.n
    <3>1. \A k \in 1 .. Len(cRecvCh[c]) : cRecvCh[c][k].n \in Nat
      <4>1. \A k \in 1 .. Len(cRecvCh[c]) : cRecvCh[c][k] \in CP!Received
        BY <1>1
      <4> QED
        BY <4>1 DEF CP!Received
    <3>2. t = [k \in 1 .. Len(cRecvCh[c]) |-> cRecvCh[c][k].n] /\ Len(cRecvCh[c]) \in Nat
      BY <1>1, <2>1 DEF CP!Numbers
    <3>3. t \in [1 .. Len(cRecvCh[c]) -> Nat]
      BY <3>1, <3>2
    <3>4. t \in Seq(Nat) /\ Len(t) = Len(cRecvCh[c])
      BY <3>2, <3>3, Listed
    <3>5. 1 \in 1 .. Len(cRecvCh[c])
      BY <1>3, <3>2
    <3> QED
      BY <1>3, <3>2, <3>4, <3>5
  <2>3. PICK g : g = cGot[c]
    OBVIOUS
  <2>4. g \in Seq(Nat) /\ CP!Seen(c) = g \o t
    BY <1>1, <2>1, <2>3 DEF CP!Seen
  <2>5. /\ Len(g \o t) = Len(g) + Len(t) /\ Len(g) \in Nat
        /\ (g \o t)[Len(g) + 1] = t[1] /\ Len(g) + 1 \in 1 .. Len(g \o t)
    <3>1. /\ Len(g \o t) = Len(g) + Len(t) /\ Len(g) \in Nat /\ Len(t) \in Nat
          /\ \A k \in 1 .. Len(g) + Len(t) : (g \o t)[k] = IF k <= Len(g) THEN g[k] ELSE t[k - Len(g)]
      <4>1. g \in Seq(Nat) /\ t \in Seq(Nat)
        BY <2>2, <2>4
      <4> QED
        BY <4>1, Joined
    <3>2. Len(g) + 1 \in 1 .. Len(g) + Len(t) /\ ~(Len(g) + 1 <= Len(g)) /\ Len(g) + 1 - Len(g) = 1
      BY <1>3, <2>2, <3>1
    <3> QED
      BY <3>1, <3>2
  <2>6. CP!Seen(c)[Len(g) + 1] = Len(g) + 1
    BY <2>4, <2>5 DEF Ends, CP!IInv, CP!DeliveredWithoutGap
  <2> QED
    BY <2>2, <2>3, <2>4, <2>5, <2>6
<1>7. /\ cGot'[c] \in Seq(Nat) /\ Len(cGot'[c]) = Len(cGot[c]) + 1 /\ Len(cGot[c]) \in Nat
      /\ DOMAIN cGot'[c] = 1 .. Len(cGot[c]) + 1 /\ DOMAIN cGot[c] = 1 .. Len(cGot[c])
  <2>1. cGot'[c] = Append(cGot[c], f.n) /\ f.n \in Nat /\ cGot[c] \in Seq(Nat)
    BY <1>1, <1>2, <1>3 DEF CP!Received
  <2>2. cGot'[c] \in Seq(Nat) /\ Len(cGot'[c]) = Len(cGot[c]) + 1
    BY <2>1, Appended
  <2> QED
    BY <2>1, <2>2
<1>8. ASSUME NEW k \in DOMAIN cGot'[c], k # Len(cGot[c]) + 1
      PROVE  k \in DOMAIN answers[c] /\ answers[c][k].kind = "message"
  <2>1. k \in DOMAIN cGot[c]
    BY <1>7, <1>8
  <2> QED
    BY <1>5, <2>1 DEF GotMessages
<1>9. /\ Len(cGot[c]) + 1 \in DOMAIN answers[c]
      /\ result'[c] = "none" => answers[c][Len(cGot[c]) + 1].kind = "message"
  <2>1. f.n \in DOMAIN answers[c] /\ f.kind = answers[c][f.n].kind
    BY <1>4 DEF Fits
  <2>2. answers[c][f.n] \in Answer
    <3>1. answers[c] \in Seq(Answer)
      BY DEF AnswersOK
    <3> QED
      BY <2>1, <3>1
  <2>3. f.kind # "unknown"
    BY <2>1, <2>2 DEF Answer, S!Kinds
  <2>4. C!Fail(c) => result'[c] = "err"
    BY <1>1 DEF C!Fail
  <2> QED
    BY <1>2, <1>6, <2>1, <2>3, <2>4
<1> QED
  BY <1>7, <1>8, <1>9 DEF GotMessages

(* What reaches a call is its next answer, whichever step is taken.        *)
LEMMA ReachStep ==
  ASSUME Ends, SP!AnswerLocals, OpensHandled, AnswersOK, AnswersInOrder, AnswersReach, [Next]_vars
  PROVE  AnswersReach'
<1>1. ASSUME NEW c \in Calls, NEW f, Fits(c, f) PROVE Fits(c, f)'
  BY <1>1, AnswersGrow DEF Fits
<1>2. ASSUME NEW c \in Calls, NEW f, f = cReader, UNCHANGED cReader, Fits(c, f)
      PROVE  Fits(c, cReader)'
  BY <1>1, <1>2 DEF Fits
<1>3. ASSUME NEW c \in Calls, UNCHANGED cGot PROVE GotMessages(c)'
  <2>1. result'[c] = "none" => result[c] = "none"
    BY ReachMoves
  <2>2. GotMessages(c)
    BY DEF AnswersReach
  <2> QED
    BY <1>3, <2>1, <2>2, AnswersGrow DEF GotMessages
<1>4. ASSUME NEW c \in Calls, Range(cRecvCh'[c]) \subseteq Range(cRecvCh[c]),
             cReader'.call = c => Fits(c, cReader)'
      PROVE  AllFit(c)'
  <2>1. \A f \in Range(cRecvCh[c]) : Fits(c, f)'
    BY <1>1 DEF AnswersReach, AllFit
  <2> QED
    BY <1>4, <2>1 DEF AllFit
<1>5. ASSUME NEW c \in Calls, UNCHANGED cReader PROVE cReader'.call = c => Fits(c, cReader)'
  <2>1. cReader.call = c => Fits(c, cReader)
    BY DEF AnswersReach, AllFit
  <2> QED
    BY <1>2, <1>5, <2>1
<1>6. CASE UNCHANGED <<cReader, cRecvCh, cGot>>
  BY <1>3, <1>4, <1>5, <1>6 DEF AnswersReach
<1>7. CASE cReader'.call = None /\ UNCHANGED <<cRecvCh, cGot>>
  <2>1. None \notin Calls
    BY Assumptions DEF CP!ClientAssumption
  <2> QED
    BY <1>3, <1>4, <1>7, <2>1 DEF AnswersReach
<1>8. CASE ClientReads /\ UNCHANGED <<cRecvCh, cGot>>
  BY <1>3, <1>4, <1>8, ReadFits DEF AnswersReach
<1>9. cRecvCh \in [Calls -> Seq(CP!Received)]
  BY ClientTypes DEF Ends
<1>10. CASE C!Deliver
  <2>1. PICK d, e : d = cReader.call /\ e = [n |-> cReader.n, kind |-> cReader.kind]
    OBVIOUS
  <2>2. /\ cReader.at = "deliver" /\ cReader' = C!Idle /\ UNCHANGED cGot
        /\ cRecvCh' = [cRecvCh EXCEPT ![d] = Append(cRecvCh[d], e)]
    BY <1>10, <2>1 DEF C!Deliver, C!callVars
  <2>3. d \in Calls /\ e \in CP!Received
    <3>1. cReader \in [at : {"read", "deliver", "done"}, call : Calls \union {None},
                       n : Nat, kind : CP!Kinds]
      BY DEF Ends, CP!IInv, CP!TypeOK, CP!LoopsOK
    <3> QED
      BY <2>1, <2>2, <3>1 DEF Ends, CP!IInv, CP!HeldFrames, CP!Received
  <2>4. Range(Append(cRecvCh[d], e)) = Range(cRecvCh[d]) \union {e}
    BY <1>9, <2>3, FrameAdded
  <2>5. Fits(d, e)'
    <3>1. Fits(d, cReader)
      BY <2>1, <2>3 DEF AnswersReach, AllFit
    <3>2. Fits(d, e)
      BY <2>1, <3>1 DEF Fits
    <3> QED
      BY <1>1, <2>3, <3>2
  <2>6. cReader'.call = None /\ None \notin Calls
    BY <2>2, Assumptions DEF C!Idle, CP!ClientAssumption
  <2>7. ASSUME NEW c \in Calls PROVE AllFit(c)'
    <3>1. \A f \in Range(cRecvCh[c]) : Fits(c, f)'
      BY <1>1 DEF AnswersReach, AllFit
    <3>2. cRecvCh'[c] = IF c = d THEN Append(cRecvCh[d], e) ELSE cRecvCh[c]
      BY <1>9, <2>2
    <3> QED
      BY <2>4, <2>5, <2>6, <3>1, <3>2 DEF AllFit
  <2> QED
    BY <1>3, <2>2, <2>7 DEF AnswersReach
<1>11. ASSUME NEW d \in Calls, C!TakeFrame(d) PROVE AnswersReach'
  <2>1. /\ UNCHANGED cReader /\ cRecvCh[d] # <<>>
        /\ cRecvCh' = [cRecvCh EXCEPT ![d] = Tail(cRecvCh[d])]
        /\ cGot' = [cGot EXCEPT ![d] = Append(@, Head(cRecvCh[d]).n)]
    BY <1>11 DEF C!TakeFrame, C!loopVars
  <2>2. Range(cRecvCh[d]) = Range(Tail(cRecvCh[d])) \union {Head(cRecvCh[d])}
    BY <1>9, <2>1, FrameTaken
  <2>3. ASSUME NEW c \in Calls PROVE AllFit(c)'
    <3>1. Range(cRecvCh'[c]) \subseteq Range(cRecvCh[c])
      BY <1>9, <2>1, <2>2
    <3> QED
      BY <1>4, <1>5, <2>1, <3>1
  <2>4. UNCHANGED answers
    <3>1. PICK g, n : g = cGot[d] /\ n = Head(cRecvCh[d]).n
      OBVIOUS
    <3>2. g \in Seq(Nat) /\ n \in Nat /\ cGot \in [Calls -> Seq(Nat)]
      <4>1. Head(cRecvCh[d]) \in CP!Received
        BY <1>9, <2>1, FrameTaken
      <4> QED
        BY <3>1, <4>1 DEF CP!Received, Ends, CP!IInv, CP!TypeOK, CP!CallsOK
    <3>3. cGot'[d] = Append(g, n)
      BY <2>1, <3>1, <3>2
    <3>4. Len(Append(g, n)) # Len(g)
      BY <3>2
    <3>5. cGot' # cGot
      BY <3>1, <3>3, <3>4
    <3> QED
      BY <3>5, AnswerMoves DEF clientVars, ServerWrites, ClientReads
  <2>5. ASSUME NEW c \in Calls PROVE GotMessages(c)'
    <3>1. CASE c = d
      BY <1>11, <2>4, <3>1, TakenFits DEF AnswersReach
    <3>2. CASE c # d
      <4>1. cGot'[c] = cGot[c] /\ (result'[c] = "none" => result[c] = "none")
        BY <2>1, <3>2, ReachMoves DEF Ends, CP!IInv, CP!TypeOK, CP!CallsOK
      <4> QED
        BY <2>4, <4>1 DEF AnswersReach, GotMessages
    <3> QED
      BY <3>1, <3>2
  <2> QED
    BY <2>3, <2>5 DEF AnswersReach
<1> QED
  BY <1>6, <1>7, <1>8, <1>10, <1>11, ReachMoves

-----------------------------------------------------------------------------
(* What is answered and what is received agree, from the first state on.   *)

(* At first nothing is answered and nothing under way.                     *)
LEMMA InitFrames == Init => FramesInv
<1> SUFFICES ASSUME Init PROVE FramesInv
  OBVIOUS
<1>1. /\ cWriteCh = <<>> /\ c2s = <<>> /\ s2c = <<>> /\ sWriteCh = <<>>
      /\ cWriter.at = "idle" /\ sWriter.at = "idle" /\ cReader.call = None /\ sReader.at = "read"
      /\ opened = {} /\ \A s \in Sess : sPc[s] = "new"
      /\ \A c \in Calls : /\ snd[c] = <<>> /\ queued[c] = <<>> /\ cRecvCh[c] = <<>>
                          /\ cGot[c] = <<>> /\ cPc[c] = "idle" /\ closing[c] # "removed"
                          /\ sent[c] = 0
  BY DEF Init, C!Init, S!Init, C!Idle, S!Idle
<1>2. answers = [c \in Calls |-> <<>>]
  BY DEF Init
<1>3. None \notin Calls
  BY Assumptions DEF CP!ClientAssumption
<1>4. AnswersOK
  BY <1>2 DEF AnswersOK
<1>5. OpenFirst
  BY <1>1 DEF OpenFirst, QueuesOpen, QueuesOpenFirst, OpenAhead, OpenSentAhead
<1>6. OpensHandled
  BY <1>1 DEF OpensHandled
<1>7. UnknownLast
  BY <1>1, <1>2 DEF UnknownLast
<1>8. AnswersInOrder
  <2>1. UnderWay = <<>>
    <3>1. UnderWay = s2c \o sWriteCh
      BY <1>1 DEF UnderWay
    <3> QED
      BY <1>1, <3>1
  <2> DEFINE nums == [k \in DOMAIN UnderWay |-> 0]
  <2>2. nums \in [DOMAIN UnderWay -> Nat]
    OBVIOUS
  <2>3. Numbers(UnderWay, nums, answers, sent)
    BY <2>1 DEF Numbers
  <2>4. AllNumbered(UnderWay, nums, answers, sent)
    BY <1>1, <1>2 DEF AllNumbered
  <2>5. \A c \in Calls : sent[c] <= Len(answers[c])
    BY <1>1, <1>2
  <2> HIDE DEF nums
  <2> QED
    BY <2>2, <2>3, <2>4, <2>5 DEF AnswersInOrder
<1>9. AnswersReach
  BY <1>1, <1>3 DEF AnswersReach, AllFit, GotMessages, Range
<1> QED
  BY <1>4, <1>5, <1>6, <1>7, <1>8, <1>9 DEF FramesInv

(* Every step preserves FramesInv, with the invariants of the two ends.    *)
LEMMA StepFrames ==
  ConnInv /\ ConnInv' /\ ServerInv /\ SP!NotFoundAfterTerminal /\ FramesInv /\ [Next]_vars
    => FramesInv'
<1> SUFFICES ASSUME ConnInv, ConnInv', ServerInv, SP!NotFoundAfterTerminal, FramesInv, [Next]_vars
             PROVE  FramesInv'
  OBVIOUS
<1>1. Ends /\ Ends' /\ OpensOnce /\ SP!AnswerLocals
  BY DEF ConnInv, SysInv, ServerInv
<1>2. AnswersOK /\ OpenFirst /\ OpensHandled /\ UnknownLast /\ AnswersInOrder /\ AnswersReach
  BY DEF FramesInv
<1>3. AnswersOK' /\ AnswersInOrder'
  BY <1>1, <1>2, InOrderStep
<1>4. OpenFirst'
  BY <1>1, <1>2, OpenFirstStep
<1>5. OpensHandled'
  BY <1>1, <1>2, OpensHandledStep
<1>6. UnknownLast'
  BY <1>1, <1>2, <1>3, UnknownStep
<1>7. AnswersReach'
  BY <1>1, <1>2, ReachStep
<1> QED
  BY <1>3, <1>4, <1>5, <1>6, <1>7 DEF FramesInv

(* A call has taken its first answers: one after the other, without a gap. *)
LEMMA TakenInOrder ==
  ASSUME Ends, NEW c \in Calls, NEW k \in DOMAIN cGot[c]
  PROVE  cGot[c][k] = k
<1>1. PICK g, t : g = cGot[c] /\ t = CP!Numbers(cRecvCh[c])
  OBVIOUS
<1>2. cRecvCh[c] \in Seq(CP!Received) /\ g \in Seq(Nat)
  BY <1>1 DEF Ends, CP!IInv, CP!TypeOK, CP!ChannelsOK, CP!CallsOK
<1>3. t \in Seq(Nat)
  <2>1. \A i \in 1 .. Len(cRecvCh[c]) : cRecvCh[c][i] \in CP!Received
    BY <1>2
  <2>2. \A i \in 1 .. Len(cRecvCh[c]) : cRecvCh[c][i].n \in Nat
    BY <2>1 DEF CP!Received
  <2>3. t = [i \in 1 .. Len(cRecvCh[c]) |-> cRecvCh[c][i].n] /\ Len(cRecvCh[c]) \in Nat
    BY <1>1, <1>2 DEF CP!Numbers
  <2>4. t \in [1 .. Len(cRecvCh[c]) -> Nat]
    BY <2>2, <2>3
  <2> QED
    BY <2>3, <2>4, Listed
<1>4. /\ Len(g \o t) = Len(g) + Len(t) /\ Len(g) \in Nat /\ Len(t) \in Nat
      /\ \A i \in 1 .. Len(g) + Len(t) : (g \o t)[i] = IF i <= Len(g) THEN g[i] ELSE t[i - Len(g)]
  BY <1>2, <1>3, Joined
<1>5. k \in 1 .. Len(g)
  BY <1>1, <1>2
<1>6. k \in 1 .. Len(g \o t) /\ (g \o t)[k] = g[k]
  BY <1>4, <1>5
<1>7. CP!Seen(c) = g \o t
  BY <1>1 DEF CP!Seen
<1> QED
  BY <1>1, <1>6, <1>7 DEF Ends, CP!IInv, CP!DeliveredWithoutGap

(* An answer that came after messages only is no error about a session the *)
(* server does not know.                                                   *)
LEMMA FramesFit == Ends /\ FramesInv => FramesFaithful
<1> SUFFICES ASSUME Ends, FramesInv, NEW c \in Calls
             PROVE  /\ \A f \in Reached(c) :
                         f.n \in DOMAIN answers[c] /\ f.kind = answers[c][f.n].kind
                    /\ \A k \in DOMAIN cGot[c] :
                         /\ cGot[c][k] = k
                         /\ k < Len(cGot[c]) => answers[c][k].kind = "message"
                         /\ answers[c][k].cause \in {"handler", "unavailable"} \/ sCtx = "done"
  BY DEF FramesFaithful
<1>1. AllFit(c) /\ GotMessages(c) /\ UnknownLast /\ answers[c] \in Seq(Answer)
  BY DEF FramesInv, AnswersReach, AnswersOK
<1>2. \A f \in Reached(c) : f.n \in DOMAIN answers[c] /\ f.kind = answers[c][f.n].kind
  BY <1>1, ReachedFit
<1>3. ASSUME NEW k \in DOMAIN cGot[c]
      PROVE  answers[c][k].cause \in {"handler", "unavailable"} \/ sCtx = "done"
  <2>1. cGot[c] \in Seq(Nat) /\ DOMAIN cGot[c] = 1 .. Len(cGot[c]) /\ Len(cGot[c]) \in Nat
    BY DEF Ends, CP!IInv, CP!TypeOK, CP!CallsOK
  <2>2. k \in DOMAIN answers[c] /\ answers[c][k] \in Answer
    <3>1. k \in DOMAIN answers[c]
      BY <1>1 DEF GotMessages
    <3> QED
      BY <1>1, <3>1
  <2>3. ASSUME EndsIn(c, k - 1) PROVE FALSE
    <3>1. PICK j \in 1 .. k - 1 : answers[c][j].kind \in S!Terminal
      BY <2>3 DEF EndsIn
    <3>2. j \in DOMAIN cGot[c] /\ j < Len(cGot[c])
      BY <2>1, <3>1
    <3> QED
      BY <1>1, <3>1, <3>2 DEF GotMessages, S!Terminal
  <2>4. answers[c][k].cause = "session_not_found" => sCtx = "done"
    BY <1>1, <2>2, <2>3 DEF UnknownLast
  <2> QED
    BY <2>2, <2>4 DEF Answer
<1>4. ASSUME NEW k \in DOMAIN cGot[c]
      PROVE  cGot[c][k] = k /\ (k < Len(cGot[c]) => answers[c][k].kind = "message")
  BY <1>1, TakenInOrder DEF GotMessages
<1> QED
  BY <1>2, <1>3, <1>4

(* What a call receives is what its own session answered, in that order    *)
(* and from the first frame on, and it ends as its handler or a full       *)
(* server said: never because the server had already forgotten its session *)
(* (client.go:97, 132, server.go:478, 502).                                *)
THEOREM FramesAreFaithful == Spec => []FramesFaithful
<1>1. Spec => []SP!NotFoundAfterTerminal
  <2>1. SP!MessageInv => SP!NotFoundAfterTerminal
    BY DEF SP!MessageInv
  <2> QED
    BY <2>1, ServerIsOne, ServerMessages, PTL
<1>2. Init => FramesInv
  BY InitFrames
<1>3. ConnInv /\ ConnInv' /\ ServerInv /\ SP!NotFoundAfterTerminal /\ FramesInv /\ [Next]_vars
        => FramesInv'
  BY StepFrames
<1>4. ConnInv => Ends
  BY DEF ConnInv
<1>5. Ends /\ FramesInv => FramesFaithful
  BY FramesFit
<1> QED
  BY <1>1, <1>2, <1>3, <1>4, <1>5, ConnectionInvariant, PTL DEF Spec
=============================================================================
