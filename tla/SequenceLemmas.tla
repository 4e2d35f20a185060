--------------------------- MODULE SequenceLemmas ---------------------------
(* Facts about finite sequences, as the channels of the models use them,   *)
(* and about what is computed from one end of a sequence to the other.     *)
EXTENDS Naturals, Sequences, SequencesExt, WellFoundedInduction, TLAPS

(* What is left of a channel when its first element has been taken.        *)
LEMMA HeadTail ==
  ASSUME NEW S, NEW q \in Seq(S), q # <<>>
  PROVE  /\ Len(q) > 0 /\ Head(q) = q[1] /\ Head(q) \in S
         /\ Tail(q) \in Seq(S) /\ Len(Tail(q)) = Len(q) - 1
         /\ \A k \in 1 .. Len(q) - 1 : Tail(q)[k] = q[k + 1]
<1>1. Len(q) > 0 /\ Head(q) = q[1]
  OBVIOUS
<1>2. Head(q) \in S
  BY <1>1
<1>3. Tail(q) \in Seq(S) /\ Len(Tail(q)) = Len(q) - 1
  OBVIOUS
<1>4. \A k \in 1 .. Len(q) - 1 : Tail(q)[k] = q[k + 1]
  OBVIOUS
<1> QED
  BY <1>1, <1>2, <1>3, <1>4

(* A channel with one more element.                                        *)
LEMMA Appended ==
  ASSUME NEW S, NEW q \in Seq(S), NEW e \in S
  PROVE  /\ Append(q, e) \in Seq(S) /\ Len(Append(q, e)) = Len(q) + 1
         /\ Append(q, e)[Len(q) + 1] = e
         /\ \A k \in 1 .. Len(q) : Append(q, e)[k] = q[k]
<1>1. Append(q, e) \in Seq(S) /\ Len(Append(q, e)) = Len(q) + 1
  OBVIOUS
<1>2. Append(q, e)[Len(q) + 1] = e
  OBVIOUS
<1>3. \A k \in 1 .. Len(q) : Append(q, e)[k] = q[k]
  OBVIOUS
<1> QED
  BY <1>1, <1>2, <1>3

(* Two sequences one after the other.                                      *)
LEMMA Joined ==
  ASSUME NEW S, NEW p \in Seq(S), NEW q \in Seq(S)
  PROVE  /\ p \o q \in Seq(S) /\ Len(p \o q) = Len(p) + Len(q)
         /\ \A k \in 1 .. Len(p) + Len(q) :
              (p \o q)[k] = IF k <= Len(p) THEN p[k] ELSE q[k - Len(p)]
<1>1. p \o q \in Seq(S) /\ Len(p \o q) = Len(p) + Len(q)
  OBVIOUS
<1>2. \A k \in 1 .. Len(p) + Len(q) :
        (p \o q)[k] = IF k <= Len(p) THEN p[k] ELSE q[k - Len(p)]
  OBVIOUS
<1> QED
  BY <1>1, <1>2

(* Two sequences with the same elements in the same places are equal.      *)
LEMMA SameElements ==
  ASSUME NEW S, NEW p \in Seq(S), NEW q \in Seq(S), Len(p) = Len(q),
         \A k \in 1 .. Len(q) : p[k] = q[k]
  PROVE  p = q
OBVIOUS

(* The second element of a sequence.                                       *)
LEMMA SecondAppended ==
  ASSUME NEW a, NEW b
  PROVE  Append(<<a>>, b) = <<a, b>>
<1> DEFINE S == {a, b}
           p == Append(<<a>>, b)
           q == <<a, b>>
<1>1. <<a>> \in Seq(S) /\ q \in Seq(S) /\ b \in S
  OBVIOUS
<1>2. /\ p \in Seq(S) /\ Len(p) = Len(<<a>>) + 1 /\ p[Len(<<a>>) + 1] = b
      /\ \A k \in 1 .. Len(<<a>>) : p[k] = <<a>>[k]
  BY <1>1, Appended
<1>3. Len(<<a>>) = 1 /\ Len(q) = 2 /\ q[1] = a /\ q[2] = b /\ <<a>>[1] = a
  OBVIOUS
<1> HIDE DEF p, q, S
<1>4. Len(p) = Len(q) /\ \A k \in 1 .. Len(q) : p[k] = q[k]
  BY <1>2, <1>3
<1>5. p = q
  BY <1>1, <1>2, <1>4, SameElements
<1> QED
  BY <1>5 DEF p, q

(* A function on an initial segment of the numbers is a sequence.          *)
LEMMA Listed ==
  ASSUME NEW S, NEW n \in Nat, NEW f \in [1 .. n -> S]
  PROVE  f \in Seq(S) /\ Len(f) = n
OBVIOUS

(* What has been received, followed by what waits in the channel, stays    *)
(* the same when the receiver takes the first element of the channel, ...  *)
LEMMA TakenIsMoved ==
  ASSUME NEW S, NEW g \in Seq(S), NEW q \in Seq(S), q # <<>>
  PROVE  Append(g, Head(q)) \o Tail(q) = g \o q
<1> DEFINE h == Append(g, Head(q))
           t == Tail(q)
<1>1. /\ h \in Seq(S) /\ Len(h) = Len(g) + 1 /\ h[Len(g) + 1] = q[1]
      /\ \A k \in 1 .. Len(g) : h[k] = g[k]
  BY HeadTail, Appended
<1>2. /\ t \in Seq(S) /\ Len(t) = Len(q) - 1 /\ Len(q) > 0
      /\ \A k \in 1 .. Len(q) - 1 : t[k] = q[k + 1]
  BY HeadTail
<1> HIDE DEF h, t
<1>3. /\ h \o t \in Seq(S) /\ Len(h \o t) = Len(h) + Len(t)
      /\ \A k \in 1 .. Len(h) + Len(t) :
           (h \o t)[k] = IF k <= Len(h) THEN h[k] ELSE t[k - Len(h)]
  BY <1>1, <1>2, Joined
<1>4. /\ g \o q \in Seq(S) /\ Len(g \o q) = Len(g) + Len(q)
      /\ \A k \in 1 .. Len(g) + Len(q) :
           (g \o q)[k] = IF k <= Len(g) THEN g[k] ELSE q[k - Len(g)]
  BY Joined
<1>5. Len(h \o t) = Len(g \o q)
  BY <1>1, <1>2, <1>3, <1>4
<1>6. ASSUME NEW k \in 1 .. Len(g \o q) PROVE (h \o t)[k] = (g \o q)[k]
  <2>1. k \in 1 .. Len(h) + Len(t) /\ k \in 1 .. Len(g) + Len(q)
    BY <1>3, <1>4, <1>5
  <2>2. CASE k <= Len(g)
    BY <1>1, <1>2, <1>3, <1>4, <2>1, <2>2
  <2>3. CASE k = Len(g) + 1
    <3>1. (h \o t)[k] = q[1]
      BY <1>1, <1>3, <2>1, <2>3
    <3>2. (g \o q)[k] = q[k - Len(g)] /\ k - Len(g) = 1
      BY <1>4, <2>1, <2>3
    <3> QED
      BY <3>1, <3>2
  <2>4. CASE k > Len(g) + 1
    <3> DEFINE j == k - Len(h)
    <3>1. (h \o t)[k] = t[j] /\ j \in 1 .. Len(q) - 1
      BY <1>1, <1>2, <1>3, <2>1, <2>4
    <3>2. (g \o q)[k] = q[k - Len(g)] /\ k - Len(g) = j + 1
      BY <1>1, <1>4, <2>1, <2>4
    <3>3. t[j] = q[j + 1]
      BY <1>2, <3>1
    <3> QED
      BY <3>1, <3>2, <3>3
  <2> QED
    BY <2>1, <2>2, <2>3, <2>4
<1>7. h \o t = g \o q
  BY <1>3, <1>4, <1>5, <1>6, SameElements
<1> QED
  BY <1>7 DEF h, t

(* ... and grows at its end when one is put into the channel.              *)
LEMMA PutAtTheEnd ==
  ASSUME NEW S, NEW g \in Seq(S), NEW q \in Seq(S), NEW e \in S
  PROVE  g \o Append(q, e) = Append(g \o q, e)
<1> DEFINE a == Append(q, e)
           b == g \o q
<1>1. /\ a \in Seq(S) /\ Len(a) = Len(q) + 1 /\ a[Len(q) + 1] = e
      /\ \A k \in 1 .. Len(q) : a[k] = q[k]
  BY Appended
<1>2. /\ b \in Seq(S) /\ Len(b) = Len(g) + Len(q)
      /\ \A k \in 1 .. Len(g) + Len(q) : b[k] = IF k <= Len(g) THEN g[k] ELSE q[k - Len(g)]
  BY Joined
<1> HIDE DEF a, b
<1>3. /\ g \o a \in Seq(S) /\ Len(g \o a) = Len(g) + Len(a)
      /\ \A k \in 1 .. Len(g) + Len(a) :
           (g \o a)[k] = IF k <= Len(g) THEN g[k] ELSE a[k - Len(g)]
  BY <1>1, Joined
<1>4. /\ Append(b, e) \in Seq(S) /\ Len(Append(b, e)) = Len(b) + 1
      /\ Append(b, e)[Len(b) + 1] = e
      /\ \A k \in 1 .. Len(b) : Append(b, e)[k] = b[k]
  BY <1>2, Appended
<1>5. Len(g \o a) = Len(Append(b, e))
  BY <1>1, <1>2, <1>3, <1>4
<1>6. ASSUME NEW k \in 1 .. Len(Append(b, e)) PROVE (g \o a)[k] = Append(b, e)[k]
  <2>1. k \in 1 .. Len(g) + Len(a) /\ k \in 1 .. Len(b) + 1
    BY <1>3, <1>4, <1>5
  <2>2. CASE k <= Len(g)
    BY <1>1, <1>2, <1>3, <1>4, <2>1, <2>2
  <2>3. CASE k > Len(g) /\ k <= Len(b)
    <3>1. k - Len(g) \in 1 .. Len(q) /\ k \in 1 .. Len(b)
      BY <1>2, <2>1, <2>3
    <3>2. (g \o a)[k] = q[k - Len(g)]
      BY <1>1, <1>3, <2>1, <2>3, <3>1
    <3>3. Append(b, e)[k] = q[k - Len(g)]
      BY <1>2, <1>4, <2>3, <3>1
    <3> QED
      BY <3>2, <3>3
  <2>4. CASE k = Len(b) + 1
    BY <1>1, <1>2, <1>3, <1>4, <2>1, <2>4
  <2> QED
    BY <1>1, <1>2, <1>3, <1>4, <2>1, <2>2, <2>3, <2>4
<1>7. g \o a = Append(b, e)
  BY <1>3, <1>4, <1>5, <1>6, SameElements
<1> QED
  BY <1>7 DEF a, b
-----------------------------------------------------------------------------
(* A prefix, element by element.                                           *)
LEMMA PrefixIs ==
  ASSUME NEW S, NEW p \in Seq(S), NEW q \in Seq(S)
  PROVE  IsPrefix(p, q) <=> Len(p) <= Len(q) /\ \A i \in 1 .. Len(p) : p[i] = q[i]
<1> DEFINE n == Len(p)
           a == SubSeq(p, 1, n)
           b == SubSeq(q, 1, n)
<1>1. n \in Nat /\ Len(q) \in Nat
  OBVIOUS
<1>2. a = [i \in 1 .. n |-> p[i]]
  OBVIOUS
<1>3. n <= Len(q) => b = [i \in 1 .. n |-> q[i]]
  OBVIOUS
<1> HIDE DEF a, b
<1>4. n <= Len(q) => (a = b <=> \A i \in 1 .. n : p[i] = q[i])
  BY <1>2, <1>3
<1> QED
  BY <1>4 DEF IsPrefix, a, b

(* A shorter one.                                                         *)
LEMMA StrictPrefixIs ==
  ASSUME NEW S, NEW p \in Seq(S), NEW q \in Seq(S)
  PROVE  IsStrictPrefix(p, q) <=> Len(p) < Len(q) /\ \A i \in 1 .. Len(p) : p[i] = q[i]
<1>1. IsPrefix(p, q) <=> Len(p) <= Len(q) /\ \A i \in 1 .. Len(p) : p[i] = q[i]
  BY PrefixIs
<1>2. Len(p) \in Nat /\ Len(q) \in Nat
  OBVIOUS
<1>3. ASSUME Len(p) = Len(q), \A i \in 1 .. Len(p) : p[i] = q[i] PROVE p = q
  BY <1>3
<1>4. p = q => Len(p) = Len(q)
  OBVIOUS
<1> QED
  BY <1>1, <1>2, <1>3, <1>4 DEF IsStrictPrefix

(* Prefixes of prefixes.                                                   *)
LEMMA PrefixOfPrefix ==
  ASSUME NEW S, NEW p \in Seq(S), NEW q \in Seq(S), NEW r \in Seq(S)
  PROVE  /\ IsStrictPrefix(p, q) /\ IsStrictPrefix(q, r) => IsStrictPrefix(p, r)
         /\ IsPrefix(p, q) /\ IsStrictPrefix(q, r) => IsPrefix(p, r)
         /\ IsPrefix(p, p) /\ ~IsStrictPrefix(p, p)
<1>1. Len(p) \in Nat /\ Len(q) \in Nat /\ Len(r) \in Nat
  OBVIOUS
<1>2. ASSUME Len(p) <= Len(q), \A i \in 1 .. Len(p) : p[i] = q[i],
             Len(q) < Len(r), \A i \in 1 .. Len(q) : q[i] = r[i]
      PROVE  Len(p) < Len(r) /\ \A i \in 1 .. Len(p) : p[i] = r[i]
  BY <1>1, <1>2
<1>3. IsPrefix(p, q) /\ IsStrictPrefix(q, r) => IsStrictPrefix(p, r)
  BY <1>2, PrefixIs, StrictPrefixIs
<1>4. IsStrictPrefix(p, q) => IsPrefix(p, q)
  BY DEF IsStrictPrefix
<1>5. IsStrictPrefix(p, r) => IsPrefix(p, r)
  BY DEF IsStrictPrefix
<1>6. IsPrefix(p, p) /\ ~IsStrictPrefix(p, p)
  BY <1>1, PrefixIs DEF IsStrictPrefix
<1> QED
  BY <1>3, <1>4, <1>5, <1>6

(* The empty sequence comes before every other.                            *)
LEMMA EmptyPrefix ==
  ASSUME NEW S, NEW q \in Seq(S)
  PROVE  (IsStrictPrefix(<<>>, q) <=> q # <<>>) /\ ~IsStrictPrefix(q, <<>>)
<1>1. q # <<>> <=> Len(q) > 0
  OBVIOUS
<1>2. <<>> \in Seq(S) /\ Len(<<>>) = 0 /\ Len(q) \in Nat
  OBVIOUS
<1>3. ASSUME NEW e \in Seq(S), Len(e) = 0
      PROVE  (IsStrictPrefix(e, q) <=> Len(q) > 0) /\ ~IsStrictPrefix(q, e)
  <2>1. IsStrictPrefix(e, q) <=> Len(e) < Len(q) /\ \A i \in 1 .. Len(e) : e[i] = q[i]
    BY StrictPrefixIs
  <2>2. IsStrictPrefix(q, e) <=> Len(q) < Len(e) /\ \A i \in 1 .. Len(q) : q[i] = e[i]
    BY StrictPrefixIs
  <2>3. Len(q) < Len(e) <=> FALSE
    BY <1>2, <1>3
  <2>4. (Len(e) < Len(q) /\ \A i \in 1 .. Len(e) : e[i] = q[i]) <=> Len(q) > 0
    BY <1>2, <1>3
  <2> QED
    BY <2>1, <2>2, <2>3, <2>4
<1>4. (IsStrictPrefix(<<>>, q) <=> Len(q) > 0) /\ ~IsStrictPrefix(q, <<>>)
  BY <1>2, <1>3, Zenon
<1> QED
  BY <1>1, <1>4
-----------------------------------------------------------------------------
(* Induction up to n: a set holds all the numbers if it holds 0 and, with  *)
(* each, the next.                                                         *)
LEMMA Climb ==
  ASSUME NEW n \in Nat, NEW P, 0 \in P, \A k \in 1 .. n : k - 1 \in P => k \in P
  PROVE  \A k \in 0 .. n : k \in P
<1> DEFINE T == {k \in 0 .. n : k \notin P}
           Less == {p \in Nat \X Nat : p[1] < p[2]}
<1> SUFFICES ASSUME T # {} PROVE FALSE
  OBVIOUS
<1>1. T \subseteq Nat /\ IsWellFoundedOn(Less, Nat)
  <2>1. IsWellFoundedOn(Less, Nat)
    BY NatLessThanWellFounded DEF OpToRel
  <2> QED
    BY <2>1
<1>2. PICK k \in T : \A j \in T : <<j, k>> \notin Less
  <2> HIDE DEF T, Less
  <2> QED
    BY <1>1, WFMin
<1>3. k \in 1 .. n /\ k - 1 \in 0 .. n
  OBVIOUS
<1>4. k - 1 \in T
  BY <1>3
<1>5. <<k - 1, k>> \in Less
  BY <1>3
<1> QED
  BY <1>2, <1>4, <1>5

(* The last of the first k numbers.                                        *)
LEMMA LastOf ==
  ASSUME NEW k \in Nat, k > 0
  PROVE  1 .. k # {} /\ Max(1 .. k) = k /\ (1 .. k) \ {k} = 1 .. k - 1
<1>1. k \in 1 .. k /\ \A j \in 1 .. k : k >= j
  OBVIOUS
<1>2. \A x \in 1 .. k : (\A j \in 1 .. k : x >= j) => x = k
  OBVIOUS
<1>3. Max(1 .. k) = k
  BY <1>1, <1>2 DEF Max
<1>4. (1 .. k) \ {k} = 1 .. k - 1
  OBVIOUS
<1> QED
  BY <1>1, <1>3, <1>4

(* The function behind a fold exists: each set of numbers up to n has a    *)
(* value made from that of the set without its maximum.                    *)
LEMMA FoldExists ==
  ASSUME NEW V, NEW n \in Nat, NEW b \in V, NEW g \in [(1 .. n) \X V -> V]
  PROVE  \E f \in [SUBSET (1 .. n) -> V] :
           \A s \in SUBSET (1 .. n) :
             /\ f[s] = IF s = {} THEN b ELSE g[<<Max(s), f[s \ {Max(s)}]>>]
             /\ s # {} => Max(s) \in s
<1> DEFINE Fold(f, m) ==
             /\ f \in [SUBSET (1 .. m) -> V]
             /\ \A s \in SUBSET (1 .. m) :
                  /\ f[s] = IF s = {} THEN b ELSE g[<<Max(s), f[s \ {Max(s)}]>>]
                  /\ s # {} => Max(s) \in s
           P == {m \in 0 .. n : \E f : Fold(f, m)}
<1>1. 0 \in P
  <2> DEFINE f == [s \in SUBSET (1 .. 0) |-> b]
  <2>1. \A s \in SUBSET (1 .. 0) : s = {}
    OBVIOUS
  <2>2. Fold(f, 0)
    BY <2>1
  <2> HIDE DEF f, Fold
  <2> QED
    BY <2>2
<1>2. ASSUME NEW m \in 1 .. n, m - 1 \in P PROVE m \in P
  <2>1. PICK e : Fold(e, m - 1)
    BY <1>2
  <2> DEFINE f == [s \in SUBSET (1 .. m) |-> IF m \in s THEN g[<<m, e[s \ {m}]>>] ELSE e[s]]
  <2>2. \A s \in SUBSET (1 .. m) : /\ s \ {m} \in SUBSET (1 .. m - 1)
                                  /\ m \notin s => s \in SUBSET (1 .. m - 1)
    OBVIOUS
  <2>3. f \in [SUBSET (1 .. m) -> V]
    <3> SUFFICES ASSUME NEW s \in SUBSET (1 .. m)
                 PROVE  (IF m \in s THEN g[<<m, e[s \ {m}]>>] ELSE e[s]) \in V
      OBVIOUS
    <3>1. e[s \ {m}] \in V /\ (m \notin s => e[s] \in V)
      BY <2>1, <2>2
    <3>2. <<m, e[s \ {m}]>> \in (1 .. n) \X V
      BY <3>1
    <3> QED
      BY <3>1, <3>2
  <2>4. ASSUME NEW s \in SUBSET (1 .. m)
        PROVE  /\ f[s] = IF s = {} THEN b ELSE g[<<Max(s), f[s \ {Max(s)}]>>]
               /\ s # {} => Max(s) \in s
    <3>1. CASE m \in s
      <4>1. m \in s /\ \A y \in s : m >= y
        BY <3>1
      <4>2. \A x \in s : (\A y \in s : x >= y) => x = m
        BY <3>1
      <4>3. Max(s) = m
        BY <4>1, <4>2 DEF Max
      <4>4. f[s \ {m}] = e[s \ {m}] /\ f[s] = g[<<m, e[s \ {m}]>>]
        BY <3>1
      <4> QED
        BY <3>1, <4>3, <4>4
    <3>2. CASE m \notin s
      <4> DEFINE r == s \ {Max(s)}
      <4>1. s \in SUBSET (1 .. m - 1) /\ r \in SUBSET (1 .. m) /\ m \notin r
        <5>1. s \in SUBSET (1 .. m - 1)
          BY <2>2, <3>2
        <5>2. r \subseteq s
          OBVIOUS
        <5> HIDE DEF r
        <5> QED
          BY <3>2, <5>1, <5>2
      <4>2. /\ e[s] = IF s = {} THEN b ELSE g[<<Max(s), e[r]>>]
            /\ s # {} => Max(s) \in s
        BY <2>1, <4>1
      <4>3. f[s] = e[s] /\ f[r] = e[r]
        <5> HIDE DEF r
        <5> QED
          BY <3>2, <4>1
      <4> QED
        BY <4>2, <4>3
    <3> QED
      BY <3>1, <3>2
  <2>5. Fold(f, m)
    <3> HIDE DEF f
    <3> QED
      BY <2>3, <2>4
  <2> HIDE DEF f, Fold
  <2> QED
    BY <2>5
<1>3. n \in P
  <2> HIDE DEF P
  <2> QED
    BY <1>1, <1>2, Climb
<1> QED
  BY <1>3

(* fold is such a function, where its values are in V.                     *)
FoldsUp(fold, V, n, b, g) ==
  /\ fold[{}] = b
  /\ \A s \in SUBSET (1 .. n) :
       s # {} /\ Max(s) \in 1 .. n /\ fold[s \ {Max(s)}] \in V
         => fold[s] = g[<<Max(s), fold[s \ {Max(s)}]>>]

(* h lists what has been computed after each of n steps, e at their end.   *)
Trace(h, e, V, n, b, g) ==
  /\ h \in [0 .. n -> V] /\ h[0] = b /\ h[n] = e
  /\ \A k \in 1 .. n : h[k] = g[<<k, h[k - 1]>>]

(* The values of a fold on the initial segments are such a list.           *)
LEMMA FoldValues ==
  ASSUME NEW V, NEW n \in Nat, NEW b \in V, NEW g \in [(1 .. n) \X V -> V],
         NEW fold, FoldsUp(fold, V, n, b, g)
  PROVE  \E h : Trace(h, fold[1 .. n], V, n, b, g)
<1> DEFINE h == [k \in 0 .. n |-> fold[1 .. k]]
           P == {k \in 0 .. n : h[k] \in V}
<1>1. h[0] = b /\ h[n] = fold[1 .. n]
  <2>1. 1 .. 0 = {}
    OBVIOUS
  <2> QED
    BY <2>1 DEF FoldsUp
<1>2. ASSUME NEW k \in 1 .. n, h[k - 1] \in V
      PROVE  h[k] = g[<<k, h[k - 1]>>]
  <2>1. 1 .. k # {} /\ Max(1 .. k) = k /\ (1 .. k) \ {k} = 1 .. k - 1
    <3> HIDE DEF h
    <3>1. k \in Nat /\ k > 0
      OBVIOUS
    <3> QED
      BY <3>1, LastOf, Zenon
  <2>2. h[k] = fold[1 .. k] /\ h[k - 1] = fold[1 .. k - 1] /\ 1 .. k \in SUBSET (1 .. n)
    OBVIOUS
  <2> HIDE DEF h
  <2> QED
    BY <1>2, <2>1, <2>2 DEF FoldsUp
<1>3. \A k \in 0 .. n : k \in P
  <2> HIDE DEF h
  <2>1. 0 \in P
    BY <1>1
  <2>2. ASSUME NEW k \in 1 .. n, k - 1 \in P PROVE k \in P
    <3>1. h[k] = g[<<k, h[k - 1]>>] /\ <<k, h[k - 1]>> \in (1 .. n) \X V
      BY <1>2, <2>2
    <3> QED
      BY <3>1
  <2> HIDE DEF P
  <2> QED
    BY <2>1, <2>2, Climb
<1>4. h \in [0 .. n -> V] /\ \A k \in 1 .. n : h[k - 1] \in V
  <2>1. \A k \in 0 .. n : h[k] \in V
    BY <1>3
  <2> QED
    BY <2>1
<1> HIDE DEF h
<1>5. Trace(h, fold[1 .. n], V, n, b, g)
  BY <1>1, <1>2, <1>4 DEF Trace
<1> QED
  BY <1>5

(* n steps g from b on, in V.                                              *)
StepsUp(V, n, b, g) == n \in Nat /\ b \in V /\ g \in [(1 .. n) \X V -> V]

(* What they compute can be listed.                                        *)
LEMMA StepsExist ==
  ASSUME NEW V, NEW n, NEW b, NEW g, StepsUp(V, n, b, g)
  PROVE  \E h : Trace(h, h[n], V, n, b, g)
<1>1. n \in Nat /\ b \in V /\ g \in [(1 .. n) \X V -> V]
  BY DEF StepsUp
<1>2. PICK f \in [SUBSET (1 .. n) -> V] :
        \A s \in SUBSET (1 .. n) :
          /\ f[s] = IF s = {} THEN b ELSE g[<<Max(s), f[s \ {Max(s)}]>>]
          /\ s # {} => Max(s) \in s
  BY <1>1, FoldExists
<1>3. FoldsUp(f, V, n, b, g)
  BY <1>2 DEF FoldsUp
<1>4. PICK h : Trace(h, f[1 .. n], V, n, b, g)
  BY <1>1, <1>3, FoldValues
<1> QED
  BY <1>4 DEF Trace
=============================================================================
