-------------------------- MODULE CliRunnerProofs ---------------------------
(***************************************************************************)
(* Proofs about CliRunner: the command tree is what the methods of the     *)
(* service say, whatever the order in which they are inserted; the method  *)
(* that runs is the one the words of the line name, wherever flags stand;  *)
(* what a script sees of a Run is what came of the command; a request has  *)
(* what the lines gave; and a command that is asked for runs.              *)
(***************************************************************************)
EXTENDS CliRunnerProperties, SequenceLemmas

(* The order of paths: a node is below the nodes of the prefixes.          *)
LEMMA PathOrder ==
  /\ \A p, q, r \in AllPaths :
       /\ IsStrictPrefix(p, q) /\ IsStrictPrefix(q, r) => IsStrictPrefix(p, r)
       /\ IsPrefix(p, q) /\ IsStrictPrefix(q, r) => IsPrefix(p, r)
  /\ \A p \in AllPaths :
       /\ IsPrefix(p, p) /\ ~IsStrictPrefix(p, p)
       /\ ~IsStrictPrefix(p, Root) /\ (IsStrictPrefix(Root, p) <=> p # Root)
  /\ Root \in AllPaths
<1>1. \A p, q, r \in AllPaths :
        /\ IsStrictPrefix(p, q) /\ IsStrictPrefix(q, r) => IsStrictPrefix(p, r)
        /\ IsPrefix(p, q) /\ IsStrictPrefix(q, r) => IsPrefix(p, r)
        /\ IsPrefix(p, p) /\ ~IsStrictPrefix(p, p)
  BY PrefixOfPrefix DEF AllPaths
<1>2. \A p \in AllPaths : ~IsStrictPrefix(p, Root) /\ (IsStrictPrefix(Root, p) <=> p # Root)
  BY EmptyPrefix DEF AllPaths, Root
<1>3. Root \in AllPaths
  BY DEF AllPaths, Root
<1> QED
  BY <1>1, <1>2, <1>3

(* Only the root is above the schema command.                              *)
LEMMA AboveSchema ==
  /\ Schema \in AllPaths /\ Schema # Root
  /\ ~IsPrefix(Schema, Root)
  /\ \A p \in AllPaths : IsStrictPrefix(p, Schema) => p = Root
<1>1. Schema \in AllPaths /\ Schema # Root /\ Len(Schema) = 1 /\ Len(Root) = 0 /\ Root \in AllPaths
  <2>1. Schema \in AllPaths /\ Len(Schema) = 1
    <3>1. \A S : \A a \in S : <<a>> \in Seq(S) /\ Len(<<a>>) = 1
      OBVIOUS
    <3>2. "schema" \in STRING \union {"schema"}
      OBVIOUS
    <3> QED
      BY <3>1, <3>2, Zenon DEF AllPaths, Schema
  <2>2. Root \in AllPaths /\ Len(Root) = 0
    BY DEF AllPaths, Root
  <2> QED
    BY <2>1, <2>2
<1>2. ~IsPrefix(Schema, Root)
  BY <1>1 DEF IsPrefix
<1>3. ASSUME NEW p \in AllPaths, IsStrictPrefix(p, Schema) PROVE p = Root
  <2>1. Len(p) < Len(Schema)
    BY <1>1, <1>3, StrictPrefixIs DEF AllPaths
  <2>2. Len(p) = 0
    BY <1>1, <2>1 DEF AllPaths
  <2> QED
    BY <2>2 DEF AllPaths, Root
<1> QED
  BY <1>1, <1>2, <1>3

(* insertLeaf walks through the nodes above the path.                      *)
LEMMA WalkedIs ==
  ASSUME NEW path \in AllPaths
  PROVE  WalkedThrough(path) = {p \in AllPaths : IsStrictPrefix(p, path)}
<1>1. Len(path) \in Nat
  BY DEF AllPaths
<1>2. ASSUME NEW n \in 0 .. Len(path) - 1
      PROVE  SubSeq(path, 1, n) \in AllPaths /\ IsStrictPrefix(SubSeq(path, 1, n), path)
  <2> DEFINE p == SubSeq(path, 1, n)
  <2>1. p \in AllPaths /\ Len(p) = n /\ \A i \in 1 .. n : p[i] = path[i]
    BY <1>1 DEF AllPaths
  <2> HIDE DEF p
  <2>2. IsStrictPrefix(p, path) <=> Len(p) < Len(path) /\ \A i \in 1 .. Len(p) : p[i] = path[i]
    BY <2>1, StrictPrefixIs DEF AllPaths
  <2>3. IsStrictPrefix(p, path)
    BY <1>1, <2>1, <2>2
  <2> QED
    BY <2>1, <2>3 DEF p
<1>3. ASSUME NEW p \in AllPaths, IsStrictPrefix(p, path)
      PROVE  \E n \in 0 .. Len(path) - 1 : p = SubSeq(path, 1, n)
  <2>1. Len(p) < Len(path) /\ Len(p) \in Nat
    BY <1>3, StrictPrefixIs DEF AllPaths
  <2>2. SubSeq(p, 1, Len(p)) = SubSeq(path, 1, Len(p))
    BY <1>3 DEF IsStrictPrefix, IsPrefix
  <2>3. SubSeq(p, 1, Len(p)) = p
    BY DEF AllPaths
  <2>4. Len(p) \in 0 .. Len(path) - 1
    BY <1>1, <2>1
  <2> QED
    BY <2>2, <2>3, <2>4
<1> QED
  BY <1>2, <1>3 DEF WalkedThrough

-----------------------------------------------------------------------------
(* A tree in which what is below a node is below a group.                  *)
Closed(t) ==
  /\ DOMAIN t \subseteq AllPaths /\ Root \in DOMAIN t
  /\ \A p \in DOMAIN t : \A q \in WalkedThrough(p) : q \in DOMAIN t /\ t[q] = Group

(* The same in terms of the order.                                         *)
LEMMA ClosedIs ==
  ASSUME NEW t
  PROVE  Closed(t) <=>
           /\ DOMAIN t \subseteq AllPaths /\ Root \in DOMAIN t
           /\ \A p \in DOMAIN t : \A q \in AllPaths :
                IsStrictPrefix(q, p) => q \in DOMAIN t /\ t[q] = Group
BY WalkedIs DEF Closed

(* insertLeaf keeps it so, where it does not run into a leaf.              *)
LEMMA InsertedClosed ==
  ASSUME NEW t, Closed(t), NEW path \in AllPaths, NEW n, ~AddsToLeaf(t, path)
  PROVE  Closed(InsertLeaf(t, path, n))
<1> DEFINE u == InsertLeaf(t, path, n)
           D == {p \in DOMAIN t : ~IsStrictPrefix(path, p)}
                \union {p \in AllPaths : IsStrictPrefix(p, path)} \union {path}
<1>1. /\ DOMAIN t \subseteq AllPaths /\ Root \in DOMAIN t
      /\ \A p \in DOMAIN t : \A q \in AllPaths :
           IsStrictPrefix(q, p) => q \in DOMAIN t /\ t[q] = Group
  BY ClosedIs
<1>2. u = [p \in D |-> IF p = path THEN n ELSE IF p \in DOMAIN t THEN t[p] ELSE Group]
  BY WalkedIs DEF InsertLeaf
<1>3. \A p \in AllPaths : IsStrictPrefix(p, path) /\ p \in DOMAIN t => t[p] = Group
  BY WalkedIs DEF AddsToLeaf
<1> HIDE DEF u
<1>4. /\ DOMAIN u = D
      /\ \A p \in D : u[p] = IF p = path THEN n ELSE IF p \in DOMAIN t THEN t[p] ELSE Group
  BY <1>2
<1>5. D \subseteq AllPaths /\ Root \in D
  BY <1>1, PathOrder
<1>6. ASSUME NEW p \in D, NEW q \in AllPaths, IsStrictPrefix(q, p) PROVE q \in D /\ u[q] = Group
  <2>1. p \in AllPaths
    BY <1>5
  <2>2. CASE p \in DOMAIN t /\ ~IsStrictPrefix(path, p)
    <3>1. q \in DOMAIN t /\ t[q] = Group
      BY <1>1, <1>6, <2>2
    <3>2. ~IsStrictPrefix(path, q) /\ q # path
      BY <1>6, <2>1, <2>2, PathOrder
    <3> QED
      BY <1>4, <3>1, <3>2
  <2>3. CASE IsStrictPrefix(p, path) \/ p = path
    <3>1. IsStrictPrefix(q, path)
      BY <1>6, <2>1, <2>3, PathOrder
    <3>2. q \in D /\ q # path
      BY <3>1, PathOrder
    <3> QED
      BY <1>3, <1>4, <3>1, <3>2
  <2> QED
    BY <2>2, <2>3
<1>7. Closed(u)
  <2> HIDE DEF D
  <2> QED
    BY <1>4, <1>5, <1>6, ClosedIs
<1> QED
  BY <1>7 DEF u

(* pruneDeadGroups keeps it so.                                            *)
LEMMA PrunedClosed ==
  ASSUME NEW t, Closed(t)
  PROVE  Closed(Prune(t))
<1> DEFINE u == Prune(t)
           D == {p \in DOMAIN t : \/ p = Root \/ t[p] # Group
                                  \/ \E q \in DOMAIN t : t[q] # Group /\ IsStrictPrefix(p, q)}
<1>1. /\ DOMAIN t \subseteq AllPaths /\ Root \in DOMAIN t
      /\ \A p \in DOMAIN t : \A q \in AllPaths :
           IsStrictPrefix(q, p) => q \in DOMAIN t /\ t[q] = Group
  BY ClosedIs
<1>2. u = [p \in D |-> t[p]]
  BY DEF Prune
<1> HIDE DEF u
<1>3. DOMAIN u = D /\ \A p \in D : u[p] = t[p]
  BY <1>2
<1>4. ASSUME NEW p \in D, NEW q \in AllPaths, IsStrictPrefix(q, p) PROVE q \in D /\ u[q] = Group
  <2>1. q \in DOMAIN t /\ t[q] = Group /\ p \in AllPaths
    BY <1>1, <1>4
  <2>2. p # Root
    BY <1>4, PathOrder
  <2>3. CASE t[p] # Group
    BY <1>3, <1>4, <2>1, <2>3
  <2>4. CASE \E r \in DOMAIN t : t[r] # Group /\ IsStrictPrefix(p, r)
    <3>1. PICK r \in DOMAIN t : t[r] # Group /\ IsStrictPrefix(p, r)
      BY <2>4
    <3>2. IsStrictPrefix(q, r)
      BY <1>1, <1>4, <2>1, <3>1, PathOrder
    <3> QED
      BY <1>3, <2>1, <3>1, <3>2
  <2> QED
    BY <2>2, <2>3, <2>4
<1>5. D \subseteq AllPaths /\ Root \in D
  BY <1>1
<1>6. Closed(u)
  <2> HIDE DEF D
  <2> QED
    BY <1>3, <1>4, <1>5, ClosedIs
<1> QED
  BY <1>6 DEF u

(* So does emitSchemaNode, when the root is no command.                    *)
LEMMA WithSchemaClosed ==
  ASSUME NEW t, Closed(t), t[Root] = Group
  PROVE  Closed(AddSchema(t))
<1> DEFINE u == AddSchema(t)
           D == {p \in DOMAIN t : ~IsPrefix(Schema, p)} \union {Schema}
<1>1. /\ DOMAIN t \subseteq AllPaths /\ Root \in DOMAIN t
      /\ \A p \in DOMAIN t : \A q \in AllPaths :
           IsStrictPrefix(q, p) => q \in DOMAIN t /\ t[q] = Group
  BY ClosedIs
<1>2. u = [p \in D |-> IF p = Schema THEN Show ELSE t[p]]
  BY DEF AddSchema
<1> HIDE DEF u
<1>3. DOMAIN u = D /\ \A p \in D : u[p] = IF p = Schema THEN Show ELSE t[p]
  BY <1>2
<1>4. D \subseteq AllPaths /\ Root \in D
  BY <1>1, AboveSchema
<1>5. ASSUME NEW p \in D, NEW q \in AllPaths, IsStrictPrefix(q, p) PROVE q \in D /\ u[q] = Group
  <2>1. CASE p = Schema
    <3>1. q = Root
      BY <1>5, <2>1, AboveSchema
    <3> QED
      BY <1>3, <1>4, <3>1, AboveSchema
  <2>2. CASE p # Schema
    <3>1. q \in DOMAIN t /\ t[q] = Group /\ p \in AllPaths
      BY <1>1, <1>5, <2>2
    <3>2. ~IsPrefix(Schema, p)
      BY <1>5, <2>2
    <3>3. ~IsPrefix(Schema, q)
      BY <1>5, <3>1, <3>2, AboveSchema, PathOrder
    <3>4. q # Schema
      BY <3>3, AboveSchema, PathOrder
    <3> QED
      BY <1>3, <3>1, <3>3, <3>4
  <2> QED
    BY <2>1, <2>2
<1>6. Closed(u)
  <2> HIDE DEF D
  <2> QED
    BY <1>3, <1>4, <1>5, ClosedIs
<1> QED
  BY <1>6 DEF u

-----------------------------------------------------------------------------
(* What Validate and the shape of a well-formed service give.              *)
LEMMA ServiceIs ==
  ASSUME svc \in Services
  PROVE  /\ Len(svc.methods) \in Nat /\ Exposed(svc) \subseteq 1 .. Len(svc.methods)
         /\ \A c \in Exposed(svc) : PathOf(svc, c) \in AllPaths
<1>1. svc.path \in Seq(STRING) /\ svc.methods \in Seq(ToSet(svc.methods))
  BY RunnerAssumption
<1>2. Len(svc.methods) \in Nat /\ DOMAIN svc.methods = 1 .. Len(svc.methods)
  BY <1>1
<1>3. \A c \in DOMAIN svc.methods : svc.methods[c].path \in Seq(STRING)
  BY RunnerAssumption DEF ToSet
<1>4. \A p, q \in Seq(STRING) : p \o q \in AllPaths
  BY DEF AllPaths
<1> QED
  BY <1>1, <1>2, <1>3, <1>4 DEF Exposed, PathOf

(* A command of a well-formed service runs into no leaf, and takes its     *)
(* place beside the commands that are there.                               *)
LEMMA InsertedTree ==
  ASSUME svc \in Services, WellFormed, ~DuplicatePaths(svc),
         NEW t, DOMAIN t \subseteq AllPaths, NEW m \in Exposed(svc), TreeOf(t, m)
  PROVE  /\ ~AddsToLeaf(t, PathOf(svc, m))
         /\ TreeOf(InsertLeaf(t, PathOf(svc, m), m), m + 1)
<1> DEFINE path == PathOf(svc, m)
           u == InsertLeaf(t, path, m)
           D == {p \in DOMAIN t : ~IsStrictPrefix(path, p)}
                \union {p \in AllPaths : IsStrictPrefix(p, path)} \union {path}
<1>1. /\ m \in Nat /\ m # Group /\ \A c \in Exposed(svc) : c \in Nat /\ c # Group
      /\ \A c \in Exposed(svc) : PathOf(svc, c) \in AllPaths
  BY ServiceIs DEF Group
<1>2. path \in AllPaths
  BY <1>1
<1>3. \A c, d \in Exposed(svc) :
        ~IsStrictPrefix(PathOf(svc, c), PathOf(svc, d)) /\ (PathOf(svc, c) = PathOf(svc, d) => c = d)
  BY DEF WellFormed, DuplicatePaths
<1>4. ~AddsToLeaf(t, path)
  <2> SUFFICES ASSUME NEW p \in DOMAIN t, t[p] # Group, IsStrictPrefix(p, path) PROVE FALSE
    BY <1>2, WalkedIs DEF AddsToLeaf
  <2>1. t[p] \in Exposed(svc) /\ p = PathOf(svc, t[p])
    BY DEF TreeOf
  <2> QED
    BY <1>3, <2>1
<1>5. u = [p \in D |-> IF p = path THEN m ELSE IF p \in DOMAIN t THEN t[p] ELSE Group]
  BY <1>2, WalkedIs DEF InsertLeaf
<1> HIDE DEF u
<1>6. /\ DOMAIN u = D
      /\ \A p \in D : u[p] = IF p = path THEN m ELSE IF p \in DOMAIN t THEN t[p] ELSE Group
  BY <1>5
<1>7. ASSUME NEW c \in Exposed(svc), c < m + 1
      PROVE  PathOf(svc, c) \in DOMAIN u /\ u[PathOf(svc, c)] = c
  <2>1. CASE c = m
    BY <1>6, <2>1
  <2>2. CASE c # m
    <3>1. c < m
      BY <1>1, <1>7, <2>2
    <3>2. PathOf(svc, c) \in DOMAIN t /\ t[PathOf(svc, c)] = c
      BY <3>1 DEF TreeOf
    <3>3. ~IsStrictPrefix(path, PathOf(svc, c)) /\ PathOf(svc, c) # path
      BY <1>3, <2>2
    <3> QED
      BY <1>6, <3>2, <3>3
  <2> QED
    BY <2>1, <2>2
<1>8. ASSUME NEW p \in DOMAIN u
      PROVE  IF u[p] = Group
             THEN p = Root \/ \E c \in Exposed(svc) : c < m + 1 /\ IsStrictPrefix(p, PathOf(svc, c))
             ELSE u[p] \in Exposed(svc) /\ u[p] < m + 1 /\ p = PathOf(svc, u[p])
  <2>1. CASE p = path
    <3>1. u[p] = m /\ m < m + 1
      BY <1>1, <1>6, <2>1
    <3> QED
      BY <1>1, <2>1, <3>1
  <2>2. CASE p # path /\ p \in DOMAIN t
    <3>1. u[p] = t[p]
      BY <1>6, <2>2
    <3>2. \A c \in Exposed(svc) : c < m => c < m + 1
      BY <1>1
    <3>3. CASE t[p] = Group
      BY <2>2, <3>1, <3>2, <3>3 DEF TreeOf
    <3>4. CASE t[p] # Group
      BY <2>2, <3>1, <3>2, <3>4 DEF TreeOf
    <3> QED
      BY <3>3, <3>4
  <2>3. CASE p # path /\ p \notin DOMAIN t
    <3>1. u[p] = Group /\ IsStrictPrefix(p, path) /\ m < m + 1
      BY <1>1, <1>6, <2>3
    <3> QED
      BY <3>1
  <2> QED
    BY <2>1, <2>2, <2>3
<1>9. TreeOf(u, m + 1)
  BY <1>7, <1>8 DEF TreeOf
<1> QED
  BY <1>4, <1>9 DEF u

(* What buildTree comes to for such a service: the root is a group, every  *)
(* node that is not pruned has a name of its own in Go, and with schema    *)
(* the tree is the one of TreeExact.                                       *)
Complete(t) ==
  /\ \A c \in Exposed(svc) : PathOf(svc, c) \in DOMAIN t /\ t[PathOf(svc, c)] = c
  /\ \A p \in DOMAIN t :
       CASE t[p] = Group -> \E c \in Exposed(svc) : IsStrictPrefix(p, PathOf(svc, c))
         [] t[p] = Show -> p = Schema
         [] OTHER -> t[p] \in Exposed(svc) /\ p = PathOf(svc, t[p])

LEMMA BuiltTree ==
  ASSUME svc \in Services, WellFormed, NEW t, Closed(t), Exposed(svc) # {},
         NEW m, \A c \in Exposed(svc) : c < m, TreeOf(t, m)
  PROVE  /\ t[Root] = Group
         /\ Compiles(svc, Prune(t))
         /\ Complete(AddSchema(Prune(t)))
<1> DEFINE D == {p \in DOMAIN t : \/ p = Root \/ t[p] # Group
                                  \/ \E q \in DOMAIN t : t[q] # Group /\ IsStrictPrefix(p, q)}
           E == {p \in D : ~IsPrefix(Schema, p)} \union {Schema}
           u == Prune(t)
           v == AddSchema(u)
<1>1. /\ \A c \in Exposed(svc) : c # Group /\ c # Show /\ PathOf(svc, c) \in AllPaths
      /\ DOMAIN t \subseteq AllPaths /\ Root \in DOMAIN t
      /\ Group # Show
  BY ServiceIs DEF Group, Show, Closed
<1>2. \A c \in Exposed(svc) :
        PathOf(svc, c) # Root /\ ~IsPrefix(Schema, PathOf(svc, c)) /\ PathOf(svc, c) # Schema
  BY PathOrder, AboveSchema DEF WellFormed
<1>3. /\ \A c \in Exposed(svc) : PathOf(svc, c) \in DOMAIN t /\ t[PathOf(svc, c)] = c
      /\ \A p \in DOMAIN t :
           t[p] # Group => t[p] \in Exposed(svc) /\ p = PathOf(svc, t[p])
      /\ \A p \in DOMAIN t :
           t[p] = Group => p = Root \/ \E c \in Exposed(svc) : IsStrictPrefix(p, PathOf(svc, c))
  BY DEF TreeOf
<1>4. t[Root] = Group
  BY <1>1, <1>2, <1>3
<1>5. ASSUME NEW p \in D, t[p] = Group
      PROVE  \E c \in Exposed(svc) : IsStrictPrefix(p, PathOf(svc, c))
  <2>1. CASE p = Root
    BY <1>1, <1>2, <2>1, PathOrder
  <2>2. CASE p # Root
    BY <1>3, <1>5, <2>2
  <2> QED
    BY <2>1, <2>2
<1>6. u = [p \in D |-> t[p]]
  BY DEF Prune
<1> HIDE DEF u
<1>7. DOMAIN u = D /\ \A p \in D : u[p] = t[p]
  BY <1>6
<1>8. Compiles(svc, u)
  <2>1. ASSUME NEW p \in D PROVE p \in Nodes
    <3>1. CASE t[p] = Group
      <4>1. PICK c \in Exposed(svc) : IsStrictPrefix(p, PathOf(svc, c))
        BY <1>5, <3>1
      <4>2. p \in AllPaths /\ p \in WalkedThrough(PathOf(svc, c))
        BY <1>1, <4>1, WalkedIs
      <4> QED
        BY <4>2 DEF Nodes
    <3>2. CASE t[p] # Group
      BY <1>3, <3>2 DEF Nodes
    <3> QED
      BY <3>1, <3>2
  <2>2. \A p, q \in D : VarName(p) = VarName(q) => p = q
    BY <2>1 DEF WellFormed
  <2>3. ~BindsElsewhere(svc)
    BY DEF WellFormed
  <2> HIDE DEF D
  <2> QED
    BY <1>7, <2>2, <2>3 DEF Compiles
<1>9. v = [p \in E |-> IF p = Schema THEN Show ELSE u[p]]
  <2> HIDE DEF D
  <2> QED
    BY <1>7 DEF AddSchema
<1> HIDE DEF v
<1>10. /\ DOMAIN v = E /\ v[Schema] = Show
       /\ \A p \in E : p # Schema => p \in D /\ v[p] = t[p]
  BY <1>7, <1>9
<1>11. ASSUME NEW c \in Exposed(svc) PROVE PathOf(svc, c) \in DOMAIN v /\ v[PathOf(svc, c)] = c
  <2>1. PathOf(svc, c) \in D
    BY <1>1, <1>3
  <2>2. PathOf(svc, c) \in E
    BY <1>2, <2>1
  <2> QED
    BY <1>2, <1>3, <1>10, <2>2
<1>12. ASSUME NEW p \in DOMAIN v
       PROVE  CASE v[p] = Group -> \E c \in Exposed(svc) : IsStrictPrefix(p, PathOf(svc, c))
                [] v[p] = Show -> p = Schema
                [] OTHER -> v[p] \in Exposed(svc) /\ p = PathOf(svc, v[p])
  <2>1. CASE p = Schema
    BY <1>1, <1>10, <2>1
  <2>2. CASE p # Schema
    <3>1. p \in D /\ v[p] = t[p] /\ p \in DOMAIN t
      BY <1>10, <2>2
    <3>2. CASE t[p] = Group
      BY <1>1, <1>5, <3>1, <3>2
    <3>3. CASE t[p] # Group
      BY <1>1, <1>3, <3>1, <3>3
    <3> QED
      BY <3>2, <3>3
  <2> QED
    BY <2>1, <2>2
<1>13. Complete(v)
  BY <1>11, <1>12 DEF Complete
<1> QED
  BY <1>4, <1>8, <1>13 DEF v, u

-----------------------------------------------------------------------------
(* TreeInv is inductive.                                                   *)
TreeParts ==
  /\ svc \in Services /\ Closed(tree)
  /\ WellFormed => (Constructed => Complete(tree)) /\ phase # "crashed"
  /\ phase \in {"validate", "insert"} =>
       k \in 1..Len(svc.methods) + 1 /\ (WellFormed => TreeOf(tree, k))
  /\ phase = "validate" => k = 1
  /\ phase = "insert" => ~DuplicatePaths(svc)

LEMMA TreeInvIs == (TreeInv <=> TreeParts) /\ (TreeInv' <=> TreeParts')
BY DEF TreeInv, TreeParts, TreeExact, Closed, Complete

LEMMA InitTree == Init => TreeInv
<1> SUFFICES ASSUME Init PROVE TreeInv
  OBVIOUS
<1>1. svc \in Services /\ phase = "validate" /\ k = 1 /\ ~Constructed
  BY DEF Init, Constructed
<1>2. DOMAIN tree = {Root} /\ tree[Root] = Group
  BY DEF Init
<1>3. Closed(tree)
  BY <1>2, PathOrder, ClosedIs
<1>4. \A c \in Exposed(svc) : ~(c < 1)
  BY <1>1, ServiceIs
<1>5. TreeOf(tree, 1)
  BY <1>2, <1>4 DEF TreeOf
<1>6. k \in 1..Len(svc.methods) + 1
  BY <1>1, ServiceIs
<1> QED
  BY <1>1, <1>3, <1>5, <1>6, TreeInvIs DEF TreeParts

LEMMA InsertTree == TreeInv /\ InsertMethod => TreeInv'
<1> SUFFICES ASSUME TreeInv, InsertMethod PROVE TreeInv'
  OBVIOUS
<1>1. /\ phase = "insert" /\ k <= Len(svc.methods) /\ k' = k + 1 /\ svc' = svc
      /\ Exposed(svc)' = Exposed(svc) /\ DuplicatePaths(svc)' = DuplicatePaths(svc)
      /\ Len(svc.methods)' = Len(svc.methods) /\ WellFormed' = WellFormed
  BY DEF InsertMethod, WellFormed, Nodes
<1>2. /\ svc \in Services /\ Closed(tree) /\ ~DuplicatePaths(svc)
      /\ k \in 1..Len(svc.methods) + 1 /\ (WellFormed => TreeOf(tree, k))
  BY <1>1, TreeInvIs DEF TreeParts
<1>3. DOMAIN tree \subseteq AllPaths
  BY <1>2 DEF Closed
<1>4. k + 1 \in 1..Len(svc.methods) + 1 /\ k \in Nat /\ Exposed(svc) \subseteq Nat
  BY <1>1, <1>2, ServiceIs
<1>5. CASE k \notin Exposed(svc)
  <2>1. phase' = phase /\ tree' = tree
    BY <1>5 DEF InsertMethod
  <2>2. \A c \in Exposed(svc) : c < k + 1 <=> c < k
    BY <1>4, <1>5
  <2>3. WellFormed => TreeOf(tree, k + 1)
    BY <1>2, <2>2 DEF TreeOf
  <2>4. TreeOf(tree, k)' <=> TreeOf(tree, k + 1)
    BY <1>1, <2>1 DEF TreeOf
  <2>5. Closed(tree)'
    BY <1>2, <2>1 DEF Closed
  <2> QED
    BY <1>1, <1>2, <1>4, <2>1, <2>3, <2>4, <2>5, TreeInvIs DEF TreeParts, Constructed
<1>6. CASE k \in Exposed(svc) /\ AddsToLeaf(tree, PathOf(svc, k))
  <2>1. phase' = "crashed" /\ tree' = tree
    BY <1>6 DEF InsertMethod
  <2>2. ~WellFormed
    BY <1>2, <1>3, <1>6, InsertedTree
  <2> QED
    BY <1>1, <1>2, <2>1, <2>2, TreeInvIs DEF TreeParts, Closed
<1>7. CASE k \in Exposed(svc) /\ ~AddsToLeaf(tree, PathOf(svc, k))
  <2> DEFINE u == InsertLeaf(tree, PathOf(svc, k), k)
  <2>1. phase' = phase /\ tree' = u
    BY <1>7 DEF InsertMethod
  <2>2. Closed(u)
    BY <1>2, <1>7, ServiceIs, InsertedClosed
  <2>3. WellFormed => TreeOf(u, k + 1)
    BY <1>2, <1>3, <1>7, InsertedTree
  <2>4. TreeOf(tree, k)' <=> TreeOf(u, k + 1)
    <3> HIDE DEF u
    <3> QED
      BY <1>1, <2>1 DEF TreeOf
  <2>5. Closed(tree)'
    <3> HIDE DEF u
    <3> QED
      BY <2>1, <2>2 DEF Closed
  <2> QED
    BY <1>1, <1>2, <1>4, <2>1, <2>3, <2>4, <2>5, TreeInvIs DEF TreeParts, Constructed
<1> QED
  BY <1>5, <1>6, <1>7

LEMMA ConstructTree == TreeInv /\ Construct => TreeInv'
<1> SUFFICES ASSUME TreeInv, Construct PROVE TreeInv'
  OBVIOUS
<1>1. /\ phase = "insert" /\ k > Len(svc.methods) /\ svc' = svc
      /\ Exposed(svc)' = Exposed(svc) /\ WellFormed' = WellFormed
  BY DEF Construct, WellFormed, Nodes
<1>2. /\ svc \in Services /\ Closed(tree)
      /\ k \in 1..Len(svc.methods) + 1 /\ (WellFormed => TreeOf(tree, k))
  BY <1>1, TreeInvIs DEF TreeParts
<1>3. \A c \in Exposed(svc) : c < k
  BY <1>1, <1>2, ServiceIs
<1>4. CASE Exposed(svc) = {}
  <2>1. phase' = "rejected" /\ tree' = tree
    BY <1>4 DEF Construct
  <2> QED
    BY <1>1, <1>2, <2>1, TreeInvIs DEF TreeParts, Closed, Constructed
<1>5. CASE Exposed(svc) # {} /\ (tree[Root] # Group \/ ~Compiles(svc, Prune(tree)))
  <2>1. phase' = "crashed" /\ tree' = tree
    BY <1>5 DEF Construct
  <2>2. ~WellFormed
    BY <1>2, <1>3, <1>5, BuiltTree
  <2> QED
    BY <1>1, <1>2, <2>1, <2>2, TreeInvIs DEF TreeParts, Closed
<1>6. CASE Exposed(svc) # {} /\ tree[Root] = Group /\ Compiles(svc, Prune(tree))
  <2> DEFINE u == AddSchema(Prune(tree))
  <2>1. phase' = "idle" /\ tree' = u
    BY <1>6 DEF Construct
  <2>2. Closed(Prune(tree)) /\ Prune(tree)[Root] = Group
    BY <1>2, <1>6, PrunedClosed DEF Prune, Closed
  <2>3. Closed(u)
    BY <2>2, WithSchemaClosed
  <2>4. WellFormed => Complete(u)
    BY <1>2, <1>3, <1>6, BuiltTree
  <2> HIDE DEF u
  <2> QED
    BY <1>1, <1>2, <2>1, <2>3, <2>4, TreeInvIs DEF TreeParts, Closed, Complete
<1> QED
  BY <1>4, <1>5, <1>6

(* Once it is built, no action touches the tree.                           *)
LEMMA TreeKept ==
  ASSUME \/ Start \/ PreParseArg \/ PreParsed
         \/ ParseGroupFlag \/ GroupFlagsParsed \/ Dispatch
         \/ ShowSchema \/ RunOnStdin \/ RunOnJSON \/ ParseLeafFlag \/ RunOnFlags
         \/ Receive \/ Send \/ ReturnError \/ ReturnStream \/ ReturnResponse
         \/ Report
  PROVE  Constructed /\ Constructed' /\ svc' = svc /\ tree' = tree
<1>1. CASE Start \/ PreParsed \/ GroupFlagsParsed
  BY <1>1 DEF Start, PreParsed, GroupFlagsParsed, Constructed, program
<1>2. CASE PreParseArg
  BY <1>2 DEF PreParseArg, FailUnmapped, Constructed, program
<1>3. CASE ParseGroupFlag
  BY <1>3 DEF ParseGroupFlag, Done, Fail, Constructed, program
<1>4. CASE Dispatch
  BY <1>4 DEF Dispatch, Done, Fail, Constructed, program
<1>5. CASE ShowSchema
  BY <1>5 DEF ShowSchema, Done, Fail, Constructed, program
<1>6. CASE RunOnStdin \/ RunOnJSON
  BY <1>6 DEF RunOnStdin, RunOnJSON, AtMethod, Invoke, Fail, Constructed, program
<1>7. CASE ParseLeafFlag
  BY <1>7 DEF ParseLeafFlag, AtMethod, Fail, Constructed, program
<1>8. CASE RunOnFlags
  BY <1>8 DEF RunOnFlags, AtMethod, Invoke, Fail, Constructed, program
<1>9. CASE Receive \/ Send
  BY <1>9 DEF Receive, Send, Serving, Constructed, program
<1>10. CASE ReturnError \/ ReturnStream \/ ReturnResponse
  BY <1>10 DEF ReturnError, ReturnStream, ReturnResponse, Serving, Constructed, program
<1>11. CASE Report
  BY <1>11 DEF Report, Constructed, program
<1> QED
  BY <1>1, <1>2, <1>3, <1>4, <1>5, <1>6, <1>7, <1>8, <1>9, <1>10, <1>11

LEMMA NextTree == TreeInv /\ [Next]_vars => TreeInv'
<1> SUFFICES ASSUME TreeInv, [Next]_vars PROVE TreeInv'
  OBVIOUS
<1>1. CASE Validate
  <2>1. /\ phase = "validate" /\ phase' \in {"rejected", "insert"}
        /\ svc' = svc /\ tree' = tree /\ k' = k
        /\ phase' = "insert" => ~DuplicatePaths(svc)
    BY <1>1 DEF Validate, program, line
  <2> QED
    BY <2>1 DEF TreeInv, TreeExact, WellFormed, Nodes, TreeOf, Constructed
<1>2. CASE InsertMethod
  BY <1>2, InsertTree
<1>3. CASE Construct
  BY <1>3, ConstructTree
<1>4. CASE Constructed /\ Constructed' /\ svc' = svc /\ tree' = tree
  BY <1>4 DEF TreeInv, TreeExact, WellFormed, Nodes, Constructed
<1>5. CASE UNCHANGED vars
  BY <1>5 DEF vars, program, line, TreeInv, TreeExact, WellFormed, Nodes, TreeOf, Constructed
<1>6. CASE Finished
  BY <1>5, <1>6 DEF Finished
<1> QED
  BY <1>1, <1>2, <1>3, <1>4, <1>5, <1>6, TreeKept DEF Next

(* buildTree, emitSchemaNode: the commands of the tree are the exposed     *)
(* methods, whatever their order, and what is below a node is below a      *)
(* group.                                                                  *)
THEOREM TreeIsExact == Spec => []TreeExact
<1>1. TreeInv => TreeExact
  BY DEF TreeInv
<1> QED
  BY <1>1, InitTree, NextTree, PTL DEF Spec

-----------------------------------------------------------------------------
(* What a Run reports.                                                     *)
LEMMA ErrorsAre ==
  /\ Plain \in Error /\ Plain.code = None
  /\ Status("internal") \in Error /\ Status("invalid_argument") \in Error
  /\ Errors \subseteq Error /\ None \notin Error
  /\ \A c \in DOMAIN ExitCode : ExitCode[c] # 0
<1>1. Plain \in Error /\ Plain.code = None
  BY DEF Plain, Error
<1>2. "internal" \in DOMAIN ExitCode /\ "invalid_argument" \in DOMAIN ExitCode
  BY DEF ExitCode
<1>3. Status("internal") \in Error /\ Status("invalid_argument") \in Error
  BY <1>2 DEF Status, Error
<1>4. \A c \in DOMAIN ExitCode : ExitCode[c] # 0
  BY DEF ExitCode
<1> QED
  BY <1>1, <1>3, <1>4, ErrorAssumption

(* The last of the calls.                                                  *)
LEMMA LastAppended ==
  ASSUME NEW q, q \in Seq(ToSet(q)), NEW e
  PROVE  /\ Append(q, e) \in Seq(ToSet(Append(q, e)))
         /\ Append(q, e) # <<>> /\ Last(Append(q, e)) = e
         /\ DOMAIN q = 1 .. Len(q) /\ Len(q) \in Nat
         /\ q # <<>> => Len(q) \in DOMAIN q
         /\ \A i \in DOMAIN Append(q, e) :
              Append(q, e)[i] = e \/ (i \in DOMAIN q /\ Append(q, e)[i] = q[i])
<1> DEFINE S == ToSet(q) \union {e}
           r == Append(q, e)
<1>1. q \in Seq(S) /\ e \in S
  OBVIOUS
<1>2. DOMAIN q = 1 .. Len(q) /\ Len(q) \in Nat /\ (q # <<>> => Len(q) \in DOMAIN q)
  OBVIOUS
<1>3. /\ r \in Seq(S) /\ Len(r) = Len(q) + 1 /\ r[Len(q) + 1] = e
      /\ \A i \in 1 .. Len(q) : r[i] = q[i]
  <2> HIDE DEF S
  <2> QED
    BY <1>1, Appended
<1> HIDE DEF r
<1>4. DOMAIN r = 1 .. Len(r) /\ Len(r) \in Nat /\ r = [i \in 1 .. Len(r) |-> r[i]]
  <2> HIDE DEF S
  <2> QED
    BY <1>3
<1>5. r \in [1 .. Len(r) -> ToSet(r)]
  BY <1>4 DEF ToSet
<1>6. r \in Seq(ToSet(r))
  BY <1>4, <1>5, Listed
<1>7. r # <<>> /\ Last(r) = e
  BY <1>2, <1>3, <1>4 DEF Last
<1>8. \A i \in DOMAIN r : r[i] = e \/ (i \in DOMAIN q /\ r[i] = q[i])
  BY <1>2, <1>3, <1>4
<1> QED
  BY <1>2, <1>6, <1>7, <1>8 DEF r

-----------------------------------------------------------------------------
(* What the interpretation of a command line does, in the end or on the    *)
(* way there: it goes on, fails, returns what is not to be mapped or       *)
(* nothing, or calls the method of the node.                               *)
Interprets ==
  /\ Interpreting /\ UNCHANGED <<svc, prog, run, tree, sends, printed, returned, told>>
  /\ \/ Interpreting' /\ UNCHANGED <<calls, err>>
     \/ phase' = "failed" /\ err' \in Error /\ UNCHANGED calls
     \/ phase' = "idle" /\ err' \in {err, Plain} /\ UNCHANGED calls
     \/ /\ phase' = "serving" /\ UNCHANGED <<err, node>>
        /\ \E call : call.run = run /\ call.method = tree[node] /\ calls' = Append(calls, call)

LEMMA InvokeIs ==
  ASSUME NEW source, NEW o, NEW b, Invoke(source, o, b)
  PROVE  /\ phase' = "serving" /\ UNCHANGED <<sends, printed, returned, told, err, node>>
         /\ \E call : call.run = run /\ call.method = tree[node] /\ calls' = Append(calls, call)
<1> DEFINE call == [run |-> run, method |-> tree[node], source |-> source, own |-> o, bound |-> b]
<1>1. call.run = run /\ call.method = tree[node]
  OBVIOUS
<1> HIDE DEF call
<1>2. calls' = Append(calls, call)
  BY DEF Invoke, call
<1>3. phase' = "serving" /\ UNCHANGED <<sends, printed, returned, told, err, node>>
  BY DEF Invoke, stream, outcome, line
<1> QED
  BY <1>1, <1>2, <1>3

LEMMA FailIs ==
  ASSUME NEW e, e \in {Plain, Status("invalid_argument")}, Fail(e)
  PROVE  /\ phase' = "failed" /\ err' \in Error
         /\ UNCHANGED <<sends, printed, returned, told, calls>>
BY ErrorsAre DEF Fail, stream

LEMMA DoneIs ==
  ASSUME Done
  PROVE  phase' = "idle" /\ UNCHANGED <<sends, printed, returned, told, calls, err>>
BY DEF Done, stream, outcome

LEMMA InterpretsIs ==
  ASSUME \/ PreParseArg \/ PreParsed \/ ParseGroupFlag \/ GroupFlagsParsed \/ Dispatch
         \/ ShowSchema \/ RunOnStdin \/ RunOnJSON \/ ParseLeafFlag \/ RunOnFlags
  PROVE  Interprets
<1>1. CASE PreParseArg
  BY <1>1 DEF PreParseArg, FailUnmapped, Interprets, Interpreting, program, stream, outcome
<1>2. CASE PreParsed \/ GroupFlagsParsed
  BY <1>2 DEF PreParsed, GroupFlagsParsed, Interprets, Interpreting, program, stream, outcome
<1>3. CASE ParseGroupFlag
  BY <1>3, FailIs, DoneIs DEF ParseGroupFlag, Interprets, Interpreting, program, stream, outcome
<1>4. CASE Dispatch
  BY <1>4, FailIs, DoneIs DEF Dispatch, Interprets, Interpreting, program, stream, outcome
<1>5. CASE ShowSchema
  BY <1>5, FailIs, DoneIs DEF ShowSchema, Interprets, Interpreting, program
<1>6. CASE RunOnStdin
  BY <1>6, FailIs, InvokeIs DEF RunOnStdin, AtMethod, Interprets, Interpreting, program
<1>7. CASE RunOnJSON
  BY <1>7, FailIs, InvokeIs DEF RunOnJSON, AtMethod, Interprets, Interpreting, program
<1>8. CASE ParseLeafFlag
  BY <1>8, FailIs DEF ParseLeafFlag, AtMethod, Interprets, Interpreting, program, stream, outcome
<1>9. CASE RunOnFlags
  BY <1>9, FailIs, InvokeIs DEF RunOnFlags, AtMethod, Interprets, Interpreting, program
<1> QED
  BY <1>1, <1>2, <1>3, <1>4, <1>5, <1>6, <1>7, <1>8, <1>9

-----------------------------------------------------------------------------
(* ReportInv is inductive.                                                 *)
LEMMA InitReport == Init => ReportInv
<1> SUFFICES ASSUME Init PROVE ReportInv
  OBVIOUS
<1>1. /\ run = 0 /\ phase = "validate" /\ calls = <<>> /\ printed = <<>>
      /\ err = None /\ told = None /\ sends = 0
  BY DEF Init
<1>2. calls \in Seq(ToSet(calls)) /\ DOMAIN calls = {} /\ printed \in Seq(Nat) /\ DOMAIN printed = {}
  BY <1>1
<1> QED
  BY <1>1, <1>2 DEF ReportInv, Reported, Interpreting, Constructed, Served

LEMMA GenerateReport ==
  ASSUME ReportInv, svc \in Services, Validate \/ InsertMethod \/ Construct
  PROVE  ReportInv'
<1>1. /\ ~Constructed /\ UNCHANGED <<svc, run, calls, printed, sends, returned, err, told>>
      /\ phase' \in {"rejected", "insert", "crashed", "idle"}
      /\ phase' = "idle" => prog' \in Programs(svc)
  <2>1. CASE Validate
    BY <2>1 DEF Validate, Constructed, program, stream, outcome
  <2>2. CASE InsertMethod
    BY <2>2 DEF InsertMethod, Constructed, stream, outcome
  <2>3. CASE Construct
    BY <2>3 DEF Construct, Constructed, stream, outcome
  <2> QED
    BY <2>1, <2>2, <2>3
<1>2. phase' = "idle" => prog'.mapper \in Error \union {None}
  BY <1>1, ErrorAssumption
<1>3. run = 0 /\ calls = <<>> /\ printed = <<>>
  BY <1>1 DEF ReportInv
<1> QED
  BY <1>1, <1>2, <1>3 DEF ReportInv, Reported, Interpreting, Constructed, Served

LEMMA StartReport ==
  ASSUME ReportInv, Start
  PROVE  ReportInv'
<1>1. /\ phase = "idle" /\ phase' = "preparse" /\ run' = run + 1
      /\ sends' = 0 /\ printed' = <<>> /\ err' = None /\ told' = None
      /\ UNCHANGED <<svc, prog, calls>>
  BY DEF Start
<1>2. /\ run \in Nat /\ calls \in Seq(ToSet(calls)) /\ \A i \in DOMAIN calls : calls[i].run \in 0..run
      /\ prog.mapper \in Error \union {None}
  BY <1>1 DEF ReportInv, Constructed
<1>3. printed' \in Seq(Nat) /\ DOMAIN (printed') = {}
  BY <1>1
<1>4. ~Served'
  <2> SUFFICES ASSUME calls # <<>> PROVE Last(calls).run # run + 1
    BY <1>1 DEF Served
  <2>1. Len(calls) \in DOMAIN calls
    BY <1>2
  <2>2. Last(calls).run \in 0..run
    BY <1>2, <2>1 DEF Last
  <2> QED
    BY <1>2, <2>2
<1>5. /\ run' \in Nat /\ run' # 0
      /\ (calls \in Seq(ToSet(calls)))' /\ (\A i \in DOMAIN calls : calls[i].run \in 0..run)'
  <2>1. ASSUME NEW i \in DOMAIN calls PROVE calls[i].run \in 0 .. run + 1
    BY <1>2, <2>1
  <2> QED
    BY <1>1, <1>2, <2>1
<1> QED
  BY <1>1, <1>2, <1>3, <1>4, <1>5 DEF ReportInv, Reported, Interpreting, Constructed

LEMMA InterpretReport ==
  ASSUME ReportInv, Interprets
  PROVE  ReportInv'
<1>1. /\ Interpreting /\ Constructed
      /\ UNCHANGED <<svc, prog, run, tree, sends, printed, returned, told>>
  BY DEF Interprets, Interpreting, Constructed
<1>2. run # 0 /\ ~Served /\ err = None /\ told = None /\ printed = <<>> /\ DOMAIN printed = {}
  <2>1. run # 0
    BY <1>1 DEF ReportInv, Interpreting
  <2>2. ~Served /\ err = None /\ told = None
    BY <1>1 DEF ReportInv
  <2>3. printed = <<>>
    BY <2>2 DEF ReportInv, Reported
  <2> QED
    BY <2>1, <2>2, <2>3
<1>3. CASE calls' = calls
  <2>1. ~Served'
    BY <1>1, <1>2, <1>3 DEF Served
  <2>2. /\ phase' \in {"preparse", "group", "dispatch", "leaf", "failed", "idle"}
        /\ phase' = "failed" => err' \in Error
        /\ phase' \notin {"failed", "idle"} => err' = None
        /\ phase' = "idle" => err' = None \/ err' = Plain
    <3>1. CASE Interpreting' /\ err' = err
      BY <1>2, <3>1 DEF Interpreting
    <3>2. CASE phase' = "failed" /\ err' \in Error
      BY <3>2
    <3>3. CASE phase' = "idle" /\ err' \in {err, Plain}
      BY <1>2, <3>3
    <3>4. CASE \E call : calls' = Append(calls, call)
      <4>1. Len(Append(calls, CHOOSE call : calls' = Append(calls, call))) # Len(calls)
        BY DEF ReportInv
      <4> QED
        BY <1>3, <3>4, <4>1
    <3> QED
      BY <3>1, <3>2, <3>3, <3>4 DEF Interprets
  <2> QED
    BY <1>1, <1>2, <1>3, <2>1, <2>2, ErrorsAre DEF ReportInv, Reported, Interpreting, Constructed
<1>4. CASE \E call : call.run = run /\ call.method = tree[node] /\ calls' = Append(calls, call)
           /\ phase' = "serving" /\ UNCHANGED <<err, node>>
  <2>1. PICK call : call.run = run /\ call.method = tree[node] /\ calls' = Append(calls, call)
    BY <1>4
  <2>2. /\ run \in Nat /\ calls \in Seq(ToSet(calls)) /\ \A i \in DOMAIN calls : calls[i].run \in 0..run
    BY DEF ReportInv
  <2>3. /\ calls' \in Seq(ToSet(calls')) /\ calls' # <<>> /\ Last(calls') = call
        /\ \A i \in DOMAIN (calls') : calls'[i] = call \/ (i \in DOMAIN calls /\ calls'[i] = calls[i])
    BY <2>1, <2>2, LastAppended
  <2>4. \A i \in DOMAIN (calls') : calls'[i].run \in 0..run
    BY <2>1, <2>2, <2>3
  <2>5. Served' /\ Last(calls').method = tree[node]
    BY <1>1, <2>1, <2>3 DEF Served
  <2> QED
    BY <1>1, <1>2, <1>4, <2>3, <2>4, <2>5 DEF ReportInv, Reported, Interpreting, Constructed
<1> QED
  BY <1>3, <1>4 DEF Interprets

LEMMA ReceiveReport ==
  ASSUME ReportInv, Receive
  PROVE  ReportInv'
<1>1. UNCHANGED <<svc, prog, run, tree, phase, output, node, calls, sends, printed, returned, err, told>>
  BY DEF Receive, program, globals, line, outcome
<1> QED
  BY <1>1 DEF ReportInv, Reported, Interpreting, Constructed, Served, Exit

LEMMA SendReport ==
  ASSUME ReportInv, Send
  PROVE  ReportInv'
<1>1. /\ phase = "serving" /\ sends' = sends + 1
      /\ printed' = printed \/ printed' = Append(printed, sends')
      /\ UNCHANGED <<svc, prog, run, tree, phase, output, node, calls, returned, err, told>>
  BY DEF Send, Serving, program, globals, line, outcome
<1>2. /\ sends \in Nat /\ printed \in Seq(Nat) /\ run # 0 /\ Served
      /\ \A i \in DOMAIN printed : printed[i] <= sends
      /\ \A i \in DOMAIN printed : i > 1 => printed[i - 1] < printed[i]
  BY <1>1 DEF ReportInv, Reported, Constructed
<1>3. sends' \in Nat /\ sends' > sends
  BY <1>1, <1>2
<1>4. /\ printed' \in Seq(Nat) /\ \A i \in DOMAIN (printed') : printed'[i] <= sends'
      /\ \A i \in DOMAIN (printed') : i > 1 => printed'[i - 1] < printed'[i]
  <2>1. CASE printed' = printed
    BY <1>2, <1>3, <2>1
  <2>2. CASE printed' = Append(printed, sends')
    <3> DEFINE q == printed
               r == printed'
               e == sends'
    <3>1. /\ q \in Seq(Nat) /\ e \in Nat /\ r = Append(q, e)
          /\ \A i \in DOMAIN q : q[i] < e
          /\ \A i \in DOMAIN q : i > 1 => q[i - 1] < q[i]
      BY <1>2, <1>3, <2>2
    <3> HIDE DEF q, r, e
    <3>2. /\ r \in Seq(Nat) /\ Len(r) = Len(q) + 1 /\ r[Len(q) + 1] = e
          /\ \A i \in 1 .. Len(q) : r[i] = q[i]
      BY <3>1, Appended
    <3>3. DOMAIN r = 1 .. Len(q) + 1 /\ DOMAIN q = 1 .. Len(q) /\ Len(q) \in Nat
          /\ \A i \in DOMAIN q : q[i] \in Nat
      BY <3>1, <3>2
    <3>4. \A i \in DOMAIN r : r[i] <= e
      BY <3>1, <3>2, <3>3
    <3>5. ASSUME NEW i \in DOMAIN r, i > 1 PROVE r[i - 1] < r[i]
      <4>1. i - 1 \in DOMAIN q /\ r[i - 1] = q[i - 1]
        BY <3>2, <3>3, <3>5
      <4>2. CASE i \in DOMAIN q
        BY <3>1, <3>2, <3>3, <3>5, <4>1, <4>2
      <4>3. CASE i = Len(q) + 1
        BY <3>1, <3>2, <4>1, <4>3
      <4> QED
        BY <3>3, <4>2, <4>3
    <3> QED
      BY <3>2, <3>4, <3>5 DEF q, r, e
  <2> QED
    BY <1>1, <2>1, <2>2
<1> QED
  BY <1>1, <1>2, <1>3, <1>4 DEF ReportInv, Reported, Interpreting, Constructed, Served

LEMMA ReturnReport ==
  ASSUME ReportInv, ReturnError \/ ReturnStream \/ ReturnResponse
  PROVE  ReportInv'
<1>1. /\ phase = "serving" /\ Constructed /\ Constructed'
      /\ UNCHANGED <<svc, prog, run, tree, output, node, calls, sends, told>>
  BY DEF ReturnError, ReturnStream, ReturnResponse, Serving, Constructed,
         program, globals, line, stream
<1>2. /\ run # 0 /\ Served /\ err = None /\ told = None
      /\ Last(calls).method = tree[node] /\ printed \in Seq(Nat)
      /\ \A i \in DOMAIN printed : i > 1 => printed[i - 1] < printed[i]
  BY <1>1 DEF ReportInv, Reported
<1>3. Served'
  BY <1>1, <1>2 DEF Served
<1>4. CASE ReturnError
  <2>1. /\ phase' = "failed" /\ printed' = printed
        /\ err' \in Error /\ returned'.how = "error" /\ returned'.error = err'
    BY <1>4, ErrorsAre DEF ReturnError, stream
  <2> QED
    BY <1>1, <1>2, <1>3, <2>1 DEF ReportInv, Reported, Interpreting
<1>5. CASE ReturnStream
  <2>1. /\ phase' = "idle" /\ printed' = printed
        /\ err' = None /\ returned'.how = "ok"
        /\ Method.shape \in {"server_stream", "bidi"}
    BY <1>2, <1>5 DEF ReturnStream, Serving, stream
  <2>2. svc'.methods[Last(calls').method].shape \notin {"unary", "client_stream"}
    BY <1>1, <1>2, <2>1 DEF Method
  <2> QED
    BY <1>1, <1>2, <1>3, <2>1, <2>2 DEF ReportInv, Reported, Interpreting, Exit
<1>6. CASE ReturnResponse
  <2>1. /\ returned'.how = "ok" /\ phase' = "idle" /\ err' = None /\ printed' = <<1>>
        \/ /\ returned'.how \in {"nil", "invalid"} /\ phase' = "failed" /\ printed' = <<>>
           /\ returned'.error = err' /\ err' \in Error
    BY <1>6, ErrorsAre DEF ReturnResponse
  <2>2. printed' \in Seq(Nat) /\ \A i \in DOMAIN (printed') : i > 1 => printed'[i - 1] < printed'[i]
    <3>1. ASSUME NEW p \in Seq(Nat), Len(p) <= 1
          PROVE  \A i \in DOMAIN p : ~(i > 1)
      BY <3>1
    <3>2. <<1>> \in Seq(Nat) /\ Len(<<1>>) <= 1
      OBVIOUS
    <3>3. <<>> \in Seq(Nat) /\ Len(<<>>) <= 1
      OBVIOUS
    <3>4. printed' \in Seq(Nat) /\ Len(printed') <= 1
      BY <2>1, <3>2, <3>3, Zenon
    <3> QED
      BY <3>1, <3>4
  <2> QED
    BY <1>1, <1>2, <1>3, <2>1, <2>2 DEF ReportInv, Reported, Interpreting, Exit
<1> QED
  BY <1>4, <1>5, <1>6

LEMMA ReportReport ==
  ASSUME ReportInv, Report
  PROVE  ReportInv'
<1>1. /\ phase = "failed" /\ Constructed /\ phase' = "idle" /\ err' = Mapped(err)
      /\ told' = IF err'.code # None /\ output = "json" THEN err' ELSE None
      /\ UNCHANGED <<svc, prog, run, tree, output, node, calls, sends, printed, returned>>
  BY DEF Report, Constructed, program, globals, line, stream
<1>2. /\ err \in Error /\ prog.mapper \in Error \union {None} /\ run # 0
      /\ Served => returned.how \in {"error", "nil", "invalid"} /\ returned.error = err
  BY <1>1 DEF ReportInv
<1>3. err' \in Error /\ err' # None
  BY <1>1, <1>2, ErrorsAre DEF Mapped
<1>4. Exit' # 0
  BY <1>3, ErrorsAre DEF Exit
<1>5. returned.error = err =>
        err' = IF returned.error.code # None \/ prog.mapper = None
               THEN returned.error ELSE prog.mapper
  BY <1>1 DEF Mapped
<1>6. Served' <=> Served
  BY <1>1 DEF Served
<1> QED
  BY <1>1, <1>2, <1>3, <1>4, <1>5, <1>6 DEF ReportInv, Reported, Interpreting, Constructed

LEMMA NextReport == ReportInv /\ TreeInv /\ [Next]_vars => ReportInv'
<1> SUFFICES ASSUME ReportInv, TreeInv, [Next]_vars PROVE ReportInv'
  OBVIOUS
<1>1. CASE UNCHANGED vars
  BY <1>1 DEF vars, program, globals, line, stream, outcome,
              ReportInv, Reported, Interpreting, Constructed, Served, Exit
<1>2. CASE Finished
  BY <1>1, <1>2 DEF Finished
<1>3. svc \in Services
  BY DEF TreeInv
<1> QED
  BY <1>1, <1>2, <1>3, GenerateReport, StartReport, InterpretsIs, InterpretReport,
     ReceiveReport, SendReport, ReturnReport, ReportReport DEF Next

(* Runner.Run, mapError: status 0 means that the command has done and      *)
(* printed what it was asked for; any other error is the handler's own or  *)
(* what the mapper makes of one without a status, and the one on stderr.   *)
THEOREM ErrorsReported == Spec => []Reported
<1>1. Init => TreeInv /\ ReportInv
  BY InitTree, InitReport
<1>2. (TreeInv /\ ReportInv) /\ [Next]_vars => (TreeInv /\ ReportInv)'
  BY NextTree, NextReport
<1>3. ReportInv => Reported
  BY DEF ReportInv
<1> QED
  BY <1>1, <1>2, <1>3, PTL DEF Spec

-----------------------------------------------------------------------------
(* Of which arguments a line's values are: those after a flag that is not  *)
(* itself one.                                                             *)
LEMMA ValuesAre ==
  ASSUME NEW L \in Nat, NEW F, F \subseteq 1 .. L
  PROVE  /\ ValuesOf(F, L) \subseteq 1 .. L
         /\ \A n \in 1 .. L :
              n \in ValuesOf(F, L) <=> n - 1 \in F /\ n - 1 \notin ValuesOf(F, L)
<1> DEFINE V == SUBSET (1 .. L)
           g == [p \in (1 .. L) \X V |->
                   IF p[1] - 1 \in F \ p[2] THEN p[2] \union {p[1]} ELSE p[2]]
           Among(v) == v = [n \in 0 .. L |->
                              IF n = 0 THEN {}
                              ELSE IF n - 1 \in F \ v[n - 1] THEN v[n - 1] \union {n}
                              ELSE v[n - 1]]
           a == CHOOSE v : Among(v)
<1>1. \E v : Among(v)
  <2>1. g \in [(1 .. L) \X V -> V] /\ {} \in V
    OBVIOUS
  <2>2. \A n \in 1 .. L : \A s \in V :
          g[<<n, s>>] = IF n - 1 \in F \ s THEN s \union {n} ELSE s
    OBVIOUS
  <2> HIDE DEF g
  <2>3. PICK v \in [0 .. L -> V] : v[0] = {} /\ \A n \in 1 .. L : v[n] = g[<<n, v[n - 1]>>]
    <3> DEFINE b == {}
    <3>1. StepsUp(V, L, b, g)
      BY <2>1 DEF StepsUp
    <3> HIDE DEF V, b
    <3>2. PICK v : Trace(v, v[L], V, L, b, g)
      BY <3>1, StepsExist
    <3> QED
      BY <3>2 DEF b, Trace
  <2>4. \A n \in 1 .. L : v[n] = IF n - 1 \in F \ v[n - 1] THEN v[n - 1] \union {n} ELSE v[n - 1]
    <3>1. \A n \in 1 .. L : v[n - 1] \in V
      BY <2>3
    <3> HIDE DEF V
    <3> QED
      BY <2>2, <2>3, <3>1
  <2>5. v = [n \in 0 .. L |-> v[n]] /\ \A n \in 0 .. L : n = 0 \/ n \in 1 .. L
    BY <2>3
  <2>6. Among(v)
    BY <2>3, <2>4, <2>5
  <2> QED
    BY <2>6
<1>2. Among(a)
  <2> HIDE DEF Among
  <2> QED
    BY <1>1
<1>3. ValuesOf(F, L) = a[L]
  BY Zenon DEF ValuesOf
<1> HIDE DEF a
<1>4. /\ a[0] = {}
      /\ \A n \in 1 .. L : a[n] = IF n - 1 \in F \ a[n - 1] THEN a[n - 1] \union {n} ELSE a[n - 1]
  <2>1. 0 \in 0 .. L /\ \A n \in 1 .. L : n \in 0 .. L /\ n # 0
    OBVIOUS
  <2> QED
    BY <1>2, <2>1
<1> HIDE DEF Among
<1> DEFINE P == {n \in 0 .. L : /\ a[n] \subseteq 1 .. n
                              /\ \A m \in 1 .. n : m \in a[n] <=> m - 1 \in F /\ m - 1 \notin a[n]}
<1>5. 0 \in P
  BY <1>4
<1>6. ASSUME NEW n \in 1 .. L, n - 1 \in P PROVE n \in P
  <2> DEFINE s == a[n - 1]
             t == a[n]
  <2>1. /\ s \subseteq 1 .. n - 1
        /\ \A m \in 1 .. n - 1 : m \in s <=> m - 1 \in F /\ m - 1 \notin s
    BY <1>6
  <2>2. t = IF n - 1 \in F \ s THEN s \union {n} ELSE s
    BY <1>4
  <2> HIDE DEF s, t
  <2>3. t \subseteq 1 .. n
    BY <2>1, <2>2
  <2>4. n \notin s /\ \A m \in 0 .. n - 1 : m \in t <=> m \in s
    BY <2>1, <2>2
  <2>5. n \in t <=> n - 1 \in F /\ n - 1 \notin s
    BY <2>2, <2>4
  <2>6. ASSUME NEW m \in 1 .. n PROVE m \in t <=> m - 1 \in F /\ m - 1 \notin t
    <3>1. m - 1 \in 0 .. n - 1 /\ (m \in 0 .. n - 1 \/ m = n)
      OBVIOUS
    <3> QED
      BY <2>1, <2>4, <2>5, <3>1
  <2> QED
    BY <2>3, <2>6 DEF t
<1>7. \A n \in 0 .. L : n \in P
  <2> HIDE DEF P
  <2> QED
    BY <1>5, <1>6, Climb
<1>8. L \in P
  BY <1>7
<1> QED
  BY <1>3, <1>8

(* What is kept of a line grows by the arguments at S.                     *)
LEMMA KeptIs ==
  ASSUME NEW A, NEW l \in Seq(A), NEW S
  PROVE  /\ KeptAt(l, S)[0] = <<>>
         /\ \A n \in 1 .. Len(l) :
              KeptAt(l, S)[n] = IF n \in S THEN Append(KeptAt(l, S)[n - 1], l[n])
                                ELSE KeptAt(l, S)[n - 1]
         /\ \A n \in 0 .. Len(l) : KeptAt(l, S)[n] \in Seq(A)
<1> DEFINE L == Len(l)
           V == Seq(A)
           g == [p \in (1 .. L) \X V |-> IF p[1] \in S THEN Append(p[2], l[p[1]]) ELSE p[2]]
           Kept(v) == v = [n \in 0 .. L |->
                             IF n = 0 THEN <<>>
                             ELSE IF n \in S THEN Append(v[n - 1], l[n]) ELSE v[n - 1]]
           a == CHOOSE v : Kept(v)
<1>1. L \in Nat /\ \A n \in 1 .. L : l[n] \in A
  OBVIOUS
<1>2. PICK v \in [0 .. L -> V] : v[0] = <<>> /\ Kept(v)
  <2>1. g \in [(1 .. L) \X V -> V] /\ <<>> \in V
    BY <1>1
  <2>2. \A n \in 1 .. L : \A s \in V : g[<<n, s>>] = IF n \in S THEN Append(s, l[n]) ELSE s
    OBVIOUS
  <2> HIDE DEF g, L
  <2>3. PICK v \in [0 .. L -> V] : v[0] = <<>> /\ \A n \in 1 .. L : v[n] = g[<<n, v[n - 1]>>]
    <3> DEFINE b == <<>>
    <3>1. StepsUp(V, L, b, g)
      BY <1>1, <2>1 DEF StepsUp
    <3> HIDE DEF V, b
    <3>2. PICK v : Trace(v, v[L], V, L, b, g)
      BY <3>1, StepsExist
    <3> QED
      BY <3>2 DEF b, Trace
  <2>4. \A n \in 1 .. L : v[n] = IF n \in S THEN Append(v[n - 1], l[n]) ELSE v[n - 1]
    <3>1. \A n \in 1 .. L : v[n - 1] \in V
      BY <1>1, <2>3
    <3> HIDE DEF V
    <3> QED
      BY <2>2, <2>3, <3>1
  <2>5. v = [n \in 0 .. L |-> v[n]]
    BY <2>3
  <2>6. \A n \in 0 .. L : n = 0 \/ n \in 1 .. L
    BY <1>1
  <2>7. Kept(v)
    BY <2>3, <2>4, <2>5, <2>6
  <2> QED
    BY <2>3, <2>7
<1>3. Kept(a)
  <2> HIDE DEF Kept
  <2> QED
    BY <1>2
<1>4. KeptAt(l, S) = a
  BY Zenon DEF KeptAt
<1> HIDE DEF a
<1>5. /\ a[0] = <<>>
      /\ \A n \in 1 .. L : a[n] = IF n \in S THEN Append(a[n - 1], l[n]) ELSE a[n - 1]
  <2>1. 0 \in 0 .. L /\ \A n \in 1 .. L : n \in 0 .. L /\ n # 0
    BY <1>1
  <2> HIDE DEF L
  <2> QED
    BY <1>3, <2>1
<1> HIDE DEF Kept
<1> DEFINE P == {n \in 0 .. L : a[n] \in V}
<1>6. 0 \in P
  <2>1. 0 \in 0 .. L /\ <<>> \in V
    BY <1>1
  <2> QED
    BY <1>5, <2>1
<1>7. ASSUME NEW n \in 1 .. L, n - 1 \in P PROVE n \in P
  <2>1. n \in 0 .. L /\ l[n] \in A /\ a[n - 1] \in V
    BY <1>1, <1>7
  <2>2. Append(a[n - 1], l[n]) \in V
    BY <2>1
  <2> QED
    BY <1>5, <2>1, <2>2
<1>8. \A n \in 0 .. L : n \in P
  <2> HIDE DEF P
  <2> QED
    BY <1>1, <1>6, <1>7, Climb
<1> QED
  BY <1>4, <1>5, <1>8

LEMMA KeptGrows ==
  ASSUME NEW A, NEW l \in Seq(A), NEW S, NEW m \in 0 .. Len(l), NEW n \in m .. Len(l)
  PROVE  /\ Len(KeptAt(l, S)[m]) <= Len(KeptAt(l, S)[n])
         /\ \A i \in 1 .. Len(KeptAt(l, S)[m]) : KeptAt(l, S)[n][i] = KeptAt(l, S)[m][i]
<1> DEFINE L == Len(l)
           K == KeptAt(l, S)
           P == {j \in 0 .. L : j >= m => /\ Len(K[m]) <= Len(K[j])
                                         /\ \A i \in 1 .. Len(K[m]) : K[j][i] = K[m][i]}
<1>1. L \in Nat /\ \A j \in 1 .. L : l[j] \in A
  OBVIOUS
<1>2. /\ \A j \in 1 .. L : K[j] = IF j \in S THEN Append(K[j - 1], l[j]) ELSE K[j - 1]
      /\ \A j \in 0 .. L : K[j] \in Seq(A)
  BY KeptIs
<1> HIDE DEF K, L
<1>3. 0 \in P
  BY <1>1, <1>2 DEF L
<1>4. ASSUME NEW j \in 1 .. L, j - 1 \in P PROVE j \in P
  <2>1. CASE j <= m
    <3>1. j >= m => j = m
      BY <1>1, <2>1 DEF L
    <3>2. K[m] \in Seq(A)
      BY <1>2 DEF L
    <3> QED
      BY <1>1, <3>1, <3>2
  <2>2. CASE j > m
    <3> DEFINE p == K[m]
               q == K[j - 1]
    <3>1. /\ j - 1 \in 0 .. L /\ q \in Seq(A) /\ p \in Seq(A) /\ l[j] \in A
          /\ K[j] = IF j \in S THEN Append(q, l[j]) ELSE q
      BY <1>1, <1>2 DEF L
    <3>2. j - 1 >= m
      BY <1>1, <2>2 DEF L
    <3>3. Len(p) <= Len(q) /\ \A i \in 1 .. Len(p) : q[i] = p[i]
      BY <1>4, <3>2
    <3> HIDE DEF p, q
    <3>4. Len(p) <= Len(K[j]) /\ \A i \in 1 .. Len(p) : K[j][i] = p[i]
      <4>1. CASE j \in S
        <5>1. /\ K[j] \in Seq(A) /\ Len(K[j]) = Len(q) + 1
              /\ \A i \in 1 .. Len(q) : K[j][i] = q[i]
          BY <3>1, <4>1, Appended
        <5>2. Len(p) \in Nat /\ Len(q) \in Nat
          BY <3>1
        <5> QED
          BY <3>3, <5>1, <5>2
      <4>2. CASE j \notin S
        BY <3>1, <3>3, <4>2
      <4> QED
        BY <4>1, <4>2
    <3> QED
      BY <1>1, <3>4 DEF p
  <2>3. j <= m \/ j > m
    BY <1>1 DEF L
  <2> HIDE DEF P
  <2> QED
    BY <2>1, <2>2, <2>3
<1>5. \A j \in 0 .. L : j \in P
  <2> HIDE DEF P
  <2> QED
    BY <1>1, <1>3, <1>4, Climb
<1>6. n \in P /\ n >= m
  BY <1>1, <1>5 DEF L
<1> QED
  BY <1>6 DEF K

(* A line is made of the arguments the program may give.                   *)
Arguments(A) ==
  \A arg \in A : arg.form \in {"word", "flag", "inline", "dashes"} /\ (arg.name = "help" => arg.form = "flag")

LEMMA LocalIs ==
  ASSUME NEW A, NEW l \in Seq(A)
  PROVE  Local(l) \in Seq(A) /\ Len(Local(l)) \in Nat
<1>1. Len(l) \in 0 .. Len(l)
  OBVIOUS
<1>2. Local(l) \in Seq(A)
  BY <1>1, KeptIs DEF Local, LocalTo
<1> QED
  BY <1>2

(* The flags of the group that have a value of their own.                  *)
HaveValue(s, l) == {n \in DOMAIN l : l[n].form = "flag" /\ ~IsHelp(l[n]) /\ ~SwitchName(s, l[n].name)}

LEMMA TakenIs ==
  ASSUME NEW s, NEW A, NEW l \in Seq(A)
  PROVE  /\ Taken(s, l) \subseteq 1 .. Len(l)
         /\ \A n \in 1 .. Len(l) : n \in Taken(s, l) <=> n - 1 \in HaveValue(s, l) /\ n - 1 \notin Taken(s, l)
<1>1. Len(l) \in Nat /\ HaveValue(s, l) \subseteq 1 .. Len(l)
  BY DEF HaveValue
<1>2. Taken(s, l) = ValuesOf(HaveValue(s, l), Len(l))
  BY DEF Taken, HaveValue
<1> QED
  BY <1>1, <1>2, ValuesAre

(* The texts of some arguments of a line grow with them.                   *)
ValuesIn(A) == {arg.value : arg \in A}

TextsGrow(A, l, S) ==
  /\ TextsTo(l, S, 0) = <<>>
  /\ \A n \in 1 .. Len(l) :
       IF n \in S THEN TextsTo(l, S, n) = Append(TextsTo(l, S, n - 1), l[n].value)
       ELSE TextsTo(l, S, n) = TextsTo(l, S, n - 1)
  /\ \A n \in 0 .. Len(l) : TextsTo(l, S, n) \in Seq(ValuesIn(A))
  /\ \A n \in 0 .. Len(l) : \A m \in 0 .. n : IsPrefix(TextsTo(l, S, m), TextsTo(l, S, n))

LEMMA TextsAre ==
  ASSUME NEW A, NEW l \in Seq(A), NEW S
  PROVE  TextsGrow(A, l, S)
<1> DEFINE K == KeptAt(l, S)
           V == {arg.value : arg \in A}
           C(n) == TextsTo(l, S, n)
<1>1. /\ K[0] = <<>>
      /\ \A n \in 1 .. Len(l) : K[n] = IF n \in S THEN Append(K[n - 1], l[n]) ELSE K[n - 1]
      /\ \A n \in 0 .. Len(l) : K[n] \in Seq(A)
  BY KeptIs
<1>2. \A n \in 0 .. Len(l) :
        /\ C(n) = [i \in 1 .. Len(K[n]) |-> K[n][i].value]
        /\ C(n) \in [1 .. Len(K[n]) -> V] /\ Len(K[n]) \in Nat
  <2> SUFFICES ASSUME NEW n \in 0 .. Len(l)
               PROVE  /\ C(n) = [i \in 1 .. Len(K[n]) |-> K[n][i].value]
                      /\ C(n) \in [1 .. Len(K[n]) -> V] /\ Len(K[n]) \in Nat
    OBVIOUS
  <2>1. K[n] \in Seq(A)
    BY <1>1
  <2>2. DOMAIN K[n] = 1 .. Len(K[n]) /\ Len(K[n]) \in Nat /\ \A i \in 1 .. Len(K[n]) : K[n][i] \in A
    <3> HIDE DEF K
    <3> QED
      BY <2>1
  <2>3. C(n) = [i \in DOMAIN K[n] |-> K[n][i].value]
    BY DEF TextsTo
  <2> HIDE DEF C, K
  <2> QED
    BY <2>2, <2>3
<1>3. \A n \in 0 .. Len(l) : C(n) \in Seq(V) /\ Len(C(n)) = Len(K[n])
  <2> HIDE DEF C, K, V
  <2> QED
    BY <1>2, Listed
<1>4. C(0) = <<>>
  <2>1. Len(C(0)) = 0 /\ C(0) \in Seq(V)
    <3>1. 0 \in 0 .. Len(l) /\ Len(<<>>) = 0
      OBVIOUS
    <3> HIDE DEF C, K, V
    <3> QED
      BY <1>1, <1>3, <3>1
  <2> HIDE DEF C, V
  <2> QED
    BY <2>1
<1>5. ASSUME NEW n \in 1 .. Len(l)
      PROVE  IF n \in S THEN C(n) = Append(C(n - 1), l[n].value) ELSE C(n) = C(n - 1)
  <2>1. n - 1 \in 0 .. Len(l) /\ n \in 0 .. Len(l) /\ l[n] \in A
    OBVIOUS
  <2>2. CASE n \in S
    <3> DEFINE p == K[n - 1]
               q == K[n]
               c == C(n - 1)
               v == l[n].value
    <3>1. p \in Seq(A) /\ q = Append(p, l[n])
      BY <1>1, <2>1, <2>2
    <3>2. Len(q) = Len(p) + 1 /\ q[Len(p) + 1] = l[n] /\ \A i \in 1 .. Len(p) : q[i] = p[i]
      <4> HIDE DEF p, q
      <4> QED
        BY <2>1, <3>1, Appended
    <3>3. c \in Seq(V) /\ Len(c) = Len(p) /\ v \in V /\ c = [i \in 1 .. Len(p) |-> p[i].value]
      <4>1. v \in V
        BY <2>1
      <4> HIDE DEF C, K, V
      <4> QED
        BY <1>2, <1>3, <2>1, <4>1
    <3>4. C(n) = [i \in 1 .. Len(q) |-> q[i].value] /\ C(n) \in Seq(V) /\ Len(C(n)) = Len(q)
      <4> HIDE DEF C, K, V
      <4> QED
        BY <1>2, <1>3, <2>1
    <3> DEFINE r == Append(c, v)
    <3>5. /\ r \in Seq(V) /\ Len(r) = Len(c) + 1 /\ r[Len(c) + 1] = v
          /\ \A i \in 1 .. Len(c) : r[i] = c[i]
      <4> HIDE DEF c, v, V
      <4> QED
        BY <3>3, Appended
    <3>6. Len(p) \in Nat
      BY <3>1
    <3>7. \A i \in 1 .. Len(q) : C(n)[i] = r[i]
      <4> HIDE DEF p, q, c, C, r
      <4>1. ASSUME NEW i \in 1 .. Len(q) PROVE C(n)[i] = r[i]
        <5>1. C(n)[i] = q[i].value /\ (i = Len(p) + 1 \/ i \in 1 .. Len(p))
          BY <3>2, <3>4, <3>6
        <5>2. CASE i = Len(p) + 1
          BY <3>2, <3>3, <3>5, <5>1, <5>2
        <5>3. CASE i \in 1 .. Len(p)
          BY <3>2, <3>3, <3>5, <5>1, <5>3
        <5> QED
          BY <5>1, <5>2, <5>3
      <4> QED
        BY <4>1
    <3>8. C(n) = Append(c, v)
      <4>1. Len(r) = Len(q)
        <5> HIDE DEF p, q, c, r, C
        <5> QED
          BY <3>2, <3>3, <3>5
      <4>2. C(n) = r
        <5> HIDE DEF p, q, c, v, r, C, V
        <5> QED
          BY <3>4, <3>5, <3>7, <4>1, SameElements
      <4> QED
        BY <4>2
    <3> QED
      BY <2>2, <3>8
  <2>3. CASE n \notin S
    <3>1. K[n] = K[n - 1]
      BY <1>1, <2>3
    <3> HIDE DEF C, K, V
    <3> QED
      BY <1>2, <2>1, <2>3, <3>1
  <2> QED
    BY <2>2, <2>3
<1>6. ASSUME NEW m \in 0 .. Len(l), NEW n \in 0 .. m PROVE IsPrefix(C(n), C(m))
  <2> DEFINE p == C(n)
             q == C(m)
  <2>1. n \in 0 .. Len(l) /\ m \in 0 .. Len(l) /\ m \in n .. Len(l)
    OBVIOUS
  <2>2. /\ Len(K[n]) <= Len(K[m]) /\ \A i \in 1 .. Len(K[n]) : K[m][i] = K[n][i]
    BY <2>1, KeptGrows, SMTT(30)
  <2>3. p \in Seq(V) /\ q \in Seq(V) /\ Len(p) = Len(K[n]) /\ Len(q) = Len(K[m])
    <3> HIDE DEF C, K, V
    <3> QED
      BY <1>3, <2>1
  <2>4. \A i \in 1 .. Len(K[n]) : p[i] = q[i]
    <3>1. Len(K[n]) \in Nat /\ Len(K[m]) \in Nat
      <4> HIDE DEF C, K, V
      <4> QED
        BY <1>2, <2>1
    <3>2. \A i \in 1 .. Len(K[n]) : p[i] = K[n][i].value /\ q[i] = K[m][i].value
      <4> HIDE DEF C, K, V
      <4> QED
        BY <1>2, <2>1, <2>2, <3>1
    <3> HIDE DEF C, K, V
    <3> QED
      BY <2>2, <3>2
  <2> HIDE DEF p, q, V, C, K
  <2>5. IsPrefix(p, q)
    BY <2>2, <2>3, <2>4, PrefixIs
  <2> QED
    BY <2>5 DEF p, q, C
<1>7. V = ValuesIn(A)
  BY DEF ValuesIn
<1> HIDE DEF C, K, V
<1>8. C(0) = <<>> /\ \A n \in 0 .. Len(l) : C(n) \in Seq(ValuesIn(A))
  BY <1>3, <1>4, <1>7
<1> QED
  BY <1>5, <1>6, <1>8 DEF C, TextsGrow

LEMMA CommandsAre ==
  ASSUME NEW s, NEW A, NEW l \in Seq(A)
  PROVE  /\ CommandsTo(s, l, 0) = <<>>
         /\ \A n \in 1 .. Len(l) :
              IF l[n].form = "word" /\ n \notin Taken(s, l)
              THEN CommandsTo(s, l, n) = Append(CommandsTo(s, l, n - 1), l[n].value)
              ELSE CommandsTo(s, l, n) = CommandsTo(s, l, n - 1)
         /\ \A n \in 0 .. Len(l) :
              /\ CommandsTo(s, l, n) \in Seq(ValuesIn(A))
              /\ IsPrefix(CommandsTo(s, l, n), CommandsTo(s, l, Len(l)))
              /\ \A m \in 0 .. n : IsPrefix(CommandsTo(s, l, m), CommandsTo(s, l, n))
<1> DEFINE S == {n \in DOMAIN l : l[n].form = "word"} \ Taken(s, l)
           C(n) == CommandsTo(s, l, n)
<1>1. \A n \in 1 .. Len(l) : n \in S <=> l[n].form = "word" /\ n \notin Taken(s, l)
  OBVIOUS
<1>2. \A n : C(n) = TextsTo(l, S, n)
  BY DEF CommandsTo
<1>3. Len(l) \in Nat /\ \A n \in 0 .. Len(l) : n \in 0 .. Len(l) /\ Len(l) \in 0 .. Len(l)
  OBVIOUS
<1>4. TextsGrow(A, l, S)
  BY TextsAre
<1> HIDE DEF S
<1> QED
  BY <1>1, <1>2, <1>3, <1>4 DEF TextsGrow

-----------------------------------------------------------------------------
(* The end of a sequence, from its d-th element on.                        *)
Ends(r, q, d) == r = SubSeq(q, d, Len(q))

LEMMA EndElements ==
  ASSUME NEW A, NEW q \in Seq(A), NEW d \in 1 .. Len(q) + 1, NEW r, Ends(r, q, d)
  PROVE  /\ r \in Seq(A) /\ Len(r) = Len(q) + 1 - d
         /\ \A i \in 1 .. Len(r) : r[i] = q[d + i - 1]
<1>1. Len(q) \in Nat /\ d \in Nat /\ d >= 1 /\ d <= Len(q) + 1
  OBVIOUS
<1>2. r \in Seq(A) /\ Len(r) = Len(q) + 1 - d
  BY <1>1 DEF Ends
<1>3. \A i \in 1 .. Len(r) : r[i] = q[d + i - 1]
  BY <1>1 DEF Ends
<1> QED
  BY <1>2, <1>3

LEMMA EndIs ==
  ASSUME NEW A, NEW q \in Seq(A), NEW d \in 1 .. Len(q) + 1, NEW r, Ends(r, q, d)
  PROVE  /\ Len(r) = Len(q) + 1 - d /\ (r # <<>> <=> d <= Len(q))
         /\ \A i \in 1 .. Len(r) : d + i - 1 \in 1 .. Len(q) /\ r[i] = q[d + i - 1]
         /\ \A e \in 2 .. Len(r) + 1, f \in 1 .. Len(q) + 1 :
              f = d + e - 1 => Ends(SubSeq(r, e, Len(r)), q, f)
         /\ r # <<>> => Tail(r) = SubSeq(r, 2, Len(r))
<1>1. Len(q) \in Nat /\ d \in Nat /\ d >= 1 /\ d <= Len(q) + 1
  OBVIOUS
<1>2. /\ r \in Seq(A) /\ Len(r) = Len(q) + 1 - d
      /\ \A i \in 1 .. Len(r) : r[i] = q[d + i - 1]
  BY EndElements
<1>3. \A i \in 1 .. Len(r) : d + i - 1 \in 1 .. Len(q)
  BY <1>1, <1>2
<1>4. r # <<>> <=> Len(r) > 0
  BY <1>2
<1>5. ASSUME NEW e \in 2 .. Len(r) + 1, NEW f \in 1 .. Len(q) + 1, f = d + e - 1
      PROVE  Ends(SubSeq(r, e, Len(r)), q, f)
  <2> DEFINE a == SubSeq(r, e, Len(r))
             b == SubSeq(q, f, Len(q))
  <2>1. r \in Seq(A) /\ Len(r) \in Nat /\ e \in 1 .. Len(r) + 1
    BY <1>2
  <2>2. Ends(a, r, e) /\ Ends(b, q, f)
    BY DEF Ends
  <2> HIDE DEF a, b
  <2>3. a \in Seq(A) /\ Len(a) = Len(r) + 1 - e /\ \A i \in 1 .. Len(a) : a[i] = r[e + i - 1]
    BY <2>1, <2>2, EndElements
  <2>4. b \in Seq(A) /\ Len(b) = Len(q) + 1 - f /\ \A i \in 1 .. Len(b) : b[i] = q[f + i - 1]
    BY <2>2, EndElements
  <2>5. Len(a) = Len(b)
    BY <1>1, <1>2, <1>5, <2>1, <2>3, <2>4
  <2>6. ASSUME NEW i \in 1 .. Len(b) PROVE a[i] = b[i]
    <3>1. e + i - 1 \in 1 .. Len(r) /\ d + (e + i - 1) - 1 = f + i - 1
      BY <1>1, <1>2, <1>5, <2>1, <2>3, <2>5
    <3>2. r[e + i - 1] = q[d + (e + i - 1) - 1]
      BY <1>2, <3>1
    <3> QED
      BY <2>3, <2>4, <2>5, <3>1, <3>2
  <2>7. a = b
    BY <2>3, <2>4, <2>5, <2>6, SameElements
  <2> QED
    BY <2>7 DEF a, b, Ends
<1>6. r # <<>> => Tail(r) = SubSeq(r, 2, Len(r))
  <2>1. r \in Seq(A)
    BY <1>2
  <2> QED
    BY <2>1
<1> QED
  BY <1>1, <1>2, <1>3, <1>4, <1>5, <1>6

(* Where a line has been interpreted up to its d-th argument, and that is  *)
(* no value: r is the rest, n the node.                                    *)
Reached(s, l, d, r, n) ==
  /\ d \in 1 .. Len(l) + 1 /\ d \notin Taken(s, l)
  /\ Ends(r, l, d) /\ n = CommandsTo(s, l, d - 1)

LEMMA TraversingIs ==
  /\ Traversing <=> \E d : Reached(svc, Local(args), d, rest, node)
  /\ Traversing' <=> \E d : Reached(svc', Local(args'), d, rest', node')
BY DEF Traversing, Reached, Ends

(* An argument that is no word, and has no value of its own, ...           *)
LEMMA OverNoWord ==
  ASSUME NEW s, NEW A, NEW l \in Seq(A), NEW d, NEW r, NEW n, Reached(s, l, d, r, n),
         r # <<>>, r[1].form # "word", d \notin HaveValue(s, l)
  PROVE  Reached(s, l, d + 1, SubSeq(r, 2, Len(r)), n) /\ Tail(r) = SubSeq(r, 2, Len(r))
<1>1. /\ d \in 1 .. Len(l) + 1 /\ d \notin Taken(s, l)
      /\ Ends(r, l, d) /\ n = CommandsTo(s, l, d - 1)
  BY DEF Reached
<1>2. /\ Len(r) = Len(l) + 1 - d /\ d <= Len(l)
      /\ \A i \in 1 .. Len(r) : d + i - 1 \in 1 .. Len(l) /\ r[i] = l[d + i - 1]
      /\ \A e \in 2 .. Len(r) + 1, f \in 1 .. Len(l) + 1 :
           f = d + e - 1 => Ends(SubSeq(r, e, Len(r)), l, f)
      /\ Tail(r) = SubSeq(r, 2, Len(r))
  BY <1>1, EndIs
<1>3. /\ d \in 1 .. Len(l) /\ 1 \in 1 .. Len(r) /\ 2 \in 2 .. Len(r) + 1 /\ Len(l) \in Nat
      /\ d + 1 \in 1 .. Len(l) + 1 /\ d + 1 = d + 2 - 1 /\ d + 1 - 1 = d
  BY <1>1, <1>2
<1>4. r[1] = l[d] /\ Ends(SubSeq(r, 2, Len(r)), l, d + 1)
  BY <1>2, <1>3
<1>5. d + 1 \notin Taken(s, l)
  <2>1. /\ Taken(s, l) \subseteq 1 .. Len(l)
        /\ \A e \in 1 .. Len(l) : e \in Taken(s, l) => e - 1 \in HaveValue(s, l)
    BY TakenIs
  <2> QED
    BY <1>3, <2>1
<1>6. CommandsTo(s, l, d) = CommandsTo(s, l, d - 1)
  BY <1>3, <1>4, CommandsAre
<1> QED
  BY <1>1, <1>2, <1>3, <1>4, <1>5, <1>6 DEF Reached

(* ... or one that has, and its value, ...                                 *)
LEMMA OverValue ==
  ASSUME NEW s, NEW A, NEW l \in Seq(A), NEW d, NEW r, NEW n, Reached(s, l, d, r, n),
         Len(r) > 1, r[1].form # "word", d \in HaveValue(s, l)
  PROVE  Reached(s, l, d + 2, SubSeq(r, 3, Len(r)), n)
<1>1. /\ d \in 1 .. Len(l) + 1 /\ d \notin Taken(s, l)
      /\ Ends(r, l, d) /\ n = CommandsTo(s, l, d - 1)
  BY DEF Reached
<1>2. /\ Len(r) = Len(l) + 1 - d
      /\ \A i \in 1 .. Len(r) : d + i - 1 \in 1 .. Len(l) /\ r[i] = l[d + i - 1]
      /\ \A e \in 2 .. Len(r) + 1, f \in 1 .. Len(l) + 1 :
           f = d + e - 1 => Ends(SubSeq(r, e, Len(r)), l, f)
  BY <1>1, EndIs
<1>3. /\ d \in 1 .. Len(l) /\ d + 1 \in 1 .. Len(l) /\ 1 \in 1 .. Len(r) /\ 3 \in 2 .. Len(r) + 1
      /\ d + 2 \in 1 .. Len(l) + 1 /\ d + 2 = d + 3 - 1
      /\ Len(l) \in Nat /\ d + 1 - 1 = d /\ d + 2 - 1 = d + 1
  BY <1>1, <1>2
<1>4. r[1] = l[d] /\ Ends(SubSeq(r, 3, Len(r)), l, d + 2)
  BY <1>2, <1>3
<1>5. d + 1 \in Taken(s, l)
  BY <1>1, <1>3, TakenIs
<1>6. d + 2 \notin Taken(s, l)
  <2>1. /\ Taken(s, l) \subseteq 1 .. Len(l)
        /\ \A e, f \in 1 .. Len(l) : e = f + 1 /\ e \in Taken(s, l) => f \notin Taken(s, l)
    BY TakenIs
  <2> DEFINE g == d + 1
             h == d + 2
  <2>2. g \in 1 .. Len(l) /\ h = g + 1 /\ g \in Taken(s, l)
    BY <1>3, <1>5
  <2> HIDE DEF g, h
  <2>3. h \notin Taken(s, l)
    BY <2>1, <2>2
  <2> QED
    BY <2>3 DEF h
<1>7. CommandsTo(s, l, d) = CommandsTo(s, l, d - 1)
  BY <1>3, <1>4, CommandsAre
<1>8. CommandsTo(s, l, d + 1) = CommandsTo(s, l, d)
  BY <1>3, <1>5, CommandsAre
<1> QED
  BY <1>1, <1>3, <1>4, <1>6, <1>7, <1>8 DEF Reached

(* ... leaves the node; a word is the next command.                        *)
LEMMA OverWord ==
  ASSUME NEW s, NEW A, NEW l \in Seq(A), NEW d, NEW r, NEW n, Reached(s, l, d, r, n),
         r # <<>>, r[1].form = "word"
  PROVE  /\ Reached(s, l, d + 1, Tail(r), Append(n, r[1].value))
         /\ IsPrefix(Append(n, r[1].value), CommandsTo(s, l, Len(l)))
<1>1. /\ d \in 1 .. Len(l) + 1 /\ d \notin Taken(s, l)
      /\ Ends(r, l, d) /\ n = CommandsTo(s, l, d - 1)
  BY DEF Reached
<1>2. /\ Len(r) = Len(l) + 1 - d /\ d <= Len(l)
      /\ \A i \in 1 .. Len(r) : d + i - 1 \in 1 .. Len(l) /\ r[i] = l[d + i - 1]
      /\ \A e \in 2 .. Len(r) + 1, f \in 1 .. Len(l) + 1 :
           f = d + e - 1 => Ends(SubSeq(r, e, Len(r)), l, f)
      /\ Tail(r) = SubSeq(r, 2, Len(r))
  BY <1>1, EndIs
<1>3. /\ d \in 1 .. Len(l) /\ 1 \in 1 .. Len(r) /\ 2 \in 2 .. Len(r) + 1 /\ Len(l) \in Nat
      /\ d + 1 = d + 2 - 1 /\ d + 1 - 1 = d /\ d + 1 \in 1 .. Len(l) + 1 /\ d \in 0 .. Len(l)
  BY <1>1, <1>2
<1>4. r[1] = l[d] /\ Ends(Tail(r), l, d + 1)
  BY <1>2, <1>3
<1>5. d \notin HaveValue(s, l)
  BY <1>4 DEF HaveValue
<1>6. d + 1 \notin Taken(s, l)
  <2>1. /\ Taken(s, l) \subseteq 1 .. Len(l)
        /\ \A e \in 1 .. Len(l) : e \in Taken(s, l) => e - 1 \in HaveValue(s, l)
    BY TakenIs
  <2> QED
    BY <1>3, <1>5, <2>1
<1>7. CommandsTo(s, l, d) = Append(n, r[1].value)
  BY <1>1, <1>3, <1>4, CommandsAre
<1>8. IsPrefix(CommandsTo(s, l, d), CommandsTo(s, l, Len(l)))
  BY <1>3, CommandsAre
<1> QED
  BY <1>1, <1>3, <1>4, <1>6, <1>7, <1>8 DEF Reached

-----------------------------------------------------------------------------
(* LineInv is inductive.                                                   *)
LEMMA ArgsAre ==
  ASSUME TreeInv, LineInv, Interpreting
  PROVE  /\ args \in Seq(ToSet(args)) /\ Arguments(ToSet(args)) /\ Len(args) \in Nat
         /\ Local(args) \in Seq(ToSet(args)) /\ Len(Local(args)) \in Nat
<1>1. svc \in Services /\ prog \in Programs(svc) /\ run \in DOMAIN prog.lines
  BY DEF TreeInv, LineInv, Interpreting, Constructed
<1>2. args \in ToSet(prog.lines)
  BY <1>1 DEF args, ToSet
<1>3. args \in Seq(ToSet(args)) /\ Arguments(ToSet(args))
  BY <1>1, <1>2, RunnerAssumption DEF Arguments
<1>4. Len(args) \in Nat
  BY <1>3
<1> QED
  BY <1>3, <1>4, LocalIs

LEMMA LineKept ==
  ASSUME LineInv, Constructed, UNCHANGED <<svc, prog, run, tree, calls>>,
         Interpreting' => Interpreting,
         phase' = "preparse" => PreParsing',
         phase' \in {"group", "dispatch"} => Traversing',
         phase' = "leaf" => AtLeaf'
  PROVE  LineInv'
<1>1. LeavesInPlace' /\ RightMethod'
  BY DEF LineInv, LeavesInPlace, RightMethod
<1>2. (Constructed => prog \in Programs(svc))' /\ (Interpreting => run \in DOMAIN prog.lines)'
  BY DEF LineInv
<1> QED
  BY <1>1, <1>2 DEF LineInv

(* The global flags that have a value of their own are taken out with it.  *)
GlobalFlags(l) == {n \in DOMAIN l : IsGlobal(l[n]) /\ l[n].form = "flag"}

LEMMA GlobalsAre ==
  ASSUME NEW A, NEW l \in Seq(A)
  PROVE  /\ GlobalValues(l) \subseteq 1 .. Len(l) /\ 1 \notin GlobalValues(l)
         /\ \A m, n \in 1 .. Len(l) :
              n = m + 1 =>
                (n \in GlobalValues(l) <=> /\ IsGlobal(l[m]) /\ l[m].form = "flag"
                                          /\ m \notin GlobalValues(l))
         /\ LocalTo(l)[0] = <<>>
         /\ \A n \in 1 .. Len(l) :
              LocalTo(l)[n] = IF IsGlobal(l[n]) \/ n \in GlobalValues(l) THEN LocalTo(l)[n - 1]
                              ELSE Append(LocalTo(l)[n - 1], l[n])
<1> DEFINE F == GlobalFlags(l)
           S == DOMAIN l \ GlobalPart(l)
<1>1. Len(l) \in Nat /\ DOMAIN l = 1 .. Len(l) /\ F \subseteq 1 .. Len(l)
  BY DEF GlobalFlags
<1>2. GlobalValues(l) = ValuesOf(F, Len(l))
  BY DEF GlobalValues, GlobalFlags
<1>3. /\ GlobalValues(l) \subseteq 1 .. Len(l)
      /\ \A n \in 1 .. Len(l) :
           n \in GlobalValues(l) <=> n - 1 \in F /\ n - 1 \notin GlobalValues(l)
  BY <1>1, <1>2, ValuesAre
<1>4. \A m \in 1 .. Len(l) : m \in F <=> IsGlobal(l[m]) /\ l[m].form = "flag"
  BY <1>1 DEF GlobalFlags
<1>5. 1 \notin GlobalValues(l)
  <2>1. 1 - 1 \notin F
    BY <1>1
  <2> HIDE DEF F
  <2> QED
    BY <1>3, <2>1
<1>6. ASSUME NEW m \in 1 .. Len(l), NEW n \in 1 .. Len(l), n = m + 1
      PROVE  n \in GlobalValues(l) <=> m \in F /\ m \notin GlobalValues(l)
  <2>1. n - 1 = m
    BY <1>6
  <2> HIDE DEF F
  <2> QED
    BY <1>3, <2>1
<1>7. \A n \in 1 .. Len(l) : n \in S <=> ~(IsGlobal(l[n]) \/ n \in GlobalValues(l))
  BY <1>1 DEF GlobalPart
<1>8. LocalTo(l) = KeptAt(l, S)
  BY DEF LocalTo
<1> HIDE DEF F, S
<1>9. /\ LocalTo(l)[0] = <<>>
      /\ \A n \in 1 .. Len(l) :
           LocalTo(l)[n] = IF n \in S THEN Append(LocalTo(l)[n - 1], l[n]) ELSE LocalTo(l)[n - 1]
  BY <1>8, KeptIs
<1> QED
  BY <1>3, <1>4, <1>5, <1>6, <1>7, <1>9

LEMMA StartLine ==
  ASSUME TreeInv, ReportInv, LineInv, Start
  PROVE  LineInv'
<1>1. /\ phase = "idle" /\ phase' = "preparse" /\ run' = run + 1 /\ run < Len(prog.lines)
      /\ k' = 1 /\ rest' = <<>> /\ node' = Root /\ UNCHANGED <<svc, prog, tree, calls>>
  BY DEF Start
<1>2. svc \in Services /\ prog \in Programs(svc) /\ run \in Nat
  BY <1>1 DEF TreeInv, LineInv, ReportInv, Constructed
<1>3. run' \in DOMAIN prog.lines
  <2>1. prog.lines \in Seq(ToSet(prog.lines))
    BY <1>2, RunnerAssumption
  <2> QED
    BY <1>1, <1>2, <2>1
<1>4. args' = prog.lines[run'] /\ args' \in ToSet(prog.lines)
  BY <1>1, <1>3 DEF args, ToSet
<1>5. args' \in Seq(ToSet(args')) /\ Len(args') \in Nat
  <2>1. args' \in Seq(ToSet(args'))
    BY <1>2, <1>4, RunnerAssumption
  <2> QED
    BY <2>1
<1>6. 1 \notin GlobalValues(args') /\ LocalTo(args')[0] = <<>>
  BY <1>5, GlobalsAre
<1>7. PreParsing'
  BY <1>1, <1>5, <1>6 DEF PreParsing
<1>8. LeavesInPlace' /\ RightMethod'
  BY <1>1 DEF LineInv, LeavesInPlace, RightMethod
<1> QED
  BY <1>1, <1>2, <1>3, <1>7, <1>8 DEF LineInv

LEMMA PreParseLine ==
  ASSUME TreeInv, LineInv, PreParseArg
  PROVE  LineInv'
<1> DEFINE l == args
           K(n) == LocalTo(l)[n]
           G == GlobalValues(l)
           L == Len(l)
           arg == l[k]
<1>1. \/ ~IsGlobal(arg) /\ rest' = Append(rest, arg) /\ k' = k + 1 /\ UNCHANGED <<phase, node, calls>>
      \/ IsGlobal(arg) /\ phase' = "idle" /\ UNCHANGED calls
      \/ /\ IsGlobal(arg) /\ ValueAt(l, k) # None
         /\ k' = k + Width(arg) /\ UNCHANGED <<phase, rest, node, calls>>
  BY Zenon DEF PreParseArg, FailUnmapped
<1>2. /\ phase = "preparse" /\ k <= L /\ Constructed /\ Interpreting
      /\ UNCHANGED <<svc, prog, run, tree, calls>>
  <2>1. phase = "preparse" /\ k <= L /\ UNCHANGED program
    BY Zenon DEF PreParseArg
  <2> HIDE DEF l
  <2> QED
    BY <1>1, <2>1 DEF Constructed, Interpreting, program
<1>3. l \in Seq(ToSet(l)) /\ L \in Nat /\ Arguments(ToSet(l)) /\ args' = l
  BY <1>2, ArgsAre DEF args
<1>4. k \in 1 .. L /\ k \notin G /\ rest = K(k - 1) /\ node = Root
  BY <1>2, <1>3 DEF LineInv, PreParsing
<1>5. arg.form \in {"word", "flag", "inline", "dashes"}
  BY <1>3, <1>4 DEF Arguments, ToSet
<1> HIDE DEF l
<1>6. /\ G \subseteq 1 .. L
      /\ \A m, n \in 1 .. L :
           n = m + 1 => (n \in G <=> IsGlobal(l[m]) /\ l[m].form = "flag" /\ m \notin G)
      /\ \A n \in 1 .. L :
           K(n) = IF IsGlobal(l[n]) \/ n \in G THEN K(n - 1) ELSE Append(K(n - 1), l[n])
  BY <1>3, GlobalsAre
<1> HIDE DEF G, L, K
<1>7. CASE ~IsGlobal(arg)
  <2>1. rest' = Append(rest, arg) /\ k' = k + 1 /\ node' = node /\ phase' = phase
    BY <1>1, <1>7
  <2>2. K(k) = Append(rest, arg)
    BY <1>4, <1>6, <1>7
  <2>3. k' \in 1 .. L + 1 /\ k' - 1 = k
    BY <1>3, <1>4, <2>1
  <2>4. k' \notin G
    BY <1>4, <1>6, <1>7, <2>1
  <2>5. PreParsing'
    BY <1>3, <1>4, <2>1, <2>2, <2>3, <2>4 DEF PreParsing, K, G, L
  <2> QED
    BY <1>2, <2>1, <2>5, LineKept
<1>8. CASE IsGlobal(arg) /\ phase' # phase
  <2>1. phase' = "idle"
    BY <1>1, <1>8
  <2>2. Interpreting' => Interpreting
    BY <1>2
  <2> QED
    BY <1>2, <2>1, <2>2, LineKept
<1>9. CASE IsGlobal(arg) /\ phase' = phase
  <2>1. /\ ValueAt(l, k) # None /\ k' = k + Width(arg) /\ rest' = rest /\ node' = node
    BY <1>1, <1>2, <1>9
  <2>2. K(k) = rest
    BY <1>4, <1>6, <1>9
  <2>3. CASE arg.form = "inline"
    <3>1. k' = k + 1
      BY <2>1, <2>3 DEF Width
    <3>2. k' \in 1 .. L + 1 /\ k' - 1 = k
      BY <1>3, <1>4, <3>1
    <3>3. k' \notin G
      BY <1>4, <1>6, <2>3, <3>1
    <3>4. PreParsing'
      BY <1>3, <1>4, <2>1, <2>2, <3>2, <3>3 DEF PreParsing, K, G, L
    <3> QED
      BY <1>2, <1>9, <3>4, LineKept
  <2>4. CASE arg.form = "flag"
    <3> DEFINE n == k + 1
    <3>1. k' = k + 2 /\ k < L
      BY <2>1, <2>4 DEF Width, ValueAt, L
    <3>2. n \in 1 .. L /\ n - 1 = k /\ n = k + 1 /\ k' = n + 1 /\ k' \in 1 .. L + 1 /\ k' - 1 = n
      BY <1>3, <1>4, <3>1
    <3> HIDE DEF n
    <3>3. n \in G
      BY <1>4, <1>6, <1>9, <2>4, <3>2
    <3>4. k' \notin G
      BY <1>6, <3>2, <3>3
    <3>5. K(n) = rest
      BY <1>6, <2>2, <3>2, <3>3
    <3>6. PreParsing'
      BY <1>3, <1>4, <2>1, <3>2, <3>4, <3>5 DEF PreParsing, K, G, L
    <3> QED
      BY <1>2, <1>9, <3>6, LineKept
  <2> QED
    BY <1>5, <1>9, <2>3, <2>4 DEF IsGlobal, IsFlag
<1> QED
  BY <1>7, <1>8, <1>9

LEMMA PreParsedLine ==
  ASSUME TreeInv, LineInv, PreParsed
  PROVE  LineInv'
<1> DEFINE l == Local(args)
<1>1. /\ phase = "preparse" /\ k > Len(args) /\ phase' = "group" /\ Constructed /\ Interpreting
      /\ UNCHANGED <<svc, prog, run, tree, calls, rest, node>>
  BY DEF PreParsed, Constructed, Interpreting, program, line
<1>2. l \in Seq(ToSet(args)) /\ Len(args) \in Nat /\ Len(l) \in Nat /\ args' = args
  BY <1>1, ArgsAre DEF args
<1>3. k - 1 = Len(args) /\ rest = LocalTo(args)[k - 1] /\ node = Root
  BY <1>1, <1>2 DEF LineInv, PreParsing
<1>4. rest = l /\ node = <<>>
  BY <1>3 DEF Local, Root
<1> HIDE DEF l
<1>5. l = SubSeq(l, 1, Len(l)) /\ 1 \in 1 .. Len(l) + 1
  BY <1>2
<1>6. CommandsTo(svc, l, 1 - 1) = <<>>
  <2>1. CommandsTo(svc, l, 0) = <<>>
    BY <1>2, CommandsAre
  <2>2. 1 - 1 = 0
    OBVIOUS
  <2> QED
    BY <2>1, <2>2, Zenon
<1>7. 1 \notin Taken(svc, l)
  <2>1. 1 - 1 \notin HaveValue(svc, l)
    BY <1>2 DEF HaveValue
  <2> QED
    BY <1>2, <2>1, TakenIs
<1>8. Reached(svc, l, 1, rest, node)
  BY <1>4, <1>5, <1>6, <1>7 DEF Reached, Ends
<1>9. Traversing'
  BY <1>1, <1>2, <1>8, TraversingIs DEF l
<1> QED
  BY <1>1, <1>9, LineKept

LEMMA GroupFlagLine ==
  ASSUME TreeInv, LineInv, ParseGroupFlag
  PROVE  LineInv'
<1> DEFINE l == Local(args)
           arg == rest[1]
<1>1. /\ phase = "group" /\ Constructed /\ Interpreting /\ rest # <<>> /\ arg.form # "word"
      /\ UNCHANGED program
  BY DEF ParseGroupFlag, MoreFlags, Constructed, Interpreting
<1>2. \/ phase' \in {"idle", "failed"} /\ UNCHANGED calls
      \/ /\ phase' = "dispatch" /\ arg.form = "dashes" /\ rest' = Tail(rest)
         /\ UNCHANGED <<node, calls>>
      \/ /\ phase' = "group" /\ arg.form # "dashes" /\ ~IsHelp(arg) /\ ~BadFlag(svc.flags)
         /\ rest' = AfterFlag(svc.flags) /\ UNCHANGED <<node, calls>>
  BY DEF ParseGroupFlag, Done, Fail
<1>3. UNCHANGED <<svc, prog, run, tree, calls>> /\ args' = args
  BY <1>1, <1>2 DEF program, args
<1>4. /\ l \in Seq(ToSet(args)) /\ Len(l) \in Nat /\ Arguments(ToSet(args))
      /\ DOMAIN l = 1 .. Len(l) /\ \A i \in 1 .. Len(l) : l[i] \in ToSet(args)
  <2>1. /\ l \in Seq(ToSet(args)) /\ Len(l) \in Nat /\ Arguments(ToSet(args))
    BY <1>1, ArgsAre
  <2> HIDE DEF l
  <2> QED
    BY <2>1
<1>5. PICK d : Reached(svc, l, d, rest, node)
  BY <1>1, TraversingIs DEF LineInv
<1> HIDE DEF l
<1>6. /\ d \in 1 .. Len(l) + 1 /\ Ends(rest, l, d)
  BY <1>5 DEF Reached
<1>7. d \in 1 .. Len(l) /\ arg = l[d] /\ Len(rest) \in Nat /\ Len(rest) > 0
  <2>1. /\ Len(rest) = Len(l) + 1 - d /\ d <= Len(l)
        /\ \A i \in 1 .. Len(rest) : rest[i] = l[d + i - 1]
    BY <1>1, <1>4, <1>6, EndIs
  <2>2. d \in 1 .. Len(l) /\ 1 \in 1 .. Len(rest) /\ d + 1 - 1 = d
    BY <1>4, <1>6, <2>1
  <2> QED
    BY <2>1, <2>2
<1>8. arg.form \in {"flag", "inline", "dashes"}
  BY <1>1, <1>4, <1>7 DEF Arguments
<1>9. CASE phase' \in {"idle", "failed"}
  BY <1>1, <1>3, <1>9, LineKept
<1>10. ASSUME NEW e, Reached(svc, l, e, rest', node), phase' \in {"group", "dispatch"}, node' = node
       PROVE  LineInv'
  <2>1. Reached(svc', Local(args'), e, rest', node')
    BY <1>3, <1>10 DEF l
  <2>2. Traversing'
    BY <2>1, TraversingIs
  <2> QED
    BY <1>1, <1>3, <1>10, <2>2, LineKept
<1>11. CASE phase' = "dispatch" /\ arg.form = "dashes" /\ rest' = Tail(rest) /\ node' = node
  <2>1. d \notin HaveValue(svc, l)
    BY <1>7, <1>11 DEF HaveValue
  <2>2. Reached(svc, l, d + 1, Tail(rest), node)
    BY <1>1, <1>4, <1>5, <2>1, OverNoWord
  <2> QED
    BY <1>10, <1>11, <2>2
<1>12. CASE /\ phase' = "group" /\ arg.form # "dashes" /\ ~IsHelp(arg) /\ ~BadFlag(svc.flags)
            /\ rest' = AfterFlag(svc.flags) /\ node' = node
  <2>1. arg.form \in {"flag", "inline"} /\ arg.name \in DOMAIN svc.flags /\ FlagValue(svc.flags) # None
    BY <1>8, <1>12 DEF BadFlag, IsFlag
  <2>2. d \in HaveValue(svc, l) <=> arg.form = "flag" /\ ~IsSwitch(svc.flags)
    BY <1>4, <1>7, <1>12, <2>1 DEF HaveValue, SwitchName, IsSwitch
  <2>3. CASE d \in HaveValue(svc, l)
    <3>1. Len(rest) > 1
      BY <2>1, <2>2, <2>3 DEF FlagValue, ValueAt
    <3>2. rest' = SubSeq(rest, 3, Len(rest))
      BY <1>12, <2>2, <2>3 DEF AfterFlag, Width
    <3>3. Reached(svc, l, d + 2, rest', node)
      BY <1>1, <1>4, <1>5, <2>3, <3>1, <3>2, OverValue
    <3> QED
      BY <1>10, <1>12, <3>3
  <2>4. CASE d \notin HaveValue(svc, l)
    <3>1. rest' = SubSeq(rest, 2, Len(rest))
      BY <1>12, <2>1, <2>2, <2>4 DEF AfterFlag, Width
    <3>2. Reached(svc, l, d + 1, rest', node)
      BY <1>1, <1>4, <1>5, <2>4, <3>1, OverNoWord
    <3> QED
      BY <1>10, <1>12, <3>2
  <2> QED
    BY <2>3, <2>4
<1> QED
  BY <1>2, <1>9, <1>11, <1>12

LEMMA DispatchLine ==
  ASSUME TreeInv, LineInv, Dispatch
  PROVE  LineInv'
<1> DEFINE l == Local(args)
           arg == rest[1]
           child == Append(node, Text(arg))
<1>1. /\ phase = "dispatch" /\ Constructed /\ Interpreting /\ UNCHANGED program
  BY DEF Dispatch, Constructed, Interpreting
<1>2. \/ phase' \in {"idle", "failed"} /\ UNCHANGED calls
      \/ /\ rest # <<>> /\ arg.form = "word" /\ child \in DOMAIN tree
         /\ phase' = IF tree[child] = Group THEN "group" ELSE "leaf"
         /\ node' = child /\ rest' = Tail(rest) /\ UNCHANGED calls
  BY DEF Dispatch, Done, Fail
<1>3. UNCHANGED <<svc, prog, run, tree, calls>> /\ args' = args
  BY <1>1, <1>2 DEF program, args
<1>4. CASE phase' \in {"idle", "failed"}
  BY <1>1, <1>3, <1>4, LineKept
<1>5. CASE /\ rest # <<>> /\ arg.form = "word" /\ child \in DOMAIN tree
           /\ phase' = IF tree[child] = Group THEN "group" ELSE "leaf"
           /\ node' = child /\ rest' = Tail(rest)
  <2>1. l \in Seq(ToSet(args))
    BY <1>1, ArgsAre
  <2>2. PICK d : Reached(svc, l, d, rest, node)
    BY <1>1, TraversingIs DEF LineInv
  <2>3. child = Append(node, arg.value)
    BY <1>5 DEF Text
  <2>4. /\ Reached(svc, l, d + 1, Tail(rest), Append(node, arg.value))
        /\ IsPrefix(Append(node, arg.value), CommandsTo(svc, l, Len(l)))
    <3> HIDE DEF l
    <3> QED
      BY <1>5, <2>1, <2>2, OverWord
  <2>5. CASE tree[child] = Group
    <3>1. Reached(svc', Local(args'), d + 1, rest', node')
      BY <1>3, <1>5, <2>3, <2>4
    <3>2. Traversing'
      BY <3>1, TraversingIs
    <3> QED
      BY <1>1, <1>3, <1>5, <2>5, <3>2, LineKept
  <2>6. CASE tree[child] # Group
    <3>1. IsPrefix(child, Commands(svc, args))
      BY <2>3, <2>4 DEF Commands
    <3> HIDE DEF child
    <3>2. AtLeaf'
      BY <1>3, <1>5, <2>6, <3>1 DEF AtLeaf
    <3> QED
      BY <1>1, <1>3, <1>5, <2>6, <3>2, LineKept
  <2> QED
    BY <2>5, <2>6
<1> QED
  BY <1>2, <1>4, <1>5

LEMMA LeafLine ==
  ASSUME TreeInv, ReportInv, LineInv,
         ShowSchema \/ RunOnStdin \/ RunOnJSON \/ ParseLeafFlag \/ RunOnFlags
  PROVE  LineInv'
<1>1. /\ phase = "leaf" /\ Constructed /\ Interpreting /\ UNCHANGED <<svc, prog, run, tree>>
  BY DEF ShowSchema, RunOnStdin, RunOnJSON, ParseLeafFlag, RunOnFlags, AtMethod,
         Constructed, Interpreting, program
<1>2. /\ args' = args /\ node \in DOMAIN tree /\ tree[node] # Group
      /\ IsPrefix(node, Commands(svc, args))
  BY <1>1 DEF LineInv, AtLeaf, args
<1>3. CASE ShowSchema
  <2>1. phase' \in {"idle", "failed"} /\ UNCHANGED calls
    BY <1>3 DEF ShowSchema, Done, Fail
  <2> QED
    BY <1>1, <2>1, LineKept
<1>4. CASE ParseLeafFlag
  <2>1. phase' \in {"leaf", "failed"} /\ UNCHANGED <<calls, node>>
    BY <1>1, <1>4 DEF ParseLeafFlag, Fail, line
  <2>2. AtLeaf'
    BY <1>1, <1>2, <2>1 DEF AtLeaf
  <2> QED
    BY <1>1, <2>1, <2>2, LineKept
<1>5. CASE RunOnStdin \/ RunOnJSON \/ RunOnFlags
  <2>1. tree[node] # Show
    BY <1>5 DEF RunOnStdin, RunOnJSON, RunOnFlags, AtMethod
  <2>2. \/ phase' = "failed" /\ UNCHANGED calls
        \/ /\ phase' = "serving"
           /\ \E call : call.run = run /\ call.method = tree[node] /\ calls' = Append(calls, call)
    <3>1. CASE RunOnStdin
      BY <3>1, FailIs, InvokeIs DEF RunOnStdin
    <3>2. CASE RunOnJSON
      BY <3>2, FailIs, InvokeIs DEF RunOnJSON
    <3>3. CASE RunOnFlags
      BY <3>3, FailIs, InvokeIs DEF RunOnFlags
    <3> QED
      BY <1>5, <3>1, <3>2, <3>3
  <2>3. CASE phase' = "failed" /\ UNCHANGED calls
    BY <1>1, <2>3, LineKept
  <2>4. CASE /\ phase' = "serving"
             /\ \E call : call.run = run /\ call.method = tree[node] /\ calls' = Append(calls, call)
    <3>1. PICK call : call.run = run /\ call.method = tree[node] /\ calls' = Append(calls, call)
      BY <2>4
    <3>2. \A i \in DOMAIN (calls') : calls'[i] = call \/ (i \in DOMAIN calls /\ calls'[i] = calls[i])
      BY <3>1, LastAppended DEF ReportInv
    <3>3. node = PathOf(svc, tree[node])
      BY <1>2, <2>1 DEF LineInv, LeavesInPlace
    <3>4. IsPrefix(PathOf(svc, call.method), Commands(svc, prog.lines[call.run]))
      BY <1>2, <3>1, <3>3 DEF args
    <3>5. RightMethod'
      BY <1>1, <3>2, <3>4 DEF LineInv, RightMethod
    <3>6. LeavesInPlace'
      BY <1>1 DEF LineInv, LeavesInPlace
    <3> QED
      BY <1>1, <2>4, <3>5, <3>6 DEF LineInv, Interpreting, Constructed
  <2> QED
    BY <2>2, <2>3, <2>4
<1> QED
  BY <1>3, <1>4, <1>5

LEMMA ServeLine ==
  ASSUME LineInv, Receive \/ Send \/ ReturnError \/ ReturnStream \/ ReturnResponse \/ Report
  PROVE  LineInv'
<1>1. CASE Receive \/ Send
  <2>1. /\ phase = "serving" /\ phase' = "serving" /\ UNCHANGED <<svc, prog, run, tree, calls>>
    BY <1>1 DEF Receive, Send, Serving, program
  <2> QED
    BY <2>1, LineKept DEF Constructed, Interpreting
<1>2. CASE ReturnError \/ ReturnStream \/ ReturnResponse
  <2>1. /\ phase = "serving" /\ phase' \in {"idle", "failed"} /\ UNCHANGED <<svc, prog, run, tree, calls>>
    BY <1>2 DEF ReturnError, ReturnStream, ReturnResponse, Serving, program
  <2> QED
    BY <2>1, LineKept DEF Constructed, Interpreting
<1>3. CASE Report
  <2>1. /\ phase = "failed" /\ phase' = "idle" /\ UNCHANGED <<svc, prog, run, tree, calls>>
    BY <1>3 DEF Report, program
  <2> QED
    BY <2>1, LineKept DEF Constructed, Interpreting
<1> QED
  BY <1>1, <1>2, <1>3

LEMMA GenerateLine ==
  ASSUME ReportInv, LineInv, Validate \/ InsertMethod \/ Construct
  PROVE  LineInv'
<1>1. /\ ~Constructed /\ UNCHANGED <<svc, calls>>
      /\ phase' \in {"rejected", "insert", "crashed", "idle"}
      /\ phase' = "idle" => prog' \in Programs(svc)
  <2>1. CASE Validate
    BY <2>1 DEF Validate, Constructed, program
  <2>2. CASE InsertMethod
    BY <2>2 DEF InsertMethod, Constructed
  <2>3. CASE Construct
    BY <2>3 DEF Construct, Constructed
  <2> QED
    BY <2>1, <2>2, <2>3
<1>2. RightMethod'
  <2>1. calls' = <<>>
    BY <1>1 DEF ReportInv
  <2>2. DOMAIN <<>> = {}
    OBVIOUS
  <2> QED
    BY <2>1, <2>2 DEF RightMethod
<1>3. \A p \in DOMAIN tree :
        tree[p] \notin {Group, Show} => tree[p] \in Exposed(svc) /\ p = PathOf(svc, tree[p])
  BY DEF LineInv, LeavesInPlace
<1>4. ASSUME NEW p \in DOMAIN (tree'), tree'[p] \notin {Group, Show}
      PROVE  tree'[p] \in Exposed(svc) /\ p = PathOf(svc, tree'[p])
  <2>1. CASE tree' = tree
    BY <1>3, <1>4, <2>1
  <2>2. CASE InsertMethod /\ tree' # tree
    <3> DEFINE path == PathOf(svc, k)
               D == {q \in DOMAIN tree : ~IsStrictPrefix(path, q)} \union WalkedThrough(path) \union {path}
    <3>1. tree' = InsertLeaf(tree, path, k) /\ k \in Exposed(svc)
      BY <2>2 DEF InsertMethod
    <3>2. tree' = [q \in D |-> IF q = path THEN k ELSE IF q \in DOMAIN tree THEN tree[q] ELSE Group]
      BY <3>1 DEF InsertLeaf
    <3> HIDE DEF D
    <3>3. tree'[p] = IF p = path THEN k ELSE IF p \in DOMAIN tree THEN tree[p] ELSE Group
      BY <1>4, <3>2
    <3> QED
      BY <1>3, <1>4, <3>1, <3>3
  <2>3. CASE Construct /\ tree' # tree
    <3> DEFINE D == {q \in DOMAIN tree : \/ q = Root \/ tree[q] # Group
                                        \/ \E r \in DOMAIN tree : tree[r] # Group /\ IsStrictPrefix(q, r)}
               u == Prune(tree)
               E == {q \in DOMAIN u : ~IsPrefix(Schema, q)} \union {Schema}
    <3>1. tree' = AddSchema(u)
      BY <2>3 DEF Construct
    <3>2. u = [q \in D |-> tree[q]]
      BY DEF Prune
    <3> HIDE DEF u
    <3>3. DOMAIN u \subseteq DOMAIN tree /\ \A q \in DOMAIN u : u[q] = tree[q]
      BY <3>2
    <3>4. tree' = [q \in E |-> IF q = Schema THEN Show ELSE u[q]]
      BY <3>1 DEF AddSchema
    <3>5. p \in E /\ tree'[p] = IF p = Schema THEN Show ELSE u[p]
      BY <1>4, <3>4
    <3>6. p \in DOMAIN u /\ tree'[p] = u[p]
      BY <1>4, <3>5
    <3> QED
      BY <1>3, <1>4, <3>3, <3>6
  <2>4. Validate => tree' = tree
    BY DEF Validate, program
  <2> QED
    BY <2>1, <2>2, <2>3, <2>4
<1>5. LeavesInPlace'
  BY <1>1, <1>4 DEF LeavesInPlace
<1> QED
  BY <1>1, <1>2, <1>5 DEF LineInv, Interpreting, Constructed

LEMMA InitLine == Init => LineInv
<1> SUFFICES ASSUME Init PROVE LineInv
  OBVIOUS
<1>1. phase = "validate" /\ calls = <<>> /\ DOMAIN tree = {Root} /\ tree[Root] = Group
  BY DEF Init
<1>2. DOMAIN <<>> = {}
  OBVIOUS
<1> QED
  BY <1>1, <1>2 DEF LineInv, LeavesInPlace, RightMethod, Interpreting, Constructed

LEMMA NextLine == TreeInv /\ ReportInv /\ LineInv /\ [Next]_vars => LineInv'
<1> SUFFICES ASSUME TreeInv, ReportInv, LineInv, [Next]_vars PROVE LineInv'
  OBVIOUS
<1>1. CASE UNCHANGED vars
  BY <1>1 DEF vars, program, globals, line, flags, stream, outcome, LineInv, LeavesInPlace,
              RightMethod, Interpreting, Constructed, PreParsing, Traversing, AtLeaf, args
<1>2. CASE Finished
  BY <1>1, <1>2 DEF Finished
<1>3. CASE GroupFlagsParsed
  <2>1. /\ phase = "group" /\ phase' = "dispatch" /\ UNCHANGED <<svc, prog, run, tree, calls, rest, node>>
    BY <1>3 DEF GroupFlagsParsed, program, line
  <2>2. Traversing'
    BY <2>1 DEF LineInv, Traversing, args
  <2> QED
    BY <2>1, <2>2, LineKept DEF Constructed, Interpreting
<1> QED
  BY <1>1, <1>2, <1>3, GenerateLine, StartLine, PreParseLine, PreParsedLine, GroupFlagLine,
     DispatchLine, LeafLine, ServeLine DEF Next

(* preParseGlobalFlags, parseNodeFlags, dispatch: whatever flags stand on  *)
(* a command line and wherever they do, a method that runs is the one of   *)
(* the words that are no values of flags.                                  *)
THEOREM RightMethodRuns == Spec => []RightMethod
<1>1. Init => TreeInv /\ ReportInv /\ LineInv
  BY InitTree, InitReport, InitLine
<1>2. (TreeInv /\ ReportInv /\ LineInv) /\ [Next]_vars => (TreeInv /\ ReportInv /\ LineInv)'
  BY NextTree, NextReport, NextLine
<1>3. LineInv => RightMethod
  BY DEF LineInv
<1> QED
  BY <1>1, <1>2, <1>3, PTL DEF Spec

-----------------------------------------------------------------------------
(* The texts given for a flag after w commands, argument by argument.      *)
GivenGrow(A, s, l, name, w) ==
  /\ GivenTo(s, l, name, w, 0) = <<>>
  /\ \A n \in 1 .. Len(l) :
       IF l[n].form = "inline" /\ l[n].name = name /\ Len(CommandsTo(s, l, n)) = w
       THEN GivenTo(s, l, name, w, n) = Append(GivenTo(s, l, name, w, n - 1), l[n].value)
       ELSE GivenTo(s, l, name, w, n) = GivenTo(s, l, name, w, n - 1)
  /\ \A n \in 0 .. Len(l) : GivenTo(s, l, name, w, n) \in Seq(ValuesIn(A))

LEMMA GivenAre ==
  ASSUME NEW s, NEW A, NEW l \in Seq(A), NEW name, NEW w
  PROVE  GivenGrow(A, s, l, name, w)
<1> DEFINE S == {m \in DOMAIN l : l[m].form = "inline" /\ l[m].name = name
                                  /\ Len(CommandsTo(s, l, m)) = w}
           C(n) == GivenTo(s, l, name, w, n)
<1>1. \A n \in 1 .. Len(l) :
        n \in S <=> l[n].form = "inline" /\ l[n].name = name /\ Len(CommandsTo(s, l, n)) = w
  OBVIOUS
<1>2. \A n : C(n) = TextsTo(l, S, n)
  BY DEF GivenTo
<1>3. TextsGrow(A, l, S)
  BY TextsAre
<1> HIDE DEF S
<1> QED
  BY <1>1, <1>2, <1>3 DEF TextsGrow, GivenGrow

(* The commands only get more.                                             *)
LEMMA CommandsGrow ==
  ASSUME NEW s, NEW A, NEW l \in Seq(A), NEW m \in 0 .. Len(l), NEW n \in m .. Len(l)
  PROVE  /\ Len(CommandsTo(s, l, m)) \in Nat /\ Len(CommandsTo(s, l, n)) \in Nat
         /\ Len(CommandsTo(s, l, m)) <= Len(CommandsTo(s, l, n))
<1> DEFINE V == ValuesIn(A)
           C(i) == CommandsTo(s, l, i)
<1>1. n \in 0 .. Len(l) /\ m \in 0 .. n
  OBVIOUS
<1>2. C(m) \in Seq(V) /\ C(n) \in Seq(V) /\ IsPrefix(C(m), C(n))
  BY <1>1, CommandsAre
<1> HIDE DEF V, C
<1>3. Len(C(m)) <= Len(C(n))
  BY <1>2, PrefixIs
<1>4. Len(C(m)) \in Nat /\ Len(C(n)) \in Nat
  BY <1>2
<1> QED
  BY <1>3, <1>4 DEF C

(* Nothing is given between two places when no such flag is there.         *)
LEMMA NothingGiven ==
  ASSUME NEW s, NEW A, NEW l \in Seq(A), NEW name, NEW w, NEW m \in 0 .. Len(l), NEW n \in m .. Len(l),
         \A i \in m + 1 .. n : l[i].form # "inline" \/ l[i].name # name \/ Len(CommandsTo(s, l, i)) # w
  PROVE  GivenTo(s, l, name, w, n) = GivenTo(s, l, name, w, m)
<1> DEFINE C(i) == GivenTo(s, l, name, w, i)
           P == {i \in 0 .. n : i >= m => C(i) = C(m)}
<1>1. /\ Len(l) \in Nat /\ m \in Nat /\ n \in Nat /\ n <= Len(l) /\ m <= n
  OBVIOUS
<1>2. \A i \in m + 1 .. n : C(i) = C(i - 1)
  <2>1. \A i \in m + 1 .. n : i \in 1 .. Len(l)
    BY <1>1
  <2>2. GivenGrow(A, s, l, name, w)
    BY GivenAre
  <2> QED
    BY <2>1, <2>2 DEF GivenGrow
<1> HIDE DEF C
<1>3. 0 \in P
  BY <1>1
<1>4. ASSUME NEW i \in 1 .. n, i - 1 \in P PROVE i \in P
  <2>1. CASE i <= m
    BY <1>1, <2>1
  <2>2. CASE i > m
    <3>1. i \in m + 1 .. n /\ i - 1 >= m
      BY <1>1, <2>2
    <3> QED
      BY <1>2, <1>4, <3>1
  <2> QED
    BY <1>1, <2>1, <2>2
<1>5. \A i \in 0 .. n : i \in P
  <2> HIDE DEF P
  <2> QED
    BY <1>1, <1>3, <1>4, Climb
<1> QED
  BY <1>1, <1>5 DEF C

(* So it is before there are w commands, and once there are more.          *)
LEMMA GivenBefore ==
  ASSUME NEW s, NEW A, NEW l \in Seq(A), NEW name, NEW w \in Nat, NEW m \in 0 .. Len(l),
         Len(CommandsTo(s, l, m)) < w
  PROVE  GivenTo(s, l, name, w, m) = <<>>
<1>1. Len(l) \in Nat /\ 0 \in 0 .. Len(l) /\ m \in 0 .. Len(l) /\ m \in Nat
  OBVIOUS
<1>2. ASSUME NEW i \in 0 + 1 .. m PROVE Len(CommandsTo(s, l, i)) # w
  <2>1. i \in 0 .. Len(l) /\ m \in i .. Len(l)
    BY <1>1
  <2>2. /\ Len(CommandsTo(s, l, i)) \in Nat /\ Len(CommandsTo(s, l, m)) \in Nat
        /\ Len(CommandsTo(s, l, i)) <= Len(CommandsTo(s, l, m))
    BY <2>1, CommandsGrow
  <2> QED
    BY <2>2
<1>3. GivenTo(s, l, name, w, m) = GivenTo(s, l, name, w, 0)
  BY <1>1, <1>2, NothingGiven
<1>4. GivenGrow(A, s, l, name, w)
  BY GivenAre
<1> QED
  BY <1>3, <1>4 DEF GivenGrow

LEMMA GivenAfter ==
  ASSUME NEW s, NEW A, NEW l \in Seq(A), NEW name, NEW w \in Nat, NEW m \in 1 .. Len(l),
         l[m].form = "word", Len(CommandsTo(s, l, m)) > w
  PROVE  GivenTo(s, l, name, w, Len(l)) = GivenTo(s, l, name, w, m - 1)
<1>1. /\ Len(l) \in Nat /\ m - 1 \in 0 .. Len(l) /\ m \in 0 .. Len(l) /\ Len(l) \in m - 1 .. Len(l)
      /\ (m - 1) + 1 = m
  OBVIOUS
<1>2. ASSUME NEW i \in m .. Len(l) PROVE Len(CommandsTo(s, l, i)) # w
  <2>2. /\ Len(CommandsTo(s, l, i)) \in Nat /\ Len(CommandsTo(s, l, m)) \in Nat
        /\ Len(CommandsTo(s, l, m)) <= Len(CommandsTo(s, l, i))
    BY <1>1, CommandsGrow
  <2> QED
    BY <2>2
<1>3. \A i \in (m - 1) + 1 .. Len(l) : Len(CommandsTo(s, l, i)) # w
  BY <1>1, <1>2
<1> QED
  BY <1>1, <1>3, NothingGiven
-----------------------------------------------------------------------------
(* The texts of several lines.                                             *)
LineValues(lines) == UNION {ValuesIn(ToSet(l)) : l \in ToSet(lines)}
Lines(lines) ==
  /\ lines \in Seq(ToSet(lines))
  /\ \A l \in ToSet(lines) : l \in Seq(ToSet(l))

(* A sequence over some elements is one over more.                         *)
LEMMA OverMore ==
  ASSUME NEW S, NEW T, S \subseteq T, NEW q \in Seq(S)
  PROVE  q \in Seq(T)
OBVIOUS

LEMMA GivenInLine ==
  ASSUME NEW s, NEW lines, Lines(lines), NEW r \in 1 .. Len(lines), NEW name, NEW w,
         NEW n \in 0 .. Len(Local(lines[r]))
  PROVE  GivenTo(s, Local(lines[r]), name, w, n) \in Seq(LineValues(lines))
<1> DEFINE l == lines[r]
           A == ToSet(l)
<1>1. l \in ToSet(lines) /\ l \in Seq(A)
  BY DEF Lines, ToSet
<1>2. ValuesIn(A) \subseteq LineValues(lines)
  BY <1>1 DEF LineValues
<1> HIDE DEF l, A
<1>3. Local(l) \in Seq(A)
  BY <1>1, LocalIs
<1>4. GivenGrow(A, s, Local(l), name, w)
  BY <1>3, GivenAre
<1>5. GivenTo(s, Local(l), name, w, n) \in Seq(ValuesIn(A))
  BY <1>4 DEF GivenGrow, l
<1> QED
  BY <1>2, <1>5, OverMore DEF l

LEMMA OfGroupIs ==
  ASSUME NEW s, NEW lines, Lines(lines), NEW r \in 1 .. Len(lines), NEW name
  PROVE  OfGroup(s, lines[r], name) \in Seq(LineValues(lines))
<1>1. Len(Local(lines[r])) \in 0 .. Len(Local(lines[r]))
  <2>1. lines[r] \in Seq(ToSet(lines[r]))
    BY DEF Lines, ToSet
  <2>2. Len(Local(lines[r])) \in Nat
    BY <2>1, LocalIs
  <2> QED
    BY <2>2
<1> QED
  BY <1>1, GivenInLine DEF OfGroup

(* What several lines give is what the first ones do and then the last.    *)
SofarGrows(s, lines, name) ==
  /\ Sofar(s, lines, name)[0] = <<>>
  /\ \A r \in 1 .. Len(lines) :
       Sofar(s, lines, name)[r] = Sofar(s, lines, name)[r - 1] \o OfGroup(s, lines[r], name)
  /\ \A r \in 0 .. Len(lines) : Sofar(s, lines, name)[r] \in Seq(LineValues(lines))

LEMMA SofarIs ==
  ASSUME NEW s, NEW lines, Lines(lines), NEW name
  PROVE  SofarGrows(s, lines, name)
<1> DEFINE L == Len(lines)
           V == Seq(LineValues(lines))
           G == [r \in 1 .. L |-> OfGroup(s, lines[r], name)]
           g == [p \in (1 .. L) \X V |-> p[2] \o G[p[1]]]
           Given(v) == v = [r \in 0 .. L |->
                              IF r = 0 THEN <<>> ELSE v[r - 1] \o OfGroup(s, lines[r], name)]
           a == CHOOSE v : Given(v)
<1>1. L \in Nat /\ G \in [1 .. L -> V] /\ \A r \in 1 .. L : G[r] = OfGroup(s, lines[r], name)
  <2>1. L \in Nat
    BY DEF Lines
  <2>2. \A r \in 1 .. L : OfGroup(s, lines[r], name) \in V
    BY OfGroupIs
  <2> HIDE DEF V
  <2> QED
    BY <2>1, <2>2
<1>2. \A p, q \in V : p \o q \in V
  OBVIOUS
<1>3. <<>> \in V
  OBVIOUS
<1> HIDE DEF G, V, L
<1>4. PICK v \in [0 .. L -> V] : v[0] = <<>> /\ \A r \in 1 .. L : v[r] = v[r - 1] \o G[r]
  <2>1. g \in [(1 .. L) \X V -> V]
    BY <1>1, <1>2
  <2>2. \A r \in 1 .. L : \A p \in V : g[<<r, p>>] = p \o G[r]
    OBVIOUS
  <2> HIDE DEF g
  <2> DEFINE b == <<>>
  <2>3. StepsUp(V, L, b, g)
    BY <1>1, <1>3, <2>1 DEF StepsUp
  <2> HIDE DEF b
  <2>4. PICK v : Trace(v, v[L], V, L, b, g)
    BY <2>3, StepsExist
  <2>5. v \in [0 .. L -> V] /\ v[0] = <<>> /\ \A r \in 1 .. L : v[r] = g[<<r, v[r - 1]>>]
    BY <2>4 DEF b, Trace
  <2>6. \A r \in 1 .. L : v[r - 1] \in V
    BY <1>1, <2>5
  <2>7. \A r \in 1 .. L : v[r] = v[r - 1] \o G[r]
    BY <2>2, <2>5, <2>6
  <2> QED
    BY <2>5, <2>7
<1>5. \A r \in 0 .. L : r = 0 \/ r \in 1 .. L
  BY <1>1
<1>6. Given(v)
  <2>1. v = [r \in 0 .. L |-> v[r]]
    BY <1>4
  <2>2. \A r \in 1 .. L : v[r] = v[r - 1] \o OfGroup(s, lines[r], name)
    BY <1>1, <1>4
  <2> QED
    BY <1>4, <1>5, <2>1, <2>2
<1>7. Given(a)
  <2> HIDE DEF Given
  <2> QED
    BY <1>6
<1>8. Sofar(s, lines, name) = a
  BY Zenon DEF Sofar, L
<1> HIDE DEF a
<1>9. /\ a[0] = <<>>
      /\ \A r \in 1 .. L : a[r] = a[r - 1] \o OfGroup(s, lines[r], name)
  <2>1. 0 \in 0 .. L /\ \A r \in 1 .. L : r \in 0 .. L /\ r # 0
    BY <1>1
  <2> QED
    BY <1>7, <2>1
<1> HIDE DEF Given
<1> DEFINE P == {r \in 0 .. L : a[r] \in V}
<1>10. \A r \in 0 .. L : r \in P
  <2>1. 0 \in P
    BY <1>1, <1>3, <1>9
  <2>2. ASSUME NEW r \in 1 .. L, r - 1 \in P PROVE r \in P
    <3>1. a[r - 1] \in V
      BY <2>2
    <3>2. G[r] \in V
      BY <1>1
    <3>3. a[r] = a[r - 1] \o G[r]
      BY <1>1, <1>9, Zenon
    <3>4. r \in 0 .. L
      BY <1>1
    <3>5. a[r] \in V
      BY <1>2, <3>1, <3>2, <3>3
    <3> QED
      BY <3>4, <3>5
  <2> HIDE DEF P
  <2> QED
    BY <1>1, <2>1, <2>2, Climb
<1>11. \A r \in 0 .. L : a[r] \in V
  BY <1>10
<1> QED
  BY <1>8, <1>9, <1>11 DEF SofarGrows, L, V

-----------------------------------------------------------------------------
(* What a flag's variable holds when one more text has been given.         *)
LEMMA HeldGrows ==
  ASSUME NEW f, NEW V, NEW texts \in Seq(V), NEW t \in V
  PROVE  Held(f, Append(texts, t)) = Set(f, Held(f, texts), Parse(f, t))
<1> DEFINE q == Append(texts, t)
           W == {Parse(f, v) : v \in V}
<1>1. /\ q \in Seq(V) /\ Len(q) = Len(texts) + 1 /\ q[Len(texts) + 1] = t
      /\ \A i \in 1 .. Len(texts) : q[i] = texts[i]
  BY Appended
<1>2. Len(texts) \in Nat /\ DOMAIN texts = 1 .. Len(texts) /\ \A i \in 1 .. Len(texts) : texts[i] \in V
  OBVIOUS
<1> HIDE DEF q
<1>3. DOMAIN q = 1 .. Len(q) /\ q # <<>> /\ Last(q) = t /\ \A i \in 1 .. Len(q) : q[i] \in V
  BY <1>1, <1>2 DEF Last
<1>4. CASE ~Repeats(f)
  BY <1>3, <1>4 DEF Held, Set, q
<1>5. CASE Repeats(f)
  <2> DEFINE a == [i \in 1 .. Len(texts) |-> Parse(f, texts[i])]
             b == [i \in 1 .. Len(q) |-> Parse(f, q[i])]
             c == Append(a, Parse(f, t))
  <2>1. Parse(f, t) \in W
    OBVIOUS
  <2>2. a \in [1 .. Len(texts) -> W] /\ b \in [1 .. Len(q) -> W]
    BY <1>2, <1>3
  <2>3. Len(q) \in Nat
    BY <1>1, <1>2
  <2> HIDE DEF W
  <2>4. \A i \in 1 .. Len(texts) : a[i] = Parse(f, texts[i])
    OBVIOUS
  <2>5. \A i \in 1 .. Len(q) : b[i] = Parse(f, q[i])
    OBVIOUS
  <2> HIDE DEF a, b
  <2>6. a \in Seq(W) /\ Len(a) = Len(texts) /\ b \in Seq(W) /\ Len(b) = Len(q)
    BY <1>2, <2>2, <2>3, Listed
  <2>7. /\ c \in Seq(W) /\ Len(c) = Len(a) + 1 /\ c[Len(a) + 1] = Parse(f, t)
        /\ \A i \in 1 .. Len(a) : c[i] = a[i]
    BY <2>1, <2>6, Appended
  <2> HIDE DEF c
  <2>8. \A i \in 1 .. Len(b) : c[i] = b[i]
    <3>1. ASSUME NEW i \in 1 .. Len(b) PROVE c[i] = b[i]
      <4>1. i \in 1 .. Len(texts) \/ i = Len(texts) + 1
        BY <1>1, <1>2, <2>6
      <4>2. CASE i \in 1 .. Len(texts)
        BY <1>1, <2>4, <2>5, <2>6, <2>7, <4>2
      <4>3. CASE i = Len(texts) + 1
        BY <1>1, <2>5, <2>6, <2>7, <4>3
      <4> QED
        BY <4>1, <4>2, <4>3
    <3> QED
      BY <3>1
  <2>9. c = b
    <3>1. Len(c) = Len(b)
      BY <1>1, <2>6, <2>7
    <3> QED
      BY <2>6, <2>7, <2>8, <3>1, SameElements
  <2>10. Held(f, texts) = a /\ Held(f, q) = b
    BY <1>2, <1>3, <1>5 DEF Held, a, b
  <2> QED
    BY <1>5, <2>9, <2>10 DEF Set, c, q
<1> QED
  BY <1>4, <1>5

LEMMA HeldNone ==
  ASSUME NEW f
  PROVE  Held(f, <<>>) = <<>>
<1>1. [n \in DOMAIN <<>> |-> Parse(f, <<>>[n])] = <<>>
  OBVIOUS
<1> QED
  BY <1>1 DEF Held

(* A field as the generator takes it, and a text that any flag takes as    *)
(* one of a string.                                                        *)
GoodField(f) ==
  /\ f.card \in {"single", "list", "map"} /\ (f.card = "map" => f.kind = "message")
  /\ f.enum \in Seq(ToSet(f.enum)) /\ \A i \in DOMAIN f.enum : f.enum[i].number # None

GoodText(v) == v # None /\ Accepts("string", v)

(* What a variable holds makes the field that the texts stand for.         *)
LEMMA BuiltIs ==
  ASSUME NEW f, GoodField(f), NEW V, \A v \in V : GoodText(v), NEW texts \in Seq(V)
  PROVE  Built(f, Held(f, texts)) = Field(f, texts)
<1>1. DOMAIN texts = 1 .. Len(texts) /\ Len(texts) \in Nat
  OBVIOUS
<1>2. PostAssigned(f) <=> f.kind \in {"message", "bytes"}
  BY DEF PostAssigned, Documented, GoodField
<1>3. Repeats(f) <=> f.card = "list" /\ f.kind \notin {"message", "bytes"}
  BY DEF Repeats, Documented
<1> DEFINE h == Held(f, texts)
           empty == <<"">>
<1>0. /\ f.kind \in {"message", "bytes"} /\ h = empty => Built(f, h) = <<>>
      /\ f.kind \notin {"message", "bytes"} \/ h # empty => Built(f, h) = h
  BY <1>2, Zenon DEF Built
<1> HIDE DEF h
<1>4. CASE texts = <<>>
  <2>1. h = <<>>
    BY <1>4, HeldNone DEF h
  <2>2. <<>> # empty
    OBVIOUS
  <2> HIDE DEF empty
  <2> QED
    BY <1>0, <1>4, <2>1, <2>2 DEF Field, h
<1>5. CASE texts # <<>> /\ f.kind \in {"message", "bytes"}
  <2>1. Last(texts) \in V
    BY <1>5 DEF Last
  <2>2. Parse(f, Last(texts)) = Last(texts)
    BY <1>2, <1>5, <2>1 DEF Parse, GoType, GoodText
  <2>3. h = <<Last(texts)>>
    BY <1>3, <1>5, <2>2 DEF Held, h
  <2>4. <<Last(texts)>> = empty <=> Last(texts) = ""
    OBVIOUS
  <2>5. /\ Last(texts) = "" => Field(f, texts) = <<>>
        /\ Last(texts) # "" => Field(f, texts) = <<Last(texts)>>
    BY <1>5, <2>2, Zenon DEF Field
  <2> HIDE DEF empty
  <2>6. CASE Last(texts) = ""
    <3>1. Built(f, h) = <<>>
      BY <1>0, <1>5, <2>3, <2>4, <2>6, Zenon
    <3> QED
      BY <2>5, <2>6, <3>1, Zenon DEF h
  <2>7. CASE Last(texts) # ""
    <3>1. Built(f, h) = h
      BY <1>0, <2>3, <2>4, <2>7, Zenon
    <3> QED
      BY <2>3, <2>5, <2>7, <3>1, Zenon DEF h
  <2> QED
    BY <2>6, <2>7, Zenon
<1>6. CASE texts # <<>> /\ f.kind \notin {"message", "bytes"}
  <2>1. Built(f, h) = h
    BY <1>0, <1>6, Zenon
  <2> QED
    BY <1>3, <1>6, <2>1 DEF Held, Field, h
<1> QED
  BY <1>4, <1>5, <1>6

(* The fields of a service's flags are good, and so are the texts of the   *)
(* lines of its programs.                                                  *)
LEMMA FieldsAre ==
  ASSUME svc \in Services
  PROVE  /\ \A n \in DOMAIN svc.flags : GoodField(svc.flags[n])
         /\ \A c \in DOMAIN svc.methods : \A n \in DOMAIN svc.methods[c].flags :
              GoodField(svc.methods[c].flags[n])
<1>1. \A m \in {svc} \union ToSet(svc.methods) : \A n \in DOMAIN m.flags : GoodField(m.flags[n])
  BY FieldAssumption DEF GoodField
<1>2. svc \in {svc} \union ToSet(svc.methods)
  OBVIOUS
<1>3. \A c \in DOMAIN svc.methods : svc.methods[c] \in {svc} \union ToSet(svc.methods)
  BY DEF ToSet
<1> QED
  BY <1>1, <1>2, <1>3

LEMMA LinesAre ==
  ASSUME NEW s \in Services, NEW p \in Programs(s)
  PROVE  /\ Lines(p.lines) /\ Len(p.lines) \in Nat /\ DOMAIN p.lines = 1 .. Len(p.lines)
         /\ \A v \in LineValues(p.lines) : GoodText(v)
<1>1. /\ p.lines \in Seq(ToSet(p.lines)) /\ \A l \in ToSet(p.lines) : l \in Seq(ToSet(l))
      /\ \A l \in ToSet(p.lines) : \A arg \in ToSet(l) : GoodText(arg.value)
  BY RunnerAssumption DEF GoodText
<1>2. Len(p.lines) \in Nat /\ DOMAIN p.lines = 1 .. Len(p.lines)
  BY <1>1
<1>3. \A v \in LineValues(p.lines) : GoodText(v)
  BY <1>1 DEF LineValues, ValuesIn
<1> QED
  BY <1>1, <1>2, <1>3 DEF Lines
-----------------------------------------------------------------------------
(* On a line of words and inline flags nothing is taken for a value.       *)
LEMMA PlainIs ==
  ASSUME NEW s, NEW l, l \in Seq(ToSet(l)), IsPlain(l)
  PROVE  /\ Taken(s, Local(l)) = {}
         /\ \A i \in 1 .. Len(Local(l)) : Local(l)[i].form \in {"word", "inline"}
<1> DEFINE q == Local(l)
           A == ToSet(l)
<1>1. \A arg \in A : arg.form \in {"word", "inline"}
  BY DEF IsPlain, ToSet
<1>2. q \in Seq(A) /\ Len(q) \in Nat
  BY LocalIs
<1> HIDE DEF q
<1>3. \A i \in 1 .. Len(q) : q[i].form \in {"word", "inline"}
  BY <1>1, <1>2
<1>4. HaveValue(s, q) = {}
  BY <1>2, <1>3 DEF HaveValue
<1>5. Taken(s, q) = {}
  BY <1>2, <1>4, TakenIs
<1> QED
  BY <1>3, <1>5 DEF q

(* A group's variables after so many lines; and after so many of the local *)
(* arguments of one more.                                                  *)
HeldFor(b, s, lines, r) == \A n \in DOMAIN b : b[n] = Held(s.flags[n], Sofar(s, lines, n)[r])

HeldAt(b, s, lines, r, o) ==
  \A n \in DOMAIN b :
    b[n] = Held(s.flags[n], Sofar(s, lines, n)[r - 1]
                            \o GivenTo(s, Local(lines[r]), n, Len(s.path), o))

LEMMA SofarBefore ==
  ASSUME NEW s, NEW lines, Lines(lines), NEW r \in 1 .. Len(lines), NEW n
  PROVE  /\ Sofar(s, lines, n)[r - 1] \in Seq(LineValues(lines))
         /\ Sofar(s, lines, n)[r] = Sofar(s, lines, n)[r - 1] \o OfGroup(s, lines[r], n)
<1>1. SofarGrows(s, lines, n)
  BY SofarIs
<1>2. r - 1 \in 0 .. Len(lines)
  BY DEF Lines
<1> QED
  BY <1>1, <1>2 DEF SofarGrows

LEMMA HeldStart ==
  ASSUME NEW s, NEW lines, Lines(lines), NEW r \in 1 .. Len(lines), NEW b, HeldFor(b, s, lines, r - 1)
  PROVE  HeldAt(b, s, lines, r, 0)
<1> DEFINE G(n) == GivenTo(s, Local(lines[r]), n, Len(s.path), 0)
           P(n) == Sofar(s, lines, n)[r - 1]
<1>1. lines[r] \in Seq(ToSet(lines[r]))
  BY DEF Lines, ToSet
<1>2. Local(lines[r]) \in Seq(ToSet(lines[r]))
  BY <1>1, LocalIs
<1>3. ASSUME NEW n PROVE P(n) \o G(n) = P(n)
  <2>1. GivenGrow(ToSet(lines[r]), s, Local(lines[r]), n, Len(s.path))
    BY <1>2, GivenAre
  <2>2. G(n) = <<>>
    BY <2>1 DEF GivenGrow
  <2>3. P(n) \in Seq(LineValues(lines))
    BY SofarBefore
  <2> HIDE DEF P, G
  <2> QED
    BY <2>2, <2>3
<1> HIDE DEF P, G
<1>4. \A n : P(n) \o G(n) = P(n)
  BY <1>3
<1> QED
  BY <1>4 DEF HeldFor, HeldAt, P, G

LEMMA HeldWord ==
  ASSUME NEW s, NEW lines, Lines(lines), NEW r \in 1 .. Len(lines), NEW b,
         NEW d \in 1 .. Len(Local(lines[r])), Local(lines[r])[d].form = "word",
         HeldAt(b, s, lines, r, d - 1)
  PROVE  HeldAt(b, s, lines, r, d)
<1> DEFINE G(n, o) == GivenTo(s, Local(lines[r]), n, Len(s.path), o)
<1>1. lines[r] \in Seq(ToSet(lines[r]))
  BY DEF Lines, ToSet
<1>2. Local(lines[r]) \in Seq(ToSet(lines[r]))
  BY <1>1, LocalIs
<1>3. ASSUME NEW n PROVE G(n, d) = G(n, d - 1)
  <2>1. GivenGrow(ToSet(lines[r]), s, Local(lines[r]), n, Len(s.path))
    BY <1>2, GivenAre
  <2> QED
    BY <2>1 DEF GivenGrow
<1> HIDE DEF G
<1>4. \A n : G(n, d) = G(n, d - 1)
  BY <1>3
<1> QED
  BY <1>4 DEF HeldAt, G

LEMMA HeldFlag ==
  ASSUME NEW s, NEW lines, Lines(lines), NEW r \in 1 .. Len(lines), NEW b,
         NEW d \in 1 .. Len(Local(lines[r])), Local(lines[r])[d].form = "inline",
         Len(CommandsTo(s, Local(lines[r]), d)) = Len(s.path),
         HeldAt(b, s, lines, r, d - 1),
         NEW m, m = Local(lines[r])[d].name, m \in DOMAIN b
  PROVE  HeldAt([b EXCEPT ![m] = Set(s.flags[m], @, Parse(s.flags[m], Local(lines[r])[d].value))],
                s, lines, r, d)
<1> DEFINE l == Local(lines[r])
           t == l[d].value
           G(n, o) == GivenTo(s, l, n, Len(s.path), o)
           P(n) == Sofar(s, lines, n)[r - 1]
           V == LineValues(lines)
           c == [b EXCEPT ![m] = Set(s.flags[m], @, Parse(s.flags[m], t))]
<1>1. lines[r] \in Seq(ToSet(lines[r])) /\ lines[r] \in ToSet(lines)
  <2>1. lines[r] \in ToSet(lines)
    BY DEF Lines, ToSet
  <2> QED
    BY <2>1 DEF Lines
<1>2. l \in Seq(ToSet(lines[r]))
  BY <1>1, LocalIs
<1>3. t \in V
  <2>1. l[d] \in ToSet(lines[r])
    BY <1>2
  <2> QED
    BY <1>1, <2>1 DEF LineValues, ValuesIn
<1>4. d \in 0 .. Len(l) /\ d - 1 \in 0 .. Len(l)
  OBVIOUS
<1>5. ASSUME NEW n
      PROVE  /\ G(n, d) = IF n = m THEN Append(G(n, d - 1), t) ELSE G(n, d - 1)
             /\ G(n, d - 1) \in Seq(V) /\ P(n) \in Seq(V)
  <2>1. GivenGrow(ToSet(lines[r]), s, l, n, Len(s.path))
    BY <1>2, GivenAre
  <2>2. G(n, d) = IF n = m THEN Append(G(n, d - 1), t) ELSE G(n, d - 1)
    BY <2>1 DEF GivenGrow
  <2>3. P(n) \in Seq(V)
    BY SofarBefore
  <2>4. G(n, d - 1) \in Seq(V)
    BY <1>4, GivenInLine
  <2> QED
    BY <2>2, <2>3, <2>4
<1>6. \A n \in DOMAIN b : b[n] = Held(s.flags[n], P(n) \o G(n, d - 1))
  BY DEF HeldAt
<1> HIDE DEF G, P, V, t
<1>7. DOMAIN c = DOMAIN b
      /\ \A n \in DOMAIN b : c[n] = IF n = m THEN Set(s.flags[m], b[m], Parse(s.flags[m], t)) ELSE b[n]
  OBVIOUS
<1>8. c[m] = Held(s.flags[m], P(m) \o G(m, d))
  <2> DEFINE p == P(m)
             q == G(m, d - 1)
  <2>1. p \in Seq(V) /\ q \in Seq(V) /\ G(m, d) = Append(q, t) /\ b[m] = Held(s.flags[m], p \o q)
    BY <1>5, <1>6
  <2> HIDE DEF p, q
  <2> DEFINE pq == p \o q
  <2>2. p \o Append(q, t) = Append(pq, t) /\ pq \in Seq(V)
    <3>1. p \o Append(q, t) = Append(pq, t)
      BY <1>3, <2>1, PutAtTheEnd
    <3>2. pq \in Seq(V)
      BY <2>1, Joined
    <3> QED
      BY <3>1, <3>2
  <2>3. Held(s.flags[m], Append(pq, t)) = Set(s.flags[m], b[m], Parse(s.flags[m], t))
    <3>1. b[m] = Held(s.flags[m], pq)
      BY <2>1
    <3> HIDE DEF pq
    <3>2. Held(s.flags[m], Append(pq, t)) = Set(s.flags[m], Held(s.flags[m], pq), Parse(s.flags[m], t))
      BY <1>3, <2>2, HeldGrows
    <3> QED
      BY <3>1, <3>2
  <2>4. P(m) \o G(m, d) = Append(pq, t)
    BY <2>1, <2>2 DEF p
  <2> QED
    BY <1>7, <2>3, <2>4
<1>9. ASSUME NEW n \in DOMAIN b, n # m PROVE c[n] = Held(s.flags[n], P(n) \o G(n, d))
  BY <1>5, <1>6, <1>7, <1>9
<1> HIDE DEF c
<1>10. HeldAt(c, s, lines, r, d)
  BY <1>7, <1>8, <1>9 DEF HeldAt, G, P
<1> QED
  BY <1>10 DEF c, t

LEMMA HeldEnd ==
  ASSUME NEW s, s.path \in Seq(STRING), NEW lines, Lines(lines), NEW r \in 1 .. Len(lines), NEW b,
         NEW d \in 1 .. Len(Local(lines[r])), Local(lines[r])[d].form = "word",
         Len(CommandsTo(s, Local(lines[r]), d)) > Len(s.path),
         HeldAt(b, s, lines, r, d - 1)
  PROVE  HeldFor(b, s, lines, r)
<1> DEFINE l == Local(lines[r])
           G(n, o) == GivenTo(s, l, n, Len(s.path), o)
<1>1. lines[r] \in Seq(ToSet(lines[r]))
  BY DEF Lines, ToSet
<1>2. l \in Seq(ToSet(lines[r])) /\ Len(s.path) \in Nat
  BY <1>1, LocalIs
<1>3. ASSUME NEW n PROVE OfGroup(s, lines[r], n) = G(n, d - 1)
  <2>1. G(n, Len(l)) = G(n, d - 1)
    <3> HIDE DEF l
    <3> QED
      BY <1>2, GivenAfter DEF l
  <2> QED
    BY <2>1 DEF OfGroup
<1> HIDE DEF G
<1>4. ASSUME NEW n PROVE Sofar(s, lines, n)[r] = Sofar(s, lines, n)[r - 1] \o G(n, d - 1)
  <2>1. SofarGrows(s, lines, n)
    BY SofarIs
  <2>2. Sofar(s, lines, n)[r] = Sofar(s, lines, n)[r - 1] \o OfGroup(s, lines[r], n)
    BY <2>1 DEF SofarGrows
  <2>3. OfGroup(s, lines[r], n) = G(n, d - 1)
    BY <1>3
  <2> QED
    BY <2>2, <2>3
<1>5. \A n : Sofar(s, lines, n)[r] = Sofar(s, lines, n)[r - 1] \o G(n, d - 1)
  BY <1>4
<1> QED
  BY <1>5 DEF HeldAt, HeldFor, G
-----------------------------------------------------------------------------
(* The parts of RequestInv, in terms of what they are about.               *)
RunsPlain(cs, lines, r) == \A i \in 1..r : IsPlain(lines[i]) /\ \E j \in DOMAIN cs : cs[j].run = i

GroupStands == svc.path \in DOMAIN tree /\ tree[svc.path] = Group

GroupParts ==
  /\ Constructed => DOMAIN bound = DOMAIN GroupFlags(svc)
  /\ GroupStands =>
       /\ phase = "preparse" /\ RunsPlain(calls, prog.lines, run - 1) =>
            HeldFor(bound, svc, prog.lines, run - 1)
       /\ phase \in {"group", "dispatch"} /\ RunsPlain(calls, prog.lines, run - 1) /\ IsPlain(args) =>
            HeldAt(bound, svc, prog.lines, run, Over)
       /\ AtMethod /\ RunsPlain(calls, prog.lines, run - 1) /\ IsPlain(args) =>
            HeldFor(bound, svc, prog.lines, run)
       /\ phase \in {"serving", "failed", "idle"} /\ RunsPlain(calls, prog.lines, run) =>
            HeldFor(bound, svc, prog.lines, run)

CallIs(s, lines, cs, c) ==
  LET m == s.methods[c.method]  l == lines[c.run]
  IN  /\ c.source = "flags" /\ IsPlain(l) /\ Commands(s, l) = PathOf(s, c.method) =>
           c.own = [n \in DOMAIN m.flags |-> Field(m.flags[n], OfLeaf(s, l, n, c.method))]
      /\ c.source = "flags" /\ m.bind = "message"
           /\ PathOf(s, c.method) # s.path /\ RunsPlain(cs, lines, c.run) =>
           c.bound = [n \in DOMAIN GroupFlags(s) |-> Field(s.flags[n], Sofar(s, lines, n)[c.run])]
      /\ c.source # "flags" =>
           /\ Commands(s, l) = PathOf(s, c.method) /\ c.own = NoFields
           /\ OnlyGlobal(l) => c.bound = NoFields

InTurn(rs, r) ==
  \A i \in DOMAIN rs :
    IF i = 1 THEN r = 1 => rs[i].n = 1
    ELSE rs[i].n = rs[i - 1].n + IF rs[i - 1].at \in {"eof", "broken"} THEN 0 ELSE 1

LEMMA RequestIs ==
  /\ GroupInv <=> GroupParts
  /\ GroupInv' <=> GroupParts'
  /\ RequestFromLine <=>
       (\A i \in DOMAIN calls : CallIs(svc, prog.lines, calls, calls[i])) /\ InTurn(received, run)
  /\ RequestFromLine' <=>
       /\ \A i \in DOMAIN (calls') : CallIs(svc', prog'.lines, calls', calls'[i])
       /\ InTurn(received', run')
<1>1. GroupInv <=> GroupParts
  BY Zenon DEF GroupInv, GroupParts, GroupStands, PlainRuns, RunsPlain, HeldAfter, HeldFor, HeldWithin,
                  HeldAt, args
<1>2. GroupInv' <=> GroupParts'
  BY Zenon DEF GroupInv, GroupParts, GroupStands, PlainRuns, RunsPlain, HeldAfter, HeldFor, HeldWithin,
                  HeldAt, args
<1>3. RequestFromLine <=>
        (\A i \in DOMAIN calls : CallIs(svc, prog.lines, calls, calls[i])) /\ InTurn(received, run)
  BY Zenon DEF RequestFromLine, CallIs, InTurn, PlainRuns, RunsPlain
<1>4. RequestFromLine' <=>
        /\ \A i \in DOMAIN (calls') : CallIs(svc', prog'.lines, calls', calls'[i])
        /\ InTurn(received', run')
  BY Zenon DEF RequestFromLine, CallIs, InTurn, PlainRuns, RunsPlain
<1> QED
  BY <1>1, <1>2, <1>3, <1>4

(* Where the calls and the input stay, the variables of the flags are what *)
(* there is to say.                                                        *)
LEMMA RequestStays ==
  ASSUME RequestInv, UNCHANGED <<svc, prog, run, calls, received, next>>,
         Interpreting' => Interpreting, GroupParts', LeafInv'
  PROVE  RequestInv'
<1>1. RequestFromLine'
  BY RequestIs DEF RequestInv
<1>2. StreamInv'
  BY DEF RequestInv, StreamInv
<1>3. (Interpreting => \A i \in DOMAIN calls : calls[i].run # run)'
  BY DEF RequestInv
<1> QED
  BY <1>1, <1>2, <1>3, RequestIs DEF RequestInv

(* The line that is interpreted.                                           *)
LEMMA LineIs ==
  ASSUME TreeInv, LineInv, Interpreting
  PROVE  /\ svc \in Services /\ prog \in Programs(svc) /\ Constructed
         /\ Lines(prog.lines) /\ run \in 1 .. Len(prog.lines) /\ args = prog.lines[run]
         /\ args \in Seq(ToSet(args)) /\ Local(args) \in Seq(ToSet(args)) /\ Len(Local(args)) \in Nat
         /\ svc.path \in Seq(STRING) /\ Len(svc.path) \in Nat
<1>1. svc \in Services /\ Constructed /\ prog \in Programs(svc) /\ run \in DOMAIN prog.lines
  BY DEF TreeInv, LineInv, Interpreting, Constructed
<1>2. Lines(prog.lines) /\ DOMAIN prog.lines = 1 .. Len(prog.lines)
  BY <1>1, LinesAre
<1>3. svc.path \in Seq(STRING)
  BY <1>1, RunnerAssumption
<1>4. Len(svc.path) \in Nat
  BY <1>3
<1> QED
  BY <1>1, <1>2, <1>3, <1>4, ArgsAre DEF args

(* A Run that ends without a call leaves its line out of what GroupInv     *)
(* speaks of.                                                              *)
LEMMA StopsRequest ==
  ASSUME TreeInv, LineInv, RequestInv, Interpreting, phase' \in {"idle", "failed"},
         UNCHANGED <<svc, prog, run, tree, bound, calls, received, next>>
  PROVE  RequestInv'
<1>1. run \in 1 .. run /\ Constructed
  BY LineIs
<1>2. \A i \in DOMAIN calls : calls[i].run # run
  BY DEF RequestInv
<1>3. ~RunsPlain(calls', prog'.lines, run')
  BY <1>1, <1>2 DEF RunsPlain
<1>4. DOMAIN bound = DOMAIN GroupFlags(svc)
  BY <1>1, RequestIs DEF RequestInv, GroupParts
<1>5. GroupParts' /\ LeafInv'
  BY <1>3, <1>4 DEF GroupParts, LeafInv, AtMethod
<1> QED
  BY <1>5, RequestStays DEF Interpreting

(* One more call does not change what can be said of earlier Runs.         *)
LEMMA RunsBefore ==
  ASSUME NEW cs, cs \in Seq(ToSet(cs)), NEW call, NEW lines, NEW r, r \in Nat, call.run \notin 1 .. r,
         RunsPlain(Append(cs, call), lines, r)
  PROVE  RunsPlain(cs, lines, r)
<1> SUFFICES ASSUME NEW i \in 1 .. r PROVE IsPlain(lines[i]) /\ \E j \in DOMAIN cs : cs[j].run = i
  BY DEF RunsPlain
<1>1. IsPlain(lines[i]) /\ \E j \in DOMAIN Append(cs, call) : Append(cs, call)[j].run = i
  BY DEF RunsPlain
<1>2. PICK j \in DOMAIN Append(cs, call) : Append(cs, call)[j].run = i
  BY <1>1
<1>3. Append(cs, call)[j] = call \/ (j \in DOMAIN cs /\ Append(cs, call)[j] = cs[j])
  BY LastAppended
<1>4. j \in DOMAIN cs /\ cs[j].run = i
  BY <1>2, <1>3
<1> QED
  BY <1>1, <1>4
-----------------------------------------------------------------------------
(* RequestInv is inductive.                                                *)
LEMMA InitRequest == Init => RequestInv
<1> SUFFICES ASSUME Init PROVE RequestInv
  OBVIOUS
<1>1. phase = "validate" /\ calls = <<>> /\ received = <<>> /\ next = 1
  BY DEF Init
<1>2. DOMAIN <<>> = {} /\ <<>> \in Seq(ToSet(<<>>))
  OBVIOUS
<1>3. GroupParts /\ LeafInv
  BY <1>1 DEF GroupParts, LeafInv, Constructed, AtMethod
<1>4. StreamInv
  BY <1>1, <1>2 DEF StreamInv
<1>5. (\A i \in DOMAIN calls : CallIs(svc, prog.lines, calls, calls[i])) /\ InTurn(received, run)
  BY <1>1, <1>2 DEF InTurn
<1> QED
  BY <1>1, <1>3, <1>4, <1>5, RequestIs DEF RequestInv, Interpreting

LEMMA GenerateRequest ==
  ASSUME TreeInv, ReportInv, RequestInv, Validate \/ InsertMethod \/ Construct
  PROVE  RequestInv'
<1>1. /\ ~Constructed /\ UNCHANGED <<svc, run, calls, received, next>>
      /\ \/ phase' \in {"rejected", "insert", "crashed"}
         \/ /\ phase' = "idle" /\ prog' \in Programs(svc) /\ bound' = NoFlags(GroupFlags(svc))
  <2>1. CASE Validate
    BY <2>1 DEF Validate, Constructed, program, stream
  <2>2. CASE InsertMethod
    BY <2>2 DEF InsertMethod, Constructed, stream
  <2>3. CASE Construct
    BY <2>3 DEF Construct, Constructed, stream
  <2> QED
    BY <2>1, <2>2, <2>3
<1>2. run = 0 /\ calls = <<>> /\ received = <<>> /\ DOMAIN <<>> = {}
  BY <1>1 DEF ReportInv, RequestInv, StreamInv
<1>3. LeafInv' /\ ~Interpreting'
  BY <1>1 DEF LeafInv, AtMethod, Interpreting
<1>4. StreamInv'
  BY <1>1 DEF RequestInv, StreamInv
<1>5. RequestFromLine'
  BY <1>1, <1>2, RequestIs DEF InTurn
<1>6. GroupParts'
  <2>1. CASE phase' \in {"rejected", "insert", "crashed"}
    BY <2>1 DEF GroupParts, Constructed, AtMethod
  <2>2. CASE /\ phase' = "idle" /\ prog' \in Programs(svc) /\ bound' = NoFlags(GroupFlags(svc))
    <3>1. DOMAIN (bound') = DOMAIN GroupFlags(svc) /\ \A n \in DOMAIN (bound') : bound'[n] = <<>>
      BY <2>2 DEF NoFlags
    <3>2. Lines(prog'.lines)
      <4>1. svc \in Services
        BY DEF TreeInv
      <4> QED
        BY <2>2, <4>1, LinesAre
    <3>3. \A n : Sofar(svc, prog'.lines, n)[0] = <<>>
      <4>1. ASSUME NEW n PROVE Sofar(svc, prog'.lines, n)[0] = <<>>
        <5>1. SofarGrows(svc, prog'.lines, n)
          BY <3>2, SofarIs
        <5> QED
          BY <5>1 DEF SofarGrows
      <4> QED
        BY <4>1
    <3>4. HeldFor(bound', svc, prog'.lines, 0)
      BY <3>1, <3>3, HeldNone DEF HeldFor
    <3> QED
      BY <1>1, <1>2, <2>2, <3>1, <3>4 DEF GroupParts, AtMethod
  <2> QED
    BY <1>1, <2>1, <2>2
<1> QED
  BY <1>3, <1>4, <1>5, <1>6, RequestIs DEF RequestInv

LEMMA StartRequest ==
  ASSUME TreeInv, ReportInv, LineInv, RequestInv, Start
  PROVE  RequestInv'
<1>1. /\ phase = "idle" /\ phase' = "preparse" /\ run' = run + 1
      /\ UNCHANGED <<svc, prog, tree, calls, bound>> /\ received' = <<>>
      /\ received = <<>> => next' = next
  BY DEF Start
<1>2. run \in Nat /\ run' - 1 = run /\ Constructed
  BY <1>1 DEF ReportInv, Constructed
<1>3. GroupParts'
  <2>1. DOMAIN bound = DOMAIN GroupFlags(svc)
    BY <1>2, RequestIs DEF RequestInv, GroupParts
  <2>2. ASSUME GroupStands, RunsPlain(calls, prog.lines, run) PROVE HeldFor(bound, svc, prog.lines, run)
    BY <1>1, <2>2, RequestIs DEF RequestInv, GroupParts
  <2> QED
    BY <1>1, <1>2, <2>1, <2>2 DEF GroupParts, GroupStands, AtMethod
<1>4. LeafInv'
  BY <1>1 DEF LeafInv, AtMethod
<1>5. DOMAIN <<>> = {} /\ <<>> \in Seq(ToSet(<<>>))
  OBVIOUS
<1>6. StreamInv'
  <2>1. next' \in Nat
    BY <1>1 DEF Start, RequestInv, StreamInv
  <2> QED
    BY <1>1, <1>2, <1>5, <2>1 DEF RequestInv, StreamInv
<1>7. RequestFromLine'
  BY <1>1, <1>5, RequestIs DEF RequestInv, InTurn
<1>8. \A i \in DOMAIN calls : calls[i].run \in 0 .. run
  BY DEF ReportInv
<1>9. (Interpreting => \A i \in DOMAIN calls : calls[i].run # run)'
  BY <1>1, <1>2, <1>8
<1> QED
  BY <1>3, <1>4, <1>6, <1>7, <1>9, RequestIs DEF RequestInv

LEMMA ServeRequest ==
  ASSUME RequestInv, ReportInv, Receive \/ Send \/ ReturnError \/ ReturnStream \/ ReturnResponse \/ Report
  PROVE  RequestInv'
<1>1. /\ phase \in {"serving", "failed"} /\ phase' \in {"serving", "failed", "idle"}
      /\ UNCHANGED <<svc, prog, run, tree, bound, calls>>
      /\ Receive \/ UNCHANGED <<received, next>>
  <2>1. CASE Receive \/ Send
    BY <2>1 DEF Receive, Send, Serving, program, flags
  <2>2. CASE ReturnError
    BY <2>2 DEF ReturnError, Serving, program, flags, stream
  <2>3. CASE ReturnStream
    BY <2>3 DEF ReturnStream, Serving, program, flags, stream
  <2>4. CASE ReturnResponse
    <3>1. /\ phase = "serving" /\ phase' \in {"failed", "idle"}
          /\ UNCHANGED <<program, flags, calls, received, next>>
      BY <2>4, Zenon DEF ReturnResponse, Serving
    <3> QED
      BY <3>1 DEF program, flags
  <2>5. CASE Report
    BY <2>5 DEF Report, program, flags, stream
  <2> QED
    BY <2>1, <2>2, <2>3, <2>4, <2>5
<1>2. Constructed /\ ~Interpreting /\ ~Interpreting' /\ LeafInv'
  BY <1>1 DEF Constructed, Interpreting, LeafInv, AtMethod
<1>3. GroupParts'
  <2>1. DOMAIN bound = DOMAIN GroupFlags(svc)
    BY <1>2, RequestIs DEF RequestInv, GroupParts
  <2>2. ASSUME GroupStands, RunsPlain(calls, prog.lines, run) PROVE HeldFor(bound, svc, prog.lines, run)
    BY <1>1, <2>2, RequestIs DEF RequestInv, GroupParts
  <2> QED
    BY <1>1, <2>1, <2>2 DEF GroupParts, GroupStands, AtMethod
<1>4. CASE ~Receive
  <2>1. UNCHANGED <<received, next>>
    BY <1>1, <1>4
  <2> QED
    BY <1>1, <1>2, <1>3, <2>1, RequestStays
<1>5. CASE Receive
  <2>1. PICK at : /\ received' = Append(received, [n |-> next, at |-> at])
                  /\ next' = IF at \in {"eof", "broken"} THEN next ELSE next + 1
    BY <1>5, Zenon DEF Receive
  <2> DEFINE e == [n |-> next, at |-> at]
             m == Len(received)
  <2>2. /\ received' \in Seq(ToSet(received')) /\ received' # <<>> /\ Last(received') = e
        /\ DOMAIN received = 1 .. m /\ m \in Nat
    BY <2>1, LastAppended DEF RequestInv, StreamInv
  <2>3. /\ DOMAIN (received') = 1 .. m + 1 /\ received'[m + 1] = e
        /\ \A i \in 1 .. m : received'[i] = received[i]
    <3>1. received \in Seq(ToSet(received) \union {e}) /\ e \in ToSet(received) \union {e}
      <4> HIDE DEF e
      <4> QED
        BY OverMore DEF RequestInv, StreamInv
    <3> DEFINE q == Append(received, e)
               S == ToSet(received) \union {e}
    <3> HIDE DEF e, S
    <3>2. /\ q \in Seq(S) /\ Len(q) = m + 1 /\ q[m + 1] = e /\ \A i \in 1 .. m : q[i] = received[i]
      BY <3>1, Appended DEF S
    <3>3. DOMAIN q = 1 .. Len(q)
      BY <3>2
    <3> HIDE DEF q
    <3>4. received' = q
      BY <2>1 DEF q, e
    <3> QED
      BY <3>2, <3>3, <3>4
  <2>4. e.n = next /\ e.at = at
    OBVIOUS
  <2> HIDE DEF e
  <2>5. run # 0
    BY <1>1 DEF ReportInv, Constructed
  <2>6. StreamInv'
    <3>1. /\ next' = Last(received').n + IF Last(received').at \in {"eof", "broken"} THEN 0 ELSE 1
          /\ next' \in Nat
      BY <2>1, <2>2, <2>4 DEF RequestInv, StreamInv
    <3> QED
      BY <1>1, <2>2, <2>5, <3>1 DEF StreamInv
  <2>7. InTurn(received', run')
    <3> SUFFICES ASSUME NEW i \in 1 .. m + 1
                 PROVE  IF i = 1 THEN run = 1 => received'[i].n = 1
                        ELSE received'[i].n = received'[i - 1].n
                               + IF received'[i - 1].at \in {"eof", "broken"} THEN 0 ELSE 1
      BY <1>1, <2>3 DEF InTurn
    <3>1. CASE i \in 1 .. m
      <4>1. InTurn(received, run)
        BY RequestIs DEF RequestInv
      <4>2. received'[i] = received[i] /\ (i # 1 => received'[i - 1] = received[i - 1])
        BY <2>2, <2>3, <3>1
      <4> QED
        BY <2>2, <3>1, <4>1, <4>2 DEF InTurn
    <3>2. CASE i = m + 1 /\ m = 0
      <4>1. received = <<>>
        BY <3>2 DEF RequestInv, StreamInv
      <4>2. run = 1 => next = 1
        BY <4>1 DEF RequestInv, StreamInv
      <4> QED
        BY <2>3, <2>4, <3>2, <4>2
    <3>3. CASE i = m + 1 /\ m # 0
      <4>1. received # <<>> /\ Last(received) = received[m]
        BY <2>2, <3>3 DEF Last
      <4>2. next = received[m].n + IF received[m].at \in {"eof", "broken"} THEN 0 ELSE 1
        BY <4>1 DEF RequestInv, StreamInv
      <4>3. received'[i - 1] = received[m] /\ i # 1 /\ received'[i].n = next
        BY <2>2, <2>3, <2>4, <3>3
      <4> QED
        BY <4>2, <4>3
    <3> QED
      BY <2>2, <3>1, <3>2, <3>3
  <2>8. RequestFromLine'
    <3>1. \A i \in DOMAIN calls : CallIs(svc, prog.lines, calls, calls[i])
      BY RequestIs DEF RequestInv
    <3> QED
      BY <1>1, <2>7, <3>1, RequestIs
  <2> QED
    BY <1>2, <1>3, <2>6, <2>8, RequestIs DEF RequestInv
<1> QED
  BY <1>4, <1>5

LEMMA PreParseRequest ==
  ASSUME TreeInv, LineInv, RequestInv, PreParseArg
  PROVE  RequestInv'
<1>1. \/ UNCHANGED <<phase, bound, calls, received, next>>
      \/ phase' = "idle" /\ UNCHANGED <<bound, calls, received, next>>
  BY Zenon DEF PreParseArg, FailUnmapped, flags, stream
<1>2. phase = "preparse" /\ UNCHANGED <<svc, prog, run, tree>>
  BY Zenon DEF PreParseArg, program
<1>3. Interpreting /\ Constructed
  BY <1>2 DEF Interpreting, Constructed
<1>4. CASE phase' = phase
  <2>1. UNCHANGED <<bound, calls, received, next>>
    BY <1>1
  <2>2. GroupParts
    BY RequestIs DEF RequestInv
  <2>3. GroupParts'
    BY <1>2, <1>4, <2>1, <2>2 DEF GroupParts, GroupStands, AtMethod, Constructed
  <2>4. LeafInv'
    BY <1>2, <1>4 DEF LeafInv, AtMethod
  <2> QED
    BY <1>2, <1>3, <2>1, <2>3, <2>4, RequestStays
<1>5. CASE phase' # phase
  BY <1>1, <1>2, <1>3, <1>5, StopsRequest
<1> QED
  BY <1>4, <1>5

LEMMA PreParsedRequest ==
  ASSUME TreeInv, LineInv, RequestInv, PreParsed
  PROVE  RequestInv'
<1>1. /\ phase = "preparse" /\ k > Len(args) /\ phase' = "group"
      /\ UNCHANGED <<svc, prog, run, tree, bound, calls, rest, received, next>>
  BY DEF PreParsed, program, line, flags, stream
<1>2. Interpreting /\ Constructed
  BY <1>1 DEF Interpreting, Constructed
<1>3. rest = Local(args)
  <2>1. Len(args) \in Nat
    BY <1>2, ArgsAre
  <2>2. k - 1 = Len(args) /\ rest = LocalTo(args)[k - 1]
    BY <1>1, <2>1 DEF LineInv, PreParsing
  <2> QED
    BY <2>2 DEF Local
<1>4. Over' = 0
  <2>1. Len(Local(args)) \in Nat /\ args' = args
    BY <1>1, <1>2, LineIs DEF args
  <2> QED
    BY <1>1, <1>3, <2>1 DEF Over
<1>5. ASSUME GroupStands, RunsPlain(calls, prog.lines, run - 1)
      PROVE  HeldAt(bound, svc, prog.lines, run, 0)
  <2>1. HeldFor(bound, svc, prog.lines, run - 1)
    BY <1>1, <1>5, RequestIs DEF RequestInv, GroupParts
  <2> QED
    BY <1>2, <2>1, LineIs, HeldStart
<1>6. GroupParts'
  <2>1. DOMAIN bound = DOMAIN GroupFlags(svc)
    BY <1>2, RequestIs DEF RequestInv, GroupParts
  <2> QED
    BY <1>1, <1>4, <1>5, <2>1 DEF GroupParts, GroupStands, AtMethod
<1>7. LeafInv'
  BY <1>1 DEF LeafInv, AtMethod
<1> QED
  BY <1>1, <1>2, <1>6, <1>7, RequestStays

LEMMA GroupFlagsParsedRequest ==
  ASSUME RequestInv, GroupFlagsParsed
  PROVE  RequestInv'
<1>1. /\ phase = "group" /\ phase' = "dispatch"
      /\ UNCHANGED <<svc, prog, run, tree, bound, calls, rest, received, next>>
  BY DEF GroupFlagsParsed, program, line, flags, stream
<1>2. GroupParts /\ Interpreting /\ Constructed
  BY <1>1, RequestIs DEF RequestInv, Interpreting, Constructed
<1>3. GroupParts'
  BY <1>1, <1>2 DEF GroupParts, GroupStands, AtMethod, Constructed, args, Over
<1>4. LeafInv'
  BY <1>1 DEF LeafInv, AtMethod
<1> QED
  BY <1>1, <1>2, <1>3, <1>4, RequestStays

(* How far the local arguments have been interpreted.                      *)
LEMMA OverIs ==
  ASSUME NEW s, NEW A, NEW l \in Seq(A), NEW d, NEW r, NEW n, Reached(s, l, d, r, n)
  PROVE  /\ d \in 1 .. Len(l) + 1 /\ Len(l) - Len(r) = d - 1 /\ n = CommandsTo(s, l, d - 1)
         /\ Len(r) \in Nat
         /\ r # <<>> => d \in 1 .. Len(l) /\ r[1] = l[d]
<1>1. d \in 1 .. Len(l) + 1 /\ Ends(r, l, d) /\ n = CommandsTo(s, l, d - 1)
  BY DEF Reached
<1>2. /\ Len(r) = Len(l) + 1 - d /\ (r # <<>> <=> d <= Len(l))
      /\ \A i \in 1 .. Len(r) : r[i] = l[d + i - 1]
  BY <1>1, EndIs
<1>3. Len(l) \in Nat /\ d \in Nat /\ d >= 1
  BY <1>1
<1>4. r # <<>> => 1 \in 1 .. Len(r) /\ d + 1 - 1 = d
  BY <1>1, <1>2, <1>3
<1> QED
  BY <1>1, <1>2, <1>3, <1>4

(* An inline flag that is taken: the next argument and its value.          *)
LEMMA InlineIs ==
  ASSUME NEW message, NEW vs, rest[1].form = "inline", ~BadFlag(message)
  PROVE  /\ rest[1].name \in DOMAIN message /\ AfterFlag(message) = SubSeq(rest, 2, Len(rest))
         /\ WithFlag(message, vs) =
              [vs EXCEPT ![rest[1].name] =
                 Set(message[rest[1].name], @, Parse(message[rest[1].name], rest[1].value))]
<1>1. rest[1].name \in DOMAIN message
  BY DEF BadFlag, IsFlag
<1>2. ~IsSwitch(message) /\ Width(rest[1]) = 1 /\ ValueAt(rest, 1) = rest[1].value
  BY DEF IsSwitch, Width, ValueAt
<1>3. FlagValue(message) = rest[1].value
  BY <1>2 DEF FlagValue
<1>4. AfterFlag(message) = SubSeq(rest, 2, Len(rest))
  BY <1>2 DEF AfterFlag
<1> QED
  BY <1>1, <1>3, <1>4 DEF WithFlag

LEMMA GroupFlagRequest ==
  ASSUME TreeInv, LineInv, RequestInv, ParseGroupFlag
  PROVE  RequestInv'
<1> DEFINE l == Local(args)
           arg == rest[1]
<1>1. /\ phase = "group" /\ rest # <<>> /\ arg.form # "word" /\ DOMAIN bound # {} /\ node = svc.path
      /\ UNCHANGED <<svc, prog, run, tree>>
  BY DEF ParseGroupFlag, MoreFlags, HasFlags, program
<1>2. /\ UNCHANGED <<calls, received, next>>
      /\ \/ phase' \in {"idle", "failed"} /\ UNCHANGED bound
         \/ phase' = "dispatch" /\ arg.form = "dashes" /\ UNCHANGED bound
         \/ /\ phase' = "group" /\ ~BadFlag(svc.flags)
            /\ bound' = WithFlag(svc.flags, bound) /\ rest' = AfterFlag(svc.flags)
  BY DEF ParseGroupFlag, Done, Fail, flags, stream
<1>3. Interpreting /\ Constructed /\ args' = args
  BY <1>1 DEF Interpreting, Constructed, args
<1>4. /\ l \in Seq(ToSet(args)) /\ Lines(prog.lines) /\ run \in 1 .. Len(prog.lines)
      /\ args = prog.lines[run] /\ args \in Seq(ToSet(args))
  BY <1>3, LineIs
<1>5. PICK d : Reached(svc, l, d, rest, node)
  BY <1>1, TraversingIs DEF LineInv
<1>6. /\ d \in 1 .. Len(l) /\ arg = l[d] /\ Len(l) - Len(rest) = d - 1
      /\ node = CommandsTo(svc, l, d - 1)
  <2> HIDE DEF l
  <2> QED
    BY <1>1, <1>4, <1>5, OverIs
<1>7. DOMAIN bound = DOMAIN GroupFlags(svc)
  BY <1>3, RequestIs DEF RequestInv, GroupParts
<1>8. IsPlain(args) => arg.form = "inline"
  <2>1. IsPlain(args) => \A i \in 1 .. Len(l) : l[i].form \in {"word", "inline"}
    BY <1>4, PlainIs
  <2> QED
    BY <1>1, <1>6, <2>1
<1>9. CASE phase' \in {"idle", "failed"}
  BY <1>1, <1>2, <1>3, <1>9, StopsRequest
<1>10. CASE phase' = "dispatch"
  <2>1. ~IsPlain(args) /\ bound' = bound
    BY <1>2, <1>8, <1>10
  <2>2. GroupParts' /\ LeafInv'
    BY <1>1, <1>3, <1>7, <1>10, <2>1 DEF GroupParts, LeafInv, AtMethod
  <2> QED
    BY <1>1, <1>2, <1>3, <2>2, RequestStays
<1>11. CASE phase' = "group"
  <2>1. ~BadFlag(svc.flags) /\ bound' = WithFlag(svc.flags, bound) /\ rest' = AfterFlag(svc.flags)
    BY <1>2, <1>11
  <2>2. DOMAIN (bound') = DOMAIN bound
    BY <2>1 DEF WithFlag
  <2>3. ASSUME GroupStands, RunsPlain(calls, prog.lines, run - 1), IsPlain(args)
        PROVE  HeldAt(bound', svc, prog.lines, run, Over')
    <3>1. HeldAt(bound, svc, prog.lines, run, d - 1)
      BY <1>1, <1>6, <2>3, RequestIs DEF RequestInv, GroupParts, Over
    <3>2. arg.form = "inline"
      BY <1>8, <2>3
    <3>3. /\ arg.name \in DOMAIN svc.flags /\ rest' = SubSeq(rest, 2, Len(rest))
          /\ bound' = [bound EXCEPT ![arg.name] = Set(svc.flags[arg.name], @,
                                                      Parse(svc.flags[arg.name], arg.value))]
      BY <2>1, <3>2, InlineIs
    <3>4. arg.name \in DOMAIN bound
      BY <1>1, <1>7, <3>3 DEF GroupFlags, NoFields
    <3>5. d \notin HaveValue(svc, l)
      BY <1>6, <3>2 DEF HaveValue
    <3>6. Reached(svc, l, d + 1, rest', node)
      <4> HIDE DEF l
      <4> QED
        BY <1>1, <1>4, <1>5, <3>3, <3>5, OverNoWord
    <3>7. Over' = d /\ CommandsTo(svc, l, d) = node
      <4>1. Len(l) - Len(rest') = (d + 1) - 1 /\ node = CommandsTo(svc, l, (d + 1) - 1)
        <5> HIDE DEF l
        <5> QED
          BY <1>4, <3>6, OverIs
      <4>2. (d + 1) - 1 = d
        BY <1>6
      <4> QED
        BY <1>3, <4>1, <4>2 DEF Over
    <3> DEFINE m == arg.name
    <3>8. HeldAt([bound EXCEPT ![m] = Set(svc.flags[m], @, Parse(svc.flags[m], l[d].value))],
                 svc, prog.lines, run, d)
      <4>1. l = Local(prog.lines[run]) /\ l[d].form = "inline" /\ m = l[d].name /\ m \in DOMAIN bound
            /\ Len(CommandsTo(svc, l, d)) = Len(svc.path) /\ d \in 1 .. Len(l)
        BY <1>1, <1>4, <1>6, <3>2, <3>4, <3>7
      <4> HIDE DEF l, m
      <4> QED
        BY <1>4, <3>1, <4>1, HeldFlag
    <3> QED
      BY <1>6, <3>3, <3>7, <3>8
  <2>4. GroupParts'
    BY <1>1, <1>2, <1>3, <1>7, <1>11, <2>2, <2>3 DEF GroupParts, GroupStands, AtMethod
  <2>5. LeafInv'
    BY <1>11 DEF LeafInv, AtMethod
  <2> QED
    BY <1>1, <1>2, <1>3, <2>4, <2>5, RequestStays
<1> QED
  BY <1>2, <1>9, <1>10, <1>11

(* A command is at the group's path, or below it.                          *)
LEMMA BelowGroup ==
  ASSUME svc \in Services, NEW c \in Exposed(svc)
  PROVE  /\ PathOf(svc, c) \in AllPaths /\ svc.path \in AllPaths
         /\ Len(PathOf(svc, c)) \in Nat /\ Len(svc.path) \in Nat
         /\ \/ PathOf(svc, c) = svc.path
            \/ Len(svc.path) < Len(PathOf(svc, c)) /\ IsStrictPrefix(svc.path, PathOf(svc, c))
<1> DEFINE p == svc.path
           q == svc.methods[c].path
           r == PathOf(svc, c)
           S == STRING \union {"schema"}
<1>1. p \in Seq(STRING) /\ q \in Seq(STRING)
  BY RunnerAssumption DEF Exposed, ToSet
<1>2. p \in Seq(S) /\ q \in Seq(S) /\ STRING \subseteq S
  BY <1>1, OverMore
<1>3. r = p \o q
  BY DEF PathOf
<1> HIDE DEF p, q, r, S
<1>4. /\ r \in Seq(S) /\ Len(r) = Len(p) + Len(q)
      /\ \A i \in 1 .. Len(p) + Len(q) : r[i] = IF i <= Len(p) THEN p[i] ELSE q[i - Len(p)]
  BY <1>2, <1>3, Joined
<1>5. Len(p) \in Nat /\ Len(q) \in Nat
  BY <1>2
<1>6. \A i \in 1 .. Len(p) : r[i] = p[i]
  BY <1>4, <1>5
<1>7. CASE Len(q) = 0
  <2>1. r = p
    BY <1>2, <1>4, <1>5, <1>6, <1>7, SameElements
  <2> QED
    BY <1>2, <1>4, <1>5, <2>1 DEF p, r, S, AllPaths
<1>8. CASE Len(q) > 0
  <2>1. Len(p) < Len(r)
    BY <1>4, <1>5, <1>8
  <2>2. IsStrictPrefix(p, r)
    BY <1>2, <1>4, <1>6, <2>1, StrictPrefixIs
  <2> QED
    BY <1>2, <1>4, <1>5, <2>1, <2>2 DEF p, r, S, AllPaths
<1> QED
  BY <1>5, <1>7, <1>8

LEMMA DispatchRequest ==
  ASSUME TreeInv, LineInv, RequestInv, Dispatch
  PROVE  RequestInv'
<1> DEFINE l == Local(args)
           arg == rest[1]
           child == Append(node, arg.value)
           own1 == NoFlags(svc.methods[tree[child]].flags)
<1>1. phase = "dispatch" /\ UNCHANGED <<svc, prog, run, tree>>
  BY DEF Dispatch, program
<1>2. /\ UNCHANGED <<bound, calls, received, next>>
      /\ \/ phase' \in {"idle", "failed"}
         \/ /\ rest # <<>> /\ arg.form = "word" /\ child \in DOMAIN tree
            /\ phase' = IF tree[child] = Group THEN "group" ELSE "leaf"
            /\ tree[child] \notin {Group, Show} => own' = own1
            /\ node' = child /\ rest' = Tail(rest)
  BY DEF Dispatch, Done, Fail, flags, stream, Text
<1>3. Interpreting /\ Constructed /\ args' = args
  BY <1>1 DEF Interpreting, Constructed, args
<1>4. /\ l \in Seq(ToSet(args)) /\ Lines(prog.lines) /\ run \in 1 .. Len(prog.lines)
      /\ args = prog.lines[run] /\ args \in Seq(ToSet(args)) /\ Len(l) \in Nat
      /\ svc \in Services /\ svc.path \in Seq(STRING)
  BY <1>3, LineIs
<1>5. CASE phase' \in {"idle", "failed"}
  BY <1>1, <1>2, <1>3, <1>5, StopsRequest
<1>6. CASE phase' \notin {"idle", "failed"}
  <2>1. /\ rest # <<>> /\ arg.form = "word" /\ child \in DOMAIN tree
        /\ phase' = IF tree[child] = Group THEN "group" ELSE "leaf"
        /\ tree[child] \notin {Group, Show} => own' = own1
        /\ node' = child /\ rest' = Tail(rest)
    BY <1>2, <1>6
  <2>2. PICK d : Reached(svc, l, d, rest, node)
    BY <1>1, TraversingIs DEF LineInv
  <2>3. /\ d \in 1 .. Len(l) /\ arg = l[d] /\ Len(l) - Len(rest) = d - 1
        /\ node = CommandsTo(svc, l, d - 1)
    <3> HIDE DEF l
    <3> QED
      BY <1>4, <2>1, <2>2, OverIs
  <2>4. Reached(svc, l, d + 1, rest', child)
    <3> HIDE DEF l
    <3> QED
      BY <1>4, <2>1, <2>2, OverWord
  <2>5. Over' = d /\ CommandsTo(svc, l, d) = child /\ rest' = SubSeq(l, d + 1, Len(l))
    <3>1. Len(l) - Len(rest') = (d + 1) - 1 /\ child = CommandsTo(svc, l, (d + 1) - 1)
      <4> HIDE DEF l, child
      <4> QED
        BY <1>4, <2>4, OverIs
    <3>2. (d + 1) - 1 = d
      BY <2>3
    <3>3. rest' = SubSeq(l, d + 1, Len(l))
      BY <2>4 DEF Reached, Ends
    <3> QED
      BY <1>3, <3>1, <3>2, <3>3 DEF Over
  <2>6. DOMAIN bound = DOMAIN GroupFlags(svc)
    BY <1>3, RequestIs DEF RequestInv, GroupParts
  <2>7. GroupStands /\ RunsPlain(calls, prog.lines, run - 1) /\ IsPlain(args)
          => HeldAt(bound, svc, prog.lines, run, d - 1)
    BY <1>1, <2>3, RequestIs DEF RequestInv, GroupParts, Over
  <2>8. CASE tree[child] = Group
    <3>1. HeldAt(bound, svc, prog.lines, run, d - 1) => HeldAt(bound, svc, prog.lines, run, d)
      <4>1. l = Local(prog.lines[run]) /\ l[d].form = "word"
        BY <1>4, <2>1, <2>3
      <4> HIDE DEF l
      <4> QED
        BY <1>4, <2>3, <4>1, HeldWord
    <3> HIDE DEF child, l
    <3>2. GroupParts'
      BY <1>1, <1>2, <1>3, <2>1, <2>5, <2>6, <2>7, <2>8, <3>1 DEF GroupParts, GroupStands, AtMethod
    <3>3. LeafInv'
      BY <2>1, <2>8 DEF LeafInv, AtMethod
    <3> QED
      BY <1>1, <1>2, <1>3, <3>2, <3>3, RequestStays
  <2>9. CASE tree[child] = Show
    <3>1. ~AtMethod' /\ phase' = "leaf"
      BY <1>1, <2>1, <2>9 DEF AtMethod, Group, Show
    <3>2. GroupParts' /\ LeafInv'
      BY <1>1, <1>2, <1>3, <2>6, <3>1 DEF GroupParts, LeafInv
    <3> QED
      BY <1>1, <1>2, <1>3, <3>2, RequestStays
  <2>10. CASE tree[child] \notin {Group, Show}
    <3>1. tree[child] \in Exposed(svc) /\ child = PathOf(svc, tree[child])
      BY <2>1, <2>10 DEF LineInv, LeavesInPlace
    <3>2. GroupStands => Len(child) > Len(svc.path)
      BY <1>4, <2>10, <3>1, BelowGroup DEF GroupStands
    <3>3. GroupStands /\ HeldAt(bound, svc, prog.lines, run, d - 1) => HeldFor(bound, svc, prog.lines, run)
      <4>1. l = Local(prog.lines[run]) /\ l[d].form = "word"
        BY <1>4, <2>1, <2>3
      <4> HIDE DEF l, child
      <4> QED
        BY <1>4, <2>3, <2>5, <3>2, <4>1, HeldEnd
    <3>4. GroupParts'
      <4> HIDE DEF child, l, own1
      <4> QED
        BY <1>1, <1>2, <1>3, <2>1, <2>6, <2>7, <2>10, <3>3 DEF GroupParts, GroupStands, AtMethod
    <3>5. Method' = svc.methods[tree[child]]
      BY <1>1, <2>1 DEF Method
    <3>6. ASSUME NEW n PROVE GivenTo(svc, l, n, Len(child), d) = <<>>
      <4>1. d - 1 \in 0 .. Len(l) /\ Len(child) \in Nat /\ Len(CommandsTo(svc, l, d - 1)) < Len(child)
        <5>1. d - 1 \in 0 .. Len(l) /\ d \in 1 .. Len(l)
          BY <1>4, <2>3
        <5>2. node \in Seq(ValuesIn(ToSet(args)))
          <6> HIDE DEF l
          <6> QED
            BY <1>4, <2>3, <5>1, CommandsAre
        <5>3. Len(node) \in Nat /\ Len(child) = Len(node) + 1
          BY <5>2
        <5> HIDE DEF child
        <5> QED
          BY <2>3, <5>1, <5>3
      <4> HIDE DEF child, l
      <4>2. GivenTo(svc, l, n, Len(child), d - 1) = <<>>
        BY <1>4, <4>1, GivenBefore
      <4>3. GivenGrow(ToSet(args), svc, l, n, Len(child))
        BY <1>4, GivenAre
      <4> QED
        BY <2>1, <2>3, <4>2, <4>3 DEF GivenGrow
    <3>7. DOMAIN (own') = DOMAIN Method'.flags /\ \A n \in DOMAIN (own') : own'[n] = <<>>
      BY <2>1, <2>10, <3>5 DEF NoFlags
    <3> HIDE DEF child, l, own1
    <3>8. \A n \in DOMAIN (own') : own'[n] = Held(Method'.flags[n], GivenTo(svc, l, n, Len(child), d))
      BY <3>6, <3>7, HeldNone
    <3>9. LeafInv'
      <4>1. d \in 0 .. Len(l)
        BY <1>4, <2>3
      <4> QED
        BY <1>1, <1>3, <2>1, <2>5, <3>7, <3>8, <4>1 DEF LeafInv, l
    <3> QED
      BY <1>1, <1>2, <1>3, <3>4, <3>9, RequestStays
  <2> QED
    BY <2>8, <2>9, <2>10
<1> QED
  BY <1>5, <1>6

(* What a flag with its value leaves is an end of the line, too.           *)
LEMMA AfterFlagIs ==
  ASSUME NEW message, NEW A, NEW l \in Seq(A), NEW d \in 1 .. Len(l) + 1, Ends(rest, l, d),
         rest # <<>>, IsFlag(rest[1]), ~BadFlag(message)
  PROVE  \E e \in 2 .. Len(l) + 1 : Ends(AfterFlag(message), l, e)
<1>1. /\ Len(rest) = Len(l) + 1 - d /\ d <= Len(l)
      /\ \A e \in 2 .. Len(rest) + 1, f \in 1 .. Len(l) + 1 :
           f = d + e - 1 => Ends(SubSeq(rest, e, Len(rest)), l, f)
  BY EndIs
<1>2. Len(l) \in Nat /\ d \in Nat /\ d >= 1
  OBVIOUS
<1>3. PICK e \in {2, 3} : e <= Len(rest) + 1 /\ AfterFlag(message) = SubSeq(rest, e, Len(rest))
  <2>1. CASE IsSwitch(message)
    BY <1>1, <1>2, <2>1 DEF AfterFlag
  <2>2. CASE ~IsSwitch(message) /\ rest[1].form = "inline"
    <3>1. AfterFlag(message) = SubSeq(rest, 2, Len(rest))
      BY <2>2 DEF AfterFlag, Width
    <3> QED
      BY <1>1, <1>2, <3>1
  <2>3. CASE ~IsSwitch(message) /\ rest[1].form # "inline"
    <3>1. AfterFlag(message) = SubSeq(rest, 3, Len(rest))
      BY <2>3 DEF AfterFlag, Width
    <3>2. 1 < Len(rest)
      BY <2>3 DEF BadFlag, FlagValue, ValueAt
    <3> QED
      BY <1>1, <1>2, <3>1, <3>2
  <2> QED
    BY <2>1, <2>2, <2>3
<1>4. d + e - 1 \in 2 .. Len(l) + 1 /\ d + e - 1 \in 1 .. Len(l) + 1 /\ e \in 2 .. Len(rest) + 1
  BY <1>1, <1>2, <1>3
<1>5. Ends(AfterFlag(message), l, d + e - 1)
  BY <1>1, <1>3, <1>4
<1> QED
  BY <1>4, <1>5

(* How much of the line has been interpreted.                              *)
LEMMA OverEnd ==
  ASSUME NEW A, NEW l \in Seq(A), NEW d \in 1 .. Len(l) + 1, NEW r, Ends(r, l, d)
  PROVE  /\ Len(l) - Len(r) = d - 1 /\ Len(l) - Len(r) \in 0 .. Len(l)
         /\ r = SubSeq(l, (Len(l) - Len(r)) + 1, Len(l))
<1>1. Len(r) = Len(l) + 1 - d
  BY EndIs
<1>2. Len(l) \in Nat /\ d \in Nat /\ d >= 1 /\ d <= Len(l) + 1
  OBVIOUS
<1>3. Len(l) - Len(r) = d - 1 /\ (Len(l) - Len(r)) + 1 = d
  BY <1>1, <1>2
<1>4. r = SubSeq(l, (Len(l) - Len(r)) + 1, Len(l))
  BY <1>3 DEF Ends
<1> QED
  BY <1>2, <1>3, <1>4

LEMMA LeafFlagRequest ==
  ASSUME TreeInv, LineInv, RequestInv, ParseLeafFlag
  PROVE  RequestInv'
<1> DEFINE l == Local(args)
           arg == rest[1]
           message == Method.flags
           d == Over + 1
<1>1. /\ AtMethod /\ ~FromStdin /\ json = None /\ rest # <<>> /\ arg.form \notin {"word", "dashes"}
      /\ UNCHANGED <<svc, prog, run, tree>> /\ phase = "leaf"
  BY DEF ParseLeafFlag, MoreFlags, AtMethod, program
<1>2. /\ UNCHANGED <<bound, calls, received, next>>
      /\ \/ phase' = "failed"
         \/ /\ phase' = "leaf" /\ UNCHANGED <<node, json>> /\ ~BadFlag(message)
            /\ own' = WithFlag(message, own) /\ rest' = AfterFlag(message)
  BY <1>1 DEF ParseLeafFlag, Fail, flags, stream, globals
<1>3. Interpreting /\ Constructed /\ args' = args
  BY <1>1 DEF Interpreting, Constructed, args
<1>4. CASE phase' = "failed"
  BY <1>1, <1>2, <1>3, <1>4, StopsRequest
<1>5. CASE phase' = "leaf"
  <2>1. /\ UNCHANGED <<node, json>> /\ ~BadFlag(message)
        /\ own' = WithFlag(message, own) /\ rest' = AfterFlag(message)
    BY <1>2, <1>5
  <2>2. /\ l \in Seq(ToSet(args)) /\ Len(l) \in Nat /\ Arguments(ToSet(args))
    BY <1>3, ArgsAre
  <2>3. /\ Over \in 0 .. Len(l) /\ rest = SubSeq(l, d, Len(l))
        /\ IsPlain(args) => node = CommandsTo(svc, l, Over)
        /\ DOMAIN own = DOMAIN message
        /\ IsPlain(args) =>
             \A n \in DOMAIN own : own[n] = Held(message[n], GivenTo(svc, l, n, Len(node), Over))
    BY <1>1 DEF RequestInv, LeafInv
  <2>4. d \in 1 .. Len(l) + 1 /\ Ends(rest, l, d) /\ d - 1 = Over /\ Over' = Len(l) - Len(rest')
    BY <1>3, <2>2, <2>3 DEF Ends, Over
  <2> HIDE DEF d, l
  <2>5. /\ d \in 1 .. Len(l) /\ arg = l[d]
    <3>1. /\ d <= Len(l) /\ Len(rest) = Len(l) + 1 - d
          /\ \A i \in 1 .. Len(rest) : d + i - 1 \in 1 .. Len(l) /\ rest[i] = l[d + i - 1]
      BY <1>1, <2>2, <2>4, EndIs
    <3>2. 1 \in 1 .. Len(rest) /\ d + 1 - 1 = d
      BY <2>2, <2>4, <3>1
    <3> QED
      BY <2>4, <3>1, <3>2
  <2>6. IsFlag(arg)
    <3>1. arg \in ToSet(args)
      BY <2>2, <2>5
    <3> QED
      BY <1>1, <2>2, <3>1 DEF IsFlag, Arguments
  <2>7. Over' \in 0 .. Len(l) /\ rest' = SubSeq(l, Over' + 1, Len(l))
    <3>1. PICK e \in 2 .. Len(l) + 1 : Ends(rest', l, e)
      <4> HIDE DEF message
      <4> QED
        BY <1>1, <2>1, <2>2, <2>4, <2>6, AfterFlagIs
    <3>2. e \in 1 .. Len(l) + 1
      OBVIOUS
    <3>3. /\ Len(l) - Len(rest') \in 0 .. Len(l)
          /\ rest' = SubSeq(l, (Len(l) - Len(rest')) + 1, Len(l))
      BY <2>2, <3>1, <3>2, OverEnd
    <3> QED
      BY <2>4, <3>3
  <2>8. DOMAIN (own') = DOMAIN message
    BY <2>1, <2>3 DEF WithFlag
  <2>9. ASSUME IsPlain(args)
        PROVE  /\ node = CommandsTo(svc, l, Over')
               /\ \A n \in DOMAIN (own') :
                    own'[n] = Held(message[n], GivenTo(svc, l, n, Len(node), Over'))
    <3>1. arg.form = "inline"
      <4>1. args \in Seq(ToSet(args))
        BY <1>3, ArgsAre
      <4>2. \A i \in 1 .. Len(l) : l[i].form \in {"word", "inline"}
        BY <2>9, <4>1, PlainIs DEF l
      <4> QED
        BY <1>1, <2>5, <4>2
    <3>2. /\ arg.name \in DOMAIN message /\ rest' = SubSeq(rest, 2, Len(rest))
          /\ own' = [own EXCEPT ![arg.name] = Set(message[arg.name], @,
                                                  Parse(message[arg.name], arg.value))]
      <4> HIDE DEF message
      <4> QED
        BY <2>1, <3>1, InlineIs
    <3>3. Over' = d
      <4>1. d + 1 \in 1 .. Len(l) + 1 /\ 2 \in 2 .. Len(rest) + 1 /\ d + 1 = d + 2 - 1
        <5>1. Len(rest) = Len(l) + 1 - d
          BY <2>2, <2>4, EndIs
        <5> QED
          BY <2>2, <2>5, <5>1
      <4>2. Ends(rest', l, d + 1)
        BY <2>2, <2>4, <3>2, <4>1, EndIs
      <4>3. Len(l) - Len(rest') = (d + 1) - 1
        BY <2>2, <4>1, <4>2, OverEnd
      <4>4. (d + 1) - 1 = d
        BY <2>5
      <4> QED
        BY <2>4, <4>3, <4>4
    <3>4. CommandsTo(svc, l, d) = node
      <4>1. CommandsTo(svc, l, d) = CommandsTo(svc, l, d - 1)
        BY <2>2, <2>5, <3>1, CommandsAre
      <4> QED
        BY <2>3, <2>4, <2>9, <4>1
    <3>5. ASSUME NEW n \in DOMAIN own
          PROVE  own'[n] = Held(message[n], GivenTo(svc, l, n, Len(node), d))
      <4> DEFINE G(i) == GivenTo(svc, l, n, Len(node), i)
      <4>1. GivenGrow(ToSet(args), svc, l, n, Len(node))
        BY <2>2, GivenAre
      <4>2. /\ G(d) = IF n = arg.name THEN Append(G(d - 1), arg.value) ELSE G(d - 1)
            /\ G(d - 1) \in Seq(ValuesIn(ToSet(args)))
        <5>1. d - 1 \in 0 .. Len(l)
          BY <2>5
        <5> QED
          BY <2>5, <3>1, <3>4, <4>1, <5>1 DEF GivenGrow
      <4>3. own[n] = Held(message[n], G(d - 1))
        BY <2>3, <2>4, <2>9
      <4>4. arg.value \in ValuesIn(ToSet(args))
        <5>1. arg \in ToSet(args)
          BY <2>2, <2>5
        <5> QED
          BY <5>1 DEF ValuesIn
      <4> HIDE DEF G, message, arg
      <4>5. CASE n # arg.name
        BY <3>2, <4>2, <4>3, <4>5 DEF G
      <4>6. CASE n = arg.name
        <5>1. Held(message[n], Append(G(d - 1), arg.value))
                = Set(message[n], Held(message[n], G(d - 1)), Parse(message[n], arg.value))
          BY <4>2, <4>4, HeldGrows
        <5>2. own'[n] = Set(message[n], own[n], Parse(message[n], arg.value))
          BY <3>2, <4>6
        <5> QED
          BY <4>2, <4>3, <4>6, <5>1, <5>2 DEF G
      <4> QED
        BY <4>5, <4>6
    <3> QED
      BY <2>3, <2>8, <3>3, <3>4, <3>5
  <2>10. AtMethod' /\ Method' = Method /\ ~FromStdin' /\ json' = None
    BY <1>1, <1>5, <2>1 DEF AtMethod, Method, FromStdin
  <2>11. LeafInv'
    BY <1>1, <1>3, <2>1, <2>7, <2>8, <2>9, <2>10 DEF LeafInv, l
  <2>12. GroupParts'
    <3>1. GroupParts
      BY RequestIs DEF RequestInv
    <3> QED
      BY <1>1, <1>2, <1>3, <1>5, <2>10, <3>1 DEF GroupParts, GroupStands, Constructed
  <2> QED
    BY <1>1, <1>2, <1>3, <2>11, <2>12, RequestStays
<1> QED
  BY <1>2, <1>4, <1>5

(* At a leaf the line has been given what it gives the group.              *)
LEMMA HeldAtLeaf ==
  ASSUME TreeInv, ReportInv, LineInv, RequestInv, AtMethod, GroupStands,
         NEW call, call.run = run, RunsPlain(Append(calls, call), prog.lines, run)
  PROVE  HeldFor(bound, svc, prog.lines, run)
<1> DEFINE cs == Append(calls, call)
<1>1. run \in 1 .. Len(prog.lines) /\ calls \in Seq(ToSet(calls))
  BY LineIs DEF AtMethod, Interpreting, ReportInv
<1> HIDE DEF cs
<1>2. run - 1 \in Nat /\ run \notin 1 .. run - 1 /\ run \in 1 .. run
      /\ \A i \in 1 .. run - 1 : i \in 1 .. run
  BY <1>1
<1>3. RunsPlain(cs, prog.lines, run - 1) /\ IsPlain(args)
  BY <1>2 DEF RunsPlain, args, cs
<1>4. RunsPlain(calls, prog.lines, run - 1)
  BY <1>1, <1>2, <1>3, RunsBefore DEF cs
<1> QED
  BY <1>3, <1>4, RequestIs DEF RequestInv, GroupParts

(* A call is the last one; it has the line of this Run.                    *)
LEMMA InvokeRequest ==
  ASSUME TreeInv, ReportInv, LineInv, RequestInv, AtMethod, UNCHANGED program,
         NEW call, call.run = run, calls' = Append(calls, call), CallIs(svc, prog.lines, calls', call),
         phase' = "serving", UNCHANGED <<bound, received, next>>
  PROVE  RequestInv'
<1>1. /\ Interpreting /\ Constructed /\ phase = "leaf" /\ run \in Nat
      /\ UNCHANGED <<svc, prog, run, tree>>
  BY DEF AtMethod, Interpreting, Constructed, program, ReportInv
<1>2. /\ calls \in Seq(ToSet(calls))
      /\ \A i \in DOMAIN calls : calls[i].run \in 0 .. run /\ calls[i].run # run
  BY <1>1 DEF ReportInv, RequestInv
<1>3. ASSUME NEW r \in 0 .. run, r # run, RunsPlain(calls', prog.lines, r)
      PROVE  RunsPlain(calls, prog.lines, r)
  <2>1. r \in Nat /\ call.run \notin 1 .. r
    BY <1>1, <1>3
  <2> QED
    BY <1>2, <1>3, <2>1, RunsBefore
<1>4. \A i \in DOMAIN (calls') : CallIs(svc', prog'.lines, calls', calls'[i])
  <2> SUFFICES ASSUME NEW i \in DOMAIN (calls') PROVE CallIs(svc, prog.lines, calls', calls'[i])
    BY <1>1
  <2>1. calls'[i] = call \/ (i \in DOMAIN calls /\ calls'[i] = calls[i])
    BY <1>2, LastAppended
  <2>2. CASE calls'[i] = call
    BY <2>2
  <2>3. CASE i \in DOMAIN calls /\ calls'[i] = calls[i]
    <3>1. CallIs(svc, prog.lines, calls, calls[i])
      BY <2>3, RequestIs DEF RequestInv
    <3>2. RunsPlain(calls', prog.lines, calls[i].run) => RunsPlain(calls, prog.lines, calls[i].run)
      BY <1>2, <1>3, <2>3
    <3> QED
      BY <2>3, <3>1, <3>2, Zenon DEF CallIs
  <2> QED
    BY <2>1, <2>2, <2>3
<1>5. InTurn(received', run')
  BY <1>1, RequestIs DEF RequestInv
<1>6. ASSUME GroupStands, RunsPlain(calls', prog.lines, run)
      PROVE  HeldFor(bound, svc, prog.lines, run)
  BY <1>6, HeldAtLeaf
<1>7. GroupParts'
  <2>1. DOMAIN bound = DOMAIN GroupFlags(svc)
    BY <1>1, RequestIs DEF RequestInv, GroupParts
  <2> QED
    BY <1>1, <1>6, <2>1 DEF GroupParts, GroupStands, AtMethod
<1>8. LeafInv' /\ ~Interpreting'
  BY DEF LeafInv, AtMethod, Interpreting
<1>9. StreamInv'
  BY <1>1 DEF RequestInv, StreamInv
<1> QED
  BY <1>4, <1>5, <1>7, <1>8, <1>9, RequestIs DEF RequestInv

LEMMA CalledWith ==
  ASSUME NEW source, NEW o, NEW b, Invoke(source, o, b)
  PROVE  \E call :
           /\ call.run = run /\ call.method = tree[node] /\ call.source = source
           /\ call.own = o /\ call.bound = b /\ calls' = Append(calls, call)
           /\ phase' = "serving" /\ UNCHANGED <<bound, received, next>>
<1> DEFINE call == [run |-> run, method |-> tree[node], source |-> source, own |-> o, bound |-> b]
<1>1. call.run = run /\ call.method = tree[node] /\ call.source = source /\ call.own = o /\ call.bound = b
  OBVIOUS
<1>2. /\ calls' = Append(calls, call) /\ phase' = "serving" /\ UNCHANGED <<bound, received, next>>
  BY DEF Invoke, flags, stream
<1> HIDE DEF call
<1> QED
  BY <1>1, <1>2

(* Where a leaf stands.                                                    *)
LEMMA LeafIs ==
  ASSUME TreeInv, LineInv, AtMethod
  PROVE  /\ tree[node] \in Exposed(svc) /\ node = PathOf(svc, tree[node]) /\ node \in DOMAIN tree
         /\ node \in AllPaths /\ Len(node) \in Nat
<1>1. node \in DOMAIN tree /\ tree[node] \notin {Group, Show}
  BY DEF LineInv, AtLeaf, AtMethod
<1>2. tree[node] \in Exposed(svc) /\ node = PathOf(svc, tree[node])
  BY <1>1 DEF LineInv, LeavesInPlace
<1>3. node \in AllPaths
  BY <1>1 DEF TreeInv
<1>4. Len(node) \in Nat
  BY <1>3 DEF AllPaths
<1> QED
  BY <1>1, <1>2, <1>3, <1>4

(* A request from --json or the standard input has the whole line.         *)
LEMMA WholeLine ==
  ASSUME TreeInv, LineInv, RequestInv, AtMethod, rest = <<>>,
         IsPlain(args) \/ json # None \/ FromStdin
  PROVE  Over = Len(Local(args)) /\ Commands(svc, args) = node
<1>1. Over = Len(Local(args)) /\ node = CommandsTo(svc, Local(args), Over)
  <2>1. Len(Local(args)) \in Nat /\ Len(rest) = 0
    BY LineIs DEF Interpreting, AtMethod
  <2>2. Over = Len(Local(args))
    BY <2>1 DEF Over
  <2> QED
    BY <2>2 DEF RequestInv, LeafInv
<1> QED
  BY <1>1 DEF Commands

LEMMA WholeRequest ==
  ASSUME TreeInv, ReportInv, LineInv, RequestInv, RunOnStdin \/ RunOnJSON
  PROVE  RequestInv'
<1>1. /\ AtMethod /\ Interpreting /\ UNCHANGED program /\ UNCHANGED <<svc, prog, run, tree>>
      /\ \/ phase' = "failed" /\ UNCHANGED <<bound, calls, received, next>>
         \/ /\ rest = <<>> /\ (json # None \/ FromStdin)
            /\ \E source \in {"stdin", "json"} : Invoke(source, NoFields, NoFields)
  <2>1. CASE RunOnStdin
    BY <2>1 DEF RunOnStdin, AtMethod, Interpreting, Fail, flags, stream, program
  <2>2. CASE RunOnJSON
    BY <2>2 DEF RunOnJSON, AtMethod, Interpreting, Fail, flags, stream, program
  <2> QED
    BY <2>1, <2>2
<1>2. CASE phase' = "failed" /\ UNCHANGED <<bound, calls, received, next>>
  BY <1>1, <1>2, StopsRequest
<1>3. ASSUME rest = <<>>, json # None \/ FromStdin, NEW source \in {"stdin", "json"},
             Invoke(source, NoFields, NoFields)
      PROVE  RequestInv'
  <2>1. PICK call : /\ call.run = run /\ call.method = tree[node] /\ call.source = source
                    /\ call.own = NoFields /\ call.bound = NoFields /\ calls' = Append(calls, call)
                    /\ phase' = "serving" /\ UNCHANGED <<bound, received, next>>
    BY <1>3, CalledWith
  <2>2. Commands(svc, args) = PathOf(svc, tree[node])
    BY <1>1, <1>3, WholeLine, LeafIs
  <2>3. source # "flags"
    BY <1>3
  <2>4. CallIs(svc, prog.lines, calls', call)
    BY <2>1, <2>2, <2>3, Zenon DEF CallIs, args
  <2> QED
    BY <1>1, <2>1, <2>4, InvokeRequest
<1> QED
  BY <1>1, <1>2, <1>3

(* After the command a plain line has only flags: they have all been taken *)
(* when the rest has none.                                                 *)
LEMMA AllTaken ==
  ASSUME TreeInv, LineInv, RequestInv, AtMethod, IsPlain(args), Commands(svc, args) = node,
         MoreFlags => rest[1].form = "dashes"
  PROVE  rest = <<>>
<1> DEFINE l == Local(args)
           d == Over + 1
<1>1. Interpreting
  BY DEF Interpreting, AtMethod
<1>2. /\ args \in Seq(ToSet(args)) /\ l \in Seq(ToSet(args)) /\ Len(l) \in Nat
  BY <1>1, LineIs
<1>3. /\ Over \in 0 .. Len(l) /\ rest = SubSeq(l, d, Len(l)) /\ node = CommandsTo(svc, l, Over)
  BY DEF RequestInv, LeafInv
<1>4. /\ Taken(svc, l) = {} /\ \A i \in 1 .. Len(l) : l[i].form \in {"word", "inline"}
  BY <1>2, PlainIs
<1>5. CommandsTo(svc, l, Len(l)) = node
  BY DEF Commands
<1>6. d \in 1 .. Len(l) + 1 /\ Ends(rest, l, d) /\ d - 1 = Over
  BY <1>2, <1>3 DEF Ends
<1> HIDE DEF l, d
<1> SUFFICES ASSUME rest # <<>> PROVE FALSE
  OBVIOUS
<1>7. d \in 1 .. Len(l) /\ rest[1] = l[d]
  <2>1. /\ d <= Len(l) /\ Len(rest) = Len(l) + 1 - d
        /\ \A i \in 1 .. Len(rest) : d + i - 1 \in 1 .. Len(l) /\ rest[i] = l[d + i - 1]
    BY <1>2, <1>6, EndIs
  <2>2. 1 \in 1 .. Len(rest) /\ d + 1 - 1 = d
    BY <1>2, <1>6, <2>1
  <2> QED
    BY <1>6, <2>1, <2>2
<1>8. l[d].form = "word" /\ d \notin Taken(svc, l)
  BY <1>4, <1>7 DEF MoreFlags
<1>9. CommandsTo(svc, l, d) = Append(node, l[d].value) /\ node \in Seq(ValuesIn(ToSet(args)))
  <2>1. CommandsTo(svc, l, d) = Append(CommandsTo(svc, l, d - 1), l[d].value)
    BY <1>2, <1>7, <1>8, CommandsAre
  <2>2. Len(l) \in 0 .. Len(l)
    BY <1>2
  <2>3. CommandsTo(svc, l, Len(l)) \in Seq(ValuesIn(ToSet(args)))
    BY <1>2, <2>2, CommandsAre
  <2> QED
    BY <1>3, <1>5, <1>6, <2>1, <2>3
<1>10. Len(CommandsTo(svc, l, d)) <= Len(CommandsTo(svc, l, Len(l)))
  <2>1. d \in 0 .. Len(l) /\ Len(l) \in d .. Len(l)
    BY <1>2, <1>7
  <2> QED
    BY <1>2, <2>1, CommandsGrow
<1>11. Len(CommandsTo(svc, l, d)) = Len(node) + 1 /\ Len(node) \in Nat
  BY <1>9
<1> QED
  BY <1>5, <1>10, <1>11

(* A service's group is above its commands.                                *)
LEMMA GroupAbove ==
  ASSUME TreeInv, LineInv, AtMethod, PathOf(svc, tree[node]) # svc.path
  PROVE  GroupStands
<1>1. /\ tree[node] \in Exposed(svc) /\ node = PathOf(svc, tree[node]) /\ node \in DOMAIN tree
  BY LeafIs
<1>2. svc \in Services /\ Closed(tree)
  BY TreeInvIs DEF TreeParts
<1>3. svc.path \in AllPaths /\ IsStrictPrefix(svc.path, node)
  BY <1>1, <1>2, BelowGroup
<1>4. svc.path \in DOMAIN tree /\ tree[svc.path] = Group
  BY <1>1, <1>2, <1>3, ClosedIs
<1> QED
  BY <1>4 DEF GroupStands

(* A request made up from flags.                                           *)
LEMMA FlagsRequest ==
  ASSUME TreeInv, ReportInv, LineInv, RequestInv, RunOnFlags
  PROVE  RequestInv'
<1> DEFINE message == Method.flags
           group == IF Method.bind = "message" THEN GroupFlags(svc) ELSE NoFields
           V == LineValues(prog.lines)
           c == tree[node]
<1>1. /\ AtMethod /\ Interpreting /\ UNCHANGED program /\ UNCHANGED <<svc, prog, run, tree>>
      /\ MoreFlags => rest[1].form = "dashes"
      /\ \/ phase' = "failed" /\ UNCHANGED <<bound, calls, received, next>>
         \/ Invoke("flags", Request(message, own), Request(group, bound))
  BY Zenon DEF RunOnFlags, AtMethod, Interpreting, Fail, flags, stream, program
<1>2. CASE phase' = "failed" /\ UNCHANGED <<bound, calls, received, next>>
  BY <1>1, <1>2, StopsRequest
<1>3. CASE Invoke("flags", Request(message, own), Request(group, bound))
  <2>1. PICK call : /\ call.run = run /\ call.method = c /\ call.source = "flags"
                    /\ call.own = Request(message, own) /\ call.bound = Request(group, bound)
                    /\ calls' = Append(calls, call)
                    /\ phase' = "serving" /\ UNCHANGED <<bound, received, next>>
    BY <1>3, CalledWith
  <2>2. /\ svc \in Services /\ prog \in Programs(svc) /\ Constructed
        /\ Lines(prog.lines) /\ run \in 1 .. Len(prog.lines) /\ args = prog.lines[run]
        /\ Len(Local(args)) \in Nat
    BY <1>1, LineIs
  <2>3. \A v \in V : GoodText(v)
    BY <2>2, LinesAre
  <2>4. /\ c \in Exposed(svc) /\ node = PathOf(svc, c) /\ Method = svc.methods[c]
    BY <1>1, LeafIs DEF Method
  <2>5. c \in DOMAIN svc.methods
    BY <2>4 DEF Exposed
  <2>6. ASSUME IsPlain(args), Commands(svc, args) = PathOf(svc, c)
        PROVE  Request(message, own) = [n \in DOMAIN message |-> Field(message[n], OfLeaf(svc, args, n, c))]
    <3>1. Over = Len(Local(args))
      BY <1>1, <2>4, <2>6, AllTaken, WholeLine
    <3>2. ASSUME NEW n \in DOMAIN message
          PROVE  Built(message[n], own[n]) = Field(message[n], OfLeaf(svc, args, n, c))
      <4> DEFINE texts == OfLeaf(svc, args, n, c)
      <4>1. own[n] = Held(message[n], texts)
        BY <1>1, <2>4, <2>6, <3>1 DEF RequestInv, LeafInv, OfLeaf
      <4>2. texts \in Seq(V)
        <5>1. Len(Local(args)) \in 0 .. Len(Local(args))
          BY <2>2
        <5> QED
          BY <2>2, <5>1, GivenInLine DEF OfLeaf
      <4>3. GoodField(message[n])
        BY <2>2, <2>4, <2>5, FieldsAre
      <4> HIDE DEF texts, message, V
      <4>4. Built(message[n], Held(message[n], texts)) = Field(message[n], texts)
        BY <2>3, <4>2, <4>3, BuiltIs
      <4> QED
        BY <4>1, <4>4 DEF texts
    <3> HIDE DEF message
    <3> QED
      BY <3>2 DEF Request
  <2>7. ASSUME Method.bind = "message", PathOf(svc, c) # svc.path, RunsPlain(calls', prog.lines, run)
        PROVE  Request(group, bound) = [n \in DOMAIN GroupFlags(svc) |->
                                          Field(svc.flags[n], Sofar(svc, prog.lines, n)[run])]
    <3>1. GroupStands
      BY <1>1, <2>7, GroupAbove
    <3>2. HeldFor(bound, svc, prog.lines, run)
      BY <1>1, <2>1, <2>7, <3>1, HeldAtLeaf
    <3>3. DOMAIN bound = DOMAIN GroupFlags(svc) /\ group = GroupFlags(svc)
      BY <2>2, <2>7, RequestIs DEF RequestInv, GroupParts
    <3>4. ASSUME NEW n \in DOMAIN GroupFlags(svc)
          PROVE  Built(group[n], bound[n]) = Field(svc.flags[n], Sofar(svc, prog.lines, n)[run])
      <4> DEFINE texts == Sofar(svc, prog.lines, n)[run]
                 f == svc.flags[n]
      <4>1. group[n] = f /\ n \in DOMAIN svc.flags
        BY <3>3 DEF GroupFlags, NoFields
      <4>2. bound[n] = Held(f, texts)
        BY <3>2, <3>3 DEF HeldFor
      <4>3. texts \in Seq(V)
        <5>1. SofarGrows(svc, prog.lines, n)
          BY <2>2, SofarIs
        <5>2. run \in 0 .. Len(prog.lines)
          BY <2>2
        <5> QED
          BY <5>1, <5>2 DEF SofarGrows
      <4>4. GoodField(f)
        BY <2>2, <4>1, FieldsAre
      <4> HIDE DEF texts, f, V
      <4>5. Built(f, Held(f, texts)) = Field(f, texts)
        BY <2>3, <4>3, <4>4, BuiltIs
      <4> QED
        BY <4>1, <4>2, <4>5 DEF texts, f
    <3> HIDE DEF group
    <3> QED
      BY <3>3, <3>4 DEF Request
  <2>8. CallIs(svc, prog.lines, calls', call)
    BY <2>1, <2>2, <2>4, <2>6, <2>7, Zenon DEF CallIs
  <2> QED
    BY <1>1, <2>1, <2>8, InvokeRequest
<1> QED
  BY <1>1, <1>2, <1>3

LEMMA SchemaRequest ==
  ASSUME TreeInv, LineInv, RequestInv, ShowSchema
  PROVE  RequestInv'
<1>1. /\ phase = "leaf" /\ Interpreting /\ UNCHANGED <<svc, prog, run, tree>>
      /\ phase' \in {"idle", "failed"} /\ UNCHANGED <<bound, calls, received, next>>
  BY DEF ShowSchema, Done, Fail, Interpreting, program, flags, stream
<1> QED
  BY <1>1, StopsRequest

LEMMA NextRequest == TreeInv /\ ReportInv /\ LineInv /\ RequestInv /\ [Next]_vars => RequestInv'
<1> SUFFICES ASSUME TreeInv, ReportInv, LineInv, RequestInv, [Next]_vars PROVE RequestInv'
  OBVIOUS
<1>1. CASE Validate \/ InsertMethod \/ Construct
  BY <1>1, GenerateRequest
<1>2. CASE Start
  BY <1>2, StartRequest
<1>3. CASE PreParseArg
  BY <1>3, PreParseRequest
<1>4. CASE PreParsed
  BY <1>4, PreParsedRequest
<1>5. CASE ParseGroupFlag
  BY <1>5, GroupFlagRequest
<1>6. CASE GroupFlagsParsed
  BY <1>6, GroupFlagsParsedRequest
<1>7. CASE Dispatch
  BY <1>7, DispatchRequest
<1>8. CASE ShowSchema
  BY <1>8, SchemaRequest
<1>9. CASE RunOnStdin \/ RunOnJSON
  BY <1>9, WholeRequest
<1>10. CASE ParseLeafFlag
  BY <1>10, LeafFlagRequest
<1>11. CASE RunOnFlags
  BY <1>11, FlagsRequest
<1>12. CASE Receive \/ Send \/ ReturnError \/ ReturnStream \/ ReturnResponse \/ Report
  BY <1>12, ServeRequest
<1>13. CASE UNCHANGED vars
  <2>1. /\ UNCHANGED <<svc, prog, run, tree, phase, json, rest, node, own, bound, calls, next, received>>
    BY <1>13 DEF vars, program, globals, line, flags, stream
  <2>2. GroupInv'
    BY <2>1 DEF RequestInv, GroupInv, Constructed, PlainRuns, HeldAfter, HeldWithin, AtMethod, Over, args
  <2>3. LeafInv'
    BY <2>1 DEF RequestInv, LeafInv, AtMethod, Over, args, Method, FromStdin
  <2> QED
    BY <2>1, <2>2, <2>3, RequestStays, RequestIs DEF Interpreting
<1> QED
  BY <1>1, <1>2, <1>3, <1>4, <1>5, <1>6, <1>7, <1>8, <1>9, <1>10, <1>11, <1>12, <1>13
  DEF Next, Finished

(* traverse, emitRequestFields, emitNDJSONReadCallback: the request of a   *)
(* plain line holds what the line gives, for the leaf's flags and for the  *)
(* group's, and the input's lines come in turn.                            *)
THEOREM RequestsFromLines == Spec => []RequestFromLine
<1>1. Init => TreeInv /\ ReportInv /\ LineInv /\ RequestInv
  BY InitTree, InitReport, InitLine, InitRequest
<1>2. TreeInv /\ ReportInv /\ LineInv /\ RequestInv /\ [Next]_vars
        => (TreeInv /\ ReportInv /\ LineInv /\ RequestInv)'
  BY NextTree, NextReport, NextLine, NextRequest
<1>3. RequestInv => RequestFromLine
  BY DEF RequestInv
<1> QED
  BY <1>1, <1>2, <1>3, PTL DEF Spec

-----------------------------------------------------------------------------
(* A text that a flag should take, it takes; and what it then holds        *)
(* decodes.                                                                *)
LEMMA TakesIs ==
  ASSUME NEW f, GoodField(f), f.kind = "enum" => ~Collides(f.enum), NEW v, GoodText(v), Takes(f, v)
  PROVE  Parse(f, v) # None /\ \A var : Decoded(f, Set(f, var, Parse(f, v)))
<1>1. PostAssigned(f) <=> f.kind \in {"message", "bytes"}
  BY DEF PostAssigned, Documented, GoodField
<1>2. Repeats(f) <=> f.card = "list" /\ f.kind \notin {"message", "bytes"}
  BY DEF Repeats, Documented
<1>3. CASE f.kind = "enum"
  <2>1. PICK i \in DOMAIN f.enum : f.enum[i].number # 0 /\ f.enum[i].word = Lower(v)
    BY <1>3, Zenon DEF Takes
  <2> DEFINE same == {j \in Emitted(f.enum) : f.enum[j].word = Lower(v)}
  <2>2. same = {i}
    BY <1>3, <2>1 DEF Emitted, Collides, Mapping
  <2>3. i \in Int /\ f.enum[i].number # None
    BY <2>1 DEF GoodField
  <2>4. (CHOOSE j \in {i} : \A n \in {i} : j <= n) = i
    BY <2>3
  <2> HIDE DEF same
  <2>5. EnumNumber(f.enum, v) = f.enum[i].number
    BY <2>2, <2>4 DEF EnumNumber, same
  <2>6. Parse(f, v) # None
    BY <1>3, <2>3, <2>5 DEF Parse
  <2>7. ~PostAssigned(f)
    BY <1>1, <1>3
  <2>8. \A var : Decoded(f, var)
    BY <2>7, Zenon DEF Decoded
  <2> QED
    BY <2>6, <2>8
<1>4. CASE f.kind \in {"message", "bytes"}
  <2>1. v = "" \/ Decodes(f, v)
    BY <1>4, Zenon DEF Takes
  <2>2. Parse(f, v) = v
    BY <1>1, <1>4 DEF Parse, GoType, GoodText
  <2>3. \A var : Set(f, var, v) = <<v>>
    BY <1>2, <1>4 DEF Set
  <2>4. Decoded(f, <<v>>)
    <3> DEFINE var == <<v>>
    <3>1. v = "" => var = <<"">>
      BY Zenon
    <3>2. var[1] = v
      OBVIOUS
    <3> HIDE DEF var
    <3>3. Decoded(f, var)
      BY <2>1, <3>1, <3>2, Zenon DEF Decoded
    <3> QED
      BY <3>3 DEF var
  <2> QED
    BY <2>2, <2>3, <2>4 DEF GoodText
<1>5. CASE f.kind \notin {"enum", "message", "bytes"}
  <2>1. Accepts(GoType(f), v)
    BY <1>5, Zenon DEF Takes
  <2>2. Parse(f, v) = v
    BY <1>5, <2>1 DEF Parse
  <2>3. ~PostAssigned(f)
    BY <1>1, <1>5
  <2>4. \A var : Decoded(f, var)
    BY <2>3, Zenon DEF Decoded
  <2> QED
    BY <2>2, <2>4 DEF GoodText
<1> QED
  BY <1>3, <1>4, <1>5

(* So an inline flag with such a text is no bad one.                       *)
LEMMA FlagTaken ==
  ASSUME NEW message, rest[1].form = "inline", rest[1].name \in DOMAIN message,
         NEW f, f = message[rest[1].name], GoodField(f), f.kind = "enum" => ~Collides(f.enum),
         GoodText(rest[1].value), Takes(f, rest[1].value)
  PROVE  ~BadFlag(message)
<1>1. Parse(f, rest[1].value) # None
  BY TakesIs
<1>2. ~IsSwitch(message) /\ ValueAt(rest, 1) = rest[1].value
  BY DEF IsSwitch, ValueAt
<1>3. FlagValue(message) = rest[1].value
  BY <1>2 DEF FlagValue
<1> QED
  BY <1>1, <1>3 DEF BadFlag, GoodText

-----------------------------------------------------------------------------
(* What is given for a global flag that is given once.                     *)
LEMMA OnlyGrows ==
  ASSUME NEW A, NEW l \in Seq(A), NEW name, NEW S, AtMostOne(GlobalTo(l, name, Len(l)), S)
  PROVE  /\ GlobalTo(l, name, 0) = <<>>
         /\ \A n \in 1 .. Len(l) :
              IF l[n].form = "inline" /\ l[n].name = name
              THEN /\ l[n].value \in S /\ Only(GlobalTo(l, name, n - 1)) = None
                   /\ Only(GlobalTo(l, name, n)) = l[n].value
              ELSE GlobalTo(l, name, n) = GlobalTo(l, name, n - 1)
<1> DEFINE F == {m \in DOMAIN l : l[m].form = "inline" /\ l[m].name = name}
           G(n) == GlobalTo(l, name, n)
           V == ValuesIn(A)
<1>1. \A n \in 1 .. Len(l) : n \in F <=> l[n].form = "inline" /\ l[n].name = name
  OBVIOUS
<1>2. \A n : G(n) = TextsTo(l, F, n)
  BY DEF GlobalTo
<1>3. TextsGrow(A, l, F)
  BY TextsAre
<1> HIDE DEF F, G
<1>4. /\ G(0) = <<>>
      /\ \A n \in 1 .. Len(l) :
           IF n \in F THEN G(n) = Append(G(n - 1), l[n].value) ELSE G(n) = G(n - 1)
      /\ \A n \in 0 .. Len(l) : G(n) \in Seq(V)
      /\ \A n \in 0 .. Len(l) : \A m \in 0 .. n : IsPrefix(G(m), G(n))
  BY <1>2, <1>3 DEF TextsGrow
<1> HIDE DEF V
<1>5. Len(G(Len(l))) <= 1 /\ \A i \in DOMAIN G(Len(l)) : G(Len(l))[i] \in S
  BY DEF AtMostOne, G
<1>6. ASSUME NEW n \in 1 .. Len(l), n \in F
      PROVE  l[n].value \in S /\ Only(G(n - 1)) = None /\ Only(G(n)) = l[n].value
  <2> DEFINE a == G(n - 1)
             b == G(n)
             e == G(Len(l))
             v == l[n].value
  <2>1. n - 1 \in 0 .. Len(l) /\ n \in 0 .. Len(l) /\ Len(l) \in 0 .. Len(l) /\ n \in 0 .. Len(l)
    OBVIOUS
  <2>2. a \in Seq(V) /\ b \in Seq(V) /\ e \in Seq(V) /\ b = Append(a, v) /\ IsPrefix(b, e) /\ v \in V
    <3>1. v \in V
      BY DEF V, ValuesIn
    <3> QED
      BY <1>4, <1>6, <2>1, <3>1
  <2>3. Len(e) <= 1 /\ \A i \in DOMAIN e : e[i] \in S
    BY <1>5
  <2> HIDE DEF a, b, e, v
  <2>4. Len(b) = Len(a) + 1 /\ b[Len(a) + 1] = v /\ Len(a) \in Nat /\ Len(e) \in Nat
    BY <2>2, Appended
  <2>5. Len(b) <= Len(e) /\ \A i \in 1 .. Len(b) : b[i] = e[i]
    <3>1. IsPrefix(b, e) <=> Len(b) <= Len(e) /\ \A i \in 1 .. Len(b) : b[i] = e[i]
      <4>1. b \in Seq(V) /\ e \in Seq(V)
        BY <2>2
      <4> QED
        BY <4>1, PrefixIs
    <3> QED
      BY <2>2, <3>1
  <2>6. Len(a) = 0 /\ Len(b) = 1 /\ Len(e) = 1
    <3>1. \A x, y, z \in Nat : y = x + 1 /\ y <= z /\ z <= 1 => x = 0 /\ y = 1 /\ z = 1
      OBVIOUS
    <3>2. Len(b) \in Nat
      BY <2>4
    <3> QED
      BY <2>3, <2>4, <2>5, <3>1, <3>2
  <2>7. a = <<>> /\ b # <<>> /\ 1 \in DOMAIN e /\ b[1] = v /\ e[1] = v
    <3>1. b[1] = v
      BY <2>4, <2>6
    <3>2. 1 \in 1 .. Len(b)
      BY <2>6
    <3>3. e[1] = v
      BY <2>5, <3>1, <3>2
    <3>4. \A q \in Seq(V) : DOMAIN q = 1 .. Len(q) /\ (q = <<>> <=> Len(q) = 0)
      OBVIOUS
    <3> QED
      BY <2>2, <2>6, <3>1, <3>2, <3>3, <3>4
  <2> QED
    BY <2>3, <2>7 DEF Only, a, b, v
<1>7. \A n \in 1 .. Len(l) : n \notin F => G(n) = G(n - 1)
  BY <1>4
<1> QED
  BY <1>1, <1>4, <1>6, <1>7 DEF G

-----------------------------------------------------------------------------
(* A line that asks for a command, on its way.                             *)
AskedFor(c) == c \in Exposed(svc) /\ WellFormed /\ AsksFor(svc, args, c) /\ OnTheWay(c)

(* AskInv stays where the line does, when every command that is asked for  *)
(* stays on its way.                                                       *)
LEMMA AskStays ==
  ASSUME AskInv, Constructed, UNCHANGED <<svc, prog, run, tree>>,
         phase' \in {"group", "dispatch"} => node' \in DOMAIN tree /\ tree[node'] = Group,
         \A c : AskedFor(c) => OnTheWay(c)'
  PROVE  AskInv'
<1>1. args' = args
  BY DEF args
<1>2. WellFormed' <=> WellFormed
  BY DEF WellFormed, Nodes
<1>3. ASSUME WellFormed, run > 0, NEW c \in Exposed(svc), AsksFor(svc, args, c)
      PROVE  OnTheWay(c)'
  <2>1. OnTheWay(c)
    BY <1>3 DEF AskInv
  <2> QED
    BY <1>3, <2>1 DEF AskedFor
<1>4. tree[Root] = Group
  BY DEF AskInv
<1> QED
  BY <1>1, <1>2, <1>3, <1>4 DEF AskInv

(* What there is on such a line, and at its command's path.                *)
LEMMA AskedIs ==
  ASSUME TreeInv, LineInv, Interpreting, NEW c, AskedFor(c)
  PROVE  /\ c \in Exposed(svc) /\ c \in DOMAIN svc.methods /\ c \notin {Group, Show}
         /\ IsPlain(args) /\ Commands(svc, args) = PathOf(svc, c)
         /\ PathOf(svc, c) \in DOMAIN tree /\ tree[PathOf(svc, c)] = c
         /\ PathOf(svc, c) \in AllPaths /\ Len(PathOf(svc, c)) \in Nat
         /\ \A i \in 1 .. Len(Local(args)) :
              /\ Local(args)[i].form \in {"word", "inline"} /\ GoodText(Local(args)[i].value)
              /\ Local(args)[i].form = "inline" => InPlace(svc, Local(args), i, c)
<1> DEFINE l == Local(args)
<1>1. /\ svc \in Services /\ prog \in Programs(svc) /\ Constructed
      /\ Lines(prog.lines) /\ run \in 1 .. Len(prog.lines) /\ args = prog.lines[run]
      /\ args \in Seq(ToSet(args)) /\ l \in Seq(ToSet(args)) /\ Len(l) \in Nat
  BY LineIs
<1>2. /\ c \in Exposed(svc) /\ WellFormed /\ IsPlain(args) /\ Commands(svc, args) = PathOf(svc, c)
      /\ \A n \in DOMAIN l : IsFlag(l[n]) => InPlace(svc, l, n, c)
  BY DEF AskedFor, AsksFor
<1>3. c \in DOMAIN svc.methods /\ c \notin {Group, Show} /\ PathOf(svc, c) \in AllPaths
  BY <1>1, <1>2, ServiceIs DEF Exposed, Group, Show
<1>4. Len(PathOf(svc, c)) \in Nat
  BY <1>3 DEF AllPaths
<1>5. PathOf(svc, c) \in DOMAIN tree /\ tree[PathOf(svc, c)] = c
  BY <1>1, <1>2 DEF TreeInv, TreeExact
<1>6. \A i \in 1 .. Len(l) : l[i].form \in {"word", "inline"}
  BY <1>1, <1>2, PlainIs
<1>7. \A i \in 1 .. Len(l) : GoodText(l[i].value)
  <2>1. \A v \in LineValues(prog.lines) : GoodText(v)
    BY <1>1, LinesAre
  <2>2. args \in ToSet(prog.lines)
    BY <1>1 DEF Lines, ToSet
  <2> HIDE DEF l
  <2>3. \A i \in 1 .. Len(l) : l[i] \in ToSet(args)
    BY <1>1
  <2>4. \A i \in 1 .. Len(l) : l[i].value \in LineValues(prog.lines)
    BY <2>2, <2>3 DEF LineValues, ValuesIn
  <2> QED
    BY <2>1, <2>4
<1>8. \A i \in 1 .. Len(l) : l[i].form = "inline" => InPlace(svc, l, i, c)
  <2>1. DOMAIN l = 1 .. Len(l)
    BY <1>1
  <2> QED
    BY <1>2, <2>1 DEF IsFlag
<1> QED
  BY <1>2, <1>3, <1>4, <1>5, <1>6, <1>7, <1>8

(* The enums of such a service, and so its flags, take what they should.   *)
LEMMA FlagsAsked ==
  ASSUME TreeInv, LineInv, Interpreting, NEW c, AskedFor(c)
  PROVE  /\ \A n \in DOMAIN svc.flags :
              GoodField(svc.flags[n]) /\ (svc.flags[n].kind = "enum" => ~Collides(svc.flags[n].enum))
         /\ \A n \in DOMAIN svc.methods[c].flags :
              /\ GoodField(svc.methods[c].flags[n])
              /\ svc.methods[c].flags[n].kind = "enum" => ~Collides(svc.methods[c].flags[n].enum)
<1>1. svc \in Services /\ c \in DOMAIN svc.methods
  BY LineIs, AskedIs
<1>2. \A m \in {svc, svc.methods[c]} : \A n \in DOMAIN m.flags :
        m.flags[n].kind = "enum" => ~Collides(m.flags[n].enum)
  BY DEF AskedFor, AsksFor
<1> QED
  BY <1>1, <1>2, FieldsAre

(* A prefix has elements of the whole.                                     *)
LEMMA PrefixAmong ==
  ASSUME NEW V, NEW S, NEW p \in Seq(V), NEW q \in Seq(S), IsPrefix(p, q)
  PROVE  p \in Seq(S)
<1> DEFINE T == V \union S
<1>1. p \in Seq(T) /\ q \in Seq(T)
  BY OverMore
<1> HIDE DEF T
<1>2. Len(p) <= Len(q) /\ \A i \in 1 .. Len(p) : p[i] = q[i]
  BY <1>1, PrefixIs
<1>3. /\ Len(p) \in Nat /\ Len(q) \in Nat /\ p = [i \in 1 .. Len(p) |-> p[i]]
      /\ \A i \in 1 .. Len(q) : q[i] \in S
  OBVIOUS
<1>4. \A i \in 1 .. Len(p) : i \in 1 .. Len(q)
  BY <1>2, <1>3
<1>5. p \in [1 .. Len(p) -> S]
  BY <1>2, <1>3, <1>4
<1> QED
  BY <1>3, <1>5, Listed

(* A prefix of a command's path that is no shorter is the path.            *)
LEMMA SamePath ==
  ASSUME NEW p \in AllPaths, NEW q \in AllPaths, NEW r \in AllPaths,
         IsPrefix(p, r), IsPrefix(q, r), Len(p) = Len(q)
  PROVE  p = q
<1> DEFINE S == STRING \union {"schema"}
<1>1. p \in Seq(S) /\ q \in Seq(S) /\ r \in Seq(S)
  BY DEF AllPaths
<1> HIDE DEF S
<1>2. \A i \in 1 .. Len(p) : p[i] = r[i]
  BY <1>1, PrefixIs
<1>3. \A i \in 1 .. Len(q) : q[i] = r[i]
  BY <1>1, PrefixIs
<1>4. \A i \in 1 .. Len(q) : p[i] = q[i]
  BY <1>2, <1>3
<1> QED
  BY <1>1, <1>4, SameElements

(* While it is interpreted, the node is a group above the command, and     *)
(* what comes next is a word, or a flag of the node's own.                 *)
LEMMA OnItsPath ==
  ASSUME TreeInv, LineInv, RequestInv, AskInv, phase \in {"group", "dispatch"},
         NEW c, AskedFor(c)
  PROVE  /\ rest # <<>> /\ rest[1].form \in {"word", "inline"}
         /\ Len(rest) > 1 => rest[2].form \in {"word", "inline"}
         /\ rest[1].form = "word" =>
              LET child == Append(node, rest[1].value)
              IN  /\ child \in DOMAIN tree
                  /\ tree[child] # Group => child = PathOf(svc, c)
         /\ rest[1].form = "inline" =>
              /\ HasFlags /\ rest[1].name \in DOMAIN svc.flags /\ GoodText(rest[1].value)
              /\ Takes(svc.flags[rest[1].name], rest[1].value)
<1> DEFINE l == Local(args)
           path == PathOf(svc, c)
           m == svc.methods[c]
<1>1. Interpreting
  BY DEF Interpreting
<1>2. /\ l \in Seq(ToSet(args)) /\ Len(l) \in Nat /\ svc \in Services
      /\ args \in Seq(ToSet(args)) /\ Constructed
  BY <1>1, LineIs
<1>3. /\ c \in Exposed(svc) /\ c \notin {Group, Show}
      /\ IsPlain(args) /\ Commands(svc, args) = path
      /\ path \in DOMAIN tree /\ tree[path] = c /\ path \in AllPaths /\ Len(path) \in Nat
      /\ \A i \in 1 .. Len(l) :
           /\ l[i].form \in {"word", "inline"} /\ GoodText(l[i].value)
           /\ l[i].form = "inline" => InPlace(svc, l, i, c)
  BY <1>1, AskedIs
<1>4. PICK d : Reached(svc, l, d, rest, node)
  BY TraversingIs DEF LineInv
<1> HIDE DEF l
<1>5. /\ d \in 1 .. Len(l) + 1 /\ node = CommandsTo(svc, l, d - 1) /\ d - 1 \in 0 .. Len(l)
      /\ Ends(rest, l, d)
  BY <1>2, <1>4 DEF Reached
<1>6. path = CommandsTo(svc, l, Len(l))
  BY <1>3 DEF Commands, l
<1>7. node \in AllPaths /\ node \in DOMAIN tree /\ tree[node] = Group /\ Len(node) \in Nat
  <2>1. node \in AllPaths /\ node \in DOMAIN tree /\ tree[node] = Group
    BY DEF AskInv, TreeInv
  <2> QED
    BY <2>1 DEF AllPaths
<1>8. IsPrefix(node, path) /\ node # path /\ Len(node) # Len(path)
  <2>1. IsPrefix(node, path)
    BY <1>2, <1>5, <1>6, CommandsAre
  <2>2. node # path
    BY <1>3, <1>7
  <2>3. IsPrefix(path, path)
    BY <1>3, PathOrder
  <2> HIDE DEF path
  <2>4. Len(node) # Len(path)
    BY <1>3, <1>7, <2>1, <2>2, <2>3, SamePath
  <2> QED
    BY <2>1, <2>2, <2>4
<1>9. /\ d \in 1 .. Len(l) /\ rest # <<>> /\ rest[1] = l[d]
      /\ Len(rest) > 1 => rest[2].form \in {"word", "inline"}
  <2>1. d # Len(l) + 1
    <3>1. d = Len(l) + 1 => d - 1 = Len(l)
      BY <1>2
    <3> QED
      BY <1>5, <1>6, <1>8, <3>1
  <2>2. d \in 1 .. Len(l)
    BY <1>2, <1>5, <2>1
  <2>3. /\ rest # <<>> /\ Len(rest) = Len(l) + 1 - d
        /\ \A i \in 1 .. Len(rest) : d + i - 1 \in 1 .. Len(l) /\ rest[i] = l[d + i - 1]
    BY <1>2, <1>5, <2>2, EndIs
  <2>4. 1 \in 1 .. Len(rest) /\ d + 1 - 1 = d /\ (Len(rest) > 1 => 2 \in 1 .. Len(rest))
    BY <1>2, <2>2, <2>3
  <2>5. rest[1] = l[d]
    BY <2>3, <2>4
  <2>6. Len(rest) > 1 => rest[2].form \in {"word", "inline"}
    BY <1>3, <2>3, <2>4
  <2> QED
    BY <2>2, <2>3, <2>5, <2>6
<1>10. CASE l[d].form = "word"
  <2> DEFINE child == Append(node, rest[1].value)
  <2>1. child = CommandsTo(svc, l, d) /\ IsPrefix(child, path)
    <3>1. Reached(svc, l, d + 1, Tail(rest), child) /\ IsPrefix(child, CommandsTo(svc, l, Len(l)))
      BY <1>2, <1>4, <1>9, <1>10, OverWord
    <3>2. (d + 1) - 1 = d
      BY <1>9
    <3> HIDE DEF child
    <3> QED
      BY <1>6, <3>1, <3>2 DEF Reached
  <2>2. child \in AllPaths
    <3>1. d \in 0 .. Len(l)
      BY <1>2, <1>9
    <3>2. CommandsTo(svc, l, d) \in Seq(ValuesIn(ToSet(args)))
      BY <1>2, <3>1, CommandsAre
    <3>3. child \in Seq(ValuesIn(ToSet(args)))
      BY <2>1, <3>2
    <3> HIDE DEF child, path
    <3> QED
      BY <1>3, <2>1, <3>3, PrefixAmong DEF AllPaths
  <2> HIDE DEF child
  <2>3. CASE child = path
    BY <1>3, <1>9, <1>10, <2>3 DEF child
  <2>4. CASE child # path
    <3>1. IsStrictPrefix(child, path)
      BY <2>1, <2>4 DEF IsStrictPrefix
    <3>2. Closed(tree)
      BY TreeInvIs DEF TreeParts
    <3>3. child \in DOMAIN tree /\ tree[child] = Group
      BY <1>3, <2>2, <3>1, <3>2, ClosedIs
    <3> QED
      BY <1>9, <1>10, <3>3 DEF child
  <2> QED
    BY <2>3, <2>4
<1>11. CASE l[d].form = "inline"
  <2>1. CommandsTo(svc, l, d) = node
    <3>1. CommandsTo(svc, l, d) = CommandsTo(svc, l, d - 1)
      BY <1>2, <1>9, <1>11, CommandsAre
    <3> QED
      BY <1>5, <3>1
  <2>2. /\ Len(node) = Len(svc.path) /\ Len(svc.path) < Len(path)
        /\ l[d].name \in DOMAIN GroupFlags(svc) /\ Takes(svc.flags[l[d].name], l[d].value)
    BY <1>3, <1>8, <1>9, <1>11, <2>1 DEF InPlace
  <2>3. svc.path \in AllPaths /\ IsPrefix(svc.path, path)
    <3>1. svc.path \in AllPaths /\ (path = svc.path \/ IsStrictPrefix(svc.path, path))
      BY <1>2, <1>3, BelowGroup
    <3>2. path # svc.path
      BY <1>3, <2>2
    <3> QED
      BY <3>1, <3>2 DEF IsStrictPrefix
  <2> HIDE DEF path
  <2>4. node = svc.path
    BY <1>3, <1>7, <1>8, <2>2, <2>3, SamePath
  <2>5. DOMAIN bound # {} /\ l[d].name \in DOMAIN svc.flags
    <3>1. DOMAIN bound = DOMAIN GroupFlags(svc)
      BY <1>2, RequestIs DEF RequestInv, GroupParts
    <3>2. l[d].name \in DOMAIN svc.flags
      BY <2>2 DEF GroupFlags, NoFields
    <3> QED
      BY <2>2, <3>1, <3>2
  <2> QED
    BY <1>3, <1>9, <1>11, <2>2, <2>4, <2>5 DEF HasFlags
<1> QED
  BY <1>3, <1>9, <1>10, <1>11

(* At the command what comes next is one of its flags, or nothing.         *)
LEMMA AtItsPath ==
  ASSUME TreeInv, LineInv, RequestInv, phase = "leaf", NEW c, AskedFor(c)
  PROVE  /\ AtMethod /\ tree[node] = c /\ Method = svc.methods[c]
         /\ IsPlain(args) /\ Commands(svc, args) = node
         /\ json = Only(GlobalTo(args, "json", Len(args))) /\ ~Undecoded(Method.flags, own)
         /\ MoreFlags =>
              /\ rest[1].form = "inline" /\ GoodText(rest[1].value) /\ ~FromStdin
              /\ rest[1].name \in DOMAIN Method.flags
              /\ Takes(Method.flags[rest[1].name], rest[1].value)
              /\ GlobalTo(args, "json", Len(args)) = <<>>
<1> DEFINE l == Local(args)
           d == Over + 1
           w == Len(CommandsTo(svc, l, d))
<1>1. Interpreting
  BY DEF Interpreting
<1>2. /\ tree[node] = c /\ ~Undecoded(Method.flags, own)
      /\ json = Only(GlobalTo(args, "json", Len(args)))
  BY DEF AskedFor, OnTheWay
<1>3. /\ c \in Exposed(svc) /\ c \notin {Group, Show}
      /\ IsPlain(args) /\ Commands(svc, args) = PathOf(svc, c) /\ Len(PathOf(svc, c)) \in Nat
      /\ \A i \in 1 .. Len(l) :
           /\ l[i].form \in {"word", "inline"} /\ GoodText(l[i].value)
           /\ l[i].form = "inline" => InPlace(svc, l, i, c)
  BY <1>1, AskedIs
<1>4. AtMethod /\ Method = svc.methods[c]
  BY <1>2, <1>3 DEF AtMethod, Method
<1>5. node = PathOf(svc, c)
  BY <1>2, <1>4, LeafIs
<1>6. ASSUME MoreFlags
      PROVE  /\ rest[1].form = "inline" /\ GoodText(rest[1].value) /\ ~FromStdin
             /\ rest[1].name \in DOMAIN Method.flags
             /\ Takes(Method.flags[rest[1].name], rest[1].value)
             /\ GlobalTo(args, "json", Len(args)) = <<>>
  <2>1. /\ l \in Seq(ToSet(args)) /\ Len(l) \in Nat
    BY <1>1, LineIs
  <2>2. Over \in 0 .. Len(l) /\ rest = SubSeq(l, d, Len(l)) /\ node = CommandsTo(svc, l, Over)
    BY <1>3, <1>4 DEF RequestInv, LeafInv
  <2>3. d \in 1 .. Len(l) + 1 /\ Ends(rest, l, d) /\ d - 1 = Over
    BY <2>1, <2>2 DEF Ends
  <2>4. \A n \in DOMAIN l : IsFlag(l[n]) => GlobalTo(args, "json", Len(args)) = <<>>
    BY DEF AskedFor, AsksFor, OnlyGlobal
  <2> HIDE DEF l, d
  <2>5. d \in 1 .. Len(l) /\ rest[1] = l[d]
    <3>1. /\ d <= Len(l) /\ Len(rest) = Len(l) + 1 - d
          /\ \A i \in 1 .. Len(rest) : d + i - 1 \in 1 .. Len(l) /\ rest[i] = l[d + i - 1]
      BY <1>6, <2>1, <2>3, EndIs DEF MoreFlags
    <3>2. 1 \in 1 .. Len(rest) /\ d + 1 - 1 = d
      BY <2>1, <2>3, <3>1
    <3> QED
      BY <2>3, <3>1, <3>2
  <2>6. l[d].form = "inline" /\ d \in DOMAIN l
    BY <1>3, <1>6, <2>1, <2>5 DEF MoreFlags
  <2>7. w = Len(PathOf(svc, c))
    <3>1. CommandsTo(svc, l, d) = CommandsTo(svc, l, d - 1)
      BY <2>1, <2>5, <2>6, CommandsAre
    <3> QED
      BY <1>5, <2>2, <2>3, <3>1
  <2>8. /\ Method.shape \in {"unary", "server_stream"} /\ l[d].name \in DOMAIN Method.flags
        /\ Takes(Method.flags[l[d].name], l[d].value)
    BY <1>3, <1>4, <2>5, <2>6, <2>7 DEF InPlace
  <2>9. GlobalTo(args, "json", Len(args)) = <<>>
    BY <2>4, <2>6 DEF IsFlag
  <2> QED
    BY <1>3, <2>5, <2>6, <2>8, <2>9 DEF FromStdin
<1> QED
  BY <1>2, <1>3, <1>4, <1>5, <1>6

(* What is given with --json, on a line that asks for a command.           *)
LEMMA PayloadIs ==
  ASSUME NEW c, AskedFor(c), NEW texts, texts = GlobalTo(args, "json", Len(args)), NEW A, texts \in Seq(A)
  PROVE  /\ texts = <<>> => Only(texts) = None
         /\ texts # <<>> => Only(texts) \in Requests /\ svc.methods[c].shape \in {"unary", "server_stream"}
<1>1. AtMostOne(texts, Requests)
  BY DEF AskedFor, AsksFor
<1>2. texts # <<>> => svc.methods[c].shape \in {"unary", "server_stream"}
  BY DEF AskedFor, AsksFor
<1>3. texts # <<>> => 1 \in DOMAIN texts
  OBVIOUS
<1> QED
  BY <1>1, <1>2, <1>3 DEF AtMostOne, Only

-----------------------------------------------------------------------------
(* AskInv is inductive.                                                    *)
LEMMA StartAsk ==
  ASSUME TreeInv, ReportInv, LineInv, AskInv, Start
  PROVE  AskInv'
<1>1. /\ phase = "idle" /\ phase' = "preparse" /\ UNCHANGED <<svc, prog, tree>>
      /\ k' = 1 /\ json' = None /\ output' = None
  BY DEF Start
<1>2. TreeInv' /\ LineInv'
  BY StartLine, NextTree DEF Next
<1>3. args' \in Seq(ToSet(args'))
  <2>1. prog' \in Programs(svc') /\ svc' \in Services /\ run' \in DOMAIN prog'.lines
    BY <1>1, <1>2 DEF LineInv, TreeInv, Constructed, Interpreting
  <2>2. prog'.lines[run'] \in Seq(ToSet(prog'.lines[run']))
    BY <2>1, LinesAre DEF Lines, ToSet
  <2> QED
    BY <2>2 DEF args
<1>4. ASSUME NEW c, NEW name PROVE Only(GlobalTo(args', name, 0)) = None
  <2> DEFINE l == args'
             F == {m \in DOMAIN l : l[m].form = "inline" /\ l[m].name = name}
  <2>1. GlobalTo(l, name, 0) = TextsTo(l, F, 0)
    BY DEF GlobalTo
  <2>2. TextsGrow(ToSet(l), l, F)
    <3> HIDE DEF F, l
    <3> QED
      BY <1>3, TextsAre DEF l
  <2> QED
    BY <2>1, <2>2 DEF TextsGrow, Only
<1>5. \A c : OnTheWay(c)'
  <2>1. 1 - 1 = 0
    OBVIOUS
  <2> QED
    BY <1>1, <1>4, <2>1 DEF OnTheWay
<1>6. tree[Root] = Group
  BY <1>1 DEF AskInv, Constructed
<1> QED
  BY <1>1, <1>5, <1>6 DEF AskInv

LEMMA PreParseAsk ==
  ASSUME TreeInv, LineInv, AskInv, PreParseArg
  PROVE  AskInv'
<1> DEFINE arg == args[k]
           v == ValueAt(args, k)
           bad == \/ v \in {None, ""}
                  \/ arg.name = "json" /\ json # None
                  \/ arg.name = "output" /\ (output # None \/ v \notin {"text", "json"})
<1>1. phase = "preparse" /\ k <= Len(args) /\ UNCHANGED <<svc, prog, run, tree>>
  BY Zenon DEF PreParseArg, program
<1>2. \/ ~IsGlobal(arg) /\ k' = k + 1 /\ UNCHANGED <<phase, json, output>>
      \/ IsGlobal(arg) /\ bad /\ phase' = "idle"
      \/ /\ IsGlobal(arg) /\ ~bad /\ k' = k + Width(arg) /\ UNCHANGED phase
         /\ IF arg.name = "json" THEN json' = v /\ UNCHANGED output
            ELSE output' = v /\ UNCHANGED json
  BY Zenon DEF PreParseArg, FailUnmapped, globals
<1>3. Interpreting /\ Constructed /\ args' = args /\ phase' \in {"preparse", "idle"}
  <2>1. phase' = phase \/ phase' = "idle"
    BY <1>2, Zenon
  <2> QED
    BY <1>1, <2>1 DEF Interpreting, Constructed, args
<1>4. args \in Seq(ToSet(args)) /\ Arguments(ToSet(args)) /\ Len(args) \in Nat
  BY <1>3, ArgsAre
<1>5. k \in 1 .. Len(args)
  BY <1>1, <1>4 DEF LineInv, PreParsing
<1> HIDE DEF bad
<1>6. ASSUME NEW c, AskedFor(c) PROVE OnTheWay(c)'
  <2> DEFINE J(n) == GlobalTo(args, "json", n)
             O(n) == GlobalTo(args, "output", n)
  <2>1. /\ IsPlain(args) /\ AtMostOne(J(Len(args)), Requests)
        /\ AtMostOne(O(Len(args)), {"text", "json"})
    BY <1>6 DEF AskedFor, AsksFor
  <2>2. json = Only(J(k - 1)) /\ output = Only(O(k - 1))
    BY <1>1, <1>6 DEF AskedFor, OnTheWay
  <2>3. IF arg.form = "inline" /\ arg.name = "json"
        THEN arg.value \in Requests /\ Only(J(k - 1)) = None /\ Only(J(k)) = arg.value
        ELSE J(k) = J(k - 1)
    BY <1>4, <1>5, <2>1, OnlyGrows
  <2>4. IF arg.form = "inline" /\ arg.name = "output"
        THEN arg.value \in {"text", "json"} /\ Only(O(k - 1)) = None /\ Only(O(k)) = arg.value
        ELSE O(k) = O(k - 1)
    BY <1>4, <1>5, <2>1, OnlyGrows
  <2>5. arg.form \in {"word", "inline"}
    BY <1>4, <1>5, <2>1 DEF IsPlain
  <2>6. GoodText(arg.value)
    <3>1. /\ prog \in Programs(svc) /\ svc \in Services /\ run \in 1 .. Len(prog.lines)
          /\ args = prog.lines[run] /\ Lines(prog.lines)
      BY <1>3, LineIs
    <3>2. \A t \in LineValues(prog.lines) : GoodText(t)
      BY <3>1, LinesAre
    <3>3. arg \in ToSet(args) /\ args \in ToSet(prog.lines)
      <4>1. args \in ToSet(prog.lines)
        BY <3>1 DEF Lines, ToSet
      <4>2. arg \in ToSet(args)
        BY <1>4, <1>5
      <4> QED
        BY <4>1, <4>2
    <3> QED
      BY <3>2, <3>3 DEF LineValues, ValuesIn
  <2> HIDE DEF J, O
  <2>7. CASE ~IsGlobal(arg)
    <3>1. k' = k + 1 /\ UNCHANGED <<phase, json, output>>
      BY <1>2, <2>7
    <3>2. J(k) = J(k - 1) /\ O(k) = O(k - 1) /\ k' - 1 = k
      BY <1>5, <2>3, <2>4, <2>7, <3>1 DEF IsGlobal, IsFlag
    <3>3. json' = Only(J(k' - 1)) /\ output' = Only(O(k' - 1))
      BY <2>2, <3>1, <3>2
    <3> QED
      BY <1>1, <1>3, <3>1, <3>3 DEF OnTheWay, J, O
  <2>8. CASE IsGlobal(arg)
    <3>1. arg.form = "inline" /\ arg.name \in {"json", "output"} /\ v = arg.value /\ Width(arg) = 1
      BY <2>5, <2>8 DEF IsGlobal, IsFlag, ValueAt, Width
    <3>2. ~bad
      <4> HIDE DEF v, arg
      <4>1. CASE arg.name = "json"
        <5>1. v \in Requests /\ json = None
          BY <2>2, <2>3, <3>1, <4>1
        <5>2. v \notin {None, ""}
          BY <5>1, RequestAssumption, Zenon
        <5> QED
          BY <4>1, <5>1, <5>2, Zenon DEF bad
      <4>2. CASE arg.name = "output"
        <5>1. v \in {"text", "json"} /\ output = None
          BY <2>2, <2>4, <3>1, <4>2
        <5>2. v \notin {None, ""}
          BY <2>6, <3>1, <5>1, Zenon DEF GoodText
        <5> QED
          BY <4>2, <5>1, <5>2, Zenon DEF bad
      <4> QED
        BY <3>1, <4>1, <4>2
    <3>3. /\ k' = k + 1 /\ UNCHANGED phase
          /\ IF arg.name = "json" THEN json' = v /\ UNCHANGED output
             ELSE output' = v /\ UNCHANGED json
      BY <1>2, <2>8, <3>1, <3>2
    <3>4. k' - 1 = k
      BY <1>5, <3>3
    <3>5. json' = Only(J(k' - 1)) /\ output' = Only(O(k' - 1))
      BY <2>2, <2>3, <2>4, <3>1, <3>3, <3>4
    <3> QED
      BY <1>1, <1>3, <3>3, <3>5 DEF OnTheWay, J, O
  <2> QED
    BY <2>7, <2>8
<1> QED
  BY <1>1, <1>3, <1>6, AskStays

LEMMA PreParsedAsk ==
  ASSUME TreeInv, LineInv, AskInv, PreParsed
  PROVE  AskInv'
<1>1. /\ phase = "preparse" /\ k > Len(args) /\ phase' = "group"
      /\ UNCHANGED <<svc, prog, run, tree, json, node>>
  BY DEF PreParsed, program, line, globals
<1>2. Interpreting /\ Constructed /\ args' = args
  BY <1>1 DEF Interpreting, Constructed, args
<1>3. k - 1 = Len(args) /\ node = Root
  <2>1. Len(args) \in Nat
    BY <1>2, ArgsAre
  <2> QED
    BY <1>1, <2>1 DEF LineInv, PreParsing
<1>4. Root \in DOMAIN tree /\ tree[Root] = Group
  BY <1>2 DEF TreeInv, TreeExact, AskInv
<1>5. ASSUME NEW c, AskedFor(c) PROVE OnTheWay(c)'
  <2>1. json = Only(GlobalTo(args, "json", k - 1))
    BY <1>1, <1>5 DEF AskedFor, OnTheWay
  <2> QED
    BY <1>1, <1>2, <1>3, <2>1 DEF OnTheWay
<1> QED
  BY <1>1, <1>2, <1>3, <1>4, <1>5, AskStays

LEMMA GroupFlagAsk ==
  ASSUME TreeInv, LineInv, RequestInv, AskInv, ParseGroupFlag
  PROVE  AskInv'
<1>1. /\ phase = "group" /\ rest # <<>> /\ rest[1].form # "word"
      /\ UNCHANGED <<svc, prog, run, tree>>
  BY DEF ParseGroupFlag, MoreFlags, program
<1>2. \/ phase' \in {"idle", "failed"} /\ (IsHelp(rest[1]) \/ BadFlag(svc.flags))
      \/ phase' = "dispatch" /\ rest[1].form = "dashes" /\ UNCHANGED node
      \/ phase' = "group" /\ UNCHANGED <<json, node>>
  BY DEF ParseGroupFlag, Done, Fail, globals
<1>3. Interpreting /\ Constructed /\ args' = args
  BY <1>1 DEF Interpreting, Constructed, args
<1>4. ASSUME NEW c, AskedFor(c) PROVE OnTheWay(c)'
  <2>1. /\ rest[1].form = "inline" /\ rest[1].name \in DOMAIN svc.flags
        /\ GoodText(rest[1].value) /\ Takes(svc.flags[rest[1].name], rest[1].value)
    BY <1>1, <1>4, OnItsPath
  <2>2. \A n \in DOMAIN svc.flags :
          GoodField(svc.flags[n]) /\ (svc.flags[n].kind = "enum" => ~Collides(svc.flags[n].enum))
    BY <1>3, <1>4, FlagsAsked
  <2>3. ~BadFlag(svc.flags) /\ ~IsHelp(rest[1])
    BY <2>1, <2>2, FlagTaken DEF IsHelp
  <2>4. phase' = "group" /\ UNCHANGED json
    BY <1>2, <2>1, <2>3
  <2>5. json = Only(GlobalTo(args, "json", Len(args)))
    BY <1>1, <1>4 DEF AskedFor, OnTheWay
  <2> QED
    BY <1>3, <2>4, <2>5 DEF OnTheWay
<1>5. phase' \in {"group", "dispatch"} => node' \in DOMAIN tree /\ tree[node'] = Group
  BY <1>1, <1>2 DEF AskInv
<1> QED
  BY <1>1, <1>3, <1>4, <1>5, AskStays

LEMMA GroupFlagsParsedAsk ==
  ASSUME AskInv, GroupFlagsParsed
  PROVE  AskInv'
<1>1. /\ phase = "group" /\ phase' = "dispatch" /\ ~(HasFlags /\ MoreFlags)
      /\ UNCHANGED <<svc, prog, run, tree, json, node, rest, bound>>
  BY DEF GroupFlagsParsed, program, line, globals, flags
<1>2. Constructed /\ args' = args /\ ~(HasFlags /\ MoreFlags)'
  BY <1>1 DEF Constructed, args, HasFlags, MoreFlags
<1>3. ASSUME NEW c, AskedFor(c) PROVE OnTheWay(c)'
  <2>1. json = Only(GlobalTo(args, "json", Len(args)))
    BY <1>1, <1>3 DEF AskedFor, OnTheWay
  <2> QED
    BY <1>1, <1>2, <2>1 DEF OnTheWay
<1>4. node' \in DOMAIN tree /\ tree[node'] = Group
  BY <1>1 DEF AskInv
<1> QED
  BY <1>1, <1>2, <1>3, <1>4, AskStays

LEMMA DispatchAsk ==
  ASSUME TreeInv, LineInv, RequestInv, AskInv, Dispatch
  PROVE  AskInv'
<1> DEFINE arg == rest[1]
           child == Append(node, arg.value)
           fails == \/ rest = <<>> \/ IsHelp(arg) \/ arg.form # "word" \/ child \notin DOMAIN tree
                    \/ Len(rest) > 1 /\ IsHelp(rest[2])
           own1 == NoFlags(svc.methods[tree[child]].flags)
<1>1. phase = "dispatch" /\ UNCHANGED <<svc, prog, run, tree>>
  BY DEF Dispatch, program
<1>2. \/ phase' \in {"idle", "failed"} /\ fails
      \/ /\ child \in DOMAIN tree /\ UNCHANGED json
         /\ phase' = IF tree[child] = Group THEN "group" ELSE "leaf"
         /\ tree[child] \notin {Group, Show} => own' = own1
         /\ node' = child
  BY DEF Dispatch, Done, Fail, globals, Text
<1>3. Interpreting /\ Constructed /\ args' = args
  BY <1>1 DEF Interpreting, Constructed, args
<1>4. phase' \in {"group", "dispatch"} => node' \in DOMAIN tree /\ tree[node'] = Group
  <2> HIDE DEF child, fails, own1
  <2> QED
    BY <1>2
<1>5. ASSUME NEW c, AskedFor(c) PROVE OnTheWay(c)'
  <2>1. /\ rest # <<>> /\ arg.form \in {"word", "inline"}
        /\ Len(rest) > 1 => rest[2].form \in {"word", "inline"}
        /\ arg.form = "word" =>
             child \in DOMAIN tree /\ (tree[child] # Group => child = PathOf(svc, c))
        /\ arg.form = "inline" => HasFlags
    BY <1>1, <1>5, OnItsPath
  <2>2. ~(HasFlags /\ MoreFlags) /\ json = Only(GlobalTo(args, "json", Len(args)))
    BY <1>1, <1>5 DEF AskedFor, OnTheWay
  <2>3. arg.form = "word"
    BY <2>1, <2>2 DEF MoreFlags
  <2>4. ~fails
    BY <2>1, <2>3 DEF IsHelp
  <2>5. /\ child \in DOMAIN tree /\ UNCHANGED json
        /\ phase' = IF tree[child] = Group THEN "group" ELSE "leaf"
        /\ tree[child] \notin {Group, Show} => own' = own1
        /\ node' = child /\ (tree[child] # Group => child = PathOf(svc, c))
    <3> HIDE DEF child, fails, own1, arg
    <3> QED
      BY <1>2, <2>1, <2>3, <2>4
  <2> HIDE DEF child, fails
  <2>6. CASE tree[child] = Group
    BY <1>3, <2>2, <2>5, <2>6 DEF OnTheWay
  <2>7. CASE tree[child] # Group
    <3>1. /\ c \in DOMAIN svc.methods /\ c \notin {Group, Show} /\ tree[PathOf(svc, c)] = c
      BY <1>3, <1>5, AskedIs
    <3>2. tree'[node'] = c /\ own' = own1 /\ Method' = svc.methods[c] /\ tree[child] = c
      BY <1>1, <2>5, <2>7, <3>1 DEF Method
    <3>3. \A f : Decoded(f, <<>>)
      BY Zenon DEF Decoded
    <3>4. own' = [n \in DOMAIN Method'.flags |-> <<>>]
      BY <3>2 DEF NoFlags
    <3>5. ~Undecoded(Method'.flags, own')
      BY <3>3, <3>4 DEF Undecoded
    <3>6. (~Undecoded(Method.flags, own))'
      BY <3>5
    <3> QED
      BY <1>3, <2>2, <2>5, <2>7, <3>2, <3>6 DEF OnTheWay
  <2> QED
    BY <2>6, <2>7
<1> QED
  BY <1>1, <1>3, <1>4, <1>5, AskStays

LEMMA SchemaAsk ==
  ASSUME TreeInv, LineInv, RequestInv, AskInv, ShowSchema
  PROVE  AskInv'
<1>1. /\ phase = "leaf" /\ tree[node] = Show /\ phase' \in {"idle", "failed"}
      /\ UNCHANGED <<svc, prog, run, tree>>
  BY DEF ShowSchema, Done, Fail, program
<1>2. ~AtMethod
  BY <1>1 DEF AtMethod
<1>3. \A c : ~AskedFor(c)
  BY <1>1, <1>2, AtItsPath
<1> QED
  BY <1>1, <1>3, AskStays DEF Constructed

LEMMA LeafFlagAsk ==
  ASSUME TreeInv, LineInv, RequestInv, AskInv, ParseLeafFlag
  PROVE  AskInv'
<1> DEFINE message == Method.flags
           name == rest[1].name
<1>1. /\ phase = "leaf" /\ MoreFlags /\ UNCHANGED <<svc, prog, run, tree>>
  BY DEF ParseLeafFlag, AtMethod, program
<1>2. \/ phase' = "failed" /\ BadFlag(message)
      \/ phase' = "leaf" /\ own' = WithFlag(message, own) /\ UNCHANGED <<json, node>>
  BY <1>1 DEF ParseLeafFlag, Fail, globals
<1>4. ASSUME NEW c, AskedFor(c) PROVE OnTheWay(c)'
  <2>1. /\ tree[node] = c /\ Method = svc.methods[c] /\ ~Undecoded(message, own)
        /\ json = Only(GlobalTo(args, "json", Len(args))) /\ AtMethod
        /\ rest[1].form = "inline" /\ name \in DOMAIN message
        /\ GoodText(rest[1].value) /\ Takes(message[name], rest[1].value)
    BY <1>1, <1>4, AtItsPath
  <2>2. GoodField(message[name]) /\ (message[name].kind = "enum" => ~Collides(message[name].enum))
    BY <1>1, <1>4, <2>1, FlagsAsked DEF Interpreting
  <2>3. ~BadFlag(message)
    BY <2>1, <2>2, FlagTaken
  <2>4. /\ phase' = "leaf" /\ own' = WithFlag(message, own) /\ UNCHANGED <<json, node>>
        /\ args' = args /\ Method' = Method
    BY <1>1, <1>2, <2>3 DEF args, Method
  <2>5. own' = [own EXCEPT ![name] = Set(message[name], @, Parse(message[name], rest[1].value))]
    <3> HIDE DEF message
    <3> QED
      BY <2>1, <2>3, <2>4, InlineIs
  <2>6. DOMAIN own = DOMAIN message
    BY <2>1 DEF RequestInv, LeafInv
  <2>7. Decoded(message[name], own'[name])
    <3>1. \A var : Decoded(message[name], Set(message[name], var, Parse(message[name], rest[1].value)))
      BY <2>1, <2>2, TakesIs
    <3> QED
      BY <2>1, <2>5, <2>6, <3>1
  <2>8. \A n \in DOMAIN message : n # name => own'[n] = own[n]
    BY <2>5, <2>6
  <2>9. ~Undecoded(message, own')
    <3> HIDE DEF message, name
    <3> QED
      BY <2>1, <2>7, <2>8 DEF Undecoded
  <2>10. (~Undecoded(Method.flags, own))'
    BY <2>4, <2>9
  <2> QED
    BY <1>1, <2>1, <2>4, <2>10 DEF OnTheWay
<1> QED
  BY <1>1, <1>2, <1>4, AskStays DEF Constructed

LEMMA InvokeAsk ==
  ASSUME TreeInv, ReportInv, LineInv, RequestInv, AskInv, phase = "leaf", UNCHANGED program,
         NEW source, NEW o, NEW b, Invoke(source, o, b)
  PROVE  AskInv'
<1>1. UNCHANGED <<svc, prog, run, tree>>
  BY DEF program
<1>2. PICK call : /\ call.run = run /\ call.method = tree[node] /\ calls' = Append(calls, call)
                  /\ phase' = "serving"
  BY CalledWith
<1>3. calls' # <<>> /\ Last(calls') = call
  BY <1>2, LastAppended DEF ReportInv
<1>4. ASSUME NEW c, AskedFor(c) PROVE OnTheWay(c)'
  <2>1. tree[node] = c
    BY <1>4, AtItsPath
  <2>2. Served' /\ Last(calls').method = c
    BY <1>1, <1>2, <1>3, <2>1 DEF Served
  <2> QED
    BY <1>2, <2>2 DEF OnTheWay
<1> QED
  BY <1>1, <1>2, <1>4, AskStays DEF Constructed

LEMMA StdinAsk ==
  ASSUME TreeInv, ReportInv, LineInv, RequestInv, AskInv, RunOnStdin
  PROVE  AskInv'
<1>1. /\ phase = "leaf" /\ FromStdin /\ UNCHANGED program
      /\ \/ phase' = "failed" /\ (json # None \/ rest # <<>>)
         \/ Invoke("stdin", NoFields, NoFields)
  BY DEF RunOnStdin, AtMethod, Fail
<1>2. CASE Invoke("stdin", NoFields, NoFields)
  BY <1>1, <1>2, InvokeAsk
<1>3. CASE phase' = "failed" /\ (json # None \/ rest # <<>>)
  <2>1. ASSUME NEW c, AskedFor(c) PROVE FALSE
    <3>1. /\ AtMethod /\ IsPlain(args) /\ Commands(svc, args) = node /\ ~MoreFlags
          /\ Method = svc.methods[c] /\ json = Only(GlobalTo(args, "json", Len(args)))
      BY <1>1, <2>1, AtItsPath
    <3>2. rest = <<>>
      BY <3>1, AllTaken
    <3>3. json = None
      <4>1. GlobalTo(args, "json", Len(args)) = <<>>
        BY <1>1, <2>1, <3>1 DEF AskedFor, AsksFor, FromStdin
      <4> QED
        BY <3>1, <4>1 DEF Only
    <3> QED
      BY <1>3, <3>2, <3>3
  <2>2. UNCHANGED <<svc, prog, run, tree>>
    BY <1>1 DEF program
  <2> QED
    BY <1>1, <1>3, <2>1, <2>2, AskStays DEF Constructed
<1> QED
  BY <1>1, <1>2, <1>3

LEMMA JSONAsk ==
  ASSUME TreeInv, ReportInv, LineInv, RequestInv, AskInv, RunOnJSON
  PROVE  AskInv'
<1>1. /\ phase = "leaf" /\ json # None /\ UNCHANGED program
      /\ \/ phase' = "failed" /\ (rest # <<>> \/ json \notin Requests)
         \/ Invoke("json", NoFields, NoFields)
  BY DEF RunOnJSON, AtMethod, Fail
<1>2. CASE Invoke("json", NoFields, NoFields)
  BY <1>1, <1>2, InvokeAsk
<1>3. CASE phase' = "failed" /\ (rest # <<>> \/ json \notin Requests)
  <2>1. ASSUME NEW c, AskedFor(c) PROVE FALSE
    <3> DEFINE texts == GlobalTo(args, "json", Len(args))
    <3>1. /\ AtMethod /\ IsPlain(args) /\ Commands(svc, args) = node
          /\ MoreFlags => texts = <<>>
          /\ json = Only(texts)
      BY <1>1, <2>1, AtItsPath
    <3>2. texts # <<>> /\ AtMostOne(texts, Requests)
      BY <1>1, <2>1, <3>1 DEF AskedFor, AsksFor, Only
    <3>3. 1 \in DOMAIN texts
      <4> DEFINE F == {m \in DOMAIN args : args[m].form = "inline" /\ args[m].name = "json"}
      <4>1. args \in Seq(ToSet(args)) /\ Len(args) \in Nat
        BY <1>1, ArgsAre DEF Interpreting
      <4>2. TextsGrow(ToSet(args), args, F) /\ texts = TextsTo(args, F, Len(args))
        <5>1. TextsGrow(ToSet(args), args, F)
          <6> HIDE DEF F
          <6> QED
            BY <4>1, TextsAre
        <5> QED
          BY <5>1 DEF GlobalTo
      <4>3. Len(args) \in 0 .. Len(args)
        BY <4>1
      <4> HIDE DEF F, texts
      <4>4. texts \in Seq(ValuesIn(ToSet(args)))
        BY <4>2, <4>3 DEF TextsGrow
      <4> QED
        BY <3>2, <4>4
    <3> HIDE DEF texts
    <3>4. json \in Requests
      BY <3>1, <3>2, <3>3 DEF AtMostOne, Only
    <3>5. rest = <<>>
      BY <3>1, <3>2, AllTaken
    <3> QED
      BY <1>3, <3>4, <3>5
  <2>2. UNCHANGED <<svc, prog, run, tree>>
    BY <1>1 DEF program
  <2> QED
    BY <1>1, <1>3, <2>1, <2>2, AskStays DEF Constructed
<1> QED
  BY <1>1, <1>2, <1>3

LEMMA FlagsAsk ==
  ASSUME TreeInv, ReportInv, LineInv, RequestInv, AskInv, RunOnFlags
  PROVE  AskInv'
<1> DEFINE message == Method.flags
           group == IF Method.bind = "message" THEN GroupFlags(svc) ELSE NoFields
<1>1. /\ phase = "leaf" /\ UNCHANGED program
      /\ \/ /\ phase' = "failed" /\ (Undecoded(message, own) \/ Undecoded(group, bound))
            /\ UNCHANGED bound
         \/ Invoke("flags", Request(message, own), Request(group, bound))
  BY Zenon DEF RunOnFlags, AtMethod, Fail, flags
<1>2. CASE Invoke("flags", Request(message, own), Request(group, bound))
  BY <1>1, <1>2, InvokeAsk
<1>3. CASE /\ phase' = "failed" /\ (Undecoded(message, own) \/ Undecoded(group, bound))
           /\ UNCHANGED bound
  <2>1. UNCHANGED <<svc, prog, run, tree>>
    BY <1>1 DEF program
  <2>2. ASSUME NEW c, AskedFor(c) PROVE OnTheWay(c)'
    <3>1. Undecoded(group, bound)
      BY <1>1, <1>3, <2>2, AtItsPath
    <3>2. DOMAIN bound = DOMAIN GroupFlags(svc)
      BY <1>1, RequestIs DEF RequestInv, GroupParts, Constructed
    <3>3. PICK n \in DOMAIN group : ~Decoded(group[n], bound[n])
      BY <3>1 DEF Undecoded
    <3>4. n \in DOMAIN GroupFlags(svc) /\ group[n] = svc.flags[n]
      BY <3>3 DEF GroupFlags, NoFields
    <3> QED
      BY <1>3, <2>1, <3>2, <3>3, <3>4 DEF OnTheWay
  <2> QED
    BY <1>1, <1>3, <2>1, <2>2, AskStays DEF Constructed
<1> QED
  BY <1>1, <1>2, <1>3

LEMMA ServeAsk ==
  ASSUME AskInv, Receive \/ Send \/ ReturnError \/ ReturnStream \/ ReturnResponse \/ Report
  PROVE  AskInv'
<1>1. /\ phase \in {"serving", "failed"} /\ phase' \in {"serving", "failed", "idle"}
      /\ UNCHANGED <<svc, prog, run, tree, bound, calls>>
  <2>1. CASE Receive \/ Send
    BY <2>1 DEF Receive, Send, Serving, program, flags
  <2>2. CASE ReturnError
    BY <2>2 DEF ReturnError, Serving, program, flags
  <2>3. CASE ReturnStream
    BY <2>3 DEF ReturnStream, Serving, program, flags
  <2>4. CASE ReturnResponse
    <3>1. /\ phase = "serving" /\ phase' \in {"failed", "idle"} /\ UNCHANGED <<program, flags, calls>>
      BY <2>4, Zenon DEF ReturnResponse, Serving
    <3> QED
      BY <3>1 DEF program, flags
  <2>5. CASE Report
    BY <2>5 DEF Report, program, flags
  <2> QED
    BY <2>1, <2>2, <2>3, <2>4, <2>5
<1>2. ASSUME NEW c, AskedFor(c) PROVE OnTheWay(c)'
  <2>1. (Served /\ Last(calls).method = c) \/ \E n \in DOMAIN bound : ~Decoded(svc.flags[n], bound[n])
    BY <1>1, <1>2 DEF AskedFor, OnTheWay
  <2> QED
    BY <1>1, <2>1 DEF OnTheWay, Served
<1> QED
  BY <1>1, <1>2, AskStays DEF Constructed

LEMMA GenerateAsk ==
  ASSUME TreeInv, ReportInv, AskInv, Validate \/ InsertMethod \/ Construct
  PROVE  AskInv'
<1>1. CASE Validate \/ InsertMethod
  <2>1. phase' \in {"rejected", "insert", "crashed"} /\ run' = run /\ ~Constructed
    BY <1>1 DEF Validate, InsertMethod, Constructed, program
  <2>2. run' = 0
    BY <2>1 DEF ReportInv
  <2> QED
    BY <2>1, <2>2 DEF AskInv, Constructed
<1>2. CASE Construct
  <2>1. run' = 0
    BY <1>2 DEF Construct, ReportInv, Constructed
  <2>2. \/ phase' \in {"rejected", "crashed"}
        \/ phase' = "idle" /\ tree[Root] = Group /\ tree' = AddSchema(Prune(tree))
    BY <1>2 DEF Construct
  <2>3. CASE phase' \in {"rejected", "crashed"}
    BY <2>1, <2>3 DEF AskInv, Constructed
  <2>4. CASE phase' = "idle" /\ tree[Root] = Group /\ tree' = AddSchema(Prune(tree))
    <3>1. Root \in DOMAIN tree /\ ~IsPrefix(Schema, Root) /\ Root # Schema
      BY AboveSchema DEF TreeInv, TreeExact
    <3>2. Root \in DOMAIN Prune(tree) /\ Prune(tree)[Root] = Group
      BY <2>4, <3>1 DEF Prune
    <3> DEFINE t == Prune(tree)
    <3> HIDE DEF t
    <3>3. AddSchema(t)[Root] = t[Root]
      BY <3>1, <3>2 DEF AddSchema, t
    <3> QED
      BY <2>1, <2>4, <3>2, <3>3 DEF AskInv, t
  <2> QED
    BY <2>2, <2>3, <2>4
<1> QED
  BY <1>1, <1>2

LEMMA NextAsk == TreeInv /\ ReportInv /\ LineInv /\ RequestInv /\ AskInv /\ [Next]_vars => AskInv'
<1> SUFFICES ASSUME TreeInv, ReportInv, LineInv, RequestInv, AskInv, [Next]_vars PROVE AskInv'
  OBVIOUS
<1>1. CASE Validate \/ InsertMethod \/ Construct
  BY <1>1, GenerateAsk
<1>2. CASE Start
  BY <1>2, StartAsk
<1>3. CASE PreParseArg
  BY <1>3, PreParseAsk
<1>4. CASE PreParsed
  BY <1>4, PreParsedAsk
<1>5. CASE ParseGroupFlag
  BY <1>5, GroupFlagAsk
<1>6. CASE GroupFlagsParsed
  BY <1>6, GroupFlagsParsedAsk
<1>7. CASE Dispatch
  BY <1>7, DispatchAsk
<1>8. CASE ShowSchema
  BY <1>8, SchemaAsk
<1>9. CASE RunOnStdin
  BY <1>9, StdinAsk
<1>10. CASE RunOnJSON
  BY <1>10, JSONAsk
<1>11. CASE ParseLeafFlag
  BY <1>11, LeafFlagAsk
<1>12. CASE RunOnFlags
  BY <1>12, FlagsAsk
<1>13. CASE Receive \/ Send \/ ReturnError \/ ReturnStream \/ ReturnResponse \/ Report
  BY <1>13, ServeAsk
<1>14. CASE UNCHANGED vars
  <2>1. /\ UNCHANGED <<svc, prog, run, tree, phase, json, output, k, rest, node, own, bound, calls>>
    BY <1>14 DEF vars, program, globals, line, flags
  <2>2. UNCHANGED <<args, Method, HasFlags, MoreFlags, Served, WellFormed, Constructed>>
    BY <2>1 DEF args, Method, HasFlags, MoreFlags, Served, WellFormed, Nodes, Constructed
  <2>3. \A c : OnTheWay(c)' <=> OnTheWay(c)
    BY <2>1, <2>2 DEF OnTheWay
  <2> QED
    BY <2>1, <2>2, <2>3 DEF AskInv
<1> QED
  BY <1>1, <1>2, <1>3, <1>4, <1>5, <1>6, <1>7, <1>8, <1>9, <1>10, <1>11, <1>12, <1>13, <1>14
  DEF Next, Finished

(* Runner.Run: a command that is asked for, with global flags anywhere and *)
(* its own where they belong, is called.                                   *)
THEOREM CommandsRunWhenAsked == Spec => []CommandsRun
<1>1. Init => TreeInv /\ ReportInv /\ LineInv /\ RequestInv /\ AskInv
  <2>1. Init => AskInv
    BY DEF Init, AskInv, Constructed
  <2> QED
    BY <2>1, InitTree, InitReport, InitLine, InitRequest
<1>2. TreeInv /\ ReportInv /\ LineInv /\ RequestInv /\ AskInv /\ [Next]_vars
        => (TreeInv /\ ReportInv /\ LineInv /\ RequestInv /\ AskInv)'
  BY NextTree, NextReport, NextLine, NextRequest, NextAsk
<1>3. ReportInv /\ AskInv => CommandsRun
  BY DEF AskInv, CommandsRun, OnTheWay, Served
<1> QED
  BY <1>1, <1>2, <1>3, PTL DEF Spec
=============================================================================
