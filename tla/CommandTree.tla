---------------------------- MODULE CommandTree -----------------------------
(***************************************************************************)
(* The command tree that the generator builds for a service                *)
(* (internal/codegen/tree.go, validate.go).  A tree is a function from the *)
(* paths of its nodes to what they are: a group, the number of the method  *)
(* a leaf runs, or the schema command.                                     *)
(*                                                                         *)
(* A service is a record: path, the segments of its group; bind, whether   *)
(* it binds a field of its requests, a message, to flags of that group,    *)
(* and flags, that message (CliFlags); methods, each with its path, cli,   *)
(* whether the CLI exposes it, its shape, its request's own fields in      *)
(* flags, what the request has for the bound field in bind ("message",     *)
(* "other" or "missing"), and known, whether the request is at the top     *)
(* level of a file that is generated.  A service at the root binds nothing.*)
(***************************************************************************)
EXTENDS CliFlags

CONSTANT Parts(_)  (* the words of a segment between dashes and underscores   *)

Group == 0
Show  == -1
Root  == <<>>

Exposed(svc)   == {k \in DOMAIN svc.methods : svc.methods[k].cli}
PathOf(svc, k) == svc.path \o svc.methods[k].path

(* validateDuplicatePaths.                                                 *)
DuplicatePaths(svc) ==
  \E k, l \in Exposed(svc) : k # l /\ PathOf(svc, k) = PathOf(svc, l)

(* validateBindInto: the bound field of each exposed request that is found *)
(* must be a message.                                                      *)
BindsWrongly(svc) ==
  svc.bind /\ \E k \in Exposed(svc) : svc.methods[k].known /\ svc.methods[k].bind # "message"

(* validateEnumCollisions.                                                 *)
EnumsCollide(svc) ==
  Refused(svc.flags) \/ \E k \in DOMAIN svc.methods : Refused(svc.methods[k].flags)

(* resolveBindIntoCtxs, emitGroupDecl: the flags of the service's group.   *)
NoFields == [n \in {} |-> n]
GroupFlags(svc) ==
  IF svc.bind /\ \E k \in DOMAIN svc.methods : svc.methods[k].bind = "message"
  THEN svc.flags ELSE NoFields

(* The nodes insertLeaf walks through, the root included.                  *)
WalkedThrough(path) == {SubSeq(path, 1, n) : n \in 0..Len(path) - 1}

(* It adds a child to a node that is a leaf by now: a nil map.             *)
AddsToLeaf(tree, path) ==
  \E p \in WalkedThrough(path) : p \in DOMAIN tree /\ tree[p] # Group

(* insertLeaf: missing groups are added; the last node becomes the leaf,   *)
(* whatever it was, and loses its children.                                *)
InsertLeaf(tree, path, k) ==
  LET kept == {p \in DOMAIN tree : ~IsStrictPrefix(path, p)}
  IN  [p \in kept \union WalkedThrough(path) \union {path} |->
         IF p = path THEN k ELSE IF p \in DOMAIN tree THEN tree[p] ELSE Group]

(* Fault: a group is dead unless one of its children is a leaf.            *)
PruneShallow(tree) ==
  LET dead == {p \in DOMAIN tree \ {Root} :
                 tree[p] = Group /\ \A q \in DOMAIN tree : tree[q] # Group => q = Root \/ Front(q) # p}
  IN  [p \in {p \in DOMAIN tree : \A d \in dead : ~IsPrefix(d, p)} |-> tree[p]]

(* pruneDeadGroups: the root stays; other groups need a leaf below them.   *)
Prune(tree) ==
  [p \in {p \in DOMAIN tree :
            \/ p = Root \/ tree[p] # Group
            \/ \E q \in DOMAIN tree : tree[q] # Group /\ IsStrictPrefix(p, q)} |-> tree[p]]

(* emitRequestFields: wherever the field is in a request that flags make   *)
(* up, the group's message is assigned to it.                              *)
BindsElsewhere(svc) ==
  DOMAIN GroupFlags(svc) # {} /\
    \E k \in Exposed(svc) :
      svc.methods[k].bind = "other" /\ svc.methods[k].shape \in {"unary", "server_stream"}

(* pathToVarName: dashes and the ends of segments become the same sign.    *)
VarName(path) == FlattenSeq([n \in DOMAIN path |-> Parts(path[n])])

(* Go takes no message for another type, and no variable twice.            *)
Compiles(svc, tree) ==
  ~BindsElsewhere(svc) /\ \A p, q \in DOMAIN tree : VarName(p) = VarName(q) => p = q

(* emitSchemaNode: it replaces a child of that name, whose children are    *)
(* then out of reach.                                                      *)
Schema == <<"schema">>
AddSchema(tree) ==
  [p \in {p \in DOMAIN tree : ~IsPrefix(Schema, p)} \union {Schema} |->
     IF p = Schema THEN Show ELSE tree[p]]

=============================================================================
