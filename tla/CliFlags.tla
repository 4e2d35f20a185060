------------------------------ MODULE CliFlags ------------------------------
(***************************************************************************)
(* The flags that the generator makes of the fields of a message           *)
(* (internal/codegen/cli.go), and the flag values that hold what the user  *)
(* gives (transport/cli/flag.go).                                          *)
(*                                                                         *)
(* A field is a record: kind, its protobuf kind; card, "single", "list" or *)
(* "map", then of kind message; enum, the values of its type in order,     *)
(* each with a word, its name in lower case without the prefix made from   *)
(* the type's name, and a number; checked, whether the message is at the   *)
(* top level of a file that is generated.  A message is a function from    *)
(* names to fields.                                                        *)
(*                                                                         *)
(* A flag's variable is the sequence of the values it holds: none when it  *)
(* was never set, one unless it is a list.  A value is named by its text.  *)
(***************************************************************************)
EXTENDS Integers, Sequences, SequencesExt

CONSTANTS
  Accepts(_, _),  (* a Go type's parser takes a text (strconv)             *)
  Decodes(_, _),  (* a text is base64, or the JSON of a field's value      *)
  Lower(_),       (* strings.ToLower                                       *)
  None

(* isJSONStringFlag: one JSON document for the whole field.                *)
Documented(f) == f.kind = "message" \/ (f.card = "list" /\ f.kind = "bytes")

(* isPostAssignField: a text that is decoded after all flags are parsed.   *)
PostAssigned(f) == Documented(f) \/ (f.card = "single" /\ f.kind = "bytes")

Repeats(f) == f.card = "list" /\ ~Documented(f)

(* flag.boolFlag: package flag gives a switch no argument.  The slice of a *)
(* repeated bool does not have IsBoolFlag.                                 *)
Switch(f) == f.kind = "bool" /\ f.card = "single"

(* resolveFieldType, resolveRepeatedFieldType.                             *)
GoType(f) ==
  CASE PostAssigned(f) \/ f.kind = "string"       -> "string"
    [] f.kind \in {"int32", "sint32", "sfixed32"} -> "int32"
    [] f.kind \in {"int64", "sint64", "sfixed64"} -> "int64"
    [] f.kind \in {"uint32", "fixed32"}           -> "uint32"
    [] f.kind \in {"uint64", "fixed64"}           -> "uint64"
    [] f.kind = "float"                           -> "float32"
    [] f.kind = "double"                          -> "float64"
    [] OTHER                                      -> f.kind

-----------------------------------------------------------------------------
(* enumCLIValues: the value 0 has no name on the command line, and two     *)
(* others must not share one.                                              *)
Mapping(enum) == {i \in DOMAIN enum : enum[i].number # 0}

Collides(enum) == \E i, j \in Mapping(enum) : i # j /\ enum[i].word = enum[j].word

(* validateEnumCollisions looks at the fields of these messages alone ...  *)
Refused(message) ==
  \E n \in DOMAIN message :
    message[n].kind = "enum" /\ message[n].checked /\ Collides(message[n].enum)

(* ... and emitEnumMappingEntries writes no value of an enum it refuses.   *)
Emitted(enum) == IF Collides(enum) THEN {} ELSE Mapping(enum)

(* EnumValue.Set: the number of the first value of that name.              *)
EnumNumber(enum, text) ==
  LET same == {i \in Emitted(enum) : enum[i].word = Lower(text)}
  IN  IF same = {} THEN None ELSE enum[CHOOSE i \in same : \A j \in same : i <= j].number

-----------------------------------------------------------------------------
(* The Set methods: the value a text is parsed to, or None; a list takes   *)
(* it in addition to those it holds.                                       *)
Parse(f, text) ==
  IF f.kind = "enum" THEN EnumNumber(f.enum, text)
  ELSE IF Accepts(GoType(f), text) THEN text
  ELSE None

Set(f, var, v) == IF Repeats(f) THEN Append(var, v) ELSE <<v>>

(* emitPostAssignFieldCode: a text must decode, unless it is empty, ...    *)
Decoded(f, var) == ~PostAssigned(f) \/ var \in {<<>>, <<"">>} \/ Decodes(f, var[1])

(* ... and then adds nothing to the request.                               *)
Built(f, var) == IF PostAssigned(f) /\ var = <<"">> THEN <<>> ELSE var

NoFlags(message) == [n \in DOMAIN message |-> <<>>]
=============================================================================
