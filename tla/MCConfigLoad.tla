---------------------------- MODULE MCConfigLoad ----------------------------
(***************************************************************************)
(* Two fields, in one message or in two; command lines of up to three      *)
(* arguments.  The first field may be set by every source; the second may  *)
(* compete with it for the variable and the flag.                          *)
(***************************************************************************)
EXTENDS ConfigLoadProperties

Wired(spec, default, e, fl, required) ==
  [spec |-> spec, default |-> default, env |-> e, flag |-> fl, required |-> required]

MCFields == {"f", "g"}

MCDeclarations ==
  {d \in {[x \in MCFields |-> IF x = "f" THEN Wired(1, default, "E", "a", TRUE)
                               ELSE Wired(spec, FALSE, e, fl, required)] :
            default \in BOOLEAN, spec \in 1..2, e \in {None, "E", "F"},
            fl \in {None, "a", "b"}, required \in BOOLEAN} :
     Declarable(d)}

Inline(name, value) == [form |-> "inline", name |-> name, value |-> value]
Separate(name)      == [form |-> "flag", name |-> name, value |-> ""]

MCArguments ==
  {Inline("config", "good"), Inline("config", ""), Inline("a", "good"), Inline("a", "bad"),
   Inline("b", "good"), Inline("other", "good"),
   Separate("config"), Separate("a"), Separate("b"),
   [form |-> "word", name |-> "", value |-> "good"],
   [form |-> "dashes", name |-> "", value |-> ""]}

MCArgvs == UNION {[1..n -> MCArguments] : n \in 0..3}
=============================================================================
