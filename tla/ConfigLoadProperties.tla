------------------------ MODULE ConfigLoadProperties ------------------------
(***************************************************************************)
(* What the configuration that Load returns owes to its sources.           *)
(***************************************************************************)
EXTENDS ConfigLoad

Loaded == phase = "loaded"

(* The arguments ParseBootstrapArgs consumed.                              *)
Consumed == 1..(Len(argv) - Len(rest))

(* A flag of the consumed part of argv that is not the value of another.   *)
Given(name) == \E k \in Consumed : Recognized(argv[k]) /\ argv[k].name = name

(* Load: every field holds the value of the strongest source that supplied *)
(* one, a flag before the environment before the file before the default;  *)
(* a field the file does not mention keeps its default.                    *)
Precedence ==
  Loaded => \A f \in Fields :
    cfg[f] = IF Given(decl[f].flag) THEN "flag"
             ELSE IF decl[f].env \in Envs /\ env[decl[f].env] = "good" THEN "env"
             ELSE IF file[f] = "good" THEN "file"
             ELSE IF decl[f].default /\ file[f] = "absent" THEN "default"
             ELSE "zero"

(* ValidateRequired judges by presence, not by value: a required field of  *)
(* a configuration that loads has a value, save one whose default a null   *)
(* in the file erased.                                                     *)
RequiredHaveValues ==
  Loaded => \A f \in Required : cfg[f] = "zero" => decl[f].default /\ file[f] = "null"

(* ParseBootstrapArgs takes nothing but leading bootstrap flags and their  *)
(* values: what it leaves starts where it stopped, with an argument that   *)
(* is no bootstrap flag, so the CLI sees all arguments of the procedure.   *)
ProcedureArgsKept ==
  Loaded =>
    /\ IsSuffix(rest, argv)
    /\ rest # <<>> => ~Recognized(rest[1])
    /\ \A k \in Consumed :
         \/ Recognized(argv[k]) /\ (argv[k].form = "flag" => k + 1 \in Consumed)
         \/ k > 1 /\ argv[k - 1].form = "flag" /\ argv[k].form = "word"

(* One environment variable, or one flag, never sets fields of two         *)
(* messages that were written without knowledge of each other.             *)
OneFieldPerName ==
  Loaded => \A f, g \in Fields :
    /\ cfg[f] = "env" /\ cfg[g] = "env" /\ decl[f].env = decl[g].env => f = g
    /\ cfg[f] = "flag" /\ cfg[g] = "flag" /\ decl[f].flag = decl[g].flag => f = g

(* A path given with --config among the bootstrap flags.                   *)
FileNamed ==
  \E k \in Consumed : Recognized(argv[k]) /\ argv[k].name = "config" /\ ValueOf(k) # ""

(* A file named on the command line is never silently left out, whole or   *)
(* in part: if Load succeeds, there is one message, the file is a JSON     *)
(* object of its fields, each given once and with a value of its type, and *)
(* every entry has replaced the default, or been replaced in turn by the   *)
(* environment or a flag.                                                  *)
FileMerged ==
  Loaded /\ FileNamed =>
    /\ ~Composite
    /\ document = "known"
    /\ \A f \in Fields :
         /\ file[f] \notin {"twice", "bad"}
         /\ file[f] = "good" => cfg[f] \in {"file", "env", "flag"}
         /\ file[f] = "null" => cfg[f] \in {"zero", "env", "flag"}

(* load.go:13: T may be a struct embedding one or more config messages.    *)
(* Load populates them, however many there are.                            *)
EmbeddedPopulated == phase # "panicked" /\ (Loaded => ~unallocated)

-----------------------------------------------------------------------------
(* The inductive invariant behind these properties.                        *)

(* What a field holds when a source has been applied, in the order of the  *)
(* sources.                                                                *)
FromDefault(f) == IF decl[f].default THEN "default" ELSE "zero"
FromFile(f) ==
  IF file[f] = "good" THEN "file"
  ELSE IF decl[f].default /\ file[f] = "absent" THEN "default" ELSE "zero"
FromEnv(f)  == IF decl[f].env \in Envs /\ env[decl[f].env] = "good" THEN "env" ELSE FromFile(f)
FromFlag(f) == IF decl[f].flag \in DOMAIN values THEN "flag" ELSE FromEnv(f)

BeforeParse == {"collect", "conflicts", "defaults"}
AfterParse  == {"file", "env", "apply", "required", "loaded"}
AfterFile   == {"env", "apply", "required", "loaded"}

(* Load reads one input to the end.                                        *)
InputKept ==
  /\ decl \in Declarations /\ argv \in Argvs /\ file \in [Fields -> Entries]
  /\ phase \in BeforeParse \union AfterParse \union {"bootstrap", "failed", "panicked"}

(* The loop of ParseBootstrapArgs has taken flags and their values, once   *)
(* each, up to the argument it looks at.                                   *)
ArgsParsed ==
  /\ i \in 1..Len(argv) + 1
  /\ phase \in BeforeParse => i = 1
  /\ \A k \in 1..i - 1 :
       \/ Recognized(argv[k]) /\ (argv[k].form = "flag" => k + 1 < i)
       \/ k > 1 /\ argv[k - 1].form = "flag" /\ argv[k].form = "word"
  /\ DOMAIN values \subseteq Flags
  /\ \A name \in Flags :
       name \in DOMAIN values
         <=> \E k \in 1..i - 1 : Recognized(argv[k]) /\ argv[k].name = name
  /\ (\E k \in 1..i - 1 : Recognized(argv[k]) /\ argv[k].name = "config" /\ ValueOf(k) # "")
       => configPath # ""
  /\ phase \in AfterParse =>
       /\ rest = SubSeq(argv, i, Len(argv))
       /\ i <= Len(argv) => ~Recognized(argv[i])

(* The sources that have had their turn, and those that have not.          *)
SourcesApplied ==
  /\ phase \in {"defaults", "bootstrap"} \union AfterParse => ~Conflict
  /\ phase \in BeforeParse => cfg = [f \in Fields |-> "zero"]
  /\ phase \in BeforeParse \union {"bootstrap"} \/ configPath = "" => file = NoEntries
  /\ phase \in AfterFile =>
       /\ file \in [Fields -> {"absent", "null", "good"}]
       /\ configPath # "" => ~Composite /\ document = "known"
  /\ phase \in {"bootstrap", "file"} => \A f \in Fields : cfg[f] = FromDefault(f)
  /\ phase = "env" => \A f \in Fields : cfg[f] = FromFile(f)
  /\ phase = "apply" => \A f \in Fields : cfg[f] = FromEnv(f)
  /\ phase \in {"required", "loaded"} => \A f \in Fields : cfg[f] = FromFlag(f)

(* A required field counts as set because of its default, or because it    *)
(* has a value.                                                            *)
PresenceJustified ==
  /\ presence \subseteq Required
  /\ phase \in BeforeParse => presence = {}
  /\ phase \notin {"failed", "panicked"} =>
       \A f \in presence : decl[f].default \/ cfg[f] # "zero"
  /\ phase = "loaded" => Required \subseteq presence

(* Every step of Load preserves it, and it implies the properties above    *)
(* (load.go:36-86).                                                        *)
IInv ==
  /\ InputKept
  /\ ArgsParsed
  /\ SourcesApplied
  /\ PresenceJustified
=============================================================================
