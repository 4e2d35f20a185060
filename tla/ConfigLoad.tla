----------------------------- MODULE ConfigLoad -----------------------------
(***************************************************************************)
(* config.Load (config/load.go) over generated ConfigSpecs                 *)
(* (internal/codegen/config.go): a message, or several embedded in a       *)
(* struct, filled from defaults, a JSON file, the environment and the      *)
(* bootstrap flags that lead argv; what follows them is left to the CLI.   *)
(*                                                                         *)
(* A field holds the name of the source its value came from, "zero" if     *)
(* none.  Texts that cannot be parsed as the field's type are "bad".       *)
(***************************************************************************)
EXTENDS Naturals, Sequences, FiniteSets, SequencesExt

CONSTANTS
  Fields,        (* the fields of all messages together                    *)
  Declarations,  (* the ways the messages may declare them                 *)
  Argvs,         (* command lines                                          *)
  None           (* no environment variable, or no flag                    *)

(* What validateConfigInfo guarantees of a generated message: within it    *)
(* environment variables and flags are distinct and "config" is reserved.  *)
Declarable(d) ==
  \A f \in DOMAIN d :
    /\ d[f].flag # "config"
    /\ \A g \in DOMAIN d \ {f} : d[f].spec = d[g].spec =>
         /\ d[f].env # None => d[f].env # d[g].env
         /\ d[f].flag # None => d[f].flag # d[g].flag

Declaration == [spec : Nat, default : BOOLEAN, env : STRING \union {None},
                flag : STRING \union {None}, required : BOOLEAN]

Argument == [form : {"inline", "flag", "word", "dashes"}, name : STRING, value : STRING]

ASSUME ConfigAssumption ==
  /\ IsFiniteSet(Fields)
  /\ \A d \in Declarations : d \in [Fields -> Declaration] /\ Declarable(d)
  /\ None \notin STRING
  /\ Argvs \subseteq Seq(Argument)
  /\ \A line \in Argvs : \A k \in DOMAIN line :
       line[k].form = "word" => line[k].value # ""

VARIABLES
  decl,        (* the declaration of each field                            *)
  embedded,    (* T is a struct that embeds its messages, not a message    *)
  argv,        (* the command line                                         *)
  phase,       (* what Load does next; at its end "loaded", "failed" or    *)
               (* "panicked"                                               *)
  unallocated, (* the message that is loaded is a nil pointer              *)
  i,           (* index of the argument ParseBootstrapArgs looks at        *)
  configPath,  (* BootstrapResult.ConfigPath                               *)
  values,      (* BootstrapResult.Values                                   *)
  rest,        (* BootstrapResult.Rest                                     *)
  cfg,         (* the configuration: the source of each field's value      *)
  presence,    (* required fields marked as set                            *)
  document,    (* what stands at ConfigPath: "none" while there is none    *)
  file,        (* the entry of each field in it                            *)
  env          (* history: the environment variables read                  *)
input  == <<decl, embedded, argv>>
disk   == <<document, file>>
parsed == <<i, configPath, values, rest>>
loaded == <<cfg, presence>>
vars   == <<input, phase, unallocated, parsed, loaded, disk, env>>

Specs    == {decl[f].spec : f \in Fields}
Composite == Cardinality(Specs) > 1
Required == {f \in Fields : decl[f].required}
Envs     == {decl[f].env : f \in Fields} \ {None}
Flags    == {decl[f].flag : f \in Fields} \ {None}

-----------------------------------------------------------------------------
(* Fault: only environment variables are compared.                         *)
ConflictInEnv ==
  /\ Composite
  /\ \E f, g \in Fields : f # g /\ decl[f].env # None /\ decl[f].env = decl[g].env

(* detectConflicts: two messages want the same variable or the same flag.  *)
Conflict ==
  /\ Composite
  /\ \E f, g \in Fields :
       /\ f # g
       /\ \/ decl[f].env # None /\ decl[f].env = decl[g].env
          \/ decl[f].flag # None /\ decl[f].flag = decl[g].flag

(* splitBootstrapArg: an argument names a bootstrap flag, its value inline *)
(* or in the next argument, which must not look like a flag.               *)
LooksLikeFlag(arg) == arg.form # "word"

Recognized(arg) == arg.form \in {"inline", "flag"} /\ arg.name \in Flags \union {"config"}

(* Fault: whatever follows is the value.                                   *)
HasValueAny(k) == argv[k].form = "inline" \/ k < Len(argv)

HasValue(k) ==
  \/ argv[k].form = "inline"
  \/ k < Len(argv) /\ ~LooksLikeFlag(argv[k + 1])

ValueOf(k) == IF argv[k].form = "inline" THEN argv[k].value ELSE argv[k + 1].value

(* applyBootstrapValue: already specified.  --config= leaves no trace.     *)
Specified(name) == IF name = "config" THEN configPath # "" ELSE name \in DOMAIN values

-----------------------------------------------------------------------------
(* At ConfigPath there is nothing that is a JSON object, or an object of   *)
(* known fields, or one with unknown fields too.                           *)
Documents == {"unreadable", "known", "unknown"}

(* The entry of a field in the JSON file: absent, given twice (by its      *)
(* proto name and by its JSON name), null, or a value.                     *)
Entries == {"absent", "twice", "null", "good", "bad"}

NoEntries == [f \in Fields |-> "absent"]

(* Fault: the file is decoded into a fresh message.                        *)
OverlaidFresh ==
  [f \in Fields |-> IF file[f] = "good" THEN "file" ELSE "zero"]

(* MergeJSONFile: the entries replace those of the current message, and    *)
(* protojson decodes the result from scratch, a null as an unset field.    *)
Overlaid ==
  [f \in Fields |-> CASE file[f] = "good" -> "file"
                      [] file[f] = "null" -> "zero"
                      [] OTHER             -> cfg[f]]

(* Fault: null entries count as present.                                   *)
PresentInNull == {f \in Required : file[f] # "absent"}

PresentIn == {f \in Required : file[f] = "good"}

-----------------------------------------------------------------------------
Stop(how) == phase' = how /\ UNCHANGED <<parsed, loaded>>

(* A source sets the fields S, in some order, up to the first text that    *)
(* cannot be parsed: their values, and presence of the required ones.      *)
Apply(S, bad, source, next) ==
  \/ bad # {} /\ Stop("failed")
  \/ unallocated /\ S \ bad # {} /\ Stop("panicked")
  \/ /\ bad = {} /\ (unallocated => S = {})
     /\ cfg' = [f \in Fields |-> IF f \in S THEN source ELSE cfg[f]]
     /\ presence' = presence \union (S \intersect Required)
     /\ phase' = next
     /\ UNCHANGED parsed

Init ==
  /\ decl \in Declarations /\ argv \in Argvs
  /\ embedded \in BOOLEAN /\ (Composite => embedded)
  /\ phase = "collect" /\ unallocated = FALSE
  /\ i = 1 /\ configPath = "" /\ values = <<>> /\ rest = <<>>
  /\ cfg = [f \in Fields |-> "zero"] /\ presence = {}
  /\ document = "none" /\ file = NoEntries /\ env = [e \in Envs |-> "unset"]

(* collectSpecs allocates the embedded messages it walks; but a struct     *)
(* that embeds a single one has that message's ConfigSpec promoted to it   *)
(* and is taken for a message itself, its pointer still nil.               *)
CollectSpecs ==
  /\ phase = "collect" /\ phase' = "conflicts"
  /\ unallocated' = (embedded /\ ~Composite)
  /\ UNCHANGED <<input, parsed, loaded, disk, env>>

DetectConflicts ==
  /\ phase = "conflicts"
  /\ phase' = IF Conflict THEN "failed" ELSE "defaults"
  /\ UNCHANGED <<input, unallocated, parsed, loaded, disk, env>>

(* The generator has parsed every default already.                         *)
ApplyDefaults ==
  /\ phase = "defaults"
  /\ Apply({f \in Fields : decl[f].default}, {}, "default", "bootstrap")
  /\ UNCHANGED <<input, unallocated, disk, env>>

(* One turn of the loop of ParseBootstrapArgs.                             *)
ParseFlag ==
  /\ phase = "bootstrap" /\ i <= Len(argv) /\ Recognized(argv[i])
  /\ LET name == argv[i].name
     IN  IF ~HasValue(i) \/ Specified(name) THEN Stop("failed")
         ELSE /\ i' = i + (IF argv[i].form = "inline" THEN 1 ELSE 2)
              /\ IF name = "config"
                 THEN configPath' = ValueOf(i) /\ UNCHANGED values
                 ELSE /\ values' = [n \in DOMAIN values \union {name} |->
                                      IF n = name THEN ValueOf(i) ELSE values[n]]
                      /\ UNCHANGED configPath
              /\ UNCHANGED <<phase, rest, loaded>>
  /\ UNCHANGED <<input, unallocated, disk, env>>

(* It ends with argv, or at the first argument that is no bootstrap flag.  *)
(* What stands at the path, if one was given, is an input of Load from     *)
(* here on.                                                                *)
ParseRest ==
  /\ phase = "bootstrap" /\ (i <= Len(argv) => ~Recognized(argv[i]))
  /\ rest' = SubSeq(argv, i, Len(argv)) /\ phase' = "file"
  /\ IF configPath = "" THEN UNCHANGED disk
     ELSE /\ document' \in Documents
          /\ IF document' = "unreadable" THEN UNCHANGED file ELSE file' \in [Fields -> Entries]
  /\ UNCHANGED <<input, unallocated, i, configPath, values, loaded, env>>

(* Fault: a file that is not there is passed over.                         *)
NoReadableFile ==
  /\ phase = "file" /\ document \in {"none", "unreadable"}
  /\ phase' = "env"
  /\ UNCHANGED <<input, unallocated, parsed, loaded, disk, env>>

NoConfigFile ==
  /\ phase = "file" /\ configPath = ""
  /\ phase' = "env"
  /\ UNCHANGED <<input, unallocated, parsed, loaded, disk, env>>

(* protojson resets the message before it finds a bad value or a field it  *)
(* does not know, and panics on a nil one; the entry of an enum is parsed  *)
(* before that.                                                            *)
ApplyConfigFile ==
  /\ phase = "file" /\ configPath # ""
  /\ IF \/ Composite
        \/ document = "unreadable"
        \/ \E f \in Fields : file[f] = "twice"
     THEN Stop("failed")
     ELSE \/ (\E f \in Fields : file[f] = "bad") /\ Stop("failed")
          \/ unallocated /\ Stop("panicked")
          \/ ~unallocated /\ document = "unknown" /\ Stop("failed")
          \/ /\ ~unallocated /\ document = "known" /\ \A f \in Fields : file[f] # "bad"
             /\ phase' = "env"
             /\ cfg' = Overlaid
             /\ presence' = presence \union PresentIn
             /\ UNCHANGED parsed
  /\ UNCHANGED <<input, unallocated, disk, env>>

(* found: what os.LookupEnv answers.                                       *)
ApplyEnv(found) ==
  /\ phase = "env" /\ env' = found
  /\ LET S == {f \in Fields : decl[f].env # None /\ found[decl[f].env] # "unset"}
     IN  Apply(S, {f \in S : found[decl[f].env] = "bad"}, "env", "apply")
  /\ UNCHANGED <<input, unallocated, disk>>

ApplyBootstrap ==
  /\ phase = "apply"
  /\ LET S == {f \in Fields : decl[f].flag \in DOMAIN values}
     IN  Apply(S, {f \in S : values[decl[f].flag] = "bad"}, "flag", "required")
  /\ UNCHANGED <<input, unallocated, disk, env>>

ValidateRequired ==
  /\ phase = "required"
  /\ phase' = IF Required \subseteq presence THEN "loaded" ELSE "failed"
  /\ UNCHANGED <<input, unallocated, parsed, loaded, disk, env>>

Finished == phase \in {"loaded", "failed", "panicked"} /\ UNCHANGED vars

Next ==
  \/ CollectSpecs \/ DetectConflicts \/ ApplyDefaults
  \/ ParseFlag \/ ParseRest
  \/ NoConfigFile \/ ApplyConfigFile
  \/ \E found \in [Envs -> {"unset", "good", "bad"}] : ApplyEnv(found)
  \/ ApplyBootstrap \/ ValidateRequired
  \/ Finished

Spec == Init /\ [][Next]_vars
=============================================================================
