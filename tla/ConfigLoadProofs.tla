-------------------------- MODULE ConfigLoadProofs --------------------------
(* The properties of ConfigLoadProperties, for every declaration of the    *)
(* fields and every command line.                                          *)
EXTENDS ConfigLoadProperties, FiniteSetTheorems, TLAPS

(* A command line is a sequence of arguments.                              *)
LEMMA Lines ==
  ASSUME NEW l \in Argvs
  PROVE  l \in Seq(Argument) /\ Len(l) \in Nat
<1>1. l \in Seq(Argument)
  BY ConfigAssumption, Zenon
<1> QED
  BY <1>1

(* A field's flag is not that of the configuration file.                   *)
LEMMA Wirings ==
  ASSUME NEW d \in Declarations
  PROVE  /\ d \in [Fields -> Declaration]
         /\ \A f \in Fields : d[f].flag # "config"
         /\ \A f, g \in Fields : f # g /\ d[f].spec = d[g].spec =>
              /\ d[f].env # None => d[f].env # d[g].env
              /\ d[f].flag # None => d[f].flag # d[g].flag
<1>1. d \in [Fields -> Declaration] /\ Declarable(d)
  BY ConfigAssumption, Zenon
<1> QED
  BY <1>1 DEF Declarable

-----------------------------------------------------------------------------
(* The values of the sources are functions of what has been read of them.  *)
LEMMA SameSources ==
  ASSUME UNCHANGED <<input, disk, env, values>>
  PROVE  /\ Specs' = Specs /\ Composite' = Composite /\ Required' = Required /\ Envs' = Envs /\ Flags' = Flags
         /\ Conflict' = Conflict
         /\ \A f \in Fields : /\ FromFile(f)' = FromFile(f) /\ FromEnv(f)' = FromEnv(f)
                              /\ FromFlag(f)' = FromFlag(f)
BY DEF input, disk, Specs, Composite, Required, Envs, Flags, Conflict, FromFile, FromEnv, FromFlag

LEMMA SameInput ==
  ASSUME UNCHANGED input
  PROVE  /\ Specs' = Specs /\ Composite' = Composite /\ Required' = Required /\ Envs' = Envs /\ Flags' = Flags
         /\ Conflict' = Conflict
         /\ \A k : /\ Recognized(argv[k])' = Recognized(argv[k])
                   /\ ValueOf(k)' = ValueOf(k)
BY DEF input, Specs, Composite, Required, Envs, Flags, Conflict, Recognized, ValueOf

LEMMA InitIInv == Init => IInv
<1> SUFFICES ASSUME Init PROVE IInv
  OBVIOUS
<1>1. InputKept
  BY DEF Init, InputKept, BeforeParse, NoEntries, Entries
<1>2. ArgsParsed
  <2>1. argv \in Seq(Argument) /\ i = 1 /\ Len(argv) \in Nat
    BY Lines DEF Init
  <2>2. DOMAIN values = {}
    <3>1. DOMAIN <<>> = {}
      OBVIOUS
    <3> QED
      BY <3>1 DEF Init
  <2>3. 1 \in 1 .. Len(argv) + 1 /\ 1 .. i - 1 = {}
    BY <2>1
  <2>4. \A name \in Flags : name \notin DOMAIN values
    BY <2>2
  <2>5. phase = "collect"
    BY DEF Init
  <2> QED
    BY <2>1, <2>2, <2>3, <2>4, <2>5 DEF ArgsParsed, BeforeParse, AfterParse
<1>3. SourcesApplied
  BY DEF Init, SourcesApplied, BeforeParse, AfterParse, AfterFile
<1>4. PresenceJustified
  BY DEF Init, PresenceJustified, BeforeParse
<1> QED
  BY <1>1, <1>2, <1>3, <1>4 DEF IInv

-----------------------------------------------------------------------------
(* The command line.                                                       *)

LEMMA FlagStep ==
  ASSUME IInv, ParseFlag, phase' = "bootstrap"
  PROVE  ArgsParsed'
<1> DEFINE name == argv[i].name
<1>1. /\ phase = "bootstrap" /\ i <= Len(argv) /\ Recognized(argv[i])
      /\ HasValue(i) /\ ~Specified(name) /\ UNCHANGED <<input, phase, rest>>
      /\ i' = i + (IF argv[i].form = "inline" THEN 1 ELSE 2)
      /\ IF name = "config"
         THEN configPath' = ValueOf(i) /\ UNCHANGED values
         ELSE /\ values' = [n \in DOMAIN values \union {name} |->
                              IF n = name THEN ValueOf(i) ELSE values[n]]
              /\ UNCHANGED configPath
  BY DEF ParseFlag, Stop
<1>2. argv \in Seq(Argument) /\ Len(argv) \in Nat /\ i \in 1 .. Len(argv)
  <2>1. argv \in Seq(Argument) /\ Len(argv) \in Nat
    BY Lines DEF IInv, InputKept
  <2>2. i \in 1 .. Len(argv) + 1
    BY DEF IInv, ArgsParsed
  <2> QED
    BY <1>1, <2>1, <2>2
<1>3. UNCHANGED argv /\ Flags' = Flags
      /\ \A k : Recognized(argv[k])' = Recognized(argv[k]) /\ ValueOf(k)' = ValueOf(k)
  BY <1>1, SameInput DEF input
<1>4. argv[i].form \in {"inline", "flag"} /\ name \in Flags \union {"config"}
  BY <1>1 DEF Recognized
<1>5. \/ argv[i].form = "inline" /\ i' = i + 1
      \/ /\ argv[i].form = "flag" /\ i' = i + 2 /\ i < Len(argv)
         /\ argv[i + 1].form = "word" /\ ~Recognized(argv[i + 1])
  BY <1>1, <1>2, <1>4 DEF HasValue, LooksLikeFlag, Recognized
<1>6. i' \in 1 .. Len(argv) + 1 /\ i' > i
  BY <1>2, <1>5
<1>7. \A k \in 1 .. i' - 1 : k \in 1 .. i - 1 \/ k = i \/ (k = i + 1 /\ argv[i].form = "flag" /\ i' = i + 2)
  BY <1>2, <1>5
<1>8. ASSUME NEW k \in 1 .. i' - 1
      PROVE  \/ Recognized(argv[k]) /\ (argv[k].form = "flag" => k + 1 < i')
             \/ k > 1 /\ argv[k - 1].form = "flag" /\ argv[k].form = "word"
  <2>1. CASE k \in 1 .. i - 1
    <3>1. \/ Recognized(argv[k]) /\ (argv[k].form = "flag" => k + 1 < i)
          \/ k > 1 /\ argv[k - 1].form = "flag" /\ argv[k].form = "word"
      BY <2>1 DEF IInv, ArgsParsed
    <3>2. k + 1 < i => k + 1 < i'
      BY <1>2, <1>6, <2>1
    <3> QED
      BY <3>1, <3>2
  <2>2. CASE k = i
    <3>1. argv[i].form = "flag" => i + 1 < i'
      BY <1>2, <1>5
    <3> QED
      BY <1>1, <2>2, <3>1
  <2>3. CASE k = i + 1 /\ argv[i].form = "flag" /\ i' = i + 2
    BY <1>2, <1>5, <2>3
  <2> QED
    BY <1>7, <2>1, <2>2, <2>3
<1>9. \A n : (\E k \in 1 .. i' - 1 : Recognized(argv[k]) /\ argv[k].name = n)
               <=> n = name \/ \E k \in 1 .. i - 1 : Recognized(argv[k]) /\ argv[k].name = n
  BY <1>1, <1>2, <1>5, <1>6, <1>7
<1>10. "config" \notin Flags
  BY Wirings DEF IInv, InputKept, Flags
<1>11. DOMAIN values' = DOMAIN values \union ({name} \ {"config"})
  BY <1>1
<1>12. /\ DOMAIN values' \subseteq Flags
       /\ \A n \in Flags :
            n \in DOMAIN values'
              <=> \E k \in 1 .. i' - 1 : Recognized(argv[k]) /\ argv[k].name = n
  BY <1>4, <1>9, <1>10, <1>11 DEF IInv, ArgsParsed
<1>13. (\E k \in 1 .. i' - 1 : Recognized(argv[k]) /\ argv[k].name = "config" /\ ValueOf(k) # "")
         => configPath' # ""
  <2> SUFFICES ASSUME NEW k \in 1 .. i' - 1, Recognized(argv[k]), argv[k].name = "config",
                      ValueOf(k) # ""
               PROVE  configPath' # ""
    OBVIOUS
  <2>1. CASE k \in 1 .. i - 1
    <3>1. configPath # ""
      BY <2>1 DEF IInv, ArgsParsed
    <3>2. name # "config"
      BY <1>1, <3>1 DEF Specified
    <3> QED
      BY <1>1, <3>1, <3>2
  <2>2. CASE k = i
    BY <1>1, <2>2
  <2>3. CASE k = i + 1 /\ argv[i].form = "flag" /\ i' = i + 2
    BY <1>5, <2>3
  <2> QED
    BY <1>7, <2>1, <2>2, <2>3
<1> QED
  BY <1>1, <1>3, <1>6, <1>8, <1>12, <1>13 DEF ArgsParsed, BeforeParse, AfterParse

LEMMA ArgsKept ==
  ASSUME IInv, UNCHANGED <<input, i, configPath, values, rest>>,
         phase' \in BeforeParse => phase \in BeforeParse,
         phase' \in AfterParse => phase \in AfterParse
  PROVE  ArgsParsed'
<1>1. UNCHANGED argv /\ Flags' = Flags
      /\ \A k : Recognized(argv[k])' = Recognized(argv[k]) /\ ValueOf(k)' = ValueOf(k)
  BY SameInput DEF input
<1> QED
  BY <1>1 DEF IInv, ArgsParsed

(* At the end of the flags the rest of the line is what follows them.      *)
LEMMA RestStep ==
  ASSUME IInv, ParseRest
  PROVE  ArgsParsed'
<1>1. /\ phase = "bootstrap" /\ phase' = "file" /\ rest' = SubSeq(argv, i, Len(argv))
      /\ i <= Len(argv) => ~Recognized(argv[i])
      /\ UNCHANGED <<input, i, configPath, values>>
  BY DEF ParseRest, disk
<1>2. UNCHANGED argv /\ Flags' = Flags
      /\ \A k : Recognized(argv[k])' = Recognized(argv[k]) /\ ValueOf(k)' = ValueOf(k)
  BY <1>1, SameInput DEF input
<1> QED
  BY <1>1, <1>2 DEF IInv, ArgsParsed, BeforeParse, AfterParse

-----------------------------------------------------------------------------
(* The sources.                                                            *)

(* A step that ends Load without a configuration.                          *)
LEMMA StopStep ==
  ASSUME IInv, phase' \in {"failed", "panicked"}, UNCHANGED <<input, parsed, loaded, disk>>
  PROVE  IInv'
<1>1. InputKept'
  BY DEF IInv, InputKept, input, disk
<1>2. ArgsParsed'
  BY ArgsKept DEF parsed, BeforeParse, AfterParse
<1>3. SourcesApplied'
  BY DEF IInv, SourcesApplied, BeforeParse, AfterParse, AfterFile, parsed, disk
<1>4. PresenceJustified'
  BY SameInput DEF IInv, PresenceJustified, loaded, BeforeParse
<1> QED
  BY <1>1, <1>2, <1>3, <1>4 DEF IInv

LEMMA Applied ==
  ASSUME IInv, NEW S, NEW bad, NEW source, NEW next, Apply(S, bad, source, next),
         UNCHANGED <<input, disk>>
  PROVE  \/ IInv'
         \/ /\ bad = {} /\ phase' = next /\ UNCHANGED parsed
            /\ cfg' = [f \in Fields |-> IF f \in S THEN source ELSE cfg[f]]
            /\ presence' = presence \union (S \intersect Required)
BY StopStep DEF Apply, Stop

LEMMA DefaultsStep ==
  ASSUME IInv, ApplyDefaults
  PROVE  IInv'
<1> DEFINE S == {f \in Fields : decl[f].default}
<1>1. /\ phase = "defaults" /\ UNCHANGED <<input, disk, env>>
      /\ Apply(S, {}, "default", "bootstrap")
  BY DEF ApplyDefaults
<1>2. SUFFICES ASSUME phase' = "bootstrap", UNCHANGED parsed,
                      cfg' = [f \in Fields |-> IF f \in S THEN "default" ELSE cfg[f]],
                      presence' = presence \union (S \intersect Required)
               PROVE  IInv'
  BY <1>1, Applied
<1>3. InputKept'
  BY <1>1, <1>2 DEF IInv, InputKept, input, disk
<1>4. ArgsParsed'
  BY <1>1, <1>2, ArgsKept DEF parsed, BeforeParse, AfterParse
<1>5. /\ file' = NoEntries /\ cfg = [f \in Fields |-> "zero"]
      /\ presence = {} /\ ~Conflict' /\ Required' = Required /\ decl' = decl
  <2>1. file = NoEntries /\ file' = NoEntries /\ cfg = [f \in Fields |-> "zero"] /\ ~Conflict
    BY <1>1 DEF IInv, SourcesApplied, BeforeParse, disk, NoEntries
  <2>2. presence = {}
    BY <1>1 DEF IInv, PresenceJustified, BeforeParse
  <2>3. Conflict' = Conflict /\ Required' = Required /\ decl' = decl
    BY <1>1, SameInput DEF input
  <2> QED
    BY <1>1, <2>1, <2>2, <2>3
<1>6. \A f \in Fields : cfg'[f] = IF decl[f].default THEN "default" ELSE "zero"
  BY <1>2, <1>5
<1>7. SourcesApplied'
  BY <1>1, <1>2, <1>5, <1>6
     DEF SourcesApplied, BeforeParse, AfterFile, AfterParse, FromDefault, input
<1>8. PresenceJustified'
  BY <1>2, <1>5 DEF PresenceJustified, Required, BeforeParse
<1> QED
  BY <1>3, <1>4, <1>7, <1>8 DEF IInv

(* A field the file does not mention keeps its default.                    *)
LEMMA NoEntriesNoFile ==
  ASSUME file = NoEntries
  PROVE  \A f \in Fields : FromFile(f) = FromDefault(f)
BY DEF NoEntries, FromFile, FromDefault

LEMMA FileStep ==
  ASSUME IInv, ApplyConfigFile
  PROVE  IInv'
<1>1. CASE Stop("failed") \/ Stop("panicked")
  BY <1>1, StopStep DEF Stop, ApplyConfigFile
<1>2. CASE ~(Stop("failed") \/ Stop("panicked"))
  <2>1. /\ phase = "file" /\ phase' = "env" /\ UNCHANGED <<input, parsed, disk>>
        /\ ~Composite /\ document = "known"
        /\ \A f \in Fields : file[f] \notin {"twice", "bad"}
        /\ cfg' = Overlaid /\ presence' = presence \union PresentIn
        /\ configPath # ""
    BY <1>2 DEF ApplyConfigFile
  <2>2. InputKept'
    BY <2>1 DEF IInv, InputKept, AfterParse, input, disk
  <2>3. ArgsParsed'
    BY <2>1, ArgsKept DEF parsed, BeforeParse, AfterParse
  <2>4. /\ \A f \in Fields : cfg[f] = FromDefault(f)
        /\ ~Conflict' /\ Required' = Required /\ decl' = decl /\ Composite' = Composite
    <3>1. (\A f \in Fields : cfg[f] = FromDefault(f)) /\ ~Conflict
      BY <2>1 DEF IInv, SourcesApplied, AfterParse
    <3>2. Conflict' = Conflict /\ Required' = Required /\ Composite' = Composite
      BY <2>1, SameInput
    <3>3. decl' = decl
      BY <2>1 DEF input
    <3> QED
      BY <3>1, <3>2, <3>3
  <2>5. \A f \in Fields : cfg[f] = IF decl[f].default THEN "default" ELSE "zero"
    BY <2>4 DEF FromDefault
  <2>6. \A f \in Fields : /\ file[f] \in {"absent", "null", "good"}
                          /\ cfg'[f] = CASE file[f] = "good" -> "file"
                                         [] file[f] = "null" -> "zero"
                                         [] OTHER             -> cfg[f]
    BY <2>1 DEF Overlaid, Entries, IInv, InputKept
  <2>7. \A f \in Fields : cfg'[f] = FromFile(f)'
    BY <2>1, <2>4, <2>5, <2>6 DEF FromFile, disk
  <2>8. SourcesApplied'
    <3>1. file' \in [Fields -> {"absent", "null", "good"}]
      BY <2>1, <2>6 DEF IInv, InputKept, disk
    <3> QED
      BY <2>1, <2>4, <2>7, <3>1
         DEF SourcesApplied, BeforeParse, AfterFile, AfterParse, parsed, disk
  <2>9. PresenceJustified'
    <3>1. \A f \in presence : f \in Required /\ decl[f].default
      BY <2>1, <2>5 DEF IInv, PresenceJustified, Required
    <3>2. \A f \in PresentIn : f \in Required /\ cfg'[f] = "file"
      BY <2>6 DEF PresentIn, Required
    <3> QED
      BY <2>1, <2>4, <3>1, <3>2 DEF PresenceJustified, BeforeParse
  <2> QED
    BY <2>2, <2>3, <2>8, <2>9 DEF IInv
<1> QED
  BY <1>1, <1>2

LEMMA EnvStep ==
  ASSUME IInv, NEW found \in [Envs -> {"unset", "good", "bad"}], ApplyEnv(found)
  PROVE  IInv'
<1> DEFINE S == {f \in Fields : decl[f].env # None /\ found[decl[f].env] # "unset"}
           bad == {f \in S : found[decl[f].env] = "bad"}
<1>1. /\ phase = "env" /\ env' = found /\ UNCHANGED <<input, disk>>
      /\ Apply(S, bad, "env", "apply")
  BY DEF ApplyEnv
<1>2. SUFFICES ASSUME bad = {}, phase' = "apply", UNCHANGED parsed,
                      cfg' = [f \in Fields |-> IF f \in S THEN "env" ELSE cfg[f]],
                      presence' = presence \union (S \intersect Required)
               PROVE  IInv'
  BY <1>1, Applied
<1>3. InputKept'
  BY <1>1, <1>2 DEF IInv, InputKept, AfterParse, input, disk
<1>4. ArgsParsed'
  BY <1>1, <1>2, ArgsKept DEF parsed, BeforeParse, AfterParse
<1>5. /\ \A f \in Fields : cfg[f] = FromFile(f) /\ FromFile(f)' = FromFile(f)
      /\ ~Conflict' /\ Required' = Required /\ Envs' = Envs /\ Composite' = Composite /\ decl' = decl
  <2>1. (\A f \in Fields : cfg[f] = FromFile(f)) /\ ~Conflict
    BY <1>1 DEF IInv, SourcesApplied, AfterParse
  <2>2. UNCHANGED input
    BY <1>1
  <2>3. Conflict' = Conflict /\ Required' = Required /\ Envs' = Envs /\ Composite' = Composite
    BY <2>2, SameInput
  <2>4. decl' = decl /\ \A f \in Fields : FromFile(f)' = FromFile(f)
    BY <1>1 DEF FromFile, input, disk
  <2> QED
    BY <2>1, <2>3, <2>4
<1>6. \A f \in Fields : f \in S <=> decl[f].env \in Envs /\ found[decl[f].env] = "good"
  <2>1. \A f \in Fields : decl[f].env \in Envs <=> decl[f].env # None
    BY DEF Envs
  <2> QED
    BY <1>2, <2>1
<1>7. \A f \in Fields : cfg'[f] = FromEnv(f)'
  BY <1>1, <1>2, <1>5, <1>6 DEF FromEnv
<1>8. SourcesApplied'
  BY <1>1, <1>2, <1>5, <1>7
     DEF IInv, SourcesApplied, BeforeParse, AfterFile, AfterParse, parsed, disk
<1>9. PresenceJustified'
  <2>1. \A f \in presence : f \in Required /\ (decl[f].default \/ cfg[f] # "zero")
    BY <1>1 DEF IInv, PresenceJustified
  <2>2. \A f \in Fields : cfg'[f] = IF f \in S THEN "env" ELSE cfg[f]
    BY <1>2
  <2>3. Required \subseteq Fields
    BY DEF Required
  <2> HIDE DEF S
  <2> QED
    BY <1>2, <1>5, <2>1, <2>2, <2>3 DEF PresenceJustified, BeforeParse
<1> QED
  BY <1>3, <1>4, <1>8, <1>9 DEF IInv

LEMMA FlagsStep ==
  ASSUME IInv, ApplyBootstrap
  PROVE  IInv'
<1> DEFINE S == {f \in Fields : decl[f].flag \in DOMAIN values}
           bad == {f \in S : values[decl[f].flag] = "bad"}
<1>1. /\ phase = "apply" /\ UNCHANGED <<input, disk, env>>
      /\ Apply(S, bad, "flag", "required")
  BY DEF ApplyBootstrap
<1>2. SUFFICES ASSUME phase' = "required", UNCHANGED parsed,
                      cfg' = [f \in Fields |-> IF f \in S THEN "flag" ELSE cfg[f]],
                      presence' = presence \union (S \intersect Required)
               PROVE  IInv'
  BY <1>1, Applied
<1>3. InputKept'
  BY <1>1, <1>2 DEF IInv, InputKept, AfterParse, input, disk
<1>4. ArgsParsed'
  BY <1>1, <1>2, ArgsKept DEF parsed, BeforeParse, AfterParse
<1>5. UNCHANGED <<input, disk, env, values>>
  BY <1>1, <1>2 DEF parsed
<1>6. /\ \A f \in Fields : cfg[f] = FromEnv(f) /\ FromFlag(f)' = FromFlag(f)
      /\ ~Conflict' /\ Required' = Required /\ Composite' = Composite /\ decl' = decl
  <2>1. (\A f \in Fields : cfg[f] = FromEnv(f)) /\ ~Conflict
    BY <1>1 DEF IInv, SourcesApplied, AfterParse
  <2>2. /\ Conflict' = Conflict /\ Required' = Required /\ Composite' = Composite
        /\ \A f \in Fields : FromFlag(f)' = FromFlag(f)
    BY <1>5, SameSources
  <2> QED
    BY <1>1, <2>1, <2>2 DEF input
<1>7. \A f \in Fields : cfg'[f] = FromFlag(f)'
  BY <1>2, <1>6 DEF FromFlag
<1>8. SourcesApplied'
  BY <1>1, <1>2, <1>6, <1>7
     DEF IInv, SourcesApplied, BeforeParse, AfterFile, AfterParse, parsed, disk
<1>9. PresenceJustified'
  <2>1. \A f \in presence : f \in Required /\ (decl[f].default \/ cfg[f] # "zero")
    BY <1>1 DEF IInv, PresenceJustified
  <2>2. \A f \in Fields : cfg'[f] = IF f \in S THEN "flag" ELSE cfg[f]
    BY <1>2
  <2>3. Required \subseteq Fields
    BY DEF Required
  <2> HIDE DEF S
  <2> QED
    BY <1>2, <1>6, <2>1, <2>2, <2>3 DEF PresenceJustified, BeforeParse
<1> QED
  BY <1>3, <1>4, <1>8, <1>9 DEF IInv

(* The steps that only move on.                                            *)
LEMMA OtherSteps ==
  ASSUME IInv, UNCHANGED <<input, loaded, env>>,
         \/ CollectSpecs \/ DetectConflicts \/ ParseFlag \/ ParseRest
         \/ NoConfigFile \/ ValidateRequired \/ UNCHANGED vars
  PROVE  IInv'
<1> DEFINE Moves(from, to) == phase \in from /\ phase' \in to
<1>1. CASE ParseFlag /\ phase' = "failed"
  <2>1. Stop("failed") /\ UNCHANGED disk
    BY <1>1 DEF ParseFlag, Stop
  <2> QED
    BY <1>1, <2>1, StopStep DEF Stop
<1>2. CASE ~(ParseFlag /\ phase' = "failed")
  <2>1. \/ ParseFlag /\ phase = "bootstrap" /\ phase' = "bootstrap" /\ UNCHANGED disk
        \/ ParseRest /\ phase = "bootstrap" /\ phase' = "file"
        \/ /\ UNCHANGED <<parsed, disk>>
           /\ \/ Moves({"collect"}, {"conflicts"})
              \/ Moves({"conflicts"}, {"failed"})
              \/ Moves({"conflicts"}, {"defaults"}) /\ ~Conflict
              \/ Moves({"file"}, {"env"}) /\ configPath = ""
              \/ Moves({"required"}, {"failed"})
              \/ Moves({"required"}, {"loaded"}) /\ Required \subseteq presence
              \/ phase' = phase
    BY <1>2 DEF CollectSpecs, DetectConflicts, ParseFlag, ParseRest, NoConfigFile,
                ValidateRequired, vars, Stop, disk
  <2>0. /\ file' \in [Fields -> Entries]
        /\ UNCHANGED file \/ (ParseRest /\ configPath' # "" /\ configPath # "")
    <3>1. ParseRest => UNCHANGED file \/ (/\ configPath # "" /\ configPath' # ""
                                          /\ file' \in [Fields -> Entries])
      BY DEF ParseRest, disk
    <3>2. file \in [Fields -> Entries]
      BY DEF IInv, InputKept
    <3>3. UNCHANGED disk \/ ParseRest
      BY <2>1
    <3>4. UNCHANGED disk => UNCHANGED file
      BY DEF disk
    <3> QED
      BY <3>1, <3>2, <3>3, <3>4
  <2>2. InputKept'
    BY <2>1, <2>0 DEF IInv, InputKept, BeforeParse, AfterParse, input
  <2>3. ArgsParsed'
    <3>1. CASE ParseFlag /\ phase' = "bootstrap"
      BY <3>1, FlagStep
    <3>2. CASE ParseRest
      BY <3>2, RestStep
    <3>3. CASE UNCHANGED parsed /\ ~(ParseFlag /\ phase' = "bootstrap") /\ ~ParseRest
      <4>1. /\ phase' \in BeforeParse => phase \in BeforeParse
            /\ phase' \in AfterParse => phase \in AfterParse
        BY <2>1, <3>3 DEF BeforeParse, AfterParse
      <4> QED
        BY <3>3, <4>1, ArgsKept DEF parsed
    <3> QED
      BY <2>1, <3>1, <3>2, <3>3
  <2>4. /\ Conflict' = Conflict /\ Required' = Required /\ Composite' = Composite
        /\ decl' = decl /\ UNCHANGED <<cfg, presence, env>>
    BY SameInput DEF input, loaded
  <2>5. /\ \A f \in Fields : FromDefault(f)' = FromDefault(f)
        /\ UNCHANGED disk =>
             \A f \in Fields : FromFile(f)' = FromFile(f) /\ FromEnv(f)' = FromEnv(f)
    BY DEF input, disk, FromDefault, FromFile, FromEnv, Envs
  <2>6. SourcesApplied'
    <3>1. phase' \in {"defaults", "bootstrap"} \union AfterParse => ~Conflict'
      BY <2>1, <2>4 DEF IInv, SourcesApplied, AfterParse
    <3>2. phase' \in BeforeParse => cfg' = [f \in Fields |-> "zero"]
      BY <2>1, <2>4 DEF IInv, SourcesApplied, BeforeParse
    <3>7. phase' \in BeforeParse \union {"bootstrap"} \/ configPath' = "" => file' = NoEntries'
      <4>1. NoEntries' = NoEntries
        BY DEF NoEntries
      <4>2. CASE ParseRest
        <5>1. phase = "bootstrap" /\ phase' = "file"
          BY <4>2 DEF ParseRest
        <5>2. file = NoEntries
          BY <5>1 DEF IInv, SourcesApplied
        <5> QED
          BY <2>0, <4>1, <5>1, <5>2 DEF BeforeParse
      <4>3. CASE ~ParseRest
        <5>1. UNCHANGED file
          BY <2>0, <4>3
        <5>2. /\ phase' \in BeforeParse \union {"bootstrap"}
                   => phase \in BeforeParse \union {"bootstrap"}
              /\ phase' = "bootstrap" \/ UNCHANGED configPath
          BY <2>1, <4>3 DEF BeforeParse, parsed
        <5>3. phase \in BeforeParse \union {"bootstrap"} \/ configPath = "" => file = NoEntries
          BY DEF IInv, SourcesApplied
        <5>4. phase' = "bootstrap" => phase \in BeforeParse \union {"bootstrap"}
          BY <5>2
        <5> QED
          BY <4>1, <5>1, <5>2, <5>3, <5>4
      <4> QED
        BY <4>2, <4>3
    <3>3. phase' \in AfterFile =>
            /\ file' \in [Fields -> {"absent", "null", "good"}]
            /\ configPath' # "" => ~Composite' /\ document' = "known"
      <4>1. CASE phase = "file" /\ phase' = "env"
        <5>1. configPath' = "" /\ file = NoEntries /\ file' = NoEntries
          BY <2>1, <4>1 DEF IInv, SourcesApplied, parsed, disk
        <5> QED
          BY <2>4, <5>1 DEF NoEntries
      <4>2. CASE ~(phase = "file" /\ phase' = "env")
        <5>1. phase' \in AfterFile => phase \in AfterFile /\ UNCHANGED <<parsed, disk>>
          BY <2>1, <4>2 DEF AfterFile
        <5> QED
          BY <2>4, <5>1 DEF IInv, SourcesApplied, parsed, disk
      <4> QED
        BY <4>1, <4>2
    <3>4. phase' \in {"bootstrap", "file"} => \A f \in Fields : cfg'[f] = FromDefault(f)'
      <4>1. phase' \in {"bootstrap", "file"} => phase \in {"bootstrap", "file"}
        BY <2>1
      <4> QED
        BY <2>4, <2>5, <4>1 DEF IInv, SourcesApplied
    <3>8. phase' = "env" => \A f \in Fields : cfg'[f] = FromFile(f)'
      <4>1. CASE phase = "file" /\ phase' = "env"
        <5>1. configPath = "" /\ file = NoEntries /\ UNCHANGED disk
          BY <2>1, <4>1 DEF IInv, SourcesApplied
        <5>2. \A f \in Fields : cfg[f] = FromDefault(f)
          BY <4>1 DEF IInv, SourcesApplied
        <5> QED
          BY <2>4, <2>5, <5>1, <5>2, NoEntriesNoFile
      <4>2. CASE ~(phase = "file" /\ phase' = "env")
        <5>1. phase' = "env" => phase = "env" /\ UNCHANGED disk
          BY <2>1, <4>2
        <5> QED
          BY <2>4, <2>5, <5>1 DEF IInv, SourcesApplied
      <4> QED
        BY <4>1, <4>2
    <3>5. phase' = "apply" => \A f \in Fields : cfg'[f] = FromEnv(f)'
      <4>1. phase' = "apply" => phase = "apply" /\ UNCHANGED disk
        BY <2>1
      <4> QED
        BY <2>4, <2>5, <4>1 DEF IInv, SourcesApplied
    <3>6. phase' \in {"required", "loaded"} => \A f \in Fields : cfg'[f] = FromFlag(f)'
      <4>1. phase' \in {"required", "loaded"} =>
              phase \in {"required", "loaded"} /\ values' = values /\ UNCHANGED disk
        BY <2>1 DEF parsed
      <4> QED
        BY <2>4, <2>5, <4>1 DEF IInv, SourcesApplied, FromFlag
    <3> QED
      BY <3>1, <3>2, <3>3, <3>4, <3>5, <3>6, <3>7, <3>8 DEF SourcesApplied
  <2>7. PresenceJustified'
    BY <2>1, <2>4 DEF IInv, PresenceJustified, BeforeParse
  <2> QED
    BY <2>2, <2>3, <2>6, <2>7 DEF IInv
<1> QED
  BY <1>1, <1>2
LEMMA StepIInv == IInv /\ [Next]_vars => IInv'
<1> SUFFICES ASSUME IInv, [Next]_vars PROVE IInv'
  OBVIOUS
<1>1. CASE ApplyConfigFile
  BY <1>1, FileStep
<1>2. ASSUME NEW found \in [Envs -> {"unset", "good", "bad"}], ApplyEnv(found)
      PROVE  IInv'
  BY <1>2, EnvStep
<1>3. CASE ApplyDefaults
  BY <1>3, DefaultsStep
<1>4. CASE ApplyBootstrap
  BY <1>4, FlagsStep
<1>5. CASE \/ CollectSpecs \/ DetectConflicts \/ ParseFlag \/ ParseRest
           \/ NoConfigFile \/ ValidateRequired \/ UNCHANGED vars
  <2>1. UNCHANGED <<input, loaded, env>>
    BY <1>5 DEF CollectSpecs, DetectConflicts, ParseFlag, ParseRest, NoConfigFile,
                ValidateRequired, vars, Stop
  <2> QED
    BY <1>5, <2>1, OtherSteps
<1>6. Finished => UNCHANGED vars
  BY DEF Finished
<1> QED
  BY <1>1, <1>2, <1>3, <1>4, <1>5, <1>6 DEF Next

(* Load keeps its books: what it has parsed of the command line, which     *)
(* sources have had their turn, and why a required field counts as set.    *)
THEOREM Invariance == Spec => []IInv
<1>1. Init => IInv
  BY InitIInv
<1>2. IInv /\ [Next]_vars => IInv'
  BY StepIInv
<1> QED
  BY <1>1, <1>2, PTL DEF Spec

-----------------------------------------------------------------------------
(* What a configuration that loads owes to its sources.                    *)

(* The consumed arguments are those the loop has passed.                   *)
LEMMA ConsumedIs ==
  ASSUME IInv, Loaded
  PROVE  /\ Consumed = 1 .. i - 1
         /\ rest = SubSeq(argv, i, Len(argv))
         /\ argv \in Seq(Argument) /\ Len(argv) \in Nat /\ i \in 1 .. Len(argv) + 1
<1>1. argv \in Seq(Argument) /\ Len(argv) \in Nat
  BY Lines DEF IInv, InputKept
<1>2. i \in 1 .. Len(argv) + 1 /\ rest = SubSeq(argv, i, Len(argv))
  BY DEF IInv, ArgsParsed, Loaded, AfterParse
<1>3. Len(rest) = Len(argv) - i + 1
  BY <1>1, <1>2
<1> QED
  BY <1>1, <1>2, <1>3 DEF Consumed

(* Load: every field holds the value of the strongest source that supplied *)
(* one (load.go:51-81).                                                    *)
THEOREM SourcesInOrder == Spec => []Precedence
<1>1. IInv => Precedence
  <2> SUFFICES ASSUME IInv, Loaded, NEW f \in Fields
               PROVE  cfg[f] = IF Given(decl[f].flag) THEN "flag" ELSE FromEnv(f)
    BY DEF Precedence, FromEnv, FromFile
  <2>1. cfg[f] = FromFlag(f)
    BY DEF IInv, SourcesApplied, Loaded
  <2>2. Given(decl[f].flag) <=> decl[f].flag \in DOMAIN values
    <3>1. CASE decl[f].flag \in Flags
      BY <3>1, ConsumedIs DEF Given, IInv, ArgsParsed
    <3>2. CASE decl[f].flag \notin Flags
      <4>1. decl[f].flag \notin DOMAIN values
        BY <3>2 DEF IInv, ArgsParsed
      <4>2. decl[f].flag = None /\ None \notin STRING
        <5>1. None \notin STRING
          BY ConfigAssumption, Zenon
        <5> QED
          BY <3>2, <5>1 DEF Flags
      <4>3. ~Given(decl[f].flag)
        <5>1. \A k \in Consumed : argv[k] \in Argument
          BY ConsumedIs
        <5>2. \A k \in Consumed : argv[k].name # None
          BY <5>1, <4>2 DEF Argument
        <5> QED
          BY <5>2, <4>2 DEF Given
      <4> QED
        BY <4>1, <4>3
    <3> QED
      BY <3>1, <3>2
  <2> QED
    BY <2>1, <2>2 DEF FromFlag
<1> QED
  BY <1>1, Invariance, PTL

(* ValidateRequired: a required field of a configuration that loads has a  *)
(* value, unless a null in the file erased its default.                    *)
THEOREM RequiredAreSet == Spec => []RequiredHaveValues
<1>1. IInv => RequiredHaveValues
  <2> SUFFICES ASSUME IInv, Loaded, NEW f \in Required, cfg[f] = "zero"
               PROVE  decl[f].default /\ file[f] = "null"
    BY DEF RequiredHaveValues
  <2>1. f \in Fields /\ f \in presence
    BY DEF IInv, PresenceJustified, Loaded, Required
  <2>2. decl[f].default
    BY <2>1 DEF IInv, PresenceJustified, Loaded
  <2>3. FromFlag(f) = "zero" /\ file \in [Fields -> {"absent", "null", "good"}]
    BY <2>1 DEF IInv, SourcesApplied, Loaded, AfterFile
  <2>4. FromFile(f) = "zero"
    BY <2>3 DEF FromFlag, FromEnv
  <2> QED
    BY <2>1, <2>2, <2>3, <2>4 DEF FromFile
<1> QED
  BY <1>1, Invariance, PTL

(* ParseBootstrapArgs consumes nothing but leading bootstrap flags and     *)
(* their values, and leaves the rest of the line as it is.                 *)
THEOREM RestIsUntouched == Spec => []ProcedureArgsKept
<1>1. IInv => ProcedureArgsKept
  <2> SUFFICES ASSUME IInv, Loaded
               PROVE  /\ IsSuffix(rest, argv)
                      /\ rest # <<>> => ~Recognized(rest[1])
                      /\ \A k \in Consumed :
                           \/ Recognized(argv[k]) /\ (argv[k].form = "flag" => k + 1 \in Consumed)
                           \/ k > 1 /\ argv[k - 1].form = "flag" /\ argv[k].form = "word"
    BY DEF ProcedureArgsKept
  <2>1. /\ Consumed = 1 .. i - 1 /\ rest = SubSeq(argv, i, Len(argv))
        /\ argv \in Seq(Argument) /\ Len(argv) \in Nat /\ i \in 1 .. Len(argv) + 1
    BY ConsumedIs
  <2>2. rest \in Seq(Argument) /\ Len(rest) = Len(argv) - i + 1
        /\ \A k \in 1 .. Len(rest) : rest[k] = argv[i + k - 1]
    BY <2>1
  <2>3. IsSuffix(rest, argv)
    <3> DEFINE r == Reverse(rest)
               a == Reverse(argv)
    <3>1. /\ r \in Seq(Argument) /\ Len(r) = Len(rest)
          /\ a \in Seq(Argument) /\ Len(a) = Len(argv)
          /\ \A k \in 1 .. Len(r) : r[k] = rest[Len(rest) - k + 1]
          /\ \A k \in 1 .. Len(a) : a[k] = argv[Len(argv) - k + 1]
      BY <2>1, <2>2 DEF Reverse
    <3>2. \A k \in 1 .. Len(rest) : rest[Len(rest) - k + 1] = argv[Len(argv) - k + 1]
      BY <2>1, <2>2
    <3>3. Len(r) \in Nat /\ Len(r) <= Len(a)
      BY <2>1, <2>2, <3>1
    <3>4. \A k \in 1 .. Len(r) : r[k] = a[k]
      <4>1. \A k \in 1 .. Len(rest) : k \in 1 .. Len(argv)
        BY <2>1, <2>2
      <4> HIDE DEF r, a
      <4> QED
        BY <3>1, <3>2, <4>1
    <3>5. SubSeq(r, 1, Len(r)) = SubSeq(a, 1, Len(r))
      <4> HIDE DEF r, a
      <4> QED
        BY <3>1, <3>3, <3>4
    <3> QED
      BY <3>3, <3>5 DEF IsSuffix, IsPrefix
  <2>4. rest # <<>> => ~Recognized(rest[1])
    <3>1. i <= Len(argv) => ~Recognized(argv[i])
      BY DEF IInv, ArgsParsed, Loaded, AfterParse
    <3>2. rest # <<>> => Len(rest) > 0
      BY <2>2
    <3> QED
      BY <2>1, <2>2, <3>1, <3>2
  <2>5. \A k \in Consumed :
          \/ Recognized(argv[k]) /\ (argv[k].form = "flag" => k + 1 \in Consumed)
          \/ k > 1 /\ argv[k - 1].form = "flag" /\ argv[k].form = "word"
    <3> SUFFICES ASSUME NEW k \in Consumed
                 PROVE  \/ Recognized(argv[k]) /\ (argv[k].form = "flag" => k + 1 \in Consumed)
                        \/ k > 1 /\ argv[k - 1].form = "flag" /\ argv[k].form = "word"
      OBVIOUS
    <3>1. \/ Recognized(argv[k]) /\ (argv[k].form = "flag" => k + 1 < i)
          \/ k > 1 /\ argv[k - 1].form = "flag" /\ argv[k].form = "word"
      BY <2>1 DEF IInv, ArgsParsed
    <3>2. k + 1 < i => k + 1 \in Consumed
      BY <2>1
    <3> QED
      BY <3>1, <3>2
  <2> QED
    BY <2>3, <2>4, <2>5
<1> QED
  BY <1>1, Invariance, PTL

(* Fields of two messages make a composite.                                *)
LEMMA TwoMessages ==
  ASSUME NEW f \in Fields, NEW g \in Fields, decl[f].spec # decl[g].spec
  PROVE  Composite
<1> DEFINE spec == [x \in Fields |-> decl[x].spec]
           Pair == {decl[f].spec, decl[g].spec}
<1>1. spec \in Surjection(Fields, Specs)
  BY DEF Surjection, Specs
<1>2. IsFiniteSet(Fields)
  BY ConfigAssumption, Zenon
<1>3. IsFiniteSet(Specs)
  BY <1>1, <1>2, FS_Surjection, Zenon
<1>4. Cardinality(Pair) = 2
  <2>1. IsFiniteSet({decl[f].spec}) /\ Cardinality({decl[f].spec}) = 1
    BY FS_Singleton, Zenon
  <2>2. Cardinality({decl[f].spec} \union {decl[g].spec}) = 2
    BY <2>1, FS_AddElement
  <2> QED
    BY <2>2
<1>5. Pair \in SUBSET Specs
  BY DEF Specs
<1>6. Cardinality(Pair) <= Cardinality(Specs)
  BY <1>3, <1>5, FS_Subset
<1>7. Cardinality(Specs) \in Nat
  BY <1>3, FS_CardinalityType
<1> QED
  BY <1>4, <1>6, <1>7 DEF Composite

(* detectConflicts and the generator's checks: no environment variable and *)
(* no flag sets two fields.                                                *)
THEOREM NamesAreUnshared == Spec => []OneFieldPerName
<1>1. IInv => OneFieldPerName
  <2> SUFFICES ASSUME IInv, Loaded, NEW f \in Fields, NEW g \in Fields, f # g
               PROVE  /\ ~(cfg[f] = "env" /\ decl[f].env = decl[g].env)
                      /\ ~(cfg[f] = "flag" /\ decl[f].flag = decl[g].flag)
    BY DEF OneFieldPerName
  <2>1. decl \in Declarations
    BY DEF IInv, InputKept
  <2>2. ~Conflict
    BY DEF IInv, SourcesApplied, Loaded, AfterParse
  <2>3. cfg[f] = FromFlag(f) /\ DOMAIN values \subseteq Flags
    BY DEF IInv, SourcesApplied, ArgsParsed, Loaded
  <2>4. FromFile(f) \notin {"env", "flag"}
    BY DEF FromFile
  <2>5. cfg[f] = "env" => decl[f].env # None
    BY <2>3, <2>4 DEF FromFlag, FromEnv, Envs
  <2>6. cfg[f] = "flag" => decl[f].flag # None
    BY <2>3, <2>4 DEF FromFlag, FromEnv, Flags
  <2>7. CASE decl[f].spec = decl[g].spec
    BY <2>1, <2>5, <2>6, <2>7, Wirings
  <2>8. CASE decl[f].spec # decl[g].spec
    BY <2>2, <2>5, <2>6, <2>8, TwoMessages DEF Conflict
  <2> QED
    BY <2>7, <2>8
<1> QED
  BY <1>1, Invariance, PTL

(* applyConfigFile: a file named on the command line is merged into the    *)
(* one message there is, every entry of it, or Load fails.                 *)
THEOREM FileIsMerged == Spec => []FileMerged
<1>1. IInv => FileMerged
  <2> SUFFICES ASSUME IInv, Loaded,
                      NEW k \in Consumed, Recognized(argv[k]), argv[k].name = "config",
                      ValueOf(k) # ""
               PROVE  /\ ~Composite /\ document = "known"
                      /\ \A f \in Fields :
                           /\ file[f] \notin {"twice", "bad"}
                           /\ file[f] = "good" => cfg[f] \in {"file", "env", "flag"}
                           /\ file[f] = "null" => cfg[f] \in {"zero", "env", "flag"}
    BY DEF FileMerged, FileNamed
  <2>1. configPath # ""
    BY ConsumedIs DEF IInv, ArgsParsed
  <2>2. /\ ~Composite /\ document = "known"
        /\ file \in [Fields -> {"absent", "null", "good"}]
    BY <2>1 DEF IInv, SourcesApplied, Loaded, AfterFile
  <2>3. \A f \in Fields : cfg[f] = FromFlag(f)
    BY DEF IInv, SourcesApplied, Loaded
  <2> QED
    BY <2>2, <2>3 DEF FromFlag, FromEnv, FromFile
<1> QED
  BY <1>1, Invariance, PTL
=============================================================================
