----------------------------- MODULE CliRunner ------------------------------
(***************************************************************************)
(* A generated CLI: the generator builds the command tree of a service     *)
(* (CommandTree) and the flags of its messages (CliFlags), and Runner.Run  *)
(* (transport/cli/runner.go) takes a command line through them, from the   *)
(* global flags over the flags of groups to the body generated for a leaf  *)
(* (internal/codegen/cli.go), the handler's streams and the report of its  *)
(* error.  A program may call Run several times.                           *)
(*                                                                         *)
(* An argument is a record: form is "word", "flag" (--name), "inline"      *)
(* (--name=value) or "dashes" (--); a word's value is its text.  The flags *)
(* are the global json and output, help, which is never inline, and those  *)
(* of the group and the leaf.                                              *)
(*                                                                         *)
(* An error is a record of the code and the retryable flag of the status   *)
(* in its chain; a plain error has no code.                                *)
(***************************************************************************)
EXTENDS CommandTree

CONSTANTS
  Services,        (* services a CLI is generated for                      *)
  Programs(_),     (* what a service's CLI is used for: lines, the command *)
                   (* lines in turn; stdin, what its input holds: lines    *)
                   (* that are a "message", "invalid", or "broken", which  *)
                   (* no scanner gets past; mapper, the error its          *)
                   (* ErrorMapper makes of a plain one, or None            *)
  Requests,        (* texts that are the JSON of a request                 *)
  Errors,          (* errors a handler or an interceptor returns           *)
  MaxSends         (* bound on the responses a stream's handler sends      *)

Plain         == [code |-> None, retryable |-> FALSE]
Status(code)  == [code |-> code, retryable |-> FALSE]

(* ExitCode, by the code of a status; the code of an application is 1.     *)
ExitCode ==
  [internal |-> 1, invalid_argument |-> 2, not_found |-> 3, unauthenticated |-> 4,
   permission_denied |-> 5, conflict |-> 6, already_exists |-> 7, unavailable |-> 8]

Error == [code : DOMAIN ExitCode \union STRING \union {None}, retryable : BOOLEAN]

ASSUME ErrorAssumption ==
  /\ Errors \subseteq Error /\ None \notin Error
  /\ \A s \in Services : \A p \in Programs(s) : p.mapper \in Error \union {None}

ASSUME RequestAssumption == Requests \intersect {None, ""} = {}

(* Flags of strings take any text.                                         *)
ASSUME RunnerAssumption ==
  \A s \in Services :
    /\ s.path \in Seq(STRING) /\ s.methods \in Seq(ToSet(s.methods))
    /\ \A m \in ToSet(s.methods) : m.path \in Seq(STRING)
    /\ s.bind => s.path # Root
    /\ \A p \in Programs(s) :
         /\ p.lines \in Seq(ToSet(p.lines)) /\ \A l \in ToSet(p.lines) : l \in Seq(ToSet(l))
         /\ \A l \in ToSet(p.lines) : \A arg \in ToSet(l) :
              /\ arg.form \in {"word", "flag", "inline", "dashes"}
              /\ arg.name = "help" => arg.form = "flag"
              /\ arg.value # None /\ Accepts("string", arg.value)
    /\ \A p \in Programs(s) : Len(p.lines) > 1 => "broken" \notin ToSet(p.stdin)

ASSUME FieldAssumption ==
  \A s \in Services : \A m \in {s} \union ToSet(s.methods) : \A n \in DOMAIN m.flags :
    LET f == m.flags[n]
    IN  /\ f.card \in {"single", "list", "map"} /\ (f.card = "map" => f.kind = "message")
        /\ f.enum \in Seq(ToSet(f.enum)) /\ \A i \in DOMAIN f.enum : f.enum[i].number # None

VARIABLES
  svc, prog,  (* the service, and what its CLI is used for                 *)
  run,        (* number of the call of Run                                 *)
  phase,      (* what the generator or the runner does next                *)
  k,          (* next method to insert; next argument to pre-parse         *)
  tree,       (* the command tree                                          *)
  json,       (* globalFlags.jsonPayload                                   *)
  output,     (* globalFlags.outputFmt                                     *)
  rest,       (* arguments still to be interpreted                         *)
  node,       (* path of the node traverse has reached                     *)
  bound,      (* the variables of the group's flags                        *)
  own,        (* the variables of the leaf's flags                         *)
  calls,      (* history: the calls of handlers                            *)
  next,       (* number of the next line of the input                      *)
  received,   (* history: what Receive returned to the handler             *)
  sends,      (* responses sent by the handler                             *)
  printed,    (* those among them that have been printed                   *)
  returned,   (* history: what the handler returned, and the error this is *)
  err,        (* the error of Run, or None                                 *)
  told        (* the error written to stderr as JSON, or None              *)

program == <<svc, prog, run, tree>>
globals == <<json, output>>
line    == <<k, rest, node>>
flags   == <<own, bound>>
stream  == <<next, received, sends, printed>>
outcome == <<returned, err, told>>
vars    == <<program, phase, globals, line, flags, calls, stream, outcome>>

Init ==
  /\ svc \in Services /\ prog = None /\ run = 0
  /\ phase = "validate" /\ k = 1
  /\ tree = [p \in {Root} |-> Group]
  /\ json = None /\ output = None /\ rest = <<>> /\ node = Root
  /\ bound = NoFields /\ own = NoFields /\ calls = <<>>
  /\ next = 1 /\ received = <<>> /\ sends = 0 /\ printed = <<>>
  /\ returned = None /\ err = None /\ told = None

-----------------------------------------------------------------------------
(* Generate; without a method to expose there is no CLI.                   *)

Validate ==
  /\ phase = "validate"
  /\ phase' = IF DuplicatePaths(svc) \/ EnumsCollide(svc) \/ BindsWrongly(svc)
              THEN "rejected" ELSE "insert"
  /\ UNCHANGED <<program, globals, line, flags, calls, stream, outcome>>

InsertMethod ==
  /\ phase = "insert" /\ k <= Len(svc.methods)
  /\ k' = k + 1
  /\ IF k \notin Exposed(svc) THEN UNCHANGED <<phase, tree>>
     ELSE IF AddsToLeaf(tree, PathOf(svc, k)) THEN phase' = "crashed" /\ UNCHANGED tree
     ELSE tree' = InsertLeaf(tree, PathOf(svc, k), k) /\ UNCHANGED phase
  /\ UNCHANGED <<svc, prog, run, globals, rest, node, flags, calls, stream, outcome>>

(* The generated constructor adds the schema command to the root's map; it *)
(* declares the variables of the group's flags.                            *)
Construct ==
  /\ phase = "insert" /\ k > Len(svc.methods)
  /\ IF Exposed(svc) = {} THEN phase' = "rejected" /\ UNCHANGED <<tree, prog, bound>>
     ELSE IF tree[Root] # Group \/ ~Compiles(svc, Prune(tree))
     THEN phase' = "crashed" /\ UNCHANGED <<tree, prog, bound>>
     ELSE /\ phase' = "idle" /\ tree' = AddSchema(Prune(tree))
          /\ prog' \in Programs(svc) /\ bound' = NoFlags(GroupFlags(svc))
  /\ UNCHANGED <<svc, run, globals, line, own, calls, stream, outcome>>

-----------------------------------------------------------------------------
args == prog.lines[run]

(* Fault: the group's variables are declared anew for every Run.           *)
StartAfresh ==
  /\ phase = "idle" /\ run < Len(prog.lines)
  /\ run' = run + 1 /\ phase' = "preparse"
  /\ k' = 1 /\ rest' = <<>> /\ node' = Root
  /\ json' = None /\ output' = None
  /\ bound' = NoFlags(bound) /\ own' = NoFields
  /\ next' = next /\ received' = <<>> /\ sends' = 0 /\ printed' = <<>>
  /\ returned' = None /\ err' = None /\ told' = None
  /\ UNCHANGED <<svc, prog, tree, calls>>

(* Run.  The variables of the group's flags keep what an earlier Run gave  *)
(* them; a scanner takes more of the input than its lines, and what it has *)
(* taken is lost with it.                                                  *)
Start ==
  /\ phase = "idle" /\ run < Len(prog.lines)
  /\ run' = run + 1 /\ phase' = "preparse"
  /\ k' = 1 /\ rest' = <<>> /\ node' = Root
  /\ json' = None /\ output' = None
  /\ own' = NoFields
  /\ next' \in IF received = <<>> THEN {next} ELSE next..Len(prog.stdin) + 1
  /\ received' = <<>> /\ sends' = 0 /\ printed' = <<>>
  /\ returned' = None /\ err' = None /\ told' = None
  /\ UNCHANGED <<svc, prog, tree, bound, calls>>

(* The three ends of a command line: an error, which is still to be        *)
(* reported; one that is returned as it is; help, or what was asked for.   *)
Fail(e) ==
  /\ phase' = "failed" /\ err' = e
  /\ UNCHANGED <<globals, line, flags, calls, stream, returned, told>>

FailUnmapped ==
  /\ phase' = "idle" /\ err' = Plain
  /\ UNCHANGED <<globals, line, flags, calls, stream, returned, told>>

Done ==
  /\ phase' = "idle"
  /\ UNCHANGED <<globals, line, flags, calls, stream, outcome>>

-----------------------------------------------------------------------------
(* The text of an argument; two dashes stand for that of every flag.       *)
Text(arg) == IF arg.form = "word" THEN arg.value ELSE "--"

IsFlag(arg)   == arg.form \in {"flag", "inline"}
IsGlobal(arg) == IsFlag(arg) /\ arg.name \in {"json", "output"}
IsHelp(arg)   == arg.form = "flag" /\ arg.name = "help"

(* Faults: an inline value, too, uses up the next argument; no value does. *)
WidthTwo(arg) == 2
WidthOne(arg) == 1

(* The arguments a flag with a value takes up.                             *)
Width(arg) == IF arg.form = "inline" THEN 1 ELSE 2

(* That value: inline, or the next argument whatever it is; None at the    *)
(* end of the line.                                                        *)
ValueAt(l, n) ==
  IF l[n].form = "inline" THEN l[n].value
  ELSE IF n < Len(l) THEN Text(l[n + 1]) ELSE None

(* preParseGlobalFlags: a global flag is taken out wherever it stands.     *)
PreParseArg ==
  /\ phase = "preparse" /\ k <= Len(args)
  /\ LET arg == args[k]  v == ValueAt(args, k)
     IN  IF ~IsGlobal(arg)
         THEN /\ rest' = Append(rest, arg) /\ k' = k + 1
              /\ UNCHANGED <<phase, globals, node, flags, calls, stream, outcome>>
         ELSE IF \/ v \in {None, ""}
                 \/ arg.name = "json" /\ json # None
                 \/ arg.name = "output" /\ (output # None \/ v \notin {"text", "json"})
         THEN FailUnmapped
         ELSE /\ k' = k + Width(arg)
              /\ IF arg.name = "json" THEN json' = v /\ UNCHANGED output
                 ELSE output' = v /\ UNCHANGED json
              /\ UNCHANGED <<phase, rest, node, flags, calls, stream, outcome>>
  /\ UNCHANGED program

PreParsed ==
  /\ phase = "preparse" /\ k > Len(args)
  /\ phase' = "group"
  /\ UNCHANGED <<program, globals, line, flags, calls, stream, outcome>>

-----------------------------------------------------------------------------
(* FlagSet.Parse, one argument at a time, for the flags of a message.      *)

MoreFlags == rest # <<>> /\ rest[1].form # "word"

IsSwitch(message) ==
  rest[1].form = "flag" /\ rest[1].name \in DOMAIN message /\ Switch(message[rest[1].name])

FlagValue(message) == IF IsSwitch(message) THEN "true" ELSE ValueAt(rest, 1)

(* A flag that is not defined, has no value, or one it does not take.      *)
BadFlag(message) ==
  IsFlag(rest[1]) /\
    \/ rest[1].name \notin DOMAIN message
    \/ FlagValue(message) = None
    \/ Parse(message[rest[1].name], FlagValue(message)) = None

WithFlag(message, vs) ==
  LET n == rest[1].name
  IN  [vs EXCEPT ![n] = Set(message[n], @, Parse(message[n], FlagValue(message)))]

AfterFlag(message) ==
  SubSeq(rest, IF IsSwitch(message) THEN 2 ELSE 1 + Width(rest[1]), Len(rest))

-----------------------------------------------------------------------------
(* traverse.  Only the service's group may have a FlagSet.                 *)

HasFlags == DOMAIN bound # {} /\ node = svc.path

ParseGroupFlag ==
  /\ phase = "group" /\ HasFlags /\ MoreFlags
  /\ IF rest[1].form = "dashes"
     THEN /\ phase' = "dispatch" /\ rest' = Tail(rest)
          /\ UNCHANGED <<k, globals, node, flags, calls, stream, outcome>>
     ELSE IF IsHelp(rest[1]) THEN Done
     ELSE IF BadFlag(svc.flags) THEN Fail(Plain)
     ELSE /\ bound' = WithFlag(svc.flags, bound) /\ rest' = AfterFlag(svc.flags)
          /\ UNCHANGED <<phase, k, globals, node, own, calls, stream, outcome>>
  /\ UNCHANGED program

GroupFlagsParsed ==
  /\ phase = "group" /\ ~(HasFlags /\ MoreFlags)
  /\ phase' = "dispatch"
  /\ UNCHANGED <<program, globals, line, flags, calls, stream, outcome>>

(* handleNoArgs, dispatch: help, an unknown command, a group, or a leaf,   *)
(* whose body first declares its flags.                                    *)
Dispatch ==
  /\ phase = "dispatch"
  /\ IF rest = <<>> THEN Fail(Plain)
     ELSE IF IsHelp(rest[1]) THEN Done
     ELSE LET child == Append(node, Text(rest[1]))
          IN  IF rest[1].form # "word" \/ child \notin DOMAIN tree THEN Fail(Plain)
              ELSE IF tree[child] # Group /\ Len(rest) > 1 /\ IsHelp(rest[2]) THEN Done
              ELSE /\ phase' = IF tree[child] = Group THEN "group" ELSE "leaf"
                   /\ own' = IF tree[child] \in {Group, Show} THEN own
                             ELSE NoFlags(svc.methods[tree[child]].flags)
                   /\ node' = child /\ rest' = Tail(rest)
                   /\ UNCHANGED <<k, globals, bound, calls, stream, outcome>>
  /\ UNCHANGED program

-----------------------------------------------------------------------------
(* The generated body of a leaf.                                           *)

Method    == svc.methods[tree[node]]
AtMethod  == phase = "leaf" /\ tree[node] # Show
FromStdin == Method.shape \in {"client_stream", "bidi"}

Invoke(source, o, b) ==
  /\ calls' = Append(calls, [run |-> run, method |-> tree[node], source |-> source,
                             own |-> o, bound |-> b])
  /\ phase' = "serving"
  /\ UNCHANGED <<globals, line, flags, stream, outcome>>

(* emitSchemaLookup, without the lookup by the name of a procedure.        *)
ShowSchema ==
  /\ phase = "leaf" /\ tree[node] = Show
  /\ IF rest = <<>> \/ \E c \in Exposed(svc) :
                         PathOf(svc, c) = [n \in DOMAIN rest |-> Text(rest[n])]
     THEN Done ELSE Fail(Plain)
  /\ UNCHANGED program

(* emitStdinGuards.                                                        *)
RunOnStdin ==
  /\ AtMethod /\ FromStdin
  /\ IF json # None \/ rest # <<>> THEN Fail(Status("invalid_argument"))
     ELSE Invoke("stdin", NoFields, NoFields)
  /\ UNCHANGED program

(* emitRequestParsing, the payload ...                                     *)
RunOnJSON ==
  /\ AtMethod /\ ~FromStdin /\ json # None
  /\ IF rest # <<>> THEN Fail(Status("invalid_argument"))
     ELSE IF json \notin Requests THEN Fail(Plain)
     ELSE Invoke("json", NoFields, NoFields)
  /\ UNCHANGED program

(* ... and the flags; what follows the first argument that is no flag is   *)
(* not looked at.                                                          *)
ParseLeafFlag ==
  /\ AtMethod /\ ~FromStdin /\ json = None /\ MoreFlags /\ rest[1].form # "dashes"
  /\ IF BadFlag(Method.flags) THEN Fail(Plain)
     ELSE /\ own' = WithFlag(Method.flags, own) /\ rest' = AfterFlag(Method.flags)
          /\ UNCHANGED <<phase, k, globals, node, bound, calls, stream, outcome>>
  /\ UNCHANGED program

(* emitRequestFields, emitRequestPostAssign: the request is put together,  *)
(* with the group's message where it has that field.                       *)
Request(message, vs)   == [n \in DOMAIN message |-> Built(message[n], vs[n])]
Undecoded(message, vs) == \E n \in DOMAIN message : ~Decoded(message[n], vs[n])

RunOnFlags ==
  /\ AtMethod /\ ~FromStdin /\ json = None
  /\ MoreFlags => rest[1].form = "dashes"
  /\ LET group == IF Method.bind = "message" THEN GroupFlags(svc) ELSE NoFields
     IN  IF Undecoded(Method.flags, own) \/ Undecoded(group, bound)
         THEN Fail(Plain)
         ELSE Invoke("flags", Request(Method.flags, own), Request(group, bound))
  /\ UNCHANGED program

-----------------------------------------------------------------------------
(* The handler and its streams.                                            *)

Serving(shapes) == phase = "serving" /\ Method.shape \in shapes

(* emitNDJSONReadCallback: Receive takes the next line, also after one     *)
(* that was no message.                                                    *)
Receive ==
  /\ Serving({"client_stream", "bidi"}) /\ Len(received) <= Len(prog.stdin)
  /\ LET at == IF next > Len(prog.stdin) THEN "eof" ELSE prog.stdin[next]
     IN  /\ received' = Append(received, [n |-> next, at |-> at])
         /\ next' = IF at \in {"eof", "broken"} THEN next ELSE next + 1
  /\ UNCHANGED <<program, phase, globals, line, flags, calls, sends, printed, outcome>>

(* emitStreamingHandlerCall, emitBidiStreamBody: a response is printed at  *)
(* once; a nil one, or one that cannot be marshalled, is refused.          *)
Send ==
  /\ Serving({"server_stream", "bidi"}) /\ sends < MaxSends
  /\ sends' = sends + 1
  /\ printed' \in {printed, Append(printed, sends')}
  /\ UNCHANGED <<program, phase, globals, line, flags, calls, next, received, outcome>>

(* A handler returns: an error goes to the report as it is, ...            *)
ReturnError ==
  /\ Serving({"unary", "server_stream", "client_stream", "bidi"})
  /\ \E e \in Errors : returned' = [how |-> "error", error |-> e] /\ err' = e
  /\ phase' = "failed"
  /\ UNCHANGED <<program, globals, line, flags, calls, stream, told>>

ReturnStream ==
  /\ Serving({"server_stream", "bidi"})
  /\ returned' = [how |-> "ok", error |-> None] /\ phase' = "idle"
  /\ UNCHANGED <<program, globals, line, flags, calls, stream, err, told>>

(* ... and one response is printed, refused when it is nil, or cannot be   *)
(* marshalled (emitHandlerCall, emitClientStreamBody).                     *)
ReturnResponse ==
  /\ Serving({"unary", "client_stream"})
  /\ \E how \in {"ok", "nil", "invalid"} :
       LET e == CASE how = "ok" -> None [] how = "nil" -> Status("internal") [] OTHER -> Plain
       IN  /\ returned' = [how |-> how, error |-> e] /\ err' = e
           /\ printed' = IF how = "ok" THEN <<1>> ELSE <<>>
           /\ phase' = IF how = "ok" THEN "idle" ELSE "failed"
  /\ UNCHANGED <<program, globals, line, flags, calls, next, received, sends, told>>

-----------------------------------------------------------------------------
(* Fault: the retryable flag of what the mapper says is lost.              *)
MapCode(e) == IF e.code = None /\ prog.mapper # None THEN Status(prog.mapper.code) ELSE e

(* mapError: an error that has a status keeps it.                          *)
Mapped(e) == IF e.code = None /\ prog.mapper # None THEN prog.mapper ELSE e

(* Run reports the error of traverse: on stderr, when there is a status    *)
(* and output is JSON, and to its caller.                                  *)
Report ==
  /\ phase = "failed"
  /\ err' = Mapped(err)
  /\ told' = IF err'.code # None /\ output = "json" THEN err' ELSE None
  /\ phase' = "idle"
  /\ UNCHANGED <<program, globals, line, flags, calls, stream, returned>>

(* The main of the example: what the shell gets to see.                    *)
Exit == IF err = None THEN 0 ELSE IF err.code \in DOMAIN ExitCode THEN ExitCode[err.code] ELSE 1

Finished ==
  /\ phase \in {"rejected", "crashed"} \/ (phase = "idle" /\ run = Len(prog.lines))
  /\ UNCHANGED vars

Next ==
  \/ Validate \/ InsertMethod \/ Construct
  \/ Start \/ PreParseArg \/ PreParsed
  \/ ParseGroupFlag \/ GroupFlagsParsed \/ Dispatch
  \/ ShowSchema \/ RunOnStdin \/ RunOnJSON \/ ParseLeafFlag \/ RunOnFlags
  \/ Receive \/ Send \/ ReturnError \/ ReturnStream \/ ReturnResponse
  \/ Report
  \/ Finished

Spec == Init /\ [][Next]_vars
=============================================================================
