-------------------------- MODULE CliRunnerProperties -----------------------
(***************************************************************************)
(* What a generated CLI promises.                                          *)
(***************************************************************************)
EXTENDS CliRunner, FiniteSets

Constructed == phase \notin {"validate", "insert", "rejected", "crashed"}

(* Services that the generator can honour: no command is the root, below   *)
(* another command, or where the schema command is, no dash in a segment   *)
(* makes two nodes one to Go, and where a request has the field that the   *)
(* group's flags are bound to, it is that message.                         *)
Nodes == UNION {WalkedThrough(PathOf(svc, c)) \union {PathOf(svc, c)} : c \in Exposed(svc)}

WellFormed ==
  /\ \A c \in Exposed(svc) :
       /\ PathOf(svc, c) # Root
       /\ ~IsPrefix(Schema, PathOf(svc, c))
       /\ \A d \in Exposed(svc) : ~IsStrictPrefix(PathOf(svc, c), PathOf(svc, d))
  /\ \A p, q \in Nodes : VarName(p) = VarName(q) => p = q
  /\ ~BindsElsewhere(svc)

(* TreeExact: whatever the service, what is below a node is below a group, *)
(* also when a command took the place of a group that had children         *)
(* (insertLeaf).  And the order of the methods does not matter: once       *)
(* buildTree is done, the commands of the tree of a well-formed service    *)
(* are the exposed methods, each at its path and not pruned with the       *)
(* groups that lead nowhere, and schema; every group leads to a command;   *)
(* and such a service never brings the generator or the compiler down.     *)
TreeExact ==
  /\ Root \in DOMAIN tree
  /\ \A p \in DOMAIN tree : \A q \in WalkedThrough(p) : q \in DOMAIN tree /\ tree[q] = Group
  /\ WellFormed =>
       /\ Constructed =>
            /\ \A c \in Exposed(svc) :
                 PathOf(svc, c) \in DOMAIN tree /\ tree[PathOf(svc, c)] = c
            /\ \A p \in DOMAIN tree :
                 CASE tree[p] = Group ->
                        \E c \in Exposed(svc) : IsStrictPrefix(p, PathOf(svc, c))
                   [] tree[p] = Show -> p = Schema
                   [] OTHER -> tree[p] \in Exposed(svc) /\ p = PathOf(svc, tree[p])
       /\ phase # "crashed"

-----------------------------------------------------------------------------
(* Before the command only the flags of the service's group can stand.     *)
SwitchName(s, name) == name \in DOMAIN s.flags /\ Switch(s.flags[name])

(* Of a line as long as this, what the flags at F have for their values:   *)
(* the arguments after them.  What looks like a flag but is a value has    *)
(* none itself.                                                            *)
ValuesOf(F, length) ==
  LET among[n \in 0..length] ==
        IF n = 0 THEN {}
        ELSE IF n - 1 \in F \ among[n - 1] THEN among[n - 1] \union {n}
        ELSE among[n - 1]
  IN  among[length]

(* The values of global flags, and of those of the group; a switch and     *)
(* help have none.                                                         *)
GlobalValues(l) ==
  ValuesOf({n \in DOMAIN l : IsGlobal(l[n]) /\ l[n].form = "flag"}, Len(l))
Taken(s, l) ==
  ValuesOf({n \in DOMAIN l : l[n].form = "flag" /\ ~IsHelp(l[n]) /\ ~SwitchName(s, l[n].name)}, Len(l))

GlobalPart(l) == {n \in DOMAIN l : IsGlobal(l[n])} \union GlobalValues(l)

(* Of the first n arguments of a line, those at S, by n.                   *)
KeptAt(l, S) ==
  LET kept[n \in 0..Len(l)] ==
        IF n = 0 THEN <<>>
        ELSE IF n \in S THEN Append(kept[n - 1], l[n]) ELSE kept[n - 1]
  IN  kept

(* The texts of those arguments.                                           *)
TextsTo(l, S, n) == LET kept == KeptAt(l, S)[n] IN [i \in DOMAIN kept |-> kept[i].value]

(* The line without global flags; the words among its first n arguments    *)
(* that are no values; and all of them.                                    *)
LocalTo(l) == KeptAt(l, DOMAIN l \ GlobalPart(l))
Local(l)   == LocalTo(l)[Len(l)]
CommandsTo(s, l, n) == TextsTo(l, {m \in DOMAIN l : l[m].form = "word"} \ Taken(s, l), n)
Commands(s, l) == CommandsTo(s, Local(l), Len(Local(l)))

(* A line without flags of the group or of the leaf.                       *)
OnlyGlobal(l) == \A n \in DOMAIN Local(l) : ~IsFlag(Local(l)[n])

(* RightMethod: a method runs only when the words of the line, wherever    *)
(* flags stand between them, begin with its path: the value of a flag is   *)
(* never taken for a command (preParseGlobalFlags, parseNodeFlags).        *)
RightMethod ==
  \A i \in DOMAIN calls :
    IsPrefix(PathOf(svc, calls[i].method), Commands(svc, prog.lines[calls[i].run]))

-----------------------------------------------------------------------------
(* A line of words and inline flags.                                       *)
IsPlain(l) == \A n \in DOMAIN l : l[n].form \in {"word", "inline"}

(* The texts that its first n arguments give for a flag that stands after  *)
(* w of the commands: for one of the group's flags, and one of the leaf's. *)
GivenTo(s, l, name, w, n) ==
  TextsTo(l, {m \in DOMAIN l : /\ l[m].form = "inline" /\ l[m].name = name
                               /\ Len(CommandsTo(s, l, m)) = w}, n)
OfGroup(s, l, name)   == GivenTo(s, Local(l), name, Len(s.path), Len(Local(l)))
OfLeaf(s, l, name, c) == GivenTo(s, Local(l), name, Len(PathOf(s, c)), Len(Local(l)))

(* Those that the first lines of several give for a flag of the group, by  *)
(* the number of lines.                                                    *)
Sofar(s, lines, name) ==
  LET given[r \in 0..Len(lines)] ==
        IF r = 0 THEN <<>> ELSE given[r - 1] \o OfGroup(s, lines[r], name)
  IN  given

(* What these texts make of a field: all of them, or the last, and nothing *)
(* when that is no document.                                               *)
Field(f, texts) ==
  IF texts = <<>> THEN <<>>
  ELSE IF f.card = "list" /\ f.kind \notin {"message", "bytes"}
  THEN [n \in DOMAIN texts |-> Parse(f, texts[n])]
  ELSE IF f.kind \in {"message", "bytes"} /\ Last(texts) = "" THEN <<>>
  ELSE <<Parse(f, Last(texts))>>

(* RequestFromLine: what the request holds is what the user said.  On a    *)
(* line of inline flags and the words of the command it has, of the flags  *)
(* after the command, all the values given for a repeated field, in order, *)
(* and the last one given for any other, decoded only then.  The group's   *)
(* flags come long before the leaf, may have the names of its flags, and   *)
(* outlive the line: their fields have what this and earlier Runs gave     *)
(* (cli.go:221).  From --json or the standard input a request comes only   *)
(* when nothing else follows the command, and is then not mixed with what  *)
(* earlier Runs left in the group's flags.  (With flags of the group on    *)
(* the line it should not come at all: JSONExcludesFlags.)  From the       *)
(* standard input the handler gets every line in turn, and the first Run   *)
(* from the first one on.                                                  *)
PlainRuns(r) == \A i \in 1..r : IsPlain(prog.lines[i]) /\ \E j \in DOMAIN calls : calls[j].run = i

RequestFromLine ==
  /\ \A i \in DOMAIN calls :
       LET c == calls[i]  m == svc.methods[c.method]  l == prog.lines[c.run]
       IN  /\ c.source = "flags" /\ IsPlain(l) /\ Commands(svc, l) = PathOf(svc, c.method) =>
                c.own = [n \in DOMAIN m.flags |-> Field(m.flags[n], OfLeaf(svc, l, n, c.method))]
           /\ c.source = "flags" /\ m.bind = "message"
                /\ PathOf(svc, c.method) # svc.path /\ PlainRuns(c.run) =>
                c.bound = [n \in DOMAIN GroupFlags(svc) |->
                             Field(svc.flags[n], Sofar(svc, prog.lines, n)[c.run])]
           /\ c.source # "flags" =>
                /\ Commands(svc, l) = PathOf(svc, c.method) /\ c.own = NoFields
                /\ OnlyGlobal(l) => c.bound = NoFields
  /\ \A i \in DOMAIN received :
       IF i = 1 THEN run = 1 => received[i].n = 1
       ELSE received[i].n = received[i - 1].n
                            + IF received[i - 1].at \in {"eof", "broken"} THEN 0 ELSE 1

(* docs/done.md:68: an error is returned when --json and flags are given   *)
(* together; so no request comes from --json on a line with flags of the   *)
(* group or of the leaf.                                                   *)
JSONExcludesFlags ==
  \A i \in DOMAIN calls : calls[i].source = "json" => OnlyGlobal(prog.lines[calls[i].run])

-----------------------------------------------------------------------------
(* A text that the flag of a field should take.                            *)
Takes(f, text) ==
  CASE f.kind = "enum" ->
         \E i \in DOMAIN f.enum : f.enum[i].number # 0 /\ f.enum[i].word = Lower(text)
    [] f.kind \in {"message", "bytes"} -> text = "" \/ Decodes(f, text)
    [] OTHER -> Accepts(GoType(f), text)

(* The n-th argument of a local line is a flag of command c, or of its     *)
(* group, where it belongs, and has a value of its field's.                *)
InPlace(s, l, n, c) ==
  LET m == s.methods[c]  w == Len(CommandsTo(s, l, n))
  IN  \/ /\ w = Len(PathOf(s, c)) /\ m.shape \in {"unary", "server_stream"}
         /\ l[n].name \in DOMAIN m.flags /\ Takes(m.flags[l[n].name], l[n].value)
      \/ /\ w = Len(s.path) /\ w < Len(PathOf(s, c))
         /\ l[n].name \in DOMAIN GroupFlags(s) /\ Takes(s.flags[l[n].name], l[n].value)

(* The texts given for a global flag in the first n arguments of a line.   *)
GlobalTo(l, name, n) == TextsTo(l, {m \in DOMAIN l : l[m].form = "inline" /\ l[m].name = name}, n)

AtMostOne(texts, S) == Len(texts) <= 1 /\ \A i \in DOMAIN texts : texts[i] \in S

(* A line that asks for command c: it is given by its path, with global    *)
(* flags anywhere and the flags of group and leaf where they belong.  A    *)
(* --json takes the place of all those flags (docs/done.md:68), and is     *)
(* none for a command whose requests come from the standard input, which   *)
(* has no flags either.  Not meant is a service with an enum whose values  *)
(* collide where the generator does not look (cli.go:965).                 *)
AsksFor(s, l, c) ==
  LET local == Local(l)
  IN  /\ IsPlain(l) /\ Commands(s, l) = PathOf(s, c)
      /\ \A n \in DOMAIN local : IsFlag(local[n]) => InPlace(s, local, n, c)
      /\ AtMostOne(GlobalTo(l, "output", Len(l)), {"text", "json"})
      /\ AtMostOne(GlobalTo(l, "json", Len(l)), Requests)
      /\ \/ GlobalTo(l, "json", Len(l)) = <<>>
         \/ s.methods[c].shape \in {"unary", "server_stream"} /\ OnlyGlobal(l)
      /\ s.methods[c].shape \in {"unary", "server_stream"} \/ OnlyGlobal(l)
      /\ \A m \in {s, s.methods[c]} : \A n \in DOMAIN m.flags :
           m.flags[n].kind = "enum" => ~Collides(m.flags[n].enum)

(* CommandsRun: a command that is asked for runs, unless this or an        *)
(* earlier Run has left a text in a flag of the group that does not decode.*)
CommandsRun ==
  \A c \in Exposed(svc) :
    /\ phase = "idle" /\ run > 0 /\ WellFormed /\ AsksFor(svc, args, c)
    /\ \A n \in DOMAIN bound : Decoded(svc.flags[n], bound[n])
    => calls # <<>> /\ Last(calls).run = run /\ Last(calls).method = c

-----------------------------------------------------------------------------
(* Reported: what a script sees of a Run.  Exit status 0 means that what   *)
(* was asked for has been done and printed: a response, a stream's         *)
(* responses as they were sent.  A status in the error of a handler or an  *)
(* interceptor reaches the shell as it is; the ErrorMapper classifies what *)
(* has none, and never anything else.  With --output json the status on    *)
(* stderr is the one of the exit status, retryable or not, and is missing  *)
(* only where there is no status to print.  Nothing is printed by a        *)
(* refused command (README.md:15-16, docs/done.md:72-73).                  *)
Served == calls # <<>> /\ Last(calls).run = run

Reported ==
  /\ phase = "idle" /\ run > 0 =>
       /\ Served /\ returned.how = "ok" => Exit = 0
       /\ Served /\ Exit = 0 =>
            /\ returned.how = "ok"
            /\ svc.methods[Last(calls).method].shape \in {"unary", "client_stream"} => printed = <<1>>
       /\ Served /\ returned.how = "error" =>
            err = IF returned.error.code # None \/ prog.mapper = None
                  THEN returned.error ELSE prog.mapper
       /\ told # None => err = told /\ output = "json"
       /\ output = "json" /\ err # None /\ err.code # None => told = err
  /\ printed # <<>> => Served
  /\ \A i \in DOMAIN printed : i > 1 => printed[i - 1] < printed[i]

-----------------------------------------------------------------------------
(* The inductive invariants behind TreeExact, Reported and RightMethod.    *)

(* The paths there can be: "schema" is a string, which no prover knows.    *)
AllPaths == Seq(STRING \union {"schema"})

(* t has, of the methods below m: their commands at their paths, and the   *)
(* groups that lead to them.                                               *)
TreeOf(t, m) ==
  /\ \A c \in Exposed(svc) :
       c < m => PathOf(svc, c) \in DOMAIN t /\ t[PathOf(svc, c)] = c
  /\ \A p \in DOMAIN t :
       IF t[p] = Group
       THEN p = Root \/ \E c \in Exposed(svc) : c < m /\ IsStrictPrefix(p, PathOf(svc, c))
       ELSE t[p] \in Exposed(svc) /\ t[p] < m /\ p = PathOf(svc, t[p])

(* Whatever the order in which the methods are inserted (tree.go:27-98).   *)
TreeInv ==
  /\ svc \in Services
  /\ DOMAIN tree \subseteq AllPaths /\ TreeExact
  /\ phase \in {"validate", "insert"} =>
       k \in 1..Len(svc.methods) + 1 /\ (WellFormed => TreeOf(tree, k))
  /\ phase = "validate" => k = 1
  /\ phase = "insert" => ~DuplicatePaths(svc)

(* Where Run stands, from the first argument to the report.                *)
Interpreting == phase \in {"preparse", "group", "dispatch", "leaf"}

ReportInv ==
  /\ run \in Nat /\ sends \in Nat /\ printed \in Seq(Nat) /\ err \in Error \union {None}
  /\ calls \in Seq(ToSet(calls)) /\ \A i \in DOMAIN calls : calls[i].run \in 0..run
  /\ Constructed => prog.mapper \in Error \union {None}
  /\ ~Constructed => run = 0
  /\ run = 0 => calls = <<>> /\ printed = <<>> /\ (Constructed => phase = "idle")
  /\ Interpreting => ~Served
  /\ Interpreting \/ phase = "serving" => err = None /\ told = None
  /\ phase = "serving" =>
       /\ Served /\ Last(calls).method = tree[node]
       /\ \A i \in DOMAIN printed : printed[i] <= sends
  /\ phase = "failed" =>
       /\ err \in Error /\ told = None
       /\ Served => returned.how \in {"error", "nil", "invalid"} /\ returned.error = err
  /\ phase = "idle" /\ Served => returned.how \in {"ok", "error", "nil", "invalid"}
  /\ Reported

(* A leaf that is a method is at its path.                                 *)
LeavesInPlace ==
  \A p \in DOMAIN tree :
    tree[p] \notin {Group, Show} => tree[p] \in Exposed(svc) /\ p = PathOf(svc, tree[p])

(* The first k - 1 arguments are scanned for global flags; the k-th is no  *)
(* value of one.                                                           *)
PreParsing ==
  /\ k \in 1..Len(args) + 1 /\ k \notin GlobalValues(args)
  /\ rest = LocalTo(args)[k - 1] /\ node = Root

(* What traverse has still to interpret is the end of the local arguments, *)
(* from one on that is no value; and node is the commands before it.       *)
Traversing ==
  LET local == Local(args)
  IN  \E d \in 1..Len(local) + 1 :
        /\ d \notin Taken(svc, local)
        /\ rest = SubSeq(local, d, Len(local)) /\ node = CommandsTo(svc, local, d - 1)

AtLeaf ==
  node \in DOMAIN tree /\ tree[node] # Group /\ IsPrefix(node, Commands(svc, args))

(* Nothing on the line is read in the wrong role, whatever stands where.   *)
LineInv ==
  /\ LeavesInPlace /\ RightMethod
  /\ Constructed => prog \in Programs(svc)
  /\ Interpreting => run \in DOMAIN prog.lines
  /\ phase = "preparse" => PreParsing
  /\ phase \in {"group", "dispatch"} => Traversing
  /\ phase = "leaf" => AtLeaf

-----------------------------------------------------------------------------
(* The inductive invariants behind RequestFromLine and CommandsRun.        *)

(* What the variable of a flag holds after these texts.                    *)
Held(f, texts) ==
  IF Repeats(f) THEN [n \in DOMAIN texts |-> Parse(f, texts[n])]
  ELSE IF texts = <<>> THEN <<>>
  ELSE <<Parse(f, Last(texts))>>

(* How many of the local arguments have been interpreted.                  *)
Over == Len(Local(args)) - Len(rest)

(* What the group's variables hold after the first r lines, and further on *)
(* one more line.                                                          *)
HeldAfter(r) == \A n \in DOMAIN bound : bound[n] = Held(svc.flags[n], Sofar(svc, prog.lines, n)[r])

HeldWithin ==
  \A n \in DOMAIN bound :
    bound[n] = Held(svc.flags[n], Sofar(svc, prog.lines, n)[run - 1]
                                  \o GivenTo(svc, Local(args), n, Len(svc.path), Over))

(* They hold what the lines gave, as long as all have been plain and led   *)
(* to a call; a leaf in the place of the group has its flags instead.      *)
GroupInv ==
  /\ Constructed => DOMAIN bound = DOMAIN GroupFlags(svc)
  /\ svc.path \in DOMAIN tree /\ tree[svc.path] = Group =>
       /\ phase = "preparse" /\ PlainRuns(run - 1) => HeldAfter(run - 1)
       /\ phase \in {"group", "dispatch"} /\ PlainRuns(run - 1) /\ IsPlain(args) => HeldWithin
       /\ AtMethod /\ PlainRuns(run - 1) /\ IsPlain(args) => HeldAfter(run)
       /\ phase \in {"serving", "failed", "idle"} /\ PlainRuns(run) => HeldAfter(run)

(* At a leaf, where no flag has used up a word, node is all the commands   *)
(* so far; and its variables hold what has been given after them.          *)
LeafInv ==
  AtMethod =>
    /\ Over \in 0..Len(Local(args)) /\ rest = SubSeq(Local(args), Over + 1, Len(Local(args)))
    /\ IsPlain(args) \/ json # None \/ FromStdin => node = CommandsTo(svc, Local(args), Over)
    /\ DOMAIN own = DOMAIN Method.flags
    /\ IsPlain(args) =>
         \A n \in DOMAIN own :
           own[n] = Held(Method.flags[n], GivenTo(svc, Local(args), n, Len(node), Over))

(* The line that Receive takes next.                                       *)
StreamInv ==
  /\ next \in Nat /\ received \in Seq(ToSet(received)) /\ (run = 0 => received = <<>>)
  /\ received = <<>> /\ run <= 1 => next = 1
  /\ received # <<>> =>
       next = Last(received).n + IF Last(received).at \in {"eof", "broken"} THEN 0 ELSE 1

RequestInv ==
  /\ GroupInv /\ LeafInv /\ StreamInv /\ RequestFromLine
  /\ Interpreting => \A i \in DOMAIN calls : calls[i].run # run

(* The text given for a flag that is given at most once.                   *)
Only(texts) == IF texts = <<>> THEN None ELSE texts[1]

(* On the way of a line that asks for c nothing fails before the handler.  *)
OnTheWay(c) ==
  /\ phase = "preparse" =>
       json = Only(GlobalTo(args, "json", k - 1)) /\ output = Only(GlobalTo(args, "output", k - 1))
  /\ phase \in {"group", "dispatch", "leaf"} => json = Only(GlobalTo(args, "json", Len(args)))
  /\ phase = "dispatch" => ~(HasFlags /\ MoreFlags)
  /\ phase = "leaf" => tree[node] = c /\ ~Undecoded(Method.flags, own)
  /\ phase \in {"serving", "failed", "idle"} =>
       \/ Served /\ Last(calls).method = c
       \/ \E n \in DOMAIN bound : ~Decoded(svc.flags[n], bound[n])

AskInv ==
  /\ Constructed => tree[Root] = Group
  /\ phase \in {"group", "dispatch"} => node \in DOMAIN tree /\ tree[node] = Group
  /\ WellFormed /\ run > 0 =>
       \A c \in Exposed(svc) : AsksFor(svc, args, c) => OnTheWay(c)
=============================================================================
