# procframe in TLA+

A verification development of procframe: TLA+ modules translated from its Go
source, TLC configurations that check them on small instances, and proofs that
TLAPS checks for every value of the constants.  Line numbers below and in
`PROJECT.json` are those of the sources at the commit beside this directory.

    tlc -workers 2 -config WsServer_session.cfg MCWsServer     # one run
    tlapm WsServerProofs.tla                                   # one proof module

## The system

procframe lets one protobuf service definition be served over a command line,
Connect/HTTP and WebSocket.  A generator (`internal/codegen`) reads the service's
options and writes, per service, a handler interface, a command tree, Connect and
WebSocket registrations and clients, and the description of a configuration
message.  At run time a transport takes a call, builds a `Conn` for its shape and
passes it through the application's interceptors to the typed handler.

| part | source | state | operations |
|---|---|---|---|
| WebSocket server | `transport/ws/server.go`, `stream.go` | per connection: session table under `mu`, semaphore, a receive channel per session, one write channel | read loop (open, message, close, cancel), handler goroutine, writer, shutdown |
| WebSocket client | `transport/ws/client.go`, `call.go`, `client_stream.go` | per connection: session table, write channel, `done`; per stream `closed`, `termErr` | the four calls, Send, Receive, Close, CloseAndReceive; read, write and closing loops |
| interceptors | `interceptor.go`, `handler.go`, `stream.go` | the `Conn` of one call | four Invoke functions, four Conns, the adapters to the typed streams |
| Connect transport | `transport/connect` | none of its own | four handler constructors |
| CLI runner | `transport/cli/runner.go`, generated commands | context of one Run; flag variables of groups, which outlive it; standard input | pre-parsing, traversal, dispatch, leaf bodies, streams, report of errors |
| command tree | `internal/codegen/tree.go`, `options.go`, `validate.go`, `cli.go` | the tree | checks, insert, prune, add `schema` |
| CLI flags | `transport/cli/flag.go`, `internal/codegen/cli.go`, `naming.go` | a variable for each flag | what flag a field gets, Set, decoding |
| configuration | `config`, `internal/codegen/config.go` | one Load: arguments, file, environment, presence marks | collect, defaults, arguments, file, environment, flags, required |
| errors | `errors.go`, `transport/*/errors.go`, `exitcode.go` | none | code tables |

How they interact: the WebSocket server, Connect and the CLI all call the Invoke
functions of `interceptor.go`; the generator's output calls the transports; server
and client of the WebSocket transport exchange frames over one ordered
connection; `config.Load` runs before the CLI and hands it the rest of `argv`.

What is hard, and what makes each part correct:

* **Server.** Goroutines race on channels that are closed (a send on a closed
  channel is a panic that ends the process), ids are reused as soon as a session
  is deleted, a bounded write channel backs up into the read loop, and shutdown
  must unblock every handler before it waits for them.  It is correct when slots
  are neither leaked nor given back twice, the table names exactly the sessions
  that can still block, every session is answered by messages and then exactly
  one close or error frame, an unary handler runs only on a request that arrived
  whole, and the connection always ends.
* **Client.** Calls race with the end of the connection, a session's full channel
  stops the one read loop, and callers may give up at any time.  It is correct
  when the table holds exactly the calls in progress, nothing is dropped or
  reordered, nobody sends on a closed channel, and everyone is released at the
  end.
* **Both together.** The ends read and answer in loops that block on bounded
  channels, a call may fail at one end while it still opens, runs or answers at
  the other, and late frames meet sessions that are gone.  Correct: a call is
  carried out at most once, its caller learns of success only when the handler
  ran on the whole request, gets its own session's frames, and gets an outcome.
* **Interceptors.** An interceptor may call `next` repeatedly or never, wrap the
  Conn, read ahead and substitute messages.  Correct: order, each request
  handled at most once, nothing nil reaches the transport's stream, and
  interceptors that only look on are unobservable.
* **Configuration.** Five sources are layered over two representations of
  "set" (value and presence), and `argv` is split by a rule that depends on its
  neighbours.  Correct: precedence, required fields, the procedure's arguments
  left whole, no file ignored.
* **CLI.** Global flags are cut out of the whole line before the tree sees it,
  flags of groups stand between words and keep their values from one Run to the
  next, paths of commands may collide, a field's kind decides how its texts are
  parsed, when, and how often it may be given, and an error passes a mapper on
  its way to stderr and the exit status.  Correct: the tree has exactly the
  service's commands, the line runs the command it names, the request has what
  the line says, and the shell learns what happened.

`PROJECT.json` lists every hazard at its line with the properties aimed at it.

## Modules

| module | role |
|---|---|
| `WsServer` | one server connection: state, actions, fairness |
| `WsServerProperties` | its type invariant, properties, inductive invariant, refinement mapping |
| `RpcSessions` | what the server promises: the abstract session service |
| `WsServerProofs` | proofs: slots, table and channels; the refinement, messages and answers |
| `MCWsServer` | instances for TLC |
| `WsClient`, `WsClientProperties`, `MCWsClient` | one client connection |
| `WsClientProofs` | proofs: all safety properties of the client |
| `WsSystem`, `WsSystemProperties`, `MCWsSystem` | client and server on one connection |
| `WsSystemProofs`, `WsFramesProofs` | proofs: the invariants of both ends together, and the refinement; what a call receives |
| `RemoteCalls` | what the two promise together about a call: the abstract specification |
| `Interceptors`, `InterceptorsProperties` | one call through the interceptor chain |
| `HandlerCall` | the same call without a chain: the abstract specification |
| `InterceptorsProofs` | proofs: all properties of the chain, the refinement included |
| `ConfigLoad`, `ConfigLoadProperties`, `MCConfigLoad` | one `config.Load` |
| `ConfigLoadProofs` | proofs: all properties of a Load |
| `CliFlags` | the flags of a message's fields and their values: pure operators |
| `CommandTree` | the tree as a function from paths to nodes, and the generator's checks: pure operators |
| `CliRunner`, `CliRunnerProperties`, `MCCliRunner` | generator and runner, from the service to the exit status |
| `CliRunnerProofs` | proofs: all properties of a generated CLI |
| `SequenceLemmas` | lemmas about sequences that the proofs share |

A definition marked "Fault" in a comment is a plausible bug: it stands before the
definition it would replace, and the property that `PROJECT.json` pairs it with
fails when it does.  The specifications never use it.

### WsServer

Each goroutine has a program counter: `reader.at` for the read loop, which is also
the goroutine that shuts the connection down, `writer.at` for the writer, `pc[s]`
for the handler goroutine of session incarnation `s`.  One action is one stretch
of code between two points where another goroutine can get in: a mutex section,
one channel operation, one blocking call.  So the lookup in `handleMessage` and
its send on the receive channel are two actions (`ReadMessage`, `RouteMessage`),
marking a session closed and closing its channel are two (`ReadClose`,
`CloseRecvCh`), and giving a session up is three (the last frame, `DeleteSession`,
`ReleaseSlot`).

| code | actions |
|---|---|
| `readLoop`, `handleOpen`, `startSession` (332-487) | `NextFrame`, `ReadIgnored`, `ReadOpen`, `RejectDuplicate`, `StartSession`, `ReaderWrite` |
| `handleMessage` (490-520) | `ReadMessage`, `RouteMessage` |
| `handleClose`, `handleCancel` (524-555) | `ReadClose`, `CloseRecvCh`, `ReadCancel` |
| the end of `serve` (320-328), `closeAllSessions` | `ReadFail`, `CancelContext`, `CloseAllSessions`, `CloseWriteCh`, `Return` |
| `runWriter` (381-392) | `WriterTake`, `WriterWrote`, `WriterFailed`, `WriterDrain`, `WriterEnd` |
| the four `Handle` functions, `recvExactlyOne`, `drainAndVerifyEmpty` (56-252), `stream.go` | `RecvExactlyOne`, `VerifyEmpty`, `DrainRest`, `CallReceive`, `ReceiveRequest`, `CallSend`, `HandlerReturn` |
| `startSession`'s goroutine, `writeFn` (449-487), `writeResponseAndClose` | `WriteFrame`, `SkipFrame`, `DeleteSession`, `ReleaseSlot` |

Messages are their numbers in the session, so loss, duplication and reordering
show.  `sessions` maps an id to an incarnation, a member of `Sess`: reuse of an id
is a second incarnation, and the question "whose entry is deleted" has an answer.
`replied`, `got` and `routed` are history variables.  A `select` with several ready
branches is a choice.  Handlers do whatever their interface allows, in any
order, and stop when told to only under fairness.  Payloads, metadata and
interceptors are left out here; the latter have a module of their own.

### WsClient

The read loop, the write loop and the closing goroutine of `NewConn` have program
counters, `pc[c]` is that of the caller of call `c`, and `snd[c]` what it still has
to queue.  `dead` are the calls whose own context has ended, `orphans` those made
after the end of the connection, `closing` how far `Close` of a stream is.  The
server sends any frame of any kind for a call that it has seen opened.

| code | actions |
|---|---|
| `readLoop` (117-147) | `ReadFrame`, `Deliver`, `ReadLoopEnds` |
| `writeLoop` (149-165) | `WriterTake`, `WriterWrote`, `WriteLoopEnds` |
| `NewConn`'s closer (65-74) | `CloseSessions`, `CloseDone` |
| `call.go` | `NewSession`, `SendFrame`, `SendFails`, `MarshalFails`, `TakeFrame`, `GiveUp`, `RemoveSession` |
| `client_stream.go` | `CallReceive`, `CallSend`, `CloseAndReceive`, `CloseStream`, `CancelStream` |

### WsSystem and RemoteCalls

`WsSystem` instantiates `WsClient` as `C` and `WsServer` as `S`, each over variables of its
own, and joins them with `c2s` and `s2c`, the frames under way.  The actions in which
a component meets its environment are conjoined with the other side of it:
`ClientWrites` is `C!WriterWrote` and an append to `c2s`, `ServerReads` takes the head of
`c2s` and does `S!ReadOpen`, `S!ReadMessage`, `S!ReadClose` or `S!ReadCancel` with it, and so
back.  All other actions of an end leave the other end alone.  `answers` records
what the server queues for each id, and on whose behalf.  An id is the call's
name: the client's counter never repeats one.  `MaxFrames` bounds what one end
reads in a behaviour; what the other end can write stays far below it in every run.

`RemoteCalls` knows of a call only what its caller knows (`status`) and what has been
done (`work`: the attempts made at it, of which there may be one, and what became of
each).  The mapping reads the first off the client's variables and the
second off the server's: an attempt is a session opened under the call's id, so a
second session for a call, whatever became of the first, is no step of `RemoteCalls`.
An answer of a unary or server-stream session counts only when its handler ran on
the request; handlers of the other shapes decide what they read.

### Interceptors and HandlerCall

The code is sequential; the state is a stack of calls in progress.  The frame at
depth d belongs to `chain[d]` and knows which interceptors have wrapped the Conn it
was given.  A receive or a send runs down the wrappers in one action, each of them
passing the message on, replacing it or failing.  A request carries its number
and the trail of the wrappers it went through; a response its kind (a response,
one without message, one of another type) and its trail.  `ret` is what the call that
ended last returned, so `NoNilOnWire` can tell a result that the chain stands by from
one that a Conn still holds when the chain has failed.  The transport's answer
is that of `transport/connect/connect.go`; the WebSocket server judges the result
alike.  `HandlerCall` is the call between transport and handler alone; when
`passive` is chosen, the interceptors neither wrap nor substitute nor touch the
Conn, call `next` once and return what it returned, and `ImplementsDirect` says
that the chain then refines `HandlerCall`.

### ConfigLoad

`phase` follows `Load`.  A field's value is the name of the source it came from, so
precedence is visible; a text either parses or is "bad".  The file is read as one
entry for each field: absent, good, bad, null, or doubled (both names of a field).
What stands at the path given with `--config` (`document`, `file`) is an input, chosen
once the arguments are parsed, and not something `ApplyConfigFile` records: `FileMerged`
can so compare a successful Load with the file it was told to read, and a Load that
passed the file over would violate it.
Arguments are records (inline flag, flag with a separate value, word, `--`).  The
closures the generator emits (`ApplyDefaults`, `ApplyEnv`, `ApplyBootstrap`,
`ValidateRequired`) are the actions of the later phases.

### CliFlags, CommandTree and CliRunner

`CliFlags` translates what `cli.go` decides by a field's kind and cardinality: which
fields are one JSON or base64 text decoded after parsing (`PostAssigned`), which
may be repeated, which are switches, which parser of `flag.go` they get (`GoType`);
and what `Set` does to a variable.  Which texts a parser takes (`Accepts`) and which
decode (`Decodes`) are constants.  `CommandTree` has the generator's checks and
`buildTree` as operators: `InsertLeaf`, one action of `CliRunner` for each method, then
`Prune` and `AddSchema`; `Compiles` stands for the Go compiler, which takes neither a
variable declared twice nor a message of the wrong type.

| code | actions |
|---|---|
| `Generate`, `buildTree`, the generated constructor | `Validate`, `InsertMethod`, `Construct` |
| `Run` to `preParseGlobalFlags` (runner.go:85-345) | `Start`, `PreParseArg`, `PreParsed` |
| `traverse`, `parseNodeFlags`, `handleNoArgs`, `dispatch` | `ParseGroupFlag`, `GroupFlagsParsed`, `Dispatch` |
| the body generated for a leaf | `ShowSchema`, `RunOnStdin`, `RunOnJSON`, `ParseLeafFlag`, `RunOnFlags` |
| streams on standard input and output, the handler's return | `Receive`, `Send`, `ReturnError`, `ReturnStream`, `ReturnResponse` |
| `mapError`, `formatErrorJSON`, the exit status | `Report`, `Exit` |

A line of arguments is consumed one argument, one flag or one level of the tree at
a time.  A `Runner` is run several times: `bound`, the variables of the group's
flags, lives from `Construct` on, everything else from `Start` on, and what an earlier
scanner has read ahead of the standard input is lost.

## Runs

| run | instance | question |
|---|---|---|
| `server` | 3 incarnations, 2 ids, 2 slots, 5 frames; unary, server stream, bidi | slots, table, channels, whole requests, refusals, late messages, refinement of `RpcSessions` |
| `server_session` | 1 incarnation, 4 frames; unary, client stream, bidi; `FairSpec` | order and loss, form of the answer, and liveness: shutdown, the end of half-closed sessions, the read loop's answers |
| `client` | one call of any shape with up to 3 frames for it, or a unary call beside a bidi stream whose frames may overrun its channel; caps 1; `UserSpec` | table, closing of receive channels, release of waiters, nothing lost or swapped, errors final; pending calls return when the connection ends, unless the read loop is held up |
| `client_late_call` | a unary call, `FairSpec` | violation: see findings |
| `client_overrun` | a server stream, 2 frames, cap 1, `FairSpec` | violation: see findings |
| `ws_system` | 5 calls, at most two made; 2 incarnations, 1 slot, receive caps 2, write and network caps 1; `FairSpec` | a caller's frames are its session's, refinement of `RemoteCalls`, calls return unless the client's read loop is held up, a closed stream frees its session |
| `ws_send` | a client stream and up to 9 messages, `FairSpec` | violation: see findings |
| `interceptors` | 2 list entries, 2 calls of next each, 2 requests, 1 response | order, at most once, nothing nil, no stale answer, refinement of `HandlerCall` |
| `config_load` | 2 fields in 1 or 2 messages, every declaration the generator admits, every line of up to 3 of 11 arguments, every document and environment | the layering; no file passed over |
| `config_embedded` | the same | violation: see findings |
| `cli` | every service of 3 methods over 11 paths at the root or in a group, one maybe hidden; 3 services against every line of up to 3 of 15 arguments, and two against many of 5; 25 kinds of fields over two Runs, also where group and leaf have flags of one name or a command stands in the group's place; 4 shapes with every input of 2 lines, 7 command lines and 3 mappers | tree, dispatch, requests, errors |
| `cli_json` | the same | violation: see findings |

Why the bounds are enough:

* The server's `RecvCap` is 2, the smallest value that the code's 64 shares its
  behaviour with: the one-request shapes need room for a message and see a
  second one.  `WriteCap` 1 makes every writer block.  Four or five frames fill a
  receive channel, overrun it, close the session and open another under the same
  id.  Of the three incarnations two are launched and a third may be opened: ids and
  slots are reused while goroutines overlap.  With three frames calls are of any
  shape and concurrent; with more they are unary and follow each other, which the
  constraint `Scenarios` says.  `MaxSends` 1 separates "sent nothing" from "sent
  something".
* The client's `RecvCap` and `WriteCap` 1 reach the full channel with the first
  frame and overrun it with the second; its calls are named by their shapes.
  `Scenarios` has one call alone, with three frames in and two out, or two: one
  that waits for its answer beside a stream that may hold up the read loop, which
  is what lets a pending call wait on another.  `client_late_call` has `WriteCap` 3 because a unary
  call queues three frames.
* In `ws_system` one message fills the write channel and the network, so that a
  blocked end reaches back to the other in three frames.  `Scenarios` divides the
  instance: two unary calls compete for the slot, the second made at any time after
  the first has queued its open frame; one call of each shape runs with
  a caller that may give up; one unary call runs while the connection breaks or a
  context ends; and one is made while a server stream that its user has closed
  holds up the client's read loop.  Three calls, and a fault beside two, are left
  to the proofs, which leaves `CallsReturn` unchecked there.  `ws_send` has the 9 messages it takes to fill every channel on the way.
* Two interceptors are the fewest that have an order, with nil entries between
  them; two calls of `next` are a retry.
* Two fields of one message or of two are the fewest that can conflict; three
  arguments hold a flag, its value, and what follows.  Every third field or
  argument is judged by the same pairwise rule.
* Three methods make every case of insertion: below a leaf, over a group with
  children, next to a pruned group.  Five arguments hold a command of two words
  and flags before, between and after them.  Two Runs show what the first leaves
  behind; two texts for a flag tell the last from all of them; every kind of field
  meets a text that its parser takes, one it does not and, where texts are decoded,
  the empty one.  For integers one text is within every type's range, one beyond 32
  bits, one negative.

### Fairness

`WsServer.FairSpec`: the Go scheduler runs goroutines that can run, so the read
loop's own steps, shutdown, the writer and each goroutine's transport code are
weakly fair.  A handler returns once its context is done whenever it is not
blocked in `Receive` (strong fairness, because a handler that calls `Receive` or
`Send` leaves the state in which it can return).  The peer owes nothing: that it
reads appears as the antecedent `PeerReads` in the two properties that need it.
There, a sender on the full write channel is treated strongly fair: the runtime
queues blocked senders in order.  Nothing makes the peer send.

`WsClient.FairSpec` has the goroutines and the callers' library code; servers,
network and users are free.  `UserSpec` adds that whoever holds a stream goes on
receiving or closes it.  That does not keep the read loop free: a stream that is
closed, or that still sends and so does not receive, may have its channel overrun,
which is the finding `client_overrun`.  `PendingCallsEnd` and `CallsReturn` therefore
promise an outcome *or* a read loop held up for ever by a call that nobody reads
(`Overrun`, `HeldUp`); in both runs the states of the exception are reached, and the
properties without it are violated.

The liveness run of the server has one session.  That two blocked handlers are
both released at shutdown is a safety property, `UnblockedAtShutdown`, checked with
two sessions and proved for any number.

`WsSystem.FairSpec` asks less of each goroutine: that *some* step of the two programs
happens while one is possible, weakly fair over their disjunction.  That suffices
for every property because each of these steps uses up a frame, a call or a
connection, and calls and faults are finite, so no step that stays possible is put
off for ever; and it is weaker than what the scheduler gives.  Added to it are
that handlers return (strongly fair, as above), but a server stream may last until
its context is cancelled, and that users receive from the streams they hold.  The
run's constraint cuts off calls and faults only, none of which is fair.

The runs of the client and of the system switch the deadlock check off: with all
calls done and a connection that stays up both ends are quiet.  The other
specifications name their final states (`Returned`, `Finished`) and stutter there.

## What is proved

Every theorem is about every value of the constants: any set of ids, calls,
sessions or fields, also an infinite one where nothing is counted, any capacity,
any bound, any list of interceptors, any service.  The assumptions are named and
stand beside the constants; TLC evaluates them in every run of the component.

| assumption | what it says |
|---|---|
| `ConstantsAssumption` (server), `ClientAssumption` | capacities and bounds are naturals, the client's channels hold a frame and the server's receive channel two, calls and procedures have a shape, the "none" values are not calls or sessions |
| `SystemAssumption` | the two above, for the two ends as `WsSystem` instantiates them |
| `InterceptorAssumption` | the bounds are naturals |
| `ConfigAssumption` | fields are finitely many, declarations are such as the generator admits, arguments are records of the four forms and a word is not empty |
| `ErrorAssumption`, `RunnerAssumption` | mappers return errors or nothing; paths, methods and lines are sequences, a service that binds flags is not at the root, `--help` takes no value, the text of an argument is a text, which a flag of strings takes (`StringVar` and `StringSliceValue.Set` refuse none), and a Runner whose input breaks is run once |
| `RequestAssumption` | the empty text is not the JSON of a request: protojson refuses it |
| `FieldAssumption` | a field is single, a list or a map, and a map's entries are messages, as protobuf has it; the values of an enum are a list of numbered ones |

### Server

`WsServerProofs`: `Invariance` (`Spec => []IInv`), and from it `TypeCorrect`,
`SlotsCorrect`, `TableCorrect`, `RecvChSafe`, `WriteChSafe`, `ShutdownUnblocks` and
`RejectionJustified`.

* None of the safety properties is inductive.  `TableExact`, for one, survives
  `StartSession` only because the read loop is the one goroutine that accepts
  sessions, so that the id it found free is still free, and the incarnation still
  new: `ReaderLocals` says what the read loop's locals hold at each point.
  `SessionLocals` does so for handler goroutines, and `ClosedChannels` ties closed
  channels to the frame or the phase of the shutdown that closed them.
* The slot argument is one of cardinality: `Live`, the incarnations that hold a
  slot, is finite, and each action adds or removes at most one member together
  with one token of the semaphore.  `RejectionJustified` follows: at the
  rejection `sem = MaxInflight` and no open frame is in hand, so `Live` has
  `MaxInflight` members.
* There is one lemma for each kind of step (`PeerFrameIInv`, `StartIInv`,
  `ReaderIInv`, `ShutdownIInv`, `ActiveIInv`, `DeleteIInv`, `ReleaseIInv`,
  `OtherIInv`), over a lemma for typing and one for steps that touch neither table
  nor slots.

On top of it, in the second half of the module:

* `ImplementsSessions`, that every behaviour of `WsServer` is one of `RpcSessions`.
  The mapping reads the phase of a session off its goroutine's program counter.
  `AnswersCorrect` proves `AnswerLocals`, which relates what a goroutine still has
  to send to what it has sent: with it a step is classified as silent, as
  queueing a frame or as leaving, and each class maps to a step of the service or
  to a stutter.
* `MessagesCorrect` proves `MessageInv`, and from it `RequestsWhole`,
  `MessagesInOrder`, `RepliesCorrect` and `NotFoundIsLast`.  Messages of a session
  are numbered; what its handler has got, then what its channel holds, then the
  one the read loop has in hand ascend, so each move along that way keeps the
  order whatever is dropped (`TakenIsMoved`, `PutAtTheEnd`).  `DeliveredInOrder` has a
  second half, about steps: a message that the read loop has in hand for a session
  goes into its channel unless that is full at that moment (`RouteDelivers`).  The
  state half alone is `KeptInOrder`.  A handler with one
  request runs only after `recvExactlyOne` and the look for a second message, and
  `MessageLocals` says what it has got at each of these points.
* `AnswersCorrectly` proves `AnswersRequest`: such a handler answers only when it
  has run on the one message it was sent.  What the client may conclude from an
  answer rests on it.

### Client

`WsClientProofs`: `Invariance`, and from it `TypeCorrect`, `ClosedRecvChSafe`,
`TableIsExact`, `EndReleasesWaiters`, `NothingDropped` and the action property
`OutcomeIsFinal`.  The read loop sends on a receive channel it looked up earlier,
without the lock; what makes that safe is that the closer waits for the end of
the loops (`LoopsBeforeCloser`) and that the frame in hand is of a call that was
made (`HeldFrames`).  `Outcomes` and `IdleCalls` say which calls are over and which
not begun, for the table.  For `DeliveredWithoutGap` the frames a call has taken,
those in its channel and the one in hand are one sequence without a gap, and as
long as the call is in the table it has all that was sent.

### Client and server together

`WsSystemProofs`: `ConnectionInvariant` and `CallsImplemented`, that every behaviour of
`WsSystem` is one of `RemoteCalls`.

* Every step of the system is a step or a stutter of each end (`BothStep`), so the
  theorems of both ends hold in the system as they are; nothing of them is proved
  again.
* `OpensOnce`: the open frame of a call is in one place at most - what the caller
  has still to queue, the write channel, the write loop, the network, the server's
  read loop - and once it is gone from all of them the call has at most one
  session.  This is why a call is carried out at most once.
* `MessagesAnswered`: a message that is on its way to a call, wherever, was
  answered by that call's own handler, which by `AnswersRequest` had run on the
  whole request.  This is why a caller learns of success only then.
* Each action then maps to a step of `RemoteCalls` or to a stutter: what only moves
  frames changes neither what callers know nor what is done.  The proof needed
  `Status` and `Work` to be functions of the state: as `CASE` expressions their guards
  overlapped, and they are now written as alternatives in order.

`WsFramesProofs`: `FramesAreFaithful`, that a caller gets what its own session
answered, in order and without a gap.  The property says nothing of how frames get
there, so its inductive invariant, `FramesInv`, follows them from the caller to the
server and back:

* `OpenFirst`: a call queues its open frame before any other, and none of its
  frames overtakes it, in the write channel, in the write loop or on the network.
* `OpensHandled`: so once the server has read a frame of a call, the call has a
  session, is being given one, or is refused, unless the server goes away; and
  only a frame read later can be answered with `session_not_found`.
* `UnknownLast`: that answer follows the one that ended the call.  It rests on
  `NotFoundIsLast` of the server, which says so of the moment when the read loop
  decides; a session's terminal frame enters the write channel before the session
  leaves the table.
* `AnswersInOrder`: the frames in the network, the writer and the write channel can
  be numbered among the answers to their calls so that those of each call follow,
  one by one, what its client has read.  A writer that fails throws frames away,
  but then all that come later.  The number is a witness, not a variable: each
  move along the queues is shown to have a numbering (`NumbersTaken`, `NumbersKept`,
  `NumbersAdded`).
* `AnswersReach`: what the client has read is handed to the call under its number, and
  a call takes another frame only after a message.  With
  `DeliveredWithoutGap` of the client it gives the property: the error for an
  unknown session, which comes after the end, is never taken.

### Interceptors

`InterceptorsProofs`: `Invariance`, and from it `EachRequestOnce`, `ChainIsAnOnion`,
`OnlyMessagesOnWire` and `LookersAreTransparent`, for chains of any length.  `Received`
and `Sent` are folds over the wrappers; `ReceivedSteps` and `SentSteps` give them
step by step, and `ReceivedIs` and `SentIs` say what a message's trail looks like at
each wrapper.  `ChainOrder` has the calls in progress run down the chain, and
`HandedOut` the requests handed out once.  The refinement of `HandlerCall` needs
`OnlyLooking`: where a call stands whose interceptors only look on, and that what
each of them returns is what the handler returned.

### Configuration

`ConfigLoadProofs`: `Invariance`, and from it `SourcesInOrder`, `RequiredAreSet`,
`RestIsUntouched`, `NamesAreUnshared` and `FileIsMerged`.  `ArgsParsed` says what the
bootstrap parser has consumed at each argument, `SourcesApplied` which sources have
had their turn by the phase, and `PresenceJustified` why a required field counts as
set, the erased default included.  That pairwise checks suffice for any number of
fields (`TwoMessages`) is first-order.  `FileIsMerged` rests on there being something at the
path from the moment the parser has it, and on the invariant that after the file's
turn it was one message's, known and good (`SourcesApplied`).

### Command line

`CliRunnerProofs`: `TreeIsExact`, `ErrorsReported`, `RightMethodRuns`, `RequestsFromLines`
and `CommandsRunWhenAsked`, each from an inductive invariant that uses those before.

* `TreeInv` describes the tree during its construction.  For any service, what is
  below a node is below a group (`Closed`); for a well-formed one, the tree after
  *k* methods is the commands of these and the groups above them, whatever their
  order (`TreeOf`).  `InsertedTree` has the case of each kind of path, `BuiltTree` what
  pruning and the `schema` command make of the finished tree: each group has a
  command below it, found along the path (`Climb`).  `AllPaths` includes the word
  `schema` by name, because the provers do not know a text to be a `STRING`.
* `ReportInv` follows a Run from the first argument to the report: nothing is told
  before it, an error is one of the application's or the library's, and one that
  comes after the handler ran is what the handler returned.
* `LineInv` says how far a line has been interpreted.  Before the walk
  (`PreParsing`), what is kept are the arguments so far without the global flags and
  their values, and the next argument is not such a value.  During it (`Traversing`),
  what is left is the end of the local arguments from one on that is no value, and
  the node is the commands before it; at a leaf (`AtLeaf`) the node begins the
  commands of the line, and a leaf is at the path of its method (`LeavesInPlace`).
  That no argument is ever read in the wrong role is what makes this inductive:
  `OverNoWord`, `OverValue` and `OverWord` have the three ways in which the walk goes
  on.  The sets and lists it speaks of are recursive functions of the line, which
  `ValuesAre` and `KeptIs` reduce to one fact per argument.
* `RequestInv` says what the variables of flags hold.  `RequestFromLine` compares a
  request with all the texts given for a field, over the whole line and all lines
  before it; the invariant needs the same of every prefix: what is held after so many
  arguments is what the texts among them make (`Held`), and each flag taken adds one
  (`HeldGrows`).  For the group (`GroupInv`) these texts come after those of the earlier
  lines.  That the rest of the line adds nothing (`HeldEnd`) holds because the
  commands only get more (`CommandsGrow`), so that no later flag stands at the depth of
  the group.  It speaks of plain lines, of words and inline flags, where no flag has
  used up a word, and of a group that is one: a command may be where the group is,
  and then its own flags are parsed there.  At the leaf (`LeafInv`) all that can follow
  are flags, so at the call none is left over (`AllTaken`); a request from elsewhere
  requires that nothing followed, hence that the node is all the commands
  (`WholeLine`).  `StreamInv` has the line that `Receive` takes next.
* `AskInv` says that nothing fails on the way of a line that asks for a command:
  `OnTheWay` has, for each phase, what the global flags hold, that the walk is at a
  group above the command with a flag of its own or a word of the path before it
  (`OnItsPath`), that at the leaf only its own flags follow (`AtItsPath`), and that what
  a flag took decodes (`TakesIs`).  `TreeExact` gives the nodes of the path; that an
  enum's values do not collide makes the one a text names the one that `EnumValue.Set`
  finds.  `RightMethod` says that no other method runs, `CommandsRun` that this one does.

### Lemmas

`SequenceLemmas` has what channels do to sequences, prefixes, and two facts by
induction.  The library's induction rules are out of reach (they take an operator
as a parameter), but the least element of a set of naturals is a theorem over
sets: `Climb` derives from it that a set with 0 and with each number the next has
all of them up to *n*, and `FoldExists`, `FoldValues` and `StepsExist` that the folds
of the community modules and functions recursive on the naturals have the values
their recursion says.

## What is only model-checked

* Liveness, which is out of the prover's reach: `ShutdownCompletes`,
  `ClosedSessionEnds`, `ReaderNotStuck`, `PendingCallsEnd`, `CallsReturn`,
  `CloseReleasesHandler`.
* The five findings, which are violations: counterexamples on the instances of their
  runs.

Every invariant and every action property of a passing run has a theorem.

## Findings

* `client_late_call`: a call made after the end of the connection may pick the
  free write channel over `done`, and then waits on a receive channel that is in
  no table (`client.go:101`).  A comment in the integration test says such a call
  returns an error promptly.
* `client_overrun`: a server stream closed while the read loop is blocked on its
  full channel blocks the read loop for ever, also when the connection is gone
  (`client.go:138`), against the comment on the loops' life.
* `ws_send`: when the handler of a client stream returns without reading its
  requests, the server answers each later message with an error frame
  (`server.go:502`).  Nobody reads them at the client before `CloseAndReceive`: its read
  loop blocks (`client.go:139`), then the server's writer, the server's read loop, the
  client's writer, and `Send`, with every other call of the connection.
  `TODO.md:257` has `Send` transmit messages.
* `config_embedded`: a struct that embeds exactly one configuration message is
  taken for the message, and its pointer is never allocated (`load.go:124`), though
  the comment at `load.go:13` allows one or more.
* `cli_json`: flags of a group are parsed before the command's body looks at
  `--json` (`cli.go:402`), and dropped without a word: the command runs on the JSON
  alone.  `docs/done.md:68` has `--json` together with flags fail.

Behaviour that the properties name as exceptions, because it is what the code
does: a null in the file erases the default of a required field but not its mark
of presence (`RequiredHaveValues`); an empty `--config=` counts as not given
(`Specified`); a server drops messages beyond a full receive channel
(`DeliveredInOrder`); shutdown looks like a half-close to a handler
(`RunsOnWholeRequest`); a positional word after a command hides the flags behind it
(`RunOnFlags`); flags of a group keep their values from one Run to the next, and a text that does not decode makes
every later Run of that group fail (`CommandsRun`); errors of the scan for global
flags are neither mapped nor written as JSON (`FailUnmapped`, the case of `Reported` in which
there is no status to print); of an enum with
colliding names in a nested or imported message no value is accepted (`CommandsRun`);
command paths that are prefixes of each other, or differ only in where dashes are,
make the generator panic, lose commands or write what does not compile, so
`TreeExact` and `CommandsRun` speak of well-formed services.  `ProcOptions.hidden` is read
(`options.go:101`) and applied to no command.  A bidirectional stream has no way to
abort: a cancelled caller tells the server nothing (`client_stream.go:112`).

## What is not modelled

* Encodings, formatting, help and schema texts, and which texts the parsers of
  values take: no state, and the properties tell only good texts from bad ones.
* Messages and causes of errors; the mapping of codes to frames and to Connect's.
* On the command line: flags with one dash, the schema of a procedure given by its
  name, a group's flags for a service at the root, several services in one file,
  and Go that does not compile for other reasons than a variable declared twice
  or a bound field of another type.
* Generated registrations and clients: text that calls what is modelled.
* Connect's transport below the handlers: connect-go's.
* The WebSocket library: a connection delivers frames in order until it fails.
* Concurrent use that the interfaces exclude: two `Receive` calls on one stream, an
  interceptor that calls `next` from several goroutines, a handler that leaves a
  goroutine sending behind.

## Plan

Done: all modules, runs and theorems above.  What is left:

1. `camelToUpperSnake` and the other names the generator derives, as functions on
   sequences of letters.
2. The parts of the command line named in the previous section, single-dash flags
   first.
