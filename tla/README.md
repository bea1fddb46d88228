# Verification of ai-server-shell

TLA+ modules for the concurrent and the error-prone parts of ai-server-shell, a Go
library that puts protocol-compatible HTTP, SSE and WebSocket front ends before an
application's own backend. Paths below are relative to the repository root. Each
definition that stands for code names its lines in `PROJECT.json` under `map`.

## 1. Inventory

The shell is a library: the application owns the listener, the backend and the process.
Requests run one goroutine each; a WebSocket connection has three.

| Part | State | Operations | Talks to | Correct when |
|---|---|---|---|---|
| Session table (`openai/internal/websocket/handler.go`) | `shuttingDown`, `nextSession`, `active`, `shutdownDone`, `shutdownOnce`, one mutex | `register`, `unregister`, `Shutdown` | every connection, every Shutdown caller | nil means nobody is left; the channel is closed once and never missed; whoever remains has been cancelled |
| Connection handler (same file) | per connection: context, session, connection, `errorsChannel`, two loops | `ServeHTTP`, `readLoop`, `writeLoop`, `closeAll` | table, codec, `Services.SessionFor`, session, peer | a session is closed exactly once; Close never overlaps an uncancelled Handle; shutdown drains; no goroutine leaks; close codes are earned |
| Event codec (same file, `profile.EventAllowed`) | none | `decodeEvent`, `encodeEvent`, `eventAllowed`, `closeReason` | both loops | only profiled events pass; types, IDs and members survive |
| REST handler (`openai/internal/rest`) | per request: body, result, response writer; the error values of the application | `ServeHTTP`, `validationRoute`, `parameters`, `safeHeaders`, `copySafeHeaders`, `writeSSE`, `writeErrorStatus`, `closeResponse` | router, validator, `Services.HandlerFor`, backend | the whole body reaches the backend; one answer, whose status and envelope agree; everything handed over is released once; a stream ends with its context or its producer, and a client reads the events that were sent |
| Aggregate server (`server.go`) | mounted handlers, mux | `New`, `WithHandler`, `Shutdown` | the handlers' own `Shutdown` | construction refuses what would panic; every handler is stopped whatever the others return |
| Service registry (`backend/services.go`) | default, per-capability and per-surface tables | `NewServices`, options, `HandlerFor`, `SessionFor` | both handlers | lookups do not depend on the order of options; a bad list yields no registry |
| Operation routing (`openai/internal/profile`) | frozen table | `OperationForRoute` | REST handler | the most specific operation for a method, path and query, validated by its own schema |
| Profile tables (`openai/internal/profile`) | document, operations by ID and event set, each built by its first user under a `sync.Once` | `SpecJSON`, `OperationByID`, `EventAllowed` | every request | a lookup gives what the document says, whoever builds the table |
| Schema normalisation (`openai/internal/profile`) | none | `RouterSpecJSON`, `normalizeRouterSchemas` | validator | accepts what the frozen schema accepts |
| OpenAI handler, options, credentials (`openai/`) | configuration | `New`, options, `ServeHTTP`, credential extraction | REST and WebSocket handlers | options are checked; each request reaches one of the two handlers |
| Generator (`internal/cmd/openai-gen`) | the operations collected so far; three output files | `collectOperations`, `collectEvents`, `validateEvidence`, `render`, the three writes | writes the tables the shell is compiled with | the files are determined by the document alone, belong together, and lack nothing a lookup needs |

Behaviours that are hard to test: a request registering while Shutdown takes its snapshot
of cancel functions; two Shutdown calls and the last `unregister` all wanting to close one
channel; both loops failing at once; `session.Close` overlapping `session.Handle`; a
`Handle` that outlives the two-second wait; the upgrade failing after the session was
opened; a stream whose producer, client or context stops first; the first requests of a
process building its tables; requests answering with one error value; Go maps walked in any
order; a generator that stops between two files; limits and integers at their largest
value. `PROJECT.json` lists them under `hazards`, each at its line with the
properties that watch it.

## 2. Modules

```
ShutdownContract            what a Shutdown promises
   ^ implemented by                           ^ assumed of every mounted handler,
   |                                          | implemented by the server
WsRegistry <-- WsRegistryProofs               AggregateServer <-- AggregateServerProofs
   ^ extended and implemented by              (both <-- MCShutdown)
WsHandler  <-- WsHandlerProofs, MCWsHandler
   |       -- implements --> SessionContract
   | extends
EventCodec <-- MCEventCodec <-- EventCodecProofs
                   ^ extended by             RestHandler, RestEnvelope <-- MCRest,
RouterSchema, EventStream <-- MCConversions                 RestHandlerProofs

Services <-- extended by -- OpenAIHandler <-- MCOpenAIHandler, OpenAIHandlerProofs

Generator, SharedState <-- composed by -- ProfileLifecycle <-- MCProfileLifecycle,
                                                               ProfileLifecycleProofs

OrderLemmas                 extremes of sets of naturals, sorting, flattening; used by
                            EventCodecProofs, OpenAIHandlerProofs and
                            ProfileLifecycleProofs
```

**ShutdownContract** is the abstract specification: a handler admits requests, may tell any
running one to stop, and each caller of Shutdown gets a verdict. An error may only be given
when all that still run were told to stop, a nil only when nothing runs, and no verdict
while requests are still admitted.

**WsRegistry** is the session table. One action per critical section: `Register`/`Refuse`,
`Unregister` (with the `cancel` deferred before it), `BeginShutdown` (flag, snapshot,
possibly the close), then `CallCancel` for one function of the snapshot at a time in any
order (a Go map has none), and the two outcomes of the final `select`. `cancelled` is the
set of connections whose context has ended, from whatever cause; `doneCloses` counts closes
of `shutdownDone`, so that a second one, a panic in Go, can be seen.

**WsHandler** adds one `ServeHTTP` goroutine per request (`pc`) and its two loops (`rpc`,
`wpc`). `closeAll` is three actions, because the loops run between `cancel()`,
`closeSession` and `connection.Close`. `errorsChannel` is a sequence of at most two errors.
The two-second timer is the freedom of `Drain` to go on without an error. The library, the
peer and the backend are environment: a peer sends frames, closes or vanishes; a context
ending under a Read or Write brings the connection down without a close frame (`Abort`); a
frame above `SetReadLimit` makes the library close with 1009, and a close frame of the peer
is answered by the library with the peer's code before Read returns (`ReadClose`). The
request's own context may be cancelled or run out of time (`timedOut`), so that `ctx.Err()`
is `Canceled` or `DeadlineExceeded` (`CtxErr`), of which `closeReason` makes 1000 and 1011.
`Handle` may return nil or any error, or never return; `Events()` may be closed at any time. `OpenSession` may return an error and a
session together, a case the code handles.

**SessionContract** is the other abstract specification: what an application's Session and
the client see of a connection. What the client sends is taken for the session one frame at
a time, in order and without a gap, with no second call of `Handle` before the first has
returned; what the session produces is shown to the client likewise. The session is closed
once before the request is over, never while a call of `Handle` has a live context, and what
is taken after that is taken with a context that has ended. It knows no goroutine, channel,
close frame or profile. In WsHandler its state is a view: `DataOf(sent)`, `DataOf(handled)`,
`TypesOf(taken)`, `TypesOf(wire)`, the requests whose read loop is in Handle, and so on.

**EventCodec** reduces a JSON document to its shape (object, null, other, not JSON), its
`type`, its `event_id` and one integer member the shell knows nothing of. Re-marshalling
through `map[string]any` is modelled by what it does to that integer: rounding to the
nearest float with `MantissaBits` bits of significand, ties to even (`Float64`).

**RestHandler** is one request through authentication, the bounded read, routing,
validation, dispatch, `Handle` and the five ways to respond, with the context and the
stream's producer running beside it. `MaxBodyBytes+1` is computed with wrap-around
at `MaxInt`, the largest int64 (`Wrap`). Handle may return a result beside an error
(`failed`); ServeHTTP answers the error before it defers `closeResponse`, and leaves the
result alone. `io.Copy` of a body begins with `RespondBody` and ends with `CopyEnds`, or
never, because its Read is the backend's. An event received by `writeSSE` is counted in
`taken`, and in `wire` once both buffers are flushed.

**RestEnvelope** is what goes with the body: `parameters` and `safeHeaders` on the way in,
and on the way out the headers of the answer, which ServeHTTP, `copySafeHeaders`, `writeSSE`
and `writeErrorStatus` put together in turn. A header map is a sequence of values for each
canonical name, so that `Set` replaces and `Add` appends; the backend's metadata is a map
whose keys carry a spelling, and `copySafeHeaders` is one action per key, in any order. Of
the control flow only the steps that touch these maps are kept; RestHandler has it in full.
**MCRest** checks both in one run: neither reads the other's state, so a behaviour follows
one of them.

**AggregateServer** applies options one by one, builds the mux, and shuts handlers down in
mounting order. A handler is what ShutdownContract says, no more: it may give up with an
error at any time once it has told its requests to stop. Requests come and go in all of them
meanwhile. A handler may be mounted twice and is then shut down twice. `ServerContract` is
the view of the server from outside, as one more handler: it admits as long as one of its
handlers with a lifecycle does, runs what they run, and its verdict is the joined one.
**MCShutdown** checks the table and the server in one run; a behaviour follows one of them.

**Services** applies a list of options and answers lookups.

**OpenAIHandler** composes the registry with the front door: `NewHandler` applies its
options to settings, then one request passes the base path, `Authenticate`, the split
between WebSocket and REST, and `SessionFor`, or the router, `OperationForRoute` and
`HandlerFor`. Paths are sequences of segments, so that the prefix test with its trailing
slash is a prefix of sequences, and `path.Clean` is a recursive function over the
segments. The loop of
`OperationForRoute` is its result: the first satisfied query variant in table order, else
the last plain entry. The schema a request is validated against is that of the operation
found so, not that of the route the router matched (`validationRoute`). Its outcome is
where the request goes; what happens there is in RestHandler and WsHandler.

**RouterSchema** has JSON values as pairs of a kind and a content, and
`normalizeRouterSchemas` as a recursion that rewrites an object before its members. Its
reference is `Readable` and `Accepts`: what the two versions of the validator library can
read, and which values they accept. The module has RECURSIVE operators and is for TLC alone.

**EventStream** is the framing of `writeSSE` over texts in which only CR and LF are told
apart. Its reference is `Parse`, a client's parser as the format of server-sent events
prescribes it: lines end with CR, LF or both.

**Generator** is one run of the command: `Visit` takes the next entry of the document's
maps, any one, with the media types in any order; a method counts under any spelling
(`Lower`, then `Upper`), so that two entries may compare equal. `Collected`, `ReadEvents` and
`Validate` are the sort and the checks; the events are collected anew, from the map in any
order, wherever the code does so (`EventLists`); then three writes, each of which may stop half way. `Killed` stands for
every other exit through `fatalf` and for a signal. `RunAgain` starts over with other
inputs, which finds the files the earlier run left. The text of a file is abstracted to
the records it lists; path prefixes, templates and the byte order of strings are constants.
`Sortings` is what package sort promises, the permutations in order, of which an unstable
sort may leave any, and not an algorithm; `Sort` is its one result where equal elements are
the same. `written`, and the document kept beside the rendered tables, are history.

**SharedState** is what the requests of one process share. A table is built entry by entry
by the first caller of its `once.Do`, and others wait. A `*backend.Error` that the
application returns to several requests has its empty fields filled in without a lock. That
is a data race: a Go string is two words, a pointer and a length, stored in either order
and tested for emptiness by the length, so that a request may meet a string with a length
and no pointer, whose encoding faults (`Torn`, outcome `fault`).

**ProfileLifecycle** composes the two: the generator leaves files behind, `Deploy` compiles
a process with the tables if the source file is whole, and requests look up operations,
events and the document.

Operators whose names say what is wrong with them (`RegisterWithoutCheck`,
`AbandonLeaking`, `ReadBodyUpToLimit`, ...) stand before the definition they vary. They are
deliberately faulty: putting one in the place of the real definition must make TLC report
the property named for it in `PROJECT.json` under `mutants`. No specification uses them,
with one exception: `ReturnExpired` is `ReturnExpiredEarly` with the missing guard added.

## 3. Runs

| Run | Config | What it shows |
|---|---|---|
| shutdown | `MCShutdown.cfg` | three requests, two Shutdown calls: all table properties, and that the table implements the Shutdown contract; the aggregate server: construction, sequential shutdown with handlers that fail, that it keeps the contract as a whole, and that its Shutdown returns |
| handler | `MCWsHandler.cfg` | one connection, every failure of setup, loops, peer and backend, a context that is cancelled or runs out of time, one Shutdown call: sessions closed once, Handle never overlaps Close uncancelled, quiescence after nil, earned close codes, silence only after an abort, profile boundary, the inductive invariant, refinement of the table and of the session contract |
| handler_live | `MCWsHandlerLive.cfg` | after Shutdown is called ServeHTTP and the call return, even if Handle never does; the loops end too, unless Handle never returns |
| handler_busy_after_nil | `MCWsHandlerBusy.cfg` | **violated**: finding 1 |
| conversions | `MCConversions.cfg` | every small frame and backend event, schema and stream: what is read back is what was meant |
| codec_null_payload, codec_precision | `MCEventCodecPanic.cfg`, `MCEventCodecPrecision.cfg` | **violated**: findings 2 and 3 |
| rest | `MCRest.cfg` | one request, all outcomes, with liveness of streams; what the backend can read back from its maps of parameters and headers; which headers the client sees, whatever the backend's metadata and the order it is copied in |
| rest_stream_leak | `RestHandlerStream.cfg` | **violated**: finding 4 |
| rest_path_hidden | `RestEnvelopePath.cfg` | **violated**: finding 5 |
| profile | `MCProfileLifecycle.cfg` | the generator on sound and flawed documents, twice, with failing writes; a process compiled with the result; three requests that build and read its tables and answer with one error value |
| openai | `MCOpenAIHandler.cfg` | all lists of service options in all orders, handler options, and one request: who is asked, for what, on whose behalf |

Deadlock checking is off throughout: requests, calls, frames and events are finite in every
instance, so all behaviours end; that nothing waits for ever is stated by the liveness
properties instead.

### Bounds

* `Conns`, `Callers`: three requests and two callers let one request leave, one be refused
  and one drain while two Shutdown calls overlap. The theorems hold for any sets. The
  handler's instances use one connection, since connections meet only in the table, and
  WsHandlerProofs shows for any number that the handler implements the table.
* `MaxFrames`, `MaxEvents` (WsHandler): two, so that a good one is followed by an offending
  one and both loops are busy; one in the liveness runs, where only the presence of traffic
  matters. A frame or event is one of the profile or one of the other direction; the other
  reasons to refuse one end the loop in the same way and are in the `conversions` run. `MaxEvents` of RestHandler: two, one flushed and one in the buffer.
* `MantissaBits = 3`, `MaxExtra = 24`: integers up to three times 2^3 contain exact values,
  values rounded down and up, and ties, as 2^53 does for float64.
* `MaxInt = 7`: limits below, at and above body sizes, all below 7 (see the
  observations).
* `MaxOptions = 3`: a conflict or an error may come first, last or between others.
* `MaxSettings = 2`: one option overrides another of its kind, or a good one precedes a
  bad one. The profile has one plain operation, its query variant and one of another
  capability, in two orders; requests repeat query keys, carry several credentials, use the
  variant's path literally, and leave the base path. Implementations are symmetric.
* Schemas: leaves of each type, nullable, enumerated and bounded; anyOf of two of them,
  nested once; objects whose three properties are named `type`, `required` and `anyOf`, with
  up to three required names, repeated or not. Exclusive bounds are booleans beside a numeric
  bound, as in the frozen document. Values: six scalars, and objects over the same names.
* Streams: one event with IDs and types of up to two characters and data of up to four, out
  of a letter, CR and LF; or two events, since the client keeps an ID and must not merge
  them.
* Documents: a sound one with an ignored method, one that spells a method in two ways on one
  path, six with one flaw each (duplicate ID, missing exception, no ID, no capability, no
  transport, wrong size), of three operations on two paths (the pinned 288 and 182, as constants). `MaxRuns = 2`: a run meets the files of
  another. Three requests: one builds, one waits, one comes late; they are symmetric.
* RestEnvelope: two path and two query parameters of which one name is shared, up to two
  values each out of two; responses with up to two keys of metadata, out of two spellings of
  names the shell sets itself, drops and passes on. A behaviour of MCRest varies the request
  or the response, since the two halves of RestEnvelope share no state.
* `Statuses`: zero, one on each side of 100..599, an informational, a success and an error.

### Fairness

`FairSpec` of WsHandler assumes weak fairness of each goroutine's own steps (the Go
scheduler is preemptive; steps wait only for channels and the mutex), of the library
bringing a connection down once its context has ended, and of external calls other than
`session.Handle`: Authenticate and OpenSession receive the context, Accept and Close are
bounded by the library, `closeSession` gives Close a two-second context. The receive of
events is not fair, so a backend may fall silent. A `select` with several ready cases is a
nondeterministic choice, and weak fairness of `WriteStep` requires that the write loop does
not prefer events to a cancelled context for ever: Go picks ready cases at random.
Nothing is assumed of `Handle`; `NoGoroutineLeak` names a Handle that never returns as the
only excuse for a goroutine that stays.

`Fairness` of RestHandler makes the same assumptions of one request, with Handle returning
once its context has ended. The Read of a backend's body is not assumed to return (`CopyEnds`
is not fair): `EndedRequestReturns` names a copy that never ends as the only excuse.
`Fairness` of AggregateServer assumes that Shutdown keeps walking, that the handler it waits
for goes on cancelling and returns once nothing runs there, and that requests told to stop
leave, which `ShutdownDrains` shows of the WebSocket handler. No handler has to give up.

## 4. Proofs

Checked by TLAPS for every value of the constants that the named ASSUMEs of the modules
admit: all sets of requests and callers, frames, events, limits, tables, documents and
bounds. TLC evaluates the assumptions in the runs, and has checked every inductive invariant
below on the instances before it was proved. Type correctness of WsHandler, RestHandler and
OpenAIHandler is a theorem only (`WsTypeCorrect`, `RestTypeCorrect`, `OpenAITypeCorrect`);
`RegIndInv` and `PhaseInv`, which runs check, contain what types their proofs need, and
`RegIndInv` contains `DoneClosedOnce`.

**Session table** (`WsRegistryProofs`). None of the properties is inductive alone. That a
nil means quiescence needs that a closed channel means shutting down with nobody live
(`DoneMeansDrained`), which needs the flag to stop `Register`; that closing happens with
nobody live needs the table to be exact (`TableMatchesLive`), because the code looks at
`len(h.active)`; exactness needs keys to be fresh (`KeysIssued`, and `active` within
`1..nextSession` from the type invariant). That a returning call leaves nobody uncancelled
needs that each call's outstanding snapshot covers whoever is live and not cancelled
(`CallersCover`), which survives because nobody registers after the flag. Their conjunction
is `RegIndInv`. Theorems: `TypeCorrect`, `IndInvHolds`, `DoneClosedOnceHolds`,
`NoLostWakeupHolds`, `NilMeansQuiescentHolds`, `ReturnMeansCancelledHolds`,
`TableMatchesLiveHolds`, and `RegistryImplementsContract`, the refinement of
ShutdownContract. They use no assumption.

**Connection handler** (`WsHandlerProofs`). `HandlerImplementsRegistry`: every step of the
handler is a step of the table or leaves it alone, so all theorems above hold of the whole
handler. `PhaseInv` records for each phase of ServeHTTP what it still owes: a live table
entry, a session not yet closed, a connection, running loops, a cancelled context. It is
inductive together with the table's type invariant and yields `SessionClosedOnceHolds` and
`HandleDuringCloseHolds`; with the table's quiescence it yields `ShutdownIsQuiescentHolds`.

**Its loops** (same module). `LoopInv` ties each loop to what it has passed on: the read
loop has handed over a prefix of the frames and may have ended on the next (`Reader`), the
write loop likewise with events (`Writer`); an error in `errorsChannel`, or received from it,
is that of a loop that has returned (`Channel`); a connection that is down went down with a
close frame, by the peer, or in the middle of a Read or Write whose context had ended, and
a loop that reports a deadline or a cancellation of its own reports what ended the context
(`Ending`, with `Clocked` for the last). It is inductive given `PhaseInv`. From it follow `WsTypeCorrect` (the channel
never needs a third slot), `CloseCodeIsJustifiedHolds`, `SilentCloseIsAnAbortHolds` and
`ProfileBoundaryHolds`. They use `HandlerAssumption`, of which one part is a restriction: no
event makes the codec panic (finding 2).

**Its session contract** (same module). `HandlerKeepsSessionContract` is the refinement of
SessionContract: a step of ServeHTTP opens, closes or leaves a session or ends its context
(`ServeStepsSession`), one of the read loop takes the next frame or returns from Handle
(`ReadStepsSession`), one of the write loop takes an event or shows the next
(`WriteStepsSession`), the environment gives a frame or ends a context, Shutdown ends
contexts; everything else is not seen. It needs `Reader` and `Writer` for "the next one",
`PhaseInv` for the order of cancel, Close and return, and that a loop runs only for a session
(`LoopsHaveSession`). The contract allows a call of Handle after Close, with an ended
context, because the handler does: a read loop that has its frame before `closeAll` may call
Handle after it.

**Event codec** (`EventCodecProofs`). `DeliveryIsProfiledHolds` and `WireRoundTripHolds`, for
any events, IDs, profile, width of the significand and range of integers, of the codec alone
(`CodecSpec`, the part of the `conversions` run that concerns it). The second is about
rounding: what `Float64` returns is representable (`RepresentableIs`) and no representable
number is nearer to the integer it was given (`NearestMultiple`, `Float64IsNearest`). The
powers of two in it have no induction to rest on; they are counted instead, as the number of
subsets of `1..n` (`PowerFacts`). Assumed are `CodecAssumption` (the marks for blank, absent
and ill-typed members are no types or IDs) and `ExtraAssumption` (`MaxExtra` is a natural).

**REST handler** (`RestHandlerProofs`). `RestIndInv` says for each place of ServeHTTP what
holds there: the whole body has been read from the routing on (`BodyPhase`), nothing is
answered or released before there is a result (`ResultPhase`), a stream is served as it was
asked for and at most one event is in the buffers (`StreamPhase`), and at the end the answer
stands and only the body is left to close (`LastPhase`); a request whose Handle failed is over
and has released nothing. Theorems: `RestTypeCorrect`,
`AnsweredOnceAsChosenHolds`, `ResultReleasedOnceHolds`, `NothingBufferedHolds`, and
`BackendSeesWholeBodyHolds`, which excludes the largest limit, where `MaxBodyBytes+1` wraps
around: there the property is false (see the observations).

**REST parameters and headers** (same module). `EnvelopeInv`: the backend's maps are those
`parameters` and `safeHeaders` make, every key `copySafeHeaders` has visited is in the
answer's headers with all its values (`CopiedSoFar`), and the labels are right. That a later
key with the same name leaves an earlier one whole is `HoldsMore`. Theorems:
`BackendReadsTheRequestHolds`, `AnswerIsLabelledHolds`, `MetadataReachesClientHolds`, for any
parameters, header names, values and metadata (`EnvelopeAssumption`: the names the shell sets
are header names, and no media type is empty).

**Aggregate server** (`AggregateServerProofs`). `WalkInv`: every position the walk has passed
has a verdict, its handler admits nobody and has told all that run, and nothing runs there
after a nil; positions ahead have no verdict. Theorems: `ServerTypeCorrect`,
`EveryHandlerStoppedHolds`, and `ServerKeepsContractHolds`: the server, seen from outside, is
a behaviour of ShutdownContract. A step of one handler is a step of the whole or is not seen
(`RequestKeepsContract`, `WalkKeepsContract`); when the last handler with a lifecycle stops
admitting, so does the server (`CallKeepsContract`); and what it returns is what the contract
allows, because no handler was left out and no error lost (`ReturnKeepsContract`). A `Server`
can therefore be mounted in another one.

**Registry, options and routing** (`OpenAIHandlerProofs`). `RegistryInv`: as long as no
option has failed, every applied option is in its slot, and what a slot holds came with an
option; hence lookups follow from the set of options, in any order
(`LookupsFollowOptionsHolds`, and `RegistryFollowsOptions` of the registry alone).
`HandlerInv`: the authenticator in force is that of the last such option, the base path is
clean and not the root, and requests come only to a handler that was built. With them each
answer is right when it is given, and nothing it speaks of changes later (`Answers`):
`OpenAITypeCorrect`, `OnlyKnownCallersHolds`, `OperationIsMostSpecificHolds`,
`ServedByTheOneConfiguredHolds`. The two about operations use `ProfileAssumption`: IDs are
not empty, and no two entries share an ID, a method with a full path, or a method with a path
unless one of them is plain. The generated table (`profile.gen.go`) keeps to it, and the
generator refuses duplicate IDs.

**Generator, tables and shared error** (`ProfileLifecycleProofs`). `LifecycleInv` has four
parts.
* `RunInv`, of a run of the command: while it collects, the operations are those of the
  entries visited so far, matched one to one (`Collects`), which a permutation keeps; then
  sorted, where two spellings of a method may stand in either order; then with distinct IDs
  and events that do not repeat (`ListsOnce`), which is why their order is strict.
* `FilesInv`, of what is on disk: a file that is whole is canonical, and the tables were
  rendered from one document and inventory (`OutputGood`); no file is newer than the tables
  or the run; the files the run has got past are of this run and this document (`Passed`).
  The last is what makes a later write harmless to `FilesAgree`.
* `TableInv`, of the lookup tables: a table has one builder, a table that is done is
  complete and stays so, and what a request found is what the whole table says.
* `ErrorInv`, of the shared error: a field that has its length keeps it, a request that
  encodes has seen both lengths, and the status it chose is that of the kind the error ends
  up with. This is why a torn read can fault but never disagree.

Before `Deploy` nobody has asked for anything; after it the process has the tables of the
source file (`DeployInv`). Theorems: `LifecycleInvHolds`, `FilesAreCanonicalHolds`,
`FilesAgreeHolds`, `LookupsMatchSpecHolds`, `ErrorAnswersAgreeHolds`. They use
`GeneratorAssumption` (the byte order is injective and covers what is sorted; a document has
one entry for a path and a method, as a JSON object has one value for a key; media types and
surfaces are finitely many) and `LifecycleAssumption` (events are asked about with a
direction).

What would be an induction, that any sequence can be sorted, what `path.Clean` leaves and
what `FlattenSeq` contains, is argued from a least counterexample instead (`NatMin` in
`OrderLemmas`): the schemas of the library take an operator, which the provers cannot
instantiate.

Only model-checked: all liveness (fairness and ENABLED are outside the prover's reach), and
two conversions. `RouterCopyIsEquivalent` compares recursions over schemas of any depth, and
RouterSchema has RECURSIVE operators; `StreamEventsParse` compares a writer and a parser that
are both folds over texts of any length. Either would be an induction over data.

## 5. Findings

1. `handler_busy_after_nil`: the wait for the second loop is bounded by two seconds, so
   Shutdown returns nil while a session may still be inside `Handle`; the README says it
   waits for sessions to exit.
2. `codec_null_payload`: a backend event whose payload is the JSON `null` decodes to a nil
   map, and the assignment to it panics in a goroutine nobody recovers.
3. `codec_precision`: integers beyond the significand of a float64 are changed on the way
   to the client; the backend contract says raw JSON is preserved.
4. `rest_stream_leak`: a stream whose result has an invalid status is not closed.
5. `rest_path_hidden`: a query value replaces the path value of the same name in the one map
   the backend gets; the backend contract says that path and query values are preserved.

The quoted lines are in `PROJECT.json` under `findings`. The passing runs state what
remains true beside them: `ShutdownIsQuiescent` (ServeHTTP has returned, the session is
closed, Handle's context has ended), `WireRoundTrip` (a number comes out as the nearest
float64), `ResultReleasedOnce` (a stream is released except on that branch),
`BackendReadsTheRequest` (all of the query, and what of the path it does not hide). WsHandler assumes, in
`HandlerAssumption`, that no event makes the codec panic.

Observations that no run states:

* `MaxBodyBytes+1` wraps around for the largest int64, which `WithMaxBodyBytes` accepts: the
  backend then gets empty bodies. With 7 among `Limits` of `MCRest.cfg` TLC shows it as
  a violation of `BackendSeesWholeBody`.
* A `*backend.Error` with an empty field, returned to concurrent requests, is written to
  without a lock (SharedState). Answers that are completed agree (`ErrorAnswersAgree`); a
  request may fault instead, and the race detector would report it.
* `closeAll` cancels before it closes the connection, so the close code often does not reach
  the peer: on Shutdown a read loop that waits in Read is cut unless the close frame gets out
  first. `SilentCloseIsAnAbort` says that this is the only way for a peer that is still
  there to be told nothing.
* Data of a stream event with a CR inside a line is passed on, and a client ends the line
  there. `StreamEventsParse` excepts it; compact JSON has no such character.
* `session.Handle` may be called after `session.Close`, always with an ended context
  (`SessionContract`); `backend/realtime.go` asks of a Session that Close be idempotent and
  unblock Events, and is silent on this.
* An error that comes after `copySafeHeaders` (no flusher, response outside the profile) keeps
  the backend's metadata among its headers (RestEnvelope), a `Retry-After` included.
* A body or stream that a backend returns beside an error is not released by the shell:
  ServeHTTP returns before it defers `closeResponse` (`rest/handler.go:116-120`).
  `OpenSession`, which may do the same, has its session closed.
* `io.Copy` of a body does not look at the request's context, and the `Close` that might
  unblock its Read is deferred until it returns: a backend body that blocks keeps the request
  after the client has left.
* A document that spells a method in two ways on one path yields two operations with equal
  sort keys, and which comes first in the files depends on the order of Go's map. The pinned
  document has no such path.
* A request context that ends by a deadline closes the connection with 1011, one that is
  cancelled with 1000 (`CloseCodeIsJustified`).
* A WebSocket session gets the last value of a repeated query parameter
  (`websocket/handler.go:70-75`), a REST backend all of them (`BackendReadsTheRequest`).

## 6. Not modelled

* The copy of the body into `backend.Input`, and whether it counts as JSON; the query of an
  upgrade request. Wording of errors.
* A typed-nil `*backend.Error`.
* The bytes of the generated files, compression and digest of the document included.
* Concurrent `Shutdown` calls of the aggregate (WsRegistry has them for one handler).
* A panic in application code, and loss of the shell's process: nothing is persisted there.
* The router, the validator, `http.ServeMux` and the WebSocket library, beyond the outcomes
  the code distinguishes.
* Body decoders (registrations with the validator), test doubles, fixtures, examples.

## 7. Plan

1. An abstract specification of a table that is built once, which SharedState implements.
2. `StreamEventsParse` for texts of any length, by a least counterexample over the parser's
   state after each line.
