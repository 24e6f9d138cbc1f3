# TLA+ specifications of copilot-sdkapi

copilot-sdkapi is an HTTP gateway in Go that offers the OpenAI and Claude chat
protocols on top of the Copilot SDK and its CLI. This directory holds
specifications of its concurrent core, TLC configurations that check them on
small instances, and TLAPS proofs of what matters most for every instance. Line
numbers refer to the files under `src/`.

## The system

| Component | State | Operations | Talks to |
| --- | --- | --- | --- |
| session manager, `internal/session/manager.go` | map of session keys to entries; per entry a mutex, a session, a time of last use, a ready channel | `Acquire`, the lease's `Release` and `Discard`, `CleanupExpired`, `DisconnectContext`, `CloseContext`, `Lookup`, activity hooks | store, runtime provider |
| session store, `internal/session/store.go` | a JSON file of records by key | `Load`, `Save`, `Delete` | file system |
| runtime provider, `internal/runtime/copilot.go` | the CLI client | start, close, list models, create, resume and delete sessions | Copilot CLI |
| runtime session: `Send`, same file | the text, events and errors collected during one turn | `Send`, `ResolvePending`, `Close` | CLI events, bridge |
| interactive bridge, same file | pending requests by id, queues by kind, tool calls, the active context | `register*`, `forgetRequest`, `resolve`, `cancelAll`, `handlePermission`, `handleUserInput`, `awaitToolResult` | CLI callbacks, continuation endpoint |
| request handlers, `internal/httpapi/server.go` | one lease, one stream and one idle timer per request | chat completions, messages, models, health | manager, session, adapters |
| continuation endpoint, `internal/httpapi/interactive.go` | none | `POST /v1/copilot/respond` | manager's `Lookup` and `TouchActivity`, bridge's `resolve` |
| validation and permission policy, `server.go` | the temporary files of a request | permission modes, agents, providers, model capabilities, attachments; a session's specification and options | models of the CLI, file system, URLs |
| protocol adapters, `internal/compat` | none | parsing both protocols into one `ConversationRequest` | - |
| configuration, `internal/config/config.go`; API keys, `internal/auth/apikey.go` | constants of a process, other ones after a restart | `Load`; `AuthenticateRequest` | environment |
| usage log, embedded CLI stub | none | - | - |
| process, `cmd/copilot-sdkapi/main.go` | signal context | start, expiry loop, shutdown | HTTP server, manager, provider |

What is hard here:

- **The manager** has no big lock around an acquisition. It publishes a locked,
  half-made entry, talks to the store and to the CLI for as long as that takes,
  and meanwhile other requests queue on the entry, the janitor looks for entries
  to expire, a shutdown empties the map, a continuation looks a key up, and any
  step may fail. It is correct if a lease is always of an open session made for
  that very key and specification, if no path forgets a mutex or a waiter, if
  the limits count what is in the making, and if what is durable suffices to go
  on after a crash.
- **The bridge** matches two streams that carry no common identifier: the events
  that announce requests and the handler invocations that want their answers. It
  is correct if an answer reaches the request it was given to, at most one
  request of a kind is served at a time, a handler never blocks for good, and
  nothing of one `Send` is left to the next.
- **The handlers** tie the two together and decide, on each of many exits,
  whether a session is released or discarded.
- **A session outlives its request**, and its process. What a request asks of its
  session is compared with what an earlier one asked, by fingerprints, under settings
  that may be others by now. It is correct if a turn runs with what its own request
  asks for and the settings permit, and with all that the request says.

`PROJECT.json` lists each hazard at its line, with the properties that cover it
or the reason why none does yet.

## The modules

| Module | What it is |
| --- | --- |
| `SessionManager` | the session manager over its store and the upstream sessions |
| `SessionLease` | what the manager promises: exclusive leases on keys |
| `MCSessionManager` | instances of `SessionManager` for TLC, with symmetries |
| `SessionManagerProofs` | the inductive invariant, and the safety properties it implies |
| `SessionManagerRefinement` | `SessionManager` implements `SessionLease` |
| `SessionManagerCapacity` | the session limits |
| `InteractiveBridge` | the bridge of one session, with the part of `Send` that drives it |
| `MCInteractiveBridge` | instances of `InteractiveBridge` for TLC |
| `InteractiveBridgeProofs` | the bridge's invariants, whatever the CLI does, and what an orderly CLI can rely on |
| `FileStore` | the store of session records, system call by system call |
| `AtomicStore` | what the store promises: atomic operations that survive a crash |
| `MCFileStore` | an instance of `FileStore` for TLC |
| `FileStoreProofs` | `FileStore` implements `AtomicStore` |
| `SendTurn` | one call of `Send`: the caller, the RPC and the event callback |
| `Stream` | a turn that is streamed: `SendTurn` with the handler that writes its frames |
| `MCStream` | instances of `Stream` for TLC |
| `SendTurnProofs` | a turn that succeeds is whole, and so is the stream that shows it; no wake-up is lost |
| `Gateway` | the request handlers, the continuations and the process, over `SessionLease` |
| `GatewayProofs` | what a reused session contains, whom a continuation keeps alive, and that `Gateway` implements `SessionLease` |
| `Compat` | the protocol adapters: the bodies that are accepted and what they become |
| `Admission` | settings, the checks of a request, specifications and the options of sessions |
| `Requests` | a request from its body to its turn, through restarts with other settings |
| `MCRequests` | an instance of `Requests` for TLC: bodies, environments, models |
| `RequestsProofs` | a session is what the request that uses it asks for, and hears all that it says |

### SessionManager

A goroutine is a request handler in `Reqs`, a continuation in `Lookers`, the
expiry loop `Janitor`, or the shutdown sequence `Closer`. `pc`, `key`, `spec`
and `ent` are its control point, arguments and entry pointer. `sessions` is the
map, `heap` the entries by address, `owner` the holder of each entry's mutex,
`batch` the local list of entries that the sweep or the shutdown still has to
tear down, `aged` the entries the sweep has found expired, `store` the records,
`upstream` the CLI's sessions. An address is used again only when no goroutine
points to it.

Each action is one critical section of `Manager.mu`, one operation on an entry's
mutex, or one call of the store or the CLI, in the order of the code; an error
return is a disjunct of the action of the call that fails. `Acquire` is the path

    lookup -> wait -> recheck -> leased
    lookup -> load -> [dropExpired -> purgeExpired ->] [resume -> forget ->] create -> save -> leased

with `cleanup` for `cleanupEntry` and the deferred `markReady`. `Release`,
`Discard`, the two halves of `destroyPersistentSession` (shared by `Discard`, the
sweep and `CloseContext`), `Sweep*`, `EmptyMap` and the steps of `closeContext`
follow. The sweep is two steps, since `CleanupExpired` reads an entry's age and
then tries its mutex: it holds `Manager.mu` in between (`MuFree`), but the holder
of the entry does not need `Manager.mu` to let go of it.

The environment lets time pass, restarts the process at any moment, lets the CLI
forget a session nobody is connected to, and lets a create call whose caller
gave up take effect later. `Events` selects, per run, what of it may happen.

Abstractions:

- A `Spec` is a pair of what is persisted and of the secret fingerprint that is
  not; the code only compares specifications.
- The session id is the key (`server.go:453`); it is not stored in the entry
  again.
- Ages count ticks and saturate at the TTL. No time passes between the clock
  reading of `CleanupExpired` and its reading of the entries (288-293).
- A failing store call changes nothing. An upstream call that reports an error
  may or may not have taken effect by then; only a create may take effect later.
- Closing the handle of a session has no effect on the upstream session.
- A manager with a store is modelled, as `main.go:66` makes it.
- Ephemeral sessions are in no map and no store: their creation and their end
  are steps, their upstream session is left out.
- No request starts after the shutdown emptied the map: `main.go:90-93` shuts
  the HTTP server down first. Requests that outlive its deadline go on.
- `created` and the activity hooks are in `Gateway`.

### InteractiveBridge

`turn`, `phase`, `failed`, `active` and `done` are the current `Send`, where it is
among its deferred calls, and its context. `issued` and `announced` say which
requests the CLI has made and which the event subscription has seen. `pending`,
`place` and `calls` are `pendingByRequest`, the two queues (a request's place is the
number of events handled before its own) and `toolCallToRequest`; `channel` is each
request's one-slot response channel;
`handler`, `ctx` and `got` are the handler invocations; `posting` is a client
between the two halves of `resolve`.

A request and its invocation carry one name in the model, so that properties can
say whose answer was returned. The actions never use it to match them: a tool
handler finds its request by the call id, the others take the head of the queue.

Assumptions on the CLI and the SDK, which are not in the repository: request ids
are unique, an event is delivered once (a repetition while the request is pending
changes nothing modelled here), no event callback is running when `Send` has
unsubscribed, a tool request follows the completion of the permission for the
same call, and the CLI becomes idle when its handlers have returned. `Events` adds
what it may do besides: concurrent requests of a kind, events later than the 5 s
a handler looks for them, completions of requests whose handler still waits
("orphan"). The proofs admit all of it, the runs all but the last.

Whether answers reach their requests and handlers return depends on what the CLI does.
`Orderly` says what it takes: of two requests of a kind one is `Settled`, its event
handled, its handler returned and nothing pending. `OrderlyAnswersMatch` and
`HandlersReturn` have it as their assumption, so they are checked in the runs in which
the CLI may also break it.

### FileStore

A goroutine of `Procs` calls `Load`, `Save` or `Delete` (`Call`), takes the mutex
(`Lock`), reads the file and decides what to do (`Read`), and for a change creates,
writes, closes and renames the temporary file; `Finish` is what both `writeAllLocked`
and the three operations defer. `local` is the map in memory, `temp` the
goroutine's temporary file, `file` what is at the path. Any system call may fail;
the encoding's failure is `Create`'s. `Crash` ends the process at any step.

It assumes that one process uses the file, that a crash is one of the process (the
code does not `fsync`), and that a path is configured, as `main.go` does: without
one the three operations do nothing. `SessionManager` uses the store as one step
that may fail, which is what `AtomicStore` says.

### SendTurn

Three goroutines meet in one call of `Send`. `pc` is the caller: at one of its two
`select` statements, parked there, collecting the result, leaving or returned. `ready`
is what the selects can receive (`sendCh`, `errCh`, `idleCh`, each with room for
one, and the end of the context), `failure` the error in `errCh`, `cause` that of
the context. `rpc` is the goroutine that hands over the prompt. `callback` is where
the event callback is between its critical sections and its calls; `log` is what
has been delivered, and `contentBuf`, `finalText`, `runtimeEvents` and `firstErr`
name places in it.

A `select` that finds a case ready takes any of them; one that finds none parks,
and the first signal wakes it with that case. The difference matters: the callback
cancels the context before it reports the error, so a parked caller returns the
first and a caller that comes later may get either.

The result is made under `stateMu`, for which the callback may be waiting, and the caller
unsubscribes only after that, in a deferred call (647, 703-721). In between, `leaving`,
events go on to be handled: the result stands, but the stream still shows them.

Abstractions: a text is the set of events it comes from; usage and the text of the
reasoning are collected like the text and left out; events with empty text do nothing
and are left out; all events that are passed on as runtime events, but for pieces of
reasoning, are `notice`s. The deferred calls and the pending requests are in
`InteractiveBridge`. Events are delivered one at a time, which is the SDK's, until `Send`
has unsubscribed. `refused` is a history variable.

### Stream

`Stream` extends `SendTurn` with the handler of a streamed request of either protocol
(`server.go:540-729`). `stage` is before, in or after `Send`, `todo` the frames the handler
still has to write at this point, `out` what has been written, each frame with the place
in `log` of the event it is of, or 0 for a frame of the handler's own. `errorType` is what
the handler returns besides the status. The event handler that `SendTurn` leaves open is
`HandleEvent`: it writes the frames of the event one by one and fails with the first write
that fails, which is `Refuse`.

Any write may fail. Before and after `Send` that ends the stream, unless an error has
been reported already or it is the last frame of OpenAI's (`Forgiven`). Nothing joins the
callback when `Send` has unsubscribed, so the two go on to write to one response with no lock
between them: `callback` is not empty then, and `HandleEvent` may take place before, between
or after the frames of the end.

Abstractions: a frame is its name and its event; a write is all or nothing, and later ones
may succeed where one has failed; frames for usage are there, the numbers in them are not.
That a failure to set the deadline before the head has its own status is left out, and so is
the idle timer, which is in `Gateway`.

### Gateway

`pc` is where a request's handler is: `acquire` up to the return of
`Manager.Acquire`, `prepare` the rest of `prepareConversation`, `hook` and `head` of a
stream before `Send`, `turn` in `Send`, `tail` the writes after it, `clear` and `end`
the deferred calls, `destroy` and `purge` what a discard does after it has unmapped the
session: close it and delete its record, and delete what the CLI has of it. `created` is
`Lease.Created`, `failed` the variable `discarded`, `over` whether the context is over,
`clock` what `newIdleContext` shares between `touch` and its goroutine. `lease` and
`draining` are those of `SessionLease`, which the module instantiates; `mapped`, `record`,
`upstream` and `hook` are the map, the store, the CLI's sessions and the entries'
`activity`. `janitor` is the list of sessions that `CleanupExpired` has unmapped and has
yet to destroy. `cont` are the continuations, between the look-up, `ResolvePending` and
`TouchActivity`.

The question the module is for is what a handler may assume of a session it did not
create. It sends the whole conversation to a new session and only the last message to
one that is there (`server.go:485-493`), so every exit of every handler, in this
process or an earlier one, must leave either a session with all turns or none. It does
not always: `tainted`, a history variable, has the sessions that may lack a turn for a
reason that is known. There are five:

- a new session was released before its first turn, since an attachment failed;
- a request came while a discard or the sweep, which had unmapped the session, was still
  deleting: it resumes the session that failed from the record that is left, or makes a
  new one, whose record or session the deletions then take;
- a discard could delete neither the record nor the session;
- the process died while a request had the session or was discarding it;
- a creation whose caller had given up took effect later, when a record was left of the
  session before.

`LossesAreKnown` says that there is no other.

Abstractions:

- An acquisition and a release are one step each, as `SessionLease` has them: an
  acquisition stands at the point where it resumes or creates the session. Its steps are
  in `SessionManager`, with the race that `MCDestroyRace` shows. A discard and the sweep
  are three steps, in the order of the code: out of the map, record, CLI's session.
- A turn is one step to its end, preceded by events. That a failed `Send` is not
  taken for a success is in `SendTurn`.
- Of a session the model keeps whether the CLI has it and whether its turns are
  whole. A turn that is begun leaves it `open` until it succeeds; one that follows a
  missing or unfinished one leaves it `broken`.
- A creation may take effect late whenever the CLI has no session of the key, since
  there is no telling which requests have given one up. The CLI forgets only sessions
  that no entry is connected to and nobody is deleting.
- When a context is over, its timer is reset, as nobody looks at it any more; so are
  a handler's variables when it has unmapped its session.
- Both protocols share the model: their handlers differ in what they write. Requests
  without a session id, which have neither history nor hook, are left out.
- The hook is read and run in one step, and so are the timer's last look and the
  cancel.
- No request gets a session after the map was emptied: its context is over by then.
- A shutdown that gives up on its requests after 10 s is a `Crash`; `Exit` waits for
  the requests, but not for the janitor.

### Compat, Admission, Requests

`Compat` and `Admission` are operators, in the order of the code: `ParseOK` and
`Parse` for the two adapters, `LoadOK` and `Load` for the settings, `Admitted` for the
checks of `prepareConversation` up to `Acquire`, `Spec` for `session.Spec`, `Config` for what
`NewSession` and `ResumeSession` hand to the CLI. `Requests` is what happens to a
request: `Receive`, the outcomes of `Acquire` (`Reuse`, `Resume`, `Create`, two
conflicts, a failure), the images and the files of its message step by step, and its
end. `settings` are those of the process that runs, `sessions` the map, `record` the
specifications in the store, `upstream` what the CLI was last told about each session;
`held` is the lease, `images`, `files` and `dir` the message in the making: `dir` is the
temporary directory with its files, `dirs` all that are on disk. The handler that made
one removes it when it returns, and ignores the error of that; a stop runs no deferred
call, so it leaves the directory where it is (`LeftBehind`). `stray` is a history variable:
the directories that were left in these two ways. `Start` may
take any environment, so a session that was made under one is met under all others.

Abstractions:

- A body is decoded, its names trimmed and in lower case. The text of a message stands
  for all that is rendered into its turn; a prompt is the sequence of the texts in it. A
  field that an adapter may refuse for its mere presence is a member of `controls`.
- Which of several failing checks ends a request changes only the wording of the
  answer, so the checks are conjuncts.
- Fingerprints are what they are taken of.
- One request is in work at a time. What others could do to its session meanwhile is
  in `SessionManager`, what they leave behind is here; `Destroy` is expiry and whatever
  else ends a session that nobody has.
- A host is one of the trusted names, or a public or a private address; a URL of an
  image yields any of `Fetched` or fails.
- The overrides of the sections of the system message are in `Config`, but not in
  `Spec`, as in the code.

## The runs

| Run | Checks | Shows |
| --- | --- | --- |
| `MCLease` | `IInv`, `LeaseIsUsable`, `LeaseIsCurrent`, `NoAbandonedMutex`, `FreeEntryIsOpen`, `LeaseSpec` | Whether a lease is exclusive, current and of an open session when two requests, the janitor, a disconnecting shutdown and a crash meet on one key; that the inductive invariant of the proofs holds, and that the manager implements the abstract leases. |
| `MCDurable` | `LeaseIsRecorded`, `LeaseIsBacked`, `CapacityRespected` | Whether a leased key has its durable record and its upstream session across crashes, restarts, failing store and upstream calls, late creates and an upstream that forgets sessions, as long as nothing is destroyed in memory; and whether the limit of sessions holds when requests for two keys of one namespace race for the last place, with entries in the making and failing. |
| `MCProgress` | `AcquireReturns`, `LookupsReturn`, `ShutdownEnds` | Whether every Acquire and every Lookup returns although entries are replaced, discarded and closed while they wait, and whether the shutdown ends, although handlers may never let go of their entries. |
| `MCDestroyRace` (violation) | `LeaseIsBacked` | Discard unmaps an entry before it deletes the upstream session, so a request that acquires the key in between can have its own new session, of the same id, deleted under its lease. |
| `MCBridge` | `QueuesLeadToPending`, `OneServedPerKind`, `PendingIsOfThisSend`, `AcceptedAnswersStay`, `OrderlyAnswersMatch`, `HandlersReturn` | Whether the bridge's map, queues and tool-call index agree, concurrent requests of one kind are refused but for one, nothing is left over for the next Send and an accepted answer stays, with two permissions at once, a tool call and late events over two Sends; and whether, as long as the CLI keeps to one settled request of a kind at a time, answers reach their request and no handler blocks for good. |
| `MCBridgeMismatch` (violation) | `AnswersReachTheirRequest` | A handler takes the head of the queue of its kind: with two concurrent user-input requests, the handler of the second can return the answer a client gave to the first. |
| `MCFileStore` | `AtomicSpec`, `CallsReturn` | Whether concurrent Save, Delete and Load are atomic, system call by system call, when any of them fails or the process dies at any point, and whether each returns. |
| `MCStream` | `SuccessIsWhole`, `StreamIsWhole`, `LateFramesAreOfOneEvent`, `FailureEndsStream`, `IdleEndsStream` | Whether a turn that succeeds has all its text and events, and the stream that reports it shows them in order before its end, with nothing after that but the frame of one event, though events are handled until Send has unsubscribed; and whether errors, failed writes and the idle event end the stream, in whatever order the handler, the callback, the RPC, the context and the two selects meet. |
| `MCStreamReasoning` (violation) | `ReasoningIsMirrored` | Send passes a piece of reasoning on with no text of its own, which is what the OpenAI stream's delta.reasoning is made from: a stream that asks for reasoning never has one. |
| `MCGateway` | `IInv`, `LossesAreKnown`, `HooksFollowLeases`, `SilentStreamsEnd`, `StoppedRequestsEnd` | Whether a request that reuses a session finds every earlier turn in it, unless one of the known reasons applies; whether a continuation touches the stream that has the session and no other; and whether silent streams and cancelled requests give their sessions up though the CLI may answer no deletion, when two requests and a continuation share a key with discards and the sweep, step by step, late creations, a forgetting CLI, a shutdown and a crash. |
| `MCGatewayHistory` (violation) | `ReusedSessionIsWhole` | A request whose attachments fail releases the session it has just created; the next request takes it for one with history and sends only its last message. |
| `MCRequests` | `TypeOK`, `SessionIsAsAsked`, `ContinuedAsBegun`, `PermissionWithinSettings`, `AskersCanBeAnswered`, `AgentsAreKnown`, `NothingIsLost`, `ImagesFitModel`, `FilesFollowTheTurn`, `ToolChoiceIsHonoured` | Whether a turn runs in a session configured as its own request asks under the present settings, with the request's text, images, files and tools, and what becomes of the files, when sessions outlive requests and, through the store and the CLI, processes with other settings. |

Where a run says `CHECK_DEADLOCK FALSE` (the bridge, the stream), the system stops when
the last `Send` has returned or the stream is over.

### Bounds

Two requests meet on one key with three addresses: a third address is needed for
an entry that a waiter still points to after it was replaced twice. A third
request would only add another waiter, which `TryLock` treats like the second;
the proofs have no bound. `TTL = 1` distinguishes fresh from expired; runs that do
not ask about expiry use 0, which switches it off as in the code. `MCDurable`
has two keys of one namespace whose limit is one, so that the requests race for the
last place with one entry in the making; several namespaces and the global limit are
left to `LimitsHold`. The bridge has two permissions and a tool call that shares its call id with one of them,
so that refusal, mismatch and the indexes are all in question, and two Sends, since one
may leave something to the next. One client answers, as often as it likes: to the bridge a
second answer is the same whoever gives it. `MCBridgeMismatch` has two user-input
requests.

`MCStream` delivers three events, so that of a delta, a whole message, an event that fails
and the idle one any three meet in any order, one of them after the idle event, while `Send`
leaves, or still being handled when it has returned; the proofs have no bound. Its two streams are one of each protocol,
with all that is passed on and with nothing. `MCStreamReasoning` needs two events.

`MCGateway` has one key, since sessions do not touch each other, two requests, one of
which may be a stream that ends while the other waits, or that deletes its session while
the other has the next one of that key, and one continuation, which
may outlive both; the idle time is one tick, so that age and timer may differ. The sweep,
which unmaps all it finds and deletes one after the other, has one session to delete here;
`GatewayProofs` has any number.

`MCRequests` has one API key, with one session id and without, and some seventy bodies,
each of which differs from a plain one in what one check or one part of the
specification looks at; seven environments, of which two are refused, that differ in
permissions, agents, default model and key; three models with and without limits; and
three things a URL may hold. There are two names for directories, one for the request in
work and one that an earlier one has left. A session made for one body meets every other body under
every environment, which is what the properties are about; two fields that differ at
once add nothing, since the code compares them one by one.

`MCDurable` admits no event that destroys an entry in memory, `MCDestroyRace`
shows what happens with it.

### Fairness

`SessionManager`: an acquisition or a teardown that has begun runs on (`SF_vars`): the
store and the CLI answer each call, by a failure if need be. For creating and resuming a
session, and for the deletions of an `Acquire` or a `CloseContext`, the context of the caller
sees to that; `session.Close()` takes none (`manager.go:431`, `454`, `475`), and the
deletions of a discard and of the sweep have `context.Background()` (305, 431), so that the CLI
answers those is an assumption, which `AcquireReturns` and `ShutdownEnds` rest on. Go's mutexes hand over to a goroutine that has waited long.
`SF_vars(GiveUp(r))`: a request polls for an entry's mutex with its deadline in a
`select`; once the deadline has passed, the next attempt returns, even if the entry
changes in between. The janitor, the closer and the look-ups run on. Nothing is
assumed of handlers, which may keep a lease for ever, of time, of crashes, or of who
wins a mutex.

`Stream`: the caller, the callback and the handler of the stream run on, which includes
that every write returns: it has a deadline (`server.go:1000-1016`), unless both timeouts
are configured as zero or less. Neither the RPC's return, nor an event, nor the end of the
context is assumed.

`Gateway`: time passes, goroutines that are ready run, and once a request's context is
over `Acquire` and `Send` return, which `AcquireReturns` and `SendTurn` are about. That
a request gets its session, that a turn ends by itself or that a client leaves is not
assumed. Nor is that the CLI answers the `session.Close()` and the deletion of a discard or
of the sweep, which take no context (`DestroyRecord`, `DestroyUpstream`, `SweepRecord` and
`SweepUpstream` have no fairness): a handler may stay in a discard for good. What
`SilentStreamsEnd` and `StoppedRequestsEnd` promise is that it has given its session up by
then, so that a request that comes then does not meet it; one that was waiting for the
entry goes on to wait for its mutex, until its own context ends. One call without
a context is assumed to be answered: the `session.Close()` of an `Acquire` that could not
save its record (`manager.go:254`).

`InteractiveBridge`: the context of a `Send` ends some time (every request has a
deadline), the deferred calls run, a handler runs on, and it does not look in vain
for ever (5 s). Neither an answer, nor an event, nor idleness is assumed.

## What is proved

The proofs hold for every value of the constants under each module's assumption, which
types the constants: for `SessionManager`, `ConstantsAssumption` asks only that the names
are distinct, the limits natural numbers and the addresses natural numbers.

`SessionManagerProofs!IInvariance` is the core: `IInv` is an invariant. None of the safety properties is
inductive by itself. That a lease is usable needs that a mutex has one holder and
the holder knows it (`MutexInv`), that a waiter's entry was made for its key and
specification (`EntryInv`), that an entry without an open session is either
unmapped or still held by its maker (`MappedOpen`), and that an entry being torn
down has left the map (`MapInv`); the re-check of the map after the wait
(`manager.go:133-142`) is what turns these into `LeaseIsUsable`. `CurrentInv` says
that before the shutdown nobody unmaps an entry someone makes or uses; it rests on
`cleanupEntry` and `Discard` being done by the holder and the sweep taking only
free entries. The proof has one lemma per action, with one step per conjunct, and
`NextIInv` puts them together. An address that is freed keeps only what can still
be read of it (`Left`), which keeps the state space small; the lemmas on `Left`
carry that through the proof.

From it follow `TypeCorrect`, `LeasesAreUsable`, `LeasesAreCurrent`,
`MutexesAreAccountedFor` and `FreeEntriesAreOpen`. `LeaseRefinement` maps a lease to
the key its request holds and the shutdown to draining: a step that makes a request
`leased` is a `Grant`, one that ends it an `End`, `EmptyMap` a `Drain`, and all others
stutter. `LimitsHold` has an invariant of its own: with the finiteness of the mapped
keys, only `Insert` adds one, under `HasCapacity`.

`LeasesAreRecorded` and `LeasesAreBacked` have a condition, `NothingTornDown`: no discard,
sweep or `CloseContext` happens. Without it they are false (`MCDestroyRace`), and
`MCDurable`, which checks the two properties, runs under it. `RecordInv` strengthens
`IInv` for them: a session in the making is not open, and one that is mapped and open has
its record and its upstream session. A maker deletes a record or an upstream session
before it creates its own, and it is the only one at the key (`OneMaker`), so what it
deletes is nobody's; the CLI forgets only what no entry speaks of. Crashes, failing
stores, abandoned creations and a preserving shutdown are all admitted.

`InteractiveBridgeProofs` admits everything `Events` may contain, for any number of requests,
clients and `Send`s. Its invariant adds three things to the properties. What is pending
has been announced, in the `Send` that runs (`AnnouncedInv`); the index holds tool
requests only (`CallsInv`); and of two requests for one call, one is the tool request,
issued when the permission was settled (`PairInv`), without which `forgetRequest` of
the one could delete the index entry of the other. That `OneServedPerKind` holds even
when the CLI asks twice at once is due to `hasOutstandingKindLocked`, which is evaluated
in the critical section that registers. `AnswersStay` needs no invariant but the types:
every send to a channel is to an empty one.

Whether answers reach their requests depends on the CLI, so there are two theorems.
`OrderlyMatch` and `NobodyWaitsInVain` assume `[]Orderly`. A handler that has not returned
belongs to a request that was issued (`Invoked`), so of its kind no other is pending:
what it finds is its own (`OwnRequest`). What it then waits for is pending until its
answer, a refusal or the end of the Send is in its channel (`WaitersAreReached`): only a
completion could take it away first, and `Orderly` excludes completions of requests whose
handler waits. This is the safety half of `HandlersReturn`, and it is what an "orphan"
breaks. `MixUpsAreLimited` assumes nothing: a queued request has one taker, since the look
that finds it also removes it, under the mutex, and a tool handler finds its own call only. So
what `MCBridgeMismatch` shows is the worst there is: requests of a kind change places,
and no two handlers wait for one.

`FileStoreProofs` has an inductive invariant of its own: from the read to the
rename the holder of the mutex keeps in memory what the file contains with its own
record changed (`ContentInv`), since nobody else gets between (`MutexInv`). An
operation takes effect, in the sense of `AtomicStore`, at its rename, or at its read
when it changes nothing; every other step but a failure is a stutter
(`Refinement`). The crash needs no case of its own: it keeps `file`, which is whole at
every step. `NothingIsLeftBehind` is the safety half of `CallsReturn`: whoever has the
mutex or a temporary file is on the way to `Finish`, which gives both back.

`SendTurnProofs` has the argument of `TurnsAreWhole`: at any moment the collected text
and events are exactly those of `log`, so what `Collect` reads is whole for `n` the
length of the log; an idle signal implies an idle event in the log; and a refused
event is never followed by success, since `setError` records it before the callback
goes on to the next event, and the idle event is one. A handler may still refuse
an event delivered after the idle one while the result is collected, which is why the
property speaks of what came before it.

`NoWakeUpIsLost` is the safety half of `FailureEndsStream` and `IdleEndsStream`: a caller
parked in a select has missed nothing that should end it. `SignalsAreKept` says that what
has happened is still in its channel, or the caller has gone past the select that waits
for it; that the channels have room for one is enough, since each has one meaning, and a
sender to a parked caller hands over directly. `FailuresCancel` says that the callback is on
its way to cancel the context for every event that failed. What is left to TLC is that
the callback and the caller take those steps.

`StreamsAreWhole` and `LateFramesAreFew` are proved of `Stream`, whose every step is one of
`SendTurn` or leaves it alone (`StreamStep`): it implements `SendTurn` (`StreamsAreSends`),
and `IInv` holds of it too. `EventFramesInv`
says that `out` has the frame of every delta whose handler has neither failed nor yet run,
in the order of `log`; `StageInv` that no frame that ends the stream is written before `Send`
has unsubscribed. Since a success has no refused event up to the idle one and the
callback was past all of them by then, every delta before it is in `out` before the end is.
By `SuccessIsWhole` the result has those deltas too, or is a whole message. The two may
part over later deltas: the event that is handled, or begins to be, while `Send` leaves is
shown and not in the result (`LeavingStaysWhole` has that nothing else changes then).
What the callback may still be at when `Send` has returned is the last event of `log`, and
none follows it, since `Deliver` needs a `Send` that has not unsubscribed.

`GatewayProofs` rests on `SessionInv`, `FreeInv` and `TearInv`: at each control point the
holder of a lease knows what the session contains; a session nobody holds that a request
could continue is whole, `tainted`, or of a discard that has yet to delete it; and whoever
has come to a key while that was going on is `tainted`. `Exclusive`, which is the guard of
`SessionLease!Grant`, keeps one handler's steps from another's knowledge, and
`HookInv` from another's hook. The lemmas `HolderStep` and `LeavingStep` say once what a step
on one key leaves alone. `OnlyKnownLosses` says of reused sessions that they have every
turn unless one of the five reasons applies; without its exception the property fails
(`MCGatewayHistory`).
`LeasesAsPromised` says that `Gateway` implements `SessionLease`, which `SessionManager`
implements too (`LeaseRefinement`): the two modules, of which one has the handlers and the
other the manager, agree on what lies between them.

`RequestsProofs` rests on `Agrees`: a session is configured as its specification says. Of
the session in hand (`HeldInv`) and of those in the map (`TableInv`) that includes the
credentials, of the CLI's under a record (`RecordInv`) it does not, since the record has
none; that is why `AsAsked` has them and `AsBegun`, which compares across restarts, must
leave them out. `Fits` says that the running process could have made the session;
the map is emptied when the process ends, and what is resumed afterwards has passed
`Admitted` again.

`HistoryIsKept`, `ImagesFitTheModel` and `ToolChoiceHonoured` follow the body through the
adapters into the session. `ImagesInv` is inductive on top of `IInv`: the images in the
making are those of the request's own message, one for one, and none is sent that the
model's limits were not applied to (`ImagesAreTheRequests`). That the
limits were those of the session's model is `Admitted`, which the specification carries
to the session. What the adapters do to lists is in a few lemmas on `Kept`, the
elements of a sequence that are in a set, in order: `KeptFacts` says which
those are and where they were, `KeptStep` what one more element changes. They are about a
recursive function, for sequences of any length, and rest on `LeastNumber`: a prefix on which
`Kept` went wrong would have a shortest one. `TextsFacts` and `PlacementFacts` say what that
means of the two adapters: each text of an accepted body is in a turn or in the system
message, and images are in the last turn only.

`RequestsAssumption` types what TLC enumerates: `None` is no session, no provider and no
system message; bodies have sequences for their messages and tools; images are records
with a size; and what a URL yields is a picture.

Only model-checked: the liveness properties (`AcquireReturns`, `LookupsReturn`,
`ShutdownEnds`, `HandlersReturn`, `CallsReturn`, `FailureEndsStream`, `IdleEndsStream`,
`SilentStreamsEnd`, `StoppedRequestsEnd`), which need fairness and `ENABLED` and are out
of TLAPS' reach here. Every safety property that a passing run checks is a theorem.

## Disagreements with the documents

- `MCDestroyRace`: `Discard` and the sweep unmap an entry before they delete its
  upstream session, whose id the next session of the key has again. The next
  request's session may be deleted while it is leased.
- `MCBridgeMismatch`: the README says concurrent requests of a kind are refused to
  avoid a FIFO mismatch; the refusal does not avoid it.
- `MCGatewayHistory`: when an attachment cannot be fetched or checked, the session made
  for the request is kept without its turn. The next request with the session id sends
  only its last message to it, and the conversation before is lost without an error.

- `MCStreamReasoning`: README.md:49 and 70 and docs/api-examples.md:314 and 433 promise
  streamed reasoning in `delta.reasoning`. `Send` leaves the text of the event it passes on
  empty (`copilot.go:448`), so that `server.go:570` never writes one. The test at
  server_test.go:1403 makes up an event of its own.

More observations, without a run of their own:

- `x_copilot.system_message_sections` is not part of the specification
  (`server.go:438-450`): a request with other sections reuses the session as it is and
  its own are ignored, without the conflict that docs/api-examples.md:361-362 announces
  for fields that configure the session. A session that is resumed has the new ones.
  `SessionIsAsAsked` and `ContinuedAsBegun` leave this field out.
- An image that is fetched from a URL is checked against the limits of the model, but
  not, as an inline one is, for being an image of its type (`common.go:332-370`,
  `server.go:1555-1597`); without limits it is passed on as it comes.
- A crash or a stop leaves a request's temporary directory behind, and nothing removes it
  later. `FilesFollowTheTurn` has that nothing else does but a removal that fails.
- A delta that comes after the idle event, while `Send` leaves, is shown by the stream and
  is not in the result. `StreamIsWhole` bounds this.
- A request that comes while a failed turn's session is being discarded may resume it, turn
  missing, from its record, and send only its last message (`manager.go:425-431`,
  `server.go:485`). `LossesAreKnown` has it among its reasons; the race of `MCDestroyRace` is
  the same window.
- While the CLI does not answer `session.Close()` or the deletion of a discard, which have no
  context, its handler does not return, and requests that waited for the entry time out.
- A turn whose text comes in one message, without deltas, is not written to a stream.
- `Send` does not wait for the event that is being handled when it returns, since
  unsubscribing need not: its frame may follow the end of the stream, `[DONE]` included,
  and be written while the handler writes, or when it has returned.
  `LateFramesAreOfOneEvent` bounds this.
- While an entry is being made, or its record refused, it has the specification of the
  request that makes it: one with the specification of the record is refused meanwhile as
  a conflict (`manager.go:182`, `RejectSpec`).

And two that concern the manager and the shutdown. The sweep reads an entry's age before
it has the entry's mutex and not again afterwards (`manager.go:293-296`), so that a
session used and released in between is destroyed as idle. And the shutdown, which
preserves persistent sessions, first ends the context of every request in flight
(`main.go:141`), whose handlers then discard theirs.

## Not modelled

- The usage log writes one record per request and decides nothing.
- The embedded CLI is an empty stub in this repository.
- The addresses a URL of an attachment may have or redirect to, the headers, the limits of
  bodies and the wording of responses; the models and health endpoints.
- Settings that are only handed to the CLI: tools, skills, servers, telemetry.
- The SDK, the CLI and the file system are modelled by how the code uses them.

`PROJECT.json` gives the status of each component.

## Plan

The order in which the modules came: the manager, since all else rests on its leases; the
bridge, the store, one turn of `Send`; the handlers over abstract leases; what is in a
request; and the stream. What could follow:

1. The responses that are not streamed, and usage, which `Send` and the stream collect
   apart from each other (`server.go:599-602`).
2. What an address may be resolved and redirected to when an image is fetched.
