# A TLA+ verification of BFW-Engine

BFW-Engine executes BPMN 2.0 processes on Elixir/OTP. What makes it hard to get
right is not the notation: it is that every flow node runs in a process of its own
beside the process instance that owns it, that messages, signals and timers are
matched in shared ETS tables without a lock, that each of them also lives in
Postgres, and that the engine may stop between any two of those accesses and must
go on from the rows. Around it stand two TypeScript packages, an SDK whose parsers
promise the models of the engine's own parsers, and a client. This directory holds TLA+
models of those parts, the TLC configurations that check them, and theorems about them
checked by TLAPS.

Paths below are relative to `src/`; `lib/` stands for `src/lib/bfw_engine/`, `sdk/` and
`client/` for `src/packages/js/sdk/src/` and `src/packages/js/client/src/`.

## 1. Inventory

| Component | State it keeps | Operations | Hard behaviour | What makes it correct | Here |
|---|---|---|---|---|---|
| **Message correlation** (`lib/events/message_*.ex`, `pending_sweeper.ex`, `cancelled_flow_node_instances.ex`, the message handlers) | ETS registry of waiting subscriptions, ETS cancel marks, `pending_messages` rows with a state and a TTL | register (insert, recheck the mark, drain), claim, publish (three tiers, buffer, orphan cleanup), mark, release, prune, sweep | no lock anywhere; a publication races registrations, drains, other publications, cancellation, death and the sweeper | a subscription takes one message, a waiter stays reachable, tiers exclude one another, a cancelled waiter takes nothing | `MessageCorrelation`, `MessageDelivery` |
| **Timer start events** (`lib/timers/*`, `lib/execution/timer_start_listener.ex`) | `timer_start_schedules` rows, Scheduler entries (ETS, die with it), callback queue, listener mailbox, `:global` locks | register, enable, disable, unregister, reload, fire, advance, start | two stores written one after the other, a Scheduler that fires and crashes whoever holds the lock, reboot in the middle | what is armed is what the row says; no occurrence twice; R*n* starts *n*; a crash re-arms | `TimerStart` |
| **Token flow and joins** (`lib/execution/process_instance.ex`, gateways, `inclusive_join_evaluator.ex`) | FNI rows, `gateway_pending_arrivals`, the PI row; PI memory (`flow_node_instance_states`, `join_routing`); handler Tasks and their mailboxes | dispatch, enter, park, arrive, fire, finish, fail, terminate, complete, cascade | handler results are applied later than they are written; a join is shared by PI, Task and rows; loops | each token is consumed once and none is lost; joins take one token per flow and once per pass; every instance ends and leaves nothing live | `TokenFlow` |
| **Event-based gateway** (`process_instance/event_based_gateway_orchestrator.ex`) | stamps `ebg_pending_cancel`, one deferred dispatch, in PI memory | cancel siblings, stamp, hold, flush | losers still entering, ties, several winners at once | one branch goes on, its token is not lost | `TokenFlow` |
| **Resumption** (`process_instance/resumption.ex`, `resume_runner.ex`, `execution_adapter.ex`) | rebuilt from rows | rebuild states, routing, reactivate, repair lost successors, sweep orphans, readiness gate | a crash between any two writes | nothing consumed twice, a live row is run again, ended instances stay ended | `TokenFlow` (not the readiness gate) |
| **Signal broadcast** (`lib/events/signal_*.ex`) | registry and pending rows as for messages | the same without a correlation value | broadcast while others register | every waiter once per signal, nothing lost between lookup and buffer | planned |
| **Catch and boundary timers** | Scheduler entries owned by a Task, `fire_at` in the FNI row | arm, await, cancel, re-arm | Scheduler crash, resume after `fire_at` | fires once, not after a cancel | fires in `TokenFlow`; the Scheduler side planned |
| **Boundary events** (`boundary_orchestrator.ex`, `boundary_aware_handler.ex`) | boundary FNIs tied to a host FNI | attach, fire, interrupt host, cancel with host | host and boundary end at the same time | one of them takes the token | planned |
| **Call activities, subprocesses** (`child_lifecycle.ex` and others) | parent and child PIs, notify pid, monitors | start, await, abort cascade, re-attach | child ends while the parent re-attaches, crash of either | the parent learns of each child once | planned |
| **Complex gateway, event subprocesses, multi instance and loops** | join state, shells and iteration FNIs | activation, region cancel; trigger, interrupt scope; iterate, break | stragglers; interruption while children enter | as for joins and boundaries | planned |
| **Compensation and transactions** (`compensation_orchestrator.ex`) | registry of completed activities, runs with a cursor | throw, run in reverse, resume | crash within a run | each target once | planned |
| **Errors and escalations** | none of their own | look up the catching scope | | sequential lookup | uncaught errors only |
| **Activities** | inbox tasks, early completions | enter, park, complete, fail | completion before the park | | the node kind `task` stands for them |
| **Persistence** (`lib/persistence/*`, `persistence_retry.ex`) | Postgres | Ash actions, retries | a write that took effect and reported failure | guarded terminal writes | atomic accesses of the models |
| **BPMN parsers** (`lib/bpmn/parser/sax_handler.ex`, `sdk/bpmn/parser.ts`) | the engine: one field per kind of open element, a stack of saved subprocesses; the SDK: none, it walks a tree | start, text and end of an element; what is linked when a scope ends | what an inner element overwrites of an outer one, texts that belong to the one that is open, order of what is prepended and reversed | the same model from every document | `EngineBpmnParser`, `SdkBpmnParser`, `BpmnParsers` |
| **DMN parsers** (`lib/dmn/parser/*`, `sdk/dmn/parser.ts`) | the same, with a stack of element names and one of saved records per kind of boxed expression | the same | expressions in expressions; kinds that have no stack | the same model, or a refusal | `EngineDmnParser`, `SdkDmnParser`, `DmnParsers` |
| **Notification client** (`client/ws/notification-client.ts`) | `socket`, the map `channels`, the promises and subscriptions handed out | connect, subscribe, dispose, disconnect | everything is asynchronous: a token, a socket, a join answered after the state has moved on | nothing is left behind, a subscriber is heard until it leaves, a disposed one never | `NotificationClient` |
| **HTTP, REST and GraphQL client** (`client/http`, `client/rest`, `client/graphql`) | none; the application keeps the offset of a walk through pages | one request per call; queries by offset or cursor | errors in answers with the status 200, answers of something else than the engine, rows that move between two pages | which failures look like a result, and no others; a call gives what its type says; a walk sees the list | `RestCalls`, `EngineRequests` |
| **Error mapping** (`client/errors/error-mapper.ts`, the controllers) | none | answer with a status and a code, map to a class | sixty codes kept by hand in two languages | the caller reads the engine's status and code | `ErrorMapper` |
| **Web layer** (`src/lib/bfw_engine_web/http`) | transport | routes, controllers, plugs | | the clients' expectations | as the clients meet it |
| **BPMN validation, DMN evaluation, FEEL, data mapping** | caches | validate, evaluate | none: sequential and pure | tests on documents | not modelled |
| **Event bus, plugins, API, auth, telemetry, supervision, SDK types** | transport | | I/O around the core | | not modelled |

How they interact. A PI (`gen_statem`) starts a handler Task per flow node instance;
the Task writes its own row, then sends its result as a message that the PI handles
one at a time. Catch and boundary handlers register themselves (`via_pid: self()`)
with the message or signal registry, or arm the Scheduler, and are sent
`{:message_arrived, ...}` or `{:timer_fired, ...}` straight into their mailbox. A PI
that cancels an FNI marks it, sweeps its subscriptions and kills its Task.
Publishers and timers without a waiter start new instances. On boot, the orphan
sweep runs, the ResumeRunner starts a PI per running row, which rebuilds itself, and
publication waits for readiness. Diagrams and decisions are deployed as XML, which the
engine reads with an event-driven (SAX) handler and editors read with the SDK's parser;
the client calls the engine's routes, queries its GraphQL schema and listens on
channels of one WebSocket.

`PROJECT.json` lists the components with their sources, and as hazards the places
where a test would hardly reach, with the properties that cover it or the reason why
none does.

## 2. The modules

| Module | Lines | Models |
|---|---|---|
| `MessageCorrelation` | 540 | registry, publisher, buffer, sweeper, marks |
| `MessageDelivery` | 70 | what correlation promises, without any of those |
| `MessageCorrelation_proofs` | 1570 | types, one message per subscription, no deaf waiter; the refinement of `MessageDelivery` |
| `TimerStart` | 480 | one cycle start schedule |
| `TimerStart_proofs` | 2840 | the theorems about the schedule |
| `TokenFlow` | 690 | one process instance, crash and resume |
| `TokenFlow_proofs` | 2190 | types, the end of an instance, tokens consumed once |
| `TokenRace_proofs` | 740 | the race behind an event-based gateway |
| `TokenJoin_proofs` | 2350 | parallel joins across a crash; no token is lost |
| `TokenPasses_proofs` | 1760 | without loops, where alternatives merge, a join fires once |
| `XmlDocument`, `BpmnDocument`, `DmnDocument` | 200 | documents that grow while they are read, drawn from grammars; elements and records |
| `EngineBpmnParser`, `SdkBpmnParser`, `BpmnParsers` | 810 | the two BPMN parsers; what makes their models the same |
| `EngineDmnParser`, `SdkDmnParser`, `DmnParsers` | 620 | the two DMN parsers |
| `ModelParsers` | 20 | their composition: the language of a grammar decides |
| `NotificationClient` | 320 | connects, sockets, channels, subscriptions |
| `ErrorMapper`, `RestCalls`, `EngineRequests` | 690 | refusals and their errors; methods and routes; requests, answers and page walks |
| `BfwEngineClient` | 20 | the composition: an application that listens or one that asks |
| `BfwEngineClient_proofs` | 1640 | the theorems about the notification client |
| `EngineRequests_proofs` | 2470 | the theorems about requests, refusals, methods and walks, types of the composition |
| `MC*` | | constants, diagrams and symmetry for TLC |

### 2.1 MessageCorrelation

One (name, correlation value) key, since everything is looked up by that key. Actors:
a handler Task per waiter, a publisher per message, the sweeper, the cancelling PIs.
Each atomic access to an ETS table or a row is one action, named after it:

| Actions | Code |
|---|---|
| `Register` `Insert` `Recheck` `FindPending` `ClaimOwn` `MarkDelivered` `MarkFails` `SendDrained` `Reinsert` | `MessageSubscriptions.register/1` and its drain, with the retry after a lost row |
| `Park` `Receive` | the handler: `park_async`, `{:message_arrived, ...}`; a boundary registers again |
| `Publish` `Lookup` `Split` `ClaimOne` `SendOne` `SendEspStarts` `StartProcesses` `ResolvePending` `CancelOrphan` | `MessagePublisher.publish_message/1` in its order |
| `PassTtl` `SweepRead` `SweepOne` | TTL and `PendingSweeper` |
| `Mark` `Release` `Die` | `release_handler/4`, `stamp_pending_cancel`, the end of a Task |

`registry`, `marked` are the ETS tables, `rowState` and `published` the rows, `inbox`
the mailboxes, `sent` and `started` what the outside sees. `KeepRows` is the
configuration `pending_messages_keep_after_transition`.

**MessageDelivery** is the abstract specification: a message is delivered directly to
one-shot subscriptions, or to event subprocess starts, or starts instances, or is held
and then reaches one subscription or is dropped. `MessageCorrelation` is shown to
implement it with `taken <- sent` and a message counted as held while its row is
pending or a drain has taken the row and not yet sent it (`DeliveryKept`).

Left out: correlation expressions, payload caps and contracts, identities, events; the
death of the process that owns the registry table; an exception, other than a failing or
missing row, that the rescue around `mark_pending_delivered` swallows
(`message_subscriptions.ex:421`).

### 2.2 TimerStart

One cycle schedule. `row` is the database row, `entries` the Scheduler's armed
entries, `advances` the queue of its callback worker, `mailbox`/`checked` the
listener, `lock` the schedule's `:global` lock. A call (`Registers`, `Enables`,
`Disables`, `Unregisters`, `Restores` of a restarted Scheduler, `Boots`) is an actor
whose steps are its accesses: `Begin Create List Relist Lock MarkEnabled Persist
Cancel Schedule Clear Store Undo Delete`, each of which can fail where the code
handles a failure (`AccessFails`). `Fire`, `Advance`, `Check`, `Start` are the
Scheduler, its worker and the listener; `Crash`, `Restart`, `Reboot`, `ListenerCrash`
and `Tick` the environment. The arithmetic of occurrences (`After`, `SkipMissed`,
`NextFutureFire`) is translated from `iso8601.ex` and `start_event_manager.ex` with a
constant interval.

Left out: calendar intervals, date and duration starts, several schedules under one
call (their lock order), the death of the worker alone, call timeouts, `record_fire`.

### 2.3 TokenFlow

One PI on a diagram taken from the constant `Diagrams`. `pc` says what the PI is doing:
`idle` (waiting for a message), `dispatch` (tokens in `todo`), `race` (cancelling the
rivals of a winner), `interrupt` (a terminate end event), `evaluate`
(`maybe_finish_or_continue`), `fail` and `cascade` (fatal), `ended`, `down`. Between
two steps of the PI any Task may step: that is where the races are.

| Actions | Code |
|---|---|
| `Enter` `EnterJoin` `Park` `Trigger` `Receive` `DeleteArrivals` `FinishJoin` `Fail` | the handler Task of a node, a join, a catch event |
| `HandleAsync` `HandleOk` `HandleError` `HandleLoser` | the PI's clauses for `{:fni_result, ...}` |
| `Dispatch` = `StartNew`, `StartFails`, `RouteToJoin` or `DuplicateArrival` | `dispatch_successor_targets`, `dispatch_join` |
| `CancelRival` `StampRivals` `DispatchOrHold` | `EventBasedGatewayOrchestrator` |
| `Evaluate` `Interrupt` `TransitionToFatal` `Cascade` | completion, dead-path elimination, termination |
| `Crash` `CleanUp` `Resume` | the engine stops; orphan sweep; `Resumption` |

`rows`, `gpa` and `piRow` are the tables and survive a crash; everything else is lost
and rebuilt by `Resume` as the code does it: `RebuiltRoute` for the join routing,
`ResumedTask` for what is run again, `Lost` for finished FNIs without successors.
`Upstream` is the reachability that the parser computes for inclusive joins, stated as
the least set closed under predecessors. `winner` is the event whose rivals
`cancel_siblings` goes through (`CancelRival` one by one, `StampRivals` at its end); a
rival that was stamped reports, also with `:ok`, to `HandleLoser`. That an event-based
gateway leads to message and timer events alone is what the validator enforces
(`lib/bpmn/validator.ex:1718`), and stands in `DiagramsAssumption`.

Left out: payloads and conditions (a gateway may take any selection its type allows),
boundaries, event subprocesses, multi instance, compensation, children, complex
gateways, conditional catch events, retries, failing writes of arrivals and of the PI
row. A diagram in `Safe` is one where a pass puts at most one token on a flow;
`Doubling` is not, and its duplicate arrival turns the instance fatal as in the code.

### 2.4 The parsers

A document is a tree of elements in document order; an element is its position, which
also stands for its id and its text, `ref` is the one attribute that names another
element, and `value` an attribute that competes with a child (the `implementation` of a
business rule task, the `outputLabel` of a decision, the `description` of a rule). It grows while it is read (`Open`, `Close`), so the behaviours of a module are
all the documents of a grammar: a content model per tag (as an XML schema's sequence),
a size and a depth. The tokenizers (Saxy, fast-xml-parser) are external.

| Definitions | Code |
|---|---|
| `Start`, `End` of `EngineBpmnParser` (their disjuncts `StartFlowNode`, `StartSubprocess`, `EndSubprocess`, ...) and `DmnStart`, `DmnEnd` of `EngineDmnParser` (`StartRecord`, `StartPart`, `EndExpression`, `EndRequirement`, ...), on the records `sax` and `dmn` | the clauses of `handle_event` in the two `sax_handler.ex` and of `boxed_expressions.ex`; a clause that is missing is `refused` |
| `Finalize`, `DmnFinalize` | what is reversed and linked at the end |
| `ParseDefinitions` and the `Parse...` operators of the SDK modules, recursive over the tree | the functions of `parser.ts` with the same names |

The engine's fields are kept one by one, since what could go wrong is that one field
stands for two open elements. Where the parsers differ on a document of the grammars the
property says exactly when: `InEngineOrder`, `HandlerInTime`, `HasGrandchildren`,
`WithoutAttribute`, `DocumentationKept`, `Overwritten`, `Replaced`, `WithLabel` and
`WithAllowedText` are the differences, and everything else that is modelled must be equal.

Not compared, since the model has no place for it; in some of it the parsers are known to differ:

- attributes that are only copied, and the diagrams (BPMNDI, DMNDI). The engine reads no
  `dataStore` elements, the SDK does. For input data without a name the engine takes the id,
  the SDK also reads the `locationUri` of an import;
- the spelling of values: trimming, `""` against `null`, numbers and booleans, texts in JSON
  (the SDK keeps objects and arrays, the engine any JSON), hit policies, aggregations and
  orientations (brought into one spelling by the SDK alone). Both upper-case `httpMethod`,
  which a comment of the SDK says it does not (`sdk/bpmn/parser.ts:705`);
- several of what there should be one of: event definitions in an event and texts of one name
  (the engine keeps the last, the SDK the first), extension elements of an element;
- elements where the standard or the engine's schema does not have them, `version` and
  `correlationKey` outside the process and mappings of the process itself (which the engine
  refuses) among them.

### 2.5 The client

`NotificationClient`: an action is one synchronous stretch of JavaScript, between two
awaits or a callback. `Connect`, `TokenResolved` or `TokenRejected`, `ConnectTimesOut`,
`SocketOpens` and `SocketFails` are `connect()`; `Subscribe` (the shared, the first and
the unconnected case of `joinChannel`), `JoinAccepted`, `JoinRefused`, `JoinTimesOut`
and `Listen` are the subscribe methods, `Dispose` a subscription's, `Disconnect` the
client's. `channels` is the map of the client, `chans` all channels ever made, `cuts`
counts disconnects. The `phoenix` package is external: its sockets try again until they
are disconnected, its channels rejoin, `leaveOpenTopic` closes another open channel of a
topic. The lifecycle callbacks are left out.

`EngineRequests`: a request waits for its token (`Ask`, `TokenFails`, `Send`), is
answered (`Answer`) and read (`Receive`). It is answered by the engine, by nobody, or by
something in front of it: a page or JSON of its own (an object without `data`, `errors` or
a known `error`) with the status 200, 404 or 502, or no content (`ForeignAnswers`). `RestCalls` lists every method of every sub-client with verb, path and what
its type promises, and every route with the shape of its answer and its refusals
(`ErrorMapper`); `Serves` joins them. `AskForPage`, `InsertRow` and `RemoveRow` are the
walk of `src/examples/client-js/graphql-queries` over a list that changes.

`BfwEngineClient` puts them side by side. They share a URL and a token factory, no
state, so the two kinds of application are explored one at a time.

## 3. The runs

Deadlock is not checked: in every model the finite set of calls, messages or tokens
is used up and the system rightly stops; a document that is read to its bound ends, and
an application may ask for nothing more.

| Run | Bounds | States | What it shows |
|---|---|---|---|
| `message_races` | two catches, two messages, kept rows, one failing write | 5.2M | `OneMessagePerSubscription`, `NoDeafWaiter` |
| `message_delivery` | a boundary that registers twice, an event subprocess start, two messages, deleted rows | 1.4M | the same, `TypeOK`, and the refinement `DeliveryKept` |
| `message_cancelled` | two catches, two messages | violation | a cancelled loser takes a pending message |
| `timer_lock` | enable, disable, Scheduler restart, reboot; R2 | 2.0M | `ArmedIsAccounted`, `PersistedMatchesArmed` |
| `timer_counts` | disable, unregister, Scheduler restart, one fault; R3 with a start | 0.4M | `TypeOK`, `StartsWithinRepetitions`, `EachOccurrenceOnce`, `ArmedIsAccounted` |
| `timer_recovery` | register, enable, unregister, Scheduler restart; fairness | 0.14M | `ArmedAgain` |
| `timer_register` | a deploy beside a restore | violation | armed twice |
| `tokens_flow` | eight diagrams, two FNIs per node, one failure, one crash; fairness | 63k | `TypeOK`, `JoinComplete`, `ConsumedOnce`, `EndedIsQuiet`, `NoTokenLost`, `JoinsFireOnce`, `OneBranchGoesOn`, `EndsWithoutCrash` |
| `tokens_race` | a race beside another branch | violation | the winner's token is lost |
| `tokens_terminate` | one crash | violation | a terminate that is forgotten |
| `parsers` | ten BPMN and seven DMN grammars, 4 to 8 elements, up to 7 deep | 0.73M | `TypeOK`, `SameGraph`, `SameTypeData`, `SameDefaults`, `SameBoundaries`, `SameHandlers`, `SameLanes`, `RefusesOverwritten`, `SameDecisions`, `SameItems` |
| `client` | two connects (one with a timeout), three subscriptions, four of both together (`MaxUses`), three channels, a shared and an instance topic, two disconnects; every method and query, three rows and two more, pages of two; fairness of the timer | 403k | `TypeOK`, `OnlyReplacedSocketsLinger`, `HeardUntilDisconnected`, `DisposedHearsNothing`, `NoFailureLooksLikeAResult`, `ErrorsAreTheAnswers`, `WalkSeesTheList`, `CallsGiveWhatTheyPromise`, `ConnectSettles` |

**Why the bounds are enough to be interesting.** Every race in the message models is
between two claimants of one subscription, or two subscriptions for one row; two of
each give all of them, the third actor being the drain, the sweeper or a cancel. Two
registrations let a boundary meet a delivery meant for its earlier subscription. Two
drain attempts let the retry loop be taken and run out. Timers need a fire before,
within and after each call, hence a `MaxTime` above two intervals, and a repetition
count that can be exceeded. In `TokenFlow` two FNIs per node let a loop put a token of
the next pass at a join while the last one fires; one crash at any point reaches every
pair of adjacent writes; the diagrams contain a fork and join, a join waiting for
another join, a terminate, a join in a loop, a race of three events one of which leads nowhere, a race before an
inclusive join at which a token waits, an exclusive choice that merges again before an
inclusive join, and a modelling error. `JoinsFireOnce` is about the six of them that `FiresOnce`
picks by their shape: no loops, and flows that merge before a join only if they are alternatives. An exclusive gateway in
a loop goes where there is room for another FNI, which bounds the loop. A handler of a
parser remembers an element by its kind, so two elements of a kind in one another and a
third beside them are what it can confuse; every grammar has room for that, and one has
every node type, event and text once. Two connects are an old and a new socket, three
subscriptions on three channels let one share a channel, one replace it and one be
disposed late; two disconnects have a connect and a subscription between them. `MaxUses` keeps
three subscriptions to one connect and two to two, which is a small part of the states of all
together; the invariants of the client are proved without any of these bounds (section 5).

**Fairness.** Only `timer_recovery`, the runs of `TokenFlow` and `client` assume any. Weak
fairness of each handler Task and of the PI: the BEAM schedules every runnable process.
Of `CleanUp` and `Resume`: an engine that is down is started again. Of a timer catch
event: the Scheduler fires what is due. In `TimerStart`: a call that was begun runs on,
the supervisor restarts the Scheduler, the worker drains its queue. In
`NotificationClient`: the timer of a `connect()` that nobody cleared fires (`setTimeout`);
no socket has to open and no join to be answered. No message has to come, no caller to
call; nothing has to fail or crash.

**Properties that hold without a crash only.** `NoTokenLost`, `JoinsFireOnce`,
`OneBranchGoesOn` and `EndsWithoutCrash` assume `crashes = 0`. docs/architecture/execution.md
(line 1330) says that a token lost beside a live branch is not repaired, so the first
and the last cannot hold beyond. `ConsumedOnce` and `EndedIsQuiet` hold
whatever crashes, and are proved. `JoinComplete` holds for one crash. With two it does not, if
two passes of a parallel join overlap: the routing knows one of the two FNIs, the other is
run from scratch without a token and records an arrival of flow "unknown"
(`parallel_gateway.ex:131`), and after the second crash `handle_resume` counts that record
(`arrived = length(persisted_arrivals)`): the join fires one token short.

## 4. Where code and documentation disagree

Each has a violation run whose trace shows it.

1. **message_cancelled**: a drain that lost its row re-inserts its subscription and
   looks again without checking the cancel mark, so a marked and swept gateway loser
   takes the next pending message.
2. **timer_register**: a deploy creates the row outside the lock; a restore running in
   between arms it, and the deploy arms it again without cancelling. The first entry
   can no longer be cancelled.
3. **tokens_race**: `dispatch_successors` holds the successors of *any* FNI that
   finishes while a loser is still entering, in the one field that holds the winner's:
   the winner's token is gone and its branch never runs. No crash is needed.
4. **tokens_terminate**: a terminate end event whose row was finished before the engine
   stopped is not applied on resume; the other branches go on.

Also seen, without a run: on resume the loser of a tie behind an event-based gateway is
taken for a lost token and its branch dispatched as well (`OneBranchGoesOn` fails
without its `crashes = 0`); a join that stopped between the deletion of its arrivals
and its finish waits for ever after a resume; a fork that was active when the engine
stopped is resumed as a join and waits for ever. These are in the list of hazards. An
enable replaces the scheduler ref, so that the queued advance of an earlier fire is
dropped and a cycle without a start fires more often than its count.

Where the two parsers of a language differ, against "a fully typed model matching the
engine's internal parser output" (`sdk/bpmn/parser.ts`), is in the properties: lanes
with lanes two levels below are lost by the engine; inside a subprocess it lists boundary
events in the opposite order, does not mark the subprocess's own default flow, and does
not resolve a compensation association that comes after the subprocess. Of several
associations that leave a compensation boundary the engine takes the first, because
`Map.new` runs over a list that is newest first (`lib/bpmn/parser/sax_handler.ex:1917`),
and the SDK the last, although it claims to mirror the engine there
(`sdk/bpmn/parser.ts:1044`): an editor may show another handler than the one that runs. A
business rule task with an `implementation` attribute and text has the text in the engine
and the attribute in the SDK; documentation of a data object or flow before the first node
of a subprocess is taken for that of the subprocess. The description of a decision rule is
the element's in the engine and the attribute's in the SDK, and the `outputLabel` of a
decision is its attribute in the engine and the name of its variable in the SDK. The
engine's DMN parser promises "arbitrary nesting of boxed expressions" and refuses a binding in a
binding, a row in a row, a function in a function and an item component in an item
component; a function anywhere but at a decision, a context entry or a knowledge model it
does not see. The SDK takes no allowed values from a `<text>` child, where the standard
has them.

The client, in the properties or met while modelling: a socket replaced by a second
`connect()`, or one whose token is resolved after `dispose()`, is never disconnected,
although `dispose` is to "clean up all connections" (`client/bfw-engine-client.ts:68`); a
subscribe call that waits for a join when the client is disconnected never settles; the
`dispose()` of one subscription of a process instance closes the channel of the others,
and a second `dispose()` forgets a channel made since. A list query by cursor is offered
but the engine paginates every list by offset. Some statuses and codes reach the caller
renamed (`Renamed`, 422 as 413, 409 as 422, 408 as 500: the renderer has no code for a
body that was not read in time, and calls it `internal_error`). `getText` takes any 404
for metrics that are switched off. An answer of something else with a status of success is
taken for the engine's if it is JSON, and by most REST methods if it has no content
(`LooksCarriedOut`): a list query whose answer has no data for it returns an empty page
(`client/graphql/graphql-client.ts:396`), which ends a walk as if the list ended there, so
`WalkSeesTheList` speaks only of walks whose last page is the engine's. The engine answers a failed read of its two catalogues with an empty list
(`process_controller.ex:368`, `decision_controller.ex:502`).

## 5. What is proved

`MessageCorrelation_proofs`, for every set of waiters and messages and every bound,
from the assumptions named in `MessageCorrelation` (the kinds of waiters are disjoint,
`NoMessage` is no message, the bounds are positive):

- `TypeCorrect == Spec => []TypeOK`. `TypeOK` is not inductive: a drain indexes rows by
  `row[w]`, and subscriptions by `number[w]`. `Typed` adds `WaiterSound`: a waiter that
  has begun has a registration number, and a drain at work has a row. `TypedStep` has a
  step per action and under it one per part of the state.
- `OneMessage == Spec => []OneMessagePerSubscription`. That a subscription received one
  message says nothing of the claims under way, so it is not inductive. The invariant
  is exclusive **possession**: a one-shot subscription is in one place, not yet
  inserted, in the registry, with its own drain (from claim to re-insertion), with the
  one publisher that claimed it, or spent on one message. `ClaimOwn` and `ClaimOne`
  move it out of the registry, and both need it there (`:ets.select_delete` returns 1
  for one caller); `Reinsert` moves it back, which only its holder may do. `TiersSound`
  keeps the event subprocess starts, which are never claimed, apart.
- `WaitersReachable == Spec => []NoDeafWaiter`. The invariant `Heard`: from its insert on,
  and unless its own drain has taken the subscription out, a live and unmarked handler is in
  the registry, in the hands of the publisher that claimed it, or has a message in its mailbox.
  Each way out of one of the three leads into another: `ClaimOne` gives the subscription to a
  publisher, `SendOne` puts its message into the mailbox, and a drain that loses its row
  re-inserts what it took.

In the second half of `MessageCorrelation_proofs`, on top of these:

- `DeliveryIsKept == Spec => DeliveryKept`, the refinement. The mapping counts a message as
  held while its row is pending or a drain has it. What it needs is how far a message is
  (`Stage`): until its publisher has decided it has no row and started nothing, and what its
  publisher sent went to handlers alone; and that the drain that marked a row is alone with it
  (`Drains`). A publisher's send, its start of processes, its row, a drain's send and the
  expiry of a row are the steps of the abstract specification (`PublisherRefines`,
  `DrainRefines`, `ExpiryRefines`); all others are stutters.

`BfwEngineClient_proofs`, for any number of connects, topics, channels, subscriptions and
disconnects, from `ClientAssumption` (the bounds are naturals, instance topics are
topics). The application that makes requests leaves the client's variables alone, so each
theorem is about `Spec` of the composition:

- `ClientTypeCorrect == Spec => []ClientTypeOK`, by its three parts: connects, channels,
  subscriptions. Each list is typed over the domains of the others, which only grow
  (`ChannelsAfter`, `SubscribersAfter`).
- `DisposedStaysSilent == Spec => []DisposedHearsNothing`. What a disposed subscription
  is not on is not inductive: it may be listening elsewhere. `ListenersActive` is: a
  listener of a channel is an active subscription whose channel that is.
- `NothingElseLingers == Spec => []OnlyReplacedSocketsLinger`. `SocketsOrdered` adds that a
  socket was made after at most as many as there are, that a call waiting for its token
  has none yet, and that the socket the client holds was made since the last disconnect:
  so the one that replaces it is younger and of the same time.
- `StaysHeard == Spec => []HeardUntilDisconnected`. The invariant `Heard` is about the map:
  a channel in it is one of its topic, on a socket that did not go (`MapSound`); an open
  channel that is not in it was taken out by a `dispose()` of its topic (`OpenIsKnown`), so
  that of two open channels of one topic, which `leaveOpenTopic` needs, the topic has an
  excuse; and a subscription has a channel of its topic (`SubsGiven`).

`TimerStart_proofs`, for any number of calls and any bounds, from the assumptions in
`TimerStart` (the kinds of calls are disjoint, the markers are none of the values they
stand beside):

- `ScheduleTypeCorrect == Spec => []TypeOK`. The invariant `Inv` adds what a call has read
  when it is at a step that uses it: an occurrence to schedule (`HasTarget`), an attempt
  left (`HasAttempt`), and that a deploy never lists schedules (`CreatesFirst`).
- `ArmedAccounted == Registers = {} => (Spec => []ArmedIsAccounted)`. The property speaks of
  a free lock and so is not inductive. `Custody` says that every access after the lock was
  taken is its holder's (but for an unregister that found no schedule). `KnownEntries` says
  what the holder knows at each of its steps: what is armed when it persists carries the ref
  it has read, nothing is armed when it schedules, and what is armed when it stores a ref is
  its own. `KnownEnabled`: it arms nothing that it has not seen enabled, or has not enabled.
  Whatever runs outside the lock (fires, advances, a dying Scheduler) takes entries away or
  keeps their ref. The assumption `Registers = {}` is needed: with a deploy beside a restore
  the property fails (finding `timer_register`).
- `AtMostOneArmed == Registers = {} => (Spec => []ArmedOnce)`. With the same invariant nothing
  is armed when the holder of the lock arms (`Single`): the deploy of the finding is the only
  way to arm a schedule twice.
- `PersistedIsArmed == Registers = {} => (Spec => [](faults = 0 => PersistedMatchesArmed))`. Between
  a row and its entry stand the advances that the worker has not taken, and `PersistInv` follows
  them: the last queued advance of an entry's ref carries what the entry fires next, and with
  none left the row carries it, except while the holder of the lock is between its write of the
  row and its cancel. Refs are not used twice (`Fresh`, `OneEach`). Without `faults = 0` it does
  not hold: an advance whose write fails is logged and dropped.
- `OccurrencesFireOnce` and `RepetitionsBound`: `OneArming` implies that `Spec` keeps
  `EachOccurrenceOnce` and `StartsWithinRepetitions`. `OneArming` says that one reload, of a
  restarted Scheduler or at a boot, is all that arms beside the deployment. `OnceInv`: from its
  start to its arming a reload finds nothing armed, all that fired lies before the time it read
  and what it arms behind it. `CountInv`: every occurrence in the row, in a call, an entry or an
  advance lies on the cycle, the i-th fire is no earlier than the i-th occurrence, and hence an
  entry's remaining repetitions and the fires so far are at most n. The assumption is needed. A second
  reload, or an enable, takes its clock before it waits for the lock, and may find an occurrence ahead of that
  clock which has fired meanwhile (hazard `start_event_manager.ex:141`).

`TokenFlow_proofs`, for every set of diagrams and any number of FNIs, failures and crashes,
from `DiagramsAssumption` (flows connect nodes, one start) and `BoundsAssumption`:

- `TokenTypeCorrect == Spec => []TypeOK`. `Typed` states the parts over the functions' whole
  records, and `HaveRows`: an entry that is live or finished has a row.
- `EndedInstanceIsQuiet == Spec => []EndedIsQuiet`. Every path to the end looks at the PI's
  memory, the property at the rows. `Quiet` relates them: a running PI knows every live row
  as live (`KnowsRows`), a Task that reports success has ended its row (`TasksHaveRows`), no
  Task outlives the PI, and a cascade follows a fatal PI row.
- `TokenConsumedOnce == Spec => []ConsumedOnce`. Predecessors are written at a start and once
  more when a join fires, so the invariant `Once` follows a token before that: an FNI
  **claims** a predecessor if it names it or, being live, has its token in its hands, in its
  mailbox or in `gateway_pending_arrivals`. No two FNIs of a node claim the same one; no
  token still to be dispatched, or held, is claimed at its node; and the source of either has
  ended in memory and in the rows (`GoneSources`), so that no result of it is handled again.
  The last is also why the repair on resume is safe: it looks at the rows alone, and does so
  only when no FNI is live, hence when no token can be in a hand or a mailbox. `HandlerMoves`
  and `FniMoves` say what a step of a handler, or of the PI on one FNI, does to all of this;
  `StartNew`, `RouteToJoin`, `HandleOk` and `Resume` are the steps that need their own argument.

`TokenRace_proofs`, `TokenJoin_proofs` and `TokenPasses_proofs`, from the same assumptions:

- `OneWinner == Spec => []OneBranchGoesOn`. The property sees a branch when its token was
  consumed; by then several results may have been handled. `Race` looks earlier: an FNI **goes
  on** from the moment its result is accepted, and a catch event that does has *beaten* each of
  its rivals (`Decided`), which has ended, is about to be cancelled by the winner's message, or is
  stamped and still entering. It also needs that a gateway's own tokens are dispatched before any
  event behind it goes on (`GatewayFirst`), and that only catch events are behind it.
- `JoinTakesEveryFlow == Spec => [](crashes <= 1 => JoinComplete)`. That a join counted as many
  tokens as it has flows says which flows they took only if no two took the same one. `Joins`
  therefore follows what a Task has collected (`JoinTask`: tokens of its own flows, no two of one;
  it finishes with as many as there are, hence with one of each, by an injection between finite
  sets) and, until the first crash, what is recorded of it (`RecordsSound`), since that is what it
  is resumed from. A Task that was resumed without a token is not routed and never fires. After
  a second crash its record counts as an arrival, and the property fails (section 3).
- `NoTokenGetsLost == Spec => [](NoEventGateway => NoTokenLost)`. The invariant `Kept` is said of
  an instance that has not failed and in which no terminate end event has finished. Its part
  `GoneOnward` is the property with the tokens that are still to be dispatched (`Onward`). It
  is kept because no token disappears on the way from `todo` to a mailbox, to what a join has
  collected, to its row (`FlowsOn`): a Task runs exactly while its FNI is live (`Matched`), so a
  routed token finds one; a join that fires has nothing left in its mailbox (`Passing`), for a
  parallel join because all its flows have come (`AllTaken`, which is where `Joins` is used) and
  for an inclusive one because the PI drops the routing when it sends the order to fire; and what
  it collected is what its row names when it finishes. A failure is never forgotten
  (`FailingStays`), so the rest of the invariant may be silent about failing instances. Diagrams
  with event-based gateways are excluded because there is one place to hold the tokens of all
  races, and two races, or a race beside another branch, do lose one (finding `tokens_race`).
- `JoinsFire == Spec => []JoinsFireOnce`. `FiresOnce` says what the diagram has to be by its shape
  alone: it has no loop, and two flows into a node before a join (other than at a join) are
  **alternatives**: an exclusive gateway chooses between them, they follow two catch events of one
  race, or every way into the start of the one is an alternative of the other. `Alternatives` narrows
  the pairs of flows down to those that pass this test among themselves. The property counts rows and
  is not inductive; `Passes` adds four things. `OneEach`: a node before a join has one FNI.
  `ChoosesOne` and `Decided` (of `Race`): no exclusive gateway and no race sends tokens two ways.
  `JoinsClose`: a join is *open*, and then the flows that have delivered to it have `Passed`, their
  FNI ended and its token there consumed; or it is *closed*, and each of its flows has passed or is
  `Shut`, nothing that is live or under way being upstream of it. And what makes a join close when its FNI
  ends (`Running`): a parallel one finished on one token of every flow (`JoinComplete` above), an inclusive
  one was told to fire when the flows that had not delivered were dead and no token was held
  (`FiringCloses`). Two arguments are about the graph. That alternatives are never both taken
  (`AlternativesExclude`) goes back along the two flows at once to where they part; it stops because a
  diagram without loops has a first node in any set of nodes (`FirstNode`, by the least size of a set
  without one). And nothing upstream of a flow comes after the join it leads to (`NoWayBack`), so that a
  flow once shut stays shut (`ShutStays`): this is what `inclusive_join_analyses` has to give to
  dead-path elimination. The proof says why the PI may evaluate joins only when nothing is held.
- `NoTokenArrivesTwice`: on the same diagrams no dispatch finds that its flow has delivered already, so
  `duplicate_join_arrival` is a sign of a loop or of a merge that is none of alternatives.

`EngineRequests_proofs`, from `RequestAssumption`, for any processes, rows, pages and changes:

- `FailuresShow == Spec => []NoFailureLooksLikeAResult`. `RequestKnown`: what the caller reads is
  decoded from the answer to the request it made, and the answer is one that a token provider, the
  transport, the plugs, the controller of that route or something in front of the engine can give
  (`AnswerFits`). The property is an equivalence: what the client cannot tell from a result is read
  as one, and nothing else is (`RefusalIsThrown`).
- `WalkMissesOnlyForRemoved == Spec => []WalkSeesTheList`. The property compares what a finished
  walk read with the list. `WalkInv` counts on the way: the rows that were there all along, were not
  read and are no longer ahead of the offset are at most as many as were removed; the rows read twice, or
  read and ahead again, at most as many as were inserted (`WalkSound`). An insertion or a removal
  before the offset moves one row across it, no more. JSON of something else may end the walk
  (`EndedByAnother`); then nothing is known of what it missed, and nothing is asked any more.
- `RefusalsAreShown == Spec => []ErrorsAreTheAnswers`. Every refusal a controller, a plug or the
  renderer can answer with (`RefusalsOfRoutes`) is of one of five kinds (`RefusalsListed`): it has a
  class of its own code and status, its code is one a class hides, the class is found by the status,
  it is the start whose payload is too large, or the renderer has no code for it. For each kind `mapResponseError` shows what the
  property says (`Shown`), since no code has two classes (`ClassStatusOne`).
- `MethodsAreServed == Spec => []CallsGiveWhatTheyPromise`. Every method of a sub-client has a route
  (`Routed`), the routes answer in an envelope at three paths only (`RoutesRead`), and the methods
  take `data` out of the body at just these (`CallsRead`).
- `TypeCorrect == Spec => []TypeOK`, of the composition with the notification client.

**What stays with TLC, and why.** `NoTokenLost` for diagrams with event-based
gateways: where it holds, it does because of the shape of the diagram. The parsers' properties and
`ModelParsers.TypeOK`: they are about recursive definitions over trees. Liveness (`ArmedAgain`,
`EndsWithoutCrash`, `ConnectSettles`): the prover handles neither fairness nor ENABLED.

## 6. Not modelled, and what would come next

1. `Boundary` steps in `TokenFlow`'s style: a host against its interrupting and
   non-interrupting boundaries, and the crash in between. Then the complex gateway, event
   subprocesses and multi instance shells, which dispatch through the same loop.
2. `ChildInstances`: parent and child, notify pid, monitor, abort cascade, orphan sweep.
3. `ResumeReadiness`: the ResumeRunner, readiness, settle timeout, composed with the
   registry, against the promise that no publication is decided before the waiters of
   the last run are back.
4. `SignalBroadcast`: the registry without exclusive claims. `CompensationRun`.
5. Proofs: the counts of a cycle with several enables, once each call's clock is related to
   the fires it may have missed; `NoTokenLost` with one event-based gateway on the diagram, where
   the one place to hold tokens suffices; what an abstract specification of the token flow would promise
   (each finished node's tokens consumed at most once and, without a failure, at least once), of
   which `TokenConsumedOnce` and `NoTokenGetsLost` are the two halves.

Not worth a model: the validator, the evaluation of DMN and FEEL (pure functions of
unbounded data, partly a third-party interpreter), type declarations and field lists of
the SDK, the event bus, plugins, tokens and metrics, start order and supervision (their
consequences are the crash actions of the models).
