# Verification of the SkyWalking Python agent

TLA+ models of the agent in `src/skywalking`, the TLC runs that check them on small instances, and
the TLAPS proofs of the results that hold for every value of the constants.

## 1. The system

The agent lives inside a host Python process. Plugins wrap library calls and create *spans*; spans of
one thread (or asyncio task) form a *segment*; a finished segment, like a log record, a meter value or a
profiling snapshot, is *archived* into a bounded queue and shipped to an OAP backend by a reporter
thread (or coroutine). Everything is best effort: the host must never block or fail because of the agent.

| Component | Source | State | Operations | Hard part |
|---|---|---|---|---|
| Telemetry queues, reporter loop, shutdown | `agent/__init__.py`, `agent/protocol/grpc.py`, `client/grpc.py`, `utils/reporter_log.py` | four bounded queues, `_finished`, `__reporting`, RPCs in progress | `archive_*`, `__report_*`, `report_*`, `__fini`, `stop` | host threads, reporter, gRPC threads and shutdown race on a queue; RPCs fail half way |
| HTTP and Kafka protocols | `agent/protocol/http*.py`, `kafka*.py`, `client/http*.py`, `kafka*.py` | the same queues, a producer buffer, `properties_sent` | `report_*`, `heartbeat`, `refresh_instance_props` | an item is done before it is sent; answers nobody looks at; generators without an end |
| gRPC connectivity and failover | `agent/protocol/grpc.py`, `utils/grpc_channel.py`, `client/__init__.py` | watched state, `properties_sent`, refresh counter | `_cb`, `is_ready`, `heartbeat`, `on_error` | callbacks on gRPC threads race the heartbeat; silent backend switches |
| Collector clients: endpoints and TLS | `utils/grpc_channel.py`, `utils/tls.py` | PEM files, temporary files, two caches of paths | parse, resolve, choose credentials, `configure_requests_session`, `ssl_context_for_collector`, fork hook, `atexit` | one of several steps fails, files change between two reads, children inherit the list |
| Agent lifecycle | `agent/__init__.py`, `bootstrap/` | `__started`, `started_pid`, `__reporting`, fork hooks | `start`, `stop`, fork hooks, `start_prefork_master` | fork, restart while old threads are alive |
| Async agent | `agent/__init__.py`, `agent/protocol/grpc_aio.py` | event loop, asyncio queues, background tasks | the same, on one loop | startup race, loop closing, supervisor |
| Tracing context | `trace/context.py`, `trace/span.py` | span stack, segment, counters | `new_*_span`, `start`, `stop` | out-of-order stop, tasks that share a segment, archived once |
| Propagation | `trace/carrier.py`, `snapshot.py`, `segment.py`, `decorators.py` | sw8 and correlation headers, snapshots, related traces | `inject`, `extract`, `capture`, `continued`, `put_correlation` | headers late, twice or never; ids replaced after they were given out |
| Plugins | `plugins/sw_*.py` | patches | about eighty wrappers | exceptions, cancellation, generators, wrappers that share one span |
| Profiling | `profile/` | task list, execution context, slots, statuses | `add_profile_task`, `attempt_profiling`, `profiling_recheck`, profiler thread | lock-free slots, timers racing the sampler |
| Commands | `command/` | command queue, serial cache | `receive_command`, `dispatch` | dedup with a bounded cache |
| Sampling, meter, log reporter, configuration, plugin registry, CLI | `sampling/`, `meter/`, `log/`, `config.py`, `plugins/__init__.py`, `bootstrap/` | counters, settings | | sequential, formatting or I/O: section 6 |

What makes each part correct, in one line each:

* **Queues**: nothing is sent twice or lost unaccounted, `Queue.join()` can finish, `stop()` returns once the host is quiet.
* **HTTP and Kafka**: a loss has a cause, what was taken is sent on, the collector knows the instance it gets pings of.
* **Connectivity**: the watch survives concurrent re-subscription, an idle channel is woken, every OAP the
  channel settles on gets the instance properties, the pings go on.
* **Collector clients**: every usable backend is dialled, an identity is consistent and shown under the custom CA only,
  plaintext has a cause, temporary key files have one owner.
* **Lifecycle**: one `__fini` per process whatever was forked, a reporter behind every queue that accepts items.
* **Async agent**: the same accounting on the event loop, and an orderly end of the loop in every case.
* **Tracing**: a segment is archived once, when its last span ends, as one tree, whichever task closed it.
* **Propagation**: references can be followed, a trace goes on under the id it came with, untraced requests stay untraced.
* **Plugins**: every request is reported once, no failure is hidden, nothing inside an untraced call is traced.
* **Profiling**: no slot leaks, the sampling limit holds, one task at a time, each finished once.
* **Commands**: a command the OAP repeats is executed once.

## 2. The modules

| Module | Models | State and steps |
|---|---|---|
| `LossyChannel` | what a telemetry queue promises: an archived item is settled once, as delivered or lost | abstract specification; `ReporterQueue`, `AsyncAgent` and `HttpKafkaReporters` are shown to implement it |
| `ReporterQueue` | one queue of the sync agent with gRPC: `archive_*`, `report_with_backoff`, `report_*` with its generator thread, `__fini`, `stop` | the four queues run the same code and share only `_finished` and the channel, so one is modelled. Steps are the calls on `queue.Queue` (each atomic under its mutex), the start and the end of an RPC, and the steps of the shutdown |
| `HttpKafkaReporters` | one queue of either agent under HTTP or Kafka, and the heartbeat | a *route* (threaded or asyncio, HTTP or Kafka, item by item or one list) is chosen once; the ten `report_*` of the code are ten routes. Steps are a `get`, a message with its outcome, the answer of the broker, the steps of the shutdown, one turn of the heartbeat |
| `GrpcConnectivity` | `GrpcProtocol._cb`, `is_ready`, `heartbeat`, `on_error`; `refresh_instance_props`, `send_heart_beat` | assignments to `state`, `properties_sent` and the counter are steps of their own, in the order of the code; gRPC's channel and its delivery thread are external |
| `CollectorEndpoints` | `parse_backend_addresses` to `_resolve_channel_target_and_authority` | operators over lists of entries and DNS answers, and `DialsUsable`, which says the same of the result |
| `CollectorClients` | extends it: `tls_pem_material`, `grpc_ssl_credentials`, `requests_tls_settings`, `ssl_context_for_collector`, the temporary files, fork and exit | one client is built at a time in each process; each read of a PEM file, each write of a temporary file and each library call that may fail is a step, so that rotation, forks and exits fall between them |
| `AgentLifecycle` | `start`, `stop`, `start_prefork_master`, the fork hooks, `__fini` at exit, reporter threads by the Event they were created with | one agent object per process; `fork` copies it and no thread |
| `AsyncAgent` | `SkyWalkingAgentAsync`: hand-over to the loop, start of the loop, supervisor, cleanup, reporters on `asyncio.Queue` | what lies between two awaits is one step; host threads interleave anywhere, also between `self.loop = ...` and the creation of the queues |
| `SpanContext` | `get_context`, `new_*_span`, `Span.start/stop`, `SpanContext.start/stop`, noop spans | tasks own copies of the span stack; spans and contexts are numbered records |
| `Propagation` | extends `SpanContext`: carriers, correlation, snapshots, `Segment.relate` | what a context carries is a record beside it; headers stay on the wire and are received in any order and number |
| `Wrappers` | every wrapper of `plugins/sw_*.py` and `@trace` | a table: span kind, header, shape (around the call, after it, generator, callbacks), how the error flag is set |
| `PluginSpans` | extends `Propagation` and `Wrappers`: the wrappers at work | a frame for each wrapper that runs, ended by return, exception, cancellation, an answer with a status, or never |
| `CommandService` | `receive_command`, `dispatch`, the serial number cache | the queue, the command in dispatch and the cache; execution is left to the module that extends it |
| `Profiling` | extends `CommandService`: `ProfileTaskExecutionService`, `ProfileTaskExecutionContext`, `ProfileThread`, `ThreadProfiler` | every compare-and-set, the visit of one slot and the two steps of `process_profile_task` are steps; timers fire in any order |
| `MC*` | the finite instances; symmetry sets and constant values for the configurations | |
| `ReporterQueueProofs`, `HttpKafkaReportersProofs`, `AsyncAgentProofs`, `GrpcConnectivityProofs`, `CollectorClientsProofs`, `AgentLifecycleProofs`, `ProfilingProofs`, `TracingProofs` | the proofs about the module in the name; `TracingProofs` about `SpanContext`, `Propagation` and `PluginSpans` | inductive invariants, lemmas and theorems |

Definitions carry the names of the code where they can; `PROJECT.json` maps each to its lines. The operators under
"Faulty variants" are plausible bugs: each replaces one definition to show that a property can fail.

## 3. The runs

| Run | Bounds | Shows |
|---|---|---|
| `reporter_queue` | queue of 2, 3 items, 1 failing RPC | task accounting, every loss counted up to the item a late generator takes, `LossyChannel` refined; `stop()` returns with fairness for the shutdown thread alone, once the host archives no more; a READY channel drains the queue. Three items fill a queue of two and put one into a batch; a second failure repeats the first |
| `http_kafka` | queue of 2, 3 items, 1 failing message, factor 2, 4 heartbeats; eight of the ten routes | each silent loss has a failed message or a cancelled task behind it, `LossyChannel` refined, what a reporter takes is sent on, no HTTP ping before the properties were answered and a bound on pings without a refresh. Four beats hold two refreshes |
| `async_lists` (violation) | as above, the other two routes, 2 failures | aio HTTP logs and aio Kafka meters are collected from a generator that never ends and never sent |
| `grpc_connectivity` | 2 OAPs, heartbeat and one reporter, factor 2, 1 failure on a READY channel | the watch is never lost and catches up, registration and pings are live, also after a switch nobody saw and after the OAP forgot the instance. Deadlock is checked |
| `collector_clients` | parent and child, 2 changes of PEM files, 2 sessions at a time; lists of up to 2 backends of any kind, or 3 with one hostname; all combinations of FORCE_TLS and configured files | the four properties of `CollectorClients`. Two changes are enough for a certificate and a key of different versions; two sessions for a cache hit and for a session in parent and child |
| `lifecycle` | 3 processes, 2 bootstraps each | one `__fini`, a live reporter behind every reporting process, in a stopped process no reporter begins another turn, and none is left if its last calls return |
| `async_agent` | queue of 1, 3 items, 2 failing streams | accounting up to the shutdown, a background failure logged once, `LossyChannel` refined, the loop ends after `stop()` and after a failure |
| `span_context` | 3 tasks, 4 spans, depth 3 | every segment archived once, as one tree with the right primary endpoint, none stranded; the innermost open span is the parent |
| `propagation` | 2 threads, 3 spans, depth 2, 2 correlation keys with a maximum of 0, 1 snapshot, 2 extracts, continuations or puts | the four properties of `Propagation`. A chain of three segments is enough for a trace id that is replaced after it was sent on |
| `correlation_max` (violation) | 1 thread, 1 span, 3 keys with a maximum of 2 | a header of three elements is kept whole: the documented maximum is exceeded by one |
| `plugin_spans` | 1 thread, 3 spans, depth 3, 1 extract | all wrappers nested in all others to depth three: every request reported, errors shown, untraced calls untraced inside |
| `profiling` | 2 commands received 3 times, cache of 1, 2 traces, 1 slot, 1 sample | dedup, one task at a time, one finish per task, slot accounting, the sampling limit. Three receipts let the cache forget the first command. Two traces race for the slot and for the sample; with two slots TLC needs five minutes (13.7 million states, no error), and the theorems cover any number |

Deadlock is not checked where a run has bounded inputs and simply ends. Symmetry is used for tasks, threads, keys and
traces, in runs that check invariants only.

**Fairness.** Only threads the interpreter schedules and waits the code times are fair: the shutdown thread
(`ShutdownTerminates`); in `QueueDrains` also the reporter, the generators (their `get` is timed) and the end of RPCs
(each has a deadline); gRPC's delivery thread, the heartbeat, the pollers and `on_error` (`grpc_connectivity`, nothing of
the network); the test of the Event at the top of a reporter's turn (`lifecycle`); the loop's callbacks and its root coroutine
(`async_agent`: asyncio runs what is ready in order, and `join` and the cancellation are timed; nothing of host, streams and tasks).
In `http_kafka` and `async_lists` the reporter, the flush and the shutdown are fair, and the end of a post: an assumption about the
collector, because neither HTTP client sets a timeout.

Two liveness properties name a condition the code cannot provide. `ShutdownTerminates` asks that the host archives no more from
some time on (`HostFallsSilent`): the loop of `_abandon_sync_queue` has no deadline. The second half of `StoppedRunsOut` asks that the calls of the
last turns return (`CallsReturn`): gRPC has deadlines, an HTTP post has none. The first half, that no thread begins another turn,
needs neither.

## 4. The proofs

TLC explores the small instances above; the theorems hold for every value of the constants. Each rests on an inductive invariant that
TLC checked on such an instance first. The assumptions are the named `ASSUME`s of the modules: bounds are natural numbers,
`maxsize`, slots, samples and `Factor` positive, "no trace" is not one of the traces (`TraceAssumption`), the correlation keys are
finitely many (`PropagationAssumption`), the configured backends are a sequence of entries and Python's `None` is not one of them
(`ClientsAssumption`, `FamiliesAssumption`).

**`ReporterQueueProofs`**

* `TypeCorrect`: `Spec => []TypeOK`; the queue never exceeds `maxsize`, `unfinished_tasks` never goes negative.
* `JoinBalance`: `Spec => []UnfinishedBalance`.
* `NoSilentLoss`: `Spec => []LossesAccounted`.
* `QueueIsLossyChannel`: `Spec => BestEffortAtMostOnce`, the refinement of `LossyChannel`.

`unfinished` stays natural because a thread that calls `task_done` is one of those counted, and that needs the balance; the
balance needs to know that a slot without an RPC has no generator: `AccountInv`. For the losses `PlaceInv` adds that every item is in
one place (queue, a generator's hands, one batch, the abandoned ones, or gone) and there once, and `OrphanBudget`: each failed RPC leaves
at most one generator behind, which takes at most one more item. The bound on late items alone is not inductive: the
generator that is still to take one has to be counted. With each item in one place, every step moves items forward only, which is
the step of the abstract channel.

**`HttpKafkaReportersProofs`**: `LossHasCause` (`[]SilentLossBound`), `ReportersAreLossyChannel` (the refinement) and
`PropertiesKept` (`[]InstanceRegistered`), for all routes. `RouteInv` says again that every item is in one place, and what a call holds at
each of its steps: where items go one by one, one at most. The item a cancelled task may lose is not granted before it is
cancelled: without that the bound would not be inductive. `BeatInv` bounds the pings since the last answered properties by the missed
refreshes and the counter *modulo* the factor; the modulo needs that division with remainder is unique (`RemainderUnique`).

**`AsyncAgentProofs`**: `FailureLogged` (`[]FailureLoggedOnce`), `SilentLossBounded` (`[]SilentLossBound`) and `AsyncIsLossyChannel`
(the refinement). `LogInv` adds that after the cleanup has looked at the tasks, only tasks it has cancelled run, so none fails
behind its back. `PlaceInv` is the one-place invariant with the callbacks that wait in the loop; its `Budget` counts the generators
that broken streams left behind.

**`GrpcConnectivityProofs`**: `WatchNeverLost` (`[]WatchKept`). The invariant adds that the heartbeat thread makes no RPC while its
own `on_error` runs (else a second error could take the place of a subscription that is still due), and that what was
delivered to a subscription is what `_cb` has stored or is about to store.

**`CollectorClientsProofs`**: `IdentityIsUnderCa` (`[]IdentityUnderCa`), `PlaintextIsCaused` (`[]PlaintextHasCause`), `FilesHaveOwner`
(`[]TempsOwned`) and `BackendsAreDialled` (`[]BackendsDialled`), for any number of processes, rotations and clients. `TrustInv` says what the thread that builds a client knows at
each step. `OwnInv` says which files the job, the two caches and the sessions of each process hold, that they are on its list
with the text they were made for, and that file names are never used again.

`IdentityIsUnderCa` is about clients with an identity, and has one exception: a requests session whose CA snapshot could not be written and
whose CA file is gone (`lostCa`). `PlaintextIsCaused` leaves open what follows a failure of the TLS library. Section 5 says why.

`BackendsAreDialled` holds for backend lists of any length, with every DNS answer of `Answers`, and for every channel but the placeholder. `DialInv` says that a gRPC job which waits for a
PEM file or for the channel holds a target and an authority that `DialsUsable` accepts, and every client the one of its job; the
answers of the job are part of it, because later lookups may differ. What is left is about the operators: `ResolvedDials`, that
`Resolved` meets `DialsUsable`. It needs induction along the loops of `parse_backend_addresses` and `prepare_grpc_channel_endpoints`:
after `n` entries `encode` holds the addresses of the first `n` entries, each once, and the authority is the first of them with an address
or `None` when there is none (`ExpandedFacts`).

**`AgentLifecycleProofs`**: `FiniOnce` (`[]FiniOncePerProcess`) and `ReportersStay` (`[]ReportingHasReporter`), for any sequence of starts,
stops, forks and exits. A forked child holds a copy of the parent's flags: `LifeInv` adds that `atexit` counts exactly what
`_fini_registered` says, that only Events created so far are set, so that the one of a new bootstrap is not, and that the
process of the last bootstrap has existed, so that a new child never takes an inherited bootstrap for its own.

**`ProfilingProofs`**

* `TaskFinishedOnce` (`[]FinishedOnce`), `ProfilesOneTask` (`[]OneTaskAtATime`). Three callers race in `stop_current_profile_task`. `TaskInv` adds
  that a task passes its stages (added, waiting for its timer, being installed, current, finished) once, and that while
  `process_profile_task` holds `_rlock` no task is current.
* `NotExecutedTwice` (`[]ExecutedOnce`). The cache is the end of the history of executed commands, and what the dispatch thread
  holds is not in it (`CacheInv`).
* `SlotsAccounted` (`[]SlotAccounting`), `SamplingBounded` (`[]SamplingBound`). That a thread which won the claim finds a slot, although it
  looks at one slot after the other while others come and go, is `Room`: from every slot `k` on, the occupied slots and the
  threads that have got that far are at most `MaxParallel + 1 - k`.

**`TracingProofs`**, about `SpanContext`, `Propagation` and `PluginSpans`

* `ParentIsInnermost` (`[]InnermostIsParent`), `NoSegmentStranded` (`[]NothingStranded`), `SegmentsWhole` (`[]ArchivedWhole`), for hosts that create tasks
  or let plugins inherit spans, but not both (`"mixed" \notin Modes`, as in the run: with both, a segment can be restarted after it
  was archived, see section 5). `StackInv`: a stack holds each span once and ends with the spans of the task's with
  blocks in their order; the depth of a span is the number of its blocks, all of one task. Without "all of one task" a
  block that ends could stop a span that another task has open. `CtxInv`: a context counts its open spans, has given out the ids below its
  `sid` once each, holds exactly its finished spans, and is archived exactly when none is open.
* `ReferencesResolve` (`[]RefResolves`), `TraceIsContinued` (`[]TraceContinues`), `DarkIsKept` (`[]DarkStaysDark`), about `PSpec`, whose steps are steps
  of `SpanContext` or leave it alone (`PropagationSteps`), so that `SpanInv` holds there too. The invariant `PropInv` has to speak about
  everything a reference may be made from later: each header on the wire and each snapshot names a span its segment has made, and that
  segment was asked for its id and knows the trace or had its id replaced after that. What a segment resolves once it goes on
  resolving (`ResolvesKept`).
* `CorrelationIsBounded` (`[]CorrelationBound`), about `PSpec`, for any finite set of keys and any maximum. `CorrInv` adds that what is in a context, on the wire
  and in a snapshot is a sequence of keys: what other agents sent may be of any length, so only the parser (`KeptType`) and `put_correlation` keep
  the bound, which is one above the documented maximum (section 5). A context that continued a snapshot is exempt, and stays so.
* `FailuresAreShown` (`[]ErrorsShown`), about `WSpec`: a failed span has the error flag as long as it is open. It depends on the table of
  wrappers: each one that can see an error status has a way to mark it (`WrongIsMarked`).
* `NothingLeftBehind` (`[]RequestsReported`), `DarkIsInherited` (`[]DarkInside`), about `WSpec`. Suspended generators end in any order and a request
  may never get its `on_response`, so that `StackInv` does not hold here. `HeldInv` takes its place: a stack holds each span once and
  open, the spans of all with blocks are on it, every other one belongs to a lost request, an open span is on the stack of
  exactly one thread, and above a NoopSpan there are NoopSpans only, in the stack and in the blocks. That last part must be said of both: a
  block that ends removes a span from the middle of the stack, and the next span takes its parent from the stack.

The proof of `TraceContinues` failed at first for a good reason: a segment that continues a snapshot while its span is ignored
gets no reference, and the snapshot may bring back the segment's own trace id. TLC shows it with four spans; the run's three are
too few. The property now names this case.

So did the one of `CorrelationBound`: `put_correlation` was modelled by a `CASE` whose guards overlapped (a value of `None` while the context is
full), and a `CASE` may take either branch. The code tests for `None` first; the model now does the same.

**Folds.** tlapm cannot instantiate the library's induction theorems, whose parameter is an operator. The two proofs about folds use
induction in a form without one: a set of natural numbers that contains 0 and the successor of each member is `Nat` (`Induction`,
from `WFMin` and `NatLessThanWellFounded`). `FoldLeft` is defined with `MapThenFoldSet`, that is by `CHOOSE` over the functions which satisfy the
recursion; `FoldExists` shows that there is one, `Unrolled` that it follows the loop, step by step. With this the operators are proved right for
sequences of any length.

Only model-checked:

* everything under fairness: `ShutdownTerminates`, `QueueDrains`, `LoopEnds`, `TakenIsSent`, `StoppedRunsOut`, `EventuallyRegistered`, `IdleIsLeft`,
  `PingsGoOn`. Liveness and `ENABLED` are out of the prover's reach.

Every invariant of a passing run is also proved. No module uses `RECURSIVE`.

## 5. Seen while modelling

Two disagreements have a run of their own: `async_lists` (aio HTTP logs and aio Kafka meters are never sent) and `correlation_max`.
"Max element count of the correlation context" (`docs/en/setup/Configuration.md:58`, `config.py:152`) is exceeded by one: the parser of the header
(`trace/carrier.py:142`) and `put_correlation` (`trace/context.py:258`) test with `>` before they add. `CorrelationBound` is what the code does
keep: never more than one above, unless a snapshot was continued, which merges without a limit (`trace/context.py:284`).

Formulas that do not hold of this code, and are kept in their modules without a run. Added as an `INVARIANT` to the
configuration named, TLC shows the behaviour.

* `ImmediateRegistration` (`MCGrpcConnectivity.cfg`): `_cb` resets `properties_sent` for a failover, and a heartbeat that is between
  its RPC and the assignment (`agent/protocol/grpc.py:142`) sets it again for the OAP it has left. The refresh repairs it
  (`EventuallyRegistered`).
* `StoppedReportersStop` (`MCAgentLifecycle.cfg`): a reporter inside a call during `stop()` and `start()` reads the new `_finished`
  (`agent/__init__.py:331`) and goes on beside its successor.
* `FinishedParentReferred` (`MCSpanContext.cfg` with `Modes = {"mixed"}`): a span opened below a finished parent raises `TypeError`, or
  an inherited entry span restarts an archived segment (`trace/context.py:130`, `158`).
* `ProfilingThreadSurvives` (`MCProfiling.cfg`): the profiling thread meets a trace whose `profile_status` is not stored yet and
  dies (`profile/profile_context.py:227`).
* `SystemTrustOnlyForced` (`MCCollectorClients.cfg`): without FORCE_TLS the agent "does not silently fall back to the system trust store" and
  stays plaintext (`docs/en/setup/Intrusive.md:54`, `56`). But an aiohttp client for which `ssl_context_for_collector` returns None
  (`utils/tls.py:836-842`) has `https://` URLs already and a session without a context (`client/http_aio.py:30-31`), and aiohttp verifies with its default
  trust store (`DefaultContext`). So does a requests session whose CA was lost (`lostCa`).
* `AuthorityIsFirstConfigured` (`MCCollectorClients.cfg`): `Intrusive.md:32`, `46`, `config.py:49`, `82` and `utils/grpc_channel.py:32`, `71` say the authority is the
  first configured endpoint. It is the first *usable* one, as the docstring of `prepare_grpc_channel_endpoints` says; that docstring's
  "never points at a hostname that DNS skipped" holds of the function but not of its caller, which falls back to the first entry
  when none is usable (`utils/grpc_channel.py:472-480`).

*Queues and shutdown*

* `_shutdown_sync_queue` says "Never blocks longer than flush+join budgets" (`agent/__init__.py:86`), but `_abandon_sync_queue` (`52-62`) loops without
  a deadline until the queue is empty, while `archive_*` still accepts items: a host that archives as fast as the loop drops keeps
  `stop()` from returning. `ShutdownTerminates` therefore needs `HostFallsSilent`; with the bound `MaxItems` TLC cannot show the endless
  run itself.
* `stop()` of the sync agent clears `__reporting` after the queues were abandoned; items archived in between stay in the queue.
* `stop()` then `start()` runs `config.finalize()` and `plugins.install()` again (`agent/__init__.py:615`: "Must be finalized
  exactly once"); with a namespace, the name is suffixed twice (`config.py:296`).
* A child forked before the hooks are armed inherits `__reporting = True` and no reporter thread.
* Async agent: a span that ends (or asks `is_segment_queue_full`) before the loop thread has set `self.loop` and the
  queues raises in the host; so does one that finds the loop closed after `is_closed()`. A `stop()` before `_finished`
  exists signals nobody and returns after its join timeout with the loop running. A long-lived stream that fails
  counts everything it ever carried as dropped.
* HTTP: posts have no timeout, and an error status counts as success (`SendRefused`). Kafka: `KafkaProducer(...)` may raise into the
  start of the agent; the aio management client may start its producer twice at once; the threaded client does not
  notice that a refresh failed.

*Tracing, propagation and plugins*

* An `extract` or `continued` after an `inject` replaces the trace id that was already sent downstream (the history `split`
  excludes it from `RefResolves`). A Kafka record without headers puts a made-up id first.
* Suppression is honoured by `new_entry_span` only: not by consumers that call `span.extract`, nor across threads. A `@runnable`
  with an ignored operation relates a trace without a reference.
* `sw_kafka` puts header bytes through `str()`: a record with correlation makes `poll` raise in the host.
* `sw_sanic_v2`: a request whose `on_response` never comes leaves its span on the stack (history `lost`). `sw_http_server`:
  `_status_code` of the last request of a kept-alive connection stays. `sw_aiohttp`: the bypass for the agent's own
  requests on the server side returns the function instead of calling it. `sw_sanic`: `result` is unbound for a handler that
  is not awaitable.
* Hooks mark the *active* span, which may belong to a suspended generator. An async generator that is finalised in
  another task leaves a finished span on the first task's stack.
* `sw_psycopg` `executemany` consumes an iterator argument; `sw_psycopg2` `callproc` joins parameters that are not strings before the
  call. The span of a synchronous gRPC client call ends when the call object is returned; the server interceptor raises
  for methods without a handler.

*Profiling*

* `profiling_max_time_mills` is never read, and the end of a segment does not free its profiling slot. The overlap check of
  `_check_profile_task` also rejects a task that lies entirely before an accepted one.

*Collector clients*

* Plaintext under FORCE_TLS is documented for "if even process-trust credentials cannot be built" (`config.py:84-86`, `Intrusive.md:56`). When
  gRPC credentials fail with an identity and again without it, the channel is plaintext and the process trust store was never tried
  (`utils/tls.py:562-576`); it is tried only when there was no identity. The same documents say that a failed `SSLContext` means
  plaintext; it means `https://` with the default trust of aiohttp (above). `PlaintextHasCause` takes no side in either case.
* A channel that cannot be made is replaced by an insecure one to `localhost:1` under the authority of the configured backend
  (`PlaceholderChannel`).
* A requests session may present the client certificate under system trust when the CA snapshot cannot be written and
  the CA file is gone (`lostCa`, the exception in `IdentityUnderCa`).
* The cache of certificate and key paths does not check that the files exist (the CA cache does). A certificate stays listed
  when something other than an `OSError` is raised while the key is written.
* The comment of `_after_fork_in_child` that clearing the list in place "would also empty the parent's list" is not so: the
  child has a copy. Rebinding and clearing have the same effect.

## 6. Not modelled, and the plan

Simplifications inside the modelled parts. Span stacks are values, one per task: the copies the code makes before each change
(`trace/context.py:205`) are taken for granted, a shared list cannot be expressed. `remove_from_profile_task_list` is one step, so
`_check_profile_task` never sees the list half drained; no property is about what it would then accept. The broker answers item by item,
also for Kafka meters, which are one message for the whole list: the model has more outcomes than the code, none less.


* *Sampling*: two short critical sections of one lock and a timer; the bound of a window is the comparison itself.
* *Meter*: accumulators and a timer thread in front of `archive_meter`, whose queue is modelled. Histogram buckets against a
  reference definition would be the next algorithm module. So would the unlocked total of `log_dropped_throttled`.
* *Log reporter and formatters, tags, filters*: formatting in front of `archive_log`.
* *Configuration, plugin registry, version rules, CLI, loader*: process set-up without behaviour over time.
* *Plugins*: tags, names, layers and peers; `install()`; the libraries themselves, which are external. `PluginSpans` runs in one thread:
  what tasks do to a shared stack is in `SpanContext`.
* The greenlet profiler (gevent is not in the repository); PEM, JSON, protobuf and header text.

Proofs worth adding: `SpanInv` for hosts that mix tasks and inherited spans, up to the restart of an archived segment (section 5).
