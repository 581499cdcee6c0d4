# Verification of the inference gateway's endpoint picker

TLA+ models of the endpoint picker (EPP) of the gateway API inference extension,
of the body-based router and of the latency predictor beside it, model-checked
with TLC on small instances. The safety results of the parts where most
goroutines meet (the shard processor, the flow registry, the distribution over
the shards, the request path, the datastore), and those of the candidates' cache,
the adapter store and the latency predictor service, are proved by TLAPS for
every instance.

## The system

A request reaches the EPP as an Envoy external-processing stream
(`pkg/epp/handlers`). The director (`pkg/epp/requestcontrol`) parses it, asks
the admission controller to let it pass, has the scheduler (`pkg/epp/scheduling`)
choose an endpoint from the datastore (`pkg/epp/datastore`, fed by the
Kubernetes reconcilers and by the data layer's metric collectors), and runs the
plugins' hooks before the request and on every piece of the response.

With flow control on, admission is `FlowController.EnqueueAndWait`:

| Part | State | Operations | Talks to |
|---|---|---|---|
| Flow controller (`flowcontrol/controller/controller.go`) | workers by shard, request contexts | `EnqueueAndWait`, `tryDistribution`, `distributeRequest`, `awaitFinalization`, `reconcileProcessors`, `shutdown` | registry (lease, shards), processors |
| Flow item (`controller/internal/item.go`) | handle, final state, done channel | `SetHandle`, `Finalize`, `FinalizeWithOutcome` | written by the request's goroutine, the processor and the queue |
| Shard processor (`controller/internal/processor.go`) | `enqueueChan`, lifecycle | `Submit`, `SubmitOrBlock`, `Run` (`enqueue`, `dispatchCycle`, `shutdown`), `runCleanupSweep` | shard, queues, saturation detector, policies |
| Registry shard and managed queue (`registry/shard.go`, `managedqueue.go`) | queues by flow, statistics by band, draining flag | `Add`, `Remove`, `Cleanup`, `Drain`, `synchronizeFlow`, `deleteFlow`, `markAsDraining` | registry statistics |
| Flow registry (`registry/registry.go`, `leasing.go`) | flow and band leases, shards, configuration | `WithConnection`, garbage collection, scaling, repartition | shards |
| Queues, policies (`framework/plugins/queue`, `plugins/flowcontrol`) | heap or list, round-robin cursor | `Add`, `Remove`, `Cleanup`, `Drain`, `Pick` | managed queue, processor |
| Eviction of running requests (`flowcontrol/eviction`) | in-flight and evictable requests | `PreRequest`, `ResponseBody`, `EvictN` | director hooks, model servers |

What makes it hard: the item of a request is finalized by whichever goroutine
comes first (the request's own, on TTL or cancellation, or the processor);
the sweep changes queues and statistics while the Run loop checks capacity; the
registry deletes queues and drains shards under both; and a shutdown races
requests that are still being handed off. Around it, reconcilers, collectors,
caches and background loops work on shared maps without a common lock; bodies
and streams arrive in pieces; and processes start from configurations read in
several places. `PROJECT.json` lists these hazards at the lines where they bite,
and every part of the repository with what is modelled of it.

## Modules

| Module | Models |
|---|---|
| `FlowItem` | an item's handle and outcome; finalization happens once |
| `RequestLifecycle` | abstract specification: pending, queued, one outcome, one answer |
| `ShardProcessor` | one shard: request goroutines, Run loop, sweep, shutdown, registry events |
| `MCShardProcessor` | constants for TLC: two flows in two bands, up to three items |
| `ShardItemProofs` | its inductive invariant `IInv`, what steps may change, and that they keep what it says of the items and the dispatch cycle |
| `ShardProcessorProofs` | the same for the statistics; the theorems and the refinement |
| `FlowRegistry`, `MCFlowRegistry` | leases, provisioning, garbage collection and scaling of the flow registry |
| `FlowRegistryProofs` | the invariant of the leases; what a call of `WithConnection` and the collector may do to them; the bands |
| `FlowRegistryBandProofs` | the lease count of a band, and with it all of `LeasesExact` |
| `InFlightLoad` | the in-flight load producer and the concurrency detector |
| `EvictionQueue` | the eviction plugin: tracked requests, heap, aborts |
| `RequestPath`, `MCRequestPath` | composition: ext_proc stream, director, and the hooks of the two modules above |
| `RequestPathProofs` | the inductive invariant of the path, what steps do to hooks, tracking, load counters and the order of responses; the theorems, for any streams |
| `Component` | what the modules below share: `part`, `st`, `Nil`, helpers on functions |
| `Components` | all of them in one instance, and the constants for TLC |
| `FlowDistribution` | the flow controller above the shards: workers, distribution, reconciliation |
| `ComponentProofs` | one processor per shard, fresh candidates, and adapters that follow the ConfigMaps, for any instance |
| `Queues` | list queue and max-min heap |
| `FlowConfig` | flow control configuration, partition of limits, detector parameters |
| `FlowPolicies` | ordering and fairness policies |
| `Datastore`, `DatastoreProofs` | pool, endpoints, pod and pool reconcilers; the store converges, for any pods and pools |
| `ModelRewrites` | rewrite rules, objectives, weighted choice of a target model |
| `Candidates` | subset filter and its cache |
| `DataLayer`, `MetricsExtraction` | collectors, legacy metrics client, pool gauges, notifications; what is read from a metrics page |
| `SchedulingPlugins`, `Scheduling` | filters, scorers, pickers; a scheduling cycle |
| `PrefixCache` | approximate prefix index and plugin state |
| `PredictedLatency` | request contexts, running requests and tokens in flight of the predicted-latency plugins |
| `LatencyTraining` | the predictions one request asks for and the training entries it sends |
| `RunningQueue` | the heap of running requests of an endpoint |
| `LatencySelection` | judgement, shedding and selection by predicted latency |
| `PredictorClient` | coalescer, training buffer and shutdown of the predictor client |
| `PredictorModel` | its configuration, what it knows of the servers' model, and the predictions from that |
| `TrainingServer`, `ModelSync` | the latency predictor service: training and saving; download and use by the workers |
| `ModelProofs` | the training server serves what a restart serves; models reach the workers, for any files, workers and saves |
| `Parsers` | request parsers, usage and model names in responses cut anywhere, what is reported of the usage |
| `AdapterStore`, `BodyBasedRouting` | the body-based router: adapter table; start and streams |
| `ConfigLoader`, `Startup`, `MCStartup` | configuration document to running process, health answers |

### `ShardProcessor`

State, by owner:

- request goroutines: `pc` (the step of `EnqueueAndWait`), `ctx` (live, or why
  the context ended) and `result` (what was returned). An element of `Items` is
  one distribution attempt; the retry after a draining shard makes a new item,
  so it is another element.
- processor: `enqueueChan` (a bounded sequence), `run` with `hand`, `picked`,
  `band`, `viable` (the local variables of `enqueue` and `dispatchCycle`),
  `lifecycleDone` and `isShuttingDown`.
- shard and queues: `flows` (flows that have a queue), `queue` (their contents,
  as sets), `draining`, and the four statistics.
- sweep: `sweeping` (queues the current sweep still has to visit), `releasing`
  (items a `Cleanup` has taken out and not yet taken off the statistics: the
  window in which the queue's mutex is held), `sweeperUp`.
- `skipped` is a history variable: bands this dispatch cycle passed over because
  of a race.

A step is what one goroutine does between two points where another one can
change what it reads next. So `enqueue` takes three steps (check of the final
state, lookup and capacity check, `Add`), a dispatch takes four (pick, peek,
remove, finalize), `Submit` and `SubmitOrBlock` load `isShuttingDown` in one
step and run their `select` in another, and the shutdown drains the channel one
item at a time. What is merged, and why nothing is lost by it:

- a finalization (the body of `sync.Once`) is one step: only `SetHandle` can
  fall inside it, with the same end state as `SetHandle` after it;
- a worker of `evictAll` drains a queue and finalizes its items in one step: in
  between, only the items' own requests can finalize them, with the same end
  state as before the drain;
- a flow's deletion between `enqueue`'s lookup and `Add`, or between a sweep's
  lookup and its `Cleanup`, ends in the same state as a deletion after them;
- `hasCapacity` reads the statistics one by one, but only sweeps change them
  meanwhile and they only decrease them: the verdict is that of one reading.

Left open, so that the results hold for every policy: which non-empty queue the
fairness policy picks, which item of a queue is its head, and how many bands the
saturation and the usage limits allow in a cycle. The high-level error texts,
metrics and logging are left out. Priority bands are fixed.

Assumed of the registry: `deleteFlow` never hits a flow on which a request holds
a lease (`Leased`), and `Connect` provides the flow's queue before the request
goes on. `NoLostItem` rests on both. `FlowRegistry` examines the promise: an
active flow stays in the map (`ActiveFlowIsLive`), but its queues can go with a
band that is not leased yet (run `registry_unpinned_band`), so `NoLostItem`
holds of the program only outside that race.

### `FlowRegistry`

Flow and band states are objects with an identity, because a key may come back
with a new object while a goroutine still holds the old one. A step is one
`sync.Map` operation or one critical section. The clients run `WithConnection`
with its pin loop, provisioning and error paths; the collector runs its three
collections; `updateShardCount`, which only the constructor and tests call, adds
and drains shards. As in the code, the idle period of a flow counts from the
moment its last connection was opened, and configured bands are collected like
others. `crashed` is the panic of a nil dereference, which `BandsOnEveryShard`
and `CallsEnd` except. A provisioning that fails deletes its flow by key, which
may take another goroutine's object out of the map: `ActiveFlowIsLive` and the
band half of `LeasesExact` name that exception, and the flow half has none.

### `RequestPath`, `InFlightLoad`, `EvictionQueue`

A stream is a goroutine and a step is the handling of one message with all its
responses; the director is cut where it blocks or works on copies of endpoints.
Returning from `Process` runs its deferred function in the same step. Requests
fail at every step that can fail, sends fail, clients disconnect, a pod is
deleted (the datastore and the load producer learn of it at different times) and
comes back, and the eviction plugin pops, aborts and re-tracks. With flow
control on, admission passes or fails at any time. Request ids are taken to be
unique. `Varied` and `Pools` bound which stream varies its messages and which
pool loses a pod.

### `Component` and the modules that extend it

The other components share no variable with one another, so they are checked in
one instance whose state is a sum: `part` names the component and `st` is its
state, a record whose fields are the component's variables. A behaviour of
`Components` is a behaviour of one component, and every property is an
implication from its `part`. Each module says in its header what a step is; in
short:

| Module | Concurrent parts and faults | Data abstraction |
|---|---|---|
| `FlowDistribution` | requests, supervisor, shards that come and go, shutdown | a processor's hands hold an item until one of its outcomes |
| `Queues`, `RunningQueue` | one lock: a step is an operation | arrays and indices as in the code, items are numbers |
| `FlowConfig` | none: every document of the instance | limits are small numbers |
| `FlowPolicies` | flows and items come and go between picks | times are small numbers |
| `Datastore` | pod and pool worker, event queue, failing list, `sync.Map` steps | labels and ports are small sets |
| `ModelRewrites` | reconcile requests in any order, `Clear` | weights are numbers; a draw is any number below the sum |
| `Candidates` | requests, cleanup, endpoints that change, a clock | subset entries are [ip, port] or no string |
| `DataLayer`, `MetricsExtraction` | collectors, releases, late polls, failing extractors, retried notifications | a page is a set of series; adapters are sets |
| `Scheduling`, `SchedulingPlugins` | none: every endpoint data of the instance; maps walked in any order | scores are exact integers in parts of `Unit`, where the code has floats |
| `PrefixCache` | preparation overtaken by the director's timeout, index goroutine, cleanup, pod removal | a hash is the prefix it hashes |
| `PredictedLatency` | hooks of several requests, cut at each map and counter operation; expiry | token counts are small numbers |
| `LatencyTraining` | the chunks of one answer while a clock and the metrics go on | metrics are the time they were read at |
| `LatencySelection` | none: every prediction of the instance | latencies are small integers; random draws are any outcome |
| `PredictorClient` | callers, dispatcher, timer, dispatch slots, stop; flushes that fail | a row is its caller and index |
| `PredictorModel` | refreshes of status, model and metrics between predictions, each of which may fail | fractions are exact; a page is a sequence of lines |
| `TrainingServer` | samples, flushes, training thread, failed writes, kills and restarts (up to `MaxCrashes`), in every file of a save and in the saves of `load_models` | a model or a scaler is the cycle that fitted it |
| `ModelSync` | saves, sync threads and `/reload` of several workers; loads that fail | a model is the save that wrote it |
| `Parsers` | every cutting of a response into chunks | a message is two halves; a gRPC frame is complete, cut or compressed; a CEL program is its result |
| `AdapterStore` | ConfigMaps that change while a reconcile is outstanding | names are a small set |
| `BodyBasedRouting` | messages in every order the proxy sends them, failing plugins | a body is length, validity and model; the sends of a handler are one step |
| `ConfigLoader`, `Startup` | Go maps walked in any order; pool and leadership come and go | documents, command lines and plugin types that differ in what the code looks at |

A flaw the code has is not hidden by a weaker property: the property names the
exact case in which the promise fails, and fails itself if there is another one.
Some of these exceptions need the model to remember that the case has happened
(`raced`, `unlisted`, `skewed`, `overtaken`, `orphans`, `err`, ...). Such fields
are history only: no guard reads them.

## Runs

`MCShardProcessor` has two flows, `f1` in the high band and `f2` in the low one,
items `i1`, `i2` of `f2` and `i3` of `f1`, where `i2` weighs 2 and the others 1.
The channel holds one item, so that a second hand-off blocks. The shard's limits
are 2 requests and 3 bytes, the high band's 1 byte, the low band's 2 requests:
every limit can be hit, and each band has one unlimited dimension. `Deadlined`
and `Cancellable` say which contexts may end, `Events` what the registry and the
owner may do; both only bound the runs.

| Run | Instance | Checks | Result |
|---|---|---|---|
| `shard_stop` | 2 items, drain, collection and stop | `TypeOK`, `ReturnsTheOutcome`, `NoLostItem`, `ImplementsLifecycle` | hold |
| `shard_gc` | 3 items, drain and collection | `OutcomeMatchesAdmission`, `WithinCapacity`, `DispatchedHasLeft`, `StrictPriority` | hold |
| `shard_live` | 2 items, stop, no collection, fair | `StatsExact`, `DeadlineHonoured`, `AcceptedIsFinalized`, `ZombiesLeave`, `ShutdownCompletes` | hold |
| `shard_stop_orphan` | 2 items, stop, fair | `ShutdownFinalizesAll` | violated |
| `shard_rejected_queued` | no registry events | `RejectedNeverQueued` | violated |
| `shard_gc_leak` | collection | `StatsExact` | violated |
| `registry` | 2 goroutines, 1 flow, 2 shards, fair | `LeasesExact`, `ActiveFlowIsLive`, `BandsOnEveryShard`, `CallsEnd` | hold |
| `registry_unpinned_band` | 2 goroutines, 1 shard | `LeasedFlowHasQueues` | violated |
| `request_path` | 2 requests, 2 endpoints, fair | `HooksOnce`, `LoadLedger`, `ResponsesWellFormed`, `TrackedRequests`, `CompletionRuns` | hold |
| `request_backpressure` | the same | `BackpressureSeesLoad` | violated |
| `startup_standalone` | the command lines of `MCStartup` | `StandaloneStarts` | violated |
| `components` | every component module above | one property each, below | hold |

Two items suffice for the shutdown races (one buffered, one blocked on the
channel), three for the competition for capacity: one queued, one finalized and
unswept, one asking. More are covered by the proofs.

Two goroutines and one flow suffice for the registry's races: one creates or
holds what the other, or the collector, works on. The clock advances only while
no goroutine is inside a registry call (`Stalls = FALSE`), which bounds the
runs, and stops at `MaxTime`: long enough for a flow and its band to be collected
and created again by the four calls (`MaxCalls`). In `request_path` one request is sheddable and one
is not, a picker returns one or two targets, one stream varies its messages and
the other one only disconnects; both runs have the legacy admission.

Deadlock is checked except in `components`, where a bounded component stops when
its changes are used up. `Terminated` is the stuttering step of a shard that has
nothing left to do; the registry's and the request path's are disjuncts of
`Next`.

### What `components` checks

Some three million states in all. The bounds are in `Components.cfg`; each is chosen so
that the exception a property names does occur, and every property has a mutant
of the code that violates it under the same bounds.
The heap holds up to six items, which is three levels: an item may pass one
grandparent on its way up, never two (that takes sixteen).

| Property | Says, in short | Exceptions of the code it names |
|---|---|---|
| `OneProcessorPerShard` | a shard's queues have one running processor, and it is the one in the map | a shard added between the supervisor's snapshot and its visit, or removed while its worker starts, may have a second one beside one that is stopping |
| `QueueKeepsItsItems` | live handles are the queued items, indices and byte sizes agree, head and tail are extreme | the max-min heap's order after a `Remove` whose filler belongs above the hole, until a `Cleanup` |
| `FlowConfigSound` | an accepted configuration is complete, limits are partitioned completely and evenly, detectors never divide by zero | a share of 0 means no limit on the shards past a limit smaller than their number |
| `ServedInTurn` | round robin passes a waiting flow at most once per other flow; global strict picks a minimal head | the scan restarts when the flow under the cursor is removed |
| `DatastoreConverges` | once all events are handled, endpoints and collectors are those of the ready, matching pods | a pool whose pods could not be listed; a pod being reconciled when the pool worker takes the lock |
| `RewriteRuleChosen` | the rule is the oldest exact, else the oldest generic one; targets are drawn in proportion to their weights | objects forgotten by `Clear`; a rule without targets empties the model name |
| `CandidatesFresh` | candidates are the request's own subset of a set at most one TTL old | a single entry that is no string shares the key of "no filter" |
| `ServersKnown` | no write after release, metrics follow the newest series, fresh means something was read, notifications converge | the legacy client may store late and calls any page fresh |
| `ScheduleJustified` | targets survive the filters, are distinct, enough and best; detector and filter agree | |
| `PrefixStateSound` | the indexer's two tables agree; plugin state can be reaped | hashes evicted by their own batch; a `Write` overtaken by a `Delete` |
| `LatencyDataSound` | tokens counted for a pod are those of its requests plus a named error; training entries and predictions are about the pod, load and times the request met | lost updates of deleted counters, a first token in under a millisecond, expiry after a snapshot that was not positive |
| `SelectionJustified` | shedding and selection agree with the objectives, and admission with the scorer | with one objective given the other counts as zero; a running request without objective hides those of others; admission takes the scraped number of running requests for idleness where the scorer takes those dispatched, so they disagree about a stale endpoint |
| `PredictorSound` | every submission is in one place, answers have the caller's rows, samples keep proportions, a prediction comes from one consistent model, all prediction paths of the server agree | a submission stranded by a stop waits for its context; a share may be one entry short where the float product is truncated (58 of 200 entries give 28 of 100); a sample may be short when the largest group is |
| `TrainingServerSound` | what is served is what a restart serves; a model and its scaler are of one fit, an ensemble of one cycle | after a save ended by a kill or an error: a model is served with the scaler of an earlier fit; a torn file, or a first model without its scaler (no file is torn then), prevents the next start |
| `ModelsReachWorkers` | downloads follow saves, loaded models follow files | a ready worker does not load what another worker downloaded; a save during a download is missed; a load whose file was replaced between its checksum and its `joblib.load` is kept when the former file comes back, because its checksum says that nothing changed; a load that failed is not repeated by a ready worker, and for a gated model not even by a later load, since its checksum was kept |
| `BodiesUnderstood` | both routers: a body leads to the prescribed headers and body; usage and model names are read from every cutting, and what was read is reported, once | whatever a chunk boundary cuts; the name of the target is shown for a request whose `model` is the empty string |
| `AdaptersFollowConfigMaps` | the base model is the one the live ConfigMaps prescribe | maps deleted outright, renamed base models, adapters two maps share |
| `StartupSound` | a sound document with a pool comes up and runs as configured; ready means a pool and leadership | a data section whose list of sources is empty is not sound, whatever the guide says of it (below) |

### What the violated runs show

- `shard_stop_orphan`: `Submit` finds `isShuttingDown` false, the processor
  starts its shutdown and its drain loop sees the channel empty, then the send
  succeeds. The item is accepted and the processor never finalizes it; without a
  TTL or a cancellation the request waits for ever. With a TTL it does not
  (`DeadlineHonoured` holds).
- `shard_rejected_queued`: the context ends after `enqueue` has checked the final
  state; the item's handle is nil, so the caller is told `RejectedOther`, and
  then `Add` takes the item in. The item is a zombie until a sweep
  (`ZombiesLeave` holds), and it may even be removed by a dispatch.
- `shard_gc_leak`: the last request of a flow is answered on its TTL, the flow
  is collected before the sweep has visited its queue, and `deleteFlow` drops
  the queue without giving its statistics back. The capacity is lost for good.
- `registry_unpinned_band`: the goroutine that creates a flow leases its band
  only after it has stored the flow. A second goroutine finds the flow, pins it,
  provisions it and enters its callback; the idle band is collected in between,
  and the queue goes with it.
- `request_backpressure`: the load producer writes the in-flight load to the
  copies of the endpoints made for one request, and the concurrency detector
  reads the originals, which nobody writes: it never sees a saturated pool.
- `startup_standalone`: the flags accept an endpoint selector instead of a pool
  name, and the construction of the pool then refuses the empty name.

### Other observations

Met while modelling, and part of the models, but not the subject of a run:

- The comment of `FlowControlAdmissionController.Admit` says that it checks
  sheddable requests for saturation first; the code only enqueues.
- A data section with an empty list of sources, without the legacy gate, ends the
  start-up (`pkg/epp/datalayer/runtime.go:67-69`). The configuration guide
  (`config-text.md:606-618`), `datalayer/factory.go:31` and the comments of
  `defaults.go:292-294` and `configloader.go:126-127` say that it is valid and
  disables the collection. The guide also says (`:616`) that omitting the section
  is an error; the code then injects the default source. `StartupSound` states
  what the code does in both cases.
- The README of the latency admission (`latencyslo/README.md:19` and `:34`) says
  that an endpoint is idle by the requests dispatched to it; the code reads the
  scraped number (`plugin.go:132`). `SelectionJustified` follows the code.
- The entry for the time per output token is said to have "dispatch-time metrics"
  (`requestcontrol_hooks.go:285`), and training to happen "on every token
  regardless of sampling" (`decode_token_sampler.go:27`, `sampler.go:27`). The
  code sends one entry, at the end of the answer, with the metrics of the last
  token, and `TrainingDataFaithful` says so.
- The environment variable of flow control builds its configuration, and the
  admission still is the legacy one (`StartupSound` states both).
- The load producer counts a request at every target of the picker and takes it
  off the first one only (`LoadLedger` states the surplus).
- `predict` and `predict_batch` of the prediction server ignore the tokens in
  flight that `predict_batch_fast` uses.
- A body-based router's message that ends in trailers gets only the answer to
  the trailers when streaming.
- The ConfigMap reconciler, when its ConfigMap is gone, passes an empty object to
  the adapter store, which removes nothing.

### Fairness

`FairSpec` assumes that goroutines that can run are scheduled (weak fairness of
each request, of Run and of the sweep), that a `select` reached again and again
takes each of its ready cases (strong fairness of `Receive`, `ShutdownStart` and
`SweepStop`: Go chooses among ready cases at random), that TTLs expire, and that
again and again a dispatch cycle finds the pool below every band's ceiling
(strong fairness of `StartCycle(NumBands)`). The last is an assumption about
the model servers, and only `AcceptedIsFinalized` needs it. Client
cancellations, connections and registry events are not assumed to happen.

The registry's `FairSpec` assumes that the goroutines of the collector and of
the calls are scheduled, which `CallsEnd` needs because the pin loop waits for
the collector to remove what it has marked. That of `RequestPath` assumes that
stream goroutines run, that Envoy ends a stream it has no more use for (its
message timeouts), and that the waiting goroutines of the eviction plugin run.
`components` checks invariants only and needs no fairness.

## Proofs

`ShardItemProofs` and `ShardProcessorProofs` prove, for any finite sets of items and flows, any number
of bands, any limits and any buffer size (`ConstantsAssumption`), and any additive
measure of size (`BytesAssumption`):

| Theorem | States |
|---|---|
| `TypeCorrect` | `TypeOK`: in particular no statistic goes below zero, so the panic in `managedqueue.go` is unreachable |
| `OutcomeReturned` | `ReturnsTheOutcome` |
| `NothingLost` | `NoLostItem` |
| `DispatchedOnce` | `DispatchedHasLeft` |
| `OutcomeKind` | `OutcomeMatchesAdmission` |
| `CapacityKept` | `WithinCapacity` |
| `PriorityKept` | `StrictPriority` |
| `StatsExactWithoutGC` | `StatsExact`, when no flow is ever collected |
| `Refinement` | `ImplementsLifecycle`: `ShardProcessor` implements `RequestLifecycle` |

All rest on one inductive invariant, `IInv` (theorem `Inductive`), which adds to
`TypeOK`:

- `ItemInv`: where each item can be, given its request's step. `RequestInv` and
  `ChanInv` say that only handed-off items are in the channel, once each;
  `QueueInv` that an item is only in its own flow's queue and only with a
  handle; `HandInv` what `hand` may be at each step of Run; `OutcomeInv` which
  outcomes go with which admission; `PlaceInv` that an accepted, unfinalized
  item is somewhere. Each is needed because the properties speak of items whose
  path led through all these places.
- `PriorityInv`: what the dispatch cycle knows of the bands above the current
  one; contents of queues only shrink during a cycle, which is why it holds on.
- `StatsInv`: the statistics cover the contents (they may exceed them after a
  collection, never fall short), and the limits bound the statistics; between
  the capacity check and `Add` the check stays true, since only Run adds. This
  is the single-writer argument of the processor's comment, made precise:
  `WithinCapacity` needs only one inequality, so it survives the leak above.

Each action has one step in the proof of each part; lemmas about the cardinality
and size of sets under insertion and removal carry the arithmetic.

### Flow registry

`FlowRegistryProofs` and `FlowRegistryBandProofs`, which extends it, prove, for
any finite set of goroutines, any flows and priorities, any shard counts, any
bounds and any timeouts the configuration accepts (`RegistryAssumption`):

| Theorem | States |
|---|---|
| `LeasesAreCounted` | `LeaseCountExact`, the flow half of `LeasesExact`, also when goroutines stall for as long as they like (`Stalls`) |
| `LeasedFlowStays` | `ActiveFlowIsLive`, also when they stall |
| `BandsFollowConfig` | `BandsOnEveryShard`, also when they stall |
| `LeasesAreExact` | `LeasesExact` |

`LeaseInv` is inductive. To the exact count it adds which object each step of a
call works on and that it has the right key (`CallInv`), that one goroutine at a
time provisions a flow and that its verdict stays (`OnceInv`), what the collector
knows of its candidate (`GCInv`: what it deletes it has marked), and that a
leased object is unmarked and mapped (`HeldInv`). A pin is rechecked, so between
pin and recheck a goroutine holds a lease it may still give back; `Holds` counts
it, and the count could not be exact otherwise. Every action of a call is shown
to be a `CallStep`, which changes no other call, at most the one lease it takes
or gives back, and no object's key; the invariant is then proved once for
`CallStep`, and once for each step of the collector. `BandInv` says that every
active shard's bands are the configuration's, given `LeaseInv`.

A band is leased by flows, not by goroutines, and the lease is taken after the
flow has been stored and given back after it has been deleted, by whoever did
either. `BandLeases` therefore counts, for each band, the mapped flows whose
creator has pinned the band (`Leased`) and the flows the collector has deleted
and has yet to unpin (`Owed`): together they are the band's lease count
(`Counted`) as long as no provisioning has failed. That a creator is the only one
(`CreatedApart`), that the flow it stored cannot be collected before it has pinned
it (`Fresh`, where it matters that nobody stalls for a collection period), and
that a deleted object is the one that was marked (`Mapped`) make it inductive. At
rest nobody is creating and nothing is owed, which is `BandLeaseExact`.

### Datastore

`DatastoreProofs` proves `StoreConverges`, which states `DatastoreConverges`, for
any pods, pools with any ports (`PoolAssumption`) and any number of changes and
events. The pod worker and the pool worker write endpoints and collectors one by
one, so an operation is done in steps (`todo`, `doing`). The invariant follows
each pod that is not raced: its endpoints and collectors agree but for the
operation being done on it (`PodTogether`); and unless an event of it is on its
way (`Steady`), or the pod worker has read it and not acted yet, the operations
left to do end in the endpoints it should have (`PodSettled`). `PodRead` says that
what the pod worker has read is as good as what the API has, and `Resyncing` what
the pool worker's list still has to say of a pod. A pod the two workers met on is
`raced`; it stops being so when the pool worker takes the lock again while nobody
works on the pod and its endpoints and collectors agree. When they do not (a pod
stored while `Clear` is releasing keeps its collector, and `NewEndpoint` refuses
it from then on), it stays so.

### Components

`ComponentProofs` and `ModelProofs` prove properties of components that share no
state. The specification of each (`DistributionSpec`,
`CandidatesSpec`, `AdaptersSpec`, `TrainingSpec`, `ModelSyncSpec`, and
`DatastoreSpec` above) is the part of `Components` in which `part` has that
component's name.

| Theorem | States | Assumptions |
|---|---|---|
| `ShardHasOneProcessor` | `OneProcessorPerShard` | finitely many shards (`ShardsAssumption`) |
| `LookupsAreFresh` | `CandidatesFresh` | a positive TTL; lists are absent or sequences (`CandidatesAssumption`) |
| `AdaptersAreCurrent` | `AdaptersFollowConfigMaps` | finitely many ConfigMaps (`MapsAssumption`) |
| `TrainingServerIsSound` | `TrainingServerSound` | `Nil` is no number (`NilAssumption`) |
| `ModelsAlwaysReach` | `ModelsReachWorkers` | there is a base file; files are given as sequences (`SyncAssumption`) |

`DistributionInv` adds
that a request about to store a worker has built one for the shard it is at, that
the map holds workers under their own shards, and the reason for the result: a
running worker is in the map, or is cancelled and its shard gone or raced. Two
running workers of a shard would both be the one the map has.

`CandidatesInv` says of every cache entry that it is under the key of the list it
was computed for and, until it expires, holds what that list selected from the
endpoints of the time it was written. Lists under one key select alike, the
malformed list apart (`SameSelection`), so a hit is an answer to the request.

`AdaptersInv` says of every map that waits for no reconcile and is no orphan that
the store knows it exactly when it counts (`MapsSettled`), that an adapter no two
maps shared has an entry exactly while a known map lists it (`AdaptersListed`),
and that a base model is counted once for each map registered with it
(`BasesCounted`). The last is why a map whose base model was renamed matters: its
delete lowers the count of another name, and `moved` keeps both.

`TrainingInv` says which files still differ from memory while a save is under way
and that a server that starts has loaded what the files hold (`Saved`, `Loading`),
that a model in memory has the scaler of its own fit unless both were loaded so
from an interrupted save (`Pairs`), that both gated models are of the last cycle
that is done (`OneCycle`), that a truncated file is the one being written unless a
write was interrupted (`TornByCrash`), and that before the first interruption a
file has no content that memory lacks (`Fresh`): a first model without its scaler
is therefore the trace of one. The number of kills and failed writes is any. What buckets and training make of the samples does not matter to
it, so the proof holds for any samples.

`SyncInv` says of every thread of a worker what it has read and loaded so far
(`ThreadOK`: the local file, or the file was replaced since), and of every worker
and file that its model or its checksum is the local file's, or one of its threads
is going to notice, or the file is one that nobody will (`FollowsFile`). The
checksum is an alternative because `load_models` decides by it: a worker whose
checksum is the local file's does not load. `LoadedBySums` ties the two: models
are those of the checksums but for files replaced under the load (`torn`), the
gated ones when one of them was missing, and files whose load failed (`failed`).
`FailuresKnown` says that once a load has failed, a file with a checksum and no
model is one a failure left behind: the checksum of a gated file is kept although
its load failed. Only the last part of the argument needs
the exceptions `ModelsReachWorkers` names; the one about `torn` was found by
checking `SyncInv` on a larger instance than that of the run (two workers with
`/reload` and three saves).

### Request path

`RequestPathProofs` proves, for any finite set of streams, any endpoints, pools
and pickers (`PathAssumption`), either admission and any number of chunks:

| Theorem | States |
|---|---|
| `HooksRunOnce` | `HooksOnce` |
| `TrackingIsBounded` | `TrackedRequests` |
| `LedgerBalances` | `LoadLedger` |
| `ResponsesInOrder` | `ResponsesWellFormed` |

The first three rest on `IInv`. `PathInv` relates a stream's step and phase to
the hooks it has run (a stream that has not returned has targets exactly when its
`PreRequest` hooks have run), `TrackInv` keeps the eviction plugin's tables
consistent with each other, `LoadInv` is the ledger with the types of its
counters. Every action of a stream is a `StreamStep`: it replaces one context and
runs no hook, the `PreRequest` hooks or the completion hooks. The counters are
sums over streams, so the ledger's step uses that one stream enters or leaves the
set counted at an endpoint; the picker's targets are distinct, which is why a
request counts once at each of them.

`ResponsesInOrder` rests on `ResponseInv`, inductive together with `IInv`: what a
stream that goes on has sent fits its `RequestState` (`SentSoFar`), so whatever `updateStateAndSendIfNeeded` may send next ranks
above all it has sent. A send that fails leaves a prefix, and prefixes of ordered
sequences are ordered.

### Only model-checked

`LeaseInv`, `BandInv`, `BandLeases`, `DistributionInv`, `CandidatesInv`, `AdaptersInv`,
`DatastoreInv`, `TrainingInv`, `SyncInv`, `IInv` of both modules and `ResponseInv` were
checked with TLC on the instances of the runs, or larger ones, before they were
proved.

These results are those of the instances:

- the liveness properties (`DeadlineHonoured`, `AcceptedIsFinalized`,
  `ZombiesLeave`, `ShutdownCompletes`, `CallsEnd`, `CompletionRuns`): fairness is
  out of the prover's reach;
- the twelve other properties of `components`. Most rest on recursive
  definitions, folds or sorted and selected sequences that the prover cannot
  unfold for every input: the heaps (`QueueKeepsItsItems`, part of
  `LatencyDataSound`), the graph walk and the folds of `StartupSound`,
  `ScheduleJustified`, `BodiesUnderstood` and `FlowConfigSound`, the series and
  the caches of `ServersKnown` and `PrefixStateSound`, the sorted rules of
  `RewriteRuleChosen`. `ServedInTurn`, `SelectionJustified` and `PredictorSound`
  have parts within its reach that have not been proved;
- the violated properties, which have counterexamples.

## Not modelled

`PROJECT.json` lists every part with what is left out of it. In short:

- HTTP, TLS, gRPC servers, leader election and the Kubernetes client are taken as
  the code uses them: a call succeeds or fails, an event arrives sooner or later.
- Metrics, logs, traces and error texts, and with them the legacy metrics logger.
- The Prometheus text format, JSON and protobuf decoding: a document is what it
  parses to, or does not parse.
- What latency models compute, and floating-point rounding: scores and thresholds
  are exact integers, so ties that only rounding makes or breaks are not covered.
- Clocks: times are only compared, and `ModelSync` takes the clocks of training
  and prediction server as synchronized, as the comparison of modification times
  does.
- What a CEL program of the request attribute reporter computes, attribute maps
  and cycle states, the constant usage-limit policy, the translation of queue
  outcomes into error codes.
- Two data races of the code whose outcome is not a state: `Stats` reading the
  band configuration while it changes, and data producers that still write after
  the director has given up on them.
- API types, generated clients, conformance tests, tools and charts.
