----------------------------- MODULE DataLayer ------------------------------
(***************************************************************************)
(* How the state of the model servers reaches the endpoint picker: the     *)
(* collector of an endpoint, which polls the metrics page and lets the     *)
(* extractor update the endpoint; the refresh loop of the older metrics    *)
(* client; the gauges of the pool, computed from the endpoints whose       *)
(* metrics are fresh; and the reconciler that passes the changes of a      *)
(* watched Kubernetes object to its extractors.                            *)
(*                                                                         *)
(* st.kind tells the two halves apart: "poll" and "notify".  Module        *)
(* Datastore has the life of the endpoints and of the collectors' map.     *)
(***************************************************************************)
EXTENDS MetricsExtraction

CONSTANTS
    ExtractorParams,   \* parameters of the core metrics extractor
    LegacyConfigs,     \* the metric specifications of the older client
    Pages,             \* metrics pages
    PodEngines,        \* the pods that come, with their engine label (Nil for none)
    MaxEndpoints,      \* how many endpoints are made
    MaxPolls,          \* how often a page is read
    MaxTime,           \* how far the clock goes
    StalenessThreshold, \* the age up to which metrics are fresh
    Extractors,        \* the extractors of a notification source
    MaxVersion         \* how often the watched object changes

-----------------------------------------------------------------------------
\* The older client.

\* Split at every "=": what another operator leaves on the name makes it a label no series has.
stringToMetricSpec(text) ==
    IF text = Nil THEN Nil
    ELSE LET key(m) == IF m.op = "=" THEN m.label ELSE m.label \o "!"
         IN [name |-> text.name,
             labels |-> [l \in {key(m) : m \in text.matchers} |-> (CHOOSE m \in text.matchers : key(m) = l).value]]

NewMetricMapping(cfg) ==
    IF \E f \in DOMAIN cfg : Unparsable(cfg[f]) THEN Nil ELSE [f \in DOMAIN cfg |-> stringToMetricSpec(cfg[f])]

gaugeValue(metric) == IF metric.kind = "gauge" THEN metric.value ELSE 0

\* Series without adapters are passed over: the last one with adapters stays the latest.
getLatestLoraMetric(spec, families) ==
    FoldLeft(LAMBDA latest, m :
                 IF adapters(m.info, "running_lora_adapters") \cup adapters(m.info, "waiting_lora_adapters") = {}
                    \/ gaugeValue(m) <= (IF latest = Nil THEN 0 ELSE gaugeValue(latest))
                 THEN latest ELSE m,
             Nil, extractFamily(spec, families))

\* strconv.Atoi assigned directly: a text that is no number makes the value 0.
atoi(v) == IF v \in {Nil, NotANumber} THEN 0 ELSE v

promToPodMetrics(mapping, families, existing) ==
    LET on(f) == getLatestMetric(mapping[f], families)
        gauge(f, old) == IF on(f) = Nil THEN old ELSE gaugeValue(on(f))
        lora == IF mapping.lora = Nil THEN Nil ELSE getLatestLoraMetric(mapping.lora, families)
        max == IF lora = Nil THEN Nil ELSE Lookup(lora.info, "max_lora", Nil)
        cache(label, old) == IF on("cacheInfo") = Nil \/ label \notin DOMAIN on("cacheInfo").info THEN old
                             ELSE atoi(on("cacheInfo").info[label])
    IN [existing EXCEPT
            !.waiting = gauge("queue", @), !.running = gauge("running", @), !.kv = gauge("kv", @),
            !.active = IF lora = Nil THEN @ ELSE adapters(lora.info, "running_lora_adapters"),
            !.waitingModels = IF lora = Nil THEN @ ELSE adapters(lora.info, "waiting_lora_adapters"),
            !.maxActive = IF max = Nil THEN @ ELSE atoi(max),
            !.blockSize = cache("block_size", @), !.numBlocks = cache("num_gpu_blocks", @)]

-----------------------------------------------------------------------------
\* Polling.  Of an endpoint, `before` and `page` record the metrics and the page of its last
\* update, `read` that a page told something, `sealed` the metrics when its release returned.

PollInit ==
    LET start(mode, mappings) ==
            [kind |-> "poll", mode |-> mode, mappings |-> mappings, eps |-> <<>>, held |-> <<>>,
             now |-> 0, polls |-> 0, gauges |-> {}]
    IN \/ \E params \in ExtractorParams :
              LET registry == newCoreMetricsExtractorPlugin(params)
              IN st = IF registry = Nil THEN [kind |-> "refused"] ELSE start("runtime", registry)
       \/ \E cfg \in LegacyConfigs :
              LET mapping == NewMetricMapping(cfg)
              IN st = IF mapping = Nil THEN [kind |-> "refused"]
                      ELSE start("legacy", [default |-> mapping])

mappingOf(e) ==
    IF st.mode = "legacy" THEN st.mappings.default
    ELSE GetMapping(st.mappings, getEngineTypeFromEndpoint(st.eps[e].engine))

SetEp(e, ep) == st' = [st EXCEPT !.eps[e] = ep]

newEndpoint(pod, engine) ==
    [pod |-> pod, engine |-> engine, metrics |-> NewMetrics, loop |-> "ready", page |-> Nil,
     before |-> NewMetrics, cancelled |-> FALSE, read |-> FALSE, sealed |-> Nil]

AddEndpoint(pod, engine) ==
    /\ pod \notin DOMAIN st.held
    /\ Len(st.eps) < MaxEndpoints
    /\ st' = [st EXCEPT !.held = With(@, pod, Len(st.eps) + 1), !.eps = Append(@, newEndpoint(pod, engine))]

\* The loop of an endpoint starts with it: in Collector.Start, or in the older client's NewEndpoint.
startCollection(pod, engine) == st.mode = "runtime" /\ AddEndpoint(pod, engine)
startRefreshLoop(pod, engine) == st.mode = "legacy" /\ AddEndpoint(pod, engine)

\* A page is read.  A poll that fails (no answer, another status, a page that does not parse)
\* changes nothing.
ReadPage(e) ==
    /\ st.eps[e].loop = "ready"
    /\ st.polls < MaxPolls
    /\ \E page \in Pages :
           st' = [st EXCEPT !.polls = @ + 1, !.eps[e].loop = "polled", !.eps[e].page = page]

\* The ticker fires; Go's select may choose it even when the loop has been told to stop.  The
\* collector's request is on its context and fails once that is cancelled; the older client's
\* is on a context of its own.
Poll(e) == st.mode = "runtime" /\ ~st.eps[e].cancelled /\ ReadPage(e)
FetchMetrics(e) == st.mode = "legacy" /\ ReadPage(e)

Update(e, updated) ==
    LET ep == st.eps[e]
        mapping == mappingOf(e)
        tells == \E f \in DOMAIN mapping \cap SpecFields :
                     mapping[f] # Nil /\ matching(mapping[f], ep.page) # <<>>
    IN /\ ep.loop = "polled"
       /\ SetEp(e, [ep EXCEPT !.loop = "ready", !.metrics = updated, !.before = ep.metrics, !.read = @ \/ tells])

\* The collector hands the page to the extractor.
Collect(e) ==
    st.mode = "runtime" /\ Update(e, Extract(mappingOf(e), st.eps[e].page, st.eps[e].metrics, st.now))

\* UpdateMetrics sets the time whatever the page held.
refreshPodMetrics(e) ==
    /\ st.mode = "legacy"
    /\ Update(e, [promToPodMetrics(mappingOf(e), st.eps[e].page, st.eps[e].metrics) EXCEPT !.time = st.now])

\* The loop sees that it is to stop.
LoopEnds(e) ==
    /\ st.eps[e].loop = "ready"
    /\ st.eps[e].cancelled
    /\ SetEp(e, [st.eps[e] EXCEPT !.loop = "done"])

\* ReleaseEndpoint takes the collector out of the map and cancels it.
CancelCollection(pod) ==
    LET e == st.held[pod]
    IN st' = [st EXCEPT !.held = Without(@, {pod}), !.eps[e].cancelled = TRUE]

\* A Stop that only cancels.
StopAtOnce(ep) == TRUE

\* Stop returns when the collector's goroutine has ended; stopRefreshLoop returns at once.
StopWaited(ep) == st.mode = "runtime" => ep.loop = "done"

StopReturns(ep) == ep.cancelled /\ StopWaited(ep)

EndpointReleased(e) ==
    LET ep == st.eps[e]
    IN /\ ep.sealed = Nil
       /\ StopReturns(ep)
       /\ SetEp(e, [ep EXCEPT !.sealed = ep.metrics])

ClockAdvances == st.now < MaxTime /\ st' = [st EXCEPT !.now = @ + 1]

podsWithFreshMetrics(ep) == ep.metrics.time # Nil /\ st.now - ep.metrics.time <= StalenessThreshold

\* The gauges of the pool are the number and the averages of the fresh endpoints; while there
\* is none the averages keep the endpoints they were last computed from.
refreshPrometheusMetrics ==
    LET ready == {e \in Range(st.held) : podsWithFreshMetrics(st.eps[e])}
    IN ready # {} /\ st' = [st EXCEPT !.gauges = ready]

PollNext ==
    \/ \E pe \in PodEngines : startCollection(pe.pod, pe.engine) \/ startRefreshLoop(pe.pod, pe.engine)
    \/ \E e \in DOMAIN st.eps :
          Poll(e) \/ FetchMetrics(e) \/ Collect(e) \/ refreshPodMetrics(e) \/ LoopEnds(e) \/ EndpointReleased(e)
    \/ \E pod \in DOMAIN st.held : CancelCollection(pod)
    \/ ClockAdvances
    \/ refreshPrometheusMetrics

-----------------------------------------------------------------------------
\* Notifications.  One watched object: its version, 0 while it does not exist.

NotifyInit ==
    \E obj \in {0, 1} :
        st = [kind |-> "notify", bound |-> FALSE, obj |-> obj, version |-> 1, queued |-> FALSE,
              event |-> Nil, view |-> [x \in Extractors |-> 0], failed |-> {}]

\* Runtime.Start binds the sources; the informer's first list queues the object.
RuntimeStart ==
    /\ ~st.bound
    /\ \/ st' = [st EXCEPT !.bound = TRUE, !.queued = st.obj # 0]
       \/ st' = [kind |-> "refused"]

\* The object is created, changed or deleted; every new resource version passes the filter.
ObjectChanges ==
    /\ st.version < MaxVersion
    /\ \E obj \in {0, st.version + 1} :
           /\ obj # st.obj
           /\ st' = [st EXCEPT !.obj = obj, !.version = @ + 1, !.queued = st.bound]

\* Reconcile up to the read from the cache, which may fail: then the key is queued again.
ReconcileGets ==
    /\ st.queued
    /\ st.event = Nil
    /\ st' = [st EXCEPT !.queued = FALSE, !.event = st.obj]

\* dispatch: a source may refuse the event, which is then tried again (the built-in one never does); an
\* extractor's error is only logged.
notifyDispatch ==
    /\ st.event # Nil
    /\ \/ st' = [st EXCEPT !.event = Nil, !.queued = TRUE]
       \/ \E failed \in SUBSET Extractors :
             st' = [st EXCEPT !.event = Nil, !.failed = failed,
                              !.view = [x \in Extractors |-> IF x \in failed THEN @[x] ELSE st.event]]

NotifyNext == RuntimeStart \/ ObjectChanges \/ ReconcileGets \/ notifyDispatch

DataLayerInit == PollInit \/ NotifyInit

DataLayerNext ==
    \/ st.kind = "poll" /\ PollNext
    \/ st.kind = "notify" /\ NotifyNext

-----------------------------------------------------------------------------
\* A series of the page that the specification matches and than which none that matches is newer.
Newest(spec, page) ==
    {m \in ToSet(matching(spec, page)) : \A n \in ToSet(matching(spec, page)) : n.ts <= m.ts}

\* `new` is what the page says of specification f, or `old` when it says nothing.
Follows(mapping, f, page, kinds, new, old) ==
    IF mapping[f] = Nil \/ matching(mapping[f], page) = <<>> THEN new = old
    ELSE \E m \in Newest(mapping[f], page) : new = IF m.kind \in kinds THEN m.value ELSE 0

\* The adapters an endpoint is said to run: those of the series created last - for the older
\* client of the last one that names any, so that they stay when the server has unloaded all.
AdaptersFollow(mapping, ep) ==
    LET series == IF mapping.lora = Nil THEN {} ELSE ToSet(extractFamily(mapping.lora, ep.page))
        runs(m) == adapters(m.info, "running_lora_adapters")
        named1(m) == runs(m) \cup adapters(m.info, "waiting_lora_adapters") # {}
        counted == IF st.mode = "legacy" THEN {m \in series : m.kind = "gauge" /\ m.value > 0 /\ named1(m)}
                   ELSE {m \in series : labelsMatch(mapping.lora, m)}
    IN IF counted = {} THEN ep.metrics.active = ep.before.active
       ELSE \E m \in counted : /\ \A n \in counted : extractValue(n) <= extractValue(m)
                              /\ ep.metrics.active = runs(m)

(* The picture of the servers the scheduler works from is sound.           *)
(*  - After its release has returned, an endpoint of the data layer is     *)
(*    never written again, although its collector polls in a goroutine of  *)
(*    its own: Stop waits for it.  (The older client may still store the   *)
(*    page it is reading.)  Exactly the endpoints held have a collector    *)
(*    that has not been told to stop.                                      *)
(*  - Each metric is the one of the newest matching series of the last     *)
(*    page, and one the page does not have keeps its value.                *)
(*  - In the data layer metrics count as fresh, and enter the gauges of    *)
(*    the pool, only after some page told something; the older client      *)
(*    sets the time after any page.                                        *)
(*  - An extractor of notifications that did not fail on its last event    *)
(*    knows the watched object as it is once nothing is queued, whatever   *)
(*    happened while events were retried.                                  *)
ServersKnown ==
    part = "datalayer" =>
        /\ st.kind = "poll" => \A e \in DOMAIN st.eps :
               LET ep == st.eps[e]
                   mapping == mappingOf(e)
                   kinds == IF st.mode = "legacy" THEN {"gauge"} ELSE {"gauge", "counter"}
               IN /\ st.mode = "runtime" /\ ep.sealed # Nil => ep.metrics = ep.sealed
                  /\ ep.cancelled = ~(Lookup(st.held, ep.pod, 0) = e)
                  /\ ep.loop # "polled" /\ ep.page # Nil =>
                        /\ Follows(mapping, "queue", ep.page, kinds, ep.metrics.waiting, ep.before.waiting)
                        /\ Follows(mapping, "running", ep.page, kinds, ep.metrics.running, ep.before.running)
                        /\ Follows(mapping, "kv", ep.page, kinds, ep.metrics.kv, ep.before.kv)
                        /\ AdaptersFollow(mapping, ep)
                        /\ st.mode = "legacy" => ep.metrics.time # Nil
                  /\ st.mode = "runtime" =>
                        /\ ep.metrics.time # Nil => ep.read
                        /\ e \in st.gauges => ep.read
        /\ st.kind = "notify" /\ st.bound /\ ~st.queued /\ st.event = Nil =>
               \A x \in Extractors \ st.failed : st.view[x] = st.obj
=============================================================================
