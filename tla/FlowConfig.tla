----------------------------- MODULE FlowConfig -----------------------------
(***************************************************************************)
(* The configuration of flow control: the translation of the API object    *)
(* into registry and controller configuration, with its defaults and       *)
(* validation, the partition of the capacity limits over the shards, and   *)
(* the parameters of the saturation detectors.                             *)
(* An error is Nil: whatever it says, the caller stops starting up.        *)
(***************************************************************************)
EXTENDS Component, SequencesExt

CONSTANTS
    FlowPlugins,      \* plugin handles: functions from references to what they name
    FlowAPIs,         \* API objects (Nil when the section is missing)
    DetectorParams,   \* parameters of a saturation detector, [type, and the fields that are set]
    MaxShardCount     \* the shard counts tried

\* queue/: what the registered queues are capable of.
Capabilities == [ListQueue |-> {"FIFO"}, MaxMinHeap |-> {"PriorityConfigurable"}]

\* runtimeCapabilityChecker: the queue is built and asked.
CheckCompatibility(policy, queue) ==
    queue \in DOMAIN Capabilities /\ policy.requires \subseteq Capabilities[queue]

-----------------------------------------------------------------------------
\* Nil is 0, a negative quantity an error.
resolveQuantity(q) == IF q = Nil THEN 0 ELSE IF q < 0 THEN Nil ELSE q

\* orderingPolicy, fairnessPolicy: a plugin of that name and of that interface.
lookupPolicy(handle, ref, kind) ==
    IF ref \in DOMAIN handle /\ handle[ref].kind = kind THEN handle[ref] ELSE Nil

DefaultBandMaxBytes == 9   \* stands for 1 GB: larger than every explicit limit

\* Mutant: a band's policy does not choose its queue.
ListQueueAlways(handle, pb) ==
    LET ordering == IF pb.ordering = Nil THEN lookupPolicy(handle, "fcfs", "ordering") ELSE pb.ordering
        fairness == IF pb.fairness = Nil THEN lookupPolicy(handle, "global-strict", "fairness") ELSE pb.fairness
    IN IF ordering = Nil \/ fairness = Nil THEN Nil
       ELSE [pb EXCEPT !.ordering = ordering, !.fairness = fairness, !.queue = "ListQueue",
                       !.maxBytes = IF @ = 0 THEN DefaultBandMaxBytes ELSE @]
applyDefaults(handle, pb) ==
    LET ordering == IF pb.ordering = Nil THEN lookupPolicy(handle, "fcfs", "ordering") ELSE pb.ordering
        fairness == IF pb.fairness = Nil THEN lookupPolicy(handle, "global-strict", "fairness") ELSE pb.fairness
    IN IF ordering = Nil \/ fairness = Nil THEN Nil
       ELSE [pb EXCEPT !.ordering = ordering, !.fairness = fairness,
                       !.queue = IF @ # Nil THEN @
                                 ELSE IF "PriorityConfigurable" \in ordering.requires THEN "MaxMinHeap" ELSE "ListQueue",
                       !.maxBytes = IF @ = 0 THEN DefaultBandMaxBytes ELSE @]

\* NewPriorityBandConfig with no options.
BareBand(priority) == [priority |-> priority, ordering |-> Nil, fairness |-> Nil, queue |-> Nil,
                       maxBytes |-> 0, maxRequests |-> 0]

\* buildPriorityBand, and buildDefaultPriorityBandTemplate with priority 0: the
\* quantities, then the references that are set, then the defaults.
buildPriorityBand(handle, band, priority) ==
    LET maxBytes == resolveQuantity(band.maxBytes)
        maxRequests == resolveQuantity(band.maxRequests)
        ordering == IF band.ordering = "" THEN Nil ELSE lookupPolicy(handle, band.ordering, "ordering")
        fairness == IF band.fairness = "" THEN Nil ELSE lookupPolicy(handle, band.fairness, "fairness")
    IN IF \/ maxBytes = Nil \/ maxRequests = Nil
          \/ band.ordering # "" /\ ordering = Nil
          \/ band.fairness # "" /\ fairness = Nil
       THEN Nil
       ELSE applyDefaults(handle, [BareBand(priority) EXCEPT !.ordering = ordering, !.fairness = fairness,
                                      !.maxBytes = maxBytes, !.maxRequests = maxRequests])

\* The templates of the bands that are not configured.
defaultTemplate(handle, band) ==
    IF band = Nil THEN applyDefaults(handle, BareBand(0)) ELSE buildPriorityBand(handle, band, 0)

\* The band configuration's own check.
validateBand(pb) ==
    pb.ordering # Nil /\ pb.fairness # Nil /\ pb.queue # Nil /\ CheckCompatibility(pb.ordering, pb.queue)

\* WithPriorityBand: a nil band and a second band of one priority are errors.
withPriorityBands(bands) ==
    \A i, j \in DOMAIN bands : bands[i] # Nil /\ (i # j => bands[i].priority # bands[j].priority)

\* The configuration's check; partition and collection rely on it.
validateConfig(c) ==
    /\ c.initialShardCount > 0 /\ c.flowGCTimeout > 0 /\ c.bandGCTimeout >= c.flowGCTimeout
    /\ validateBand(c.template) /\ \A p \in DOMAIN c.bands : validateBand(c.bands[p])

\* NewConfig on the options of NewConfigFromAPI.
newRegistryConfig(handle, maxBytes, maxRequests, template, bands) ==
    LET c == [maxBytes |-> maxBytes, maxRequests |-> maxRequests, initialShardCount |-> 1,
              flowGCTimeout |-> 5, bandGCTimeout |-> 10, template |-> template,
              bands |-> [p \in {bands[i].priority : i \in DOMAIN bands} |->
                           (CHOOSE b \in Range(bands) : b.priority = p)]]
    IN IF maxBytes # Nil /\ maxRequests # Nil /\ template # Nil /\ withPriorityBands(bands) /\ validateConfig(c)
       THEN c ELSE Nil

NewConfigFromAPI(handle, api) ==
    IF api = Nil THEN newRegistryConfig(handle, 0, 0, defaultTemplate(handle, Nil), <<>>)
    ELSE newRegistryConfig(handle, resolveQuantity(api.maxBytes), resolveQuantity(api.maxRequests),
             defaultTemplate(handle, api.defaultBand),
             [i \in DOMAIN api.bands |-> buildPriorityBand(handle, api.bands[i], api.bands[i].priority)])

\* controller.NewConfigFromAPI: the interval and buffer defaults are valid, so
\* only a negative TTL is refused; no TTL is 0.
newControllerConfig(api) ==
    LET ttl == IF api = Nil THEN 0 ELSE IF api.ttl = Nil THEN 0 ELSE api.ttl
    IN IF ttl < 0 THEN Nil ELSE [ttl |-> ttl, cleanup |-> 1, reconcile |-> 5, buffer |-> 100]

ensureUsageLimitPolicy(handle, api) ==
    lookupPolicy(handle, IF api = Nil THEN "static" ELSE IF api.usageLimit = "" THEN "static" ELSE api.usageLimit,
                 "usagelimit")

\* flowcontrol.NewConfigFromAPI.
newFlowControlConfig(handle, api) ==
    LET registry == NewConfigFromAPI(handle, api)
        controller == newControllerConfig(api)
        usage == ensureUsageLimitPolicy(handle, api)
    IN IF registry = Nil \/ controller = Nil \/ usage = Nil THEN Nil
       ELSE [registry |-> registry, controller |-> controller, usage |-> usage]

-----------------------------------------------------------------------------
\* Partition of the limits

partitionUint64(total, index, partitions) ==
    IF total = 0 THEN 0
    ELSE IF index < total % partitions THEN total \div partitions + 1
    ELSE total \div partitions

\* Config.partition: the ShardConfig of shard `index`.
partition(c, index, partitions) ==
    [maxBytes |-> partitionUint64(c.maxBytes, index, partitions),
     maxRequests |-> partitionUint64(c.maxRequests, index, partitions),
     bands |-> [p \in DOMAIN c.bands |->
                  [c.bands[p] EXCEPT !.maxBytes = partitionUint64(@, index, partitions),
                                     !.maxRequests = partitionUint64(@, index, partitions)]]]

-----------------------------------------------------------------------------
\* The saturation detectors' parameters.  Fractions are in percent, the
\* staleness in milliseconds; a field that is not set is not in the record.

concurrencyDefaults(p) ==
    p @@ [maxConcurrency |-> 100, headroom |-> 0, mode |-> "requests", maxTokenConcurrency |-> 1000000]
concurrencyValid(c) ==
    /\ c.maxConcurrency > 0 /\ c.headroom >= 0 /\ c.maxTokenConcurrency > 0
    /\ c.mode \in {"requests", "tokens"}
buildConcurrencyConfig(p) ==
    IF concurrencyValid(concurrencyDefaults(p)) THEN concurrencyDefaults(p) ELSE Nil

utilizationDefaults(p) ==
    p @@ [queueDepthThreshold |-> 5, kvCacheUtilThreshold |-> 80, metricsStalenessThreshold |-> 200, headroom |-> 0]
utilizationValid(c) ==
    /\ c.queueDepthThreshold > 0 /\ c.metricsStalenessThreshold > 0 /\ c.headroom >= 0
    /\ 0 < c.kvCacheUtilThreshold /\ c.kvCacheUtilThreshold =< 100
buildUtilizationConfig(p) ==
    IF utilizationValid(utilizationDefaults(p)) THEN utilizationDefaults(p) ELSE Nil

\* The detectors' factories.
BuildDetector ==
    /\ st.pc = "detector"
    /\ st' = [st EXCEPT !.pc = "built",
                !.config = IF st.api.type = "concurrency" THEN buildConcurrencyConfig(st.api)
                           ELSE buildUtilizationConfig(st.api)]

-----------------------------------------------------------------------------
FlowConfigInit ==
    \/ \E handle \in FlowPlugins, api \in FlowAPIs :
         st = [pc |-> "load", handle |-> handle, api |-> api, config |-> Nil, shards |-> <<>>]
    \/ \E p \in DetectorParams : st = [pc |-> "detector", api |-> p, config |-> Nil, shards |-> <<>>]

LoadFlowConfig ==
    /\ st.pc = "load"
    /\ st' = [st EXCEPT !.pc = "loaded", !.config = newFlowControlConfig(st.handle, st.api)]

\* The registry partitions the configuration whenever its number of shards changes.
PartitionConfig(n) ==
    /\ st.pc = "loaded" /\ st.config # Nil
    /\ st' = [st EXCEPT !.shards = [i \in 1..n |-> partition(st.config.registry, i - 1, n)]]

FlowConfigNext == LoadFlowConfig \/ BuildDetector \/ \E n \in 1..MaxShardCount : PartitionConfig(n)

-----------------------------------------------------------------------------
SumOf(f) == FoldLeft(LAMBDA a, b : a + b, 0, f)

\* Shares of a limit: complete and even; a share of a limit is 0, which the
\* shard reads as "no limit", exactly on the shards past the limit itself.
FairShares(limit, shares) ==
    /\ SumOf(shares) = limit
    /\ \A i, j \in DOMAIN shares : shares[i] - shares[j] \in -1..1
    /\ \A i \in DOMAIN shares : shares[i] = 0 <=> i > limit

(***************************************************************************)
(* The limits the operator wrote are the limits the shards share: the      *)
(* global limits and each band's are distributed completely and evenly,    *)
(* and partition never turns a limit into "no limit" (0) except on the     *)
(* shards that are left over when a limit is smaller than the number of    *)
(* shards.                                                                 *)
(***************************************************************************)
LimitsDistributed ==
    part = "flowconfig" /\ st.shards # <<>> =>
      LET c == st.config.registry
          Shares(Field(_)) == [i \in DOMAIN st.shards |-> Field(st.shards[i])]
      IN /\ FairShares(c.maxBytes, Shares(LAMBDA s : s.maxBytes))
         /\ FairShares(c.maxRequests, Shares(LAMBDA s : s.maxRequests))
         /\ \A p \in DOMAIN c.bands :
              /\ FairShares(c.bands[p].maxBytes, Shares(LAMBDA s : s.bands[p].maxBytes))
              /\ FairShares(c.bands[p].maxRequests, Shares(LAMBDA s : s.bands[p].maxRequests))

(***************************************************************************)
(* A configuration that is accepted can run: it has a band for every band  *)
(* of the API object with the byte limit set there or a default one, never *)
(* an unlimited one; every band and the template for dynamic bands has a   *)
(* queue its ordering policy can work with.  One that is refused has a     *)
(* negative quantity, a reference the handle cannot resolve, or a repeated *)
(* priority: defaults alone are never the reason, when the default plugins *)
(* are there.                                                              *)
(***************************************************************************)
AcceptedConfigRuns ==
    LET api == st.api
        Resolves(ref, kind) == ref = "" \/ lookupPolicy(st.handle, ref, kind) # Nil
        Sound(b) == /\ resolveQuantity(b.maxBytes) # Nil /\ resolveQuantity(b.maxRequests) # Nil
                    /\ Resolves(b.ordering, "ordering") /\ Resolves(b.fairness, "fairness")
    IN part = "flowconfig" /\ st.pc = "loaded" =>
         IF st.config # Nil
         THEN LET c == st.config.registry
              IN /\ \A b \in Range(c.bands) \cup {c.template} :
                      b.maxBytes > 0 /\ b.ordering.requires \subseteq Capabilities[b.queue]
                 /\ api # Nil => /\ Cardinality(DOMAIN c.bands) = Len(api.bands)
                                 /\ \A b \in Range(api.bands) :
                                      b.maxBytes \in {Nil, 0, c.bands[b.priority].maxBytes}
         ELSE \/ \E d \in {<<"fcfs", "ordering">>, <<"global-strict", "fairness">>, <<"static", "usagelimit">>} :
                    lookupPolicy(st.handle, d[1], d[2]) = Nil
              \/ /\ api # Nil
                 /\ \/ \E q \in {api.maxBytes, api.maxRequests, api.ttl} : resolveQuantity(q) = Nil
                    \/ ~Resolves(api.usageLimit, "usagelimit")
                    \/ \E b \in Range(api.bands) \cup ({api.defaultBand} \ {Nil}) : ~Sound(b)
                    \/ \E i, j \in DOMAIN api.bands : i < j /\ api.bands[i].priority = api.bands[j].priority

(***************************************************************************)
(* A detector that is built never divides by zero, lets an idle endpoint   *)
(* through, and filters no endpoint before it counts as full: its limit    *)
(* (capacity * (1 + headroom)) is at least the capacity the saturation is  *)
(* measured against.  One that is refused has a field set to a value       *)
(* outside its range; unset fields never are the reason.                   *)
(***************************************************************************)
DetectorRuns ==
    part = "flowconfig" /\ st.pc = "built" =>
      IF st.config # Nil
      THEN LET c == st.config
               capacities == IF c.type = "utilization" THEN {c.queueDepthThreshold, c.kvCacheUtilThreshold}
                             ELSE {IF c.mode = "tokens" THEN c.maxTokenConcurrency ELSE c.maxConcurrency}
           IN /\ \A k \in DOMAIN st.api : c[k] = st.api[k]
              /\ \A x \in capacities : x > 0 /\ x * (100 + c.headroom) >= x * 100
      ELSE \E k \in DOMAIN st.api \ {"type"} :
             IF k = "mode" THEN st.api[k] \notin {"requests", "tokens"}
             ELSE \/ st.api[k] < 0
                  \/ st.api[k] = 0 /\ k # "headroom"
                  \/ st.api[k] > 100 /\ k = "kvCacheUtilThreshold"

\* A configuration that is accepted is complete and its limits reach the shards.
FlowConfigSound == AcceptedConfigRuns /\ LimitsDistributed /\ DetectorRuns
=============================================================================
