----------------------------- MODULE Components -----------------------------
(***************************************************************************)
(* The components that share no state, put together: a behaviour is one of *)
(* one component.  Below are the values the instance gives the constants   *)
(* that a configuration file cannot write down.                            *)
(***************************************************************************)
EXTENDS Datastore, ModelRewrites, Candidates, PrefixCache, FlowDistribution, Queues,
        FlowConfig, FlowPolicies, Scheduling, PredictorClient, PredictorModel, PredictedLatency,
        LatencySelection, LatencyTraining, ModelSync, TrainingServer, AdapterStore, BodyBasedRouting,
        MCStartup, DataLayer, Parsers

ComponentsInit ==
    \/ part = "datastore" /\ DatastoreInit
    \/ part = "rewrites" /\ RewritesInit
    \/ part = "candidates" /\ CandidatesInit
    \/ part = "prefix" /\ PrefixInit
    \/ part = "distribution" /\ DistributionInit
    \/ part = "queue" /\ QueuesInit
    \/ part = "flowconfig" /\ FlowConfigInit
    \/ part = "policies" /\ PoliciesInit
    \/ part = "scheduling" /\ SchedulingInit
    \/ part = "predictor" /\ PredictorClientInit
    \/ part = "predictormodel" /\ PredictorModelInit
    \/ part = "latency" /\ PredictedLatencyInit
    \/ part = "selection" /\ LatencySelectionInit
    \/ part = "latencytraining" /\ LatencyTrainingInit
    \/ part = "modelsync" /\ ModelSyncInit
    \/ part = "training" /\ TrainingServerInit
    \/ part = "adapters" /\ AdapterStoreInit
    \/ part = "bodyrouting" /\ BodyRoutingInit
    \/ part = "startup" /\ StartupInit
    \/ part = "datalayer" /\ DataLayerInit
    \/ part = "parsers" /\ ParsersInit

ComponentsNext ==
    /\ UNCHANGED part
    /\ \/ part = "datastore" /\ DatastoreNext
       \/ part = "rewrites" /\ RewritesNext
       \/ part = "candidates" /\ CandidatesNext
       \/ part = "prefix" /\ PrefixNext
       \/ part = "distribution" /\ DistributionNext
       \/ part = "queue" /\ QueuesNext
       \/ part = "flowconfig" /\ FlowConfigNext
       \/ part = "policies" /\ PoliciesNext
       \/ part = "scheduling" /\ SchedulingNext
       \/ part = "predictor" /\ PredictorClientNext
       \/ part = "predictormodel" /\ PredictorModelNext
       \/ part = "latency" /\ PredictedLatencyNext
       \/ part = "selection" /\ LatencySelectionNext
       \/ part = "latencytraining" /\ LatencyTrainingNext
       \/ part = "modelsync" /\ ModelSyncNext
       \/ part = "training" /\ TrainingServerNext
       \/ part = "adapters" /\ AdapterStoreNext
       \/ part = "bodyrouting" /\ BodyRoutingNext
       \/ part = "startup" /\ StartupNext
       \/ part = "datalayer" /\ DataLayerNext
       \/ part = "parsers" /\ ParsersNext

ComponentsSpec == ComponentsInit /\ [][ComponentsNext]_<<part, st>>

\* What the two external processing servers make of bodies that arrive in
\* pieces: body-based routing (HandleRequestBody, HandleResponseBody of
\* pkg/bbr) answers every message, with the right routing headers, and the
\* endpoint picker (HandleResponseBody, rewriteModelName of pkg/epp) takes the
\* usage and puts the model's name back, up to what chunk boundaries hide.
BodiesUnderstood == RoutedByBody /\ UsageCounted

\* What the predicted-latency plugins keep and report for the requests they
\* see (PreRequest, ResponseBody): the prompt tokens and running requests
\* counted for a pod are those of its requests up to the updates the code is
\* known to lose, and the training entries and predictions of a request are
\* about the pod, the load and the times it really met.
LatencyDataSound == InFlightTokensBalanced /\ TrainingDataFaithful

\* What the latency predictor's client hands out (PredictBulkStrict,
\* flushTraining, Predict): coalesced rows go back to their callers, training
\* entries are sent once, and a prediction comes from one consistent model.
\* On the prediction server's side, the single, the batch and the bulk
\* endpoints answer a row alike.
PredictorSound == PredictorAccountsForWork /\ PredictionsFromOnePage /\ PredictionsAgree

-----------------------------------------------------------------------------
\* Datastore
MCPodObjects ==
    {[label |-> "a", ready |-> TRUE, active |-> Nil], [label |-> "b", ready |-> TRUE, active |-> Nil],
     [label |-> "a", ready |-> FALSE, active |-> Nil], [label |-> "a", ready |-> TRUE, active |-> {8001}]}
MCPoolObjects ==
    {[selector |-> "a", targetPorts |-> <<8000>>], [selector |-> "a", targetPorts |-> <<8000, 8001>>],
     [selector |-> "b", targetPorts |-> <<8000>>]}

\* ModelRewrites
MCRule(matches, targets) == [matches |-> matches, targets |-> targets]
MCTarget(model, weight) == [model |-> model, weight |-> weight]
MCWeighted == <<MCTarget("a", 2), MCTarget("b", 0), MCTarget("c", 1), MCTarget("a", 1)>>
MCRewriteSpecs ==
    {[poolRef |-> TRUE, rules |-> <<MCRule({"m1"}, MCWeighted), MCRule({}, <<>>)>>],
     [poolRef |-> TRUE, rules |-> <<MCRule({"m1", "m2"}, <<MCTarget("e", 0), MCTarget("f", 0)>>), MCRule({Nil}, <<MCTarget("d", 1)>>)>>],
     [poolRef |-> TRUE, rules |-> <<MCRule({}, MCWeighted), MCRule({"m2"}, <<MCTarget("g", 3)>>)>>],
     [poolRef |-> FALSE, rules |-> <<MCRule({}, <<MCTarget("h", 1)>>)>>]}

\* Candidates
MCEntry(ip, port) == [ip |-> ip, port |-> port]
MCSubsetLists == {Nil, <<>>, <<Nil>>, <<MCEntry("i1", 1)>>, <<MCEntry("i1", 1), MCEntry("i2", 1), Nil>>}

\* PrefixCache
MCPrompts == [r \in {"r1", "r2"} |->
    [model |-> <<"m">>, salt |-> <<>>, text |-> IF r = "r1" THEN <<1, 2, 3, 4>> ELSE <<1, 2, 5>>]]
MCEndpointLists == {<<"s1", "s2">>}
MCTargets == {<<>>, <<"s1">>, <<"s1", "s2">>}
MCBlockSize == [s \in Servers |-> IF s = "s1" THEN 1 ELSE 0]
MCNumBlocks == [s \in Servers |-> IF s = "s1" THEN 0 ELSE 1]

\* Queues: six items, two of the same priority
MCRunningTPOTs == {-1, 0, 1}
MCRank == [i \in QueueItems |-> IF i = 6 THEN 5 ELSE i]
MCBytes == [i \in QueueItems |-> 2^i]

\* FlowConfig: up to two fields of a detector set, at and past their limits
MCDetectorFields ==
    [concurrency |-> {"maxConcurrency", "headroom", "maxTokenConcurrency"},
     utilization |-> {"queueDepthThreshold", "kvCacheUtilThreshold", "metricsStalenessThreshold", "headroom"}]
MCSomeFields(t) == {fs \in SUBSET MCDetectorFields[t] : Cardinality(fs) =< 2}
MCSet(t) == {[type |-> t] @@ f : f \in UNION {[fs -> {-1, 0, 1, 101}] : fs \in MCSomeFields(t)}}
MCDetectorParams ==
    MCSet("utilization") \cup MCSet("concurrency")
    \cup {[mode |-> m] @@ f : m \in {"tokens", "requests", "bytes"}, f \in MCSet("concurrency")}

\* the full set of plugins and one without the defaults
MCPlugin(kind, requires) == [kind |-> kind, requires |-> requires]
MCFullHandle ==
    ("fcfs" :> MCPlugin("ordering", {}) @@ "edf" :> MCPlugin("ordering", {"PriorityConfigurable"})
     @@ "global-strict" :> MCPlugin("fairness", {}) @@ "static" :> MCPlugin("usagelimit", {}))
MCFlowPlugins == {MCFullHandle, Without(MCFullHandle, {"global-strict"}), Without(MCFullHandle, {"static"})}
MCBand(p, b, r, o, f) == [priority |-> p, maxBytes |-> b, maxRequests |-> r, ordering |-> o, fairness |-> f]
MCBands ==
    {MCBand(1, Nil, Nil, "", ""), MCBand(1, 3, 0, "edf", ""), MCBand(2, 0, 5, "fcfs", "global-strict"),
     MCBand(2, 1, -1, "", ""), MCBand(2, 4, 2, "gone", ""), MCBand(1, 4, 2, "", "edf")}
MCFlowAPIs ==
    {Nil} \cup
    {[maxBytes |-> b, maxRequests |-> r, defaultBand |-> d, bands |-> bs, ttl |-> t, usageLimit |-> u] :
       b \in {Nil, -1, 2, 7}, r \in {Nil, 4}, d \in {Nil, MCBand(7, Nil, 2, "edf", "")},
       bs \in {<<>>} \cup {<<x>> : x \in MCBands} \cup {<<x, y>> : x \in MCBands, y \in MCBands},
       t \in {Nil, -1}, u \in {"", "fcfs"}}

\* FlowPolicies: enqueue times, TTLs and objectives that tie and that do not
MCPolicyItem(e, r, t, o) == [enqueued |-> e, received |-> r, ttl |-> t, slo |-> o]
MCPolicyItems ==
    {MCPolicyItem(1, 1, 0, Nil), MCPolicyItem(1, 0, 2, 2), MCPolicyItem(2, 1, 1, 1),
     MCPolicyItem(2, 2, -1, -1), MCPolicyItem(3, 1, 1, 0), MCPolicyItem(3, 3, 0, 1)}

\* Scheduling: endpoints that are idle, busy, stale, sticky, fast, slow, unpredicted
MCEndpoint(q, kv, fresh, load, models, prefix, pred) ==
    [queue |-> q, running |-> load, requests |-> load, tokens |-> 2 * load, kv |-> kv, fresh |-> fresh,
     active |-> models, waiting |-> {"o"}, maxActive |-> 2, prefix |-> prefix, pred |-> pred]
MCPred(t, h, p, d) == [ttft |-> t, ttftHeadroom |-> h, tpotHeadroom |-> p, dispatched |-> d]
MCMatch(m, t) == [match |-> m, total |-> t]
MCEndpointData ==
    {MCEndpoint(0, 0, TRUE, 0, {"m"}, Nil, Nil), MCEndpoint(1, 300, TRUE, 1, {}, MCMatch(2, 2), MCPred(5, 2, 1, 1)),
     MCEndpoint(4, 100, TRUE, 2, {"o", "p"}, MCMatch(0, 2), MCPred(1, 4, 0, 1)),
     MCEndpoint(2, 600, FALSE, 3, {"m", "o"}, MCMatch(1, 2), MCPred(4, -1, 3, 2)),
     MCEndpoint(0, 500, TRUE, 1, {}, MCMatch(0, 0), MCPred(9, -3, -2, 0)),
     MCEndpoint(3, 200, FALSE, 0, {"p", "o"}, MCMatch(2, 2), MCPred(2, 1, -1, 3))}
MCFilter(name) == [implements |-> {"filter"}, name |-> name]
MCScorer(name, w) == [implements |-> {"scorer"}, name |-> name, weight |-> w]
MCPicker(name, n) == [implements |-> {"picker"}, name |-> name, max |-> n]
MCEverything(w) == [implements |-> {"filter", "scorer", "picker"}, name |-> "max", weight |-> w, max |-> 1]
MCProfileLists ==
    {<< <<MCFilter("affinity"), MCFilter("tier"), MCScorer("latency", 1), MCPicker("max", 1)>> >>,
     << <<MCScorer("latency", 2), MCPicker("max", 2)>> >>,
     << <<MCFilter("utilization"), MCScorer("queue", 2), MCScorer("kv", 1), MCScorer("prefix", 3), MCPicker("max", 1)>> >>,
     << <<MCFilter("concurrency"), MCScorer("running", 1), MCScorer("tokens", 1), MCScorer("lora", 1), MCPicker("weighted", 2)>> >>,
     << <<MCFilter("tokenConcurrency"), MCPicker("max", 1)>> >>,
     << <<MCPicker("random", 0)>> >>,
     << <<MCPicker("random", 1)>>, <<MCPicker("random", 1)>> >>, <<>>,
     << <<MCScorer("queue", Nil), MCPicker("max", 1)>> >>, << <<MCPicker("max", 1), MCPicker("random", 1)>> >>,
     << <<MCEverything(Nil)>> >>, << <<MCPicker("max", 1), MCEverything(1)>> >>}

\* PredictorModel: statuses with and without a quantile and an objective, a
\* page for each way a line can go wrong, rows in and out of range
MCEnv == [urls |-> {}, native |-> "", sample |-> Nil, flush |-> Nil, refresh |-> Nil, timeout |-> Nil,
          bulk |-> Nil, window |-> Nil, rows |-> Nil, dispatches |-> Nil]
MCPredictorEnvs ==
    {[MCEnv EXCEPT !.bulk = <<101>>, !.sample = <<0>>, !.flush = <<2>>, !.timeout = <<>>, !.dispatches = <<-1>>, !.urls = {"a", "b"}]}
MCPredictorConfigs == {Nil, [DefaultPredictorConfig EXCEPT !.urls = {}, !.native = FALSE, !.bulk = 2]}
MCModel(t, q, o) == [type |-> t, quantile |-> q, objective |-> o]
MCServerStatuses == {MCModel("bayesian_ridge", 0, ""), MCModel("xgboost", 5, "mean"), MCModel("", 0, "")}
MCModelInfos == {MCModel("bayesian_ridge", 5, "mean"), MCModel("xgboost", 0, ""), MCModel("lightgbm", 5, ""), MCModel("other", 0, "")}
MCMetric(name, label, bucket, value) == [name |-> name, label |-> label, bucket |-> bucket, value |-> value]
MCMetricPages ==
    {<<MCMetric("ttft_intercept", "", Nil, 3), MCMetric("", "", Nil, Nil), MCMetric("ttft_coef", "kv", Nil, 2),
       MCMetric("ttft_coef", "kv", Nil, 4), MCMetric("training_samples_count", "ttft", 1, 7)>>,
     <<MCMetric("tpot_intercept", "", Nil, 1), MCMetric("tpot_coef", "generated", Nil, 2), MCMetric("tpot_coef", "", Nil, 5),
       MCMetric("training_samples_count", "tpot", Nil, 7)>>,
     <<MCMetric("ttft_coef", "prefix", Nil, 6), MCMetric("ttft_coef", "kv", Nil, Nil)>>}
MCPredictionInputs ==
    [r \in {"good", "idle", "bad"} |->
        [kv |-> CASE r = "good" -> 5 [] r = "idle" -> 0 [] r = "bad" -> 11, input |-> 2, waiting |-> 1,
         running |-> 1, generated |-> 1, prefix |-> 10]]
MCBulkInputs == {<<>>, <<"good", "idle">>, <<"idle", "bad">>, <<"good", "good", "idle">>}

\* Predictor client: callers of one and two rows, and one that is refused.
MCRowsOf == [c \in 1..4 |-> <<1, 2, 1, 3>>[c]]
MCInvalidCallers == {4}
\* Five entries: samples of three come from groups of every mix.
MCGroups(ttft, tpot, other, max) == [n |-> [ttft |-> ttft, tpot |-> tpot, other |-> other], maxSize |-> max]
\* 30 of 44 in a sample of 22 is the smallest share that its float cuts by one.
MCSampledGroups ==
    {g \in {MCGroups(a, b, c, max) : a \in 0..6, b \in 0..6, c \in 0..6, max \in 1..6} :
        g.n.ttft + g.n.tpot + g.n.other > g.maxSize}
    \cup {MCGroups(a, 44 - a - c, c, 22) : a \in 0..40, c \in 0..4}
    \cup {MCGroups(58, 100, 42, 100), MCGroups(58, 58, 84, 100)}
MCEntryKind == [e \in 1..5 |-> <<"ttft", "ttft", "tpot", "other", "tpot">>[e]]

\* Predicted latency: two requests of one pod, one with a prefill pod; and one alone
MCLatencyScenario(rs, producer, streaming, max, is, tokens) ==
    [requests |-> rs, producer |-> producer, streaming |-> streaming, maxSamples |-> max, intervals |-> is, maxTokens |-> tokens]
MCLatencyScenarios ==
    {MCLatencyScenario({1, 2}, b, b, 0, {1}, 1) : b \in BOOLEAN}
    \cup {MCLatencyScenario({1}, TRUE, TRUE, 2, {0, 1}, 4)}
MCTargetOf == [r \in 1..2 |-> "d"]
MCPrefillOf == [r \in 1..2 |-> IF r = 1 THEN "p" ELSE Nil]
MCTokensOf == [r \in 1..2 |-> r]

\* Latency training: one pod or a prefill pod with it, with and without
\* tokens in flight, streaming or not, defaults and refused parameters
MCTrainingScenario(raw, profiles, tokens, load) ==
    [raw |-> raw, profiles |-> profiles, tokens |-> tokens,
     load |-> ("p1" :> 1 @@ "p2" :> load)]
MCTrainingRaws ==
    {<<>>, "buffer" :> 0, "maxSamples" :> -1,
     [streaming |-> TRUE, maxSamples |-> 2, samplingMean |-> 5, role |-> TRUE],
     [streaming |-> TRUE, maxSamples |-> 1, samplingMean |-> 40, predict |-> FALSE]}
MCTrainingProfiles == {<<>>, "primary" :> "p1", [primary |-> "p1", prefill |-> "p2"], [primary |-> "p1", prefill |-> Nil]}
MCTrainingScenarios ==
    {MCTrainingScenario(r, p, n, l) : r \in MCTrainingRaws, p \in MCTrainingProfiles, n \in {0, 2}, l \in {0, 3}}
MCTrainingRoles == ("p1" :> "decode" @@ "p2" :> "prefill")
MCTrainingPrefixes == ("p1" :> [match |-> 1, total |-> 2] @@ "p2" :> [match |-> 0, total |-> 0])
MCTrainingPredictions == ("p1" :> [ttft |-> 4, tpot |-> 2] @@ "p2" :> [ttft |-> 3, tpot |-> 1])

\* Latency selection: endpoints within the objectives, beyond one of them, idle, cold, sticky
MCLatencyConfig(s, max, streaming, explore, tau, g, p) ==
    [strategy |-> s, max |-> max, streaming |-> streaming, explore |-> explore, tau |-> tau, tauGlobal |-> g, penalty |-> p]
MCLatencyConfigs ==
    {MCLatencyConfig("least", FALSE, TRUE, FALSE, 800, 990, 2), MCLatencyConfig("most", TRUE, FALSE, FALSE, 500, 0, 0),
     MCLatencyConfig("least", TRUE, TRUE, TRUE, 800, 990, 2), MCLatencyConfig("composite-most", FALSE, TRUE, FALSE, 0, 0, 0),
     MCLatencyConfig("composite-least", FALSE, TRUE, FALSE, 800, 990, 0), MCLatencyConfig("composite-only", FALSE, TRUE, FALSE, 0, 500, 3)}
MCLatencyEndpoint(ttft, tpot, prefix, kv, q, slos, role) ==
    [ttft |-> ttft, tpot |-> tpot, prefix |-> prefix, kv |-> kv, queue |-> q, slos |-> slos,
     running |-> Len(slos), prefillRole |-> role]
MCLatencyData ==
    {MCLatencyEndpoint(1, 1, 0, 500, 1, <<2>>, FALSE), MCLatencyEndpoint(6, 1, 1000, 500, 2, <<3, 2>>, FALSE),
     MCLatencyEndpoint(3, 4, 800, 300, 0, <<0, 2>>, TRUE), MCLatencyEndpoint(7, 5, 0, 100, 0, <<>>, FALSE),
     MCLatencyEndpoint(4, 2, 500, 10, 3, <<1, 0>>, FALSE)}
\* One endpoint's scrape is stale: it says idle of a busy one, or busy of an idle one.
MCStaleEndpoint(e) == [e EXCEPT !.running = IF @ = 0 THEN 1 ELSE 0]
MCLatencyEndpoints == {<<a>> : a \in MCLatencyData} \cup {<<MCStaleEndpoint(a), b>> : a \in MCLatencyData, b \in MCLatencyData} \cup {<<a, b>> : a \in MCLatencyData, b \in MCLatencyData}
                      \cup {<<a, b, MCLatencyEndpoint(8, 3, 500, 900, 4, <<4>>, FALSE)>> : a \in MCLatencyData, b \in MCLatencyData}
MCLatencyObjectives == [ttft : {Nil, <<5>>}, tpot : {<<>>, <<3>>}, priority : {-1, 0}]

\* Model sync: two workers, and one that is asked to reload; a model with its scaler, with its gated model
MCSyncScenarios ==
    {[workers |-> {1, 2}, reload |-> FALSE, warm |-> TRUE, base |-> <<"ttft", "tpot">>, gated |-> <<>>],
     [workers |-> {1}, reload |-> TRUE, warm |-> FALSE, base |-> <<"ttft", "ttft_scaler">>, gated |-> <<>>],
     [workers |-> {1}, reload |-> TRUE, warm |-> FALSE, base |-> <<"ttft">>, gated |-> <<"ttft_gated">>]}
MCSyncRows == {<<0, 3, Nil, 0>>, <<Nil>>}

\* Training server: an idle and a queued sample, and one held back for tests, at the bounds of the buckets
MCSample(waiting, kv, prefix, tpot, test) ==
    [waiting |-> waiting, kv |-> kv, prefix |-> prefix, ttft |-> 1, tpot |-> tpot, test |-> test]
MCSamples == {MCSample(0, 100, 100, 1, FALSE), MCSample(3, 0, 25, 1, FALSE), MCSample(11, 50, 0, 0, TRUE)}

\* AdapterStore
MCMapObjects ==
    {[base |-> b, adapters |-> as, managed |-> TRUE, deleting |-> FALSE] :
        b \in {"b1", "b2"}, as \in {{}, {"a1"}, {"a1", "a2"}}}
      \cup {[base |-> "b1", adapters |-> {"a2"}, managed |-> FALSE, deleting |-> FALSE],
            [base |-> "b1", adapters |-> {"a1"}, managed |-> TRUE, deleting |-> TRUE],
            [base |-> Nil, adapters |-> {"a1"}, managed |-> TRUE, deleting |-> FALSE],
            [base |-> Nil, adapters |-> {"a1"}, managed |-> FALSE, deleting |-> FALSE],
            [base |-> "b1", adapters |-> Nil, managed |-> TRUE, deleting |-> FALSE]}

\* BodyBasedRouting
MCRouterPlugin(type, json) == [segments |-> 3, type |-> type, name |-> "n", valid |-> TRUE, json |-> json]
MCCustom(ops) == MCRouterPlugin("custom", ops)
MCOps ==
    {<<[op |-> "setHeader", key |-> "x-request-id", value |-> "id2"], [op |-> "removeHeader", key |-> "x-request-id"]>>,
     <<[op |-> "removeHeader", key |-> "x-request-id"], [op |-> "setHeader", key |-> "x-request-id", value |-> "id"]>>,
     <<[op |-> "setField", value |-> "b1"]>>, <<[op |-> "removeField"]>>, <<[op |-> "fail"]>>,
     <<[op |-> "setBody", body |-> [len |-> 5, valid |-> TRUE, model |-> "a1"]]>>}
MCField == MCRouterPlugin("body-field-to-header", [field |-> "model", header |-> "X-Gateway-Model-Name"])
MCSpecs ==
    {<<>>} \cup {<<MCCustom(ops), MCField>> : ops \in MCOps}
      \cup {<<MCField, MCRouterPlugin("base-model-to-header", Nil)>>, <<MCField, MCRouterPlugin("other", Nil)>>,
            <<MCRouterPlugin("body-field-to-header", [field |-> "", header |-> "h"]), MCRouterPlugin("other", Nil)>>,
            <<MCRouterPlugin("body-field-to-header", Nil)>>, <<[MCRouterPlugin("custom", Nil) EXCEPT !.valid = FALSE]>>,
            <<[segments |-> 1, type |-> "custom", name |-> "", valid |-> TRUE, json |-> Nil]>>}
MCRouterOptions ==
    {[ports |-> <<9004, 9005, 9090>>, streaming |-> b, specs |-> s] : b \in BOOLEAN, s \in MCSpecs}
      \cup {[ports |-> ports, streaming |-> TRUE, specs |-> <<>>] : ports \in {<<9004, 9004, 9090>>, <<0, 9005, 9090>>}}
MCBodies ==
    {Nil} \cup {[len |-> n, valid |-> n # 2, model |-> m] : n \in {2, 3}, m \in {Nil, "a1"}}
MCExchanges ==
    {[request |-> q, requestTrailers |-> b, response |-> r, responseTrailers |-> c] :
       q \in MCBodies \cup {[len |-> 3, valid |-> TRUE, model |-> ""]}, b \in BOOLEAN,
       r \in {Nil, [len |-> 0, valid |-> FALSE, model |-> Nil], [len |-> 3, valid |-> TRUE, model |-> "x"]}, c \in BOOLEAN}
MCResponsePlugins ==
    {<<>>, <<[type |-> "custom", ops |-> <<[op |-> "removeField"], [op |-> "setHeader", key |-> "server", value |-> "t"]>>]>>,
     <<[type |-> "custom", ops |-> <<[op |-> "fail"]>>]>>}
MCRouterStore ==
    [loraAdapterToBaseModel |-> [a1 |-> "b1"], configmapAdapters |-> [c1 |-> {"a1"}], baseModels |-> [b1 |-> 1]]

\* DataLayer
MCSeries(labels, ts, value, kind, info) ==
    [labels |-> labels, ts |-> ts, value |-> value, kind |-> kind, info |-> info]
MCGauge(ts, value) == MCSeries(<<>>, ts, value, "gauge", <<>>)
MCTyped(type, value) == MCSeries([type |-> type], 0, value, "gauge", <<>>)
MCLora(running, waiting, max, value) ==
    MCSeries(<<>>, 0, value, "gauge", [running_lora_adapters |-> running, waiting_lora_adapters |-> waiting, max_lora |-> max])
MCPageFull ==
    [p \in {"vllm:waiting", "vllm:running", "vllm:kv", "vllm:lora", "vllm:cache"} |->
        CASE p = "vllm:waiting" -> <<MCGauge(1, 2), MCGauge(2, 1)>>
          [] p = "vllm:running" -> <<MCSeries(<<>>, 0, 3, "counter", <<>>)>>
          [] p = "vllm:kv" -> <<MCSeries([type |-> "gpu"], 0, 1, "gauge", <<>>), MCSeries([type |-> "cpu"], 0, 2, "gauge", <<>>)>>
          [] p = "vllm:lora" -> <<MCLora({}, {}, 4, 5), MCLora({"a"}, {"b"}, 4, 3)>>
          [] p = "vllm:cache" -> <<MCSeries(<<>>, 0, 1, "gauge", [block_size |-> 16, num_gpu_blocks |-> NotANumber])>>]
MCPagePart ==
    [p \in {"vllm:waiting", "vllm:lora"} |->
        IF p = "vllm:waiting" THEN <<MCGauge(0, 5)>> ELSE <<MCLora({"a", "c"}, {}, NotANumber, 7)>>]
MCPageTriton ==
    [p \in {"triton:requests", "triton:blocks"} |->
        IF p = "triton:requests" THEN <<MCTyped("scheduled", 4), MCTyped("waiting", 3)>>
        ELSE <<MCTyped("max", 9), MCTyped("fraction", 1)>>]
MCPages == {<<>>, MCPageFull, MCPagePart, MCPageTriton}
MCPodEngines == {[pod |-> "p1", engine |-> "vllm"], [pod |-> "p2", engine |-> Nil]}
MCNotGpu == [name |-> "vllm:kv", matchers |-> {[label |-> "type", op |-> "!=", value |-> "gpu"]}]
MCCustomEngine == [EngineConfig("vllm") EXCEPT !.queue = named("vllm:waiting"), !.kv = MCNotGpu]
MCExtractorParams ==
    {[defaultEngine |-> "", engines |-> <<>>],
     [defaultEngine |-> "triton-tensorrt-llm", engines |-> <<MCCustomEngine>>],
     [defaultEngine |-> "", engines |-> <<MCCustomEngine, MCCustomEngine>>],
     [defaultEngine |-> "other", engines |-> <<>>],
     [defaultEngine |-> "", engines |-> <<[MCCustomEngine EXCEPT !.queue = named("")]>>],
     [defaultEngine |-> "", engines |-> <<EngineConfig(DefaultEngineType)>>]}
MCLegacyConfig ==
    [queue |-> named("vllm:waiting"), running |-> named("vllm:running"), kv |-> named("vllm:kv"),
     lora |-> named("vllm:lora"), cacheInfo |-> named("vllm:cache")]
MCLegacyConfigs ==
    {[MCLegacyConfig EXCEPT !.kv = MCNotGpu], [MCLegacyConfig EXCEPT !.kv = named("")]}

\* Attribute reporters: none, two that share a namespace, ones that give nothing, ones that are refused
MCAttribute(ns, name, e, c) == [namespace |-> ns, name |-> name, expression |-> e, condition |-> c]
MCReporterConfigs ==
    {<<>>,
     << <<MCAttribute("", "cost", "total", "")>>, <<MCAttribute("envoy.lb", "reused", "half", "cached")>>,
        <<MCAttribute("", "tokens", "completion", "prompt")>> >>,
     << <<MCAttribute("a", "x", "minus", "")>>, <<MCAttribute("a", "x", "prompt", "text")>>, <<MCAttribute("a", "y", "error", "")>> >>,
     << <<MCAttribute("", "", "total", "")>> >>, << <<>> >>}

\* Parsers: requests to every API and path header; event streams, documents and frames
MCOpenAI(paths, fields, stream, model, to) ==
    [paths |-> paths, json |-> fields # {}, fields |-> fields, stream |-> stream, model |-> model, to |-> to]
MCPaths == {<<{}, {}, {}>>, <<{}, {"embeddings"}, {"chat"}>>, <<{"chat"}, {}, {}>>, <<{"responses", "completions"}, {}, {}>>,
            <<{"conversations"}, {}, {}>>, <<{"other"}, {}, {"chat"}>>}
MCOpenAIRequests ==
    {MCOpenAI(p, f, FALSE, m, "t") : p \in MCPaths, f \in {{}, {"prompt"}, {"input", "messages"}, {"items"}}, m \in {Nil, "", "m"}}
MCLine == [json |-> TRUE, usage |-> Nil, nested |-> <<>>, type |-> "", object |-> "", name |-> "", nameCut |-> FALSE]
MCToken(name, cut) == [MCLine EXCEPT !.name = name, !.nameCut = cut]
MCUsage(n) == [prompt_tokens |-> n, completion_tokens |-> n + 1, total_tokens |-> 2 * n + 1]
MCInput(n) == [input_tokens |-> n, output_tokens |-> n + 1, total_tokens |-> 2 * n + 1, cached_tokens |-> 1]
MCUsageLine(n, name) == [MCToken(name, TRUE) EXCEPT !.usage = MCUsage(n)]
MCDone == [MCLine EXCEPT !.json = FALSE]
MCEvents ==
    {<<MCToken("tight", FALSE), MCUsageLine(1, "tight"), MCDone>>,
     <<MCUsageLine(1, "spaced"), MCUsageLine(2, "tight"), MCToken("spaced", TRUE)>>,
     <<[MCLine EXCEPT !.nested = <<Nil>>, !.type = "response.created", !.object = "response"],
       [MCLine EXCEPT !.nested = <<MCInput(3)>>, !.type = "response.completed", !.object = "response", !.name = "spaced"]>>,
     <<[MCLine EXCEPT !.usage = MCInput(4)], MCToken("tight", TRUE), MCDone>>}
MCDocuments == {<<[MCLine EXCEPT !.usage = u, !.object = o, !.name = "spaced"]>> :
                  u \in {Nil, MCUsage(1), MCInput(1)}, o \in {"response", "chat.completion", ""}}
MCChunkFrame(p, c) == [generate |-> [prompt |-> p, completion |-> c, cached |-> 0], embedTokens |-> 0]
MCEmbedFrame(n, generate) == [generate |-> generate, embedTokens |-> n]
MCFrames == {<<MCChunkFrame(0, 0), MCChunkFrame(2, 1), MCChunkFrame(2, 2)>>, <<MCEmbedFrame(3, Nil)>>,
             <<MCEmbedFrame(3, [prompt |-> 0, completion |-> 0, cached |-> 0])>>, <<MCEmbedFrame(0, Nil)>>}
MCGRPCRequests == [method : {"Generate", "Embed", "Other"}, frame : {"complete", "incomplete", "compressed"},
                   input : {Nil, "text", "tokenized"}, stream : BOOLEAN]
MCExchange(parser, request, messages, eventStream) ==
    [parser |-> parser, request |-> request, messages |-> messages, eventStream |-> eventStream]
MCParsedExchanges ==
    {MCExchange("openai", r, <<[MCLine EXCEPT !.usage = MCUsage(1)]>>, FALSE) : r \in MCOpenAIRequests}
    \cup {MCExchange("openai", MCOpenAI(<<{}, {}, {}>>, {"prompt"}, s, m[1], m[2]), e, TRUE) :
             s \in BOOLEAN, m \in {<<"m", "">>, <<"m", "m">>, <<"m", "t">>, <<"", "">>, <<"", "t">>}, e \in MCEvents}
    \cup {MCExchange("openai", MCOpenAI(<<{}, {}, {}>>, {"prompt"}, s, "m", "t"), d, FALSE) : s \in BOOLEAN, d \in MCDocuments}
    \cup {MCExchange("vllmgrpc", r, f, FALSE) : r \in MCGRPCRequests, f \in MCFrames}
    \cup {MCExchange("passthrough", MCOpenAI(<<{}, {}, {}>>, {}, FALSE, Nil, ""), d, FALSE) : d \in MCDocuments}
=============================================================================
