------------------------------ MODULE MCStartup -----------------------------
(***************************************************************************)
(* Instances of Startup: the in-tree plugin types that differ in what the  *)
(* loader looks at, a few out-of-tree ones that do not fit, and documents  *)
(* and command lines that are sound or wrong in one place.                 *)
(***************************************************************************)
EXTENDS Startup

MCStartType(kinds, produces, consumes) ==
    [kinds |-> kinds, produces |-> produces, consumes |-> consumes, data |-> Nil, protocols |-> {}]
MCDataType(kind, fields) ==
    [kinds |-> {kind}, produces |-> <<>>, consumes |-> <<>>, data |-> fields, protocols |-> {}]
MCParserType(protocols) ==
    [kinds |-> {"parser"}, produces |-> <<>>, consumes |-> <<>>, data |-> Nil, protocols |-> protocols]

MCPluginTypes ==
    "queue-scorer" :> MCStartType({"scorer", "consumer"}, <<>>, [waiting |-> "int"])
 @@ "kv-cache-utilization-scorer" :> MCStartType({"scorer", "consumer"}, <<>>, [kv |-> "float"])
 @@ "prefix-cache-scorer" :> MCStartType({"scorer", "producer", "consumer"}, <<>>, [prefix |-> "info"])
 @@ "approx-prefix-cache-producer" :>
        MCStartType({"prepare", "producer", "consumer", "prerequest"}, [prefix |-> "info"], <<>>)
 @@ "predicted-latency-producer" :>
        MCStartType({"prepare", "producer", "consumer", "prerequest"}, [latency |-> "info"], [prefix |-> "info"])
 @@ "latency-slo-admitter" :> MCStartType({"admission", "consumer"}, <<>>, [latency |-> "info"])
 @@ "decode-filter" :> MCStartType({"filter"}, <<>>, <<>>)
 @@ "max-score-picker" :> MCStartType({"picker"}, <<>>, <<>>)
 @@ "random-picker" :> MCStartType({"picker"}, <<>>, <<>>)
 @@ "single-profile-handler" :> MCStartType({"handler"}, <<>>, <<>>)
 @@ "pd-profile-handler" :> MCStartType({"handler"}, <<>>, <<>>)
 @@ "utilization-detector" :> MCStartType({"detector"}, <<>>, <<>>)
 @@ "fcfs-ordering-policy" :> MCStartType({"ordering"}, <<>>, <<>>)
 @@ "global-strict-fairness-policy" :> MCStartType({"fairness"}, <<>>, <<>>)
 @@ "static-usage-limit-policy" :> MCStartType({"usage"}, <<>>, <<>>)
 @@ "openai-parser" :> MCParserType({"h2c", "http"})
 @@ "vllmgrpc-parser" :> MCParserType({"h2c"})
 @@ "passthrough-parser" :> MCParserType({})
 @@ "metrics-data-source" :> MCDataType("source", [kind |-> "poller", extracts |-> "poll", output |-> "families", gvk |-> Nil])
 @@ "core-metrics-extractor" :> MCDataType("extractor", [extracts |-> "poll", input |-> "families", gvk |-> Nil])
 @@ "pod-source" :> MCDataType("source", [kind |-> "notifier", extracts |-> "notify", output |-> "event", gvk |-> "Pod"])
 @@ "node-extractor" :> MCDataType("extractor", [extracts |-> "notify", input |-> "any", gvk |-> "Node"])
 @@ "pod-extractor" :> MCDataType("extractor", [extracts |-> "notify", input |-> "any", gvk |-> "Pod"])
 @@ "odd-source" :> MCDataType("source", [kind |-> "other", extracts |-> "poll", output |-> "families", gvk |-> Nil])
 @@ "loop-producer" :> MCStartType({"prepare", "producer", "consumer"}, [prefix |-> "info"], [latency |-> "info"])
 @@ "late-producer" :> MCStartType({"scorer", "producer"}, [prefix |-> "info"], <<>>)
 @@ "two-key-producer" :> MCStartType({"prepare", "producer", "consumer"}, [prefix |-> "info", x |-> "int"], <<>>)
 @@ "two-key-consumer" :> MCStartType({"prepare", "producer", "consumer"}, <<>>, [prefix |-> "info", x |-> "text"])
 @@ "text-consumer" :> MCStartType({"prepare", "producer", "consumer"}, <<>>, [x |-> "text"])

\* A document with plugins named after their types and nothing else.
MCStartPlugin(t) == [name |-> "", type |-> t, ok |-> TRUE]
MCDoc(types) ==
    [gates |-> <<>>, plugins |-> [i \in DOMAIN types |-> MCStartPlugin(types[i])], profiles |-> <<>>,
     data |-> Nil, detector |-> Nil, parser |-> Nil, flowOk |-> TRUE]
MCProfile(name, refs) ==
    [name |-> name, plugins |-> [i \in DOMAIN refs |-> [ref |-> refs[i], weight |-> Nil]]]
MCData(ref, extractors) == [ref |-> ref, extractors |-> extractors]

MCDocs ==
    LET plain == MCDoc(<<"queue-scorer">>)
        two == MCDoc(<<"queue-scorer", "random-picker", "max-score-picker", "pd-profile-handler">>)
        data == MCDoc(<<"metrics-data-source", "core-metrics-extractor", "pod-source", "pod-extractor",
                        "node-extractor", "odd-source">>)
    IN {MCDoc(types) : types \in
          {<<>>, <<"queue-scorer">>, <<"decode-filter", "prefix-cache-scorer", "random-picker">>,
           <<"prefix-cache-scorer", "predicted-latency-producer", "latency-slo-admitter">>,
           <<"predicted-latency-producer", "loop-producer">>, <<"late-producer", "predicted-latency-producer">>,
           <<"two-key-producer", "two-key-consumer">>, <<"two-key-producer", "text-consumer">>,
           <<"max-score-picker", "random-picker">>, <<"unknown">>, <<"queue-scorer", "queue-scorer">>,
           <<"pd-profile-handler", "single-profile-handler">>}}
     \cup {[plain EXCEPT !.gates = gates, !.flowOk = ok] :
             gates \in {<<>>, <<FlowGate>>, <<LegacyGate>>, <<LegacyGate, FlowGate>>, <<"unknown">>}, ok \in BOOLEAN}
     \cup {[plain EXCEPT !.profiles = profiles] : profiles \in
             {<<MCProfile("p", <<>>)>>, <<MCProfile("", <<>>)>>, <<MCProfile("p", <<"queue-scorer", "missing">>)>>,
              <<MCProfile("p", <<"approx-prefix-cache-producer">>)>>, <<MCProfile("p", <<>>), MCProfile("q", <<>>)>>,
              <<MCProfile("p", <<"max-score-picker">>)>>}}
     \cup {[two EXCEPT !.profiles = profiles] : profiles \in
             {<<MCProfile("p", <<"queue-scorer">>), MCProfile("q", <<"random-picker">>)>>,
              <<MCProfile("p", <<>>), MCProfile("p", <<>>)>>,
              <<MCProfile("p", <<"random-picker", "max-score-picker">>)>>}}
     \cup {[MCDoc(<<"single-profile-handler">>) EXCEPT !.profiles = <<MCProfile("p", <<>>), MCProfile("q", <<>>)>>],
           [MCDoc(<<"queue-scorer">>) EXCEPT !.plugins[1].name = "max-score-picker"],
           [MCDoc(<<"queue-scorer">>) EXCEPT !.plugins[1].name = "openai-parser"],
           [MCDoc(<<"queue-scorer">>) EXCEPT !.plugins[1].ok = FALSE]}
     \cup {[MCDoc(<<"vllmgrpc-parser", "passthrough-parser", "queue-scorer">>) EXCEPT !.parser = p] :
             p \in {Nil, "vllmgrpc-parser", "passthrough-parser", "queue-scorer", "missing", "openai-parser"}}
     \cup {[plain EXCEPT !.detector = d] : d \in {"", "utilization-detector", "queue-scorer", "missing"}}
     \cup {[data EXCEPT !.data = sources, !.gates = gates] : gates \in {<<>>, <<LegacyGate>>}, sources \in
             {<<>>, <<MCData("metrics-data-source", <<"core-metrics-extractor">>)>>,
              <<MCData("metrics-data-source", <<"pod-extractor">>)>>, <<MCData("pod-source", <<"pod-extractor">>)>>,
              <<MCData("pod-source", <<"node-extractor">>)>>, <<MCData("odd-source", <<>>)>>,
              <<MCData("core-metrics-extractor", <<>>)>>, <<MCData("pod-source", <<"metrics-data-source">>)>>,
              <<MCData("pod-source", <<>>), MCData("pod-source", <<>>)>>}}

MCCommandLine ==
    [pool |-> "pool", selector |-> "", ports |-> <<>>, poolNamespace |-> "", namespaceEnv |-> "", podName |-> "",
     text |-> "", file |-> "", scheme |-> "http", deprecatedMetricFlag |-> FALSE, election |-> FALSE,
     served |-> {"InferenceObjective"}]
MCStandalone == [MCCommandLine EXCEPT !.pool = "", !.selector = "s", !.ports = <<8000, 8001, 8000>>, !.podName = "epp"]
MCCommandLines ==
    {[MCCommandLine EXCEPT !.pool = p, !.selector = s, !.ports = ports, !.poolNamespace = ns, !.podName = pod] :
        p \in {"", "pool"}, s \in {"", "s", "odd"}, ports \in {<<>>, <<8000, 8001, 8000>>, <<70000>>}, ns \in {"", "ns"},
        pod \in {"", "odd", "epp"}}
     \cup {[MCCommandLine EXCEPT !.text = "t", !.file = "readable"], [MCCommandLine EXCEPT !.file = "missing"],
           [MCCommandLine EXCEPT !.file = "readable"], [MCCommandLine EXCEPT !.scheme = "ftp"],
           [MCCommandLine EXCEPT !.deprecatedMetricFlag = TRUE]}
     \cup {[MCStandalone EXCEPT !.ports = [i \in 1..n |-> i]] : n \in {8, 9}}

MCStartInputs ==
    {[opts |-> o, doc |-> [empty |-> TRUE], flowEnv |-> FALSE] : o \in MCCommandLines}
     \cup {[opts |-> [MCCommandLine EXCEPT !.text = "t", !.election = b], doc |-> d, flowEnv |-> env] :
             b \in BOOLEAN, env \in BOOLEAN, d \in {Nil} \cup {[empty |-> FALSE, cfg |-> cfg] : cfg \in MCDocs}}
=============================================================================
