---------------------------- MODULE ConfigLoader ----------------------------
(***************************************************************************)
(* The configuration loader: from the configuration document to the        *)
(* instantiated plugins, the scheduling profiles, the data layer, the      *)
(* parser and the saturation detector, and the order of the data           *)
(* producers.  A Go map is walked in any order: an operator whose result   *)
(* depends on the walk returns the set of its results.  An error is Nil:   *)
(* whatever it says, startup ends.                                         *)
(***************************************************************************)
EXTENDS Component, SequencesExt

CONSTANT PluginTypes   \* the registry: what the plugins of each type implement, produce and consume

FlowGate == "flowControl"
LegacyGate == "enableLegacyMetrics"
FeatureGates == {FlowGate, LegacyGate, "dataLayer"}

\* The interface assertions: the named plugin is there and implements the interface.
Implements(handle, name, kind) == name \in DOMAIN handle /\ kind \in PluginTypes[handle[name]].kinds
Named(handle, kind) == {n \in DOMAIN handle : Implements(handle, n, kind)}

-----------------------------------------------------------------------------
\* defaults.go

loadDefaultConfig ==
    LET spec(t) == [name |-> "", type |-> t, ok |-> TRUE]
    IN [gates |-> <<>>,
        plugins |-> <<spec("queue-scorer"), spec("kv-cache-utilization-scorer"), spec("prefix-cache-scorer"),
                      spec("metrics-data-source"), spec("core-metrics-extractor")>>,
        profiles |-> <<[name |-> "default",
                        plugins |-> <<[ref |-> "queue-scorer", weight |-> 2],
                                      [ref |-> "kv-cache-utilization-scorer", weight |-> 2],
                                      [ref |-> "prefix-cache-scorer", weight |-> 3]>>]>>,
        data |-> <<[ref |-> "metrics-data-source", extractors |-> <<"core-metrics-extractor">>]>>,
        detector |-> Nil, parser |-> Nil, flowOk |-> TRUE]

\* A plugin without a name is named after its type.
applyStaticDefaults(cfg) ==
    [cfg EXCEPT !.plugins = [i \in DOMAIN cfg.plugins |->
        IF cfg.plugins[i].name = "" THEN [cfg.plugins[i] EXCEPT !.name = cfg.plugins[i].type] ELSE cfg.plugins[i]]]

\* c is the pair of the raw configuration and the handle, a map from names to
\* types.  The default types are registered and accept no parameters.
registerDefaultPlugin(c, type) ==
    [cfg |-> [c.cfg EXCEPT !.plugins = Append(@, [name |-> type, type |-> type, ok |-> TRUE])],
     handle |-> With(c.handle, type, type)]

ensureNamed(c, type) == IF type \in DOMAIN c.handle THEN c ELSE registerDefaultPlugin(c, type)

\* With no profile, one with every filter, scorer and picker, in any order.
defaultProfile(handle) ==
    {<<[name |-> "default", plugins |-> [i \in DOMAIN order |-> [ref |-> order[i], weight |-> Nil]]]>> :
        order \in SetToSeqs(Named(handle, "filter") \cup Named(handle, "scorer") \cup Named(handle, "picker"))}

\* A scorer without a weight gets the default one, a profile without a picker the given one.
completeProfile(handle, profile, picker) ==
    LET weighted == [j \in DOMAIN profile.plugins |->
            IF Implements(handle, profile.plugins[j].ref, "scorer") /\ profile.plugins[j].weight = Nil
            THEN [profile.plugins[j] EXCEPT !.weight = 1] ELSE profile.plugins[j]]
        hasPicker == \E j \in DOMAIN profile.plugins : Implements(handle, profile.plugins[j].ref, "picker")
    IN [profile EXCEPT !.plugins = IF hasPicker THEN weighted ELSE Append(weighted, [ref |-> picker, weight |-> Nil])]

\* The profile handler is only defaulted with one profile; the picker the
\* profiles lack is whichever one the walk of the plugins meets first.
ensureSchedulingLayer(c) ==
    LET profiled == IF c.cfg.profiles # <<>> THEN {c}
                    ELSE {[c EXCEPT !.cfg.profiles = ps] : ps \in defaultProfile(c.handle)}
        handled(d) == IF Len(d.cfg.profiles) = 1 /\ Named(d.handle, "handler") = {}
                      THEN registerDefaultPlugin(d, "single-profile-handler") ELSE d
        picked(d) == IF Named(d.handle, "picker") = {}
                     THEN {<<registerDefaultPlugin(d, "max-score-picker"), "max-score-picker">>}
                     ELSE {<<d, n>> : n \in Named(d.handle, "picker")}
        complete(d, picker) == [d EXCEPT !.cfg.profiles =
            [i \in DOMAIN d.cfg.profiles |-> completeProfile(d.handle, d.cfg.profiles[i], picker)]]
    IN {complete(e[1], e[2]) : e \in UNION {picked(handled(d)) : d \in profiled}}

ensureFlowControlLayer(c) ==
    ensureNamed(ensureNamed(ensureNamed(c, "fcfs-ordering-policy"), "global-strict-fairness-policy"),
                "static-usage-limit-policy")

\* A parser reference that names no plugin registers the default parser, under its own name.
ensureParser(c) ==
    LET d == IF c.cfg.parser = Nil THEN [c EXCEPT !.cfg.parser = "openai-parser"] ELSE c
    IN IF d.cfg.parser \in DOMAIN d.handle THEN d ELSE registerDefaultPlugin(d, "openai-parser")

ensureSaturationDetector(c) ==
    LET d == IF c.cfg.detector \in {Nil, ""} THEN [c EXCEPT !.cfg.detector = "utilization-detector"] ELSE c
    IN IF d.cfg.detector = "utilization-detector" THEN ensureNamed(d, "utilization-detector") ELSE d

\* The default source and extractor, unless there is a data section, even an empty one.
ensureDataLayer(c) ==
    IF Contains(c.cfg.gates, LegacyGate) \/ c.cfg.data # Nil THEN c
    ELSE [ensureNamed(ensureNamed(c, "metrics-data-source"), "core-metrics-extractor")
            EXCEPT !.cfg.data = loadDefaultConfig.data]

applySystemDefaults(c) ==
    {ensureDataLayer(ensureSaturationDetector(ensureParser(ensureFlowControlLayer(d)))) :
        d \in ensureSchedulingLayer(c)}

-----------------------------------------------------------------------------
\* validation.go

validateFeatureGates(gates) == ToSet(gates) \subseteq FeatureGates

DefinedPlugins(cfg) == {cfg.plugins[i].name : i \in DOMAIN cfg.plugins}

validateSchedulingProfiles(cfg) ==
    /\ \A i \in DOMAIN cfg.profiles : cfg.profiles[i].name # ""
    /\ \A i, j \in DOMAIN cfg.profiles : i # j => cfg.profiles[i].name # cfg.profiles[j].name
    /\ \A i \in DOMAIN cfg.profiles : \A j \in DOMAIN cfg.profiles[i].plugins :
          cfg.profiles[i].plugins[j].ref \in DefinedPlugins(cfg) \ {""}

validateRawConfig(cfg) ==
    /\ validateFeatureGates(cfg.gates)
    /\ validateSchedulingProfiles(cfg)
    /\ cfg.detector \in DefinedPlugins(cfg)

-----------------------------------------------------------------------------
\* configloader.go

\* doc is the text: "" selects the default configuration, a text that does not decode is Nil.
LoadRawConfig(doc) ==
    IF doc = Nil THEN Nil
    ELSE LET cfg == applyStaticDefaults(IF doc.empty THEN loadDefaultConfig ELSE doc.cfg)
         IN IF validateFeatureGates(cfg.gates) THEN cfg ELSE Nil

\* The handle; a prefix scorer brings the producer of its data, which the
\* configuration does not list.
instantiatePlugins(cfg) ==
    LET specs == cfg.plugins
        handle == [n \in DefinedPlugins(cfg) |-> (CHOOSE i \in DOMAIN specs : specs[i].name = n)]
        types == [n \in DOMAIN handle |-> specs[handle[n]].type]
    IN IF \/ \E i \in DOMAIN specs : specs[i].type \notin DOMAIN PluginTypes \/ ~specs[i].ok
          \/ \E i, j \in DOMAIN specs : i # j /\ specs[i].name = specs[j].name
       THEN Nil
       ELSE IF /\ \E n \in DOMAIN types : types[n] = "prefix-cache-scorer"
               /\ ~\E n \in DOMAIN types : types[n] = "approx-prefix-cache-producer"
            THEN With(types, "approx-prefix-cache-producer", "approx-prefix-cache-producer")
            ELSE types

\* A second picker in a profile is refused by SchedulerProfile.AddPlugins.
buildSchedulerConfig(cfg, handle) ==
    LET pickers(profile) == {j \in DOMAIN profile.plugins : Implements(handle, profile.plugins[j].ref, "picker")}
        handlers == Named(handle, "handler")
    IN IF /\ \A i \in DOMAIN cfg.profiles : Cardinality(pickers(cfg.profiles[i])) <= 1
          /\ Cardinality(handlers) = 1
          /\ (\E n \in handlers : handle[n] = "single-profile-handler") => Len(cfg.profiles) <= 1
       THEN [profiles |-> cfg.profiles, handler |-> CHOOSE n \in handlers : TRUE]
       ELSE Nil

\* The data configuration: Nil under the legacy gate, "error" when a reference is of the wrong kind.
buildDataLayerConfig(cfg, handle) ==
    IF \A i \in DOMAIN cfg.data :
          /\ Implements(handle, cfg.data[i].ref, "source")
          /\ \A j \in DOMAIN cfg.data[i].extractors : Implements(handle, cfg.data[i].extractors[j], "extractor")
    THEN [sources |-> cfg.data] ELSE [error |-> TRUE]

\* InstantiateAndConfigure, with the gates of the configuration as it is now.
configure(c) ==
    LET sched == buildSchedulerConfig(c.cfg, c.handle)
        data == IF Contains(c.cfg.gates, LegacyGate) THEN Nil ELSE buildDataLayerConfig(c.cfg, c.handle)
    IN IF /\ validateRawConfig(c.cfg)
          /\ sched # Nil
          /\ data # Nil => "sources" \in DOMAIN data
          /\ Contains(c.cfg.gates, FlowGate) => c.cfg.flowOk
          /\ Implements(c.handle, c.cfg.parser, "parser")
          /\ Implements(c.handle, c.cfg.detector, "detector")
       THEN [handle |-> c.handle, sched |-> sched, data |-> IF data = Nil THEN <<>> ELSE data.sources,
             flow |-> Contains(c.cfg.gates, FlowGate), parser |-> c.cfg.parser, detector |-> c.cfg.detector]
       ELSE Nil

InstantiateAndConfigure(cfg) ==
    LET handle == instantiatePlugins(cfg)
    IN IF handle = Nil THEN {Nil}
       ELSE {configure(c) : c \in applySystemDefaults([cfg |-> cfg, handle |-> handle])}

-----------------------------------------------------------------------------
\* data_graph.go

pluginToLayerExecutionOrder(handle, n) ==
    LET kinds == PluginTypes[handle[n]].kinds
    IN IF kinds \cap {"fairness", "ordering"} # {} THEN 0
       ELSE IF kinds \cap {"prepare", "admission", "prerequest", "responseheader"} # {} THEN 1
       ELSE IF kinds \cap {"handler", "filter", "scorer", "picker"} # {} THEN 2
       ELSE -1

Produced(handle, n) == PluginTypes[handle[n]].produces
Consumed(handle, n) == PluginTypes[handle[n]].consumes
SharedKeys(handle, p, c) == DOMAIN Produced(handle, p) \cap DOMAIN Consumed(handle, c)
Agree(handle, p, c, k) == Produced(handle, p)[k] = Consumed(handle, c)[k]

\* Of the keys a pair shares the walk looks at one, whichever comes first.
buildDAG(handle) ==
    LET producers == Named(handle, "producer")
        consumers == Named(handle, "consumer")
        pairs == {e \in producers \X consumers : e[1] # e[2] /\ SharedKeys(handle, e[1], e[2]) # {}}
        ordered(e) == pluginToLayerExecutionOrder(handle, e[1]) <= pluginToLayerExecutionOrder(handle, e[2])
        agreeing(e) == {k \in SharedKeys(handle, e[1], e[2]) : Agree(handle, e[1], e[2], k)}
        dag == [n \in producers \cup consumers |-> {p \in producers : <<p, n>> \in pairs}]
    IN (IF \A e \in pairs : ordered(e) /\ agreeing(e) # {} THEN {dag} ELSE {})
         \cup (IF \A e \in pairs : ordered(e) /\ agreeing(e) = SharedKeys(handle, e[1], e[2]) THEN {} ELSE {Nil})

\* Kahn's algorithm from consumers to producers; what becomes ready together is queued in any order.
RECURSIVE kahn(_, _, _, _)
kahn(dag, queue, inDegree, result) ==
    IF queue = <<>> THEN {result}
    ELSE LET u == Head(queue)
             degree == [v \in DOMAIN dag |-> inDegree[v] - (IF v \in dag[u] THEN 1 ELSE 0)]
         IN UNION {kahn(dag, Tail(queue) \o ready, degree, Append(result, u)) :
                     ready \in SetToSeqs({v \in dag[u] : degree[v] = 0})}

sortedNodes(dag) ==
    LET inDegree == [v \in DOMAIN dag |-> Cardinality({u \in DOMAIN dag : v \in dag[u]})]
    IN UNION {kahn(dag, start, inDegree, <<>>) : start \in SetToSeqs({v \in DOMAIN dag : inDegree[v] = 0})}

\* Mutant: the order is not reversed, so that consumers come first.
consumersFirst(dag) ==
    {IF Len(r) # Cardinality(DOMAIN dag) THEN Nil ELSE r : r \in sortedNodes(dag)}
topologicalSort(dag) ==
    {IF Len(r) # Cardinality(DOMAIN dag) THEN Nil ELSE Reverse(r) : r \in sortedNodes(dag)}

ValidateAndOrderDataDependencies(handle) ==
    UNION {IF dag = Nil THEN {Nil} ELSE topologicalSort(dag) : dag \in buildDAG(handle)}

\* The prepare-data plugins in that order; each is a producer and a consumer, so none is dropped.
OrderPrepareDataPlugins(handle, sorted) == SelectSeq(sorted, LAMBDA n : Implements(handle, n, "prepare"))
=============================================================================
