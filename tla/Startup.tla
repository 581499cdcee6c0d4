------------------------------ MODULE Startup -------------------------------
(***************************************************************************)
(* The start of the endpoint picker: the command line, the two phases of   *)
(* the configuration around the construction of the datastore, the data    *)
(* layer, the admission controller and the controllers of the manager,     *)
(* and then the health service while the pool comes and goes and the       *)
(* leader is elected.  Each step of Runner.Run and Runner.setup that can   *)
(* fail is an action; Kubernetes itself answers (the manager, discovery).  *)
(***************************************************************************)
EXTENDS ConfigLoader

CONSTANTS
    StartInputs,    \* command lines with their environment and configuration document
    AppProtocols,   \* the application protocols a pool may name ("" for none)
    MaxPoolEvents   \* how often the pool comes and goes after the start

MaxTargetPorts == 8
MaxPortNumber == 65535

-----------------------------------------------------------------------------
\* options.go

removeDuplicatePorts(ports) ==
    FoldLeft(LAMBDA unique, p : IF Contains(unique, p) THEN unique ELSE Append(unique, p), <<>>, ports)

Validate(o) ==
    /\ (o.pool = "") # (o.selector = "")
    /\ o.selector # "" => /\ Len(o.ports) \in 1..MaxTargetPorts
                          /\ \A i \in DOMAIN o.ports : o.ports[i] \in 0..MaxPortNumber
    /\ ~(o.text # "" /\ o.file # "")
    /\ o.scheme \in {"http", "https"}
    /\ ~o.deprecatedMetricFlag

-----------------------------------------------------------------------------
\* runner.go

resolvePoolNamespace(o) ==
    IF o.poolNamespace # "" THEN o.poolNamespace ELSE IF o.namespaceEnv # "" THEN o.namespaceEnv ELSE "default"

\* A pod name is parsed for the name of its deployment: "" is not set, "odd" does not match.
extractGKNN(o) ==
    IF o.pool # "" THEN [kind |-> "InferencePool", name |-> o.pool, namespace |-> resolvePoolNamespace(o)]
    ELSE IF o.selector # "" /\ o.podName \notin {"", "odd"}
         THEN [kind |-> "Deployment", name |-> o.podName, namespace |-> resolvePoolNamespace(o)]
    ELSE Nil

\* The selector "odd" does not convert to labels.
NewEndpointPoolFromOptions(o) ==
    IF o.poolNamespace = "" \/ o.pool = "" \/ o.selector \in {"", "odd"} \/ o.ports = <<>> THEN Nil
    ELSE [selector |-> o.selector, ports |-> o.ports, appProtocol |-> ""]

StartupInit ==
    \E in \in StartInputs :
        st = [pc |-> "options", opts |-> in.opts, doc |-> in.doc, flowEnv |-> in.flowEnv,
              gates |-> {}, raw |-> Nil, gknn |-> Nil, pool |-> Nil, config |-> Nil, prepare |-> <<>>,
              sources |-> {}, admission |-> Nil, reconcilers |-> {}, isLeader |-> FALSE, events |-> 0]

StartFails == st' = [st EXCEPT !.pc = "failed"]

\* Run: complete and validate the flags.
CompleteOptions ==
    LET o == [st.opts EXCEPT !.ports = removeDuplicatePorts(@)]
    IN /\ st.pc = "options"
       /\ IF Validate(o) THEN st' = [st EXCEPT !.opts = o, !.pc = "phaseOne"] ELSE StartFails

\* The text, or else the file, or else nothing; r.featureGates are those of the document.
parseConfigurationPhaseOne ==
    LET doc == IF st.opts.text # "" \/ st.opts.file = "readable" THEN st.doc
               ELSE IF st.opts.file # "" THEN Nil
               ELSE [empty |-> TRUE]
        cfg == LoadRawConfig(doc)
    IN /\ st.pc = "phaseOne"
       /\ IF cfg = Nil THEN StartFails
          ELSE st' = [st EXCEPT !.raw = cfg, !.gates = ToSet(cfg.gates), !.pc = "datastore"]

\* extractGKNN, then setupDatastore: with an endpoint selector the pool comes from the options.
setupDatastore ==
    LET gknn == extractGKNN(st.opts)
        startCrdReconcilers == st.opts.selector = ""
        pool == IF startCrdReconcilers THEN Nil ELSE NewEndpointPoolFromOptions(st.opts)
    IN /\ st.pc = "datastore"
       /\ IF gknn = Nil \/ (~startCrdReconcilers /\ pool = Nil) THEN StartFails
          ELSE st' = [st EXCEPT !.gknn = gknn, !.pool = pool, !.pc = "phaseTwo"]

applyDeprecatedEnvFeatureGate(cfg) == IF st.flowEnv THEN [cfg EXCEPT !.gates = Append(@, FlowGate)] ELSE cfg

\* parseConfigurationPhaseTwo; the leader flag is set at once without leader election.
parseConfigurationPhaseTwo ==
    LET raw == applyDeprecatedEnvFeatureGate(st.raw)
    IN /\ st.pc = "phaseTwo"
       /\ \E config \in InstantiateAndConfigure(raw) :
             IF config = Nil THEN StartFails
             ELSE \E sorted \in ValidateAndOrderDataDependencies(config.handle) :
                    IF sorted = Nil THEN StartFails
                    ELSE st' = [st EXCEPT !.raw = raw, !.config = config, !.pc = "datalayer",
                                          !.prepare = OrderPrepareDataPlugins(config.handle, sorted),
                                          !.isLeader = ~st.opts.election]

\* runtime.go: the extractors of a source must implement what it expects and accept what it gives.
validateSourceExtractors(handle, source) ==
    \A j \in DOMAIN source.extractors :
        LET s == PluginTypes[handle[source.ref]].data
            x == PluginTypes[handle[source.extractors[j]]].data
        IN x.extracts = s.extracts /\ x.input \in {s.output, "any"} /\ (s.kind = "notifier" => x.gvk = s.gvk)

\* Runtime.Configure, called with the gates of phase one; under the legacy gate there is no data configuration.
Configure ==
    LET sources == st.config.data
        plugin(i) == PluginTypes[st.config.handle[sources[i].ref]].data
    IN /\ st.pc = "datalayer"
       /\ IF sources = <<>>
          THEN IF LegacyGate \in st.gates THEN st' = [st EXCEPT !.pc = "admission"] ELSE StartFails
          ELSE IF /\ \A i \in DOMAIN sources : /\ validateSourceExtractors(st.config.handle, sources[i])
                                               /\ plugin(i).kind \in {"poller", "notifier", "endpoint"}
                  /\ \A i, j \in DOMAIN sources : (/\ i # j
                                                   /\ plugin(i).kind = "notifier"
                                                   /\ plugin(j).kind = "notifier") => plugin(i).gvk # plugin(j).gvk
               THEN st' = [st EXCEPT !.sources = {sources[i].ref : i \in DOMAIN sources}, !.pc = "admission"]
               ELSE StartFails

\* The rest of setup: the admission controller by the gates of phase one, then
\* the reconcilers of SetupWithManager and the two servers.
finishSetup ==
    /\ st.pc = "admission"
    /\ st' = [st EXCEPT !.pc = "running",
                        !.admission = IF FlowGate \in st.gates THEN "flowControl" ELSE "legacy",
                        !.reconcilers = {"Pod"} \cup IF st.opts.selector = ""
                                                     THEN {"InferencePool"} \cup st.opts.served ELSE {}]

-----------------------------------------------------------------------------
\* While it runs: the elected leader, and the pool the reconciler stores and clears.

Elected == /\ st.pc = "running" /\ st.opts.election /\ ~st.isLeader
           /\ st' = [st EXCEPT !.isLeader = TRUE]

PoolStored == /\ st.pc = "running" /\ "InferencePool" \in st.reconcilers /\ st.events < MaxPoolEvents
              /\ \E p \in AppProtocols :
                    st' = [st EXCEPT !.pool = [selector |-> "s", ports |-> <<8000>>, appProtocol |-> p], !.events = @ + 1]

PoolCleared == /\ st.pc = "running" /\ "InferencePool" \in st.reconcilers /\ st.pool # Nil
               /\ st' = [st EXCEPT !.pool = Nil]

StartupNext ==
    /\ UNCHANGED part
    /\ \/ CompleteOptions \/ parseConfigurationPhaseOne \/ setupDatastore \/ parseConfigurationPhaseTwo
       \/ Configure \/ finishSetup \/ Elected \/ PoolStored \/ PoolCleared

StartupSpec == part = "startup" /\ StartupInit /\ [][StartupNext]_<<part, st>>

\* health.go

checkProtocolSupport(s) ==
    LET supported == PluginTypes[s.config.handle[s.config.parser]].protocols
    IN s.pool = Nil \/ supported = {} \/ (IF s.pool.appProtocol = "" THEN "http" ELSE s.pool.appProtocol) \in supported

Check(s, service) ==
    LET isLive == s.pool # Nil
        ready == isLive /\ s.isLeader /\ checkProtocolSupport(s)
        status(b) == IF b THEN "SERVING" ELSE "NOT_SERVING"
    IN IF ~s.opts.election THEN status(isLive /\ checkProtocolSupport(s))
       ELSE IF service \in {"readiness", "", "ext_proc"} THEN status(ready)
       ELSE IF service = "liveness" THEN "SERVING"
       ELSE "SERVICE_UNKNOWN"

-----------------------------------------------------------------------------
\* What the configuration document asks for, stated from the document alone.

Document == applyStaticDefaults(IF (st.opts.text = "" /\ st.opts.file = "") \/ st.doc.empty
                                THEN loadDefaultConfig ELSE st.doc.cfg)
Kinds(cfg, ref) == UNION {PluginTypes[cfg.plugins[i].type].kinds :
                             i \in {j \in DOMAIN cfg.plugins : cfg.plugins[j].name = ref}}
KindCount(cfg, kind) == Cardinality({i \in DOMAIN cfg.plugins : kind \in PluginTypes[cfg.plugins[i].type].kinds})
DefaultTypes == {"single-profile-handler", "max-score-picker", "fcfs-ordering-policy", "global-strict-fairness-policy",
                 "static-usage-limit-policy", "openai-parser", "utilization-detector", "metrics-data-source",
                 "core-metrics-extractor", "approx-prefix-cache-producer"}

SoundPlugins(cfg) ==
    /\ \A i \in DOMAIN cfg.plugins : cfg.plugins[i].type \in DOMAIN PluginTypes /\ cfg.plugins[i].ok
    /\ \A i, j \in DOMAIN cfg.plugins : i # j => cfg.plugins[i].name # cfg.plugins[j].name
    /\ \A i \in DOMAIN cfg.plugins : cfg.plugins[i].name \in DefaultTypes => cfg.plugins[i].type = cfg.plugins[i].name

SoundProfiles(cfg) ==
    LET pickers(profile) == {j \in DOMAIN profile.plugins : "picker" \in Kinds(cfg, profile.plugins[j].ref)}
        names == [i \in DOMAIN cfg.profiles |-> cfg.profiles[i].name]
    IN /\ "" \notin ToSet(names) /\ IsInjective(names)
       /\ \A i \in DOMAIN cfg.profiles : /\ Cardinality(pickers(cfg.profiles[i])) <= 1
                                         /\ \A j \in DOMAIN cfg.profiles[i].plugins :
                                               Kinds(cfg, cfg.profiles[i].plugins[j].ref) # {}
       /\ cfg.profiles = <<>> => KindCount(cfg, "picker") <= 1
       /\ KindCount(cfg, "handler") \in (IF Len(cfg.profiles) <= 1 THEN 0..1 ELSE {1})
       /\ Len(cfg.profiles) > 1 => "single-profile-handler" \notin {cfg.plugins[i].type : i \in DOMAIN cfg.plugins}

\* What Configure can run with: no data section, or one with at least one
\* source, whose plugins fit together.  A section with an empty list of sources
\* is not among them, whatever the guide says of it (see StartupSound).
SoundData(cfg) ==
    LET data(ref) == PluginTypes[cfg.plugins[CHOOSE i \in DOMAIN cfg.plugins : cfg.plugins[i].name = ref].type].data
        fits(s, x) == x.extracts = s.extracts /\ x.input \in {s.output, "any"} /\ (s.kind = "notifier" => x.gvk = s.gvk)
        watched == {i \in DOMAIN cfg.data : data(cfg.data[i].ref).kind = "notifier"}
    IN \/ Contains(cfg.gates, LegacyGate)
       \/ cfg.data = Nil
       \/ /\ cfg.data # <<>>
          /\ \A i \in DOMAIN cfg.data :
                /\ "source" \in Kinds(cfg, cfg.data[i].ref) /\ data(cfg.data[i].ref).kind # "other"
                /\ \A j \in DOMAIN cfg.data[i].extractors :
                      /\ "extractor" \in Kinds(cfg, cfg.data[i].extractors[j])
                      /\ fits(data(cfg.data[i].ref), data(cfg.data[i].extractors[j]))
          /\ \A i, j \in watched : i # j => data(cfg.data[i].ref).gvk # data(cfg.data[j].ref).gvk

\* Data is produced no later than it is consumed, in the type it is consumed,
\* and no set of plugins waits for one another's data.
SoundDependencies(cfg) ==
    LET handle == instantiatePlugins(cfg)
        needs(c, p) == p # c /\ SharedKeys(handle, p, c) # {}
    IN /\ \A p, c \in DOMAIN handle : needs(c, p) =>
             /\ pluginToLayerExecutionOrder(handle, p) <= pluginToLayerExecutionOrder(handle, c)
             /\ \A k \in SharedKeys(handle, p, c) : Agree(handle, p, c, k)
       /\ \A S \in SUBSET DOMAIN handle : S # {} => \E c \in S : \A p \in S : ~needs(c, p)

SoundDocument(cfg) ==
    /\ ToSet(cfg.gates) \subseteq FeatureGates
    /\ SoundPlugins(cfg)
    /\ SoundProfiles(cfg)
    /\ cfg.parser = Nil \/ "parser" \in Kinds(cfg, cfg.parser)
    /\ cfg.detector \in {Nil, "", "utilization-detector"} \/ "detector" \in Kinds(cfg, cfg.detector)
    /\ SoundData(cfg)
    /\ SoundDependencies(cfg)
    /\ (FlowGate \in ToSet(cfg.gates) \/ st.flowEnv) => cfg.flowOk

SoundCommandLine(o) == Validate([o EXCEPT !.ports = removeDuplicatePorts(@)]) /\ o.file # "missing"

\* The sources the data layer runs with: none under the legacy gate, the
\* default one for a document without a data section, and else those listed.
DocumentSources(cfg) ==
    IF LegacyGate \in ToSet(cfg.gates) THEN {}
    ELSE IF cfg.data = Nil THEN {"metrics-data-source"}
    ELSE {cfg.data[i].ref : i \in DOMAIN cfg.data}

\* Every profile picks once and weighs its scorers, and data producers run before their consumers.
RunsAsConfigured(s) ==
    LET handle == s.config.handle
        profiles == s.config.sched.profiles
        index(n) == CHOOSE i \in DOMAIN s.prepare : s.prepare[i] = n
    IN /\ \A i \in DOMAIN profiles :
             LET refs == profiles[i].plugins
             IN /\ Cardinality({j \in DOMAIN refs : Implements(handle, refs[j].ref, "picker")}) = 1
                /\ \A j \in DOMAIN refs : Implements(handle, refs[j].ref, "scorer") => refs[j].weight # Nil
       /\ ToSet(s.prepare) = Named(handle, "prepare") /\ IsInjective(s.prepare)
       /\ \A p, c \in Named(handle, "prepare") : p # c /\ SharedKeys(handle, p, c) # {} => index(p) < index(c)
       /\ \A p \in Named(handle, "producer"), c \in Named(handle, "consumer") :
             p # c /\ SharedKeys(handle, p, c) # {} => \E k \in SharedKeys(handle, p, c) : Agree(handle, p, c, k)
       /\ \A i \in DOMAIN Document.plugins :
             \/ handle[Document.plugins[i].name] = Document.plugins[i].type
             \/ Document.plugins[i].name \in {"single-profile-handler", "max-score-picker", "openai-parser",
                                              "approx-prefix-cache-producer"}

\* Startup, from the command line to the health service.  A sound document with
\* a pool name always comes up, whatever the order of the map walks, and what
\* comes up runs as configured: pickers, weights, the producers before their
\* consumers, no configured plugin replaced but by a default of its name, flow
\* control exactly when the document (not the environment) has its gate, and
\* the sources the document lists, or the default one when it has no data
\* section.  Without the legacy gate no process runs without a source: an
\* explicitly empty list ends the start in Configure (runtime.go:67-69).  The
\* documentation says otherwise of both: site-src/guides/epp-configuration/
\* config-text.md:606-618 calls `sources: []` valid and an omitted section an
\* error, and datalayer/factory.go:31, defaults.go:292-294 and the message of
\* configloader.go:126-127 take an empty section to turn the collection off.
\* An endpoint selector never comes up from a command line.  A process that
\* says it is ready has a pool it can serve, and is the leader.
StartupSound ==
    part = "startup" =>
        /\ st.pc = "failed" => ~(/\ SoundCommandLine(st.opts) /\ st.opts.pool # ""
                                 /\ st.doc # Nil \/ (st.opts.text = "" /\ st.opts.file = "")
                                 /\ SoundDocument(Document))
        /\ st.pc = "running" =>
              /\ SoundCommandLine(st.opts) /\ st.opts.pool # ""
              /\ RunsAsConfigured(st)
              /\ (st.admission = "flowControl") = (FlowGate \in ToSet(Document.gates))
              /\ st.admission = "flowControl" => st.config.flow
              /\ st.sources = DocumentSources(Document)
              /\ st.sources = {} => LegacyGate \in ToSet(Document.gates)
              /\ \A service \in {"readiness", "", "ext_proc"} : Check(st, service) = "SERVING" =>
                    st.pool # Nil /\ st.isLeader /\ checkProtocolSupport(st)

\* The guide and the flag's comment: an endpoint selector stands in for the
\* pool, so a command line that validates, with a sound document, does not fail.
StandaloneStarts ==
    (/\ part = "startup" /\ SoundCommandLine(st.opts)
     /\ st.opts.selector = "s" /\ st.opts.podName = "epp" /\ st.opts.text = "" /\ st.opts.file = "") => st.pc # "failed"
=============================================================================
