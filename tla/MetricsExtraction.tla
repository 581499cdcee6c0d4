------------------------- MODULE MetricsExtraction --------------------------
(***************************************************************************)
(* What the endpoint picker reads out of the metrics page of a model       *)
(* server: the core metrics extractor of the data layer, with its mapping  *)
(* per inference engine, and the older metrics client.                     *)
(*                                                                         *)
(* A page is a function from the names of its metric families to their     *)
(* series.  A series has the labels a specification can ask for, a         *)
(* timestamp, a value, a kind, and in `info` the labels that carry data:   *)
(* the running and waiting adapters as sets of names, numbers as numbers,  *)
(* NotANumber for a text that is none and Nil for an empty text.           *)
(* The text of a specification is Nil when empty, or its name ("" when     *)
(* missing) and its label matchers.                                        *)
(***************************************************************************)
EXTENDS Component, SequencesExt

NotANumber == -1

NewMetrics ==
    [active |-> {}, waitingModels |-> {}, maxActive |-> 0, running |-> 0, waiting |-> 0, kv |-> 0,
     blockSize |-> 0, numBlocks |-> 0, time |-> Nil]

-----------------------------------------------------------------------------
\* The data layer's extractor: specifications and mappings.

Unparsable(text) == text # Nil /\ text.name = ""

\* Only equality matchers count: a specification that excludes a label value matches every series.
parseStringToSpec(text) ==
    IF text = Nil THEN Nil
    ELSE LET equal == {m \in text.matchers : m.op = "="}
         IN [name |-> text.name,
             labels |-> [l \in {m.label : m \in equal} |-> (CHOOSE m \in equal : m.label = l).value]]

SpecFields == {"queue", "running", "kv", "lora", "cacheInfo", "blockSize", "numBlocks"}

NewMappingFromConfig(cfg) ==
    IF \E f \in SpecFields : Unparsable(cfg[f]) THEN Nil
    ELSE [f \in SpecFields |-> parseStringToSpec(cfg[f])]
            @@ [blockSizeLabel |-> cfg.blockSizeLabel, numBlocksLabel |-> cfg.numBlocksLabel]

named(name) == [name |-> name, matchers |-> {}]
typed(name, value) == [name |-> name, matchers |-> {[label |-> "type", op |-> "=", value |-> value]}]

EngineConfig(name) ==
    [f \in SpecFields |-> Nil] @@ [name |-> name, blockSizeLabel |-> "", numBlocksLabel |-> ""]

defaultEngineConfigs == <<
    [EngineConfig("vllm") EXCEPT
        !.queue = named("vllm:waiting"), !.running = named("vllm:running"), !.kv = named("vllm:kv"),
        !.lora = named("vllm:lora"), !.cacheInfo = named("vllm:cache")],
    [EngineConfig("sglang") EXCEPT
        !.queue = named("sglang:queue"), !.running = named("sglang:running"), !.kv = named("sglang:usage"),
        !.cacheInfo = named("sglang:cache"), !.blockSizeLabel = "page_size", !.numBlocksLabel = "num_pages"],
    [EngineConfig("trtllm-serve") EXCEPT
        !.queue = named("trtllm:waiting"), !.running = named("trtllm:running"), !.kv = named("trtllm:kv"),
        !.blockSize = named("trtllm:tokens_per_block"), !.numBlocks = named("trtllm:max_blocks")],
    [EngineConfig("triton-tensorrt-llm") EXCEPT
        !.queue = typed("triton:requests", "waiting"), !.running = typed("triton:requests", "scheduled"),
        !.kv = typed("triton:blocks", "fraction"), !.blockSize = typed("triton:blocks", "tokens_per"),
        !.numBlocks = typed("triton:blocks", "max")]>>

DefaultEngineType == "default"

\* The mapping of every engine, the default's under its own name too; Nil when the
\* configuration is refused (a name that is empty, reserved or used twice, a specification
\* that does not parse, a default engine that is not among the engines).
newCoreMetricsExtractorPlugin(params) ==
    LET default == IF params.defaultEngine = "" THEN "vllm" ELSE params.defaultEngine
        user == {params.engines[i].name : i \in DOMAIN params.engines}
        all == params.engines \o SelectSeq(defaultEngineConfigs, LAMBDA c : c.name \notin user)
        names == {all[i].name : i \in DOMAIN all}
        ofName(n) == NewMappingFromConfig(all[CHOOSE i \in DOMAIN all : all[i].name = n])
        refused == \/ names \cap {"", DefaultEngineType} # {}
                   \/ Cardinality(names) # Len(all)
                   \/ \E n \in names : ofName(n) = Nil
                   \/ default \notin names
    IN IF refused THEN Nil
       ELSE [n \in names \cup {DefaultEngineType} |-> ofName(IF n = DefaultEngineType THEN default ELSE n)]

getEngineTypeFromEndpoint(label) == IF label \in {Nil, ""} THEN DefaultEngineType ELSE label

GetMapping(registry, engine) ==
    IF engine \in DOMAIN registry THEN registry[engine] ELSE registry[DefaultEngineType]

-----------------------------------------------------------------------------
\* Reading a page.

extractFamily(spec, families) == Lookup(families, spec.name, <<>>)

labelsMatch(spec, metric) ==
    \A l \in DOMAIN spec.labels : l \in DOMAIN metric.labels /\ metric.labels[l] = spec.labels[l]

matching(spec, families) == SelectSeq(extractFamily(spec, families), LAMBDA m : labelsMatch(spec, m))

\* The first of the newest series, or Nil.
getLatestMetric(spec, families) ==
    IF spec = Nil THEN Nil
    ELSE FoldLeft(LAMBDA latest, m : IF latest = Nil \/ m.ts > latest.ts THEN m ELSE latest,
                  Nil, matching(spec, families))

extractValue(metric) == IF metric.kind \in {"gauge", "counter"} THEN metric.value ELSE 0

\* The value of an adapter series is the time it was created.
getLatestLoRAMetric(spec, families) ==
    IF spec = Nil THEN Nil
    ELSE FoldLeft(LAMBDA latest, m :
                      IF latest = Nil \/ extractValue(m) > extractValue(latest) THEN m ELSE latest,
                  Nil, matching(spec, families))

\* A number in a label: an absent, empty or unreadable one leaves the old value.
labelNumber(info, label, old) ==
    LET v == Lookup(info, label, Nil) IN IF v \in {Nil, NotANumber} THEN old ELSE v

adapters(info, label) == LET v == Lookup(info, label, Nil) IN IF v = Nil THEN {} ELSE v

populateLoRAMetrics(m, metric) ==
    [m EXCEPT !.active = adapters(metric.info, "running_lora_adapters"),
              !.waitingModels = adapters(metric.info, "waiting_lora_adapters"),
              !.maxActive = labelNumber(metric.info, "max_lora", @)]

populateCacheInfoMetrics(m, metric, blockSizeLabel, numBlocksLabel) ==
    [m EXCEPT !.blockSize = labelNumber(metric.info, IF blockSizeLabel = "" THEN "block_size" ELSE blockSizeLabel, 0),
              !.numBlocks = labelNumber(metric.info, IF numBlocksLabel = "" THEN "num_gpu_blocks" ELSE numBlocksLabel, @)]

\* The series each configured specification finds on the page (Nil for none).
found(mapping, families) ==
    [f \in SpecFields |-> IF f = "lora" THEN getLatestLoRAMetric(mapping.lora, families)
                          ELSE getLatestMetric(mapping[f], families)]

orElse(metric, old) == IF metric = Nil THEN old ELSE extractValue(metric)

\* Extract: what is not found keeps its value, and the time is that of a page on which
\* something was found.
Extract(mapping, families, current, now) ==
    LET on == found(mapping, families)
        counts == [current EXCEPT !.waiting = orElse(on.queue, @), !.running = orElse(on.running, @),
                                  !.kv = orElse(on.kv, @)]
        loras == IF on.lora = Nil THEN counts ELSE populateLoRAMetrics(counts, on.lora)
        infos == IF on.cacheInfo = Nil THEN loras
                 ELSE populateCacheInfoMetrics(loras, on.cacheInfo, mapping.blockSizeLabel, mapping.numBlocksLabel)
    IN IF \A f \in SpecFields : on[f] = Nil THEN current
       ELSE [infos EXCEPT !.blockSize = orElse(on.blockSize, @), !.numBlocks = orElse(on.numBlocks, @),
                          !.time = now]
=============================================================================
