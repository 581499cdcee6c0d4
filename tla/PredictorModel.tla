---------------------------- MODULE PredictorModel ----------------------------
(***************************************************************************)
(* What the latency predictor's client knows of the model its servers run  *)
(* (sidecars/latencypredictorasync), and the predictions it makes from     *)
(* that: the configuration read from the environment, the cached server    *)
(* status, model info and metrics, Predict and PredictBulk.                *)
(* Fractions are in 1/Whole.  An environment variable is Nil (not set),    *)
(* <<>> (set, no number) or <<n>>.  A page of metrics is a sequence of     *)
(* lines [name, label, bucket, value]: the name "" stands for an empty     *)
(* line or a comment, the value Nil for one that is no number, the label   *)
(* "" and the bucket Nil for ones that are missing.                        *)
(***************************************************************************)
EXTENDS Component, SequencesExt

CONSTANTS
    PredictorConfigs,   \* Nil, or a configuration that is given
    PredictorEnvs,
    ServerStatuses,     \* [type, quantile, objective] that the servers may report
    ModelInfos,         \* likewise
    MetricPages,
    PredictionInputs,   \* predictionRequest -> [kv, input, waiting, running, generated, prefix]
    BulkInputs          \* sequences of them

Whole == 10

DefaultPredictorConfig ==
    [urls |-> {"localhost"}, sample |-> 1000, flush |-> 1000, refresh |-> 60000, native |-> TRUE,
     timeout |-> 10000, bulk |-> 100, window |-> 1, rows |-> 0, dispatches |-> 36]

\* A variable that is no number, or one out of its range, is ignored.
override(v, lo, hi, scale, default) ==
    IF v \notin {Nil, <<>>} /\ lo =< v[1] /\ v[1] =< hi THEN v[1] * scale ELSE default

Unlimited == 2^16

ConfigFromEnv(env) ==
    LET d == DefaultPredictorConfig
    IN [urls |-> IF env.urls = {} THEN d.urls ELSE env.urls,
        native |-> IF env.native = "" THEN d.native ELSE env.native = "true",
        sample |-> override(env.sample, 1, Unlimited, 1, d.sample),
        flush |-> override(env.flush, 1, Unlimited, 1000, d.flush),
        refresh |-> override(env.refresh, 1, Unlimited, 1000, d.refresh),
        timeout |-> override(env.timeout, 1, Unlimited, 1000, d.timeout),
        bulk |-> override(env.bulk, 1, 100, 1, d.bulk),
        window |-> override(env.window, 0, Unlimited, 1, d.window),
        rows |-> override(env.rows, 0, Unlimited, 1, d.rows),
        dispatches |-> override(env.dispatches, 1, Unlimited, 1, d.dispatches)]

\* New.  `page` is the last page that was read.
PredictorModelInit ==
    \E given \in PredictorConfigs, env \in PredictorEnvs :
      st = [config |-> IF given = Nil THEN ConfigFromEnv(env) ELSE given,
            serverStatus |-> Nil, modelInfo |-> Nil, cachedMetrics |-> Nil, page |-> Nil,
            refresh |-> "idle", answer |-> Nil]

\* getRandomPredictionURL
predictionURLs == IF st.config.urls = {} THEN {"training"} ELSE st.config.urls

-----------------------------------------------------------------------------
\* Metrics of a Bayesian-ridge model

\* parseMetricLine, on p = [c, b, err]: coefficients, bucket counts, an error seen
parseMetricLine(p, line) ==
    LET labelled == line.label # ""
        counted == line.bucket # Nil /\ line.label \in DOMAIN p.b
    IN IF line.name = "" THEN p
       ELSE IF line.value = Nil THEN [p EXCEPT !.err = TRUE]
       ELSE CASE line.name = "ttft_intercept" -> [p EXCEPT !.c.ttftIntercept = line.value]
              [] line.name = "tpot_intercept" -> [p EXCEPT !.c.tpotIntercept = line.value]
              [] line.name = "ttft_coef" /\ labelled -> [p EXCEPT !.c.ttft = With(@, line.label, line.value)]
              [] line.name = "tpot_coef" /\ labelled -> [p EXCEPT !.c.tpot = With(@, line.label, line.value)]
              [] line.name = "training_samples_count" /\ counted ->
                   [p EXCEPT !.b[line.label] = With(@, line.bucket, line.value)]
              [] OTHER -> p

parsePrometheusMetrics(page) ==
    FoldLeft(parseMetricLine,
             [c |-> [ttftIntercept |-> 0, tpotIntercept |-> 0, ttft |-> <<>>, tpot |-> <<>>],
              b |-> [ttft |-> <<>>, tpot |-> <<>>], err |-> FALSE], page)

noMetrics == [type |-> "", coefficients |-> Nil, buckets |-> Nil, trees |-> FALSE]
cachedOr(m) == IF m = Nil THEN noMetrics ELSE m

\* GetMetrics replaces the whole cache; after an error it keeps only the text.
GetMetrics(page) ==
    LET p == parsePrometheusMetrics(page)
    IN [noMetrics EXCEPT !.type = "bayesian_ridge", !.coefficients = IF p.err THEN Nil ELSE p.c,
                         !.buckets = IF p.err THEN Nil ELSE p.b]

\* GetModelCoefficients and GetBucketCounts, asked from outside at any time
AskMetrics ==
    \E page \in MetricPages :
      LET m == GetMetrics(page)
      IN st' = [st EXCEPT !.cachedMetrics = m, !.page = page,
                          !.answer = [kind |-> "metrics", ok |-> m.coefficients # Nil, coefficients |-> m.coefficients, buckets |-> m.buckets]]

-----------------------------------------------------------------------------
\* The refreshes.  A call that fails leaves the cache alone.

refreshServerStatus ==
    /\ st.refresh = "idle"
    /\ \E s \in ServerStatuses : st' = [st EXCEPT !.serverStatus = s]

\* refreshModelInfo, by the loop as the first step of refreshMetrics, and by
\* Start and GetModelInfo on its own
refreshModelInfo ==
    \E i \in ModelInfos, loop \in BOOLEAN :
      /\ loop => st.refresh = "idle"
      /\ st' = [st EXCEPT !.modelInfo = i, !.refresh = IF loop THEN "info" ELSE @]

\* refreshMetrics then reads the type, which may be another one by now, ...
readModelType ==
    /\ st.refresh = "info"
    /\ LET type == st.modelInfo.type
       IN st' = [st EXCEPT !.refresh = IF type \in {"bayesian_ridge", "xgboost", "lightgbm"} THEN type ELSE "idle"]

\* ... and gets what that type needs: coefficients, trees or nothing.
refreshMetrics ==
    /\ st.refresh \notin {"idle", "info"}
    /\ LET type == st.refresh
           old == cachedOr(st.cachedMetrics)
           idle == [st EXCEPT !.refresh = "idle"]
       IN \/ type = "bayesian_ridge" /\ \E page \in MetricPages :
               st' = [idle EXCEPT !.cachedMetrics = GetMetrics(page), !.page = page]
          \/ type # "bayesian_ridge" /\
               st' = [idle EXCEPT !.cachedMetrics = [old EXCEPT !.type = type, !.trees = @ \/ (type = "xgboost" /\ st.config.native)]]
          \/ (type = "bayesian_ridge" \/ (type = "xgboost" /\ st.config.native)) /\ st' = idle

-----------------------------------------------------------------------------
\* Predictions

DefaultQuantile == 9

GetCurrentModelType ==
    IF st.serverStatus # Nil THEN st.serverStatus.type
    ELSE IF st.modelInfo # Nil THEN st.modelInfo.type ELSE ""

\* The first source that tells one
firstOf(field, empty, default) ==
    LET told(s) == s # Nil /\ s[field] # empty
    IN IF told(st.serverStatus) THEN st.serverStatus[field]
       ELSE IF told(st.modelInfo) THEN st.modelInfo[field] ELSE default
GetCurrentQuantile == firstOf("quantile", 0, DefaultQuantile)
GetCurrentObjectiveType == firstOf("objective", "", "quantile")

\* Predict itself looks at one source only, and takes a status' quantile as it is.
predictQuantile ==
    IF st.serverStatus # Nil THEN st.serverStatus.quantile ELSE GetCurrentQuantile
predictObjective ==
    LET s == IF st.serverStatus # Nil THEN st.serverStatus ELSE st.modelInfo
    IN IF s # Nil /\ s.objective # "" THEN s.objective ELSE "quantile"

ValidatePredictionRequest(r) ==
    /\ r.kv \in 0..Whole /\ r.prefix \in 0..Whole
    /\ \A f \in {"input", "waiting", "running", "generated"} : r[f] >= 0

Refusal == [kind |-> "refused", ok |-> FALSE]

\* A feature without a coefficient counts as 0.
linear(intercept, coefficients, features, r) ==
    intercept + MapThenSumSet(LAMBDA f : Lookup(coefficients, f, 0) * r[f], features)

predictBayesianRidge(r) ==
    LET c == cachedOr(st.cachedMetrics).coefficients
        shared == {"kv", "input", "waiting", "running"}
    IN IF c = Nil THEN Refusal
       ELSE [kind |-> "ridge", ok |-> TRUE, quantile |-> predictQuantile, objective |-> predictObjective,
             ttft |-> linear(c.ttftIntercept, c.ttft, shared \cup {"prefix"}, r),
             tpot |-> linear(c.tpotIntercept, c.tpot, shared \cup {"generated"}, r)]

\* predictHTTP: an answer of one of the servers, or an error
predictHTTP == {Refusal} \cup {[kind |-> "http", ok |-> TRUE, from |-> url] : url \in predictionURLs}

Predict(r) ==
    \E a \in CASE GetCurrentModelType = "bayesian_ridge" -> {predictBayesianRidge(PredictionInputs[r])}
               [] GetCurrentModelType \in {"xgboost", "lightgbm"} -> predictHTTP
               [] OTHER -> {Refusal} :
      st' = [st EXCEPT !.answer = a]

\* PredictBulk: the server answers row by row, Nil for one it could not
\* predict; those are left out of the result.
PredictBulk(rs) ==
    LET refused == Len(rs) = 0 \/ Len(rs) > st.config.bulk
                     \/ \E k \in DOMAIN rs : ~ValidatePredictionRequest(PredictionInputs[rs[k]])
        replies == {[k \in DOMAIN rs |-> IF k \in good THEN rs[k] ELSE Nil] : good \in SUBSET DOMAIN rs}
    IN \/ st' = [st EXCEPT !.answer = Refusal]
       \/ /\ ~refused
          /\ \E reply \in replies, url \in predictionURLs :
               st' = [st EXCEPT !.answer = [kind |-> "bulk", ok |-> TRUE, from |-> url, of |-> rs,
                                            predictions |-> SelectSeq(reply, LAMBDA p : p # Nil)]]

-----------------------------------------------------------------------------
IsReady ==
    CASE GetCurrentModelType = "bayesian_ridge" -> cachedOr(st.cachedMetrics).coefficients # Nil
      [] GetCurrentModelType = "xgboost" -> st.config.urls # {}
      [] GetCurrentModelType = "lightgbm" -> st.modelInfo # Nil /\ st.modelInfo.type = "lightgbm" /\ st.config.urls # {}
      [] OTHER -> FALSE

PredictorModelNext ==
    /\ UNCHANGED part
    /\ \/ refreshServerStatus \/ refreshModelInfo \/ readModelType \/ refreshMetrics \/ AskMetrics
       \/ \E r \in DOMAIN PredictionInputs : Predict(r)
       \/ \E rs \in BulkInputs : PredictBulk(rs)

-----------------------------------------------------------------------------
\* The last line of the page that tells a value for the name and label.
LastTold(name, label) ==
    LET lines == SelectSeq(st.page, LAMBDA l : l.name = name /\ (label = Nil \/ l.label = label))
    IN IF lines = <<>> THEN Nil ELSE Last(lines).value

(***************************************************************************)
(* A prediction is made from one page of metrics, the last one read        *)
(* (GetMetrics, parsePrometheusMetrics, predictBayesianRidge): the cached  *)
(* coefficients are all of that page's, its last value for each, none of   *)
(* an older page's even when models were switched in between; one line     *)
(* that does not parse and there are none, so Predict refuses.  IsReady    *)
(* promises nothing that Predict refuses for want of a model.  Predict and *)
(* the getters name the same quantile and objective but when the status    *)
(* tells none.  A bulk answer is about rows that were valid, in their      *)
(* order.  The configuration stays in range whatever the environment says. *)
(***************************************************************************)
PredictionsFromOnePage ==
    part = "predictormodel" =>
      LET m == cachedOr(st.cachedMetrics)
          c == m.coefficients
          parses == st.page # Nil /\ \A k \in DOMAIN st.page : st.page[k].name # "" => st.page[k].value # Nil
          told(name) == {st.page[k].label : k \in {k \in DOMAIN st.page : st.page[k].name = name}} \ {""}
          Exactly(coefficients, name) ==
              /\ DOMAIN coefficients = told(name)
              /\ \A f \in told(name) : coefficients[f] = LastTold(name, f)
      IN /\ (c # Nil) = parses
         /\ c # Nil => /\ Exactly(c.ttft, "ttft_coef") /\ Exactly(c.tpot, "tpot_coef")
                        /\ LastTold("ttft_intercept", Nil) \in {Nil, c.ttftIntercept}
                        /\ LastTold("tpot_intercept", Nil) \in {Nil, c.tpotIntercept}
         /\ IsReady => \/ GetCurrentModelType = "bayesian_ridge" /\ parses
                       \/ GetCurrentModelType \in {"xgboost", "lightgbm"} /\ "training" \notin predictionURLs
         /\ predictQuantile # GetCurrentQuantile => st.serverStatus # Nil /\ st.serverStatus.quantile = 0
         /\ predictObjective # GetCurrentObjectiveType => st.serverStatus # Nil /\ st.serverStatus.objective = ""
         /\ st.answer # Nil /\ st.answer.kind = "bulk" =>
              /\ Len(st.answer.of) \in 1..st.config.bulk
              /\ \A k \in DOMAIN st.answer.of : ValidatePredictionRequest(PredictionInputs[st.answer.of[k]])
              /\ \E keep \in SUBSET DOMAIN st.answer.of :
                   st.answer.predictions = [k \in 1..Cardinality(keep) |->
                       st.answer.of[CHOOSE i \in keep : Cardinality({j \in keep : j < i}) = k - 1]]
         /\ st.config.bulk \in 1..100
         /\ \A f \in {"sample", "flush", "refresh", "timeout", "dispatches"} : st.config[f] > 0
=============================================================================
