--------------------------- MODULE LatencyTraining ---------------------------
(***************************************************************************)
(* What the predicted-latency producer tells the predictor about one       *)
(* request: the predictions it asks for and the training entries it sends. *)
(* The metrics of a pod change all the time and are identified with the    *)
(* time they are read at; the context of the request keeps a copy of them. *)
(* The counters and lists several requests share are PredictedLatency's.   *)
(***************************************************************************)
EXTENDS Component, SequencesExt

CONSTANTS
    TrainingScenarios,   \* [raw: parameters given, profiles: name -> first target or Nil,
                         \*  tokens: words of the prompt, load: pod -> tokens in flight]
    TrainingRoles,       \* pod -> the value of its role label
    TrainingPrefixes,    \* pod -> [match, total], or Nil without the attribute
    TrainingPredictions, \* pod -> [ttft, tpot] that the predictor answers
    MaxTrainingClock,    \* bound on the clock, in milliseconds
    MaxInterval,         \* bound on the sampled intervals between predictions
    MaxObservations      \* bound on predictions kept per request, at most 4 (see AverageScale)

TrainingPods == DOMAIN TrainingRoles

\* Averages are multiples of 1/12: those of up to four values are.
AverageScale == 12

\* DefaultConfig, Config.validate; MaxDecodeTokenSamplesForPrediction is maxSamples
DefaultConfig == [samplingMean |-> 1000, maxSamples |-> 0, buffer |-> 1, streaming |-> FALSE, predict |-> TRUE, role |-> FALSE]
validate(c) == c.samplingMean > 0 /\ c.maxSamples >= 0 /\ c.buffer > 0

LatencyTrainingInit ==
    \E sc \in TrainingScenarios :
      st = [sc |-> sc, config |-> Nil, phase |-> "config", now |-> 0, ctx |-> Nil, asked |-> <<>>, sent |-> <<>>]

\* PredictedLatencyFactory; the predictor may fail to start
PredictedLatencyFactory ==
    /\ st.phase = "config"
    /\ \E started \in BOOLEAN :
         LET c == [f \in DOMAIN DefaultConfig |-> Lookup(st.sc.raw, f, DefaultConfig[f])]
         IN st' = IF validate(c) /\ started THEN [st EXCEPT !.config = c, !.phase = "new"]
                  ELSE [st EXCEPT !.phase = "refused"]

-----------------------------------------------------------------------------
\* The context of the request; received and last are times, seen is lastSeenMetrics

newPredictedLatencyContext ==
    [target |-> Nil, prefill |-> Nil, received |-> 0, last |-> 0, generated |-> 0, ttft |-> 0,
     predictedTTFT |-> 0, sampler |-> Nil, observed |-> 0, predicted |-> <<>>, avgPredictedTPOT |-> 0,
     seen |-> <<>>, prefix |-> <<>>, predictions |-> <<>>,
     atDispatch |-> 0, atDispatchOnPrefill |-> 0]

\* In thousandths; without blocks the quotient is not a number
matchScore(m) == IF m = Nil \/ m.total = 0 THEN 0 ELSE (1000 * m.match) \div m.total

\* The first target of every profile that has one
refreshLastSeenMetrics(c) ==
    LET scheduled == {p \in DOMAIN st.sc.profiles : st.sc.profiles[p] # Nil}
    IN [c EXCEPT !.seen = [p \in DOMAIN @ \cup scheduled |->
            IF p \in scheduled THEN [pod |-> st.sc.profiles[p], at |-> st.now] ELSE @[p]]]

getLatestMetricsForProfile(c, profile) == Lookup(c.seen, IF profile = "" THEN "primary" ELSE profile, Nil)

podType(pod) == IF st.config.role THEN TrainingRoles[pod] ELSE ""

buildPredictionRequest(pod, m, generated, prefix) ==
    [pod |-> pod, type |-> podType(pod), metrics |-> m, tokens |-> st.sc.tokens,
     generated |-> generated, prefix |-> prefix, inFlight |-> 0]

buildTrainingEntry(kind, pod, m, ms, over, prefix) ==
    [kind |-> kind, pod |-> pod, type |-> podType(pod), metrics |-> m, tokens |-> st.sc.tokens,
     ms |-> ms, over |-> over, prefix |-> prefix, inFlight |-> 0]

\* bulkPredictWithMetrics, generatePredictions: one request for each candidate
bulkRequests(c) ==
    {[buildPredictionRequest(p, [pod |-> p, at |-> st.now], 1, c.prefix[p]) EXCEPT !.inFlight = st.sc.load[p]] : p \in TrainingPods}

\* PrepareRequestData; without an answer the candidates stay unpredicted
PrepareTraining ==
    /\ st.phase = "new"
    /\ LET c == [newPredictedLatencyContext EXCEPT !.prefix = [p \in TrainingPods |-> matchScore(TrainingPrefixes[p])]]
           asked == [st EXCEPT !.phase = "prepared", !.ctx = c, !.asked = Append(@, bulkRequests(c))]
       IN \/ ~st.config.predict /\ st' = [st EXCEPT !.phase = "prepared", !.ctx = c]
          \/ st.config.predict /\ st' = asked
          \/ st.config.predict /\ st' = [asked EXCEPT !.ctx.predictions = TrainingPredictions]

\* processPreRequestForLatencyPrediction
processPreRequest(c) ==
    LET pod == IF c.prefill # Nil THEN c.prefill ELSE c.target
    IN [c EXCEPT !.predictedTTFT = IF pod \in DOMAIN c.predictions THEN c.predictions[pod].ttft ELSE 0, !.last = st.now]

\* PreRequest; a request without a scheduling result or without its context is left alone
PreRequestTraining ==
    /\ st.phase = "prepared" /\ st.ctx # Nil /\ st.sc.profiles # <<>>
    /\ LET d == st.sc.profiles["primary"]
           p == Lookup(st.sc.profiles, "prefill", Nil)
           c == [refreshLastSeenMetrics(st.ctx)
                   EXCEPT !.target = d, !.prefill = p, !.received = st.now,
                          !.atDispatchOnPrefill = IF p # Nil THEN st.sc.load[p] + st.sc.tokens ELSE 0,
                          !.atDispatch = st.sc.load[d] + st.sc.tokens]
       IN st' = [st EXCEPT !.phase = "running", !.ctx = processPreRequest(c)]

-----------------------------------------------------------------------------
\* The sampler of tokens to predict for

\* Knuth's algorithm for small means may return zero.
poissonNext == IF st.config.samplingMean < 30 THEN 0..MaxInterval ELSE 1..MaxInterval
newDecodeTokenSampler(i) == [next |-> 2 + i, count |-> 0]
initializeSampler(c, i) == IF c.sampler = Nil THEN [c EXCEPT !.sampler = newDecodeTokenSampler(i)] ELSE c
samplesToken(sampler, token) == token = sampler.next /\ sampler.count < st.config.maxSamples
recordSample(sampler, token, i) ==
    [count |-> sampler.count + 1,
     next |-> IF sampler.count + 1 < st.config.maxSamples THEN token + i ELSE sampler.next]

calculateRunningAverage(avg, v, n) ==
    CASE n = 0 -> 0 [] n = 1 -> v [] OTHER -> avg + (v - avg) \div n

observePrediction(c, tpot) ==
    [c EXCEPT !.predicted = Append(@, tpot),
              !.avgPredictedTPOT = calculateRunningAverage(@, AverageScale * tpot, Len(c.predicted) + 1)]

predictFirstTPOT(c) ==
    observePrediction(c, IF c.target \in DOMAIN c.predictions THEN c.predictions[c.target].tpot ELSE 0)

-----------------------------------------------------------------------------
\* What a chunk of the answer adds.  These return the context and what is sent.

recordTTFTTrainingData(c, m, pod) ==
    [buildTrainingEntry("ttft", pod, m, c.ttft, 1, c.prefix[pod])
       EXCEPT !.inFlight = IF c.atDispatchOnPrefill > 0 THEN c.atDispatchOnPrefill ELSE c.atDispatch]

\* processFirstTokenForLatencyPrediction: in whole milliseconds, maybe zero
processFirstTokenForLatencyPrediction(c, i) ==
    LET timed == [initializeSampler(c, i) EXCEPT !.ttft = st.now - c.received, !.generated = 1]
        pod == IF c.prefill # Nil THEN c.prefill ELSE c.target
        m == getLatestMetricsForProfile(c, IF c.prefill # Nil THEN "prefill" ELSE "")
        predicted == IF st.config.streaming THEN predictFirstTPOT(timed) ELSE timed
    IN IF m = Nil /\ c.prefill = Nil THEN [ctx |-> timed, sent |-> <<>>]
       ELSE [ctx |-> refreshLastSeenMetrics([predicted EXCEPT !.last = st.now]),
             sent |-> IF m = Nil THEN <<>> ELSE <<recordTTFTTrainingData(timed, m, pod)>>]

\* processTokenForLatencyPrediction; a failed prediction counts as zero
processTokenForLatencyPrediction(c, i, tpot) ==
    LET token == c.generated + 1
        sampled == samplesToken(c.sampler, token)
        m == getLatestMetricsForProfile(c, "")
        counted == [c EXCEPT !.generated = token, !.observed = IF token = 2 \/ sampled THEN @ + 1 ELSE @]
        predicted == IF sampled THEN [observePrediction(counted, tpot) EXCEPT !.sampler = recordSample(@, token, i)] ELSE counted
    IN IF m = Nil THEN [ctx |-> counted, asked |-> <<>>]
       ELSE [ctx |-> refreshLastSeenMetrics([predicted EXCEPT !.last = st.now]),
             asked |-> IF sampled THEN <<{buildPredictionRequest(c.target, m, token, 0)}>> ELSE <<>>]

\* ResponseBody for a chunk that does not end the stream
TrainingChunk ==
    /\ st.phase = "running" /\ st.ctx # Nil
    /\ Len(st.ctx.predicted) < MaxObservations - 1 /\ st.ctx.generated < MaxObservations
    /\ \E i \in poissonNext, tpot \in {0, 1} :
         LET first == processFirstTokenForLatencyPrediction(st.ctx, i)
             next == processTokenForLatencyPrediction(st.ctx, i, tpot)
         IN \/ /\ st.ctx.ttft = 0 /\ st.config.streaming
               /\ st' = [st EXCEPT !.ctx = first.ctx, !.sent = @ \o first.sent]
            \/ /\ st.ctx.ttft # 0
               /\ st' = [st EXCEPT !.ctx = next.ctx, !.asked = @ \o next.asked]

\* The entry for the time per output token, of all tokens but the first
tpotEntries(c) ==
    LET ms == st.now - c.received - c.ttft
        m == getLatestMetricsForProfile(c, "")
    IN IF c.ttft > 0 /\ c.generated > 1 /\ ms > 0 /\ m # Nil
       THEN <<[buildTrainingEntry("tpot", c.target, m, ms, c.generated - 1, 0) EXCEPT !.inFlight = c.atDispatch]>>
       ELSE <<>>

\* ResponseBody for the end of the stream: the context is deleted
TrainingEnd ==
    /\ st.phase = "running" /\ st.ctx # Nil
    /\ \E i \in poissonNext, tpot \in {0, 1} :
         LET counted == IF st.ctx.ttft = 0 THEN [ctx |-> st.ctx, asked |-> <<>>]
                        ELSE processTokenForLatencyPrediction(st.ctx, i, tpot)
             timed == IF st.config.streaming THEN [ctx |-> counted.ctx, sent |-> <<>>]
                      ELSE processFirstTokenForLatencyPrediction(counted.ctx, i)
         IN st' = [st EXCEPT !.phase = "ended", !.ctx = timed.ctx, !.asked = @ \o counted.asked,
                             !.sent = @ \o timed.sent \o tpotEntries(timed.ctx)]

\* The context's time to live is over; the hooks that come later find none.
TrainingContextExpires ==
    /\ st.phase \in {"prepared", "running"} /\ st.ctx # Nil
    /\ st' = [st EXCEPT !.ctx = Nil, !.phase = "forgotten"]

TrainingClock ==
    /\ st.phase \in {"prepared", "running"} /\ st.now < MaxTrainingClock
    /\ st' = [st EXCEPT !.now = @ + 1]

LatencyTrainingNext ==
    /\ UNCHANGED part
    /\ \/ PredictedLatencyFactory \/ PrepareTraining \/ PreRequestTraining
       \/ TrainingChunk \/ TrainingEnd \/ TrainingContextExpires \/ TrainingClock

-----------------------------------------------------------------------------
trainedOf(kind) == SelectSeq(st.sent, LAMBDA e : e.kind = kind)
ttftPod == IF st.ctx.prefill # Nil THEN st.ctx.prefill ELSE st.ctx.target

\* What the predictor learns of a request is what happened to it (ResponseBody,
\* processFirstTokenForLatencyPrediction, recordTTFTTrainingData).
\*  - An entry is about one pod: the type, the metrics and the prefix score it
\*    carries are that pod's, and so are the tokens in flight unless the
\*    prefill pod had none.  The first token is the prefill pod's.
\*  - The time to first token is trained with the metrics of the dispatch, and
\*    once, unless it was zero milliseconds: then it is taken again.
\*  - The time per output token is trained at most once, with streaming only,
\*    and makes up with the time to first token the time of the whole answer;
\*    its metrics are the last ones, its tokens in flight the dispatch's.
\*    Two comments say otherwise.  The scorer's twin of this code says "using
\*    avgTPOT and dispatch-time metrics" (scorer/predictedlatency/
\*    requestcontrol_hooks.go:285), but getLatestMetricsForProfile returns the
\*    metrics of the last token; and both samplers say "Training happens on
\*    every token regardless of sampling" (decode_token_sampler.go:27,
\*    sampler.go:27), but a request is trained on once, at its end.
\*  - The average prediction is the average of the predictions kept, the metrics
\*    kept are those of the last token, and a request is asked about only with
\*    them, at most maxSamples times after it is scheduled.
TrainingDataFaithful ==
    part = "latencytraining" /\ st.ctx # Nil =>
      LET ttfts == trainedOf("ttft")
          tpots == trainedOf("tpot")
          c == st.ctx
      IN /\ \A k \in DOMAIN ttfts :
              LET e == ttfts[k]
              IN /\ e.pod = ttftPod /\ e.metrics.pod = ttftPod /\ e.type = podType(ttftPod)
                 /\ e.prefix = matchScore(TrainingPrefixes[ttftPod])
                 /\ e.inFlight = (IF c.prefill # Nil /\ c.atDispatchOnPrefill > 0 THEN c.atDispatchOnPrefill ELSE c.atDispatch)
                 /\ e.metrics.at = c.received
                 /\ k < Len(ttfts) => e.ms = 0
         /\ Len(tpots) =< 1
         /\ \A k \in DOMAIN tpots :
              LET e == tpots[k]
              IN /\ st.config.streaming /\ ttfts # <<>> /\ e.over = c.generated - 1
                 /\ e.pod = c.target /\ e.metrics = [pod |-> c.target, at |-> st.now] /\ e.inFlight = c.atDispatch
                 /\ e.ms + ttfts[Len(ttfts)].ms = st.now - c.received
         /\ c.predicted # <<>> => c.avgPredictedTPOT * Len(c.predicted) = AverageScale * FoldSeq(+, 0, c.predicted)
         /\ \A p \in DOMAIN c.seen : c.seen[p] = [pod |-> st.sc.profiles[p], at |-> c.last]
         /\ Len(st.asked) =< (IF st.config.predict THEN 1 ELSE 0) + st.config.maxSamples
         /\ c.sampler # Nil => c.sampler.count =< st.config.maxSamples
         /\ st.phase = "ended" => ttfts # <<>> \/ (st.config.streaming /\ c.generated = 0)
=============================================================================
