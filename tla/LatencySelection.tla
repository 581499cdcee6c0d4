-------------------------- MODULE LatencySelection --------------------------
(***************************************************************************)
(* What the predicted-latency plugins decide for one request: predictions  *)
(* are judged against the request's objectives, a request of negative      *)
(* priority may be shed, and the scorer selects one endpoint.  The scorer  *)
(* does all of it; the producer publishes its judgement for the latency    *)
(* admission plugin.  An endpoint is a record: ttft and tpot (predicted),  *)
(* prefix (thousandths), kv (thousandths), queue, slos (the TPOT           *)
(* objectives of the requests the endpoint picker has running there, 0 for *)
(* none), running (how many the endpoint said it had when its metrics were *)
(* last scraped, which may be more or fewer), prefillRole.                 *)
(***************************************************************************)
EXTENDS Component, SequencesExt

CONSTANTS
    LatencyConfigs,     \* [strategy, max, streaming, explore, tau, tauGlobal, penalty]
    LatencyEndpoints,   \* sequences of endpoint records (the director has found some)
    LatencyObjectives   \* [ttft, tpot: headers, Nil if absent and <<>> if no float, priority]

wMax == 100
minWeight == 1
Milli == 1000

\* parseSLOHeaders: a header that is missing or no float reads as zero.
parseFloatHeader(h) == IF h \in {Nil, <<>>} THEN 0 ELSE h[1]
parseSLOHeaders(q) == [q EXCEPT !.ttft = parseFloatHeader(@), !.tpot = parseFloatHeader(@)]

LatencySelectionInit ==
    \E c \in LatencyConfigs, es \in LatencyEndpoints, q \in LatencyObjectives :
      st = [config |-> c, endpoints |-> es, request |-> parseSLOHeaders(q), phase |-> "new", context |-> TRUE, predicted |-> FALSE,
            hasValidEndpoint |-> TRUE, admitted |-> Nil, admittedBySLO |-> Nil, selected |-> Nil]

Candidate == 1..Len(st.endpoints)
endpoint(i) == st.endpoints[i]

-----------------------------------------------------------------------------
\* getEndpointMinTPOTSLO: the top of the running requests, 0 if there is none
\* or if the top has no objective
podMinTPOTSLO(i) == IF endpoint(i).slos = <<>> THEN 0 ELSE Min(ToSet(endpoint(i).slos))
runningRequestCount(i) == Len(endpoint(i).slos)

\* validatePrediction, with a buffer factor of one
bufferedTPOT(i) == IF podMinTPOTSLO(i) > 0 THEN Min2(st.request.tpot, podMinTPOTSLO(i)) ELSE st.request.tpot
ttftHeadroomOf(i) == st.request.ttft - endpoint(i).ttft
tpotHeadroomOf(i) == IF st.config.streaming THEN bufferedTPOT(i) - endpoint(i).tpot ELSE 0
ttftValid(i) == endpoint(i).ttft < st.request.ttft
tpotValid(i) == ~st.config.streaming \/ endpoint(i).tpot < bufferedTPOT(i)

\* The producer judges no TPOT without streaming or on a prefill endpoint.
producerValid(i) == ttftValid(i) /\ (~st.config.streaming \/ endpoint(i).prefillRole \/ tpotValid(i))

\* updateHasValidPod
allPodsAreInvalid ==
    /\ st.request.ttft > 0 /\ (st.request.tpot > 0 \/ ~st.config.streaming)
    /\ \A i \in Candidate : ~(ttftValid(i) /\ tpotValid(i))
allPodsHaveRunningRequests == \A i \in Candidate : runningRequestCount(i) > 0
hasColdPod == \E i \in Candidate : endpoint(i).kv < 20
hasStickyCandidateEndpoint == st.config.tauGlobal > 0 /\ \E i \in Candidate : endpoint(i).prefix >= st.config.tauGlobal
noValidPod == allPodsAreInvalid /\ allPodsHaveRunningRequests /\ ~hasColdPod /\ ~hasStickyCandidateEndpoint

\* bulkPredictWithMetrics: a prediction for every endpoint, or an error
bulkPredictWithMetrics == {TRUE, FALSE}

\* PrepareRequestData
PrepareSelection ==
    /\ st.phase = "new"
    /\ \E answered \in bulkPredictWithMetrics :
         st' = [st EXCEPT !.phase = "prepared", !.predicted = answered, !.hasValidEndpoint = ~(answered /\ noValidPod)]

\* The context expires before it is used.
SelectionContextExpires ==
    /\ st.phase \in {"prepared", "admitted"} /\ st.context
    /\ st' = [st EXCEPT !.context = FALSE]

\* AdmitRequest of the scorer, and of the latency admission plugin
admitRequest == ~st.context \/ st.hasValidEndpoint \/ st.request.priority >= 0
admitBySLO ==
    \/ st.request.priority >= 0
    \/ st.request.ttft =< 0 /\ st.request.tpot =< 0
    \/ ~st.predicted
    \/ \E i \in Candidate : producerValid(i) \/ endpoint(i).running = 0 \/ endpoint(i).kv < 20

AdmitSelection ==
    /\ st.phase = "prepared"
    /\ st' = [st EXCEPT !.phase = IF admitRequest THEN "admitted" ELSE "rejected",
                        !.admitted = admitRequest, !.admittedBySLO = admitBySLO]

-----------------------------------------------------------------------------
\* Selection among a sequence of candidates; the result is the set of the
\* endpoints that the random draws can select.

positiveTTFTs(es) == {endpoint(i).ttft : i \in {j \in ToSet(es) : endpoint(j).ttft > 0}}

\* epsilonGreedyAffinityGate: the sets of candidates it can return
epsilonGreedyAffinityGate(es, threshold) ==
    LET eligible == SelectSeq(es, LAMBDA i : endpoint(i).prefix >= threshold)
        all == positiveTTFTs(es)
        sticky == positiveTTFTs(eligible)
        tooSlow == st.config.penalty > 0 /\ all # {} /\ sticky # {} /\ Min(sticky) - Min(all) > st.config.penalty
    IN IF threshold =< 0 \/ eligible = <<>> THEN {[kept |-> es, sticky |-> FALSE]}
       ELSE (IF st.config.explore THEN {[kept |-> es, sticky |-> FALSE]} ELSE {})
            \cup {IF tooSlow THEN [kept |-> es, sticky |-> FALSE] ELSE [kept |-> eligible, sticky |-> TRUE]}

\* performWeightedRandomSelection over choices [at, weight]: the draw is below
\* total, and past the last choice the first candidate is taken.
firstHeaviest(choices, es) ==
    LET most == Max({c.weight : c \in ToSet(choices)})
    IN IF most > 0 THEN SelectSeq(choices, LAMBDA c : c.weight = most)[1].at ELSE es[1]
weightBefore(choices, k) == FoldSeq(LAMBDA c, n : n + c.weight, 0, SubSeq(choices, 1, k))
performWeightedRandomSelection(choices, total, es) ==
    CASE total = 0 -> {Nil}
      [] total # 0 /\ st.config.max -> {firstHeaviest(choices, es)}
      [] OTHER -> {choices[k].at : k \in {j \in DOMAIN choices : choices[j].weight > 0 /\ weightBefore(choices, j - 1) < total}}
                  \cup (IF weightBefore(choices, Len(choices)) < total THEN {es[1]} ELSE {})
drawAmong(choices, es) == performWeightedRandomSelection(choices, weightBefore(choices, Len(choices)), es)

\* buildCompositeChoices with equal weights for free cache, queue and prefix
compositeWeight(es, i) ==
    LET queues == {endpoint(j).queue : j \in ToSet(es)}
        relQueue == IF Max(queues) = Min(queues) THEN Milli
                    ELSE ((Max(queues) - endpoint(i).queue) * Milli) \div (Max(queues) - Min(queues))
        composite == ((Milli - endpoint(i).kv) + relQueue + endpoint(i).prefix) \div 3
    IN minWeight + (((wMax - minWeight) * composite + Milli \div 2) \div Milli)

\* selectFromCompositeScores: composite-least turns the weights around, and
\* the total stays the one of the weights before.
selectFromCompositeScores(es, strategy) ==
    LET choices == [k \in DOMAIN es |-> [at |-> es[k], weight |-> compositeWeight(es, es[k])]]
        turned == [k \in DOMAIN es |-> [choices[k] EXCEPT !.weight = minWeight + wMax - @]]
    IN performWeightedRandomSelection(IF strategy = "composite-least" THEN turned ELSE choices,
                                      weightBefore(choices, Len(choices)), es)

\* A value within a range, in thousandths and never the whole range (eps)
normalised(v, values, flat) ==
    IF Max(values) = Min(values) THEN flat
    ELSE Min2(((v - Min(values)) * Milli) \div (Max(values) - Min(values)), Milli - 1)

\* Both blends weigh TTFT and TPOT four to one, TTFT alone without streaming.
blend(ttft, tpot) == IF st.config.streaming THEN (4 * ttft + tpot) \div 5 ELSE ttft

\* calculateHeadroomRanges, calculateWeightedChoices
headroomWeight(es, i) ==
    LET combined == blend(normalised(ttftHeadroomOf(i), {ttftHeadroomOf(j) : j \in ToSet(es)}, Milli \div 2),
                          normalised(tpotHeadroomOf(i), {tpotHeadroomOf(j) : j \in ToSet(es)}, Milli \div 2))
        preferred == IF st.config.strategy = "most" THEN combined ELSE Milli - combined
    IN (preferred * (wMax - minWeight)) \div Milli + minWeight + 1

\* weightEndpointsByBlendedDeficit, within the bucket of i
deficit(h) == IF h < 0 THEN -h ELSE 0
deficitWeight(bucket, i) ==
    LET badness == blend(normalised(deficit(ttftHeadroomOf(i)), {deficit(ttftHeadroomOf(j)) : j \in bucket}, 0),
                         normalised(deficit(tpotHeadroomOf(i)), {deficit(tpotHeadroomOf(j)) : j \in bucket}, 0))
    IN ((Milli - badness) * 80) \div Milli + minWeight + 1

\* handleNegativeHeadroomEndpointsHierarchical: the buckets one after the other
headroomBucket(i) == <<ttftHeadroomOf(i) < 0, tpotHeadroomOf(i) < 0>>
negativeChoices(es) ==
    LET ofBucket(b) == SelectSeq(es, LAMBDA i : headroomBucket(i) = b)
        weighed(b) == [k \in DOMAIN ofBucket(b) |-> [at |-> ofBucket(b)[k], weight |-> deficitWeight(ToSet(ofBucket(b)), ofBucket(b)[k])]]
        edge == [k \in DOMAIN ofBucket(<<FALSE, FALSE>>) |-> [at |-> ofBucket(<<FALSE, FALSE>>)[k], weight |-> minWeight]]
    IN weighed(<<TRUE, TRUE>>) \o weighed(<<TRUE, FALSE>>) \o weighed(<<FALSE, TRUE>>) \o edge

positiveChoices(es) == [k \in DOMAIN es |-> [at |-> es[k], weight |-> headroomWeight(es, es[k])]]

selectGated(es, positive) ==
    IF Len(es) = 1 THEN {es[1]}
    ELSE UNION {LET c == g.kept
                IN CASE g.sticky /\ Len(c) = 1 -> {c[1]}
                     [] ~(g.sticky /\ Len(c) = 1) /\ st.config.strategy \in {"composite-most", "composite-least"} ->
                          selectFromCompositeScores(c, st.config.strategy)
                     [] OTHER -> drawAmong(IF positive THEN positiveChoices(c) ELSE negativeChoices(c), c)
                : g \in epsilonGreedyAffinityGate(es, st.config.tau)}

selectFromPositiveHeadroomEndpoints(es) == selectGated(es, TRUE)

\* Endpoints with no running request are preferred strictly.
selectFromNegativeHeadroomEndpoints(es) ==
    LET idle == SelectSeq(es, LAMBDA i : runningRequestCount(i) = 0)
    IN selectGated(IF idle # <<>> THEN idle ELSE es, FALSE)

\* Mutant: one objective with headroom is enough.
positiveHeadroomEither(i) == ttftHeadroomOf(i) >= 0 \/ tpotHeadroomOf(i) >= 0
\* classifyEndpointsByHeadroom
positiveHeadroom(i) == tpotHeadroomOf(i) >= 0 /\ ttftHeadroomOf(i) >= 0

selectEndpointBasedOnStrategy(es) ==
    LET pos == SelectSeq(es, positiveHeadroom)
        neg == SelectSeq(es, LAMBDA i : ~positiveHeadroom(i))
    IN CASE st.config.strategy = "composite-only" -> selectFromCompositeScores(es, "composite-only")
         [] st.config.strategy # "composite-only" /\ pos # <<>> ->
              selectFromPositiveHeadroomEndpoints(pos)
              \cup (IF neg # <<>> /\ st.config.explore THEN selectFromNegativeHeadroomEndpoints(neg) ELSE {})
         [] OTHER -> selectFromNegativeHeadroomEndpoints(neg)

\* scoreWithoutPredictions: prefixes of a context made anew are all zero
scoreWithoutPredictions(es) ==
    selectFromCompositeScores(es, "composite-only")

scoreOutcomes ==
    LET es == [i \in Candidate |-> i]
    IN IF ~st.context \/ ~st.predicted THEN scoreWithoutPredictions(es)
       ELSE UNION {selectEndpointBasedOnStrategy(g.kept) : g \in epsilonGreedyAffinityGate(es, st.config.tauGlobal)}

\* Score
ScoreSelection ==
    /\ st.phase = "admitted"
    /\ \E e \in scoreOutcomes : st' = [st EXCEPT !.phase = "scored", !.selected = e]

LatencySelectionNext ==
    /\ UNCHANGED part
    /\ PrepareSelection \/ SelectionContextExpires \/ AdmitSelection \/ ScoreSelection

-----------------------------------------------------------------------------
\* What the request and the requests running on endpoint i ask of it
meetsRequested(i) ==
    /\ st.request.ttft > 0 => endpoint(i).ttft < st.request.ttft
    /\ st.request.tpot > 0 /\ st.config.streaming /\ ~endpoint(i).prefillRole => endpoint(i).tpot < st.request.tpot
withinObjectives(i) ==
    /\ endpoint(i).ttft =< st.request.ttft
    /\ st.config.streaming => /\ endpoint(i).tpot =< st.request.tpot
                              /\ \A n \in ToSet(endpoint(i).slos) : n = 0 \/ endpoint(i).tpot =< n
staleIdle(i) == endpoint(i).running = 0 /\ runningRequestCount(i) > 0
staleBusy(i) == endpoint(i).running > 0 /\ runningRequestCount(i) = 0
objectiveless(i) == 0 \in ToSet(endpoint(i).slos)

\* The decisions about a request agree with its objectives, and with each
\* other (AdmitRequest, Score).
\*  - The scorer sheds only a request of negative priority with both
\*    objectives that no endpoint meets, none of them idle, cold or sticky;
\*    the admission plugin then sheds it too unless a prefill endpoint would
\*    do or the last scrape of a busy endpoint still calls it idle, and sheds
\*    alone only for a sticky endpoint, a single objective, or an endpoint
\*    that is idle by the requests dispatched to it and busy by its scrape.
\*    (Its README says of idle endpoints, latencyslo/README.md:19 and :34,
\*    that it counts dispatched requests; the code reads the scraped number,
\*    plugin.go:132, so the two plugins disagree about a stale endpoint.)
\*  - The admission plugin sheds a request that some endpoint would serve as
\*    asked only when a request running there asks for more, or when the
\*    request names one objective: the other one then counts as zero.
\*  - With predictions and no exploration an endpoint beyond an objective is
\*    selected only if there is no better one among those the affinity gate
\*    kept, and a busy one only if none of those is idle; an endpoint taken
\*    for one within the objectives is, but where a running request without
\*    an objective hides the objectives of the others.
\*  - Some endpoint is always selected.
SelectionJustified ==
    part = "selection" =>
      /\ st.admitted = FALSE =>
           /\ st.request.priority < 0 /\ st.predicted /\ st.request.ttft > 0
           /\ \A i \in Candidate : ~withinObjectives(i) \/ endpoint(i).ttft = st.request.ttft
                                   \/ endpoint(i).tpot = bufferedTPOT(i)
           /\ \A i \in Candidate : runningRequestCount(i) > 0 /\ endpoint(i).kv >= 20
           /\ st.admittedBySLO = TRUE => \E i \in Candidate : endpoint(i).prefillRole \/ staleIdle(i)
      /\ st.admittedBySLO = FALSE =>
           /\ st.admitted = TRUE => ~st.context \/ hasStickyCandidateEndpoint
                                    \/ st.request.ttft = 0 \/ (st.request.tpot = 0 /\ st.config.streaming)
                                    \/ \E i \in Candidate : staleBusy(i)
           /\ \A i \in Candidate : meetsRequested(i) => \/ st.request.ttft = 0
                                                        \/ st.request.tpot = 0 /\ st.config.streaming
                                                        \/ podMinTPOTSLO(i) \in 1..endpoint(i).tpot
      /\ st.phase = "scored" => st.selected # Nil
      /\ st.phase = "scored" /\ st.context /\ st.predicted /\ ~st.config.explore
           /\ st.config.strategy # "composite-only" =>
           LET e == st.selected
               gated == {i \in Candidate : endpoint(i).prefix >= st.config.tauGlobal}
               kept == IF st.config.tauGlobal > 0 /\ e \in gated THEN gated ELSE Candidate
           IN IF withinObjectives(e) THEN TRUE
              ELSE \/ objectiveless(e) /\ ttftHeadroomOf(e) >= 0
                   \/ /\ \A i \in kept : ~withinObjectives(i)
                      /\ runningRequestCount(e) > 0 => \A i \in kept : runningRequestCount(i) > 0 \/ withinObjectives(i)
=============================================================================
