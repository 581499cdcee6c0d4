-------------------------- MODULE SchedulingPlugins --------------------------
(***************************************************************************)
(* The filters and scorers of the scheduling framework, as operators over  *)
(* a set of endpoints.  e[x] is what the data layer knows of endpoint x.   *)
(* One is Unit: scores, utilizations and thresholds are counted in parts   *)
(* of it, which makes the fractions of the small instances exact.          *)
(***************************************************************************)
EXTENDS Component, SequencesExt

CONSTANTS
    QueueDepthThreshold, KVCacheUtilThreshold, UtilizationHeadroom,   \* utilization detector
    MaxConcurrency, MaxTokenConcurrency, ConcurrencyHeadroom,         \* concurrency detector
    AffinityThreshold, MaxTTFTPenalty,                                \* prefix cache affinity filter
    QueueThresholdTokens,                                             \* token load scorer
    TTFTWeight, TPOTWeight, Strategy                                  \* latency scorer

Unit == 600
WeightMax == 100          \* wMax; minWeight is 0
Infinity == 1000000       \* math.MaxFloat64

SumOver(S, F(_)) == FoldLeft(LAMBDA a, x : a + F(x), 0, SetToSeq(S))
MinOver(S, F(_), default) == FoldLeft(LAMBDA a, x : Min2(a, F(x)), default, SetToSeq(S))
MaxOver(S, F(_), default) == FoldLeft(LAMBDA a, x : Max2(a, F(x)), default, SetToSeq(S))
Abs(n) == IF n < 0 THEN -n ELSE n

-----------------------------------------------------------------------------
\* Saturation detectors, which are filters too

\* Utilization: the mean over the endpoints of the worse of two ratios; an
\* endpoint with stale metrics counts as full.
utilizationSaturation(e, S) ==
    IF S = {} THEN Unit
    ELSE SumOver(S, LAMBDA x : IF ~e[x].fresh THEN Unit
                               ELSE Max2((e[x].queue * Unit) \div QueueDepthThreshold,
                                         (e[x].kv * Unit) \div KVCacheUtilThreshold)) \div Cardinality(S)

HasRoomFor(e, x) ==
    /\ e[x].fresh
    /\ e[x].queue * Unit < QueueDepthThreshold * (Unit + UtilizationHeadroom)
    /\ e[x].kv * Unit < KVCacheUtilThreshold * (Unit + UtilizationHeadroom)

\* The filter lets all pass rather than none.
utilizationFilter(e, S) ==
    LET filtered == {x \in S : HasRoomFor(e, x)}
    IN IF filtered = {} THEN S ELSE filtered

\* Concurrency: the requests, or by its mode the tokens, in flight.
loadOf(e, x, mode) == IF mode = "tokens" THEN e[x].tokens ELSE e[x].requests
capacityFor(mode) == IF mode = "tokens" THEN MaxTokenConcurrency ELSE MaxConcurrency
concurrencySaturation(e, S, mode) ==
    IF S = {} THEN Unit
    ELSE (SumOver(S, LAMBDA x : loadOf(e, x, mode)) * Unit) \div (Cardinality(S) * capacityFor(mode))

\* The limit is truncated to an integer, and none may pass.
concurrencyFilter(e, S, mode) ==
    {x \in S : loadOf(e, x, mode) < (capacityFor(mode) * (Unit + ConcurrencyHeadroom)) \div Unit}

-----------------------------------------------------------------------------
\* Filters

prefixCacheScore(e, x) ==
    IF e[x].prefix = Nil THEN 0
    ELSE IF e[x].prefix.total = 0 THEN 0 ELSE (e[x].prefix.match * Unit) \div e[x].prefix.total

bestTTFT(e, S) == MinOver({x \in S : e[x].pred # Nil}, LAMBDA x : e[x].pred.ttft, Infinity)

\* Narrow to the endpoints that hold the prefix, unless they are too slow; the
\* random exploration skips the filter.
affinityFilter(e, S, explore) ==
    LET sticky == {x \in S : prefixCacheScore(e, x) >= AffinityThreshold}
    IN IF \/ Cardinality(S) =< 1 \/ AffinityThreshold =< 0 \/ explore \/ sticky = {}
          \/ /\ MaxTTFTPenalty > 0 /\ sticky # S
             /\ bestTTFT(e, sticky) - bestTTFT(e, S \ sticky) > MaxTTFTPenalty
       THEN S ELSE sticky

MeetsSLOs(e, x) == e[x].pred # Nil /\ e[x].pred.ttftHeadroom >= 0 /\ e[x].pred.tpotHeadroom >= 0
MissesSLO(e, x) == e[x].pred # Nil /\ ~MeetsSLOs(e, x)

\* The tier that meets the objectives, or, when exploring or when nothing meets
\* them, the one that does not.
tierFilter(e, S, explore) ==
    LET positive == {x \in S : MeetsSLOs(e, x)}
    IN IF Cardinality(S) =< 1 \/ \A x \in S : e[x].pred = Nil THEN S
       ELSE IF positive = {} \/ positive = S THEN S
       ELSE IF explore THEN S \ positive ELSE positive

-----------------------------------------------------------------------------
\* Scorers

\* The queue and running-requests scorers: 1 for the shortest, 0 for the longest.
relativeScore(size) ==
    LET S == DOMAIN size
        least == MinOver(S, LAMBDA x : size[x], Infinity)
        most == MaxOver(S, LAMBDA x : size[x], -Infinity)
    IN [x \in S |-> IF most = least THEN Unit ELSE ((most - size[x]) * Unit) \div (most - least)]

queueScore(e, S) == relativeScore([x \in S |-> e[x].queue])
runningScore(e, S) == relativeScore([x \in S |-> e[x].running])
kvScore(e, S) == [x \in S |-> Unit - e[x].kv]
prefixScore(e, S) == [x \in S |-> prefixCacheScore(e, x)]

loraScore(e, S, model) ==
    [x \in S |-> IF model \in e[x].active THEN Unit
                 ELSE IF Cardinality(e[x].active) + Cardinality(e[x].waiting) < e[x].maxActive THEN (Unit * 8) \div 10
                 ELSE IF model \in e[x].waiting THEN (Unit * 6) \div 10 ELSE 0]

tokenLoadScore(e, S) ==
    [x \in S |-> IF e[x].tokens =< 0 THEN Unit
                 ELSE Unit - (Min2(e[x].tokens, QueueThresholdTokens) * Unit) \div QueueThresholdTokens]

\* The latency scorer without predictions: free cache, short queue, prefix, equally weighted.
compositeScores(e, S) ==
    LET maxQ == MaxOver(S, LAMBDA x : e[x].queue, 0)
        relQueue(x) == IF maxQ > 0 THEN ((maxQ - e[x].queue) * Unit) \div maxQ ELSE Unit
        composite(x) == (Unit - e[x].kv + relQueue(x) + prefixCacheScore(e, x)) \div 3
    IN [x \in S |-> ((composite(x) * WeightMax + Unit \div 2) \div Unit) * (Unit \div WeightMax)]

\* Headrooms, 0 where there is no prediction.
ttftHeadroom(e, x) == IF e[x].pred = Nil THEN 0 ELSE e[x].pred.ttftHeadroom
tpotHeadroom(e, x) == IF e[x].pred = Nil THEN 0 ELSE e[x].pred.tpotHeadroom

\* Blend the normalized headrooms of a bucket; a dimension in which all are
\* equal is left out.  The best weight is WeightMax + 1, a score above one.
scoreBucket(e, bucket, forceLeast) ==
    LET H(x) == Abs(ttftHeadroom(e, x))
        P(x) == Abs(tpotHeadroom(e, x))
        minH == MinOver(bucket, H, Infinity)
        rangeH == MaxOver(bucket, H, -Infinity) - minH
        minP == MinOver(bucket, P, Infinity)
        rangeP == MaxOver(bucket, P, -Infinity) - minP
        alpha == CASE rangeH = 0 /\ rangeP > 0 -> 0 [] rangeP = 0 /\ rangeH > 0 -> 1
                   [] OTHER -> IF TTFTWeight + TPOTWeight =< 0 THEN 1 ELSE TTFTWeight
        beta == CASE rangeH = 0 /\ rangeP > 0 -> 1 [] rangeP = 0 /\ rangeH > 0 -> 0
                  [] OTHER -> IF TTFTWeight + TPOTWeight =< 0 THEN 0 ELSE TPOTWeight
        nH(x) == IF rangeH > 0 THEN ((H(x) - minH) * Unit) \div rangeH ELSE Unit \div 2
        nP(x) == IF rangeP > 0 THEN ((P(x) - minP) * Unit) \div rangeP ELSE Unit \div 2
        combined(x) == (alpha * nH(x) + beta * nP(x)) \div (alpha + beta)
        share(x) == IF Strategy = "most" /\ ~forceLeast THEN combined(x) ELSE Unit - combined(x)
    IN [x \in bucket |-> ((share(x) * WeightMax) \div Unit + 1) * (Unit \div WeightMax)]

\* Mutant: endpoints that miss an objective are scored with the others.
latencyBucketAll(e, S) == S
\* The bucket that is scored: what meets the objectives or has no prediction;
\* else the idle; else the least severe deficit.
latencyBucket(e, S) ==
    LET positive == {x \in S : ~MissesSLO(e, x)}
        idle == {x \in S : e[x].pred.dispatched = 0}
        tpotOnly == {x \in S : e[x].pred.ttftHeadroom >= 0}
        ttftOnly == {x \in S : e[x].pred.tpotHeadroom >= 0}
    IN IF positive # {} THEN positive ELSE IF idle # {} THEN idle
       ELSE IF tpotOnly # {} THEN tpotOnly ELSE IF ttftOnly # {} THEN ttftOnly ELSE S

latencyScore(e, S) ==
    LET bucket == latencyBucket(e, S)
        scored == scoreBucket(e, bucket, \A x \in S : MissesSLO(e, x))
    IN IF \A x \in S : e[x].pred = Nil THEN compositeScores(e, S)
       ELSE [x \in S |-> IF x \in bucket THEN scored[x] ELSE 0]
=============================================================================
