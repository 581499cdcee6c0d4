-------------------------- MODULE PredictedLatency --------------------------
(***************************************************************************)
(* What the predicted-latency plugins keep for the requests in flight: the *)
(* context of a request in a cache with a time to live, the running        *)
(* requests of each pod, and the prompt tokens in flight on each pod.      *)
(* There are two plugins with the same hooks, the scorer (one plugin for   *)
(* everything) and the producer (which also drops empty request lists).    *)
(* The maps are sync.Maps of queues and atomic counters, so a hook is a    *)
(* sequence of steps (req[r].ops) that interleave with the hooks of other  *)
(* requests; the hooks of one request run one after the other.             *)
(***************************************************************************)
EXTENDS Component, SequencesExt

CONSTANTS
    LatencyScenarios,  \* [requests, producer, streaming, maxSamples, intervals,
                       \* maxTokens: the bound on the tokens of an answer]
    TargetOf,          \* request -> the pod it is scheduled to
    PrefillOf,         \* request -> its prefill pod, or Nil
    TokensOf           \* request -> inputTokenCount

LatencyPods == {TargetOf[r] : r \in DOMAIN TargetOf} \cup ({PrefillOf[r] : r \in DOMAIN PrefillOf} \ {Nil})
LatencyRequests == st.sc.requests

\* newPredictedLatencyContext
newContext(r) == [target |-> Nil, prefill |-> Nil, ttft |-> 0, atDispatch |-> 0, atDispatchOnPrefill |-> 0,
                  generated |-> 0, sampler |-> Nil, observed |-> 0, predicted |-> 0,
                  ttftTrained |-> 0, tpotTrained |-> 0]

PredictedLatencyInit ==
    \E sc \in LatencyScenarios :
      st = [sc |-> sc,
            req |-> [r \in sc.requests |-> [pc |-> "new", ops |-> <<>>, ctx |-> newContext(r), queue |-> 0, counter |-> 0]],
            store |-> {}, lists |-> <<>>, queues |-> <<>>, inFlight |-> <<>>, counters |-> <<>>,
            err |-> [p \in LatencyPods |-> 0], orphans |-> {}]

-----------------------------------------------------------------------------
\* Objects in sync.Maps: a map from pods to references, and the objects.

freshRef(objects) == CHOOSE n \in 1..Cardinality(DOMAIN objects) + 1 : n \notin DOMAIN objects

\* Objects neither in their map nor held by a hook are garbage.
collect(s) ==
    LET busy == {r \in LatencyRequests : s.req[r].ops # <<>>}
        live(map, f) == {map[p] : p \in DOMAIN map} \cup {s.req[r][f] : r \in busy}
    IN [s EXCEPT !.queues = Without(@, DOMAIN @ \ live(s.lists, "queue")),
                 !.counters = Without(@, DOMAIN @ \ live(s.inFlight, "counter")),
                 !.req = [r \in LatencyRequests |-> IF r \in busy THEN @[r] ELSE [@[r] EXCEPT !.queue = 0, !.counter = 0]]]

\* LoadOrStore of a pod's queue and podCounter, LoadOrStore of its counter.
loadQueue(s, r, p) ==
    IF p \in DOMAIN s.lists THEN [s EXCEPT !.req[r].queue = s.lists[p]]
    ELSE LET q == freshRef(s.queues)
         IN [s EXCEPT !.queues = With(@, q, {}), !.lists = With(@, p, q), !.req[r].queue = q]

podCounter(s, r, p) ==
    IF p \in DOMAIN s.inFlight THEN [s EXCEPT !.req[r].counter = s.inFlight[p]]
    ELSE LET c == freshRef(s.counters)
         IN [s EXCEPT !.counters = With(@, c, 0), !.inFlight = With(@, p, c), !.req[r].counter = c]

-----------------------------------------------------------------------------
\* The steps of the hooks.  An operation is <<name, pod>>.

increment(p, snapshot) == <<<<"load", p>>, <<"add", p>>, <<snapshot, p>>>>
decrement(p) == <<<<"load", p>>, <<"sub", p>>>>

stepAdd(s, r, p, n) ==
    LET c == s.req[r].counter
        current == p \in DOMAIN s.inFlight /\ s.inFlight[p] = c
    IN [s EXCEPT !.counters[c] = @ + n,
                 !.err[p] = IF current THEN @ ELSE @ - n]

stepSub(s, r, p, n) ==
    LET s1 == stepAdd(s, r, p, -n)
    IN IF s1.counters[s.req[r].counter] = 0 THEN [s1 EXCEPT !.req[r].ops = <<<<"drop", p>>>> \o @] ELSE s1

\* prefillTokensInFlight.Delete, whatever counter the key has by now
stepDrop(s, p) ==
    IF p \notin DOMAIN s.inFlight THEN s
    ELSE [s EXCEPT !.err[p] = @ - s.counters[s.inFlight[p]], !.inFlight = Without(@, {p})]

\* The scorer keeps the list when it is empty; the producer deletes it.
removeRequestFromQueue(s, r, p) ==
    IF p \notin DOMAIN s.lists THEN s
    ELSE LET q == s.lists[p]
             left == s.queues[q] \ {r}
         IN [s EXCEPT !.queues[q] = left,
                      !.req[r].ops = IF s.sc.producer /\ left = {} THEN <<<<"dropQueue", p>>>> \o @ ELSE @]

stepDropQueue(s, p) ==
    IF p \notin DOMAIN s.lists THEN s
    ELSE [s EXCEPT !.orphans = @ \cup s.queues[s.lists[p]], !.lists = Without(@, {p})]

addToQueue(s, r, p) ==
    LET q == s.req[r].queue
        current == p \in DOMAIN s.lists /\ s.lists[p] = q
    IN [s EXCEPT !.queues[q] = @ \cup {r}, !.orphans = IF current THEN @ ELSE @ \cup {r}]

HookStep(r) ==
    /\ st.req[r].ops # <<>>
    /\ LET op == Head(st.req[r].ops)[1]
           p == Head(st.req[r].ops)[2]
           n == TokensOf[r]
           s == [st EXCEPT !.req[r].ops = Tail(@)]
           loaded == podCounter(s, r, p)
           seen == loaded.counters[loaded.req[r].counter]
       IN st' = collect(
            CASE op = "enqueue" -> addToQueue(s, r, p)
              [] op = "load" -> loaded
              [] op = "add" -> stepAdd(s, r, p, n)
              [] op = "sub" -> stepSub(s, r, p, n)
              [] op = "snapshot" -> [loaded EXCEPT !.req[r].ctx.atDispatch = seen]
              [] op = "snapshotPrefill" -> [loaded EXCEPT !.req[r].ctx.atDispatchOnPrefill = seen]
              [] op = "drop" -> stepDrop(s, p)
              [] op = "dequeue" -> removeRequestFromQueue(s, r, p)
              [] op = "dropQueue" -> stepDropQueue(s, p)
              [] op = "forget" -> [s EXCEPT !.store = @ \ {r}])

HookIdle(r) == st.req[r].ops = <<>>

-----------------------------------------------------------------------------
\* PrepareRequestData: the context is made and stored; the prediction reads
\* the counters of the candidates.  (LatencySelection has what it predicts.)
PrepareLatency(r) ==
    /\ st.req[r].pc = "new"
    /\ st' = collect([podCounter(st, r, TargetOf[r]) EXCEPT !.store = @ \cup {r}, !.req[r].pc = "prepared"])

\* PreRequest.  Without a context only the list has been created.
PreRequestLatency(r) ==
    /\ st.req[r].pc = "prepared"
    /\ LET d == TargetOf[r]
           p == PrefillOf[r]
           s == loadQueue(st, r, d)
       IN st' = IF r \notin st.store THEN collect([s EXCEPT !.req[r].pc = "untracked"])
                ELSE [s EXCEPT !.req[r].pc = "running", !.req[r].ctx.target = d, !.req[r].ctx.prefill = p,
                               !.req[r].ops = <<<<"enqueue", d>>>>
                                              \o (IF p # Nil THEN increment(p, "snapshotPrefill") ELSE <<>>)
                                              \o increment(d, "snapshot")]

-----------------------------------------------------------------------------
\* The tokens of an answer

\* newTokenSampler, shouldPredict, recordPrediction
newSampler(i) == [next |-> 2 + i, count |-> 0]
shouldPredict(sampler, token) == token = sampler.next /\ sampler.count < st.sc.maxSamples
recordPrediction(sampler, token, i) ==
    [next |-> IF sampler.count + 1 < st.sc.maxSamples THEN token + i ELSE sampler.next,
     count |-> sampler.count + 1]

\* The time to first token is in whole milliseconds: it may be zero.
processFirstToken(c, ms, i) ==
    [c EXCEPT !.sampler = IF @ = Nil THEN newSampler(i) ELSE @, !.ttft = ms, !.generated = 1,
              !.ttftTrained = @ + 1, !.predicted = IF st.sc.streaming THEN @ + 1 ELSE @]

processToken(c, i) ==
    LET token == c.generated + 1
        sampled == shouldPredict(c.sampler, token)
    IN [c EXCEPT !.generated = token,
                 !.observed = IF token = 2 \/ sampled THEN @ + 1 ELSE @,
                 !.predicted = IF sampled THEN @ + 1 ELSE @,
                 !.sampler = IF sampled THEN recordPrediction(@, token, i) ELSE @]

decrementPrefill(c) == IF c.prefill # Nil /\ c.ttft = 0 THEN decrement(c.prefill) ELSE <<>>

\* ResponseBody for a chunk that does not end the stream
ResponseChunk(r) ==
    /\ st.req[r].pc = "running" /\ HookIdle(r) /\ r \in st.store
    /\ st.req[r].ctx.generated < st.sc.maxTokens /\ st.req[r].ctx.ttftTrained < st.sc.maxTokens
    /\ (st.sc.streaming \/ st.req[r].ctx.ttft # 0)
    /\ \E ms \in {0, 1}, i \in st.sc.intervals :
         LET c == st.req[r].ctx
             again == c.ttft = 0 /\ c.ttftTrained > 0 /\ c.prefill # Nil
         IN IF c.ttft = 0
            THEN st' = [st EXCEPT !.req[r].ctx = processFirstToken(c, ms, i), !.req[r].ops = decrementPrefill(c),
                                  !.err = IF again THEN [@ EXCEPT ![c.prefill] = @ - TokensOf[r]] ELSE @]
            ELSE st' = [st EXCEPT !.req[r].ctx = processToken(c, i)]

\* Mutant: whether the first token was seen is asked after it is recorded.
eosStepsLate(before, after) ==
    decrementPrefill(after) \o decrement(after.target) \o <<<<"dequeue", after.target>>, <<"forget", after.target>>>>
\* The counters go down, the prefill pod's if no token was seen before.
eosSteps(before, after) ==
    decrementPrefill(before) \o decrement(after.target) \o <<<<"dequeue", after.target>>, <<"forget", after.target>>>>

\* ResponseBody for the end of the stream: also sent when the client is gone.
ResponseEnd(r) ==
    /\ st.req[r].pc = "running" /\ HookIdle(r) /\ r \in st.store
    /\ \E ms \in {0, 1}, i \in st.sc.intervals, average \in {0, 1} :
         LET c == st.req[r].ctx
             before == IF c.ttft # 0 THEN processToken(c, i) ELSE c
             after == IF st.sc.streaming THEN before ELSE processFirstToken(before, ms, i)
             trains == after.ttft > 0 /\ after.generated > 1 /\ average > 0
             again == before.ttft = 0 /\ before.ttftTrained > 0 /\ c.prefill # Nil
         IN st' = [st EXCEPT !.req[r].pc = "ended", !.req[r].ops = eosSteps(before, after),
                             !.req[r].ctx = IF trains THEN [after EXCEPT !.tpotTrained = @ + 1] ELSE after,
                             !.err = IF again THEN [@ EXCEPT ![c.prefill] = @ - TokensOf[r]] ELSE @]

\* The cache's eviction callback, when the context has expired: nothing was
\* heard of the request for the time to live.
ContextExpires(r) ==
    /\ r \in st.store /\ HookIdle(r)
    /\ LET c == st.req[r].ctx
           dispatched == c.target # Nil
           counted == c.atDispatch > 0 \/ c.atDispatchOnPrefill > 0
           again == counted /\ c.ttft = 0 /\ c.ttftTrained > 0 /\ c.prefill # Nil
           kept(p) == IF ~dispatched \/ counted THEN 0
                      ELSE (IF c.target = p THEN TokensOf[r] ELSE 0)
                           + (IF c.prefill = p /\ c.ttftTrained = 0 THEN TokensOf[r] ELSE 0)
       IN st' = [st EXCEPT !.store = @ \ {r}, !.req[r].pc = IF dispatched THEN "ended" ELSE @,
                           !.req[r].ops = IF ~dispatched THEN <<>>
                                          ELSE <<<<"dequeue", c.target>>>>
                                               \o (IF counted THEN decrementPrefill(c) \o decrement(c.target) ELSE <<>>),
                           !.err = [p \in LatencyPods |-> @[p] + kept(p)
                                       - (IF again /\ p = c.prefill THEN TokensOf[r] ELSE 0)]]

PredictedLatencyNext ==
    /\ UNCHANGED part
    /\ \E r \in LatencyRequests :
         \/ PrepareLatency(r) \/ PreRequestLatency(r) \/ HookStep(r)
         \/ ResponseChunk(r) \/ ResponseEnd(r) \/ ContextExpires(r)

-----------------------------------------------------------------------------
\* err[p] is the exact error of a pod's counter.  It changes only where the
\* code loses or repeats an update: an addition to a counter that was
\* deleted meanwhile, a deletion of a counter that is not zero any more, a
\* first token recorded as zero milliseconds and so processed again, and an
\* expired request whose snapshot was not positive.
Quiet == \A r \in LatencyRequests : HookIdle(r)
tracked(p) == {r \in st.store : st.req[r].ctx.target = p}
promptHeld(r, p) ==
    LET c == st.req[r].ctx
    IN (IF c.target = p THEN TokensOf[r] ELSE 0) + (IF c.prefill = p /\ c.ttftTrained = 0 THEN TokensOf[r] ELSE 0)
counterOf(p) == IF p \in DOMAIN st.inFlight THEN st.counters[st.inFlight[p]] ELSE 0
firstTokenOnce(r) == st.req[r].ctx.ttftTrained =< (IF st.req[r].ctx.ttft = 0 THEN 0 ELSE 1)

\* Whenever no hook is half way, the prompt tokens counted for a pod are those
\* of the requests still running there (on the prefill pod, still waiting for
\* their first token) plus the named errors, however requests end: with a
\* stream, without one, with no token at all, or by expiry
\* (PreRequest, ResponseBody and the eviction callback of newContextStore).
\* A request alone meets no error unless its first token took no time.
\* The list of a pod holds its running requests, but for those the producer
\* put in, or dropped with, a deleted list.  A request trains one TTFT and at
\* most one TPOT, and is predicted for at most MaxSampledTokens tokens.
InFlightTokensBalanced ==
    part = "latency" =>
      /\ Quiet => \A p \in LatencyPods :
           /\ counterOf(p) = MapThenSumSet(LAMBDA r : promptHeld(r, p), st.store) + st.err[p]
           /\ (p \in DOMAIN st.lists => st.queues[st.lists[p]] \ st.orphans = tracked(p) \ st.orphans)
           /\ tracked(p) \subseteq st.orphans \/ p \in DOMAIN st.lists
      /\ \A r \in LatencyRequests :
           /\ LatencyRequests = {r} /\ firstTokenOnce(r) => \A p \in LatencyPods : st.err[p] = 0
           /\ st.req[r].ctx.tpotTrained =< 1
           /\ st.req[r].ctx.sampler # Nil => st.req[r].ctx.sampler.count =< st.sc.maxSamples
      /\ ~st.sc.producer => st.orphans = {}
=============================================================================
