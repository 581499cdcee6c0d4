--------------------------- MODULE PredictorClient ---------------------------
(***************************************************************************)
(* The client of the latency predictor (sidecars/latencypredictorasync):   *)
(* concurrent PredictBulkStrict calls are coalesced into one HTTP call     *)
(* whose rows are handed back to their callers; training entries are       *)
(* buffered, sampled and flushed.  The two share only the done channel, so *)
(* a behaviour shows one of them (st.side).  A row is <<caller, i>> and    *)
(* its prediction is the row: what matters is whose row an answer is about.*)
(***************************************************************************)
EXTENDS Component, SequencesExt

CONSTANTS
    RowsOf,                  \* caller -> number of rows it asks for
    InvalidCallers,          \* callers one of whose rows fails validation
    CoalesceWindows,         \* config.CoalesceWindow, 0 or not
    MaxBulkSize,
    MaxCoalescedRows,        \* 0: no cap
    MaxConcurrentDispatches,
    CoalesceCapacity,        \* of coalesceCh
    EntryKind,               \* training entry -> "ttft", "tpot" or "other"
    MaxSampleSize,
    SampledGroups,           \* [n, maxSize]: sizes of the three groups, and of a sample of them
    MaxFlushes               \* bound on flushes

Callers == DOMAIN RowsOf
Entries == DOMAIN EntryKind
Failed == [ok |-> FALSE, rows |-> <<>>]

PredictorClientInit ==
    \E side \in {"coalescer", "training"}, window \in CoalesceWindows :
      st = [side |-> side, window |-> window, done |-> FALSE, loop |-> TRUE, final |-> FALSE,
            caller |-> [c \in Callers |-> [pc |-> "new", result |-> Nil]],
            coalesceCh |-> <<>>, resultCh |-> [c \in Callers |-> <<>>],
            pending |-> <<>>, timer |-> "nil", batches |-> {}, dispatchSem |-> MaxConcurrentDispatches,
            buffer |-> {}, flushed |-> {}, sampledOut |-> {}, lost |-> {}, flushes |-> 0, lastFlush |-> Nil]

-----------------------------------------------------------------------------
\* Callers

rowsOfCaller(c) == [i \in 1..RowsOf[c] |-> <<c, i>>]
rowsOfAll(subs) == FlattenSeq([k \in DOMAIN subs |-> rowsOfCaller(subs[k])])
totalRows(subs) == Len(rowsOfAll(subs))

answerCaller(c, r) == [st EXCEPT !.caller[c] = [pc |-> "answered", result |-> r]]

PredictBulkStrict(c) ==
    /\ st.caller[c].pc = "new"
    /\ LET refused == RowsOf[c] = 0 \/ RowsOf[c] > MaxBulkSize \/ c \in InvalidCallers
       IN st' = IF refused THEN answerCaller(c, Failed)
                ELSE [st EXCEPT !.caller[c].pc = IF st.window > 0 THEN "submit" ELSE "direct"]

\* doPredictBulkStrictHTTP: an error (transport, timeout, status, decoding) or
\* the predictions; a server may answer fewer than it was asked for.
httpReplies(rows) == {Failed} \cup {[ok |-> TRUE, rows |-> SubSeq(rows, 1, n)] : n \in {Len(rows) - 1, Len(rows)}}

DirectCall(c) ==
    /\ st.caller[c].pc = "direct"
    /\ \E r \in httpReplies(rowsOfCaller(c)) : st' = answerCaller(c, r)

\* submitCoalesced: its first select (send, context done, predictor done), ...
SubmitCoalesced(c) ==
    /\ st.caller[c].pc = "submit"
    /\ \/ /\ Len(st.coalesceCh) < CoalesceCapacity
          /\ st' = [st EXCEPT !.coalesceCh = Append(@, c), !.caller[c].pc = "waiting"]
       \/ st' = answerCaller(c, Failed)

\* ... and its second, which no longer looks at the done channel.
AwaitResult(c) ==
    /\ st.caller[c].pc = "waiting"
    /\ \/ /\ st.resultCh[c] # <<>>
          /\ st' = [answerCaller(c, Head(st.resultCh[c])) EXCEPT !.resultCh[c] = Tail(@)]
       \/ st' = answerCaller(c, Failed)

-----------------------------------------------------------------------------
\* coalesceDispatcher

\* The dispatch closure: the pending submissions go to a goroutine of their own.
dispatch(s) ==
    IF s.pending = <<>> THEN s
    ELSE [s EXCEPT !.batches = @ \cup {[subs |-> s.pending, slot |-> FALSE]}, !.pending = <<>>]

\* Mutant: the timer is stopped but not forgotten.
dispatchEarlyKeepTimer(s) == dispatch([s EXCEPT !.timer = "stopped"])
\* The row cap is reached: stop the timer, forget it and dispatch.
dispatchEarly(s) == dispatch([s EXCEPT !.timer = "nil"])

ReceiveSubmission ==
    /\ st.loop /\ st.coalesceCh # <<>>
    /\ LET s == [st EXCEPT !.coalesceCh = Tail(@), !.pending = Append(@, Head(st.coalesceCh)),
                           !.timer = IF @ = "nil" THEN "armed" ELSE @]
           full == MaxCoalescedRows > 0 /\ totalRows(s.pending) >= MaxCoalescedRows
       IN st' = IF full THEN dispatchEarly(s) ELSE s

WindowExpires ==
    /\ st.loop /\ st.timer = "armed"
    /\ st' = dispatch([st EXCEPT !.timer = "nil"])

deliver(s, subs, results) ==
    [s EXCEPT !.resultCh = [c \in Callers |->
        LET mine == {k \in DOMAIN subs : subs[k] = c}
        IN IF mine = {} THEN @[c] ELSE Append(@[c], results[CHOOSE k \in mine : TRUE])]]

DispatcherStops ==
    /\ st.loop /\ st.done
    /\ st' = [deliver(st, st.pending, [k \in DOMAIN st.pending |-> Failed])
                EXCEPT !.loop = FALSE, !.timer = "nil", !.pending = <<>>]

\* A batch's goroutine waits for a slot or for the predictor to stop.
TakeSlot(b) ==
    /\ ~b.slot /\ st.dispatchSem > 0
    /\ st' = [st EXCEPT !.dispatchSem = @ - 1, !.batches = (@ \ {b}) \cup {[b EXCEPT !.slot = TRUE]}]

DropBatch(b) ==
    /\ ~b.slot /\ st.done
    /\ st' = deliver([st EXCEPT !.batches = @ \ {b}], b.subs, [k \in DOMAIN b.subs |-> Failed])

\* The caller's part of the answer, by the offset of its rows in the batch.
fanOut(reply, subs, k) ==
    LET start == totalRows(SubSeq(subs, 1, k - 1))
        end == start + RowsOf[subs[k]]
    IN IF ~reply.ok \/ end > Len(reply.rows) THEN Failed
       ELSE [ok |-> TRUE, rows |-> SubSeq(reply.rows, start + 1, end)]

dispatchBatch(b) ==
    /\ b.slot
    /\ \E reply \in httpReplies(rowsOfAll(b.subs)) :
         st' = deliver([st EXCEPT !.batches = @ \ {b}, !.dispatchSem = @ + 1], b.subs,
                       [k \in DOMAIN b.subs |-> fanOut(reply, b.subs, k)])

-----------------------------------------------------------------------------
\* Training entries

AddTrainingDataBulk ==
    \E e \in Entries \ (st.buffer \cup st.flushed \cup st.sampledOut \cup st.lost) :
      st' = [st EXCEPT !.buffer = @ \cup {e}]

ofKind(entries, kind) == {e \in entries : EntryKind[e] = kind}

\* int(float64(n) / float64(total) * float64(maxSize)).  The quotient has 53
\* bits: it is rounded down when the remainder `cut` of its last bit is below
\* one half.  Only a product that should be a whole number w can then be
\* truncated to another one, w - 1, when what was cut off, times maxSize, is
\* more than half the distance from w to the float below it.
floatShare(n, total, maxSize) ==
    LET w == (n * maxSize) \div total
        power[i \in 0..84] == IF i = 0 THEN 1 % total ELSE (2 * power[i - 1]) % total
        scale == CHOOSE j \in 0..31 : n * 2^j >= total /\ (j = 0 \/ n * 2^(j - 1) < total)
        top == CHOOSE p \in 0..30 : 2^p =< w /\ w \div 2 < 2^p
        cut == (n * power[52 + scale]) % total
        half == IF w = 2^top THEN 4 ELSE 2
    IN IF w = 0 \/ (n * maxSize) % total # 0 THEN w
       ELSE IF 2 * cut < total /\ half * cut * maxSize > total * 2^(scale + top) THEN w - 1 ELSE w

\* The group of the largest size: of equally large ones, ttft before tpot before other.
largestGroup(size) ==
    IF size["ttft"] >= size["tpot"] /\ size["ttft"] >= size["other"] THEN "ttft"
    ELSE IF size["tpot"] >= size["other"] THEN "tpot" ELSE "other"

\* Sample sizes in proportion.  What is missing goes to the largest group, what
\* is too much comes from the group with the largest sample.
sampleSizes(n, maxSize) ==
    LET total == n["ttft"] + n["tpot"] + n["other"]
        share == [k \in DOMAIN n |-> floatShare(n[k], total, maxSize)]
        totalSampled == share["ttft"] + share["tpot"] + share["other"]
    IN IF totalSampled < maxSize
       THEN [share EXCEPT ![largestGroup(n)] = @ + (maxSize - totalSampled)]
       ELSE [share EXCEPT ![largestGroup(share)] = @ - (totalSampled - maxSize)]

\* randomSample, sampleFromSlice: the batches a flush may send.
randomSample(entries, maxSize) ==
    LET n == [k \in {"ttft", "tpot", "other"} |-> Cardinality(ofKind(entries, k))]
        size == [k \in DOMAIN n |-> Min2(sampleSizes(n, maxSize)[k], n[k])]
    IN IF Cardinality(entries) =< maxSize THEN {entries}
       ELSE {S \in SUBSET entries : \A k \in DOMAIN n : Cardinality(ofKind(S, k)) = size[k]}

\* The buffer is taken before the POST; what the POST loses is not put back.
\* The background loop flushes while it runs, Stop once it has ended.
FlushTraining ==
    /\ st.buffer # {} /\ st.flushes < MaxFlushes
    /\ st.loop \/ ~st.final
    /\ \E batch \in randomSample(st.buffer, MaxSampleSize), posted \in BOOLEAN :
         st' = [st EXCEPT !.buffer = {}, !.flushes = @ + 1, !.final = ~st.loop,
                          !.lastFlush = [of |-> st.buffer, batch |-> batch],
                          !.flushed = IF posted THEN @ \cup batch ELSE @,
                          !.lost = IF posted THEN @ ELSE @ \cup batch,
                          !.sampledOut = @ \cup (st.buffer \ batch)]

-----------------------------------------------------------------------------
\* Stop closes done and waits for the loops, then flushes once more.
StopPredictor ==
    /\ ~st.done
    /\ st' = [st EXCEPT !.done = TRUE]

BackgroundLoopStops ==
    /\ st.done /\ st.loop
    /\ st' = [st EXCEPT !.loop = FALSE]

CoalescerNext ==
    \/ \E c \in Callers : PredictBulkStrict(c) \/ DirectCall(c) \/ SubmitCoalesced(c) \/ AwaitResult(c)
    \/ ReceiveSubmission \/ WindowExpires \/ DispatcherStops
    \/ \E b \in st.batches : TakeSlot(b) \/ DropBatch(b) \/ dispatchBatch(b)

TrainingNext == AddTrainingDataBulk \/ FlushTraining \/ BackgroundLoopStops

PredictorClientNext ==
    /\ UNCHANGED part
    /\ \/ st.side = "coalescer" /\ CoalescerNext
       \/ st.side = "training" /\ TrainingNext
       \/ StopPredictor

-----------------------------------------------------------------------------
\* Where the submission of a caller is.
placesOf(c) ==
    Cardinality({k \in DOMAIN st.coalesceCh : st.coalesceCh[k] = c})
      + Cardinality({k \in DOMAIN st.pending : st.pending[k] = c})
      + Cardinality({b \in st.batches : c \in ToSet(b.subs)}) + Len(st.resultCh[c])

\* The coalescer loses and mixes up nothing (coalesceDispatcher, dispatchBatch,
\* submitCoalesced): a waiting caller's submission is in exactly one place.
\* Whatever the dispatcher has received it dispatches or answers before it
\* ends; a submission still in the channel then is stranded, and only its
\* context ends the wait.  A pending submission has an armed timer; an answer holds the caller's
\* own rows, all of them; dispatch slots are returned.  The training buffer
\* (flushTraining, randomSample): no entry is sent twice, a flush sends at
\* most MaxSampleSize entries, exactly that many when it has to sample unless
\* the largest group is too small for its remainder.  Every kind gets its
\* share of a sample, rounded down, or one less where the share is a whole
\* number and its float is not; the sizes add up to the sample's, so nothing
\* is ever taken from a group again, and only the largest gets more.
PredictorAccountsForWork ==
    part = "predictor" =>
      /\ \A c \in Callers :
           /\ st.caller[c].pc = "waiting" => placesOf(c) = 1
           /\ placesOf(c) =< 1
           /\ (st.caller[c].pc = "answered" /\ st.caller[c].result.ok /\ st.window > 0) =>
                st.caller[c].result.rows = rowsOfCaller(c)
      /\ st.pending # <<>> => st.loop /\ st.timer = "armed"
      /\ st.dispatchSem + Cardinality({b \in st.batches : b.slot}) = MaxConcurrentDispatches
      /\ st.flushed \cap (st.lost \cup st.sampledOut) = {}
      /\ st.lastFlush # Nil =>
           LET of == st.lastFlush.of
               batch == st.lastFlush.batch
               sampled == Cardinality(of) > MaxSampleSize
               Large(k) == \A j \in {"ttft", "tpot", "other"} : Cardinality(ofKind(of, j)) =< Cardinality(ofKind(of, k))
           IN /\ ~sampled => batch = of
              /\ Cardinality(batch) =< MaxSampleSize
              /\ (sampled /\ Cardinality(batch) < MaxSampleSize) =>
                   \E k \in {"ttft", "tpot", "other"} : Large(k) /\ ofKind(of, k) \subseteq batch
              /\ sampled => \A k \in {"ttft", "tpot", "other"} :
                   LET exact == Cardinality(ofKind(of, k)) * MaxSampleSize
                       got == Cardinality(ofKind(batch, k)) * Cardinality(of)
                   IN got + Cardinality(of) >= exact
      /\ (st.side = "training" /\ st.buffer = {} /\ st.flushes = 0) => \A g \in SampledGroups :
           LET size == sampleSizes(g.n, g.maxSize)
               total == g.n["ttft"] + g.n["tpot"] + g.n["other"]
               Short(k) == size[k] * total < g.n[k] * g.maxSize
           IN /\ size["ttft"] + size["tpot"] + size["other"] = g.maxSize
              /\ \A k \in DOMAIN size : (size[k] + 1) * total >= g.n[k] * g.maxSize
              /\ \A k \in DOMAIN size : k # largestGroup(g.n) => size[k] * total =< g.n[k] * g.maxSize
              /\ ~Short(largestGroup(g.n))
=============================================================================
