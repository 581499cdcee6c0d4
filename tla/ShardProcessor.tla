--------------------------- MODULE ShardProcessor ---------------------------
(***************************************************************************)
(* One shard of the flow control layer: the goroutines of the requests     *)
(* (EnqueueAndWait, from the hand-off to the outcome), the processor's Run *)
(* loop, its cleanup sweep, its shutdown, and the flow registry as they    *)
(* see it (a flow exists from a request's connection until the garbage     *)
(* collector finds it unleased).                                           *)
(*                                                                         *)
(* A step is what one goroutine does between two points where another      *)
(* goroutine can act on what it reads next.  Which queue the fairness      *)
(* policy picks and which item the ordering policy puts at the head are    *)
(* left open, as is the number of priority bands the saturation and the    *)
(* usage limits let a dispatch cycle consider.                             *)
(***************************************************************************)
EXTENDS FlowItem, Sequences, FiniteSets

CONSTANTS
  Flows,                \* flow keys
  NumBands,             \* priority bands, 1 is the highest
  FlowOf,               \* the flow of an item's request
  Bytes,                \* the byte size of a set of items' requests
  BandOf,               \* the priority band of a flow
  Deadlined,            \* items whose request has a TTL or a deadline
  Cancellable,          \* items whose client may go away: a bound
  BufferSize,           \* capacity of enqueueChan
  CapRequests, CapBytes,          \* shard capacity, 0 = unlimited
  BandCapRequests, BandCapBytes,  \* capacity of each band, 0 = unlimited
  Events,               \* what the registry and the owner may do: a bound
  NoItem, NoFlow

Bands == 1..NumBands

ASSUME ConstantsAssumption ==
  /\ IsFiniteSet(Items) /\ IsFiniteSet(Flows)
  /\ NumBands \in Nat \ {0}
  /\ FlowOf \in [Items -> Flows]
  /\ BandOf \in [Flows -> Bands]
  /\ Deadlined \subseteq Items /\ Cancellable \subseteq Items
  /\ BufferSize \in Nat \ {0}
  /\ CapRequests \in Nat /\ CapBytes \in Nat
  /\ BandCapRequests \in [Bands -> Nat] /\ BandCapBytes \in [Bands -> Nat]
  /\ Events \subseteq {"gc", "drain", "stop"}
  /\ NoItem \notin Items /\ NoFlow \notin Flows

\* The size of a set of items is the sum of their sizes.
ASSUME BytesAssumption ==
  /\ Bytes \in [SUBSET Items -> Nat]
  /\ \A S, T \in SUBSET Items :
       S \intersect T = {} => Bytes[S \union T] = Bytes[S] + Bytes[T]

VARIABLES
  pc,                   \* where the goroutine of each item's request is
  ctx,                  \* the request's context: "live" or why it ended
  result,               \* the outcome EnqueueAndWait returned for the item
  enqueueChan,          \* items handed off, not yet received
  flows,                \* flows the shard has a queue for
  queue,                \* items in each flow's queue
  releasing,            \* items a sweep took out, not yet off the statistics
  totalLen, totalBytes, bandLen, bandBytes,   \* the shard's statistics
  draining,             \* the registry marked the shard as draining
  lifecycleDone,        \* the processor's context is cancelled
  isShuttingDown,
  run,                  \* where the Run goroutine is
  hand, picked,         \* the item, and the queue, it is working on
  band, viable,         \* dispatch cycle: current band, bands not saturated
  skipped,              \* dispatch cycle: bands passed over with work in them
  sweeping,             \* queues the current sweep has still to visit
  sweeperUp

requestVars == <<pc, ctx, result>>
statVars    == <<totalLen, totalBytes, bandLen, bandBytes>>
queueVars   == <<queue, releasing, statVars>>
cycleVars   == <<picked, band, viable, skipped>>
lifeVars    == <<draining, lifecycleDone, isShuttingDown>>
sweepVars   == <<sweeping, sweeperUp>>
vars == <<requestVars, itemVars, enqueueChan, flows, queueVars, run, hand,
          cycleVars, lifeVars, sweepVars>>

-----------------------------------------------------------------------------
(* Statistics.  A queue's mutex is held from the change of its content to  *)
(* the change of the statistics.  Only a sweep's change can be seen half   *)
(* done, by hasCapacity: everything else runs in the goroutine that calls  *)
(* hasCapacity.                                                            *)

\* The items of S, all of flow f, enter the statistics.
charge(f, S) ==
  /\ totalLen' = totalLen + Cardinality(S)
  /\ totalBytes' = totalBytes + Bytes[S]
  /\ bandLen' = [bandLen EXCEPT ![BandOf[f]] = @ + Cardinality(S)]
  /\ bandBytes' = [bandBytes EXCEPT ![BandOf[f]] = @ + Bytes[S]]

\* A removal charged to the lowest band instead of the flow's own.
DischargeLowest(f, S) ==
  /\ totalLen' = totalLen - Cardinality(S)
  /\ totalBytes' = totalBytes - Bytes[S]
  /\ bandLen' = [bandLen EXCEPT ![NumBands] = @ - Cardinality(S)]
  /\ bandBytes' = [bandBytes EXCEPT ![NumBands] = @ - Bytes[S]]

\* They leave them.
discharge(f, S) ==
  /\ totalLen' = totalLen - Cardinality(S)
  /\ totalBytes' = totalBytes - Bytes[S]
  /\ bandLen' = [bandLen EXCEPT ![BandOf[f]] = @ - Cardinality(S)]
  /\ bandBytes' = [bandBytes EXCEPT ![BandOf[f]] = @ - Bytes[S]]

Unlocked(f) == releasing[f] = {}

fits(used, size, cap) == cap = 0 \/ used + size <= cap

\* A check that forgets the request that is asking.
HasRoomNow(b, size) ==
  /\ fits(totalBytes, 0, CapBytes)
  /\ fits(totalLen, 0, CapRequests)
  /\ fits(bandBytes[b], 0, BandCapBytes[b])
  /\ fits(bandLen[b], 0, BandCapRequests[b])

hasCapacity(b, size) ==
  /\ fits(totalBytes, size, CapBytes)
  /\ fits(totalLen, 1, CapRequests)
  /\ fits(bandBytes[b], size, BandCapBytes[b])
  /\ fits(bandLen[b], 1, BandCapRequests[b])

-----------------------------------------------------------------------------
(* The goroutine of a request.                                             *)

Goto(i, l) == pc' = [pc EXCEPT ![i] = l]

\* The request's goroutine returns the outcome its item has after the step.
Return(i) ==
  /\ Goto(i, "returned")
  /\ result' = [result EXCEPT ![i] = final'[i]]

\* WithConnection leases the flow, creating its queue if there is none.
Connect(i) ==
  /\ pc[i] = "new"
  /\ Goto(i, "Submit")
  /\ flows' = flows \union {FlowOf[i]}
  /\ UNCHANGED <<ctx, result, itemVars, enqueueChan, queueVars, run, hand,
                 cycleVars, lifeVars, sweepVars>>

CanSend == Len(enqueueChan) < BufferSize

Send(i) ==
  /\ CanSend
  /\ enqueueChan' = Append(enqueueChan, i)
  /\ Goto(i, "await")
  /\ UNCHANGED <<ctx, result, itemVars>>

requestFrame ==
  UNCHANGED <<flows, handle, queueVars, run, hand, cycleVars, lifeVars,
              sweepVars>>

\* The load of isShuttingDown that opens Submit.
SubmitCheck(i) ==
  /\ pc[i] = "Submit"
  /\ Goto(i, IF isShuttingDown THEN "SubmitOrBlock" ELSE "send")
  /\ UNCHANGED <<ctx, result, final, enqueueChan>>
  /\ requestFrame

\* The select of Submit, which the default case makes non-blocking; when it
\* fails, distributeRequest falls back on SubmitOrBlock.
Submit(i) ==
  /\ pc[i] = "send"
  /\ \/ Send(i)
     \/ /\ lifecycleDone \/ ~CanSend
        /\ Goto(i, "SubmitOrBlock")
        /\ UNCHANGED <<ctx, result, final, enqueueChan>>
  /\ requestFrame

SubmitOrBlockCheck(i) ==
  /\ pc[i] = "SubmitOrBlock"
  /\ IF isShuttingDown
     THEN FinalizeWithOutcome(i, "RejectedOther") /\ Return(i)
     ELSE Goto(i, "blockingSend") /\ UNCHANGED <<final, result>>
  /\ UNCHANGED <<ctx, enqueueChan>>
  /\ requestFrame

SubmitOrBlock(i) ==
  /\ pc[i] = "blockingSend"
  /\ \/ Send(i)
     \/ /\ ctx[i] # "live"
        /\ Finalize(i, ctx[i])
        /\ Return(i)
        /\ UNCHANGED <<ctx, enqueueChan>>
     \/ /\ lifecycleDone
        /\ FinalizeWithOutcome(i, "RejectedOther")
        /\ Return(i)
        /\ UNCHANGED <<ctx, enqueueChan>>
  /\ requestFrame

\* A wait that starts again when the context ends.
AwaitAgain(i) ==
  /\ pc[i] = "await"
  /\ UNCHANGED <<ctx, final, enqueueChan>>
  /\ \/ ctx[i] # "live" /\ ~Finalized(i) /\ UNCHANGED <<pc, result>>
     \/ Finalized(i) /\ Return(i)
  /\ requestFrame

\* The context's end and the item's Done channel: whichever the select takes,
\* the outcome returned is the item's.
awaitFinalization(i) ==
  /\ pc[i] = "await"
  /\ \/ ctx[i] # "live" /\ Finalize(i, ctx[i])
     \/ Finalized(i) /\ UNCHANGED final
  /\ Return(i)
  /\ UNCHANGED <<ctx, enqueueChan>>
  /\ requestFrame

Waiting(i) == pc[i] \notin {"new", "returned"}

EndContext(i, cause) ==
  /\ Waiting(i) /\ ctx[i] = "live"
  /\ ctx' = [ctx EXCEPT ![i] = cause]
  /\ UNCHANGED <<pc, result, final, enqueueChan>>
  /\ requestFrame

Expire(i) == i \in Deadlined /\ EndContext(i, "TTL")

Cancel(i) == i \in Cancellable /\ EndContext(i, "Canceled")

-----------------------------------------------------------------------------
(* The Run goroutine: enqueue.                                             *)

runFrame == UNCHANGED <<requestVars, flows, lifeVars, sweepVars>>

\* Run receives an item; enqueue discards one that is already finalized.
Receive ==
  /\ run = "select" /\ enqueueChan # <<>>
  /\ enqueueChan' = Tail(enqueueChan)
  /\ IF Finalized(Head(enqueueChan))
     THEN run' = "cycle" /\ UNCHANGED hand
     ELSE run' = "admit" /\ hand' = Head(enqueueChan)
  /\ UNCHANGED <<itemVars, queueVars, cycleVars>>
  /\ runFrame

\* enqueue is done with the item; Run goes on with a dispatch cycle.
enqueueReject(o) ==
  /\ FinalizeWithOutcome(hand, o)
  /\ run' = "cycle" /\ hand' = NoItem

\* The lookup of the flow's queue and the capacity check.
enqueueAdmit ==
  /\ run = "admit"
  /\ IF FlowOf[hand] \notin flows THEN enqueueReject("RejectedOther")
     ELSE IF ~hasCapacity(BandOf[FlowOf[hand]], Bytes[{hand}])
     THEN enqueueReject("RejectedCapacity")
     ELSE run' = "add" /\ UNCHANGED <<final, hand>>
  /\ UNCHANGED <<enqueueChan, handle, queueVars, cycleVars>>
  /\ runFrame

\* managedQueue.Add, the commitment point.
Add ==
  /\ run = "add"
  /\ LET f == FlowOf[hand] IN
     /\ Unlocked(f)
     /\ IF draining
        THEN /\ enqueueReject("RejectedOther")
             /\ UNCHANGED <<handle, queueVars>>
        ELSE /\ queue' = [queue EXCEPT ![f] = @ \union {hand}]
             /\ charge(f, {hand})
             /\ SetHandle(hand)
             /\ run' = "cycle" /\ hand' = NoItem
             /\ UNCHANGED <<final, releasing>>
  /\ UNCHANGED <<enqueueChan, cycleVars>>
  /\ runFrame

-----------------------------------------------------------------------------
(* The Run goroutine: dispatchCycle.                                       *)

cycleFrame == UNCHANGED <<enqueueChan, flows, requestVars, lifeVars, sweepVars>>

\* A cycle starts after enqueue, or when the ticker fires.  The saturation and
\* the usage limits are read once, here: bands 1..n are below their ceiling and
\* the next one, if any, is not.
StartCycle(n) ==
  /\ run \in {"cycle", "select"}
  /\ run' = "band" /\ band' = 1 /\ viable' = n /\ skipped' = {}
  /\ UNCHANGED <<itemVars, queueVars, hand, picked>>
  /\ cycleFrame

EndCycle ==
  /\ run = "band" /\ band > viable
  /\ run' = "select" /\ band' = 1 /\ viable' = 0 /\ skipped' = {}
  /\ UNCHANGED <<itemVars, queueVars, hand, picked>>
  /\ cycleFrame

\* A pick that ignores the saturation and the usage limits.
SelectSaturated(f) ==
  /\ run = "band" /\ band <= NumBands
  /\ f \in flows /\ BandOf[f] = band
  /\ queue[f] \union releasing[f] # {}
  /\ run' = "peek" /\ picked' = f
  /\ UNCHANGED <<itemVars, queueVars, hand, band, viable, skipped>>
  /\ cycleFrame

\* The fairness policy picks a queue whose length counter is not zero.  The
\* counter may still count what a sweep has just taken out.
selectQueue(f) ==
  /\ run = "band" /\ band <= viable
  /\ f \in flows /\ BandOf[f] = band
  /\ queue[f] \union releasing[f] # {}
  /\ run' = "peek" /\ picked' = f
  /\ UNCHANGED <<itemVars, queueVars, hand, band, viable, skipped>>
  /\ cycleFrame

\* It finds no item in the band.
selectNothing ==
  /\ run = "band" /\ band <= viable
  /\ \A f \in flows : BandOf[f] = band => queue[f] = {}
  /\ band' = band + 1
  /\ UNCHANGED <<itemVars, queueVars, run, hand, picked, viable, skipped>>
  /\ cycleFrame

\* The cycle goes on with the next band although this one may have items.
SkipBand ==
  /\ run' = "band" /\ band' = band + 1 /\ skipped' = skipped \union {band}
  /\ picked' = NoFlow /\ hand' = NoItem
  /\ UNCHANGED viable

\* The head of the picked queue, if a sweep has not emptied it since.
PeekHead ==
  /\ run = "peek"
  /\ \/ queue[picked] = {} /\ SkipBand
     \/ \E i \in queue[picked] :
          /\ hand' = i /\ run' = "remove"
          /\ UNCHANGED cycleVars
  /\ UNCHANGED <<itemVars, queueVars>>
  /\ cycleFrame

LeaveCycle ==
  /\ run' = "select" /\ hand' = NoItem
  /\ picked' = NoFlow /\ band' = 1 /\ viable' = 0 /\ skipped' = {}

\* A dispatch of the peeked item that leaves it in its queue.
DispatchPeeked ==
  /\ run = "remove" /\ picked \in flows /\ Unlocked(picked)
  /\ IF hand \in queue[picked]
     THEN run' = "dispatch" /\ UNCHANGED <<hand, cycleVars>>
     ELSE LeaveCycle
  /\ UNCHANGED <<itemVars, queueVars>>
  /\ cycleFrame

\* dispatchItem up to the removal: the flow may be gone (the cycle skips the
\* band) and the item may have been swept (the cycle ends).
dispatchRemove ==
  /\ run = "remove"
  /\ \/ picked \notin flows /\ SkipBand /\ UNCHANGED queueVars
     \/ /\ picked \in flows /\ Unlocked(picked)
        /\ IF hand \in queue[picked]
           THEN /\ queue' = [queue EXCEPT ![picked] = @ \ {hand}]
                /\ discharge(picked, {hand})
                /\ run' = "dispatch"
                /\ UNCHANGED <<releasing, hand, cycleVars>>
           ELSE LeaveCycle /\ UNCHANGED queueVars
  /\ UNCHANGED itemVars
  /\ cycleFrame

\* A dispatch that drops the item it removed.
DispatchSilently ==
  /\ run = "dispatch"
  /\ LeaveCycle
  /\ UNCHANGED <<itemVars, queueVars>>
  /\ cycleFrame

\* dispatchItem finalizes the item it removed, unless the request's own
\* goroutine did so first.
dispatchFinalize ==
  /\ run = "dispatch"
  /\ FinalizeWithOutcome(hand, "Dispatched")
  /\ LeaveCycle
  /\ UNCHANGED <<handle, queueVars>>
  /\ cycleFrame

-----------------------------------------------------------------------------
(* The Run goroutine: shutdown.                                            *)

ShutdownStart ==
  /\ run = "select" /\ lifecycleDone
  /\ isShuttingDown' = TRUE /\ run' = "drain"
  /\ UNCHANGED <<requestVars, itemVars, enqueueChan, flows, queueVars, hand,
                 cycleVars, draining, lifecycleDone, sweepVars>>

\* One round of the drain loop; its default case ends it.
ShutdownDrain ==
  /\ run = "drain"
  /\ IF enqueueChan # <<>>
     THEN /\ FinalizeWithOutcome(Head(enqueueChan), "RejectedOther")
          /\ enqueueChan' = Tail(enqueueChan)
          /\ UNCHANGED run
     ELSE run' = "evict" /\ UNCHANGED <<final, enqueueChan>>
  /\ UNCHANGED <<handle, queueVars, hand, cycleVars>>
  /\ runFrame

\* A worker that drains a queue and finalizes nothing.
DrainSilently(f) ==
  /\ run = "evict" /\ f \in flows
  /\ queue[f] # {} /\ Unlocked(f)
  /\ queue' = [queue EXCEPT ![f] = {}]
  /\ discharge(f, queue[f])
  /\ UNCHANGED <<itemVars, enqueueChan, releasing, run, hand, cycleVars>>
  /\ runFrame

\* A worker of evictAll drains one queue and finalizes what was in it.
evictAll(f) ==
  /\ run = "evict" /\ f \in flows
  /\ queue[f] # {} /\ Unlocked(f)
  /\ finalizeInternal(queue[f], "EvictedOther")
  /\ queue' = [queue EXCEPT ![f] = {}]
  /\ discharge(f, queue[f])
  /\ UNCHANGED <<handle, enqueueChan, releasing, run, hand, cycleVars>>
  /\ runFrame

\* A shutdown that ends before evictAll has.
ShutdownEndEarly ==
  /\ run = "evict" /\ ~sweeperUp
  /\ run' = "stopped"
  /\ UNCHANGED <<itemVars, enqueueChan, queueVars, hand, cycleVars>>
  /\ runFrame

\* evictAll has visited every queue and Run has waited for the sweep goroutine.
ShutdownEnd ==
  /\ run = "evict"
  /\ \A f \in flows : queue[f] = {}
  /\ ~sweeperUp
  /\ run' = "stopped"
  /\ UNCHANGED <<itemVars, enqueueChan, queueVars, hand, cycleVars>>
  /\ runFrame

-----------------------------------------------------------------------------
(* The cleanup sweep.                                                      *)

sweepFrame == UNCHANGED <<requestVars, itemVars, enqueueChan, flows, run, hand,
                          cycleVars, lifeVars>>

SweepIdle == sweeping = {} /\ \A f \in Flows : Unlocked(f)

\* The ticker fires: sweepFinalizedItems collects the queues to visit.
SweepTick ==
  /\ sweeperUp /\ SweepIdle
  /\ sweeping' = flows
  /\ UNCHANGED <<queueVars, sweeperUp>>
  /\ sweepFrame

\* A worker's Cleanup takes the finalized items out of one queue, if the flow
\* still has one.
sweepFinalizedItems(f) ==
  /\ f \in sweeping
  /\ sweeping' = sweeping \ {f}
  /\ LET zombies == {i \in queue[f] : Finalized(i)} IN
     /\ queue' = [queue EXCEPT ![f] = @ \ zombies]
     /\ releasing' = [releasing EXCEPT ![f] = zombies]
  /\ UNCHANGED <<statVars, sweeperUp>>
  /\ sweepFrame

\* A Cleanup that leaves the statistics alone.
SweepUncounted(f) ==
  /\ releasing[f] # {}
  /\ releasing' = [releasing EXCEPT ![f] = {}]
  /\ UNCHANGED <<queue, statVars, sweepVars>>
  /\ sweepFrame

\* The same call of Cleanup updates the statistics and releases the mutex.
sweepRelease(f) ==
  /\ releasing[f] # {}
  /\ discharge(f, releasing[f])
  /\ releasing' = [releasing EXCEPT ![f] = {}]
  /\ UNCHANGED <<queue, sweepVars>>
  /\ sweepFrame

\* A sweep goroutine that waits for Run to end.
SweepOutlivesRun ==
  /\ sweeperUp /\ run = "stopped" /\ SweepIdle
  /\ sweeperUp' = FALSE
  /\ UNCHANGED <<queueVars, sweeping>>
  /\ sweepFrame

SweepStop ==
  /\ sweeperUp /\ lifecycleDone /\ SweepIdle
  /\ sweeperUp' = FALSE
  /\ UNCHANGED <<queueVars, sweeping>>
  /\ sweepFrame

-----------------------------------------------------------------------------
(* The flow registry and the owner of the processor.                       *)

registryFrame == UNCHANGED <<requestVars, itemVars, enqueueChan, run, hand,
                             cycleVars, sweepVars>>

Leased(f) == \E i \in Items : FlowOf[i] = f /\ Waiting(i)

\* The garbage collector deletes an unleased flow: its queue goes with what it
\* still holds, and the statistics keep counting that.  A deletion between
\* enqueue's lookup of the queue and Add ends as one just after Add does.
deleteFlow(f) ==
  /\ "gc" \in Events
  /\ f \in flows /\ ~Leased(f)
  /\ Unlocked(f)
  /\ ~(run = "add" /\ FlowOf[hand] = f)
  /\ flows' = flows \ {f}
  /\ queue' = [queue EXCEPT ![f] = {}]
  /\ UNCHANGED <<releasing, statVars, lifeVars>>
  /\ registryFrame

markAsDraining ==
  /\ "drain" \in Events /\ ~draining
  /\ draining' = TRUE
  /\ UNCHANGED <<flows, queueVars, lifecycleDone, isShuttingDown>>
  /\ registryFrame

\* The controller stops, or its reconciliation stops the worker.
CancelWorker ==
  /\ "stop" \in Events /\ ~lifecycleDone
  /\ lifecycleDone' = TRUE
  /\ UNCHANGED <<flows, queueVars, draining, isShuttingDown>>
  /\ registryFrame

-----------------------------------------------------------------------------
Init ==
  /\ pc = [i \in Items |-> "new"]
  /\ ctx = [i \in Items |-> "live"]
  /\ result = [i \in Items |-> NotYetFinalized]
  /\ ItemInit
  /\ enqueueChan = <<>>
  /\ flows = {}
  /\ queue = [f \in Flows |-> {}]
  /\ releasing = [f \in Flows |-> {}]
  /\ totalLen = 0 /\ totalBytes = 0
  /\ bandLen = [b \in Bands |-> 0] /\ bandBytes = [b \in Bands |-> 0]
  /\ draining = FALSE /\ lifecycleDone = FALSE /\ isShuttingDown = FALSE
  /\ run = "select" /\ hand = NoItem /\ picked = NoFlow
  /\ band = 1 /\ viable = 0 /\ skipped = {}
  /\ sweeping = {} /\ sweeperUp = TRUE

Request(i) ==
  \/ SubmitCheck(i) \/ Submit(i) \/ SubmitOrBlockCheck(i) \/ SubmitOrBlock(i)
  \/ awaitFinalization(i)

Cycle ==
  \/ \E n \in 0..NumBands : StartCycle(n)
  \/ \E f \in Flows : selectQueue(f)
  \/ selectNothing \/ PeekHead \/ dispatchRemove \/ dispatchFinalize
  \/ EndCycle

Run ==
  \/ Receive \/ enqueueAdmit \/ Add
  \/ Cycle
  \/ ShutdownStart \/ ShutdownDrain \/ ShutdownEnd
  \/ \E f \in Flows : evictAll(f)

Sweep ==
  \/ SweepTick \/ SweepStop
  \/ \E f \in Flows : sweepFinalizedItems(f) \/ sweepRelease(f)

Environment ==
  \/ \E i \in Items : Connect(i) \/ Expire(i) \/ Cancel(i)
  \/ \E f \in Flows : deleteFlow(f)
  \/ markAsDraining \/ CancelWorker

\* Everything has returned and the processor has stopped.
Terminated ==
  /\ \A i \in Items : pc[i] = "returned"
  /\ run = "stopped"
  /\ "drain" \in Events => draining
  /\ "gc" \in Events => flows = {}
  /\ UNCHANGED vars

Next ==
  \/ \E i \in Items : Request(i)
  \/ Run \/ Sweep \/ Environment
  \/ Terminated

Spec == Init /\ [][Next]_vars

\* Goroutines that can run are scheduled; a select that is reached again and
\* again takes each of its ready cases; TTLs expire; and the pool is, again and
\* again, below every band's ceiling when a cycle starts.
Fairness ==
  /\ \A i \in Items : WF_vars(Request(i))
  /\ \A i \in Deadlined : WF_vars(Expire(i))
  /\ WF_vars(Run) /\ SF_vars(Receive) /\ SF_vars(ShutdownStart)
  /\ SF_vars(StartCycle(NumBands))
  /\ WF_vars(Sweep) /\ SF_vars(SweepStop)

FairSpec == Spec /\ Fairness

-----------------------------------------------------------------------------
(* Properties.                                                             *)

Queued(i) == i \in queue[FlowOf[i]]
Buffered(i) == \E k \in DOMAIN enqueueChan : enqueueChan[k] = i

RequestTypeOK ==
  /\ pc \in [Items -> {"new", "Submit", "send", "SubmitOrBlock",
                      "blockingSend", "await", "returned"}]
  /\ ctx \in [Items -> Causes \union {"live"}]
  /\ result \in [Items -> Outcomes \union {NotYetFinalized}]

QueueTypeOK ==
  /\ enqueueChan \in Seq(Items) /\ Len(enqueueChan) <= BufferSize
  /\ flows \subseteq Flows
  /\ queue \in [Flows -> SUBSET Items] /\ releasing \in [Flows -> SUBSET Items]

StatTypeOK ==
  /\ totalLen \in Nat /\ totalBytes \in Nat
  /\ bandLen \in [Bands -> Nat] /\ bandBytes \in [Bands -> Nat]

RunTypeOK ==
  /\ run \in {"select", "admit", "add", "cycle", "band", "peek", "remove",
              "dispatch", "drain", "evict", "stopped"}
  /\ hand \in Items \union {NoItem} /\ picked \in Flows \union {NoFlow}
  /\ band \in 1..(NumBands + 1) /\ viable \in 0..NumBands
  /\ skipped \subseteq Bands

LifeTypeOK ==
  /\ draining \in BOOLEAN /\ lifecycleDone \in BOOLEAN
  /\ isShuttingDown \in BOOLEAN
  /\ sweeping \subseteq Flows /\ sweeperUp \in BOOLEAN

\* The state of the request goroutines, the items, the channel, the queues, the
\* statistics and the Run and sweep goroutines (processor.go, item.go) keeps its
\* type: the channel never holds more than its buffer, no statistic goes below
\* zero (managedqueue.go panics if one would).
TypeOK ==
  /\ RequestTypeOK /\ ItemTypeOK /\ QueueTypeOK
  /\ StatTypeOK /\ RunTypeOK /\ LifeTypeOK

\* EnqueueAndWait never returns NotYetFinalized, and what it returned is, and
\* stays, the outcome of the item, whichever goroutine finalized it and
\* whatever the processor still does with the item afterwards.
ReturnsTheOutcome ==
  \A i \in Items :
    pc[i] = "returned" => Finalized(i) /\ result[i] = final[i]

\* An item the processor has accepted and nobody has finalized is in the
\* channel, in the Run goroutine's hands or in a queue the shard still has:
\* neither the sweep, nor a flow's deletion, nor a failed step of enqueue or
\* of a dispatch loses a request that is still waiting.
NoLostItem ==
  \A i \in Items :
    pc[i] = "await" /\ ~Finalized(i) =>
      \/ Buffered(i)
      \/ hand = i
      \/ FlowOf[i] \in flows /\ Queued(i)

\* A dispatched item was in a queue and is in none any more: it is neither
\* dispatched again nor counted against the capacity.
DispatchedHasLeft ==
  \A i \in Items :
    final[i] = "Dispatched" => /\ handle[i]
                               /\ ~Buffered(i)
                               /\ \A f \in Flows : i \notin queue[f]
                               /\ \A f \in Flows : i \notin releasing[f]

\* An eviction is reported only for an item that a queue had taken in, and a
\* capacity rejection only for one that none ever does.
OutcomeMatchesAdmission ==
  \A i \in Items :
    /\ final[i] \in Evictions => handle[i]
    /\ final[i] = "RejectedCapacity" => ~handle[i]

InShard == {i \in Items : Queued(i)}
InBand(b) == {i \in InShard : BandOf[FlowOf[i]] = b}

\* What the queues really hold, finalized items not yet swept included, never
\* exceeds a limit, although a sweep changes contents and statistics while
\* hasCapacity reads them (processor.go, hasCapacity: "to prevent physical
\* resource overcommitment").
WithinCapacity ==
  /\ fits(Bytes[InShard], 0, CapBytes)
  /\ fits(Cardinality(InShard), 0, CapRequests)
  /\ \A b \in Bands : /\ fits(Bytes[InBand(b)], 0, BandCapBytes[b])
                       /\ fits(Cardinality(InBand(b)), 0, BandCapRequests[b])

\* When a dispatch cycle takes an item out of a queue, every higher band is
\* below its ceiling and holds nothing, unless the cycle passed it over because
\* a sweep emptied the queue it had picked, or the flow went away.
StrictPriority ==
  run \in {"remove", "dispatch"} =>
    /\ band <= viable
    /\ \A f \in flows : BandOf[f] < band /\ BandOf[f] \notin skipped => queue[f] = {}

\* What a request sees of its item: pending, in a queue, or its outcome.
Status(i) ==
  IF Finalized(i) THEN final[i] ELSE IF handle[i] THEN "queued" ELSE "pending"

Lifecycle == INSTANCE RequestLifecycle
               WITH status <- [i \in Items |-> Status(i)], answer <- result

\* Every item lives the life RequestLifecycle describes, whatever the request
\* goroutines, the Run loop, the sweep and the shutdown do to it: one outcome,
\* of the kind its admission allows, the one EnqueueAndWait returns.
ImplementsLifecycle == Lifecycle!Spec

Counted == InShard \union {i \in Items : i \in releasing[FlowOf[i]]}
CountedIn(b) == {i \in Counted : BandOf[FlowOf[i]] = b}

\* The statistics hasCapacity reads count exactly what is in the queues and
\* what a sweep is about to take off them (contracts/registry.go: "the total
\* number of items currently queued").
StatsExact ==
  /\ totalLen = Cardinality(Counted) /\ totalBytes = Bytes[Counted]
  /\ \A b \in Bands : /\ bandLen[b] = Cardinality(CountedIn(b))
                       /\ bandBytes[b] = Bytes[CountedIn(b)]

\* An item rejected before it was enqueued never enters a queue
\* (types/outcomes.go: "request never entered a SafeQueue").
RejectedNeverQueued ==
  \A i \in Items : final[i] \in Rejections => ~handle[i]

-----------------------------------------------------------------------------
(* Liveness.                                                               *)

\* A request with a TTL gets its outcome, whether or not the processor stops,
\* the shard drains or the pool ever has room.
DeadlineHonoured ==
  \A i \in Deadlined : Waiting(i) ~> pc[i] = "returned"

\* An accepted request is finalized, TTL or not, as long as the processor is
\* not told to stop.
AcceptedIsFinalized ==
  \A i \in Items : pc[i] = "await" ~> Finalized(i) \/ lifecycleDone

\* The sweep, the dispatch or the shutdown takes every item that its own
\* request finalized out of its queue: no zombie holds capacity for ever.
ZombiesLeave ==
  \A i \in Items : Queued(i) /\ Finalized(i) ~> ~Queued(i)

\* A processor told to stop does stop: Run and the sweep never wait for each
\* other, for a request or for a queue's mutex for ever.
ShutdownCompletes == lifecycleDone ~> run = "stopped"

\* The shutdown finalizes every accepted item (processor.go, shutdown:
\* "ensuring all pending items (in channel and queues) are Finalized").
ShutdownFinalizesAll ==
  \A i \in Items : pc[i] = "await" /\ lifecycleDone ~> Finalized(i)
=============================================================================
