-------------------------- MODULE ShardItemProofs ---------------------------
(***************************************************************************)
(* The inductive invariant of ShardProcessor, what a step may change, type *)
(* correctness, and that every step keeps the invariants about the items   *)
(* and about the dispatch cycle: for every set of items and flows, every   *)
(* size, every capacity and every set of external events.                  *)
(***************************************************************************)
EXTENDS ShardProcessor, TLAPS

-----------------------------------------------------------------------------
(* The inductive invariant.                                                *)

HandedOff(i) == pc[i] \in {"await", "returned"}

\* An item that has not been handed off is untouched, its flow is leased, and
\* only a returned request has an answer.
RequestInv ==
  \A i \in Items :
    /\ ~HandedOff(i) => ~handle[i] /\ ~Finalized(i)
    /\ Waiting(i) => FlowOf[i] \in flows
    /\ pc[i] = "returned" => Finalized(i) /\ result[i] = final[i]
    /\ pc[i] # "returned" => result[i] = NotYetFinalized

\* What is in the channel has not been in a queue, and is there once.
ChanInv ==
  /\ \A k \in 1..Len(enqueueChan) :
       /\ HandedOff(enqueueChan[k])
       /\ ~handle[enqueueChan[k]]
       /\ final[enqueueChan[k]] \in {NotYetFinalized, "RejectedOther"}
  /\ \A k, l \in 1..Len(enqueueChan) :
       enqueueChan[k] = enqueueChan[l] => k = l

\* What is in a queue, or on its way out of it, belongs there.
QueueInv ==
  \A f \in Flows :
    /\ \A i \in queue[f] \union releasing[f] :
         /\ FlowOf[i] = f
         /\ handle[i]
         /\ final[i] \notin {"Dispatched", "RejectedCapacity"}
    /\ \A i \in releasing[f] : Finalized(i)
    /\ queue[f] \intersect releasing[f] = {}
    /\ f \notin flows => queue[f] = {}

Enqueuing   == run \in {"admit", "add"}
Dispatching == run \in {"remove", "dispatch"}

\* What the Run goroutine is working on.
HandInv ==
  /\ Enqueuing =>
       /\ hand \in Items /\ HandedOff(hand) /\ ~handle[hand] /\ ~Buffered(hand)
       /\ final[hand] \in {NotYetFinalized, "RejectedOther"}
  /\ run = "add" => FlowOf[hand] \in flows
  /\ run = "peek" => picked \in Flows
  /\ Dispatching =>
       /\ hand \in Items /\ picked = FlowOf[hand] /\ handle[hand]
       /\ final[hand] # "RejectedCapacity"
  /\ run = "dispatch" =>
       /\ hand \notin queue[picked] /\ hand \notin releasing[picked]
       /\ final[hand] # "Dispatched"
  /\ ~Enqueuing /\ ~Dispatching => hand = NoItem

OutcomeInv ==
  \A i \in Items :
    /\ final[i] \in Evictions \union {"Dispatched"} => handle[i]
    /\ final[i] = "RejectedCapacity" => ~handle[i]

\* Where an item nobody has finalized yet can be.
PlaceInv ==
  \A i \in Items :
    pc[i] = "await" /\ ~Finalized(i) =>
      \/ Buffered(i)
      \/ hand = i /\ (Enqueuing \/ run = "dispatch")
      \/ Queued(i)

ItemInv ==
  RequestInv /\ ChanInv /\ QueueInv /\ HandInv /\ OutcomeInv /\ PlaceInv

\* The bands a dispatch cycle has gone past are empty or skipped.
PriorityInv ==
  run \in {"band", "peek", "remove", "dispatch"} =>
    /\ \A f \in flows :
         BandOf[f] < band /\ BandOf[f] \notin skipped => queue[f] = {}
    /\ run # "band" => picked \in Flows /\ BandOf[picked] = band /\ band <= viable

\* The statistics count at least what is there.
Covers ==
  /\ totalLen >= Cardinality(Counted) /\ totalBytes >= Bytes[Counted]
  /\ \A b \in Bands : /\ bandLen[b] >= Cardinality(CountedIn(b))
                       /\ bandBytes[b] >= Bytes[CountedIn(b)]

Limits ==
  /\ fits(totalBytes, 0, CapBytes) /\ fits(totalLen, 0, CapRequests)
  /\ \A b \in Bands : /\ fits(bandBytes[b], 0, BandCapBytes[b])
                       /\ fits(bandLen[b], 0, BandCapRequests[b])

\* The statistics cover what they count and respect the limits, an item about
\* to be added still fits, a sweep has not begun with a queue it has still to
\* visit, and only a flow's deletion makes the statistics inexact.
StatsInv ==
  /\ Covers /\ Limits
  /\ run = "add" => hasCapacity(BandOf[FlowOf[hand]], Bytes[{hand}])
  /\ \A f \in sweeping : Unlocked(f)
  /\ "gc" \notin Events => StatsExact

IInv == TypeOK /\ ItemInv /\ PriorityInv /\ StatsInv

-----------------------------------------------------------------------------
(* What a step may change.                                                 *)

\* A finalization keeps the type of the final states, gives the outcome to the
\* items of S that had none and leaves the others alone.
LEMMA FinalizeType ==
  ASSUME ItemTypeOK, NEW S, NEW o \in Outcomes, finalizeInternal(S, o)
  PROVE  /\ final' \in [Items -> Outcomes \union {NotYetFinalized}]
         /\ \A i \in Items :
              final'[i] = IF i \in S /\ ~Finalized(i) THEN o ELSE final[i]
BY Zenon DEF ItemTypeOK, finalizeInternal, Finalized

\* The outcome of a context's end: an eviction if a queue took the item in, a
\* rejection if none did.
LEMMA InferType ==
  ASSUME NEW c, NEW q \in BOOLEAN
  PROVE  /\ inferOutcome(c, q) \in Outcomes
         /\ q => inferOutcome(c, q) \in Evictions
         /\ ~q => inferOutcome(c, q) = "RejectedOther"
BY Zenon DEF inferOutcome, outcomeIfEvicted, Outcomes, Evictions, Rejections

\* Which actions change which variables.
LEMMA Frames ==
  ASSUME Next
  PROVE
    /\ \/ \E i \in Items : Request(i) \/ Connect(i)
       \/ UNCHANGED <<pc, result>>
    /\ (\E i \in Items : Expire(i) \/ Cancel(i)) \/ UNCHANGED ctx
    /\ \/ \E i \in Items : Request(i)
       \/ enqueueAdmit \/ Add \/ dispatchFinalize \/ ShutdownDrain
       \/ \E f \in Flows : evictAll(f)
       \/ UNCHANGED final
    /\ Add \/ UNCHANGED handle
    /\ \/ \E i \in Items : Request(i)
       \/ Receive \/ ShutdownDrain
       \/ UNCHANGED enqueueChan
    /\ \/ \E i \in Items : Connect(i)
       \/ \E f \in Flows : deleteFlow(f)
       \/ UNCHANGED flows
    /\ \/ Add \/ dispatchRemove
       \/ \E f \in Flows : evictAll(f) \/ sweepFinalizedItems(f) \/ deleteFlow(f)
       \/ UNCHANGED queue
    /\ \/ \E f \in Flows : sweepFinalizedItems(f) \/ sweepRelease(f)
       \/ UNCHANGED releasing
    /\ Run \/ UNCHANGED <<run, hand, picked, band, viable, skipped>>
<1> USE DEF requestVars, itemVars, statVars, queueVars, cycleVars, lifeVars, sweepVars
<1>1. ASSUME NEW i \in Items, Request(i)
      PROVE  UNCHANGED <<ctx, handle, flows, queue, releasing, run, hand, picked,
                         band, viable, skipped>>
  BY Zenon, <1>1 DEF Request, SubmitCheck, Submit, SubmitOrBlockCheck, SubmitOrBlock,
              awaitFinalization, Send, requestFrame
<1>2. ASSUME Run
      PROVE  /\ UNCHANGED <<pc, ctx, result, flows, releasing>>
             /\ \/ enqueueAdmit \/ Add \/ dispatchFinalize \/ ShutdownDrain
                \/ \E f \in Flows : evictAll(f)
                \/ UNCHANGED final
             /\ Add \/ UNCHANGED handle
             /\ Receive \/ ShutdownDrain \/ UNCHANGED enqueueChan
             /\ \/ Add \/ dispatchRemove
                \/ \E f \in Flows : evictAll(f)
                \/ UNCHANGED queue
  <2>1. CASE Receive \/ enqueueAdmit \/ Add
    BY <2>1, Zenon DEF Receive, enqueueAdmit, Add, enqueueReject, runFrame
  <2>2. CASE Cycle
    BY Zenon, <2>2 DEF Cycle, StartCycle, selectQueue, selectNothing, PeekHead, SkipBand,
                dispatchRemove, dispatchFinalize, LeaveCycle, EndCycle, cycleFrame
  <2>3. CASE ShutdownStart \/ ShutdownDrain \/ ShutdownEnd \/ \E f \in Flows : evictAll(f)
    BY <2>3, Zenon DEF ShutdownStart, ShutdownDrain, ShutdownEnd, evictAll, runFrame
  <2> QED BY <1>2, <2>1, <2>2, <2>3, Zenon DEF Run
<1>3. ASSUME Sweep
      PROVE  /\ UNCHANGED <<pc, ctx, result, final, handle, enqueueChan, flows,
                            run, hand, picked, band, viable, skipped>>
             /\ (\E f \in Flows : sweepFinalizedItems(f)) \/ UNCHANGED queue
             /\ \/ \E f \in Flows : sweepFinalizedItems(f) \/ sweepRelease(f)
                \/ UNCHANGED releasing
  BY <1>3, Zenon DEF Sweep, SweepTick, SweepStop, sweepFinalizedItems, sweepRelease, sweepFrame
<1>4. ASSUME Environment
      PROVE  /\ UNCHANGED <<final, handle, enqueueChan, releasing, run, hand,
                            picked, band, viable, skipped>>
             /\ (\E i \in Items : Connect(i)) \/ UNCHANGED <<pc, result>>
             /\ (\E i \in Items : Expire(i) \/ Cancel(i)) \/ UNCHANGED ctx
             /\ (\E i \in Items : Connect(i)) \/ (\E f \in Flows : deleteFlow(f))
                \/ UNCHANGED flows
             /\ (\E f \in Flows : deleteFlow(f)) \/ UNCHANGED queue
  BY Zenon, <1>4 DEF Environment, Connect, Expire, Cancel, EndContext, deleteFlow,
              markAsDraining, CancelWorker, requestFrame, registryFrame
<1>5. CASE Terminated
  BY <1>5, Zenon DEF Terminated, vars
<1> QED BY <1>1, <1>2, <1>3, <1>4, <1>5, Zenon DEF Next

-----------------------------------------------------------------------------
(* Types.                                                                  *)

\* A step keeps the type of the handles and the final states: SetHandle and
\* the finalizations are all that writes them.
LEMMA ItemTypeStep ==
  ASSUME TypeOK, Next
  PROVE  ItemTypeOK'
<1> USE DEF TypeOK, ItemTypeOK
<1>1. (handle \in [Items -> BOOLEAN])'
  BY Frames, Zenon DEF Add, SetHandle
<1>2. (final \in [Items -> Outcomes \union {NotYetFinalized}])'
  <2> SUFFICES UNCHANGED final \/ \E S, o : o \in Outcomes /\ finalizeInternal(S, o)
    BY FinalizeType, Zenon
  <2> USE DEF FinalizeWithOutcome, Finalize, Outcomes, Rejections, Evictions
  <2>1. ASSUME NEW i \in Items, Request(i)
        PROVE  UNCHANGED final \/ \E S, o : o \in Outcomes /\ finalizeInternal(S, o)
    <3>1. \/ UNCHANGED final
          \/ finalizeInternal({i}, "RejectedOther")
          \/ finalizeInternal({i}, inferOutcome(ctx[i], handle[i]))
      BY Zenon, <2>1 DEF Request, SubmitCheck, Submit, SubmitOrBlockCheck, SubmitOrBlock,
                  awaitFinalization, Send, itemVars
    <3>2. inferOutcome(ctx[i], handle[i]) \in Outcomes
      BY InferType, Zenon
    <3> QED BY <3>1, <3>2, Zenon
  <2>2. CASE enqueueAdmit \/ Add \/ dispatchFinalize \/ ShutdownDrain
    BY <2>2, Zenon DEF enqueueAdmit, Add, dispatchFinalize, ShutdownDrain, enqueueReject
  <2>3. ASSUME NEW f \in Flows, evictAll(f)
        PROVE  \E S, o : o \in Outcomes /\ finalizeInternal(S, o)
    BY <2>3, Zenon DEF evictAll
  <2> QED BY <2>1, <2>2, <2>3, Frames, Zenon
<1> QED BY <1>1, <1>2, Zenon

\* A step keeps the type of the request goroutines: their program counters,
\* their contexts and what EnqueueAndWait returned.
LEMMA RequestTypeStep ==
  ASSUME TypeOK, Next
  PROVE  RequestTypeOK'
<1> USE DEF TypeOK, RequestTypeOK
<1>1. final' \in [Items -> Outcomes \union {NotYetFinalized}]
  BY ItemTypeStep, Zenon DEF ItemTypeOK
<1>2. (ctx \in [Items -> Causes \union {"live"}])'
  BY Frames DEF Expire, Cancel, EndContext, Causes
<1>3. ASSUME NEW i \in Items, Request(i)
      PROVE  \/ UNCHANGED result
             \/ result' = [result EXCEPT ![i] = final'[i]]
  BY Zenon, <1>3 DEF Request, SubmitCheck, Submit, SubmitOrBlockCheck, SubmitOrBlock,
              awaitFinalization, Send, Return
<1>4. ASSUME NEW i \in Items, Request(i) \/ Connect(i)
      PROVE  \E l \in {"Submit", "send", "SubmitOrBlock", "blockingSend", "await", "returned"} :
               pc' = [pc EXCEPT ![i] = l]
  BY Zenon, <1>4 DEF Request, SubmitCheck, Submit, SubmitOrBlockCheck, SubmitOrBlock,
              awaitFinalization, Send, Return, Connect, Goto
<1>5. (result \in [Items -> Outcomes \union {NotYetFinalized}])'
  BY <1>1, <1>3, Frames DEF Connect
<1>6. (pc \in [Items -> {"new", "Submit", "send", "SubmitOrBlock",
                        "blockingSend", "await", "returned"}])'
  BY <1>4, Frames, Zenon
<1> QED BY <1>2, <1>5, <1>6, Zenon

\* How a request goroutine, and how the processor, changes the channel.
LEMMA SendChange ==
  ASSUME NEW i \in Items, Request(i)
  PROVE  enqueueChan' = enqueueChan \/ Send(i)
BY Zenon DEF Request, SubmitCheck, Submit, SubmitOrBlockCheck, SubmitOrBlock, awaitFinalization

\* Run and the shutdown take from the head of the channel.
LEMMA ReceiveChange ==
  ASSUME Receive \/ ShutdownDrain
  PROVE  \/ enqueueChan' = enqueueChan
         \/ enqueueChan # <<>> /\ enqueueChan' = Tail(enqueueChan)
BY Zenon DEF Receive, ShutdownDrain

\* A step keeps the type of the channel, within its buffer, and of the queues.
LEMMA QueueTypeStep ==
  ASSUME TypeOK, HandInv, Next
  PROVE  QueueTypeOK'
<1>1. /\ enqueueChan \in Seq(Items) /\ Len(enqueueChan) <= BufferSize
      /\ flows \subseteq Flows /\ queue \in [Flows -> SUBSET Items]
      /\ releasing \in [Flows -> SUBSET Items]
  BY Zenon DEF TypeOK, QueueTypeOK
<1>2. BufferSize \in Nat /\ FlowOf \in [Items -> Flows]
  BY ConstantsAssumption, Zenon
<1>3. (enqueueChan \in Seq(Items) /\ Len(enqueueChan) <= BufferSize)'
  <2>1. CASE enqueueChan # <<>> /\ enqueueChan' = Tail(enqueueChan)
    BY <1>1, <1>2, <2>1
  <2>2. ASSUME NEW i \in Items, Send(i)
        PROVE  (enqueueChan \in Seq(Items) /\ Len(enqueueChan) <= BufferSize)'
    BY <1>1, <1>2, <2>2 DEF Send, CanSend
  <2> QED BY <1>1, <2>1, <2>2, Frames, SendChange, ReceiveChange, Zenon
<1>4. (flows \subseteq Flows)'
  BY <1>1, <1>2, Frames DEF Connect, deleteFlow
<1>5. (queue \in [Flows -> SUBSET Items])'
  <2>1. ASSUME NEW f, NEW S \in SUBSET Items, queue' = [queue EXCEPT ![f] = S]
        PROVE  (queue \in [Flows -> SUBSET Items])'
    BY <1>1, <2>1, Zenon
  <2>2. CASE Add
    <3>1. hand \in Items
      BY <2>2, Zenon DEF Add, HandInv, Enqueuing
    <3>2. UNCHANGED queue \/ queue' = [queue EXCEPT ![FlowOf[hand]] = @ \union {hand}]
      BY <2>2, Zenon DEF Add, queueVars
    <3>3. queue[FlowOf[hand]] \union {hand} \in SUBSET Items
      BY <1>1, <1>2, <3>1, Zenon
    <3> QED BY <1>1, <2>1, <3>2, <3>3, Zenon
  <2>3. CASE dispatchRemove
    <3>1. UNCHANGED queue \/ queue' = [queue EXCEPT ![picked] = @ \ {hand}]
      BY <2>3, Zenon DEF dispatchRemove, queueVars
    <3> QED BY <1>1, <3>1, Zenon
  <2>4. ASSUME NEW f \in Flows, evictAll(f) \/ deleteFlow(f)
        PROVE  (queue \in [Flows -> SUBSET Items])'
    BY <1>1, <2>4, Zenon DEF evictAll, deleteFlow
  <2>5. ASSUME NEW f \in Flows, sweepFinalizedItems(f)
        PROVE  (queue \in [Flows -> SUBSET Items])'
    BY <1>1, <2>5, Zenon DEF sweepFinalizedItems
  <2> QED BY <1>1, <2>2, <2>3, <2>4, <2>5, Frames, Zenon
<1>6. (releasing \in [Flows -> SUBSET Items])'
  <2>1. ASSUME NEW f \in Flows, sweepFinalizedItems(f) \/ sweepRelease(f)
        PROVE  \E S \in SUBSET Items : releasing' = [releasing EXCEPT ![f] = S]
    BY <1>1, <2>1, Zenon DEF sweepFinalizedItems, sweepRelease
  <2>2. ASSUME NEW f \in Flows, NEW S \in SUBSET Items,
               releasing' = [releasing EXCEPT ![f] = S]
        PROVE  releasing' \in [Flows -> SUBSET Items]
    BY <1>1, <2>2, Zenon
  <2> QED BY <1>1, <2>1, <2>2, Frames, Zenon
<1> QED BY <1>3, <1>4, <1>5, <1>6, Zenon DEF QueueTypeOK

\* A step keeps the type of the Run goroutine, the sweep and the flags; a
\* dispatch cycle never goes past the last band.
LEMMA RunTypeStep ==
  ASSUME TypeOK, PriorityInv, Next
  PROVE  RunTypeOK' /\ LifeTypeOK'
<1> USE ConstantsAssumption DEF TypeOK, RunTypeOK, LifeTypeOK, QueueTypeOK, Bands
<1> USE DEF cycleVars, lifeVars, sweepVars, requestFrame
<1>1. ASSUME NEW i \in Items, Request(i) PROVE RunTypeOK' /\ LifeTypeOK'
  <2>1. UNCHANGED <<run, hand, cycleVars, lifeVars, sweepVars>>
    BY <1>1, Zenon DEF Request, SubmitCheck, Submit, SubmitOrBlockCheck, SubmitOrBlock,
                awaitFinalization
  <2> QED BY <2>1, SMTT(30)
<1>2. ASSUME Run PROVE RunTypeOK' /\ LifeTypeOK'
  <2>1. UNCHANGED sweepVars
    BY <1>2, Zenon DEF Run, Receive, enqueueAdmit, Add, Cycle, StartCycle, selectQueue, selectNothing,
                PeekHead, dispatchRemove, dispatchFinalize, EndCycle, ShutdownStart,
                ShutdownDrain, ShutdownEnd, evictAll, runFrame, cycleFrame
  <2>2. UNCHANGED lifeVars \/ (isShuttingDown' = TRUE /\ UNCHANGED <<draining, lifecycleDone>>)
    BY <1>2, Zenon DEF Run, Receive, enqueueAdmit, Add, Cycle, StartCycle, selectQueue, selectNothing,
                PeekHead, dispatchRemove, dispatchFinalize, EndCycle, ShutdownStart,
                ShutdownDrain, ShutdownEnd, evictAll, runFrame, cycleFrame
  <2>3. LifeTypeOK'
    BY <2>1, <2>2, Zenon
  <2>4. CASE Receive
    <3>1. Head(enqueueChan) \in Items
      BY <2>4 DEF Receive
    <3> QED BY <2>3, <2>4, <3>1, Zenon DEF Receive
  <2>5. CASE enqueueAdmit
    BY <2>3, <2>5, Zenon DEF enqueueAdmit, enqueueReject
  <2>6. CASE Add
    BY <2>3, <2>6, Zenon DEF Add, enqueueReject
  <2>7. ASSUME NEW n \in 0..NumBands, StartCycle(n) PROVE RunTypeOK'
    BY <2>7 DEF StartCycle
  <2>8. CASE EndCycle
    BY <2>3, <2>8 DEF EndCycle
  <2>9. ASSUME NEW f \in Flows, selectQueue(f) PROVE RunTypeOK'
    BY <2>9, Zenon DEF selectQueue
  <2>10. CASE selectNothing
    BY <2>3, <2>10 DEF selectNothing
  <2>11. CASE PeekHead
    <3>1. band \in Bands
      BY <2>11, Zenon DEF PeekHead, PriorityInv
    <3>2. CASE SkipBand
      BY <2>3, <3>1, <3>2 DEF SkipBand
    <3>3. ASSUME NEW i \in queue[picked], hand' = i, run' = "remove", UNCHANGED cycleVars
          PROVE  RunTypeOK'
      <4>1. i \in Items
        BY <2>11, Zenon DEF PeekHead, PriorityInv
      <4> QED BY <3>3, <4>1, Zenon
    <3> QED BY <2>3, <2>11, <3>2, <3>3, Zenon DEF PeekHead
  <2>12. CASE dispatchRemove
    <3>1. band \in Bands
      BY <2>12, Zenon DEF dispatchRemove, PriorityInv
    <3>2. CASE SkipBand
      BY <2>3, <3>1, <3>2 DEF SkipBand
    <3>3. CASE LeaveCycle
      BY <2>3, <3>3 DEF LeaveCycle
    <3>4. CASE run' = "dispatch" /\ UNCHANGED <<hand, cycleVars>>
      BY <2>3, <3>4, Zenon
    <3> QED BY <2>3, <2>12, <3>2, <3>3, <3>4, Zenon DEF dispatchRemove
  <2>13. CASE dispatchFinalize
    BY <2>3, <2>13, SMTT(30) DEF dispatchFinalize, LeaveCycle
  <2>14. CASE ShutdownStart \/ ShutdownDrain \/ ShutdownEnd
    BY <2>3, <2>14, Zenon DEF ShutdownStart, ShutdownDrain, ShutdownEnd
  <2>15. ASSUME NEW f \in Flows, evictAll(f) PROVE RunTypeOK'
    BY <2>15, Zenon DEF evictAll
  <2> QED
    BY ZenonT(30), <1>2, <2>3, <2>4, <2>5, <2>6, <2>7, <2>8, <2>9, <2>10, <2>11, <2>12, <2>13,
       <2>14, <2>15 DEF Run, Cycle
<1>3. ASSUME Sweep PROVE RunTypeOK' /\ LifeTypeOK'
  <2>1. UNCHANGED <<run, hand, cycleVars, lifeVars>>
    BY <1>3, Zenon DEF Sweep, SweepTick, SweepStop, sweepFinalizedItems, sweepRelease, sweepFrame
  <2>2. (sweeping \subseteq Flows)'
    BY <1>3, Zenon DEF Sweep, SweepTick, SweepStop, sweepFinalizedItems, sweepRelease
  <2>3. (sweeperUp \in BOOLEAN)'
    BY <1>3, Zenon DEF Sweep, SweepTick, SweepStop, sweepFinalizedItems, sweepRelease
  <2> QED BY <2>1, <2>2, <2>3, Zenon
<1>4. ASSUME Environment PROVE RunTypeOK' /\ LifeTypeOK'
  <2>1. UNCHANGED <<run, hand, cycleVars, sweepVars, isShuttingDown>>
    BY <1>4, Zenon DEF Environment, Connect, Expire, Cancel, EndContext, deleteFlow,
                markAsDraining, CancelWorker, registryFrame
  <2>2. (draining \in BOOLEAN)' /\ (lifecycleDone \in BOOLEAN)'
    BY <1>4, Zenon DEF Environment, Connect, Expire, Cancel, EndContext, deleteFlow,
                markAsDraining, CancelWorker, registryFrame
  <2> QED BY <2>1, <2>2, Zenon
<1>5. CASE Terminated
  BY <1>5, Zenon DEF Terminated, vars
<1> QED BY <1>1, <1>2, <1>3, <1>4, <1>5, ZenonT(20) DEF Next

-----------------------------------------------------------------------------
(* What a step does to an item.                                            *)

\* How the outcome of item i may change in a step: from none to one that its
\* admission and the place it is in allow.
OutcomeStep(i) ==
  \/ final'[i] = final[i]
  \/ /\ ~Finalized(i)
     /\ \/ handle[i] /\ final'[i] \in Evictions
        \/ ~handle[i] /\ final'[i] = "RejectedOther" /\ HandedOff(i)'
        \/ /\ run = "admit" /\ hand = i /\ run' = "cycle"
           /\ final'[i] = "RejectedCapacity"
        \/ /\ run = "dispatch" /\ hand = i /\ run' = "select"
           /\ final'[i] = "Dispatched"

\* How its handle may change: Add sets it.
HandleStep(i) ==
  \/ handle'[i] = handle[i]
  \/ /\ run = "add" /\ hand = i /\ run' = "cycle"
     /\ handle'[i] /\ final'[i] = final[i]

\* A finalization is an allowed change of outcome when it is one for each item
\* it finalizes.
LEMMA FinalizeStep ==
  ASSUME TypeOK, NEW S, NEW o \in Outcomes, finalizeInternal(S, o),
         \A j \in S \intersect Items :
           \/ handle[j] /\ o \in Evictions
           \/ ~handle[j] /\ o = "RejectedOther" /\ HandedOff(j)'
           \/ run = "admit" /\ hand = j /\ run' = "cycle" /\ o = "RejectedCapacity"
           \/ run = "dispatch" /\ hand = j /\ run' = "select" /\ o = "Dispatched"
  PROVE  \A i \in Items : OutcomeStep(i)
BY FinalizeType, ZenonT(20) DEF TypeOK, OutcomeStep

\* The ways the goroutine of request i may move.
LEMMA Moves ==
  ASSUME TypeOK, Next, NEW i \in Items
  PROVE
    \/ pc'[i] = pc[i] /\ result'[i] = result[i]
    \/ /\ pc[i] = "new" /\ pc'[i] = "Submit" /\ result'[i] = result[i]
       /\ flows' = flows \union {FlowOf[i]}
    \/ /\ Waiting(i) /\ pc'[i] \in {"send", "SubmitOrBlock", "blockingSend"}
       /\ ~HandedOff(i) /\ result'[i] = result[i] /\ UNCHANGED flows
    \/ /\ Waiting(i) /\ ~HandedOff(i) /\ Send(i) /\ pc'[i] = "await"
       /\ result'[i] = result[i] /\ UNCHANGED <<final, handle, flows>>
    \/ /\ Waiting(i) /\ pc'[i] = "returned" /\ result'[i] = final'[i]
       /\ final'[i] # NotYetFinalized /\ UNCHANGED flows
<1>1. /\ pc \in [Items -> {"new", "Submit", "send", "SubmitOrBlock",
                         "blockingSend", "await", "returned"}]
      /\ result \in [Items -> Outcomes \union {NotYetFinalized}]
  BY Zenon DEF TypeOK, RequestTypeOK
<1>2. ASSUME NEW o \in Outcomes, finalizeInternal({i}, o)
      PROVE  final'[i] # NotYetFinalized
  BY <1>2, FinalizeType, Zenon DEF TypeOK, Finalized, Outcomes, Rejections, Evictions, NotYetFinalized
<1>3. ASSUME NEW j \in Items, Request(j), j # i
      PROVE  pc'[i] = pc[i] /\ result'[i] = result[i]
  BY Zenon, <1>1, <1>3 DEF Request, SubmitCheck, Submit, SubmitOrBlockCheck, SubmitOrBlock,
                    awaitFinalization, Send, Return, Goto
<1>4. ASSUME NEW j \in Items, Connect(j), j # i
      PROVE  pc'[i] = pc[i] /\ result'[i] = result[i]
  BY <1>1, <1>4, ZenonT(20) DEF Connect, Goto
<1>5. CASE Connect(i)
  BY <1>1, <1>5, ZenonT(20) DEF Connect, Goto
<1>6. CASE SubmitCheck(i)
  BY <1>1, <1>6, ZenonT(20) DEF SubmitCheck, Goto, Waiting, HandedOff, requestFrame
<1>7. CASE Submit(i)
  BY <1>1, <1>7, ZenonT(20) DEF Submit, Send, Goto, Waiting, HandedOff, requestFrame, itemVars
<1>8. CASE SubmitOrBlockCheck(i)
  BY Zenon, <1>1, <1>2, <1>8 DEF SubmitOrBlockCheck, FinalizeWithOutcome, Return, Goto, Waiting,
                          HandedOff, requestFrame, Outcomes, Rejections
<1>9. CASE SubmitOrBlock(i)
  <2>1. inferOutcome(ctx[i], handle[i]) \in Outcomes /\ "RejectedOther" \in Outcomes
    BY InferType, Zenon DEF Outcomes, Rejections, TypeOK, ItemTypeOK
  <2> QED BY Zenon, <1>1, <1>2, <1>9, <2>1 DEF SubmitOrBlock, FinalizeWithOutcome, Finalize, Send,
                          Return, Goto, Waiting, HandedOff, requestFrame, itemVars
<1>10. CASE awaitFinalization(i)
  <2>1. inferOutcome(ctx[i], handle[i]) \in Outcomes
    BY InferType, Zenon DEF TypeOK, ItemTypeOK
  <2> QED BY Zenon, <1>1, <1>2, <1>10, <2>1 DEF awaitFinalization, Finalize, Finalized, Return, Goto,
                          Waiting, requestFrame
<1> QED BY <1>3, <1>4, <1>5, <1>6, <1>7, <1>8, <1>9, <1>10, Frames, ZenonT(20) DEF Request

\* A request that has handed its item off stays so, and one that has not is
\* moved by itself alone.
LEMMA HandedOffStep ==
  ASSUME TypeOK, Next, NEW i \in Items, HandedOff(i)
  PROVE  HandedOff(i)'
BY Moves, Zenon DEF HandedOff, Waiting

\* Whatever the step, an item is finalized once, with an outcome its admission
\* allows, and only Add gives it a handle.
LEMMA Effects ==
  ASSUME TypeOK, RequestInv, ChanInv, QueueInv, HandInv, Next
  PROVE  \A i \in Items : OutcomeStep(i) /\ HandleStep(i)
<1> USE DEF FinalizeWithOutcome, Finalize, Outcomes, Rejections, Evictions
<1>1. \A i \in Items : OutcomeStep(i)
  <2>0. CASE UNCHANGED final
    BY <2>0, Zenon DEF OutcomeStep
  <2>1. ASSUME NEW i \in Items, Request(i)
        PROVE  \A j \in Items : OutcomeStep(j)
    <3>1. \/ UNCHANGED final
          \/ /\ pc[i] \in {"SubmitOrBlock", "blockingSend"} /\ Return(i)
             /\ finalizeInternal({i}, "RejectedOther")
          \/ Return(i) /\ finalizeInternal({i}, inferOutcome(ctx[i], handle[i]))
      BY Zenon, <2>1 DEF Request, SubmitCheck, Submit, SubmitOrBlockCheck, SubmitOrBlock,
                  awaitFinalization, Send, itemVars
    <3>2. Return(i) => HandedOff(i)'
      BY Zenon DEF Return, Goto, HandedOff, TypeOK, RequestTypeOK
    <3>3. CASE /\ pc[i] \in {"SubmitOrBlock", "blockingSend"} /\ Return(i)
               /\ finalizeInternal({i}, "RejectedOther")
      <4>1. ~handle[i]
        BY <3>3, Zenon DEF RequestInv, HandedOff
      <4> QED BY <3>2, <3>3, <4>1, FinalizeStep, Zenon
    <3>4. CASE Return(i) /\ finalizeInternal({i}, inferOutcome(ctx[i], handle[i]))
      <4>1. handle[i] \in BOOLEAN
        BY Zenon DEF TypeOK, ItemTypeOK
      <4> QED BY <3>2, <3>4, <4>1, FinalizeStep, InferType, Zenon
    <3> QED BY <2>0, <3>1, <3>3, <3>4, Zenon
  <2>2. CASE enqueueAdmit \/ Add
    <3>1. \/ UNCHANGED final
          \/ finalizeInternal({hand}, "RejectedOther")
          \/ run = "admit" /\ run' = "cycle" /\ finalizeInternal({hand}, "RejectedCapacity")
      BY <2>2, Zenon DEF enqueueAdmit, Add, enqueueReject
    <3>2. hand \in Items /\ ~handle[hand] /\ HandedOff(hand)
      BY <2>2, ZenonT(20) DEF enqueueAdmit, Add, HandInv, Enqueuing
    <3>3. UNCHANGED pc
      BY <2>2, ZenonT(20) DEF enqueueAdmit, Add, runFrame, requestVars
    <3>4. \A j \in {hand} : ~handle[j] /\ HandedOff(j)'
      BY <3>2, <3>3 DEF HandedOff
    <3>5. CASE finalizeInternal({hand}, "RejectedOther")
      BY <3>4, <3>5, FinalizeStep
    <3>6. CASE run = "admit" /\ run' = "cycle" /\ finalizeInternal({hand}, "RejectedCapacity")
      BY <3>6, FinalizeStep, Zenon
    <3> QED BY <2>0, <3>1, <3>5, <3>6, Zenon
  <2>3. CASE dispatchFinalize
    BY <2>3, FinalizeStep, Zenon DEF dispatchFinalize, LeaveCycle
  <2>4. CASE ShutdownDrain
    <3>1. CASE enqueueChan # <<>>
      <4>1. /\ Head(enqueueChan) \in Items /\ HandedOff(Head(enqueueChan))
            /\ ~handle[Head(enqueueChan)]
        BY <3>1 DEF ChanInv, TypeOK, QueueTypeOK
      <4> QED BY <2>4, <3>1, <4>1, FinalizeStep, HandedOffStep, Zenon DEF ShutdownDrain
    <3> QED BY <2>0, <2>4, <3>1, Zenon DEF ShutdownDrain
  <2>5. ASSUME NEW f \in Flows, evictAll(f)
        PROVE  \A i \in Items : OutcomeStep(i)
    BY <2>5, FinalizeStep, Zenon DEF evictAll, QueueInv
  <2> QED BY <2>0, <2>1, <2>2, <2>3, <2>4, <2>5, Frames, Zenon
<1>2. \A i \in Items : HandleStep(i)
  <2>1. CASE UNCHANGED handle
    BY <2>1, Zenon DEF HandleStep
  <2>2. CASE Add
    BY <2>1, <2>2, Zenon DEF Add, SetHandle, HandleStep, TypeOK, ItemTypeOK
  <2> QED BY <2>1, <2>2, Frames, Zenon
<1> QED BY <1>1, <1>2, Zenon

-----------------------------------------------------------------------------
(* The invariant about the items is kept.                                  *)

\* A step leaves the items of requests still submitting untouched and their
\* flows leased, and a returned request with the outcome of its item.
LEMMA RequestStep ==
  ASSUME TypeOK, ItemInv, Next
  PROVE  RequestInv'
<1>1. SUFFICES ASSUME NEW i \in Items
               PROVE  /\ ~HandedOff(i)' => ~handle'[i] /\ final'[i] = NotYetFinalized
                      /\ Waiting(i)' => FlowOf[i] \in flows'
                      /\ pc'[i] = "returned" => /\ final'[i] # NotYetFinalized
                                                /\ result'[i] = final'[i]
                      /\ pc'[i] # "returned" => result'[i] = NotYetFinalized
  BY Zenon DEF RequestInv, Finalized
<1>2. /\ ~HandedOff(i) => ~handle[i] /\ ~Finalized(i)
      /\ Waiting(i) => FlowOf[i] \in flows
      /\ pc[i] = "returned" => Finalized(i) /\ result[i] = final[i]
      /\ pc[i] # "returned" => result[i] = NotYetFinalized
  BY Zenon DEF ItemInv, RequestInv
<1>3. OutcomeStep(i) /\ HandleStep(i)
  BY Effects, Zenon DEF ItemInv
<1>4. hand = i /\ run \in {"admit", "add", "dispatch"} => HandedOff(i)
  BY <1>2, Zenon DEF ItemInv, HandInv, Enqueuing, Dispatching
<1>5. ~HandedOff(i)' => ~handle'[i] /\ final'[i] = NotYetFinalized
  BY <1>2, <1>3, <1>4, HandedOffStep DEF OutcomeStep, HandleStep, Finalized
<1>6. Waiting(i)' => FlowOf[i] \in flows'
  <2>1. CASE UNCHANGED flows
    BY <1>2, <2>1, Moves, Zenon DEF Waiting
  <2>2. ASSUME NEW j \in Items, Connect(j) PROVE Waiting(i)' => FlowOf[i] \in flows'
    BY <1>2, <2>2, Moves, ZenonT(20) DEF Waiting, Connect
  <2>3. ASSUME NEW f \in Flows, deleteFlow(f) PROVE Waiting(i)' => FlowOf[i] \in flows'
    BY <1>2, <2>3, Zenon DEF Waiting, deleteFlow, Leased, registryFrame, requestVars
  <2> QED BY <2>1, <2>2, <2>3, Frames, Zenon
<1>7. pc'[i] = "returned" => final'[i] # NotYetFinalized /\ result'[i] = final'[i]
  BY <1>2, <1>3, Moves, ZenonT(20) DEF OutcomeStep, Finalized
<1>8. pc'[i] # "returned" => result'[i] = NotYetFinalized
  BY <1>2, Moves, Zenon DEF Waiting
<1> QED BY <1>5, <1>6, <1>7, <1>8, Zenon

\* A step keeps the outcomes consistent with the admissions.
LEMMA OutcomeInvStep ==
  ASSUME TypeOK, ItemInv, Next
  PROVE  OutcomeInv'
<1>1. SUFFICES ASSUME NEW i \in Items
               PROVE  /\ final'[i] \in Evictions \union {"Dispatched"} => handle'[i]
                      /\ final'[i] = "RejectedCapacity" => ~handle'[i]
  BY Zenon DEF OutcomeInv
<1>2. OutcomeStep(i) /\ HandleStep(i)
  BY Effects, Zenon DEF ItemInv
<1>3. /\ final[i] \in Evictions \union {"Dispatched"} => handle[i]
      /\ final[i] = "RejectedCapacity" => ~handle[i]
      /\ run = "admit" /\ hand = i => ~handle[i]
      /\ run = "add" /\ hand = i => final[i] # "RejectedCapacity"
      /\ run = "dispatch" /\ hand = i => handle[i]
  BY Zenon DEF ItemInv, OutcomeInv, HandInv, Enqueuing, Dispatching, NotYetFinalized
<1> QED BY <1>2, <1>3, Zenon DEF OutcomeStep, HandleStep, Evictions

\* A step leaves in the channel only items no queue has taken in, once each.
LEMMA ChanStep ==
  ASSUME TypeOK, ItemInv, Next
  PROVE  ChanInv'
<1> DEFINE Ok(j) == /\ pc'[j] \in {"await", "returned"} /\ ~handle'[j]
                    /\ final'[j] \in {NotYetFinalized, "RejectedOther"}
<1>1. enqueueChan \in Seq(Items)
  BY Zenon DEF TypeOK, QueueTypeOK
<1>2. ChanInv /\ HandInv /\ RequestInv
  BY Zenon DEF ItemInv
<1>3. ASSUME NEW j \in Items, Buffered(j) PROVE Ok(j)
  <2>1. HandedOff(j) /\ ~handle[j] /\ final[j] \in {NotYetFinalized, "RejectedOther"}
    BY <1>1, <1>2, <1>3 DEF ChanInv, Buffered
  <2>2. ~(hand = j /\ run \in {"admit", "add", "dispatch"})
    BY <1>2, <1>3, <2>1, Zenon DEF HandInv, Enqueuing, Dispatching
  <2>3. OutcomeStep(j) /\ HandleStep(j) /\ HandedOff(j)'
    BY <2>1, Effects, HandedOffStep, Zenon DEF ItemInv
  <2> QED BY <2>1, <2>2, <2>3, Zenon DEF OutcomeStep, HandleStep, HandedOff
<1>4. \A k \in 1..Len(enqueueChan) : Ok(enqueueChan[k])
  BY <1>1, <1>3 DEF Buffered
<1> HIDE DEF Ok
<1>5. CASE UNCHANGED enqueueChan
  BY <1>2, <1>4, <1>5 DEF ChanInv, Ok, HandedOff
<1>7. CASE enqueueChan # <<>> /\ enqueueChan' = Tail(enqueueChan)
  <2>1. /\ Len(enqueueChan') = Len(enqueueChan) - 1
        /\ \A k \in 1..Len(enqueueChan') : /\ k + 1 \in 1..Len(enqueueChan)
                                           /\ enqueueChan'[k] = enqueueChan[k + 1]
    BY <1>1, <1>7
  <2>2. \A k \in 1..Len(enqueueChan') : Ok(enqueueChan'[k])
    BY <1>4, <2>1, Zenon
  <2>3. \A k, l \in 1..Len(enqueueChan') : enqueueChan'[k] = enqueueChan'[l] => k + 1 = l + 1
    BY <1>2, <2>1 DEF ChanInv
  <2>4. \A k, l \in 1..Len(enqueueChan') : enqueueChan'[k] = enqueueChan'[l] => k = l
    BY <2>3
  <2> QED BY <2>2, <2>4, Zenon DEF ChanInv, Ok, HandedOff
<1>6. ASSUME NEW i \in Items, Request(i), Send(i), enqueueChan' # enqueueChan PROVE ChanInv'
  <2>1. enqueueChan' = Append(enqueueChan, i) /\ UNCHANGED <<final, handle>>
    BY <1>6, ZenonT(20) DEF Send, itemVars
  <2>2. ~HandedOff(i)
    BY Zenon, <1>6 DEF Request, SubmitCheck, Submit, SubmitOrBlockCheck, SubmitOrBlock,
                awaitFinalization, HandedOff
  <2>3. Ok(i)
    <3>1. pc'[i] = "await"
      BY <1>6, Zenon DEF Send, Goto, TypeOK, RequestTypeOK
    <3> QED BY <1>2, <2>1, <2>2, <3>1, Zenon DEF RequestInv, HandedOff, Finalized, Ok
  <2>4. \A k \in 1..Len(enqueueChan) : enqueueChan[k] # i
    BY <1>2, <2>2, ZenonT(20) DEF ChanInv
  <2> QED BY <1>1, <1>2, <1>4, <2>1, <2>3, <2>4 DEF ChanInv, Ok, HandedOff
<1> QED BY <1>5, <1>6, <1>7, Frames, SendChange, ReceiveChange, Zenon

\* The ways the contents of the queues may change.
LEMMA QueueChange ==
  ASSUME TypeOK, ItemInv, Next
  PROVE
    \/ UNCHANGED <<queue, releasing>>
    \/ /\ Add /\ ~draining /\ UNCHANGED <<releasing, flows, final, pc>>
       /\ queue' = [queue EXCEPT ![FlowOf[hand]] = @ \union {hand}]
    \/ /\ dispatchRemove /\ picked \in flows /\ hand \in queue[picked] /\ run' = "dispatch"
       /\ queue' = [queue EXCEPT ![picked] = @ \ {hand}]
       /\ UNCHANGED <<releasing, flows, hand, picked, final, pc>>
    \/ \E f \in Flows :
         \/ /\ evictAll(f) /\ queue' = [queue EXCEPT ![f] = {}] /\ UNCHANGED <<releasing, flows, pc>>
         \/ /\ deleteFlow(f) /\ queue' = [queue EXCEPT ![f] = {}]
            /\ flows' = flows \ {f} /\ UNCHANGED <<releasing, final, pc>>
         \/ /\ sweepFinalizedItems(f)
            /\ queue' = [queue EXCEPT ![f] = @ \ {i \in @ : Finalized(i)}]
            /\ releasing' = [releasing EXCEPT ![f] = {i \in queue[f] : Finalized(i)}]
            /\ UNCHANGED <<flows, final, pc>>
         \/ /\ sweepRelease(f)
            /\ releasing' = [releasing EXCEPT ![f] = {}]
            /\ UNCHANGED <<queue, flows, final, pc>>
<1> USE DEF queueVars, requestVars, itemVars
<1>1. Add => \/ UNCHANGED <<queue, releasing>>
             \/ /\ Add /\ ~draining /\ UNCHANGED <<releasing, flows, final, pc>>
                /\ queue' = [queue EXCEPT ![FlowOf[hand]] = @ \union {hand}]
  BY Zenon DEF Add, runFrame
<1>2. dispatchRemove =>
        \/ UNCHANGED <<queue, releasing>>
        \/ /\ dispatchRemove /\ picked \in flows /\ hand \in queue[picked] /\ run' = "dispatch"
           /\ queue' = [queue EXCEPT ![picked] = @ \ {hand}]
           /\ UNCHANGED <<releasing, flows, hand, picked, final, pc>>
  BY Zenon DEF dispatchRemove, cycleVars, cycleFrame
<1>3. \A f \in Flows : evictAll(f) =>
        queue' = [queue EXCEPT ![f] = {}] /\ UNCHANGED <<releasing, flows, pc>>
  BY Zenon DEF evictAll, runFrame
<1>4. \A f \in Flows : deleteFlow(f) =>
        /\ queue' = [queue EXCEPT ![f] = {}]
        /\ flows' = flows \ {f} /\ UNCHANGED <<releasing, final, pc>>
  BY Zenon DEF deleteFlow, registryFrame
<1>5. \A f \in Flows : sweepFinalizedItems(f) =>
        /\ queue' = [queue EXCEPT ![f] = @ \ {i \in @ : Finalized(i)}]
        /\ releasing' = [releasing EXCEPT ![f] = {i \in queue[f] : Finalized(i)}]
        /\ UNCHANGED <<flows, final, pc>>
  BY Zenon DEF sweepFinalizedItems, sweepFrame, TypeOK, QueueTypeOK
<1>6. \A f \in Flows : sweepRelease(f) =>
        /\ releasing' = [releasing EXCEPT ![f] = {}]
        /\ UNCHANGED <<queue, flows, final, pc>>
  BY Zenon DEF sweepRelease, sweepFrame
<1> QED BY <1>1, <1>2, <1>3, <1>4, <1>5, <1>6, Frames, ZenonT(20)

\* A step leaves in a queue, or on its way out of it, only items of its flow
\* that are neither dispatched nor rejected for capacity.
LEMMA QueueInvStep ==
  ASSUME TypeOK, ItemInv, Next
  PROVE  QueueInv'
<1>1. /\ queue \in [Flows -> SUBSET Items] /\ releasing \in [Flows -> SUBSET Items]
      /\ flows \subseteq Flows /\ FlowOf \in [Items -> Flows]
  BY ConstantsAssumption, Zenon DEF TypeOK, QueueTypeOK
<1>2. QueueInv /\ HandInv
  BY Zenon DEF ItemInv
<1> DEFINE Ok(f, i) == /\ FlowOf[i] = f /\ handle'[i]
                       /\ final'[i] \notin {"Dispatched", "RejectedCapacity"}
<1>3. ASSUME NEW f \in Flows, NEW i \in queue[f] \union releasing[f]
      PROVE  Ok(f, i) /\ (Finalized(i) => final'[i] = final[i])
  <2>1. i \in Items /\ FlowOf[i] = f /\ handle[i] /\ final[i] \notin {"Dispatched", "RejectedCapacity"}
    BY <1>1, <1>2, Zenon DEF QueueInv
  <2>2. ~(hand = i /\ run \in {"admit", "add", "dispatch"})
    BY <1>2, <2>1, Zenon DEF HandInv, Enqueuing, Dispatching
  <2>3. OutcomeStep(i) /\ HandleStep(i)
    BY <2>1, Effects, Zenon DEF ItemInv
  <2> QED BY <2>1, <2>2, <2>3, Zenon DEF OutcomeStep, HandleStep, Evictions
<1>4. \A f \in Flows : /\ \A i \in releasing[f] : Finalized(i)
                       /\ queue[f] \intersect releasing[f] = {}
                       /\ f \notin flows => queue[f] = {}
  BY <1>2, Zenon DEF QueueInv
<1> DEFINE Goal == \A f \in Flows :
                     /\ \A i \in queue'[f] \union releasing'[f] : Ok(f, i)
                     /\ \A i \in releasing'[f] : final'[i] # NotYetFinalized
                     /\ queue'[f] \intersect releasing'[f] = {}
                     /\ f \notin flows' => queue'[f] = {}
<1> SUFFICES Goal
  BY Zenon DEF QueueInv, Finalized
<1> HIDE DEF Ok
<1>5. CASE UNCHANGED <<queue, releasing>>
  <2>1. \A f \in Flows : f \notin flows' => queue'[f] = {}
    <3>1. CASE UNCHANGED flows
      BY <1>4, <1>5, <3>1, ZenonT(20)
    <3>2. ASSUME NEW j \in Items, Connect(j) PROVE \A f \in Flows : f \notin flows' => queue'[f] = {}
      BY <1>4, <1>5, <3>2, ZenonT(20) DEF Connect
    <3>3. ASSUME NEW g \in Flows, deleteFlow(g)
          PROVE  \A f \in Flows : f \notin flows' => queue'[f] = {}
      BY <1>1, <1>4, <1>5, <3>3, Zenon DEF deleteFlow
    <3> QED BY <3>1, <3>2, <3>3, Frames, ZenonT(20)
  <2> QED BY <1>3, <1>4, <1>5, <2>1, ZenonT(20) DEF Finalized
<1>6. CASE /\ Add /\ ~draining /\ UNCHANGED <<releasing, flows, final, pc>>
           /\ queue' = [queue EXCEPT ![FlowOf[hand]] = @ \union {hand}]
  <2>1. /\ hand \in Items /\ ~handle[hand] /\ FlowOf[hand] \in flows
        /\ final[hand] \in {NotYetFinalized, "RejectedOther"}
    BY <1>2, <1>6, Zenon DEF Add, HandInv, Enqueuing
  <2>2. handle'[hand]
    BY <1>6, <2>1, Zenon DEF Add, SetHandle, TypeOK, ItemTypeOK
  <2>3. Ok(FlowOf[hand], hand)
    BY <1>6, <2>1, <2>2, ZenonT(20) DEF Ok, NotYetFinalized
  <2>4. hand \notin releasing[FlowOf[hand]]
    BY <1>1, <1>2, <2>1, Zenon DEF QueueInv
  <2> QED BY <1>1, <1>3, <1>4, <1>6, <2>1, <2>3, <2>4, ZenonT(20) DEF Finalized
<1>7. CASE /\ dispatchRemove /\ picked \in flows /\ hand \in queue[picked] /\ run' = "dispatch"
           /\ queue' = [queue EXCEPT ![picked] = @ \ {hand}]
           /\ UNCHANGED <<releasing, flows, hand, picked, final, pc>>
  BY <1>1, <1>3, <1>4, <1>7, Zenon DEF Finalized
<1>8. ASSUME NEW f \in Flows, evictAll(f), queue' = [queue EXCEPT ![f] = {}],
             UNCHANGED <<releasing, flows, pc>>
      PROVE  Goal
  BY <1>1, <1>3, <1>4, <1>8, Zenon DEF Finalized
<1>9. ASSUME NEW f \in Flows, deleteFlow(f), queue' = [queue EXCEPT ![f] = {}],
             flows' = flows \ {f}, UNCHANGED <<releasing, final, pc>>
      PROVE  Goal
  BY <1>1, <1>3, <1>4, <1>9, Zenon DEF Finalized
<1>10. ASSUME NEW f \in Flows, sweepFinalizedItems(f),
              queue' = [queue EXCEPT ![f] = @ \ {i \in @ : Finalized(i)}],
              releasing' = [releasing EXCEPT ![f] = {i \in queue[f] : Finalized(i)}],
              UNCHANGED <<flows, final, pc>>
       PROVE  Goal
  BY <1>1, <1>3, <1>4, <1>10, Zenon DEF Finalized
<1>11. ASSUME NEW f \in Flows, sweepRelease(f), releasing' = [releasing EXCEPT ![f] = {}],
              UNCHANGED <<queue, flows, final, pc>>
       PROVE  Goal
  BY <1>1, <1>3, <1>4, <1>11, ZenonT(20) DEF Finalized
<1> QED BY <1>5, <1>6, <1>7, <1>8, <1>9, <1>10, <1>11, QueueChange, Zenon

\* The item in the Run goroutine's hands, in a step of anybody else.
LEMMA HandKept ==
  ASSUME TypeOK, ItemInv, Next, UNCHANGED <<run, hand, picked>>
  PROVE  HandInv'
<1>1. HandInv /\ QueueInv /\ RequestInv
  BY Zenon DEF ItemInv
<1>2. ASSUME hand \in Items
      PROVE  OutcomeStep(hand) /\ HandleStep(hand) /\ (HandedOff(hand) => HandedOff(hand)')
  BY <1>2, Effects, HandedOffStep, ZenonT(20) DEF ItemInv
<1>3. Enqueuing =>
        /\ hand \in Items /\ HandedOff(hand)' /\ ~handle'[hand]
        /\ final'[hand] \in {NotYetFinalized, "RejectedOther"}
  BY <1>1, <1>2, ZenonT(20) DEF HandInv, Enqueuing, OutcomeStep, HandleStep
<1>4. Enqueuing => ~Buffered(hand)'
  <2>1. enqueueChan \in Seq(Items)
    BY Zenon DEF TypeOK, QueueTypeOK
  <2>2. CASE UNCHANGED enqueueChan
    BY <1>1, <2>2, Zenon DEF HandInv, Buffered
  <2>3. CASE enqueueChan # <<>> /\ enqueueChan' = Tail(enqueueChan)
    <3>1. ASSUME NEW k \in DOMAIN enqueueChan'
          PROVE  k + 1 \in DOMAIN enqueueChan /\ enqueueChan'[k] = enqueueChan[k + 1]
      BY <2>1, <2>3
    <3> QED BY <1>1, <3>1, Zenon DEF HandInv, Buffered
  <2>4. ASSUME NEW i \in Items, Request(i), Send(i), Enqueuing PROVE ~Buffered(hand)'
    <3>1. i # hand
      <4>1. ~awaitFinalization(i)
        BY <2>1, <2>4, SMTT(30) DEF Send, awaitFinalization
      <4>2. pc[i] \notin {"await", "returned"}
        BY <2>4, <4>1, Zenon DEF Request, SubmitCheck, Submit, SubmitOrBlockCheck,
                                 SubmitOrBlock
      <4>3. HandedOff(hand)
        BY <1>1, <2>4, Zenon DEF HandInv
      <4> QED BY <4>2, <4>3, Zenon DEF HandedOff
    <3>2. enqueueChan' = Append(enqueueChan, i)
      BY <2>4, Zenon DEF Send
    <3> QED BY <1>1, <2>1, <2>4, <3>1, <3>2, SMTT(30) DEF HandInv, Buffered
  <2> QED BY <2>2, <2>3, <2>4, Frames, SendChange, ReceiveChange, Zenon
<1>5. run = "add" => FlowOf[hand] \in flows'
  BY <1>1, Frames, ZenonT(30) DEF HandInv, Connect, deleteFlow
<1>6. Dispatching =>
        /\ hand \in Items /\ picked = FlowOf[hand] /\ handle'[hand]
        /\ final'[hand] # "RejectedCapacity"
  BY <1>1, <1>2, Zenon DEF HandInv, Dispatching, OutcomeStep, HandleStep, Evictions
<1>7. run = "dispatch" => final'[hand] # "Dispatched"
  BY <1>1, <1>2, ZenonT(20) DEF HandInv, Dispatching, OutcomeStep, HandleStep, Evictions
<1>8. run = "dispatch" => hand \notin queue'[picked] /\ hand \notin releasing'[picked]
  <2>1. /\ queue \in [Flows -> SUBSET Items] /\ releasing \in [Flows -> SUBSET Items]
    BY Zenon DEF TypeOK, QueueTypeOK
  <2>2. run = "dispatch" => ~Add /\ ~dispatchRemove
    BY ZenonT(20) DEF Add, dispatchRemove
  <2>3. run = "dispatch" => picked \in Flows /\ hand \notin queue[picked] /\ hand \notin releasing[picked]
    BY <1>1, ConstantsAssumption, ZenonT(20) DEF HandInv, Dispatching
  <2>4. ASSUME run = "dispatch", NEW f \in Flows,
               \/ queue' = [queue EXCEPT ![f] = {}] /\ UNCHANGED releasing
               \/ /\ queue' = [queue EXCEPT ![f] = @ \ {i \in @ : Finalized(i)}]
                  /\ releasing' = [releasing EXCEPT ![f] = {i \in queue[f] : Finalized(i)}]
               \/ releasing' = [releasing EXCEPT ![f] = {}] /\ UNCHANGED queue
        PROVE  hand \notin queue'[picked] /\ hand \notin releasing'[picked]
    BY <2>1, <2>3, <2>4, Zenon
  <2> QED BY <2>2, <2>3, <2>4, QueueChange, ZenonT(20)
<1>9. ~Enqueuing /\ ~Dispatching => hand = NoItem
  BY <1>1, ZenonT(20) DEF HandInv
<1> QED BY <1>1, <1>3, <1>4, <1>5, <1>6, <1>7, <1>8, <1>9, Zenon DEF HandInv, Enqueuing, Dispatching

\* A step of the Run goroutine keeps what it knows of the item in its hands.
LEMMA HandStep ==
  ASSUME TypeOK, ItemInv, Next
  PROVE  HandInv'
<1>1. HandInv /\ QueueInv /\ ChanInv
  BY Zenon DEF ItemInv
<1>2. /\ enqueueChan \in Seq(Items) /\ queue \in [Flows -> SUBSET Items]
      /\ releasing \in [Flows -> SUBSET Items]
  BY ZenonT(20) DEF TypeOK, QueueTypeOK
<1>3. ASSUME run' \in {"select", "cycle", "band", "drain", "evict", "stopped"}, hand' = NoItem
      PROVE  HandInv'
  BY <1>3, ZenonT(20) DEF HandInv, Enqueuing, Dispatching
<1>4. run \in {"select", "cycle", "band", "peek", "drain", "evict"} => hand = NoItem
  BY <1>1, Zenon DEF HandInv, Enqueuing, Dispatching
<1> USE DEF itemVars, requestVars, queueVars, cycleVars
<1>5. CASE Receive
  <2>1. CASE run' = "cycle" /\ UNCHANGED hand
    BY <1>3, <1>4, <1>5, <2>1, Zenon DEF Receive
  <2>2. CASE ~Finalized(Head(enqueueChan)) /\ run' = "admit" /\ hand' = Head(enqueueChan)
    <3> DEFINE h == Head(enqueueChan)
    <3>1. h \in Items /\ HandedOff(h) /\ ~handle[h]
      BY <1>1, <1>2, <1>5 DEF Receive, ChanInv
    <3>2. UNCHANGED <<pc, handle, final>> /\ enqueueChan' = Tail(enqueueChan)
      BY <1>5, Zenon DEF Receive, runFrame
    <3>3. \A k \in 1..Len(enqueueChan') : enqueueChan'[k] # h
      <4>1. \A k \in 1..Len(enqueueChan) : enqueueChan[k] = enqueueChan[1] => k = 1
        BY <1>1, <1>2, <1>5 DEF Receive, ChanInv
      <4> QED BY <1>2, <1>5, <3>2, <4>1 DEF Receive
    <3>4. enqueueChan' \in Seq(Items)
      BY <1>2, <1>5 DEF Receive
    <3> QED BY <2>2, <3>1, <3>2, <3>3, <3>4
            DEF HandInv, Enqueuing, Dispatching, Buffered, HandedOff, Finalized
  <2> QED BY <1>5, <2>1, <2>2, Zenon DEF Receive
<1>6. CASE enqueueAdmit
  <2>1. CASE run' = "cycle" /\ hand' = NoItem
    BY <1>3, <2>1, Zenon
  <2>2. CASE FlowOf[hand] \in flows /\ run' = "add" /\ UNCHANGED <<final, hand>>
    BY <1>1, <1>6, <2>2, Zenon DEF enqueueAdmit, runFrame, HandInv, Enqueuing, Dispatching, Buffered, HandedOff
  <2> QED BY <1>6, <2>1, <2>2, Zenon DEF enqueueAdmit, enqueueReject
<1>7. CASE Add
  BY <1>3, <1>7, Zenon DEF Add, enqueueReject
<1>8. ASSUME NEW n, StartCycle(n) PROVE HandInv'
  BY <1>3, <1>4, <1>8, Zenon DEF StartCycle
<1>9. CASE EndCycle \/ selectNothing
  BY <1>3, <1>4, <1>9, ZenonT(20) DEF EndCycle, selectNothing
<1>10. ASSUME NEW f \in Flows, selectQueue(f) PROVE HandInv'
  BY <1>4, <1>10, Zenon DEF selectQueue, HandInv, Enqueuing, Dispatching
<1>11. CASE PeekHead
  <2>1. CASE SkipBand
    BY <1>3, <2>1, Zenon DEF SkipBand
  <2>2. ASSUME NEW i \in queue[picked], hand' = i, run' = "remove", UNCHANGED picked
        PROVE  HandInv'
    <3>1. picked \in Flows
      BY <1>1, <1>11, ZenonT(20) DEF PeekHead, HandInv
    <3>2. i \in Items /\ FlowOf[i] = picked /\ handle[i] /\ final[i] # "RejectedCapacity"
      BY <1>1, <1>2, <3>1, Zenon DEF QueueInv
    <3>3. UNCHANGED <<handle, final>>
      BY <1>11, Zenon DEF PeekHead
    <3> QED BY <2>2, <3>2, <3>3, ZenonT(20) DEF HandInv, Enqueuing, Dispatching
  <2> QED BY <1>11, <2>1, <2>2, Zenon DEF PeekHead
<1>12. CASE dispatchRemove
  <2>1. CASE SkipBand
    BY <1>3, <2>1, ZenonT(20) DEF SkipBand
  <2>2. CASE LeaveCycle
    BY <1>3, <2>2, ZenonT(20) DEF LeaveCycle
  <2>3. CASE /\ Unlocked(picked) /\ hand \in queue[picked] /\ run' = "dispatch"
             /\ queue' = [queue EXCEPT ![picked] = @ \ {hand}]
             /\ UNCHANGED <<releasing, hand, picked>>
    <3>1. hand \in Items /\ picked = FlowOf[hand] /\ picked \in Flows /\ handle[hand]
      BY <1>1, <1>12, ConstantsAssumption, ZenonT(30) DEF dispatchRemove, HandInv, Dispatching
    <3>2. final[hand] \notin {"Dispatched", "RejectedCapacity"}
      BY <1>1, <2>3, <3>1, Zenon DEF QueueInv
    <3>3. hand \notin queue'[picked] /\ hand \notin releasing'[picked]
      BY <1>2, <2>3, <3>1, Zenon DEF Unlocked
    <3>4. UNCHANGED <<handle, final>>
      BY <1>12, Zenon DEF dispatchRemove
    <3> QED BY <2>3, <3>1, <3>2, <3>3, <3>4, Zenon DEF HandInv, Enqueuing, Dispatching
  <2> QED BY <1>12, <2>1, <2>2, <2>3, Zenon DEF dispatchRemove
<1>13. CASE dispatchFinalize
  BY <1>3, <1>13, Zenon DEF dispatchFinalize, LeaveCycle
<1>14. CASE ShutdownStart \/ ShutdownDrain \/ ShutdownEnd
  BY <1>3, <1>4, <1>14, Zenon DEF ShutdownStart, ShutdownDrain, ShutdownEnd
<1>15. ASSUME NEW f \in Flows, evictAll(f) PROVE HandInv'
  BY <1>15, HandKept, Zenon DEF evictAll
<1>16. CASE UNCHANGED <<run, hand, picked>>
  BY <1>16, HandKept, ZenonT(20)
<1> QED BY Zenon, <1>5, <1>6, <1>7, <1>8, <1>9, <1>10, <1>11, <1>12, <1>13, <1>14, <1>15, <1>16,
           Frames DEF Run, Cycle

\* A step that leaves an awaited item without outcome leaves it in the channel,
\* in the hands of the Run goroutine or in its queue.
LEMMA PlaceStep ==
  ASSUME TypeOK, ItemInv, Next
  PROVE  PlaceInv'
<1> SUFFICES ASSUME NEW i \in Items, pc'[i] = "await", final'[i] = NotYetFinalized
             PROVE  \/ Buffered(i)'
                    \/ hand' = i /\ run' \in {"admit", "add", "dispatch"}
                    \/ i \in queue'[FlowOf[i]]
  BY Zenon DEF PlaceInv, Finalized, Enqueuing, Queued
<1>1. /\ enqueueChan \in Seq(Items) /\ queue \in [Flows -> SUBSET Items]
      /\ FlowOf \in [Items -> Flows]
  BY ConstantsAssumption, Zenon DEF TypeOK, QueueTypeOK
<1>2. final[i] = NotYetFinalized
  BY Effects, Zenon DEF ItemInv, OutcomeStep, Finalized
<1>3. CASE Send(i)
  BY <1>1, <1>3, SMTT(30) DEF Send, Buffered
<1>4. CASE pc[i] # "await"
  BY <1>3, <1>4, Moves, Zenon
<1>5. ASSUME pc[i] = "await", Buffered(i)
      PROVE  Buffered(i)' \/ (hand' = i /\ run' = "admit")
  <2>1. CASE UNCHANGED enqueueChan
    BY <1>5, <2>1, Zenon DEF Buffered
  <2>2. ASSUME NEW j \in Items, Send(j) PROVE Buffered(i)'
    <3>1. enqueueChan' = Append(enqueueChan, j)
      BY <2>2, Zenon DEF Send
    <3>2. PICK k \in 1..Len(enqueueChan) : enqueueChan[k] = i
      BY <1>1, <1>5 DEF Buffered
    <3>3. k \in DOMAIN enqueueChan' /\ enqueueChan'[k] = i
      BY <1>1, <3>1, <3>2
    <3> QED BY <3>3, Zenon DEF Buffered
  <2>3. ASSUME enqueueChan # <<>>, enqueueChan' = Tail(enqueueChan), i # Head(enqueueChan)
        PROVE  Buffered(i)'
    <3>1. PICK k \in 1..Len(enqueueChan) : enqueueChan[k] = i
      BY <1>1, <1>5 DEF Buffered
    <3>2. k - 1 \in 1..Len(enqueueChan') /\ enqueueChan'[k - 1] = i
      BY <1>1, <2>3, <3>1
    <3>3. k - 1 \in DOMAIN enqueueChan'
      BY <1>1, <2>3, <3>2
    <3> QED BY <3>2, <3>3, Zenon DEF Buffered
  <2>4. CASE Receive
    BY <1>2, <2>3, <2>4, ZenonT(20) DEF Receive, Finalized
  <2>5. CASE ShutdownDrain
    <3>1. CASE enqueueChan # <<>> /\ i = Head(enqueueChan)
      BY <1>2, <2>5, <3>1, FinalizeType, SMTT(30)
         DEF ShutdownDrain, FinalizeWithOutcome, Outcomes, Rejections, Finalized, TypeOK, NotYetFinalized
    <3> QED BY <2>1, <2>3, <2>5, <3>1, Zenon DEF ShutdownDrain
  <2> QED BY <2>1, <2>2, <2>4, <2>5, Frames, SendChange, ZenonT(20)
<1>6. ASSUME pc[i] = "await", hand = i, run \in {"admit", "add", "dispatch"}
      PROVE  \/ hand' = i /\ run' \in {"admit", "add", "dispatch"}
             \/ i \in queue'[FlowOf[i]]
  <2>1. CASE UNCHANGED <<run, hand>>
    BY <1>6, <2>1, Zenon
  <2>2. ASSUME NEW o \in Outcomes, FinalizeWithOutcome(hand, o) PROVE FALSE
    BY Zenon, <1>2, <1>6, <2>2, FinalizeType
       DEF FinalizeWithOutcome, Outcomes, Evictions, Rejections, Finalized, TypeOK, NotYetFinalized
  <2>3. {"RejectedOther", "RejectedCapacity", "Dispatched"} \subseteq Outcomes
    BY Zenon DEF Outcomes, Rejections
  <2>4. CASE enqueueAdmit
    BY <1>6, <2>2, <2>3, <2>4, Zenon DEF enqueueAdmit, enqueueReject
  <2>5. CASE Add
    <3>1. CASE draining
      <4>1. FinalizeWithOutcome(hand, "RejectedOther")
        BY <2>5, <3>1, Zenon DEF Add, enqueueReject
      <4> QED BY <2>2, <2>3, <4>1, Zenon
    <3>2. CASE ~draining
      <4>1. queue' = [queue EXCEPT ![FlowOf[hand]] = @ \union {hand}]
        BY <2>5, <3>2, Zenon DEF Add
      <4> QED BY <1>1, <1>6, <4>1, ZenonT(20)
    <3> QED BY <3>1, <3>2, Zenon
  <2>6. CASE dispatchFinalize
    BY <2>2, <2>3, <2>6, Zenon DEF dispatchFinalize
  <2> QED BY <1>6, <2>1, <2>4, <2>5, <2>6, Frames, Zenon
          DEF Run, Cycle, Receive, StartCycle, selectQueue, selectNothing, PeekHead, dispatchRemove,
              EndCycle, ShutdownStart, ShutdownDrain, ShutdownEnd, evictAll
<1>7. ASSUME pc[i] = "await", i \in queue[FlowOf[i]]
      PROVE  (hand' = i /\ run' = "dispatch") \/ i \in queue'[FlowOf[i]]
  <2>1. ASSUME NEW f \in Flows, evictAll(f), i \in queue[f] PROVE FALSE
    <3>1. finalizeInternal(queue[f], "EvictedOther") /\ "EvictedOther" \in Outcomes
      BY <2>1, ZenonT(20) DEF evictAll, Outcomes, Evictions
    <3>2. final'[i] = "EvictedOther"
      BY <1>2, <2>1, <3>1, FinalizeType, ZenonT(60) DEF TypeOK, Finalized
    <3> QED BY <3>2, ZenonT(20) DEF NotYetFinalized
  <2>2. ASSUME NEW f \in Flows, deleteFlow(f), FlowOf[i] = f PROVE FALSE
    BY <1>7, <2>2, ZenonT(20) DEF deleteFlow, Leased, Waiting
  <2>3. ASSUME queue' = [queue EXCEPT ![FlowOf[hand]] = @ \union {hand}]
        PROVE  i \in queue'[FlowOf[i]]
    BY <1>1, <1>7, <2>3, Zenon
  <2>4. ASSUME queue' = [queue EXCEPT ![picked] = @ \ {hand}], run' = "dispatch", UNCHANGED hand
        PROVE  (hand' = i /\ run' = "dispatch") \/ i \in queue'[FlowOf[i]]
    BY <1>1, <1>7, <2>4, Zenon
  <2>5. ASSUME NEW f \in Flows, queue' = [queue EXCEPT ![f] = {}], evictAll(f) \/ deleteFlow(f)
        PROVE  i \in queue'[FlowOf[i]]
    <3>1. FlowOf[i] # f
      BY <1>7, <2>1, <2>2, <2>5, ZenonT(20)
    <3> QED BY <1>1, <1>7, <2>5, <3>1, Zenon
  <2>6. ASSUME NEW f \in Flows, queue' = [queue EXCEPT ![f] = @ \ {j \in @ : Finalized(j)}]
        PROVE  i \in queue'[FlowOf[i]]
    BY <1>1, <1>2, <1>7, <2>6, Zenon DEF Finalized
  <2> QED BY <1>7, <2>3, <2>4, <2>5, <2>6, QueueChange, Zenon
<1> QED BY <1>2, <1>4, <1>5, <1>6, <1>7, ZenonT(20) DEF ItemInv, PlaceInv, Finalized, Enqueuing, Queued

\* A step keeps the whole invariant about the items.
LEMMA ItemStep ==
  ASSUME TypeOK, ItemInv, Next
  PROVE  ItemInv'
BY RequestStep, ChanStep, QueueInvStep, HandStep, OutcomeInvStep, PlaceStep, Zenon DEF ItemInv

-----------------------------------------------------------------------------
(* The invariant about the dispatch cycle is kept.                         *)

\* A step of the cycle goes past a band only when it is empty or skipped, and
\* no step of anybody else puts an item into a band the cycle has passed.
LEMMA PriorityStep ==
  ASSUME TypeOK, ItemInv, PriorityInv, Next
  PROVE  PriorityInv'
<1>1. /\ queue \in [Flows -> SUBSET Items] /\ flows \subseteq Flows /\ band \in 1..(NumBands + 1)
      /\ FlowOf \in [Items -> Flows] /\ BandOf \in [Flows -> 1..NumBands] /\ NumBands \in Nat
  BY ConstantsAssumption, ZenonT(20) DEF TypeOK, QueueTypeOK, RunTypeOK, Bands
<1>2. ASSUME run' \notin {"band", "peek", "remove", "dispatch"} PROVE PriorityInv'
  BY <1>2, Zenon DEF PriorityInv
\* A queue outside run = "add" gets no item, and a flow a request connects has an
\* empty queue.
<1>3. ASSUME run # "add"
      PROVE  \A f \in flows' : queue'[f] = {} \/ (f \in flows /\ queue[f] # {})
  <2>1. QueueInv
    BY Zenon DEF ItemInv
  <2>2. \A f \in Flows : queue'[f] \subseteq queue[f]
    BY <1>1, <1>3, QueueChange, SMTT(30) DEF Add
  <2>3. flows' \subseteq Flows
    BY <1>1, Frames, SMTT(30) DEF Connect, deleteFlow
  <2> QED BY <2>1, <2>2, <2>3, ZenonT(20) DEF QueueInv
<1>4. CASE UNCHANGED <<run, hand, picked, band, viable, skipped>>
  <2>1. CASE run = "add"
    BY <1>2, <1>4, <2>1, Zenon
  <2> QED BY <1>3, <1>4, <2>1, Zenon DEF PriorityInv
<1> USE DEF cycleVars, queueVars
<1>5. ASSUME NEW n, StartCycle(n) PROVE PriorityInv'
  BY <1>1, <1>5, SMTT(30) DEF StartCycle, cycleFrame, PriorityInv
<1>6. ASSUME NEW f \in Flows, selectQueue(f) PROVE PriorityInv'
  BY <1>6, ZenonT(20) DEF selectQueue, cycleFrame, PriorityInv
<1>7. CASE selectNothing
  BY <1>1, <1>7 DEF selectNothing, cycleFrame, PriorityInv
<1>8. ASSUME SkipBand, UNCHANGED <<queue, flows>>, run \in {"peek", "remove"}
      PROVE  PriorityInv'
  BY <1>1, <1>8 DEF SkipBand, PriorityInv
<1>9. CASE PeekHead
  <2>1. CASE SkipBand
    BY <1>8, <1>9, <2>1, Zenon DEF PeekHead, cycleFrame
  <2>2. CASE run' = "remove" /\ UNCHANGED cycleVars
    BY <1>9, <2>2, Zenon DEF PeekHead, cycleFrame, PriorityInv
  <2> QED BY <1>9, <2>1, <2>2, Zenon DEF PeekHead
<1>10. CASE dispatchRemove
  <2>1. CASE SkipBand /\ UNCHANGED queueVars
    BY <1>8, <1>10, <2>1, Zenon DEF dispatchRemove, cycleFrame
  <2>2. CASE run' = "dispatch" /\ UNCHANGED cycleVars
    BY <1>3, <1>10, <2>2, Zenon DEF dispatchRemove, cycleFrame, PriorityInv
  <2> QED BY <1>2, <1>10, <2>1, <2>2, Zenon DEF dispatchRemove, LeaveCycle
<1>11. CASE EndCycle \/ dispatchFinalize \/ Receive \/ enqueueAdmit \/ Add
  BY <1>2, <1>11, ZenonT(30) DEF EndCycle, dispatchFinalize, LeaveCycle, Receive, enqueueAdmit, enqueueReject, Add
<1>12. CASE ShutdownStart \/ ShutdownDrain \/ ShutdownEnd
  BY <1>2, <1>12, Zenon DEF ShutdownStart, ShutdownDrain, ShutdownEnd
<1>13. ASSUME NEW f \in Flows, evictAll(f) PROVE PriorityInv'
  BY <1>2, <1>13, Zenon DEF evictAll
<1> QED BY <1>4, <1>5, <1>6, <1>7, <1>9, <1>10, <1>11, <1>12, <1>13, Frames, Zenon DEF Run, Cycle
=============================================================================
