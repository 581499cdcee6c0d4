------------------------ MODULE ShardProcessorProofs ------------------------
(***************************************************************************)
(* The theorems about ShardProcessor: every step keeps the invariant about *)
(* the statistics, so the whole invariant is inductive; the safety         *)
(* properties and the refinement follow.                                   *)
(***************************************************************************)
EXTENDS ShardItemProofs, FiniteSetTheorems

-----------------------------------------------------------------------------
(* The invariant about the statistics is kept.                             *)

\* The number and the bytes of a set of items are natural numbers.
LEMMA SizeType ==
  ASSUME NEW S \in SUBSET Items
  PROVE  IsFiniteSet(S) /\ Cardinality(S) \in Nat /\ Bytes[S] \in Nat
BY FS_Subset, FS_CardinalityType, ConstantsAssumption, BytesAssumption, Zenon

\* The empty set has no members and no size.
LEMMA SizeEmpty == Cardinality({}) = 0 /\ Bytes[{}] = 0
<1>1. {} \intersect {} = {} /\ {} \union {} = {} /\ {} \in SUBSET Items
  BY Zenon
<1>2. Bytes[{}] = Bytes[{}] + Bytes[{}] /\ Bytes[{}] \in Nat
  BY <1>1, BytesAssumption, Zenon
<1>3. \A n \in Nat : n = n + n => n = 0
  OBVIOUS
<1>4. Bytes[{}] = 0
  BY <1>2, <1>3, Zenon
<1> QED BY <1>4, FS_EmptySet, Zenon

\* The size of a set with one more item.
LEMMA SizeAdd ==
  ASSUME NEW S \in SUBSET Items, NEW x \in Items, x \notin S
  PROVE  /\ Cardinality(S \union {x}) = Cardinality(S) + 1
         /\ Bytes[S \union {x}] = Bytes[S] + Bytes[{x}]
         /\ Cardinality({x}) = 1
<1>1. Cardinality(S \union {x}) = Cardinality(S) + 1
  BY SizeType, FS_AddElement, Zenon
<1>2. S \intersect {x} = {} /\ {x} \in SUBSET Items
  BY Zenon
<1> QED BY <1>1, <1>2, BytesAssumption, FS_Singleton, Zenon

\* The size of a set without some of its items.
LEMMA SizeRemove ==
  ASSUME NEW S \in SUBSET Items, NEW T \in SUBSET S
  PROVE  /\ Cardinality(S \ T) = Cardinality(S) - Cardinality(T)
         /\ Bytes[S \ T] = Bytes[S] - Bytes[T]
         /\ Cardinality(T) <= Cardinality(S) /\ Bytes[T] <= Bytes[S]
<1>1. S \intersect T = T /\ (S \ T) \intersect T = {} /\ (S \ T) \union T = S
  BY Zenon
<1>2. Cardinality(S \ T) = Cardinality(S) - Cardinality(T)
  BY <1>1, SizeType, FS_Difference, Zenon
<1>3. Bytes[S] = Bytes[S \ T] + Bytes[T]
  BY <1>1, BytesAssumption, Zenon
<1>4. Bytes[S \ T] \in Nat /\ Bytes[T] \in Nat /\ Bytes[S] \in Nat
  BY SizeType, Zenon
<1>5. Cardinality(T) <= Cardinality(S)
  BY SizeType, FS_Subset, Zenon
<1> QED BY <1>2, <1>3, <1>4, <1>5

\* A subset is no larger.
LEMMA SizeSubset ==
  ASSUME NEW S \in SUBSET Items, NEW T \in SUBSET S
  PROVE  Cardinality(T) <= Cardinality(S) /\ Bytes[T] <= Bytes[S]
BY SizeRemove, Zenon

\* The items the statistics count.
LEMMA CountedIs ==
  Counted = {i \in Items : i \in queue[FlowOf[i]] \union releasing[FlowOf[i]]}
BY Zenon DEF Counted, InShard, Queued

\* How a step changes the items counted together with the statistics: only a
\* flow's deletion changes one without the other.
LEMMA Accounting ==
  ASSUME TypeOK, ItemInv, StatsInv, Next
  PROVE
    \/ UNCHANGED statVars /\ Counted' = Counted
    \/ "gc" \in Events /\ UNCHANGED statVars /\ Counted' \subseteq Counted
    \/ \E f \in Flows : \E S \in SUBSET Counted :
         (\A i \in S : FlowOf[i] = f) /\ discharge(f, S) /\ Counted' = Counted \ S
    \/ /\ Add /\ hand \in Items \ Counted /\ charge(FlowOf[hand], {hand})
       /\ Counted' = Counted \union {hand}
<1>1. /\ queue \in [Flows -> SUBSET Items] /\ releasing \in [Flows -> SUBSET Items]
      /\ FlowOf \in [Items -> Flows]
  BY ConstantsAssumption, Zenon DEF TypeOK, QueueTypeOK
<1>2. QueueInv /\ HandInv
  BY Zenon DEF ItemInv
<1>3. \A f \in Flows : \A i \in queue[f] \union releasing[f] :
        i \in Items /\ FlowOf[i] = f /\ i \in Counted
  BY <1>1, <1>2, CountedIs DEF QueueInv
<1>4. Counted' = {i \in Items : i \in queue'[FlowOf[i]] \union releasing'[FlowOf[i]]}
  BY CountedIs, Zenon DEF Counted, InShard, Queued
<1> USE DEF queueVars
<1>5. CASE Add
  <2>1. CASE UNCHANGED queueVars
    BY <2>1, <1>4, CountedIs, Zenon
  <2>2. CASE /\ queue' = [queue EXCEPT ![FlowOf[hand]] = @ \union {hand}]
             /\ charge(FlowOf[hand], {hand}) /\ UNCHANGED releasing
    <3>1. hand \in Items /\ ~handle[hand]
      BY <1>2, <1>5, Zenon DEF Add, HandInv, Enqueuing
    <3>2. hand \notin Counted
      BY <1>1, <1>2, <3>1, CountedIs, Zenon DEF QueueInv
    <3>3. Counted' = Counted \union {hand}
      BY <1>1, <1>4, <2>2, <3>1, CountedIs, Zenon
    <3> QED BY <1>5, <2>2, <3>1, <3>2, <3>3, Zenon
  <2> QED BY <1>5, <2>1, <2>2, Zenon DEF Add
<1>6. CASE dispatchRemove
  <2>1. CASE UNCHANGED queueVars
    BY <2>1, <1>4, CountedIs, Zenon
  <2>2. CASE /\ hand \in queue[picked] /\ queue' = [queue EXCEPT ![picked] = @ \ {hand}]
             /\ discharge(picked, {hand}) /\ UNCHANGED releasing
    <3>1. picked \in Flows /\ hand \in Items /\ picked = FlowOf[hand]
      BY <1>1, <1>2, <1>6, Zenon DEF dispatchRemove, HandInv, Dispatching
    <3>2. hand \notin releasing[picked]
      BY <1>2, <2>2, <3>1, Zenon DEF QueueInv
    <3>3. Counted' = Counted \ {hand} /\ {hand} \in SUBSET Counted
      BY <1>1, <1>3, <1>4, <2>2, <3>1, <3>2, CountedIs
    <3> QED BY <2>2, <3>1, <3>3, Zenon
  <2> QED BY <1>6, <2>1, <2>2, Zenon DEF dispatchRemove
<1>7. ASSUME NEW f \in Flows, evictAll(f)
      PROVE  \E S \in SUBSET Counted :
               (\A i \in S : FlowOf[i] = f) /\ discharge(f, S) /\ Counted' = Counted \ S
  <2>1. /\ releasing[f] = {} /\ queue' = [queue EXCEPT ![f] = {}]
        /\ UNCHANGED releasing /\ discharge(f, queue[f])
    BY <1>7, Zenon DEF evictAll, Unlocked
  <2>2. Counted' = Counted \ queue[f] /\ queue[f] \in SUBSET Counted
    BY <1>1, <1>3, <1>4, <2>1, CountedIs
  <2> QED BY <1>3, <2>1, <2>2, Zenon
<1>8. ASSUME NEW f \in Flows, sweepRelease(f)
      PROVE  \E S \in SUBSET Counted :
               (\A i \in S : FlowOf[i] = f) /\ discharge(f, S) /\ Counted' = Counted \ S
  <2>1. /\ releasing' = [releasing EXCEPT ![f] = {}] /\ UNCHANGED queue
        /\ discharge(f, releasing[f])
    BY <1>8, Zenon DEF sweepRelease
  <2>2. queue[f] \intersect releasing[f] = {}
    BY <1>2, Zenon DEF QueueInv
  <2>3. Counted' = Counted \ releasing[f] /\ releasing[f] \in SUBSET Counted
    BY <1>1, <1>3, <1>4, <2>1, <2>2, CountedIs
  <2> QED BY <1>3, <2>1, <2>3, Zenon
<1>9. ASSUME NEW f \in Flows, sweepFinalizedItems(f)
      PROVE  UNCHANGED statVars /\ Counted' = Counted
  <2>1. releasing[f] = {}
    BY <1>9, Zenon DEF sweepFinalizedItems, StatsInv, Unlocked
  <2>2. /\ queue' = [queue EXCEPT ![f] = @ \ {i \in @ : Finalized(i)}]
        /\ releasing' = [releasing EXCEPT ![f] = {i \in queue[f] : Finalized(i)}]
    BY <1>1, <1>9, Zenon DEF sweepFinalizedItems
  <2>3. Counted' = Counted
    BY <1>1, <1>4, <2>1, <2>2, CountedIs, Zenon
  <2> QED BY <1>9, <2>3, Zenon DEF sweepFinalizedItems
<1>10. ASSUME NEW f \in Flows, deleteFlow(f)
       PROVE  "gc" \in Events /\ UNCHANGED statVars /\ Counted' \subseteq Counted
  BY <1>1, <1>4, <1>10, CountedIs, Zenon DEF deleteFlow
<1>11. CASE UNCHANGED queueVars
  BY <1>4, <1>11, CountedIs, Zenon
<1>12. \/ UNCHANGED queueVars \/ Add \/ dispatchRemove
       \/ \E f \in Flows : evictAll(f) \/ sweepFinalizedItems(f) \/ sweepRelease(f) \/ deleteFlow(f)
  <2>1. \A i \in Items : Request(i) \/ Connect(i) \/ Expire(i) \/ Cancel(i) => UNCHANGED queueVars
    BY Zenon DEF Request, SubmitCheck, Submit, SubmitOrBlockCheck, SubmitOrBlock, awaitFinalization,
           Connect, Expire, Cancel, EndContext, requestFrame
  <2>2. Run => \/ UNCHANGED queueVars \/ Add \/ dispatchRemove \/ \E f \in Flows : evictAll(f)
    BY Zenon DEF Run, Cycle, Receive, enqueueAdmit, StartCycle, EndCycle, selectQueue, selectNothing,
           PeekHead, dispatchFinalize, ShutdownStart, ShutdownDrain, ShutdownEnd
  <2>3. Sweep => \/ UNCHANGED queueVars
                 \/ \E f \in Flows : sweepFinalizedItems(f) \/ sweepRelease(f)
    BY Zenon DEF Sweep, SweepTick, SweepStop
  <2>4. Terminated \/ markAsDraining \/ CancelWorker => UNCHANGED queueVars
    BY Zenon DEF Terminated, markAsDraining, CancelWorker, vars
  <2> QED BY <2>1, <2>2, <2>3, <2>4, Zenon DEF Next, Environment
<1> QED BY <1>5, <1>6, <1>7, <1>8, <1>9, <1>10, <1>11, <1>12, Zenon

\* What the statistics say of a smaller set holds of a larger one's statistics.
LEMMA CoversLess ==
  ASSUME TypeOK, Covers, UNCHANGED statVars, Counted' \subseteq Counted
  PROVE  Covers'
<1>1. Counted \in SUBSET Items /\ \A b \in Bands : CountedIn(b) \in SUBSET Items
  BY CountedIs, Zenon DEF CountedIn
<1>2. Counted' \in SUBSET Counted /\ \A b \in Bands : CountedIn(b)' \in SUBSET CountedIn(b)
  BY Zenon DEF CountedIn
<1>3. /\ Cardinality(Counted') <= Cardinality(Counted) /\ Bytes[Counted'] <= Bytes[Counted]
      /\ Cardinality(Counted') \in Nat /\ Bytes[Counted'] \in Nat
      /\ Cardinality(Counted) \in Nat /\ Bytes[Counted] \in Nat
  BY <1>1, <1>2, SizeSubset, SizeType, Zenon
<1>4. ASSUME NEW b \in Bands
      PROVE  /\ Cardinality(CountedIn(b)') <= Cardinality(CountedIn(b))
             /\ Bytes[CountedIn(b)'] <= Bytes[CountedIn(b)]
             /\ Cardinality(CountedIn(b)') \in Nat /\ Bytes[CountedIn(b)'] \in Nat
             /\ Cardinality(CountedIn(b)) \in Nat /\ Bytes[CountedIn(b)] \in Nat
  BY <1>1, <1>2, SizeSubset, SizeType, Zenon
<1>5. StatTypeOK
  BY Zenon DEF TypeOK
<1>6. (totalLen >= Cardinality(Counted) /\ totalBytes >= Bytes[Counted])'
  BY <1>3, <1>5 DEF Covers, statVars, StatTypeOK
<1>7. ASSUME NEW b \in Bands
      PROVE  (bandLen[b] >= Cardinality(CountedIn(b)) /\ bandBytes[b] >= Bytes[CountedIn(b)])'
  BY <1>4, <1>5 DEF Covers, statVars, StatTypeOK
<1> QED BY <1>6, <1>7, Zenon DEF Covers

\* Items leave the statistics of one band.
LEMMA Discharge ==
  ASSUME TypeOK, Covers, Limits, NEW f \in Flows, NEW S \in SUBSET Counted,
         \A i \in S : FlowOf[i] = f, discharge(f, S), Counted' = Counted \ S
  PROVE  /\ StatTypeOK' /\ Covers' /\ (StatsExact => StatsExact')
         /\ totalLen' <= totalLen /\ totalBytes' <= totalBytes
         /\ \A b \in Bands : bandLen'[b] <= bandLen[b] /\ bandBytes'[b] <= bandBytes[b]
<1> DEFINE c == Cardinality(S)
           y == Bytes[S]
           own == BandOf[f]
<1>1. Counted \in SUBSET Items /\ S \in SUBSET Items /\ own \in Bands
  BY CountedIs, ConstantsAssumption, Zenon
<1>2. /\ totalLen \in Nat /\ totalBytes \in Nat
      /\ bandLen \in [Bands -> Nat] /\ bandBytes \in [Bands -> Nat]
  BY Zenon DEF TypeOK, StatTypeOK
<1>3. c \in Nat /\ y \in Nat
  BY <1>1, SizeType, Zenon
<1>4. /\ Cardinality(Counted') = Cardinality(Counted) - c /\ Bytes[Counted'] = Bytes[Counted] - y
      /\ c <= Cardinality(Counted) /\ y <= Bytes[Counted]
      /\ Cardinality(Counted) \in Nat /\ Bytes[Counted] \in Nat
  BY <1>1, SizeRemove, SizeType, Zenon
<1>5. /\ totalLen' = totalLen - c /\ totalBytes' = totalBytes - y
      /\ bandLen' = [bandLen EXCEPT ![own] = bandLen[own] - c]
      /\ bandBytes' = [bandBytes EXCEPT ![own] = bandBytes[own] - y]
  BY Zenon DEF discharge
<1>6. CountedIn(own)' = CountedIn(own) \ S /\ S \in SUBSET CountedIn(own)
  BY Zenon DEF CountedIn
<1>7. \A b \in Bands : CountedIn(b) \in SUBSET Items
  BY <1>1, Zenon DEF CountedIn
<1>8. /\ Cardinality(CountedIn(own)') = Cardinality(CountedIn(own)) - c
      /\ Bytes[CountedIn(own)'] = Bytes[CountedIn(own)] - y
      /\ c <= Cardinality(CountedIn(own)) /\ y <= Bytes[CountedIn(own)]
      /\ Cardinality(CountedIn(own)) \in Nat /\ Bytes[CountedIn(own)] \in Nat
  BY <1>1, <1>6, <1>7, SizeRemove, SizeType
<1>9. \A b \in Bands : b # own => CountedIn(b)' = CountedIn(b)
  BY Zenon DEF CountedIn
<1>10. /\ totalLen >= Cardinality(Counted) /\ totalBytes >= Bytes[Counted]
       /\ \A b \in Bands : /\ bandLen[b] >= Cardinality(CountedIn(b))
                           /\ bandBytes[b] >= Bytes[CountedIn(b)]
  BY Zenon DEF Covers
<1> HIDE DEF c, y, own
<1>11. /\ totalLen' \in Nat /\ totalBytes' \in Nat
       /\ totalLen' >= Cardinality(Counted') /\ totalBytes' >= Bytes[Counted']
       /\ totalLen' <= totalLen /\ totalBytes' <= totalBytes
  BY <1>2, <1>3, <1>4, <1>5, <1>10, SMTT(30)
<1>12. /\ bandLen'[own] \in Nat /\ bandBytes'[own] \in Nat
       /\ bandLen'[own] >= Cardinality(CountedIn(own)') /\ bandBytes'[own] >= Bytes[CountedIn(own)']
       /\ bandLen'[own] <= bandLen[own] /\ bandBytes'[own] <= bandBytes[own]
  BY <1>1, <1>2, <1>3, <1>5, <1>8, <1>10, SMTT(30)
<1>13. ASSUME NEW b \in Bands
       PROVE  /\ bandLen'[b] \in Nat /\ bandBytes'[b] \in Nat
              /\ bandLen'[b] >= Cardinality(CountedIn(b)') /\ bandBytes'[b] >= Bytes[CountedIn(b)']
              /\ bandLen'[b] <= bandLen[b] /\ bandBytes'[b] <= bandBytes[b]
  <2>1. CASE b = own
    BY <1>12, <2>1, Zenon
  <2>2. CASE b # own
    <3>1. bandLen'[b] = bandLen[b] /\ bandBytes'[b] = bandBytes[b]
      BY <1>2, <1>5, <2>2, Zenon
    <3> QED BY <1>2, <1>9, <1>10, <2>2, <3>1
  <2> QED BY <2>1, <2>2, Zenon
<1>14. StatTypeOK'
  BY <1>2, <1>5, <1>11, <1>13, Zenon DEF StatTypeOK
<1>15. Covers'
  BY <1>11, <1>13, Zenon DEF Covers
<1>16. ASSUME StatsExact PROVE StatsExact'
  <2>1. (totalLen = Cardinality(Counted) /\ totalBytes = Bytes[Counted])'
    BY <1>4, <1>5, <1>16, Zenon DEF StatsExact
  <2>2. ASSUME NEW b \in Bands
        PROVE  (bandLen[b] = Cardinality(CountedIn(b)) /\ bandBytes[b] = Bytes[CountedIn(b)])'
    BY <1>1, <1>2, <1>5, <1>8, <1>9, <1>16, Zenon DEF StatsExact
  <2> QED BY <2>1, <2>2, Zenon DEF StatsExact
<1> QED BY <1>11, <1>13, <1>14, <1>15, <1>16, Zenon

\* An item that fits enters the statistics of its band.
LEMMA Charge ==
  ASSUME TypeOK, Covers, Limits, NEW h \in Items \ Counted, charge(FlowOf[h], {h}),
         Counted' = Counted \union {h}, hasCapacity(BandOf[FlowOf[h]], Bytes[{h}])
  PROVE  StatTypeOK' /\ Covers' /\ Limits' /\ (StatsExact => StatsExact')
<1> DEFINE y == Bytes[{h}]
           own == BandOf[FlowOf[h]]
<1>1. /\ Counted \in SUBSET Items /\ {h} \in SUBSET Items /\ own \in Bands
      /\ CapRequests \in Nat /\ CapBytes \in Nat
      /\ BandCapRequests \in [Bands -> Nat] /\ BandCapBytes \in [Bands -> Nat]
  BY CountedIs, ConstantsAssumption, Zenon
<1>2. /\ totalLen \in Nat /\ totalBytes \in Nat
      /\ bandLen \in [Bands -> Nat] /\ bandBytes \in [Bands -> Nat]
  BY Zenon DEF TypeOK, StatTypeOK
<1>3. y \in Nat
  BY <1>1, SizeType, Zenon
<1>4. /\ Cardinality(Counted') = Cardinality(Counted) + 1 /\ Bytes[Counted'] = Bytes[Counted] + y
      /\ Cardinality({h}) = 1
      /\ Cardinality(Counted) \in Nat /\ Bytes[Counted] \in Nat
  BY <1>1, SizeAdd, SizeType, Zenon
<1>5. /\ totalLen' = totalLen + 1 /\ totalBytes' = totalBytes + y
      /\ bandLen' = [bandLen EXCEPT ![own] = bandLen[own] + 1]
      /\ bandBytes' = [bandBytes EXCEPT ![own] = bandBytes[own] + y]
  BY <1>4, Zenon DEF charge
<1>6. CountedIn(own)' = CountedIn(own) \union {h} /\ h \notin CountedIn(own)
  BY Zenon DEF CountedIn
<1>7. \A b \in Bands : CountedIn(b) \in SUBSET Items
  BY <1>1, Zenon DEF CountedIn
<1>8. /\ Cardinality(CountedIn(own)') = Cardinality(CountedIn(own)) + 1
      /\ Bytes[CountedIn(own)'] = Bytes[CountedIn(own)] + y
      /\ Cardinality(CountedIn(own)) \in Nat /\ Bytes[CountedIn(own)] \in Nat
  BY <1>1, <1>6, <1>7, SizeAdd, SizeType
<1>9. \A b \in Bands : b # own => CountedIn(b)' = CountedIn(b)
  BY Zenon DEF CountedIn
<1>10. /\ totalLen >= Cardinality(Counted) /\ totalBytes >= Bytes[Counted]
       /\ \A b \in Bands : /\ bandLen[b] >= Cardinality(CountedIn(b))
                           /\ bandBytes[b] >= Bytes[CountedIn(b)]
  BY Zenon DEF Covers
<1>11. /\ fits(totalBytes, y, CapBytes) /\ fits(totalLen, 1, CapRequests)
       /\ fits(bandBytes[own], y, BandCapBytes[own]) /\ fits(bandLen[own], 1, BandCapRequests[own])
  BY Zenon DEF hasCapacity
<1> HIDE DEF y, own
<1>12. StatTypeOK'
  BY <1>1, <1>2, <1>3, <1>5, SMTT(30) DEF StatTypeOK
<1>13. Covers'
  <2>1. (totalLen >= Cardinality(Counted) /\ totalBytes >= Bytes[Counted])'
    BY <1>2, <1>3, <1>4, <1>5, <1>10, SMTT(30)
  <2>2. /\ bandLen'[own] >= Cardinality(CountedIn(own)')
        /\ bandBytes'[own] >= Bytes[CountedIn(own)']
    BY <1>1, <1>2, <1>3, <1>5, <1>8, <1>10, SMTT(30)
  <2>3. ASSUME NEW b \in Bands
        PROVE  (bandLen[b] >= Cardinality(CountedIn(b)) /\ bandBytes[b] >= Bytes[CountedIn(b)])'
    <3>1. CASE b = own
      BY <2>2, <3>1, Zenon
    <3>2. CASE b # own
      <4>1. bandLen'[b] = bandLen[b] /\ bandBytes'[b] = bandBytes[b]
        BY <1>2, <1>5, <3>2, Zenon
      <4> QED BY <1>9, <1>10, <3>2, <4>1, Zenon
    <3> QED BY <3>1, <3>2, Zenon
  <2> QED BY <2>1, <2>3, Zenon DEF Covers
<1>14. Limits'
  <2>1. (fits(totalBytes, 0, CapBytes) /\ fits(totalLen, 0, CapRequests))'
    BY <1>1, <1>2, <1>3, <1>5, <1>11, SMTT(30) DEF fits
  <2>2. /\ fits(bandBytes'[own], 0, BandCapBytes[own])
        /\ fits(bandLen'[own], 0, BandCapRequests[own])
    BY <1>1, <1>2, <1>3, <1>5, <1>11, SMTT(30) DEF fits
  <2>3. ASSUME NEW b \in Bands
        PROVE  fits(bandBytes'[b], 0, BandCapBytes[b]) /\ fits(bandLen'[b], 0, BandCapRequests[b])
    BY <1>2, <1>5, <2>2, Zenon DEF Limits
  <2> QED BY <2>1, <2>3, Zenon DEF Limits
<1>15. ASSUME StatsExact PROVE StatsExact'
  <2>1. (totalLen = Cardinality(Counted) /\ totalBytes = Bytes[Counted])'
    BY <1>4, <1>5, <1>15, Zenon DEF StatsExact
  <2>2. ASSUME NEW b \in Bands
        PROVE  (bandLen[b] = Cardinality(CountedIn(b)) /\ bandBytes[b] = Bytes[CountedIn(b)])'
    BY <1>1, <1>2, <1>5, <1>8, <1>9, <1>15, Zenon DEF StatsExact
  <2> QED BY <2>1, <2>2, Zenon DEF StatsExact
<1> QED BY <1>12, <1>13, <1>14, <1>15, Zenon

\* What fits still fits when less is used.
LEMMA FitsLess ==
  ASSUME NEW u \in Nat, NEW v \in Nat, v <= u, NEW s \in Nat, NEW c \in Nat, fits(u, s, c)
  PROVE  fits(v, s, c)
BY SMTT(30) DEF fits

\* A step keeps the statistics natural numbers, above what they count, within
\* the limits, and exact where no flow is ever collected.
LEMMA StatsStep ==
  ASSUME TypeOK, ItemInv, StatsInv, Next
  PROVE  StatTypeOK' /\ StatsInv'
<1>1. /\ StatTypeOK /\ Covers /\ Limits /\ ("gc" \notin Events => StatsExact)
      /\ CapRequests \in Nat /\ CapBytes \in Nat
      /\ BandCapRequests \in [Bands -> Nat] /\ BandCapBytes \in [Bands -> Nat]
  BY ConstantsAssumption, Zenon DEF TypeOK, StatsInv
<1> DEFINE Less == /\ totalLen' <= totalLen /\ totalBytes' <= totalBytes
                   /\ \A b \in Bands : bandLen'[b] <= bandLen[b] /\ bandBytes'[b] <= bandBytes[b]
<1> DEFINE Numbers == StatTypeOK' /\ Covers' /\ Limits' /\ ("gc" \notin Events => StatsExact')
<1>2. ASSUME Less, StatTypeOK' PROVE Limits'
  <2>1. (fits(totalBytes, 0, CapBytes) /\ fits(totalLen, 0, CapRequests))'
    <3>1. /\ totalBytes \in Nat /\ totalBytes' \in Nat /\ totalBytes' <= totalBytes
          /\ totalLen \in Nat /\ totalLen' \in Nat /\ totalLen' <= totalLen
      BY <1>1, <1>2, Zenon DEF StatTypeOK
    <3>2. fits(totalBytes, 0, CapBytes) /\ fits(totalLen, 0, CapRequests)
      BY <1>1, Zenon DEF Limits
    <3>3. fits(totalBytes', 0, CapBytes) /\ fits(totalLen', 0, CapRequests)
      BY <1>1, <3>1, <3>2, FitsLess, SMTT(30)
    <3> QED BY <3>3 DEF fits
  <2>2. ASSUME NEW b \in Bands
        PROVE  fits(bandBytes'[b], 0, BandCapBytes[b]) /\ fits(bandLen'[b], 0, BandCapRequests[b])
    <3>1. /\ bandBytes[b] \in Nat /\ bandBytes'[b] \in Nat /\ bandBytes'[b] <= bandBytes[b]
          /\ bandLen[b] \in Nat /\ bandLen'[b] \in Nat /\ bandLen'[b] <= bandLen[b]
          /\ BandCapBytes[b] \in Nat /\ BandCapRequests[b] \in Nat
      BY <1>1, <1>2, Zenon DEF StatTypeOK
    <3>2. fits(bandBytes[b], 0, BandCapBytes[b]) /\ fits(bandLen[b], 0, BandCapRequests[b])
      BY <1>1, Zenon DEF Limits
    <3> QED BY <3>1, <3>2, FitsLess, Zenon
  <2> QED BY <2>1, <2>2, Zenon DEF Limits
<1>3. ASSUME UNCHANGED statVars PROVE Less /\ StatTypeOK'
  BY <1>1, <1>3, SMTT(30) DEF statVars, StatTypeOK
<1>4. /\ Numbers
      /\ Less \/ Add
  <2>1. CASE UNCHANGED statVars /\ Counted' = Counted
    <3>1. StatsExact => StatsExact'
      BY <2>1, Zenon DEF statVars, StatsExact, CountedIn
    <3> QED BY <1>1, <1>2, <1>3, <2>1, <3>1, CoversLess, Zenon
  <2>2. CASE "gc" \in Events /\ UNCHANGED statVars /\ Counted' \subseteq Counted
    BY <1>1, <1>2, <1>3, <2>2, CoversLess, ZenonT(30)
  <2>3. ASSUME NEW f \in Flows, NEW S \in SUBSET Counted, \A i \in S : FlowOf[i] = f,
               discharge(f, S), Counted' = Counted \ S
        PROVE  Numbers /\ Less
    <3>1. StatTypeOK' /\ Covers' /\ (StatsExact => StatsExact') /\ Less
      BY <1>1, <2>3, Discharge, Zenon
    <3> QED BY <1>1, <1>2, <3>1, ZenonT(30)
  <2>4. CASE /\ Add /\ hand \in Items \ Counted /\ charge(FlowOf[hand], {hand})
             /\ Counted' = Counted \union {hand}
    <3>1. hasCapacity(BandOf[FlowOf[hand]], Bytes[{hand}])
      BY <2>4, Zenon DEF StatsInv, Add
    <3>2. Numbers
      BY <1>1, <2>4, <3>1, Charge, Zenon
    <3> QED BY <2>4, <3>2, Zenon
  <2> QED BY <2>1, <2>2, <2>3, <2>4, Accounting, Zenon
<1>5. ASSUME run' = "add" PROVE hasCapacity(BandOf[FlowOf[hand]], Bytes[{hand}])'
  <2>1. UNCHANGED hand
    BY <1>5, Frames, ZenonT(30) DEF Run, Receive, enqueueAdmit, enqueueReject, Add, Cycle, StartCycle, EndCycle,
         selectQueue, selectNothing, PeekHead, SkipBand, dispatchRemove, LeaveCycle,
         dispatchFinalize, ShutdownStart, ShutdownDrain, ShutdownEnd, evictAll
  <2>2. run = "add" \/ enqueueAdmit
    BY <1>5, Frames, Zenon DEF Run, Receive, Cycle, StartCycle, EndCycle,
         selectQueue, selectNothing, PeekHead, SkipBand, dispatchRemove, LeaveCycle, Add, enqueueReject,
         dispatchFinalize, ShutdownStart, ShutdownDrain, ShutdownEnd, evictAll
  <2>3. hasCapacity(BandOf[FlowOf[hand]], Bytes[{hand}])
    BY <1>5, <2>2, Zenon DEF StatsInv, enqueueAdmit, enqueueReject
  <2>4. hand \in Items
    BY <2>2, Zenon DEF ItemInv, HandInv, Enqueuing, enqueueAdmit
  <2>5. Less
    BY <1>4, <1>5, Zenon DEF Add, enqueueReject
  <2> DEFINE b == BandOf[FlowOf[hand]]
             y == Bytes[{hand}]
  <2>6. b \in Bands /\ y \in Nat
    BY <2>4, ConstantsAssumption, SizeType, Zenon
  <2>7. /\ bandBytes[b] \in Nat /\ bandBytes'[b] \in Nat /\ bandBytes'[b] <= bandBytes[b]
        /\ bandLen[b] \in Nat /\ bandLen'[b] \in Nat /\ bandLen'[b] <= bandLen[b]
        /\ totalBytes \in Nat /\ totalBytes' \in Nat /\ totalBytes' <= totalBytes
        /\ totalLen \in Nat /\ totalLen' \in Nat /\ totalLen' <= totalLen
        /\ BandCapBytes[b] \in Nat /\ BandCapRequests[b] \in Nat
    BY <1>1, <1>4, <2>5, <2>6, Zenon DEF StatTypeOK
  <2>8. /\ fits(totalBytes', y, CapBytes) /\ fits(totalLen', 1, CapRequests)
        /\ fits(bandBytes'[b], y, BandCapBytes[b]) /\ fits(bandLen'[b], 1, BandCapRequests[b])
    <3>1. /\ fits(totalBytes, y, CapBytes) /\ fits(totalLen, 1, CapRequests)
          /\ fits(bandBytes[b], y, BandCapBytes[b]) /\ fits(bandLen[b], 1, BandCapRequests[b])
      BY <2>3, Zenon DEF hasCapacity
    <3> HIDE DEF b, y
    <3> QED BY <1>1, <2>6, <2>7, <3>1, FitsLess, Zenon
  <2> QED BY <2>1, <2>8, Zenon DEF hasCapacity
<1>6. ASSUME NEW f \in sweeping' PROVE releasing'[f] = {}
  <2>1. /\ releasing \in [Flows -> SUBSET Items] /\ sweeping \subseteq Flows /\ flows \subseteq Flows
        /\ \A g \in sweeping : releasing[g] = {}
    BY Zenon DEF TypeOK, QueueTypeOK, LifeTypeOK, StatsInv, Unlocked
  <2>2. CASE Sweep
    BY Zenon, <1>6, <2>1, <2>2 DEF Sweep, SweepTick, SweepStop, SweepIdle, Unlocked, sweepFinalizedItems,
                            sweepRelease, queueVars, sweepVars
  <2>3. CASE ~Sweep
    <3>1. UNCHANGED releasing
      BY <2>3, Frames, Zenon DEF Sweep
    <3>2. UNCHANGED sweeping
      BY <2>3, Zenon DEF Next, Request, SubmitCheck, Submit, SubmitOrBlockCheck, SubmitOrBlock,
           awaitFinalization, requestFrame, Run, Receive, enqueueAdmit, Add, Cycle, StartCycle,
           EndCycle, selectQueue, selectNothing, PeekHead, dispatchRemove, dispatchFinalize,
           ShutdownStart, ShutdownDrain, ShutdownEnd, evictAll, runFrame, cycleFrame, Environment,
           Connect, Expire, Cancel, EndContext, deleteFlow, markAsDraining, CancelWorker,
           registryFrame, Terminated, vars, sweepVars
    <3> QED BY <1>6, <2>1, <3>1, <3>2, Zenon
  <2> QED BY <2>2, <2>3, Zenon
<1> QED BY <1>4, <1>5, <1>6, Zenon DEF StatsInv, Unlocked

-----------------------------------------------------------------------------
(* The theorems.                                                           *)

\* The invariant holds when the processor starts.
LEMMA InitInv ==
  ASSUME Init
  PROVE  IInv
<1> USE DEF Init, ItemInit
<1>1. RequestTypeOK /\ ItemTypeOK
  BY Zenon DEF RequestTypeOK, ItemTypeOK
<1>2. QueueTypeOK /\ LifeTypeOK
  <2>1. <<>> \in Seq(Items) /\ Len(<<>>) = 0 /\ BufferSize \in Nat
    BY ConstantsAssumption
  <2>2. QueueTypeOK
    BY <2>1 DEF QueueTypeOK
  <2> QED BY <2>2, Zenon DEF LifeTypeOK
<1>3. StatTypeOK /\ RunTypeOK
  BY ConstantsAssumption DEF StatTypeOK, RunTypeOK
<1>4. RequestInv /\ OutcomeInv /\ PlaceInv
  BY Zenon DEF RequestInv, OutcomeInv, PlaceInv, HandedOff, Waiting, Finalized, Evictions, NotYetFinalized
<1>5. ChanInv /\ QueueInv
  BY DEF ChanInv, QueueInv
<1>6. HandInv /\ PriorityInv
  BY Zenon DEF HandInv, Enqueuing, Dispatching, PriorityInv
<1>7. Counted = {} /\ \A b \in Bands : CountedIn(b) = {}
  BY CountedIs, ConstantsAssumption, Zenon DEF CountedIn
<1>8. Cardinality({}) = 0 /\ Bytes[{}] = 0
  BY SizeEmpty, Zenon
<1>9. Covers /\ StatsExact
  <2>1. totalLen = Cardinality(Counted) /\ totalBytes = Bytes[Counted]
    BY <1>7, <1>8, Zenon
  <2>2. \A b \in Bands : bandLen[b] = Cardinality(CountedIn(b)) /\ bandBytes[b] = Bytes[CountedIn(b)]
    BY <1>7, <1>8, Zenon
  <2>3. \A b \in Bands : bandLen[b] \in Nat /\ bandBytes[b] \in Nat
    BY Zenon
  <2>4. Covers
    BY <2>1, <2>2, <2>3 DEF Covers
  <2> QED BY <2>1, <2>2, <2>4, Zenon DEF StatsExact
<1>10. Limits
  BY ConstantsAssumption DEF Limits, fits
<1>11. StatsInv
  BY <1>9, <1>10, Zenon DEF StatsInv
<1> QED BY <1>1, <1>2, <1>3, <1>4, <1>5, <1>6, <1>11, Zenon DEF IInv, TypeOK, ItemInv

\* It holds when nothing changes.
LEMMA StutterInv ==
  ASSUME IInv, UNCHANGED vars
  PROVE  IInv'
<1> USE DEF vars, requestVars, itemVars, queueVars, statVars, cycleVars, lifeVars, sweepVars
<1>1. TypeOK'
  BY SMTT(30) DEF IInv, TypeOK, RequestTypeOK, ItemTypeOK, QueueTypeOK, StatTypeOK, RunTypeOK, LifeTypeOK
<1>2. RequestInv' /\ ChanInv' /\ OutcomeInv'
  BY Zenon DEF IInv, ItemInv, RequestInv, ChanInv, OutcomeInv, HandedOff, Waiting, Finalized
<1>3. QueueInv' /\ PlaceInv'
  <2>1. QueueInv'
    BY ZenonT(30) DEF IInv, ItemInv, QueueInv, Finalized, Queued
  <2>2. PlaceInv'
    BY ZenonT(30) DEF IInv, ItemInv, PlaceInv, Finalized, Buffered, Queued, Enqueuing
  <2> QED BY <2>1, <2>2, Zenon
<1>4. HandInv' /\ PriorityInv'
  <2>1. HandInv'
    BY ZenonT(30) DEF IInv, ItemInv, HandInv, Enqueuing, Dispatching, Buffered, HandedOff
  <2>2. PriorityInv'
    BY ZenonT(30) DEF IInv, PriorityInv
  <2> QED BY <2>1, <2>2, Zenon
<1>5. Counted' = Counted /\ \A b \in Bands : CountedIn(b)' = CountedIn(b)
  BY ZenonT(30) DEF Counted, CountedIn, InShard, Queued
<1>6. StatsInv'
  BY <1>5, Zenon DEF IInv, StatsInv, Covers, Limits, StatsExact, hasCapacity, Unlocked
<1> QED BY <1>1, <1>2, <1>3, <1>4, <1>6, Zenon DEF IInv, ItemInv

\* The invariant holds in every state: it is what makes the properties below
\* hold, and none of them is inductive without it.
THEOREM Inductive == Spec => []IInv
<1>1. Init => IInv
  BY InitInv, Zenon
<1>2. ASSUME IInv, Next PROVE IInv'
  <2>1. TypeOK'
    BY <1>2, ItemTypeStep, RequestTypeStep, QueueTypeStep, RunTypeStep, StatsStep, Zenon
       DEF IInv, ItemInv, TypeOK
  <2> QED BY <1>2, <2>1, ItemStep, PriorityStep, StatsStep, Zenon DEF IInv
<1>3. IInv /\ [Next]_vars => IInv'
  BY <1>2, StutterInv, Zenon
<1> QED BY <1>1, <1>3, PTL DEF Spec

\* The state keeps its type: no channel overflow, no negative statistic, for
\* any number of requests, flows and bands.
THEOREM TypeCorrect == Spec => []TypeOK
BY Inductive, PTL DEF IInv

\* EnqueueAndWait returns the one outcome its item ever gets.
THEOREM OutcomeReturned == Spec => []ReturnsTheOutcome
<1>1. IInv => ReturnsTheOutcome
  BY ZenonT(30) DEF IInv, ItemInv, RequestInv, ReturnsTheOutcome
<1> QED BY <1>1, Inductive, PTL

\* No step of enqueue, dispatch, sweep, garbage collection or shutdown loses a
\* request that is still waiting.
THEOREM NothingLost == Spec => []NoLostItem
<1>1. IInv => NoLostItem
  <2> SUFFICES ASSUME IInv, NEW i \in Items, pc[i] = "await", ~Finalized(i)
               PROVE  Buffered(i) \/ hand = i \/ (FlowOf[i] \in flows /\ Queued(i))
    BY Zenon DEF NoLostItem
  <2>1. FlowOf[i] \in flows
    BY Zenon DEF IInv, ItemInv, RequestInv, Waiting
  <2> QED BY <2>1, Zenon DEF IInv, ItemInv, PlaceInv
<1> QED BY <1>1, Inductive, PTL

\* A dispatched item has been in a queue and has left it for good.
THEOREM DispatchedOnce == Spec => []DispatchedHasLeft
<1>1. IInv => DispatchedHasLeft
  <2> SUFFICES ASSUME IInv, NEW i \in Items, final[i] = "Dispatched"
               PROVE  /\ handle[i] /\ ~Buffered(i)
                      /\ \A f \in Flows : i \notin queue[f] /\ i \notin releasing[f]
    BY Zenon DEF DispatchedHasLeft
  <2>1. handle[i]
    BY Zenon DEF IInv, ItemInv, OutcomeInv
  <2>2. ~Buffered(i)
    BY DEF IInv, ItemInv, ChanInv, TypeOK, QueueTypeOK, Buffered, NotYetFinalized
  <2>3. \A f \in Flows : i \notin queue[f] /\ i \notin releasing[f]
    BY Zenon DEF IInv, ItemInv, QueueInv
  <2> QED BY <2>1, <2>2, <2>3, Zenon
<1> QED BY <1>1, Inductive, PTL

\* Evictions are for items a queue had taken in, capacity rejections for items
\* none takes in.
THEOREM OutcomeKind == Spec => []OutcomeMatchesAdmission
<1>1. IInv => OutcomeMatchesAdmission
  BY Zenon DEF IInv, ItemInv, OutcomeInv, OutcomeMatchesAdmission
<1> QED BY <1>1, Inductive, PTL

\* The queues never hold more than the limits, whatever the sweep and the
\* garbage collector do between hasCapacity and Add.
THEOREM CapacityKept == Spec => []WithinCapacity
<1>1. ASSUME IInv PROVE WithinCapacity
  <2>1. /\ StatTypeOK /\ Covers /\ Limits
        /\ CapRequests \in Nat /\ CapBytes \in Nat
        /\ BandCapRequests \in [Bands -> Nat] /\ BandCapBytes \in [Bands -> Nat]
    BY <1>1, ConstantsAssumption, Zenon DEF IInv, TypeOK, StatsInv
  <2>2. /\ Counted \in SUBSET Items /\ InShard \in SUBSET Counted
        /\ \A b \in Bands : CountedIn(b) \in SUBSET Items /\ InBand(b) \in SUBSET CountedIn(b)
    BY CountedIs, Zenon DEF Counted, CountedIn, InShard, InBand
  <2>3. ASSUME NEW S \in SUBSET Items, NEW T \in SUBSET S, NEW len \in Nat, NEW bytes \in Nat,
               len >= Cardinality(S), bytes >= Bytes[S], NEW cl \in Nat, NEW cb \in Nat,
               fits(len, 0, cl), fits(bytes, 0, cb)
        PROVE  fits(Cardinality(T), 0, cl) /\ fits(Bytes[T], 0, cb)
    <3>1. /\ Cardinality(T) \in Nat /\ Bytes[T] \in Nat /\ Cardinality(S) \in Nat /\ Bytes[S] \in Nat
          /\ Cardinality(T) <= Cardinality(S) /\ Bytes[T] <= Bytes[S]
      BY SizeType, SizeSubset, Zenon
    <3>2. Cardinality(T) <= len /\ Bytes[T] <= bytes
      BY <2>3, <3>1, SMTT(30)
    <3> QED BY <2>3, <3>1, <3>2, FitsLess, Zenon
  <2>4. fits(Cardinality(InShard), 0, CapRequests) /\ fits(Bytes[InShard], 0, CapBytes)
    BY <2>1, <2>2, <2>3, Zenon DEF Covers, Limits, StatTypeOK
  <2>5. ASSUME NEW b \in Bands
        PROVE  /\ fits(Cardinality(InBand(b)), 0, BandCapRequests[b])
               /\ fits(Bytes[InBand(b)], 0, BandCapBytes[b])
    BY <2>1, <2>2, <2>3, Zenon DEF Covers, Limits, StatTypeOK
  <2> QED BY <2>4, <2>5, Zenon DEF WithinCapacity
<1> QED BY <1>1, Inductive, PTL

\* A cycle dispatches from a band only when it found every higher one empty, or
\* lost what it had picked there.
THEOREM PriorityKept == Spec => []StrictPriority
<1>1. IInv => StrictPriority
  BY Zenon DEF IInv, PriorityInv, StrictPriority
<1> QED BY <1>1, Inductive, PTL

\* As long as no flow is garbage collected, the statistics are exact.
THEOREM StatsExactWithoutGC ==
  ASSUME "gc" \notin Events
  PROVE  Spec => []StatsExact
<1>1. IInv => StatsExact
  BY Zenon DEF IInv, StatsInv
<1> QED BY <1>1, Inductive, PTL

\* Every item lives the life RequestLifecycle describes: each step of the
\* goroutines is, for each item, one of its transitions or none.
THEOREM Refinement == Spec => ImplementsLifecycle
<1>1. Init => Lifecycle!Init
  BY DEF Init, ItemInit, Lifecycle!Init, Status, Finalized, NotYetFinalized
<1>2. ASSUME IInv, Next PROVE Lifecycle!Next
  <2>1. SUFFICES ASSUME NEW i \in Items
                 PROVE  /\ \/ Status(i) = "pending" /\ Status(i)' = "queued"
                           \/ Status(i) = "pending" /\ Status(i)' \in Lifecycle!Rejected
                           \/ Status(i) = "queued" /\ Status(i)' \in Lifecycle!Left
                           \/ Status(i)' = Status(i)
                        /\ \/ /\ result[i] = "NotYetFinalized"
                              /\ Status(i)' \in Lifecycle!Rejected \union Lifecycle!Left
                              /\ result'[i] = Status(i)'
                           \/ result'[i] = result[i]
    BY Zenon DEF Lifecycle!Next, Lifecycle!Step, Lifecycle!Admit, Lifecycle!Reject,
           Lifecycle!Conclude, Lifecycle!Answer
  <2>2. OutcomeStep(i) /\ HandleStep(i)
    BY <1>2, Effects, Zenon DEF IInv, ItemInv
  <2>3. /\ run \in {"admit", "add"} /\ hand = i => ~handle[i]
        /\ run = "dispatch" /\ hand = i => handle[i]
    BY <1>2, Zenon DEF IInv, ItemInv, HandInv, Enqueuing, Dispatching
  <2>4. /\ handle[i] \in BOOLEAN /\ handle'[i] \in BOOLEAN
        /\ final[i] \in Outcomes \union {NotYetFinalized}
        /\ final'[i] \in Outcomes \union {NotYetFinalized}
    BY <1>2, ItemTypeStep, Zenon DEF IInv, TypeOK, ItemTypeOK
  <2>5. /\ Status(i) = IF final[i] # NotYetFinalized THEN final[i]
                       ELSE IF handle[i] THEN "queued" ELSE "pending"
        /\ Status(i)' = IF final'[i] # NotYetFinalized THEN final'[i]
                        ELSE IF handle'[i] THEN "queued" ELSE "pending"
    BY Zenon DEF Status, Finalized
  <2>6. \/ Status(i) = "pending" /\ Status(i)' = "queued"
        \/ Status(i) = "pending" /\ Status(i)' \in Lifecycle!Rejected
        \/ Status(i) = "queued" /\ Status(i)' \in Lifecycle!Left
        \/ Status(i)' = Status(i)
    <3>1. CASE final'[i] = final[i] /\ handle'[i] = handle[i]
      BY <2>5, <3>1, Zenon
    <3>2. CASE final'[i] = final[i] /\ handle'[i] # handle[i]
      BY <2>2, <2>3, <2>4, <2>5, <3>2, Zenon DEF HandleStep
    <3>3. CASE final'[i] # final[i]
      <4>1. handle'[i] = handle[i] /\ final[i] = NotYetFinalized
        BY <2>2, <3>3, Zenon DEF HandleStep, OutcomeStep, Finalized
      <4> QED BY <2>2, <2>3, <2>4, <2>5, <3>3, <4>1, ZenonT(30)
              DEF OutcomeStep, Lifecycle!Rejected, Lifecycle!Left, Evictions
    <3> QED BY <3>1, <3>2, <3>3, Zenon
  <2>7. \/ /\ result[i] = "NotYetFinalized"
           /\ Status(i)' \in Lifecycle!Rejected \union Lifecycle!Left
           /\ result'[i] = Status(i)'
        \/ result'[i] = result[i]
    <3>1. CASE Waiting(i) /\ result'[i] = final'[i] /\ final'[i] # NotYetFinalized
      <4>1. result[i] = "NotYetFinalized"
        BY <1>2, <3>1, Zenon DEF IInv, ItemInv, RequestInv, Waiting, NotYetFinalized
      <4> QED BY <2>4, <2>5, <3>1, <4>1, Zenon
              DEF Lifecycle!Rejected, Lifecycle!Left, Outcomes, Rejections, Evictions
    <3> QED BY <1>2, <3>1, Moves, Zenon DEF IInv
  <2> QED BY <2>6, <2>7, Zenon
<1>3. UNCHANGED vars => UNCHANGED <<[i \in Items |-> Status(i)], result>>
  BY Zenon DEF vars, requestVars, itemVars, Status, Finalized
<1>4. IInv /\ [Next]_vars => [Lifecycle!Next]_<<[i \in Items |-> Status(i)], result>>
  BY <1>2, <1>3, Zenon
<1> QED BY <1>1, <1>4, Inductive, PTL DEF Spec, ImplementsLifecycle, Lifecycle!Spec
=============================================================================
