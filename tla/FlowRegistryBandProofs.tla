----------------------- MODULE FlowRegistryBandProofs -----------------------
(***************************************************************************)
(* The leases of the priority bands: as long as no goroutine stalls and no *)
(* provisioning fails, a band is leased once for every flow in the map,    *)
(* however calls and collections interleave.                               *)
(***************************************************************************)
EXTENDS FlowRegistryProofs

-----------------------------------------------------------------------------
(* The inductive invariant.                                                *)

\* No provisioning has failed.
NoFailure == \A f \in Flows : ~ProvisioningFailed(f)

\* The call has put a flow into the map and has yet to pin its band, up to the
\* check that the pinned band is in the map; the flow's object.
Making(c) ==
  \/ cl[c].pc \in {"pin", "recheck"} /\ ~cl[c].forBand /\ cl[c].candNew
  \/ cl[c].pc \in Pinning /\ cl[c].forBand
Created(c) == IF cl[c].forBand THEN cl[c].state ELSE cl[c].cand

\* It has not pinned the band.
AwaitsBand(c) == Making(c) /\ ~(cl[c].forBand /\ cl[c].pc = "recheck")
Awaited(f) == \E c \in Clients : AwaitsBand(c) /\ cl[c].flow = f

\* It has not pinned the flow.
FlowUnpinned(c) == cl[c].pc = "pin" /\ ~cl[c].forBand /\ cl[c].candNew

\* The flows of a priority whose band lease is taken, and those the collector
\* has removed and whose band lease it is about to give back.
Leased(p) == {f \in Flows : PrioOf[f] = p /\ map[f] # 0 /\ ~Awaited(f)}
OwedFlows ==
  IF gc.phase # "flows" THEN {}
  ELSE IF gc.pc \in {"range", "check", "delete"} THEN gc.dead
  ELSE IF gc.pc = "unpin" THEN gc.todo ELSE {}
Owed(p) == {f \in OwedFlows : PrioOf[f] = p}

CallsSucceed == \A c \in Clients : cl[c].pc \notin {"fail", "failBand", "release"}
CreatedApart ==
  \A c, d \in Clients : Making(c) /\ Making(d) /\ Created(c) = Created(d) => c = d
Fresh ==
  \A c \in Clients : FlowUnpinned(c) =>
    /\ ~obj[cl[c].cand].markedForDeletion /\ obj[cl[c].cand].becameIdleAt \in {0, now}
    /\ \A d \in Clients : cl[d].state = cl[c].cand => Making(d) \/ cl[d].opened = now
MarkedIdle == \A o \in 1..used : obj[o].markedForDeletion => obj[o].leaseCount <= 0
Mapped ==
  /\ \A o \in 1..used : obj[o].key \in Keys /\ (map[obj[o].key] = o \/ obj[o].markedForDeletion)
  /\ gc.pc \in {"check", "delete"} => map[gc.key] = gc.cand
BandPinned ==
  \A c \in Clients : cl[c].pc = "recheck" /\ cl[c].forBand => ~obj[cl[c].cand].markedForDeletion
Ranging ==
  /\ gc.pc # "idle" => gc.at = now
  /\ IsFiniteSet(gc.dead)
  /\ gc.pc \in {"range", "check", "delete", "unpin"} /\ gc.phase = "flows" =>
       gc.dead \subseteq Flows /\ gc.todo \subseteq Flows
  /\ gc.pc \in {"range", "check", "delete"} => gc.dead \intersect gc.todo = {}
  /\ gc.pc \in {"check", "delete"} =>
       gc.key \notin gc.dead \union gc.todo /\ (gc.key \in Flows <=> gc.phase = "flows")
  /\ gc.pc \in {"range", "check", "delete"} /\ gc.phase = "bands" => gc.todo \subseteq Prios
  /\ gc.pc = "unpin" => gc.phase = "flows" /\ gc.todo \subseteq gc.dead
Counted ==
  \A p \in Prios :
    Cardinality(Leased(p)) + Cardinality(Owed(p)) =
      IF map[p] = 0 THEN 0 ELSE obj[map[p]].leaseCount
BandLeases ==
  NoFailure =>
    /\ CallsSucceed /\ CreatedApart /\ Fresh /\ MarkedIdle /\ Mapped /\ BandPinned /\ Ranging
    /\ Counted

-----------------------------------------------------------------------------
(* Lemmas.                                                                 *)

\* The flows in the map, and those of them that are leased, are finitely many.
LEMMA MappedFinite ==
  ASSUME LeaseInv
  PROVE  \A p \in Prios : IsFiniteSet(Leased(p))
<1> DEFINE T == {f \in Flows : map[f] # 0}
           S == {o \in Objs : \E f \in T : map[f] = o}
           g == [o \in S |-> obj[o].key]
<1>1. \A f \in T : map[f] \in Objs /\ obj[map[f]].key = f
  BY CallFacts DEF LeaseInv, ObjInv, Keys, Objs
<1>2. IsFiniteSet(S)
  <2>1. IsFiniteSet(Objs)
    BY FS_Interval, RegistryAssumption DEF Objs
  <2> QED BY <2>1, FS_Subset, Zenon
<1>3. g \in Surjection(S, T)
  <2>1. \A o \in S : obj[o].key \in T
    BY <1>1, Zenon
  <2>2. \A f \in T : map[f] \in S /\ g[map[f]] = f
    BY <1>1, Zenon
  <2> QED BY <2>1, <2>2, Zenon DEF Surjection
<1> HIDE DEF S, g
<1>4. IsFiniteSet(T)
  BY <1>2, <1>3, FS_Surjection, Zenon
<1> QED BY <1>4, FS_Subset DEF Leased

\* A failed provisioning is not forgotten.
LEMMA FailureRemains ==
  ASSUME LeaseInv, KeepsObjects, NoFailure'
  PROVE  NoFailure
<1> SUFFICES ASSUME NEW f \in Flows, ProvisioningFailed(f) PROVE FALSE
  BY Zenon DEF NoFailure
<1>1. FailedLater(f)
  BY FailureStays, Zenon DEF Keys
<1> QED BY <1>1, Zenon DEF NoFailure, ProvisioningFailed, FailedLater

\* The flow that a call has put into the map is still there.
LEMMA CreatedMapped ==
  ASSUME LeaseInv, NoFailure, BandLeases, NEW c \in Clients, Making(c)
  PROVE  /\ cl[c].flow \in Flows /\ Created(c) \in 1..used /\ obj[Created(c)].key = cl[c].flow
         /\ map[cl[c].flow] = Created(c) /\ ~obj[Created(c)].markedForDeletion
<1>1. /\ cl[c].flow \in Flows /\ Created(c) \in 1..used /\ obj[Created(c)].key = cl[c].flow
  BY CallFacts, Zenon DEF Making, Created, CallOK, Pinning, Target
<1>2. Created(c) \in Objs /\ IsFlow(Created(c))
  BY <1>1, CallFacts, Zenon DEF IsFlow
<1>3. ~obj[Created(c)].markedForDeletion
  <2>1. CASE FlowUnpinned(c)
    BY <2>1, Zenon DEF BandLeases, Fresh, FlowUnpinned, Created
  <2>2. CASE ~FlowUnpinned(c)
    <3>1. Holds(c, Created(c))
      BY <2>2, Zenon DEF Holds, Created, Making, FlowUnpinned
    <3> QED BY <1>2, <3>1, Zenon DEF LeaseInv, HeldInv
  <2> QED BY <2>1, <2>2, Zenon
<1>4. map[cl[c].flow] = Created(c)
  BY <1>1, <1>3, Zenon DEF BandLeases, Mapped
<1> QED BY <1>1, <1>3, <1>4, Zenon

\* A call that works on the flow it has put into the map is the only one that does.
LEMMA OneMaker ==
  ASSUME LeaseInv, NoFailure, BandLeases, NEW c \in Clients, NEW d \in Clients,
         Making(c), Making(d), cl[c].flow = cl[d].flow
  PROVE  c = d
<1>1. map[cl[c].flow] = Created(c) /\ map[cl[d].flow] = Created(d)
  BY CreatedMapped, Zenon
<1> QED BY <1>1, Zenon DEF BandLeases, CreatedApart

-----------------------------------------------------------------------------
(* The steps of a call.                                                    *)

\* The step in which a call takes the lease on the band.
Takes(c) == AwaitsBand(c) /\ ~AwaitsBand(c)'

\* What a step of the call c does to the map and to the objects.
MapMoves(c) ==
  /\ used' \in {used, used + 1}
  /\ used' = used + 1 =>
       \E k \in Keys : map[k] = 0 /\ map'[k] = used' /\ obj'[used'] = NewState(k)
  /\ \A k \in Keys :
       \/ map'[k] = map[k]
       \/ /\ map[k] = 0 /\ map'[k] = used' /\ used' = used + 1
          /\ k \in Flows => AwaitsBand(c)' /\ cl'[c].flow = k
  /\ \A o \in 1..used :
       /\ obj'[o].leaseCount <= obj[o].leaseCount \/ ~obj[o].markedForDeletion
       /\ IsFlow(o) =>
            \/ obj'[o].becameIdleAt \in {obj[o].becameIdleAt, 0, now}
            \/ cl[c].state = o /\ ~Making(c) /\ obj'[o].becameIdleAt = cl[c].opened
       /\ ~IsFlow(o) =>
            obj'[o].leaseCount =
              IF Takes(c) /\ o = map[PrioFor(c)] THEN obj[o].leaseCount + 1 ELSE obj[o].leaseCount

\* What it does to the call.
MakerMoves(c) ==
  /\ cl'[c].pc \notin {"fail", "failBand", "release"}
  /\ Making(c)' => \/ Making(c) /\ Created(c)' = Created(c)
                   \/ Created(c)' = used' /\ used' = used + 1
  /\ FlowUnpinned(c)' => cl'[c].cand = used' /\ used' = used + 1
  /\ cl'[c].state # 0 =>
       \/ Making(c)'
       \/ cl'[c].opened = now
       \/ ~Making(c) /\ cl'[c].state = cl[c].state /\ cl'[c].opened = cl[c].opened
  /\ cl'[c].pc = "recheck" /\ cl'[c].forBand =>
       cl'[c].cand \in 1..used /\ ~obj[cl'[c].cand].markedForDeletion
  /\ Takes(c) => cl'[c].flow = cl[c].flow /\ cl[c].state # 0 /\ map[PrioFor(c)] # 0
  /\ AwaitsBand(c)' =>
       IF AwaitsBand(c) THEN cl'[c].flow = cl[c].flow ELSE map[cl'[c].flow] = 0

BandMoves(c) ==
  /\ gc' = gc /\ now' = now
  /\ \A x \in Clients : x # c => cl'[x] = cl[x]
  /\ KeepsObjects /\ MapMoves(c) /\ MakerMoves(c)

\* Nothing changes for the other calls.
LEMMA OtherCalls ==
  ASSUME NEW c \in Clients, \A x \in Clients : x # c => cl'[x] = cl[x]
  PROVE  \A x \in Clients : x # c =>
           /\ Making(x)' <=> Making(x)
           /\ Created(x)' = Created(x)
           /\ AwaitsBand(x)' <=> AwaitsBand(x)
           /\ FlowUnpinned(x)' <=> FlowUnpinned(x)
BY Zenon DEF Making, Created, AwaitsBand, FlowUnpinned

\* The leased flows are those from before, and the one whose band is taken.
LEMMA LeasedMoves ==
  ASSUME LeaseInv, NoFailure, BandLeases, NEW c \in Clients, BandMoves(c), NEW p \in Prios
  PROVE  /\ ~(Takes(c) /\ PrioFor(c) = p) => Leased(p)' = Leased(p)
         /\ Takes(c) /\ PrioFor(c) = p =>
              Leased(p)' = Leased(p) \union {cl[c].flow} /\ cl[c].flow \notin Leased(p)
<1>1. \A f \in Flows : \/ map'[f] = map[f]
                       \/ map[f] = 0 /\ AwaitsBand(c)' /\ cl'[c].flow = f
  BY Zenon DEF BandMoves, MapMoves, Keys
<1>2. \A x \in Clients : x # c => (AwaitsBand(x)' <=> AwaitsBand(x)) /\ cl'[x] = cl[x]
  BY OtherCalls, Zenon DEF BandMoves
<1>3. /\ AwaitsBand(c)' =>
           IF AwaitsBand(c) THEN cl'[c].flow = cl[c].flow ELSE map[cl'[c].flow] = 0
      /\ Takes(c) => cl'[c].flow = cl[c].flow /\ cl[c].state # 0
  BY Zenon DEF BandMoves, MakerMoves
<1>4. ASSUME NEW f \in Flows, ~Takes(c) \/ f # cl[c].flow
      PROVE  (map'[f] # 0 /\ ~Awaited(f)') <=> (map[f] # 0 /\ ~Awaited(f))
  <2>1. CASE map'[f] = map[f]
    <3>1. Awaited(f)' => Awaited(f) \/ map[f] = 0
      BY <1>2, <1>3, Zenon DEF Awaited
    <3>2. Awaited(f) => Awaited(f)'
      BY <1>2, <1>3, <1>4, Zenon DEF Awaited, Takes
    <3> QED BY <2>1, <3>1, <3>2, Zenon
  <2>2. CASE map[f] = 0 /\ AwaitsBand(c)' /\ cl'[c].flow = f
    BY <2>2, Zenon DEF Awaited
  <2> QED BY <1>1, <2>1, <2>2, Zenon
<1>5. CASE ~(Takes(c) /\ PrioFor(c) = p)
  <2>1. \A f \in Flows : PrioOf[f] = p => ~Takes(c) \/ f # cl[c].flow
    BY <1>5, Zenon DEF PrioFor
  <2> QED BY <1>4, <1>5, <2>1, Zenon DEF Leased
<1>6. CASE Takes(c) /\ PrioFor(c) = p
  <2> PICK f : f = cl[c].flow
    BY Zenon
  <2>1. AwaitsBand(c) /\ Making(c) /\ ~AwaitsBand(c)' /\ PrioOf[f] = p
    BY <1>6, Zenon DEF Takes, AwaitsBand, PrioFor
  <2>2. f \in Flows /\ map[f] # 0
    BY <2>1, CreatedMapped, CallFacts
  <2>3. f \notin Leased(p)
    BY <2>1, Zenon DEF Leased, Awaited
  <2>4. map'[f] # 0 /\ ~Awaited(f)'
    <3>1. map'[f] # 0
      BY <1>1, <2>2, Zenon
    <3>2. ASSUME NEW d \in Clients, AwaitsBand(d)', cl'[d].flow = f PROVE FALSE
      <4>1. d # c /\ AwaitsBand(d) /\ cl[d].flow = f
        BY <1>2, <2>1, <3>2, Zenon
      <4> QED BY <2>1, <4>1, OneMaker, Zenon DEF AwaitsBand
    <3> QED BY <3>1, <3>2, Zenon DEF Awaited
  <2>5. \A g \in Flows : g \in Leased(p)' <=> g \in Leased(p) \/ g = f
    BY <1>4, <2>1, <2>4, Zenon DEF Leased
  <2> QED BY <2>2, <2>3, <2>5, <1>6, Zenon DEF Leased
<1> QED BY <1>5, <1>6, Zenon

\* A step of a call keeps the count of every band.
LEMMA MovesKeepCount ==
  ASSUME LeaseInv, LeaseInv', NoFailure, BandLeases, NEW c \in Clients, BandMoves(c)
  PROVE  Counted'
<1> SUFFICES ASSUME NEW p \in Prios
             PROVE  Cardinality(Leased(p)') + Cardinality(Owed(p)') =
                      IF map'[p] = 0 THEN 0 ELSE obj'[map'[p]].leaseCount
  BY Zenon DEF Counted
<1>1. Cardinality(Leased(p)) + Cardinality(Owed(p)) = IF map[p] = 0 THEN 0 ELSE obj[map[p]].leaseCount
  BY Zenon DEF BandLeases, Counted
<1>2. Owed(p)' = Owed(p)
  BY Zenon DEF BandMoves, Owed, OwedFlows
<1>3. p \in Keys /\ p \notin Flows
  BY RegistryAssumption, Zenon DEF Keys
<1>4. IsFiniteSet(Leased(p)) /\ Cardinality(Leased(p)) \in Nat
  BY MappedFinite, FS_CardinalityType, Zenon
<1>5. IsFiniteSet(Owed(p)) /\ Cardinality(Owed(p)) \in Nat
  <2>1. IsFiniteSet(gc.dead)
    BY Zenon DEF BandLeases, Ranging
  <2>2. Owed(p) \subseteq gc.dead
    BY Zenon DEF BandLeases, Ranging, Owed, OwedFlows
  <2> QED BY <2>1, <2>2, FS_Subset, FS_CardinalityType, Zenon
<1>6. map[p] # 0 => map[p] \in 1..used /\ ~IsFlow(map[p]) /\ obj[map[p]].leaseCount \in Int
  BY <1>3, CallFacts DEF LeaseInv, ObjInv, IsFlow
<1>7. CASE Takes(c) /\ PrioFor(c) = p
  <2>1. Leased(p)' = Leased(p) \union {cl[c].flow} /\ cl[c].flow \notin Leased(p)
    BY <1>7, LeasedMoves, Zenon
  <2>2. Cardinality(Leased(p)') = Cardinality(Leased(p)) + 1
    BY <1>4, <2>1, FS_AddElement, Zenon
  <2>3. map[p] # 0
    BY <1>7, Zenon DEF BandMoves, MakerMoves
  <2>4. map'[p] = map[p] /\ obj'[map[p]].leaseCount = obj[map[p]].leaseCount + 1
    BY <1>3, <1>6, <1>7, <2>3, Zenon DEF BandMoves, MapMoves
  <2> QED BY <1>1, <1>2, <1>4, <1>5, <1>6, <2>2, <2>3, <2>4, SMTT(30)
<1>8. CASE ~(Takes(c) /\ PrioFor(c) = p)
  <2>1. Leased(p)' = Leased(p)
    BY <1>8, LeasedMoves, Zenon
  <2>2. CASE map[p] # 0
    <3>1. map'[p] = map[p]
      BY <1>3, <2>2, Zenon DEF BandMoves, MapMoves
    <3>2. Takes(c) => map[p] # map[PrioFor(c)]
      <4> SUFFICES ASSUME Takes(c), map[p] = map[PrioFor(c)] PROVE FALSE
        BY Zenon
      <4>1. PrioFor(c) \in Keys /\ PrioFor(c) # p
        BY <1>8, TargetType, Zenon DEF Takes, AwaitsBand, Making, Keys, Pinning
      <4> QED BY <1>3, <2>2, <4>1 DEF LeaseInv, ObjInv
    <3>3. obj'[map[p]].leaseCount = obj[map[p]].leaseCount
      BY <1>6, <2>2, <3>2 DEF BandMoves, MapMoves
    <3> QED BY <1>1, <1>2, <2>1, <2>2, <3>1, <3>3, Zenon
  <2>3. CASE map[p] = 0
    <3>1. CASE map'[p] = 0
      BY <1>1, <1>2, <2>1, <2>3, <3>1, Zenon
    <3>2. CASE map'[p] # 0
      <4>1. map'[p] = used' /\ used' = used + 1
        BY <1>3, <2>3, <3>2, Zenon DEF BandMoves, MapMoves
      <4>2. obj'[used'].leaseCount = 0
        <5>1. PICK k \in Keys : obj'[used'] = NewState(k)
          BY <4>1, Zenon DEF BandMoves, MapMoves
        <5> QED BY <5>1 DEF NewState
      <4> QED BY <1>1, <1>2, <2>1, <2>3, <3>2, <4>1, <4>2, Zenon
    <3> QED BY <3>1, <3>2, Zenon
  <2> QED BY <2>2, <2>3, Zenon
<1> QED BY <1>7, <1>8, Zenon

\* It keeps the rest of the invariant.
LEMMA MovesKeepBands ==
  ASSUME LeaseInv, LeaseInv', BandLeases, NEW c \in Clients, NoFailure' => BandMoves(c)
  PROVE  BandLeases'
<1> SUFFICES ASSUME NoFailure', BandMoves(c)
             PROVE  /\ CallsSucceed' /\ CreatedApart' /\ Fresh' /\ MarkedIdle' /\ Mapped'
                    /\ BandPinned' /\ Ranging' /\ Counted'
  BY Zenon DEF BandLeases
<1>1. NoFailure
  BY FailureRemains, Zenon DEF BandMoves
<1>2. /\ CallsSucceed /\ CreatedApart /\ Fresh /\ MarkedIdle /\ Mapped
      /\ BandPinned /\ Ranging
  BY <1>1, Zenon DEF BandLeases
<1>3. /\ used \in Nat /\ used' \in {used, used + 1}
      /\ \A o \in 1..used : o \in Objs /\ obj'[o].key = obj[o].key
                            /\ obj'[o].markedForDeletion = obj[o].markedForDeletion
      /\ \A x \in Clients : x # c => cl'[x] = cl[x]
      /\ gc' = gc /\ now' = now
  BY CallFacts, Zenon DEF BandMoves, KeepsObjects, MapMoves
<1>4. \A x \in Clients : x # c =>
           /\ Making(x)' <=> Making(x)
           /\ Created(x)' = Created(x)
           /\ AwaitsBand(x)' <=> AwaitsBand(x)
           /\ FlowUnpinned(x)' <=> FlowUnpinned(x)
  BY <1>3, OtherCalls, Zenon
<1>5. \A x \in Clients : cl[x].state \in 0..used
  BY CallFacts, SMTT(30) DEF CallOK
<1>6. CallsSucceed'
  BY <1>2, <1>3, Zenon DEF CallsSucceed, BandMoves, MakerMoves
<1>7. CreatedApart'
  <2>1. \A x \in Clients : Making(x) => Created(x) \in 1..used
    BY <1>1, CreatedMapped, Zenon
  <2>2. Making(c)' => \/ Making(c) /\ Created(c)' = Created(c)
                      \/ Created(c)' = used + 1
    BY Zenon DEF BandMoves, MakerMoves
  <2>3. \A x \in Clients : Making(x)' => \/ Making(x) /\ Created(x)' = Created(x)
                                         \/ x = c /\ Created(x)' = used + 1
    BY <1>4, <2>2, Zenon
  <2> QED BY <1>2, <1>3, <2>1, <2>3 DEF CreatedApart
<1>8. MarkedIdle'
  <2>1. ASSUME NEW o \in 1..used', obj'[o].markedForDeletion PROVE obj'[o].leaseCount <= 0
    <3>1. CASE o \in 1..used
      <4>1. obj[o].markedForDeletion /\ obj[o].leaseCount <= 0
        BY <1>2, <1>3, <2>1, <3>1, Zenon DEF MarkedIdle
      <4>2. obj'[o].leaseCount <= obj[o].leaseCount
        BY <3>1, <4>1, Zenon DEF BandMoves, MapMoves
      <4>3. obj[o].leaseCount \in Int /\ obj'[o].leaseCount \in Int
        BY <1>3, <3>1, CallFacts, Zenon DEF LeaseInv, TypeInv, ObjType
      <4> QED BY <4>1, <4>2, <4>3
    <3>2. CASE o \notin 1..used
      <4>1. o = used' /\ used' = used + 1
        BY <1>3, <2>1, <3>2, SMTT(30)
      <4>2. PICK k \in Keys : obj'[o] = NewState(k)
        BY <4>1, Zenon DEF BandMoves, MapMoves
      <4> QED BY <2>1, <4>2 DEF NewState
    <3> QED BY <3>1, <3>2, Zenon
  <2> QED BY <2>1, Zenon DEF MarkedIdle
<1>9. BandPinned'
  <2>1. \A x \in Clients : cl[x].pc = "recheck" => cl[x].cand \in 1..used
    BY CallFacts, Zenon DEF CallOK
  <2>2. cl'[c].pc = "recheck" /\ cl'[c].forBand =>
          cl'[c].cand \in 1..used /\ ~obj[cl'[c].cand].markedForDeletion
    BY Zenon DEF BandMoves, MakerMoves
  <2> QED BY <1>2, <1>3, <2>1, <2>2, SMTT(30) DEF BandPinned
<1>10. Ranging'
  BY <1>2, <1>3, Zenon DEF Ranging
<1>11. Counted'
  BY <1>1, MovesKeepCount, Zenon
<1>12. Mapped'
  <2>1. \A k \in Keys : map'[k] = map[k] \/ (map[k] = 0 /\ map'[k] = used' /\ used' = used + 1)
    BY Zenon DEF BandMoves, MapMoves
  <2>2. ASSUME NEW o \in 1..used'
        PROVE  obj'[o].key \in Keys /\ (map'[obj'[o].key] = o \/ obj'[o].markedForDeletion)
    <3>1. CASE o \in 1..used
      <4>1. obj[o].key \in Keys /\ (map[obj[o].key] = o \/ obj[o].markedForDeletion) /\ o # 0
        BY <1>2, <3>1 DEF Mapped
      <4> QED BY <1>3, <2>1, <3>1, <4>1, SMTT(30)
    <3>2. CASE o \notin 1..used
      <4>1. o = used' /\ used' = used + 1
        BY <1>3, <2>2, <3>2, SMTT(30)
      <4>2. PICK k \in Keys : obj'[o] = NewState(k) /\ map'[k] = o
        BY <4>1, Zenon DEF BandMoves, MapMoves
      <4> QED BY <4>2 DEF NewState
    <3> QED BY <3>1, <3>2, Zenon
  <2>3. gc.pc \in {"check", "delete"} => map'[gc.key] = gc.cand
    <3>1. gc.pc \in {"check", "delete"} => gc.key \in Keys /\ gc.cand \in 1..used /\ map[gc.key] = gc.cand
      BY <1>2, Zenon DEF LeaseInv, GCInv, Mapped
    <3> QED BY <1>3, <2>1, <3>1, SMTT(30)
  <2> QED BY <1>3, <2>2, <2>3, Zenon DEF Mapped
<1>13. Fresh'
  <2> SUFFICES ASSUME NEW d \in Clients, FlowUnpinned(d)'
               PROVE  /\ ~obj'[cl'[d].cand].markedForDeletion
                      /\ obj'[cl'[d].cand].becameIdleAt \in {0, now}
                      /\ \A x \in Clients : cl'[x].state = cl'[d].cand =>
                           Making(x)' \/ cl'[x].opened = now
    BY <1>3, Zenon DEF Fresh
  <2>1. /\ cl'[c].state # 0 =>
             \/ Making(c)'
             \/ cl'[c].opened = now
             \/ ~Making(c) /\ cl'[c].state = cl[c].state /\ cl'[c].opened = cl[c].opened
        /\ FlowUnpinned(c)' => cl'[c].cand = used' /\ used' = used + 1
    BY Zenon DEF BandMoves, MakerMoves
  <2>2. CASE d = c
    <3>1. cl'[d].cand = used + 1 /\ used' = used + 1
      BY <2>1, <2>2, Zenon
    <3>2. PICK k \in Keys : obj'[used'] = NewState(k)
      BY <3>1, Zenon DEF BandMoves, MapMoves
    <3>3. \A x \in Clients : cl'[x].state = used + 1 => Making(x)' \/ cl'[x].opened = now
      BY <1>3, <1>5, <2>1, SMTT(60)
    <3> QED BY <3>1, <3>2, <3>3 DEF NewState
  <2>3. CASE d # c
    <3>1. /\ FlowUnpinned(d) /\ cl'[d] = cl[d] /\ cl[d].cand \in 1..used /\ cl[d].cand # 0
          /\ obj[cl[d].cand].key = cl[d].flow /\ cl[d].flow \in Flows
      BY <1>3, <1>4, <2>3, CallFacts, SMTT(60) DEF FlowUnpinned, CallOK, Target
    <3>2. /\ ~obj[cl[d].cand].markedForDeletion /\ obj[cl[d].cand].becameIdleAt \in {0, now}
          /\ \A x \in Clients : cl[x].state = cl[d].cand => Making(x) \/ cl[x].opened = now
      BY <1>2, <3>1, Zenon DEF Fresh
    <3>3. obj'[cl[d].cand].becameIdleAt \in {0, now}
      <4>1. \/ obj'[cl[d].cand].becameIdleAt \in {obj[cl[d].cand].becameIdleAt, 0, now}
            \/ cl[c].state = cl[d].cand /\ ~Making(c) /\ obj'[cl[d].cand].becameIdleAt = cl[c].opened
        BY <3>1, Zenon DEF BandMoves, MapMoves, IsFlow
      <4> QED BY <3>2, <4>1, Zenon
    <3>4. \A x \in Clients : cl'[x].state = cl[d].cand => Making(x)' \/ cl'[x].opened = now
      BY <1>3, <1>4, <2>1, <3>1, <3>2, Zenon
    <3> QED BY <1>3, <3>1, <3>2, <3>3, <3>4, Zenon
  <2> QED BY <2>2, <2>3, Zenon
<1> QED BY <1>6, <1>7, <1>8, <1>9, <1>10, <1>11, <1>12, <1>13, Zenon

\* A step that leaves the map and the objects alone.
LEMMA SameMapMoves ==
  ASSUME LeaseInv, NEW c \in Clients, UNCHANGED leaseVars, ~Takes(c)
  PROVE  KeepsObjects /\ MapMoves(c)
<1>1. KeepsObjects /\ UNCHANGED <<map, used, obj>>
  BY SameObjects, Zenon DEF leaseVars
<1>2. \A o \in 1..used : obj[o].leaseCount \in Int
  BY CallFacts, Zenon
<1>3. used # used + 1
  BY CallFacts, SMTT(30)
<1> QED BY <1>1, <1>2, <1>3 DEF MapMoves

\* A step that changes one object.
LEMMA ObjectMoves ==
  ASSUME LeaseInv, NEW c \in Clients, NEW b \in 1..used, NEW r \in ObjType,
         obj' = [obj EXCEPT ![b] = r], UNCHANGED <<map, used>>,
         r.leaseCount <= obj[b].leaseCount \/ ~obj[b].markedForDeletion,
         IsFlow(b) => \/ r.becameIdleAt \in {obj[b].becameIdleAt, 0, now}
                      \/ cl[c].state = b /\ ~Making(c) /\ r.becameIdleAt = cl[c].opened,
         ~IsFlow(b) => r.leaseCount = IF Takes(c) /\ b = map[PrioFor(c)]
                                      THEN obj[b].leaseCount + 1 ELSE obj[b].leaseCount,
         Takes(c) => b = map[PrioFor(c)]
  PROVE  MapMoves(c)
<1>1. /\ b \in Objs /\ obj \in [Objs -> ObjType]
      /\ \A o \in 1..used : o \in Objs /\ obj[o].leaseCount \in Int
  BY CallFacts, Zenon
<1>2. obj'[b] = r /\ \A o \in 1..used : o # b => obj'[o] = obj[o]
  BY <1>1, Zenon
<1>3. used # used + 1
  BY CallFacts, SMTT(30)
<1>4. \A o \in 1..used :
       /\ obj'[o].leaseCount <= obj[o].leaseCount \/ ~obj[o].markedForDeletion
       /\ IsFlow(o) =>
            \/ obj'[o].becameIdleAt \in {obj[o].becameIdleAt, 0, now}
            \/ cl[c].state = o /\ ~Making(c) /\ obj'[o].becameIdleAt = cl[c].opened
       /\ ~IsFlow(o) =>
            obj'[o].leaseCount =
              IF Takes(c) /\ o = map[PrioFor(c)] THEN obj[o].leaseCount + 1 ELSE obj[o].leaseCount
  <2> SUFFICES ASSUME NEW o \in 1..used
               PROVE
                 /\ obj'[o].leaseCount <= obj[o].leaseCount \/ ~obj[o].markedForDeletion
                 /\ IsFlow(o) =>
                      \/ obj'[o].becameIdleAt \in {obj[o].becameIdleAt, 0, now}
                      \/ cl[c].state = o /\ ~Making(c) /\ obj'[o].becameIdleAt = cl[c].opened
                 /\ ~IsFlow(o) =>
                      obj'[o].leaseCount =
                        IF Takes(c) /\ o = map[PrioFor(c)] THEN obj[o].leaseCount + 1 ELSE obj[o].leaseCount
    BY Zenon
  <2>1. CASE o = b
    BY <1>2, <2>1, Zenon
  <2>2. CASE o # b
    BY <1>1, <1>2, <2>2, SMTT(30)
  <2> QED BY <2>1, <2>2, Zenon
<1> QED BY <1>3, <1>4, Zenon DEF MapMoves

\* A step that puts a new object into the map.
LEMMA NewObjectMoves ==
  ASSUME LeaseInv, NEW c \in Clients, NEW k \in Keys, map[k] = 0, used < MaxObj,
         used' = used + 1, obj' = [obj EXCEPT ![used'] = NewState(k)],
         map' = [map EXCEPT ![k] = used'],
         ~Takes(c), k \in Flows => AwaitsBand(c)' /\ cl'[c].flow = k
  PROVE  KeepsObjects /\ MapMoves(c)
<1>1. /\ KeepsObjects /\ used' \in Objs /\ map'[k] = used'
      /\ \A o \in 1..used : obj'[o] = obj[o]
  BY NewObject, Zenon
<1>2. obj'[used'] = NewState(k)
  BY <1>1, CallFacts, Zenon
<1>3. \A j \in Keys : j # k => map'[j] = map[j]
  BY CallFacts, Zenon
<1>4. \A o \in 1..used : obj[o].leaseCount \in Int
  BY CallFacts, Zenon
<1>5. \A o \in 1..used :
        /\ obj'[o].leaseCount <= obj[o].leaseCount
        /\ obj'[o].becameIdleAt = obj[o].becameIdleAt /\ obj'[o].leaseCount = obj[o].leaseCount
  BY <1>1, <1>4
<1> QED BY <1>1, <1>2, <1>3, <1>5 DEF MapMoves

\* A call that only moves to p keeps everything else.
LEMMA GotoKeeps ==
  ASSUME LeaseInv, NEW c \in Clients, NEW p, Goto(c, p)
  PROVE  /\ \A x \in Clients : x # c => cl'[x] = cl[x]
         /\ cl'[c].pc = p /\ cl'[c].flow = cl[c].flow /\ cl'[c].forBand = cl[c].forBand
         /\ cl'[c].cand = cl[c].cand /\ cl'[c].candNew = cl[c].candNew
         /\ cl'[c].state = cl[c].state /\ cl'[c].opened = cl[c].opened
<1>1. cl \in [Clients -> CallType] /\ cl[c] \in CallType
  BY CallFacts, Zenon
<1>2. cl' = [cl EXCEPT ![c] = [cl[c] EXCEPT !.pc = p]]
  BY Zenon DEF Goto
<1>3. cl'[c] = [cl[c] EXCEPT !.pc = p] /\ \A x \in Clients : x # c => cl'[x] = cl[x]
  BY <1>1, <1>2, Zenon
<1>4. LET d == [cl[c] EXCEPT !.pc = p]
      IN /\ d.pc = p /\ d.flow = cl[c].flow /\ d.forBand = cl[c].forBand
         /\ d.cand = cl[c].cand /\ d.candNew = cl[c].candNew
         /\ d.state = cl[c].state /\ d.opened = cl[c].opened
  BY <1>1, Zenon DEF CallType
<1> QED BY <1>3, <1>4, Zenon

\* A call that has its pins.
LEMMA PinnedMoves ==
  ASSUME NEW c \in Clients, cl[c].pc \notin Pinning, cl'[c].pc \notin Pinning,
         cl'[c].pc \notin {"fail", "failBand", "release"},
         \/ cl'[c].state = 0
         \/ cl'[c].state = cl[c].state /\ cl'[c].opened = cl[c].opened
  PROVE  MakerMoves(c) /\ ~Takes(c) /\ ~Making(c) /\ ~Making(c)'
BY ZenonT(30) DEF MakerMoves, Takes, Making, AwaitsBand, FlowUnpinned, Pinning

\* A new call.
LEMMA WithConnectionMoves ==
  ASSUME LeaseInv, NEW c \in Clients, NEW f \in Flows, WithConnection(c, f)
  PROVE  BandMoves(c)
<1>1. /\ cl[c].pc = "idle" /\ cl[c].state = 0 /\ cl[c] \in CallType
      /\ UNCHANGED leaseVars /\ now' = now
  BY CallFacts, Zenon DEF WithConnection, CallOK
<1>2. cl'[c] = [cl[c] EXCEPT !.pc = "load", !.flow = f, !.forBand = FALSE]
  BY CallFacts, Zenon DEF WithConnection
<1>3. cl'[c].pc = "load" /\ ~cl'[c].forBand /\ cl'[c].state = 0
  BY <1>1, <1>2, Zenon DEF CallType
<1>4. MakerMoves(c) /\ ~Takes(c)
  BY <1>1, <1>3, ZenonT(30) DEF MakerMoves, Takes, Making, AwaitsBand, FlowUnpinned, Pinning
<1>5. MapMoves(c)
  BY <1>1, <1>4, SameMapMoves, Zenon
<1> QED BY <1>1, <1>4, <1>5, WithConnectionStep, Zenon DEF BandMoves, CallStep

\* The pin loop loads an object, or stores a new one.
LEMMA PinLoadMoves ==
  ASSUME LeaseInv, NEW c \in Clients, pinLoad(c)
  PROVE  BandMoves(c)
<1>1. /\ cl[c].pc = "load" /\ cl[c] \in CallType /\ cl[c].flow \in Flows /\ now' = now
      /\ ~cl[c].forBand => cl[c].state = 0
  BY CallFacts, Zenon DEF pinLoad, CallOK, clientFrame, Pinning
<1>2. /\ Target(c) \in Keys
      /\ Target(c) \in Flows <=> ~cl[c].forBand
      /\ ~cl[c].forBand => Target(c) = cl[c].flow
  BY <1>1, TargetType, Zenon
<1>3. ASSUME NEW o, NEW b \in BOOLEAN,
             cl' = [cl EXCEPT ![c] = [@ EXCEPT !.pc = "pin", !.cand = o, !.candNew = b]]
      PROVE  /\ cl'[c].pc = "pin" /\ cl'[c].cand = o /\ cl'[c].candNew = b
             /\ cl'[c].flow = cl[c].flow /\ cl'[c].forBand = cl[c].forBand
             /\ cl'[c].state = cl[c].state
  <2>1. cl'[c] = [cl[c] EXCEPT !.pc = "pin", !.cand = o, !.candNew = b]
    BY <1>3, CallFacts, Zenon
  <2> QED BY <1>1, <2>1, Zenon DEF CallType
<1>4. CASE map[Target(c)] # 0
  <2>1. /\ cl'[c].pc = "pin" /\ ~cl'[c].candNew
        /\ cl'[c].flow = cl[c].flow /\ cl'[c].forBand = cl[c].forBand
        /\ cl'[c].state = cl[c].state /\ UNCHANGED leaseVars
    BY <1>3, <1>4, Zenon DEF pinLoad
  <2>2. MakerMoves(c) /\ ~Takes(c)
    BY <1>1, <2>1, Zenon DEF MakerMoves, Takes, Making, Created, AwaitsBand, FlowUnpinned, Pinning
  <2>3. MapMoves(c)
    BY <2>1, <2>2, SameMapMoves, Zenon
  <2> QED BY <1>1, <2>2, <2>3, PinLoadStep, Zenon DEF BandMoves, CallStep
<1>5. CASE map[Target(c)] = 0
  <2>1. /\ cl'[c].pc = "pin" /\ cl'[c].candNew /\ cl'[c].cand = used'
        /\ cl'[c].flow = cl[c].flow /\ cl'[c].forBand = cl[c].forBand
        /\ cl'[c].state = cl[c].state
        /\ used < MaxObj /\ used' = used + 1 /\ obj' = [obj EXCEPT ![used'] = NewState(Target(c))]
        /\ map' = [map EXCEPT ![Target(c)] = used']
    BY <1>3, <1>5, Zenon DEF pinLoad
  <2>2. MakerMoves(c) /\ ~Takes(c)
    BY <1>1, <1>2, <1>5, <2>1, Zenon
    DEF MakerMoves, Takes, Making, Created, AwaitsBand, FlowUnpinned, Pinning
  <2>3. Target(c) \in Flows => AwaitsBand(c)' /\ cl'[c].flow = Target(c)
    BY <1>2, <2>1, Zenon DEF AwaitsBand, Making
  <2>4. MapMoves(c)
    BY <1>2, <1>5, <2>1, <2>2, <2>3, NewObjectMoves, Zenon
  <2> QED BY <1>1, <2>2, <2>4, PinLoadStep, Zenon DEF BandMoves, CallStep
<1> QED BY <1>4, <1>5, Zenon

\* A pin: that of a band takes the lease the flow in the map owes it.
LEMMA TryPinMoves ==
  ASSUME LeaseInv, NoFailure, BandLeases, NEW c \in Clients, tryPin(c)
  PROVE  BandMoves(c)
<1> DEFINE o == cl[c].cand
<1>1. /\ cl[c].pc = "pin" /\ o \in 1..used /\ obj[o].key = Target(c) /\ cl[c].flow \in Flows
      /\ now' = now /\ UNCHANGED <<map, used>>
      /\ ~cl[c].forBand => cl[c].state = 0
      /\ cl[c].forBand => cl[c].state # 0
  BY CallFacts, SMTT(60) DEF tryPin, CallOK, Pinning, clientFrame
<1>2. /\ Target(c) \in Keys
      /\ Target(c) \in Flows <=> ~cl[c].forBand
      /\ cl[c].forBand => Target(c) = PrioFor(c)
  BY <1>1, TargetType, Zenon DEF Target, PrioFor
<1>3. CASE obj[o].markedForDeletion
  <2>1. Goto(c, "load") /\ UNCHANGED leaseVars
    BY <1>1, <1>3, Zenon DEF tryPin, canPin, leaseVars
  <2>2. ~FlowUnpinned(c)
    BY <1>3, Zenon DEF BandLeases, Fresh
  <2>3. cl[c].forBand \/ ~cl[c].candNew
    BY <1>1, <2>2, Zenon DEF FlowUnpinned
  <2>4. MakerMoves(c) /\ ~Takes(c)
    <3>1. /\ \A x \in Clients : x # c => cl'[x] = cl[x]
          /\ cl'[c].pc = "load" /\ cl'[c].flow = cl[c].flow /\ cl'[c].forBand = cl[c].forBand
          /\ cl'[c].state = cl[c].state
      BY <2>1, GotoKeeps, Zenon
    <3> QED BY <1>1, <2>3, <3>1, Zenon
        DEF MakerMoves, Takes, Making, Created, AwaitsBand, FlowUnpinned, Pinning
  <2>5. MapMoves(c)
    BY <2>1, <2>4, SameMapMoves, Zenon
  <2> QED BY <1>1, <2>4, <2>5, TryPinStep, ZenonT(30) DEF BandMoves, CallStep
<1>4. CASE ~obj[o].markedForDeletion
  <2> DEFINE r == Pinned(obj[o])
  <2>1. Goto(c, "recheck") /\ obj' = [obj EXCEPT ![o] = r]
    BY <1>4, Zenon DEF tryPin, canPin
  <2>2. /\ r \in ObjType /\ r.leaseCount = obj[o].leaseCount + 1 /\ r.becameIdleAt = 0
    <3>1. obj[o] \in ObjType
      BY <1>1, CallFacts, Zenon
    <3>2. r.becameIdleAt = 0
      BY <3>1, Zenon DEF Pinned, ObjType
    <3> QED BY <3>1, <3>2, LeaseChange, 0 \in Nat, Zenon
  <2>3. MakerMoves(c) /\ (Takes(c) <=> cl[c].forBand)
    <3>1. cl[c].forBand => map[PrioFor(c)] = o
      BY <1>1, <1>2, <1>4, Zenon DEF BandLeases, Mapped
    <3>2. o # 0 /\ cl[c].forBand \in BOOLEAN
      BY <1>1, CallFacts DEF CallType
    <3>3. /\ \A x \in Clients : x # c => cl'[x] = cl[x]
          /\ cl'[c].pc = "recheck" /\ cl'[c].flow = cl[c].flow /\ cl'[c].forBand = cl[c].forBand
          /\ cl'[c].cand = o /\ cl'[c].candNew = cl[c].candNew /\ cl'[c].state = cl[c].state
      BY <2>1, GotoKeeps, Zenon
    <3> QED BY <1>1, <1>4, <3>1, <3>2, <3>3, Zenon
        DEF MakerMoves, Takes, Making, Created, AwaitsBand, FlowUnpinned, Pinning
  <2>4. MapMoves(c)
    <3>1. IsFlow(o) <=> ~cl[c].forBand
      BY <1>1, <1>2, Zenon DEF IsFlow
    <3>2. cl[c].forBand => map[PrioFor(c)] = o
      BY <1>1, <1>2, <1>4, Zenon DEF BandLeases, Mapped
    <3> HIDE DEF r
    <3> QED BY <1>1, <1>4, <2>1, <2>2, <2>3, <3>1, <3>2, ObjectMoves, Zenon
  <2> QED BY <1>1, <2>3, <2>4, TryPinStep, Zenon DEF BandMoves, CallStep
<1> QED BY <1>3, <1>4, ZenonT(30)

\* The pinned object is in the map: the call never backs off.
LEMMA PinRecheckMoves ==
  ASSUME LeaseInv, NoFailure, BandLeases, NEW c \in Clients, pinRecheck(c)
  PROVE  BandMoves(c)
<1> DEFINE o == cl[c].cand
<1>1. /\ cl[c].pc = "recheck" /\ o \in 1..used /\ obj[o].key = Target(c) /\ cl[c].flow \in Flows
      /\ now' = now /\ UNCHANGED <<map, used>> /\ cl[c] \in CallType
      /\ ~cl[c].forBand => cl[c].state = 0
  BY CallFacts, Zenon DEF pinRecheck, CallOK, Pinning, clientFrame
<1>2. /\ Target(c) \in Keys
      /\ Target(c) \in Flows <=> ~cl[c].forBand
  BY <1>1, TargetType, Zenon
<1>3. map[Target(c)] = o
  <2>1. ~obj[o].markedForDeletion
    <3>1. CASE cl[c].forBand
      BY <1>1, <3>1, Zenon DEF BandLeases, BandPinned
    <3>2. CASE ~cl[c].forBand
      <4>1. Holds(c, o) /\ IsFlow(o) /\ o \in Objs
        BY <1>1, <1>2, <3>2, CallFacts, Zenon DEF Holds, IsFlow
      <4> QED BY <4>1, Zenon DEF LeaseInv, HeldInv
    <3> QED BY <3>1, <3>2, Zenon
  <2> QED BY <1>1, <2>1, Zenon DEF BandLeases, Mapped
<1>4. UNCHANGED leaseVars
  BY <1>1, <1>3, Zenon DEF pinRecheck, leaseVars
<1>5. CASE cl[c].forBand
  <2>1. cl'[c] = [cl[c] EXCEPT !.pc = "init", !.opened = now]
    BY <1>3, <1>5, CallFacts, Zenon DEF pinRecheck
  <2>2. cl'[c].pc = "init" /\ cl'[c].opened = now
    BY <1>1, <2>1, Zenon DEF CallType
  <2>3. MakerMoves(c) /\ ~Takes(c)
    BY <1>1, <1>5, <2>2, Zenon DEF MakerMoves, Takes, Making, AwaitsBand, FlowUnpinned, Pinning
  <2>4. MapMoves(c)
    BY <1>4, <2>3, SameMapMoves, Zenon
  <2> QED BY <1>1, <2>3, <2>4, PinRecheckStep, Zenon DEF BandMoves, CallStep
<1>6. CASE ~cl[c].forBand /\ cl[c].candNew
  <2>1. cl'[c] = [cl[c] EXCEPT !.pc = "load", !.forBand = TRUE, !.state = o, !.isNew = TRUE]
    BY <1>3, <1>6, CallFacts, Zenon DEF pinRecheck
  <2>2. cl'[c].pc = "load" /\ cl'[c].forBand /\ cl'[c].state = o /\ cl'[c].flow = cl[c].flow
    BY <1>1, <2>1, Zenon DEF CallType
  <2>3. MakerMoves(c) /\ ~Takes(c)
    BY <1>1, <1>6, <2>2, Zenon DEF MakerMoves, Takes, Making, Created, AwaitsBand, FlowUnpinned, Pinning
  <2>4. MapMoves(c)
    BY <1>4, <2>3, SameMapMoves, Zenon
  <2> QED BY <1>1, <2>3, <2>4, PinRecheckStep, Zenon DEF BandMoves, CallStep
<1>7. CASE ~cl[c].forBand /\ ~cl[c].candNew
  <2>1. cl'[c] = [cl[c] EXCEPT !.pc = "init", !.opened = now, !.state = o, !.isNew = FALSE]
    BY <1>3, <1>7, CallFacts, Zenon DEF pinRecheck
  <2>2. cl'[c].pc = "init" /\ cl'[c].opened = now
    BY <1>1, <2>1, Zenon DEF CallType
  <2>3. MakerMoves(c) /\ ~Takes(c)
    BY <1>1, <1>7, <2>2, Zenon DEF MakerMoves, Takes, Making, AwaitsBand, FlowUnpinned, Pinning
  <2>4. MapMoves(c)
    BY <1>4, <2>3, SameMapMoves, Zenon
  <2> QED BY <1>1, <2>3, <2>4, PinRecheckStep, Zenon DEF BandMoves, CallStep
<1> QED BY <1>5, <1>6, <1>7, Zenon

\* The sync.Once of a flow: with no failure, the call goes on.
LEMMA InitMoves ==
  ASSUME LeaseInv, NEW c \in Clients, cl[c].pc \notin Pinning, cl[c].pc # "idle",
         NEW i \in {"new", "busy", "ok", "err"}, NEW p,
         p \notin Pinning \union {"fail", "failBand", "release"}, Goto(c, p),
         obj' = [obj EXCEPT ![cl[c].state].init = i], UNCHANGED <<map, used>>
  PROVE  MapMoves(c) /\ MakerMoves(c)
<1> DEFINE o == cl[c].state
           r == [obj[o] EXCEPT !.init = i]
<1>1. o \in 1..used /\ obj[o] \in ObjType /\ obj[o].leaseCount \in Int
  BY CallFacts, Zenon DEF CallOK
<1>2. MakerMoves(c) /\ ~Takes(c)
  BY GotoKeeps, PinnedMoves
<1>3. /\ r \in ObjType /\ r.leaseCount = obj[o].leaseCount
      /\ r.becameIdleAt = obj[o].becameIdleAt
  BY <1>1, Zenon DEF ObjType
<1>4. obj' = [obj EXCEPT ![o] = r]
  BY Zenon
<1> HIDE DEF r
<1>5. MapMoves(c)
  <2>1. r.leaseCount <= obj[o].leaseCount
    BY <1>1, <1>3
  <2> QED BY <1>1, <1>2, <1>3, <1>4, <2>1, ObjectMoves, Zenon
<1> QED BY <1>2, <1>5, Zenon

\* A call that provisions, and leaves the map and the objects alone.
LEMMA PlainMoves ==
  ASSUME LeaseInv, NEW c \in Clients, cl[c].pc \notin Pinning, NEW p,
         p \notin Pinning \union {"fail", "failBand", "release"}, Goto(c, p),
         UNCHANGED leaseVars
  PROVE  MapMoves(c) /\ MakerMoves(c)
<1>1. MakerMoves(c) /\ ~Takes(c)
  BY GotoKeeps, PinnedMoves
<1> QED BY <1>1, SameMapMoves, Zenon

\* The provisioning of a flow, if it does not fail.
LEMMA ProvisionMoves ==
  ASSUME LeaseInv, NoFailure', NEW c \in Clients,
         initializedDo(c) \/ ensureExists(c) \/ ensurePriorityBand(c) \/ ensureSync(c)
  PROVE  BandMoves(c)
<1>1. CallStep(c) /\ now' = now
  BY InitializedDoStep, EnsureExistsStep, EnsurePriorityBandStep, EnsureSyncStep, Zenon
  DEF initializedDo, ensureExists, ensurePriorityBand, ensureSync, clientFrame
<1>2. SUFFICES MapMoves(c) /\ MakerMoves(c)
  BY <1>1, Zenon DEF BandMoves, CallStep
<1>3. /\ cl[c].pc \in {"init", "exists", "ensure", "sync"} /\ cl[c].pc \notin Pinning
      /\ cl[c].pc # "idle" /\ cl[c].flow \in Flows
  BY CallFacts, Zenon DEF initializedDo, ensureExists, ensurePriorityBand, ensureSync, Pinning, CallOK
<1>4. cl[c].state \in 1..used /\ cl[c].state \in Objs /\ obj[cl[c].state].key = cl[c].flow
  BY <1>3, CallFacts, Zenon DEF CallOK
<1>5. obj'[cl[c].state].init # "err"
  <2>1. obj'[cl[c].state].key = cl[c].flow
    BY <1>1, <1>4, Zenon DEF CallStep, KeepsObjects
  <2> QED BY <1>3, <1>4, <2>1, Zenon DEF NoFailure, ProvisioningFailed
<1>6. CASE initializedDo(c)
  <2>1. CASE obj[cl[c].state].init = "new" /\ Goto(c, "exists")
             /\ obj' = [obj EXCEPT ![cl[c].state].init = "busy"]
    BY <1>3, <1>6, <2>1, InitMoves, Zenon DEF initializedDo, Pinning
  <2>2. CASE obj[cl[c].state].init = "ok" /\ Goto(c, "fn") /\ UNCHANGED obj
    BY <1>3, <1>6, <2>2, PlainMoves, Zenon DEF initializedDo, leaseVars, Pinning
  <2>3. CASE obj[cl[c].state].init = "err" /\ UNCHANGED obj
    BY <1>5, <2>3, Zenon
  <2> QED BY <1>6, <2>1, <2>2, <2>3, Zenon DEF initializedDo
<1>7. CASE ensureExists(c)
  BY <1>3, <1>7, PlainMoves, Zenon DEF ensureExists, Pinning
<1>8. CASE ensurePriorityBand(c)
  <2> DEFINE p == PrioFor(c)
  <2>1. Goto(c, "sync")
    BY <1>8, Zenon DEF ensurePriorityBand
  <2>2. CASE UNCHANGED leaseVars
    BY <1>3, <2>1, <2>2, PlainMoves, Zenon DEF Pinning
  <2>3. CASE /\ map[p] = 0 /\ used < MaxObj /\ used' = used + 1
             /\ obj' = [obj EXCEPT ![used'] = NewState(p)] /\ map' = [map EXCEPT ![p] = used']
    <3>1. MakerMoves(c) /\ ~Takes(c)
      BY <1>3, <2>1, GotoKeeps, PinnedMoves, SMTT(60) DEF Pinning
    <3>2. p \in Keys /\ p \notin Flows
      BY <1>3, TargetType, Zenon DEF Keys
    <3> QED BY <2>3, <3>1, <3>2, NewObjectMoves, Zenon
  <2> QED BY <1>8, <2>2, <2>3, Zenon DEF ensurePriorityBand
<1>9. CASE ensureSync(c)
  <2>1. CASE obj' = [obj EXCEPT ![cl[c].state].init = "err"]
    <3>1. obj'[cl[c].state].init = "err"
      BY <1>4, <2>1, CallFacts, Zenon DEF ObjType
    <3> QED BY <1>5, <3>1, Zenon
  <2>2. CASE UNCHANGED <<obj, cl>>
    <3>1. MakerMoves(c) /\ ~Takes(c)
      BY <1>3, <2>2, PinnedMoves, Zenon
    <3>2. UNCHANGED leaseVars
      BY <1>9, <2>2, Zenon DEF ensureSync, leaseVars
    <3> QED BY <3>1, <3>2, SameMapMoves, Zenon
  <2>3. CASE obj' = [obj EXCEPT ![cl[c].state].init = "ok"] /\ Goto(c, "fn")
    BY <1>3, <1>9, <2>3, InitMoves, Zenon DEF ensureSync, Pinning
  <2> QED BY <1>9, <2>1, <2>2, <2>3, Zenon DEF ensureSync
<1> QED BY <1>6, <1>7, <1>8, <1>9, Zenon

\* The deferred unpin: the flow has been idle since the connection was opened.
LEMMA UnpinMoves ==
  ASSUME LeaseInv, NoFailure, BandLeases, NEW c \in Clients, unpin(c)
  PROVE  BandMoves(c)
<1> DEFINE o == cl[c].state
           r == Unpinned(obj[o], cl[c].opened)
<1>1. cl[c].pc = "fn" /\ now' = now /\ cl[c].opened \in Nat
  BY CallFacts, Zenon DEF unpin, BandLeases, CallsSucceed, clientFrame, CallType
<1>2. o \in 1..used /\ obj[o] \in ObjType /\ obj[o].leaseCount \in Int /\ IsFlow(o)
  BY <1>1, CallFacts, Zenon DEF CallOK, Pinning, IsFlow
<1>3. obj' = [obj EXCEPT ![o] = r] /\ UNCHANGED <<map, used>> /\ cl'[c] = NoCall
  BY CallFacts, Zenon DEF unpin
<1>4. r \in ObjType /\ r.leaseCount <= obj[o].leaseCount
  BY <1>1, <1>2, LeaseChange
<1>5. r.becameIdleAt \in {obj[o].becameIdleAt, cl[c].opened}
  BY <1>2, Zenon DEF Unpinned, ObjType
<1>6. MakerMoves(c) /\ ~Takes(c) /\ ~Making(c)
  BY <1>1, <1>3, PinnedMoves, SMTT(60) DEF Pinning, NoCall
<1> HIDE DEF r
<1>7. MapMoves(c)
  BY <1>2, <1>3, <1>4, <1>5, <1>6, ObjectMoves, Zenon
<1> QED BY <1>1, <1>6, <1>7, UnpinStep, Zenon DEF BandMoves, CallStep

\* Every step of a call keeps the invariant.
LEMMA ClientBands ==
  ASSUME LeaseInv, LeaseInv', BandLeases, NEW c \in Clients,
         Client(c) \/ \E f \in Flows : WithConnection(c, f)
  PROVE  BandLeases'
<1>1. KeepsObjects
  BY Zenon, PinLoadStep, TryPinStep, PinRecheckStep, InitializedDoStep, EnsureExistsStep,
     EnsurePriorityBandStep, EnsureSyncStep, FailDeleteStep, FailUnpinBandStep, UnpinStep,
     WithConnectionStep, SMTT(30) DEF Client, CallStep
<1>2. ASSUME NoFailure' PROVE BandMoves(c)
  <2>1. NoFailure
    BY <1>1, <1>2, FailureRemains, Zenon
  <2>2. ~failDelete(c) /\ ~failUnpinBand(c)
    BY <2>1, Zenon DEF BandLeases, CallsSucceed, failDelete, failUnpinBand
  <2> QED BY Zenon, <1>2, <2>1, <2>2, PinLoadMoves, TryPinMoves, PinRecheckMoves, ProvisionMoves,
             UnpinMoves, WithConnectionMoves, SMTT(30) DEF Client
<1> QED BY <1>2, MovesKeepBands, Zenon

-----------------------------------------------------------------------------
(* The steps of the collector.                                             *)

\* What a step of the collector may do to the objects: it marks one that has no
\* lease and that no call is about to use, and moves no idle time into the past.
Spares(o) ==
  \A c \in Clients :
    FlowUnpinned(c) \/ (cl[c].pc = "recheck" /\ cl[c].forBand) => cl[c].cand # o
CollectorMoves ==
  \A o \in 1..used :
    /\ IsFlow(o) => obj'[o].becameIdleAt \in {obj[o].becameIdleAt, 0, now}
    /\ obj'[o].markedForDeletion =>
         \/ obj[o].markedForDeletion /\ obj'[o].leaseCount <= obj[o].leaseCount
         \/ obj'[o].leaseCount <= 0 /\ Spares(o)

\* A step that is not one of a call.
LEMMA CollectorKeeps ==
  ASSUME LeaseInv, LeaseInv', BandLeases, UNCHANGED <<cl, used>>,
         \A o \in Objs : obj'[o].key = obj[o].key /\ obj'[o].init = obj[o].init,
         now' = now \/ \A c \in Clients : ~FlowUnpinned(c),
         NoFailure => CollectorMoves /\ Ranging' /\ Mapped' /\ Counted'
  PROVE  BandLeases'
<1> SUFFICES ASSUME NoFailure'
             PROVE  /\ CallsSucceed' /\ CreatedApart' /\ Fresh' /\ MarkedIdle' /\ Mapped'
                    /\ BandPinned' /\ Ranging' /\ Counted'
  BY Zenon DEF BandLeases
<1>1. NoFailure
  BY Zenon DEF NoFailure, ProvisioningFailed
<1>2. /\ CallsSucceed /\ CreatedApart /\ Fresh /\ MarkedIdle /\ BandPinned
      /\ CollectorMoves /\ Ranging' /\ Mapped' /\ Counted'
  BY <1>1, Zenon DEF BandLeases
<1>3. CallsSucceed' /\ CreatedApart'
  BY <1>2, Zenon DEF CallsSucceed, CreatedApart, Making, Created
<1>4. Fresh'
  <2> SUFFICES ASSUME NEW c \in Clients, FlowUnpinned(c)
               PROVE  /\ ~obj'[cl[c].cand].markedForDeletion
                      /\ obj'[cl[c].cand].becameIdleAt \in {0, now'}
                      /\ \A d \in Clients : cl[d].state = cl[c].cand => Making(d) \/ cl[d].opened = now'
    BY Zenon DEF Fresh, FlowUnpinned, Making
  <2>1. /\ cl[c].cand \in 1..used /\ IsFlow(cl[c].cand) /\ now' = now
    BY CallFacts, Zenon DEF FlowUnpinned, CallOK, Target, IsFlow
  <2>2. /\ ~obj[cl[c].cand].markedForDeletion /\ obj[cl[c].cand].becameIdleAt \in {0, now}
        /\ \A d \in Clients : cl[d].state = cl[c].cand => Making(d) \/ cl[d].opened = now
    BY <1>2, Zenon DEF Fresh
  <2>3. ~Spares(cl[c].cand)
    BY Zenon DEF Spares
  <2> QED BY <1>2, <2>1, <2>2, <2>3, Zenon DEF CollectorMoves
<1>5. MarkedIdle'
  <2> SUFFICES ASSUME NEW o \in 1..used, obj'[o].markedForDeletion
               PROVE  obj'[o].leaseCount <= 0
    BY Zenon DEF MarkedIdle
  <2>1. CASE obj[o].markedForDeletion /\ obj'[o].leaseCount <= obj[o].leaseCount
    <3>1. obj[o].leaseCount \in Int /\ obj[o].leaseCount <= 0
      BY <1>2, <2>1, CallFacts, Zenon DEF MarkedIdle
    <3>2. obj'[o].leaseCount \in Int
      BY CallFacts, Zenon DEF LeaseInv, TypeInv, ObjType
    <3> QED BY <2>1, <3>1, <3>2, SMTT(30)
  <2> QED BY <1>2, <2>1, Zenon DEF CollectorMoves
<1>6. BandPinned'
  <2> SUFFICES ASSUME NEW c \in Clients, cl[c].pc = "recheck", cl[c].forBand
               PROVE  ~obj'[cl[c].cand].markedForDeletion
    BY Zenon DEF BandPinned
  <2>1. cl[c].cand \in 1..used /\ ~obj[cl[c].cand].markedForDeletion
    BY <1>2, CallFacts, Zenon DEF CallOK, BandPinned
  <2>2. ~Spares(cl[c].cand)
    BY Zenon DEF Spares
  <2> QED BY <1>2, <2>1, <2>2, Zenon DEF CollectorMoves
<1> QED BY <1>2, <1>3, <1>4, <1>5, <1>6, Zenon

\* A step that leaves the map, the objects and what is owed alone.
LEMMA QuietKeeps ==
  ASSUME LeaseInv, LeaseInv', BandLeases, UNCHANGED <<leaseVars, cl>>,
         now' = now \/ \A c \in Clients : ~FlowUnpinned(c),
         NoFailure => /\ Ranging' /\ OwedFlows' = OwedFlows
                      /\ gc'.pc \in {"check", "delete"} => map[gc'.key] = gc'.cand
  PROVE  BandLeases'
<1>1. ASSUME NoFailure PROVE CollectorMoves /\ Mapped' /\ Counted'
  <2>1. /\ Mapped /\ Counted /\ OwedFlows' = OwedFlows
        /\ gc'.pc \in {"check", "delete"} => map[gc'.key] = gc'.cand
    BY <1>1, Zenon DEF BandLeases
  <2>2. CollectorMoves
    <3>1. \A o \in 1..used : obj[o].leaseCount \in Int /\ obj' = obj
      BY CallFacts, Zenon DEF leaseVars
    <3> QED BY <3>1 DEF CollectorMoves
  <2>3. Mapped'
    BY <2>1, Zenon DEF Mapped, leaseVars
  <2>4. \A p \in Prios : Leased(p)' = Leased(p) /\ Owed(p)' = Owed(p)
    BY <2>1, Zenon DEF Leased, Owed, Awaited, AwaitsBand, Making, leaseVars
  <2>5. Counted'
    BY <2>1, <2>4, Zenon DEF Counted, leaseVars
  <2> QED BY <2>2, <2>3, <2>5, Zenon
<1> QED BY <1>1, CollectorKeeps, Zenon DEF leaseVars

\* A collection that begins, visits a key or comes to its next phase.
LEMMA QuietCollector ==
  ASSUME LeaseInv, LeaseInv', BandLeases,
         \/ executeGCCycle \/ gcRanged \/ cleanupFlowResources
         \/ cleanupPriorityBandResources \/ sweepDrainingShards
         \/ \E k \in Keys : gcVisit(k)
  PROVE  BandLeases'
<1> DEFINE Goal == /\ Ranging' /\ OwedFlows' = OwedFlows
                   /\ gc'.pc \in {"check", "delete"} => map[gc'.key] = gc'.cand
<1>1. UNCHANGED <<leaseVars, cl>> /\ now' = now
  BY Zenon DEF executeGCCycle, gcRanged, cleanupFlowResources, cleanupPriorityBandResources,
     sweepDrainingShards, gcVisit, gcFrame
<1>2. SUFFICES ASSUME NoFailure PROVE Goal
  BY <1>1, QuietKeeps, Zenon
<1>3. Ranging /\ gc \in GCType /\ IsFiniteSet({}) /\ Flows \intersect Prios = {}
  BY <1>2, FS_EmptySet, RegistryAssumption, Zenon DEF BandLeases, LeaseInv, TypeInv
<1>4. \A ph \in {"flows", "bands"} :
        /\ Collect(ph).pc = "range" /\ Collect(ph).phase = ph /\ Collect(ph).at = now
        /\ Collect(ph).todo = (IF ph = "flows" THEN Flows ELSE Prios) /\ Collect(ph).dead = {}
  BY Zenon DEF Collect, NoGC
<1>5. ASSUME NEW ph \in {"flows", "bands"}, gc' = Collect(ph), OwedFlows = {} PROVE Goal
  <2>1. /\ gc'.pc = "range" /\ gc'.phase = ph /\ gc'.at = now
        /\ gc'.todo = (IF ph = "flows" THEN Flows ELSE Prios) /\ gc'.dead = {}
    BY <1>4, <1>5, Zenon
  <2>2. Ranging'
    BY <1>1, <1>3, <2>1, Zenon DEF Ranging
  <2> QED BY <1>5, <2>1, <2>2, Zenon DEF OwedFlows
<1>6. CASE executeGCCycle
  <2>1. gc.pc = "idle" /\ gc' = Collect("flows")
    BY <1>6, Zenon DEF executeGCCycle
  <2> QED BY <1>5, <2>1, Zenon DEF OwedFlows
<1>7. CASE cleanupFlowResources
  <2>1. gc.pc = "flowRest" /\ gc' = Collect("bands")
    BY <1>7, Zenon DEF cleanupFlowResources
  <2> QED BY <1>5, <2>1, Zenon DEF OwedFlows
<1>8. CASE cleanupPriorityBandResources
  <2>1. gc.pc = "bandRest" /\ gc' = [gc EXCEPT !.pc = "sweep"]
    BY <1>8, Zenon DEF cleanupPriorityBandResources
  <2>2. gc'.pc = "sweep" /\ gc'.at = gc.at /\ gc'.dead = gc.dead
    BY <1>3, <2>1, Zenon DEF GCType
  <2> QED BY <1>1, <1>3, <2>1, <2>2, Zenon DEF Ranging, OwedFlows
<1>9. CASE sweepDrainingShards
  <2>1. gc.pc = "sweep" /\ gc'.pc = "idle" /\ gc'.dead = {}
    BY <1>9, Zenon DEF sweepDrainingShards, NoGC
  <2> QED BY <1>3, <2>1, Zenon DEF Ranging, OwedFlows
<1>10. CASE \E k \in Keys : gcVisit(k)
  <2> PICK k \in Keys : gcVisit(k)
    BY <1>10, Zenon
  <2>1. gc.pc = "range" /\ k \in gc.todo
    BY Zenon DEF gcVisit
  <2>2. /\ gc'.phase = gc.phase /\ gc'.at = gc.at /\ gc'.dead = gc.dead /\ gc'.todo = gc.todo \ {k}
        /\ \/ gc'.pc = "range"
           \/ gc'.pc = "check" /\ gc'.key = k /\ gc'.cand = map[k]
    <3>1. CASE map[k] = 0
      <4>1. gc' = [gc EXCEPT !.todo = @ \ {k}]
        BY <3>1, Zenon DEF gcVisit
      <4> QED BY <1>3, <2>1, <4>1, Zenon DEF GCType
    <3>2. CASE map[k] # 0
      <4>1. gc' = [gc EXCEPT !.todo = @ \ {k}, !.pc = "check", !.key = k, !.cand = map[k]]
        BY <3>2, Zenon DEF gcVisit
      <4> QED BY <1>3, <4>1, Zenon DEF GCType
    <3> QED BY <3>1, <3>2, Zenon
  <2>3. gc.phase = "flows" => gc.todo \subseteq Flows
    BY <1>3, <2>1, Zenon DEF Ranging
  <2>4. gc.phase = "bands" => gc.todo \subseteq Prios
    BY <1>3, <2>1, Zenon DEF Ranging
  <2>5. gc.phase \in {"flows", "bands"}
    BY <1>3, Zenon DEF GCType
  <2>6. k \in Flows <=> gc.phase = "flows"
    BY <1>3, <2>1, <2>3, <2>4, <2>5, Zenon
  <2>7. gc.dead \intersect gc.todo = {} /\ IsFiniteSet(gc.dead) /\ gc.at = now
    BY <1>3, <2>1, Zenon DEF Ranging
  <2>8. gc.phase = "flows" => gc.dead \subseteq Flows
    BY <1>3, <2>1, Zenon DEF Ranging
  <2>9. Ranging'
    BY <1>1, <2>1, <2>2, <2>3, <2>4, <2>6, <2>7, <2>8, Zenon DEF Ranging
  <2> QED BY <1>1, <2>1, <2>2, <2>9, Zenon DEF OwedFlows
<1>11. CASE gcRanged
  <2>1. gc.pc = "range" /\ gc.todo = {} /\ gc.phase \in {"flows", "bands"}
    BY <1>3, <1>11, Zenon DEF gcRanged, GCType
  <2>2. CASE gc.phase = "flows" /\ gc.dead = {}
    <3>1. gc' = Collect("bands")
      BY <1>11, <2>2, Zenon DEF gcRanged
    <3> QED BY <1>5, <2>1, <2>2, <3>1, Zenon DEF OwedFlows
  <2>3. CASE gc.phase = "flows" /\ gc.dead # {}
    <3>1. gc' = [gc EXCEPT !.pc = "unpin", !.todo = gc.dead]
      BY <1>11, <2>3, Zenon DEF gcRanged
    <3>2. /\ gc'.pc = "unpin" /\ gc'.todo = gc.dead /\ gc'.dead = gc.dead
          /\ gc'.phase = gc.phase /\ gc'.at = gc.at
      BY <1>3, <3>1, Zenon DEF GCType
    <3> QED BY <1>1, <1>3, <2>1, <2>3, <3>2, Zenon DEF Ranging, OwedFlows
  <2>4. CASE gc.phase = "bands"
    <3>1. /\ gc'.pc \in {"sweep", "bandRest"} /\ gc'.dead = gc.dead
          /\ gc'.phase = gc.phase /\ gc'.at = gc.at
      BY <1>3, <1>11, <2>4, Zenon DEF gcRanged, GCType
    <3> QED BY <1>1, <1>3, <2>1, <2>4, <3>1, Zenon DEF Ranging, OwedFlows
  <2> QED BY <2>1, <2>2, <2>3, <2>4, Zenon
<1> QED BY <1>6, <1>7, <1>8, <1>9, <1>10, <1>11, Zenon

\* checkAndMarkForDeletion keeps the count, and marks only what has been idle for
\* the timeout.
LEMMA MarkTimes ==
  ASSUME NEW ls \in ObjType, NEW timeout, NEW t \in Nat
  PROVE  LET r == checkAndMarkForDeletion(ls, timeout, t)
         IN r.becameIdleAt \in {ls.becameIdleAt, 0, t}
<1>1. [ls EXCEPT !.markedForDeletion = TRUE].becameIdleAt = ls.becameIdleAt
  BY Zenon DEF ObjType
<1>2. /\ [ls EXCEPT !.becameIdleAt = 0].becameIdleAt = 0
      /\ [ls EXCEPT !.becameIdleAt = t].becameIdleAt = t
  BY Zenon DEF ObjType
<1> QED BY <1>1, <1>2, Zenon DEF checkAndMarkForDeletion

\* A flow whose call has pinned the band is leased.
LEMMA PinnedIsLeased ==
  ASSUME LeaseInv, NoFailure, BandLeases, NEW c \in Clients,
         cl[c].pc = "recheck", cl[c].forBand
  PROVE  cl[c].flow \in Leased(PrioFor(c))
<1>1. Making(c) /\ ~AwaitsBand(c)
  BY Zenon DEF Making, AwaitsBand, Pinning
<1>2. cl[c].flow \in Flows /\ map[cl[c].flow] # 0
  BY <1>1, CreatedMapped, SMTT(30)
<1>3. ~Awaited(cl[c].flow)
  BY <1>1, OneMaker, Zenon DEF Awaited, AwaitsBand
<1> QED BY <1>2, <1>3, Zenon DEF Leased, PrioFor

\* The counts of the two kinds of flows that have the band's lease.
LEMMA CountTypes ==
  ASSUME LeaseInv, NoFailure, BandLeases, NEW p \in Prios
  PROVE  /\ IsFiniteSet(Leased(p)) /\ Cardinality(Leased(p)) \in Nat
         /\ IsFiniteSet(Owed(p)) /\ Cardinality(Owed(p)) \in Nat
         /\ Leased(p) # {} => Cardinality(Leased(p)) >= 1
         /\ Owed(p) # {} => Cardinality(Owed(p)) >= 1
<1>1. IsFiniteSet(Leased(p))
  BY MappedFinite, Zenon
<1>2. Owed(p) \subseteq gc.dead /\ IsFiniteSet(gc.dead)
  BY Zenon DEF Owed, OwedFlows, BandLeases, Ranging
<1>3. IsFiniteSet(Owed(p))
  BY <1>2, FS_Subset, Zenon
<1>4. /\ Cardinality(Leased(p)) \in Nat /\ Cardinality(Owed(p)) \in Nat
  BY <1>1, <1>3, FS_CardinalityType, Zenon
<1>5. /\ Leased(p) # {} => Cardinality(Leased(p)) # 0
      /\ Owed(p) # {} => Cardinality(Owed(p)) # 0
  BY <1>1, <1>3, FS_EmptySet, Zenon
<1> QED BY <1>1, <1>3, <1>4, <1>5

\* The collector checks an object: no call is about to use one that it marks.
LEMMA GCCheckBands ==
  ASSUME LeaseInv, LeaseInv', BandLeases, gcCheck
  PROVE  BandLeases'
<1> DEFINE b == gc.cand
           r == checkAndMarkForDeletion(obj[b], Timeout, gc.at)
<1>1. /\ gc \in GCType /\ gc.at \in Nat /\ gc.key \in Keys /\ b \in 1..used /\ obj[b].key = gc.key
      /\ gc.pc = "check"
  BY Zenon DEF LeaseInv, TypeInv, GCInv, GCType, gcCheck
<1>2. obj' = [obj EXCEPT ![b] = r] /\ UNCHANGED <<map, used, cl, now>>
  BY Zenon DEF gcCheck, gcFrame
<1>3. /\ gc'.key = gc.key /\ gc'.cand = gc.cand /\ gc'.phase = gc.phase /\ gc'.at = gc.at
      /\ gc'.dead = gc.dead /\ gc'.todo = gc.todo
      /\ gc'.pc \in {"delete", "range"}
  BY <1>1, Zenon DEF gcCheck, GCType
<1>4. /\ obj[b] \in ObjType /\ b \in Objs /\ obj \in [Objs -> ObjType]
      /\ obj[b].leaseCount \in Int /\ obj[b].becameIdleAt \in Int
  BY <1>1, CallFacts, Zenon DEF ObjType
<1>5. /\ r.key = obj[b].key /\ r.init = obj[b].init /\ r.leaseCount = obj[b].leaseCount
      /\ r.becameIdleAt \in {obj[b].becameIdleAt, 0, gc.at}
      /\ ~mustMark(obj[b], Timeout, gc.at) => r.markedForDeletion = obj[b].markedForDeletion
  BY <1>1, <1>4, MarkChange, MarkTimes, SMTT(60)
<1> HIDE DEF r
<1>6. \A o \in Objs : obj'[o] = IF o = b THEN r ELSE obj[o]
  BY <1>2, <1>4, Zenon
<1>7. \A o \in Objs : /\ obj'[o].key = obj[o].key /\ obj'[o].init = obj[o].init
                      /\ obj'[o].leaseCount = obj[o].leaseCount
  BY <1>5, <1>6, Zenon
<1>8. ASSUME NoFailure PROVE CollectorMoves /\ Ranging' /\ Mapped' /\ Counted'
  <2>1. /\ Ranging /\ Mapped /\ Counted /\ Fresh /\ gc.at = now /\ map[gc.key] = b
    BY <1>1, <1>8, Zenon DEF BandLeases, Ranging, Mapped
  <2>2. Ranging'
    BY <1>1, <1>2, <1>3, <2>1, Zenon DEF Ranging
  <2>3. Mapped'
    <3>1. \A o \in 1..used : obj[o].markedForDeletion => obj'[o].markedForDeletion
      <4>1. obj[b].markedForDeletion => r.markedForDeletion
        BY <1>1, <1>4, <1>5, MarkChange, ZenonT(30) DEF r
      <4> QED BY <1>6, <4>1, CallFacts, Zenon
    <3>2. \A o \in 1..used : obj'[o].key = obj[o].key
      BY <1>7, CallFacts, Zenon
    <3> QED BY <1>1, <1>2, <1>3, <2>1, <3>1, <3>2, Zenon DEF Mapped
  <2>4. Counted'
    <3>1. \A p \in Prios : Leased(p)' = Leased(p)
      BY <1>2, Zenon DEF Leased, Awaited, AwaitsBand, Making
    <3>2. OwedFlows' = OwedFlows
      BY <1>1, <1>3, Zenon DEF OwedFlows
    <3>3. \A p \in Prios : map[p] # 0 => map[p] \in Objs
      BY CallFacts DEF Objs, Keys
    <3>4. \A p \in Prios : map'[p] = map[p] /\ (map[p] # 0 => obj'[map[p]].leaseCount = obj[map[p]].leaseCount)
      BY <1>2, <1>7, <3>3, Zenon
    <3>5. \A p \in Prios : Owed(p)' = Owed(p)
      BY <3>2, Zenon DEF Owed
    <3> QED BY <2>1, <3>1, <3>4, <3>5 DEF Counted
  <2>5. ASSUME mustMark(obj[b], Timeout, gc.at) PROVE obj[b].leaseCount <= 0 /\ Spares(b)
    <3>1. /\ obj[b].leaseCount <= 0 /\ obj[b].becameIdleAt # 0
          /\ gc.at - obj[b].becameIdleAt >= Timeout
      BY <2>5, Zenon DEF mustMark
    <3>2. Timeout \in Nat /\ Timeout >= 1
      BY RegistryAssumption, SMTT(30) DEF Timeout
    <3>3. obj[b].becameIdleAt \notin {0, now}
      BY <1>1, <1>4, <2>1, <3>1, <3>2, SMTT(30)
    <3>4. ASSUME NEW c \in Clients, FlowUnpinned(c), cl[c].cand = b PROVE FALSE
      BY <2>1, <3>3, <3>4, Zenon DEF Fresh
    <3>5. ASSUME NEW c \in Clients, cl[c].pc = "recheck", cl[c].forBand, cl[c].cand = b PROVE FALSE
      <4> DEFINE p == PrioFor(c)
      <4>1. p \in Prios /\ gc.key = p
        BY <1>1, <3>5, CallFacts, TargetType, Zenon DEF CallOK, Target, PrioFor
      <4>2. Leased(p) # {}
        BY <1>8, <3>5, PinnedIsLeased, Zenon
      <4> HIDE DEF p
      <4>3. /\ Cardinality(Leased(p)) \in Nat /\ Cardinality(Leased(p)) >= 1
            /\ Cardinality(Owed(p)) \in Nat
        BY <1>8, <4>1, <4>2, CountTypes, Zenon
      <4>4. Cardinality(Leased(p)) + Cardinality(Owed(p)) = obj[b].leaseCount
        BY <1>1, <2>1, <4>1, SMTT(30) DEF Counted
      <4> QED BY <1>4, <3>1, <4>3, <4>4, SMTT(30)
    <3> QED BY <3>1, <3>4, <3>5, Zenon DEF Spares
  <2>6. CollectorMoves
    <3> SUFFICES ASSUME NEW o \in 1..used
                 PROVE  /\ obj'[o].becameIdleAt \in {obj[o].becameIdleAt, 0, now}
                        /\ obj'[o].markedForDeletion =>
                             \/ obj[o].markedForDeletion /\ obj'[o].leaseCount <= obj[o].leaseCount
                             \/ obj'[o].leaseCount <= 0 /\ Spares(o)
      BY Zenon DEF CollectorMoves
    <3>1. o \in Objs /\ obj[o].leaseCount \in Int
      BY CallFacts, Zenon
    <3>2. CASE o = b
      BY <1>5, <1>6, <2>1, <2>5, <3>1, <3>2, SMTT(60)
    <3>3. CASE o # b
      BY <1>6, <3>1, <3>3
    <3> QED BY <3>2, <3>3, Zenon
  <2> QED BY <2>2, <2>3, <2>4, <2>6, Zenon
<1> QED BY <1>2, <1>7, <1>8, CollectorKeeps, Zenon

\* The collector removes a key: a flow now owes its lease, a band has none.
LEMMA GCDeleteBands ==
  ASSUME LeaseInv, LeaseInv', BandLeases, gcDelete
  PROVE  BandLeases'
<1> DEFINE k == gc.key
<1>1. /\ gc \in GCType /\ k \in Keys /\ gc.cand \in 1..used /\ obj[gc.cand].key = k
      /\ obj[gc.cand].markedForDeletion /\ gc.pc = "delete"
  BY Zenon DEF LeaseInv, TypeInv, GCInv, gcDelete
<1>2. map' = [map EXCEPT ![k] = 0] /\ UNCHANGED <<obj, used, cl, now>>
  BY Zenon DEF gcDelete, gcFrame
<1>3. map'[k] = 0 /\ \A j \in Keys : j # k => map'[j] = map[j]
  BY <1>1, <1>2, CallFacts, Zenon
<1>4. ASSUME NoFailure PROVE CollectorMoves /\ Ranging' /\ Mapped' /\ Counted'
  <2>1. /\ Ranging /\ Mapped /\ Counted /\ MarkedIdle /\ map[k] = gc.cand /\ map[k] # 0
    BY <1>1, <1>4 DEF BandLeases, Mapped
  <2>2. /\ gc'.pc = "range" /\ gc'.phase = gc.phase /\ gc'.at = gc.at /\ gc'.todo = gc.todo
        /\ gc'.dead = gc.dead \union {k}
    <3>1. gc' = [gc EXCEPT !.pc = "range", !.dead = @ \union {k}]
      BY <2>1, Zenon DEF gcDelete
    <3> QED BY <1>1, <3>1, Zenon DEF GCType
  <2>3. /\ k \notin gc.dead \union gc.todo /\ (k \in Flows <=> gc.phase = "flows")
        /\ gc.at = now /\ IsFiniteSet(gc.dead) /\ gc.dead \intersect gc.todo = {}
        /\ gc.phase = "flows" => gc.dead \subseteq Flows /\ gc.todo \subseteq Flows
        /\ gc.phase = "bands" => gc.todo \subseteq Prios
    BY <1>1, <2>1, Zenon DEF Ranging
  <2>4. Ranging'
    <3>1. IsFiniteSet(gc.dead \union {k})
      BY <2>3, FS_AddElement, Zenon
    <3> QED BY <1>2, <2>2, <2>3, <3>1, Zenon DEF Ranging
  <2>5. Mapped'
    BY <1>1, <1>2, <1>3, <2>1, <2>2, SMTT(30) DEF Mapped
  <2>6. CollectorMoves
    <3>1. \A o \in 1..used : obj[o].leaseCount \in Int /\ obj' = obj
      BY <1>2, CallFacts, Zenon
    <3> QED BY <3>1 DEF CollectorMoves
  <2>7. Counted'
    <3> SUFFICES ASSUME NEW p \in Prios
                 PROVE  Cardinality(Leased(p)') + Cardinality(Owed(p)') =
                          IF map'[p] = 0 THEN 0 ELSE obj[map'[p]].leaseCount
      BY <1>2, Zenon DEF Counted
    <3>1. \A f \in Flows : Awaited(f)' <=> Awaited(f)
      BY <1>2, Zenon DEF Awaited, AwaitsBand, Making
    <3>2. p \in Keys /\ p \notin Flows
      BY RegistryAssumption, Zenon DEF Keys
    <3>3. Cardinality(Leased(p)) + Cardinality(Owed(p)) =
            IF map[p] = 0 THEN 0 ELSE obj[map[p]].leaseCount
      BY <2>1, Zenon DEF Counted
    <3>4. /\ IsFiniteSet(Leased(p)) /\ Cardinality(Leased(p)) \in Nat
          /\ IsFiniteSet(Owed(p)) /\ Cardinality(Owed(p)) \in Nat
      BY <1>4, CountTypes, Zenon
    <3>5. CASE k \in Flows /\ PrioOf[k] = p
      <4>1. ~Awaited(k)
        <5> SUFFICES ASSUME NEW c \in Clients, AwaitsBand(c), cl[c].flow = k PROVE FALSE
          BY Zenon DEF Awaited
        <5>1. map[k] = Created(c) /\ ~obj[Created(c)].markedForDeletion
          BY <1>4, CreatedMapped, Zenon DEF AwaitsBand
        <5> QED BY <1>1, <2>1, <5>1, Zenon
      <4>2. k \in Leased(p) /\ Leased(p)' = Leased(p) \ {k}
        BY <1>1, <1>3, <2>1, <3>1, <3>5, <4>1, Zenon DEF Leased, Keys
      <4>3. OwedFlows = gc.dead /\ OwedFlows' = gc.dead \union {k}
        BY <1>1, <2>2, <2>3, <3>5, Zenon DEF OwedFlows
      <4>4. k \notin Owed(p) /\ Owed(p)' = Owed(p) \union {k}
        BY <2>3, <3>5, <4>3, Zenon DEF Owed
      <4>5. Cardinality(Leased(p)') = Cardinality(Leased(p)) - 1
        BY <3>4, <4>2, FS_RemoveElement, Zenon
      <4>6. Cardinality(Owed(p)') = Cardinality(Owed(p)) + 1
        BY <3>4, <4>4, FS_AddElement, Zenon
      <4>7. map'[p] = map[p]
        BY <1>3, <3>2, <3>5, Zenon
      <4> QED BY <3>3, <3>4, <4>5, <4>6, <4>7, SMTT(30)
    <3>6. CASE k \in Flows /\ PrioOf[k] # p
      <4>1. Leased(p)' = Leased(p)
        BY <1>3, <3>1, <3>6, Zenon DEF Leased, Keys
      <4>2. OwedFlows = gc.dead /\ OwedFlows' = gc.dead \union {k}
        BY <1>1, <2>2, <2>3, <3>6, Zenon DEF OwedFlows
      <4>3. Owed(p)' = Owed(p)
        BY <3>6, <4>2, Zenon DEF Owed
      <4>4. map'[p] = map[p]
        BY <1>3, <3>2, <3>6, Zenon
      <4> QED BY <3>3, <4>1, <4>3, <4>4, Zenon
    <3>7. CASE k \notin Flows
      <4>1. Leased(p)' = Leased(p)
        BY <1>3, <3>1, <3>7, Zenon DEF Leased, Keys
      <4>2. OwedFlows = {} /\ OwedFlows' = {}
        BY <1>1, <2>2, <2>3, <3>7, Zenon DEF OwedFlows
      <4>3. Owed(p)' = Owed(p)
        BY <4>2, Zenon DEF Owed
      <4>4. CASE k = p
        <5>1. obj[gc.cand].leaseCount <= 0 /\ obj[gc.cand].leaseCount \in Int
          BY <1>1, <2>1, CallFacts, Zenon DEF MarkedIdle
        <5>2. Cardinality(Leased(p)) + Cardinality(Owed(p)) = obj[gc.cand].leaseCount
          BY <2>1, <3>3, <4>4, Zenon
        <5>3. Cardinality(Leased(p)) + Cardinality(Owed(p)) = 0
          BY <3>4, <5>1, <5>2, SMTT(30)
        <5> QED BY <1>3, <4>1, <4>3, <4>4, <5>3, Zenon
      <4>5. CASE k # p
        BY <1>3, <3>2, <3>3, <4>1, <4>3, <4>5, Zenon
      <4> QED BY <4>4, <4>5, Zenon
    <3> QED BY <3>5, <3>6, <3>7, Zenon
  <2> QED BY <2>4, <2>5, <2>6, <2>7, Zenon
<1> QED BY <1>2, <1>4, CollectorKeeps, Zenon

\* A collected flow gives its lease on the band back.
LEMMA GCUnpinBands ==
  ASSUME LeaseInv, LeaseInv', BandLeases, NEW f \in Flows, gcUnpinBand(f)
  PROVE  BandLeases'
<1> DEFINE q == PrioOf[f]
           b == map[q]
           r == Unpinned(obj[b], now)
<1>1. /\ q \in Prios /\ q \in Keys /\ q \notin Flows
  BY RegistryAssumption, Zenon DEF Keys
<1>2. gc.pc = "unpin" /\ f \in gc.todo /\ gc \in GCType /\ UNCHANGED <<map, used, cl, now>>
  BY Zenon DEF gcUnpinBand, gcFrame, LeaseInv, TypeInv
<1>3. /\ gc'.phase = gc.phase /\ gc'.at = gc.at /\ gc'.dead = gc.dead /\ gc'.todo = gc.todo \ {f}
      /\ gc'.pc = IF gc.todo = {f} THEN "flowRest" ELSE "unpin"
  <2>1. gc' = [gc EXCEPT !.todo = @ \ {f}, !.pc = IF gc.todo = {f} THEN "flowRest" ELSE @]
    BY Zenon DEF gcUnpinBand
  <2> QED BY <1>2, <2>1, Zenon DEF GCType
<1>4. \A o \in Objs : obj'[o].key = obj[o].key /\ obj'[o].init = obj[o].init
  <2>1. CASE b = 0
    BY <2>1, Zenon DEF gcUnpinBand
  <2>2. CASE b # 0
    <3>1. b \in Objs /\ obj[b] \in ObjType /\ now \in Nat /\ obj \in [Objs -> ObjType]
      BY <1>1, <2>2, CallFacts DEF Objs
    <3>2. obj' = [obj EXCEPT ![b] = r]
      BY <2>2, Zenon DEF gcUnpinBand, releaseBand
    <3>3. r.key = obj[b].key /\ r.init = obj[b].init
      BY <3>1, LeaseChange, Zenon
    <3> HIDE DEF r
    <3> QED BY <3>1, <3>2, <3>3, Zenon
  <2> QED BY <2>1, <2>2, Zenon
<1>5. ASSUME NoFailure PROVE CollectorMoves /\ Ranging' /\ Mapped' /\ Counted'
  <2>1. /\ Ranging /\ Mapped /\ Counted /\ gc.phase = "flows" /\ gc.todo \subseteq gc.dead
        /\ gc.dead \subseteq Flows /\ gc.at = now
    BY <1>2, <1>5, ZenonT(30) DEF BandLeases, Ranging
  <2>2. Ranging'
    BY <1>2, <1>3, <2>1, Zenon DEF Ranging
  <2>3. OwedFlows = gc.todo /\ OwedFlows' = gc.todo \ {f}
    BY <1>2, <1>3, <2>1, Zenon DEF OwedFlows
  <2>4. f \in Owed(q)
    BY <1>2, <2>3, Zenon DEF Owed
  <2>5. /\ IsFiniteSet(Leased(q)) /\ Cardinality(Leased(q)) \in Nat
        /\ IsFiniteSet(Owed(q)) /\ Cardinality(Owed(q)) \in Nat /\ Cardinality(Owed(q)) >= 1
    BY <1>1, <1>5, <2>4, CountTypes, Zenon
  <2>6. Cardinality(Leased(q)) + Cardinality(Owed(q)) = IF b = 0 THEN 0 ELSE obj[b].leaseCount
    BY <1>1, <2>1, Zenon DEF Counted
  <2>7. b # 0
    BY <2>5, <2>6, SMTT(30)
  <2>8. /\ b \in Objs /\ b \in 1..used /\ obj[b] \in ObjType /\ now \in Nat
        /\ obj \in [Objs -> ObjType] /\ obj[b].key = q /\ obj[b].leaseCount \in Int
    BY <1>1, <2>7, CallFacts, SMTT(60) DEF LeaseInv, ObjInv, Objs
  <2>9. obj' = [obj EXCEPT ![b] = r]
    BY <2>7, Zenon DEF gcUnpinBand, releaseBand
  <2>10. r.key = q /\ r.leaseCount = obj[b].leaseCount - 1
         /\ r.markedForDeletion = obj[b].markedForDeletion
    BY <2>8, LeaseChange, Zenon
  <2> HIDE DEF r
  <2>11. \A o \in Objs : obj'[o] = IF o = b THEN r ELSE obj[o]
    BY <2>8, <2>9, Zenon
  <2>12. \A o \in 1..used : obj'[o].key = obj[o].key
                            /\ obj'[o].markedForDeletion = obj[o].markedForDeletion
    BY <2>8, <2>10, <2>11, CallFacts, ZenonT(30)
  <2>13. Mapped'
    BY <1>2, <1>3, <2>1, <2>12, Zenon DEF Mapped
  <2>14. CollectorMoves
    <3> SUFFICES ASSUME NEW o \in 1..used
                 PROVE  /\ IsFlow(o) => obj'[o].becameIdleAt \in {obj[o].becameIdleAt, 0, now}
                        /\ obj'[o].markedForDeletion =>
                             obj[o].markedForDeletion /\ obj'[o].leaseCount <= obj[o].leaseCount
      BY Zenon DEF CollectorMoves
    <3>1. o \in Objs /\ obj[o].leaseCount \in Int
      BY CallFacts, Zenon
    <3>2. CASE o = b
      <4>1. ~IsFlow(o)
        BY <1>1, <2>8, <3>2, ZenonT(30) DEF IsFlow
      <4>2. obj'[o].leaseCount <= obj[o].leaseCount
        BY <2>8, <2>10, <2>11, <3>2, SMTT(60)
      <4> QED BY <2>12, <4>1, <4>2, Zenon
    <3>3. CASE o # b
      BY <2>11, <3>1, <3>3
    <3> QED BY <3>2, <3>3, Zenon
  <2>15. Counted'
    <3> SUFFICES ASSUME NEW p \in Prios
                 PROVE  Cardinality(Leased(p)') + Cardinality(Owed(p)') =
                          IF map[p] = 0 THEN 0 ELSE obj'[map[p]].leaseCount
      BY <1>2, Zenon DEF Counted
    <3>1. Leased(p)' = Leased(p)
      BY <1>2, Zenon DEF Leased, Awaited, AwaitsBand, Making
    <3>2. CASE p = q
      <4>1. Owed(p)' = Owed(p) \ {f}
        BY <2>3, <3>2, Zenon DEF Owed
      <4>2. Cardinality(Owed(p)') = Cardinality(Owed(p)) - 1
        BY <2>4, <2>5, <3>2, <4>1, FS_RemoveElement, Zenon
      <4>3. obj'[map[p]].leaseCount = obj[b].leaseCount - 1
        BY <2>8, <2>10, <2>11, <3>2, ZenonT(30)
      <4>4. /\ Cardinality(Leased(p)') = Cardinality(Leased(q))
            /\ Cardinality(Owed(p)') = Cardinality(Owed(q)) - 1
        BY <3>1, <3>2, <4>2, Zenon
      <4>5. map[p] # 0 /\ obj[b].leaseCount \in Int
        BY <2>7, <2>8, <3>2, Zenon
      <4> QED BY <2>5, <2>6, <2>7, <4>3, <4>4, <4>5, SMTT(60)
    <3>3. CASE p # q
      <4>1. Owed(p)' = Owed(p)
        BY <2>3, <3>3, ZenonT(30) DEF Owed
      <4>2. map[p] # 0 => map[p] \in Objs /\ obj[map[p]].key = p
        BY CallFacts, SMTT(30) DEF LeaseInv, ObjInv, Objs, Keys
      <4>3. map[p] # 0 => obj'[map[p]] = obj[map[p]]
        BY <2>8, <2>11, <3>3, <4>2, Zenon
      <4>4. Cardinality(Leased(p)) + Cardinality(Owed(p)) =
              IF map[p] = 0 THEN 0 ELSE obj[map[p]].leaseCount
        BY <2>1, Zenon DEF Counted
      <4> QED BY <3>1, <4>1, <4>3, <4>4, ZenonT(30)
    <3> QED BY <3>2, <3>3, Zenon
  <2> QED BY <2>2, <2>13, <2>14, <2>15, Zenon
<1> QED BY <1>2, <1>4, <1>5, CollectorKeeps, Zenon

-----------------------------------------------------------------------------
(* The theorem.                                                            *)

\* The bands have no lease before the first call.
LEMMA InitBandLeases == Init => BandLeases
<1> SUFFICES ASSUME Init PROVE BandLeases
  BY Zenon
<1>1. /\ map = [k \in Keys |-> 0] /\ used = 0 /\ gc = NoGC /\ cl = [c \in Clients |-> NoCall]
  BY Zenon DEF Init
<1>2. \A c \in Clients : cl[c].pc = "idle"
  BY <1>1, Zenon DEF NoCall
<1>3. gc.pc = "idle" /\ gc.dead = {} /\ IsFiniteSet({})
  BY <1>1, FS_EmptySet, Zenon DEF NoGC
<1>4. CallsSucceed /\ CreatedApart /\ Fresh /\ MarkedIdle /\ Mapped /\ BandPinned
  BY <1>1, <1>2, <1>3, SMTT(60)
  DEF CallsSucceed, CreatedApart, Fresh, MarkedIdle, Mapped, BandPinned, Making, FlowUnpinned, Pinning
<1>5. Ranging
  BY <1>3, Zenon DEF Ranging
<1>6. \A p \in Prios : Leased(p) = {} /\ Owed(p) = {} /\ map[p] = 0
  BY <1>1, <1>3, Zenon DEF Leased, Owed, OwedFlows, Keys
<1>7. Counted
  <2>1. Cardinality({}) = 0
    BY FS_EmptySet, Zenon
  <2> QED BY <1>6, <2>1 DEF Counted
<1> QED BY <1>4, <1>5, <1>7, Zenon DEF BandLeases

\* The clock advances only when no call is about to use an object it has pinned.
LEMMA TickBands ==
  ASSUME LeaseInv, LeaseInv', BandLeases, ~Stalls, Tick
  PROVE  BandLeases'
<1>1. /\ gc.pc = "idle" /\ \A c \in Clients : cl[c].pc \in {"idle", "fn"}
      /\ UNCHANGED <<leaseVars, cl, gc>>
  BY Zenon DEF Tick
<1>2. \A c \in Clients : ~FlowUnpinned(c)
  BY <1>1, Zenon DEF FlowUnpinned
<1>3. NoFailure => Ranging' /\ OwedFlows' = OwedFlows /\ gc'.pc \notin {"check", "delete"}
  BY <1>1, Zenon DEF BandLeases, Ranging, OwedFlows
<1> QED BY <1>1, <1>2, <1>3, QuietKeeps, Zenon

\* Every step of a call and of the collector keeps the leases of the bands exact.
LEMMA NextBandLeases ==
  (~Stalls => BandLeases) /\ LeaseInv /\ LeaseInv' /\ [Next]_vars => (~Stalls => BandLeases')
<1> SUFFICES ASSUME BandLeases, LeaseInv, LeaseInv', [Next]_vars, ~Stalls PROVE BandLeases'
  BY Zenon
<1>1. ASSUME NEW c \in Clients, Client(c) \/ \E f \in Flows : WithConnection(c, f)
      PROVE  BandLeases'
  BY <1>1, ClientBands, Zenon
<1>2. ASSUME Collector PROVE BandLeases'
  BY <1>2, QuietCollector, GCCheckBands, GCDeleteBands, GCUnpinBands, Zenon DEF Collector
<1>3. ASSUME UNCHANGED <<leaseVars, cl, gc, now>> PROVE BandLeases'
  <2>1. NoFailure => /\ Ranging' /\ OwedFlows' = OwedFlows
                     /\ gc'.pc \in {"check", "delete"} => map[gc'.key] = gc'.cand
    BY <1>3, Zenon DEF BandLeases, Ranging, OwedFlows, Mapped
  <2> QED BY <1>3, <2>1, QuietKeeps, Zenon
<1>4. ASSUME NEW n \in ShardCounts, updateShardCount(n) PROVE BandLeases'
  BY <1>3, <1>4, Zenon DEF updateShardCount
<1>5. CASE UNCHANGED vars
  BY <1>3, <1>5, Zenon DEF vars
<1> QED BY <1>1, <1>2, <1>4, <1>5, TickBands, Zenon DEF Next

\* With no call and no collection half way, every flow in the map is leased.
LEMMA BandsExact ==
  ASSUME LeaseInv, ~Stalls => BandLeases
  PROVE  BandLeaseExact
<1> SUFFICES ASSUME gc.pc = "idle", \A c \in Clients : cl[c].pc \in {"idle", "fn"}, ~Stalls,
                    \A f \in Flows : ~ProvisioningFailed(f), NEW p \in Prios
             PROVE  LET n == Cardinality({f \in Flows : map[f] # 0 /\ PrioOf[f] = p})
                    IN IF map[p] = 0 THEN n = 0 ELSE obj[map[p]].leaseCount = n
  BY Zenon DEF BandLeaseExact
<1>1. NoFailure /\ BandLeases
  BY Zenon DEF NoFailure
<1>2. \A f \in Flows : ~Awaited(f)
  BY Zenon DEF Awaited, AwaitsBand, Making, Pinning
<1>3. Leased(p) = {f \in Flows : map[f] # 0 /\ PrioOf[f] = p}
  BY <1>2, Zenon DEF Leased
<1>4. Owed(p) = {}
  BY Zenon DEF Owed, OwedFlows
<1>5. Cardinality({}) = 0 /\ Cardinality(Leased(p)) \in Nat
  BY <1>1, FS_EmptySet, CountTypes, Zenon
<1>6. Cardinality(Leased(p)) + Cardinality(Owed(p)) =
        IF map[p] = 0 THEN 0 ELSE obj[map[p]].leaseCount
  BY <1>1, Zenon DEF BandLeases, Counted
<1> QED BY <1>3, <1>4, <1>5, <1>6

\* Every lease is counted exactly: that of a flow by the goroutines that hold it
\* and, between calls and collections, that of a band by the flows of its priority
\* in the map, if no goroutine stalls and no provisioning has failed.
THEOREM LeasesAreExact == Spec => []LeasesExact
<1>1. Init => (~Stalls => BandLeases)
  BY InitBandLeases, Zenon
<1>2. LeaseInv /\ (~Stalls => BandLeases) => LeasesExact
  BY BandsExact, Zenon DEF LeasesExact, LeaseInv
<1>3. (~Stalls => BandLeases) /\ LeaseInv /\ LeaseInv' /\ [Next]_vars => (~Stalls => BandLeases)'
  BY NextBandLeases, Zenon
<1> QED BY InitLease, NextLease, <1>1, <1>2, <1>3, PTL DEF Spec
=============================================================================
