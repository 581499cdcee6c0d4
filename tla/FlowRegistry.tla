---------------------------- MODULE FlowRegistry ----------------------------
(***************************************************************************)
(* The flow registry: flow states and priority band states leased through  *)
(* a sync.Map, just-in-time provisioning of bands and queues on the shards,*)
(* the garbage collector that races both, and the scaling of the shards.   *)
(*                                                                         *)
(* A flow state and a band state are objects with an identity: a deleted   *)
(* key may come back with a new object while a goroutine still works with  *)
(* the old one.  Objects are numbered in the order of their creation, 0 is *)
(* "no object".  The zero time.Time is 0, and the clock starts at 1.       *)
(*                                                                         *)
(* A step is one operation on a sync.Map, one critical section of an       *)
(* object's mutex or one critical section of the registry's mutex fr.mu.   *)
(***************************************************************************)
EXTENDS Naturals, Integers, Sequences, FiniteSets, Functions

CONSTANTS
  Flows,                \* flow keys
  Prios,                \* priorities
  PrioOf,               \* the priority of a flow key
  Clients,              \* goroutines that call WithConnection
  StaticBands,          \* priorities of the configured bands
  FlowGCTimeout, PriorityBandGCTimeout,
  InitialShardCount,
  ShardCounts,          \* arguments of updateShardCount: a bound
  Stalls,               \* may a goroutine stall while the clock advances?
  MaxShards, MaxObj, MaxTime, MaxCalls            \* bounds

ASSUME RegistryAssumption ==
  /\ IsFiniteSet(Clients) /\ Flows \intersect Prios = {}
  /\ PrioOf \in [Flows -> Prios]
  /\ StaticBands \subseteq Prios
  /\ FlowGCTimeout \in Nat \ {0} /\ PriorityBandGCTimeout \in Nat
  /\ PriorityBandGCTimeout >= FlowGCTimeout
  /\ MaxObj \in Nat /\ MaxShards \in Nat
  /\ InitialShardCount \in 1..MaxShards /\ ShardCounts \subseteq 1..MaxShards

Keys == Flows \union Prios
Objs == 1..MaxObj
Shards == 1..MaxShards

VARIABLES
  now, gcTick,          \* the clock; a tick of the collector's ticker is due
  map,                  \* flowStates and priorityBandStates: key to object
  obj, used,            \* the objects, and how many have been created
  cl, calls,            \* the goroutines of the clients; calls made so far
  gc,                   \* the goroutine of the collector
  config,               \* keys of config.PriorityBands
  statsKeys,            \* keys of perPriorityBandStats
  activeShards, drainingShards, nextShardID,
  bands, queues,        \* per shard: its bands, the flows with a queue on it
  crashed               \* a goroutine has panicked

leaseVars == <<map, obj, used>>
topoVars  == <<config, statsKeys, activeShards, drainingShards, nextShardID, bands, queues>>
vars == <<now, gcTick, leaseVars, cl, calls, gc, topoVars, crashed>>

allShards == Range(activeShards) \union drainingShards

-----------------------------------------------------------------------------
(* leasedState: the critical sections of an object's mutex.                *)

NewState(k) == [key |-> k, leaseCount |-> 0, becameIdleAt |-> 0,
                markedForDeletion |-> FALSE, init |-> "new"]

\* A lease granted on a state the collector has marked.
PinAny(ls) == TRUE

\* May tryPin grant a lease?
canPin(ls) == ~ls.markedForDeletion

Pinned(ls) == [ls EXCEPT !.leaseCount = @ + 1, !.becameIdleAt = 0]

Unpinned(ls, t) ==
  [ls EXCEPT !.leaseCount = @ - 1,
             !.becameIdleAt = IF ls.leaseCount = 1 THEN t ELSE @]

\* A retry that keeps the lease on the object it gives up.
KeepLease(ls) == ls

\* The pin loop gives back the lease on an object that has left the map.
backOff(ls) == Unpinned(ls, now)

\* Does checkAndMarkForDeletion select the object?
mustMark(ls, timeout, t) ==
  ls.leaseCount <= 0 /\ ls.becameIdleAt # 0 /\ t - ls.becameIdleAt >= timeout

checkAndMarkForDeletion(ls, timeout, t) ==
  IF mustMark(ls, timeout, t) THEN [ls EXCEPT !.markedForDeletion = TRUE]
  ELSE IF ls.leaseCount > 0 THEN [ls EXCEPT !.becameIdleAt = 0]
  ELSE IF ls.becameIdleAt = 0 THEN [ls EXCEPT !.becameIdleAt = t]
  ELSE ls

-----------------------------------------------------------------------------
(* WithConnection.                                                         *)

NoCall == [pc |-> "idle", flow |-> 0, forBand |-> FALSE, cand |-> 0, candNew |-> FALSE,
           state |-> 0, isNew |-> FALSE, opened |-> 0]

Goto(c, l) == cl' = [cl EXCEPT ![c].pc = l]
clientFrame == UNCHANGED <<now, gcTick, calls, gc>>

\* The key the client is pinning: its flow, then the flow's band.
Target(c) == IF cl[c].forBand THEN PrioOf[cl[c].flow] ELSE cl[c].flow
PrioFor(c) == PrioOf[cl[c].flow]

WithConnection(c, f) ==
  /\ cl[c].pc = "idle" /\ calls < MaxCalls
  /\ cl' = [cl EXCEPT ![c] = [@ EXCEPT !.pc = "load", !.flow = f, !.forBand = FALSE]]
  /\ calls' = calls + 1
  /\ UNCHANGED <<now, gcTick, leaseVars, gc, topoVars, crashed>>

\* pinLeasedResource: Load, or LoadOrStore of a new object.
pinLoad(c) ==
  /\ cl[c].pc = "load"
  /\ \/ /\ map[Target(c)] # 0
        /\ cl' = [cl EXCEPT ![c] = [@ EXCEPT !.pc = "pin", !.cand = map[Target(c)],
                                             !.candNew = FALSE]]
        /\ UNCHANGED leaseVars
     \/ /\ map[Target(c)] = 0 /\ used < MaxObj
        /\ used' = used + 1
        /\ obj' = [obj EXCEPT ![used'] = NewState(Target(c))]
        /\ map' = [map EXCEPT ![Target(c)] = used']
        /\ cl' = [cl EXCEPT ![c] = [@ EXCEPT !.pc = "pin", !.cand = used', !.candNew = TRUE]]
  /\ UNCHANGED <<topoVars, crashed>> /\ clientFrame

tryPin(c) ==
  /\ cl[c].pc = "pin"
  /\ IF canPin(obj[cl[c].cand])
     THEN obj' = [obj EXCEPT ![cl[c].cand] = Pinned(@)] /\ Goto(c, "recheck")
     ELSE Goto(c, "load") /\ UNCHANGED obj
  /\ UNCHANGED <<map, used, topoVars, crashed>> /\ clientFrame

\* The pin is good if the object is still the one in the map.  Otherwise back
\* off.  The idle time of the later unpin is taken when the pins are complete.
pinRecheck(c) ==
  /\ cl[c].pc = "recheck"
  /\ LET o == cl[c].cand
         done == [cl[c] EXCEPT !.pc = "init", !.opened = now]
     IN \/ /\ map[Target(c)] # o
           /\ obj' = [obj EXCEPT ![o] = backOff(@)]
           /\ Goto(c, "load")
        \/ /\ map[Target(c)] = o /\ cl[c].forBand
           /\ cl' = [cl EXCEPT ![c] = done]
           /\ UNCHANGED obj
        \/ /\ map[Target(c)] = o /\ ~cl[c].forBand
           /\ cl' = [cl EXCEPT ![c] =
                       IF cl[c].candNew
                       THEN [@ EXCEPT !.pc = "load", !.forBand = TRUE,
                                      !.state = o, !.isNew = TRUE]
                       ELSE [done EXCEPT !.state = o, !.isNew = FALSE]]
           /\ UNCHANGED obj
  /\ UNCHANGED <<map, used, topoVars, crashed>> /\ clientFrame

\* state.initialized.Do: the first caller provisions, the others wait for it.
initializedDo(c) ==
  /\ cl[c].pc = "init"
  /\ \/ /\ obj[cl[c].state].init = "new"
        /\ obj' = [obj EXCEPT ![cl[c].state].init = "busy"]
        /\ Goto(c, "exists")
     \/ obj[cl[c].state].init = "ok" /\ Goto(c, "fn") /\ UNCHANGED obj
     \/ obj[cl[c].state].init = "err" /\ Goto(c, "fail") /\ UNCHANGED obj
  /\ UNCHANGED <<map, used, topoVars, crashed>> /\ clientFrame

ensureExists(c) ==
  /\ cl[c].pc = "exists"
  /\ Goto(c, IF PrioFor(c) \in config THEN "sync" ELSE "ensure")
  /\ UNCHANGED <<leaseVars, topoVars, crashed>> /\ clientFrame

\* A band provisioned on the first shard only.
FirstShard == {activeShards[1]}

\* The shards ensurePriorityBand adds the band to.
newBandShards == Range(activeShards)

\* ensurePriorityBand, one critical section of fr.mu.  repartition reads the
\* new configuration of every band of the active shards.  The bands of two
\* flows may race here: the second finds the band and returns.
ensurePriorityBand(c) ==
  LET p == PrioFor(c) IN
  /\ cl[c].pc = "ensure"
  /\ Goto(c, "sync")
  /\ config' = config \union {p}
  /\ statsKeys' = statsKeys \union {p}
  /\ \/ (p \in config \/ map[p] # 0) /\ UNCHANGED leaseVars
     \/ /\ p \notin config /\ map[p] = 0 /\ used < MaxObj
        /\ used' = used + 1
        /\ obj' = [obj EXCEPT ![used'] = NewState(p)]
        /\ map' = [map EXCEPT ![p] = used']
  /\ crashed' = (p \notin config /\ \E s \in Range(activeShards) : ~(bands[s] \subseteq config'))
  /\ bands' = [s \in Shards |-> IF p \notin config /\ s \in newBandShards
                                THEN bands[s] \union {p} ELSE bands[s]]
  /\ UNCHANGED <<activeShards, drainingShards, nextShardID, queues>>
  /\ clientFrame

\* buildFlowComponents needs the configuration of the flow's band.
buildable(f) == PrioOf[f] \in config

\* The queues of every shard once f has one on each shard of ss.
synchronizeFlow(f, ss) ==
  [s \in Shards |-> IF s \in ss THEN queues[s] \union {f} ELSE queues[s]]

\* buildFlowComponents fails without the band's configuration; synchronizeFlow
\* dereferences the band of every shard, draining ones included.
ensureSync(c) ==
  LET p == PrioFor(c) IN
  /\ cl[c].pc = "sync"
  /\ \/ /\ ~buildable(cl[c].flow)
        /\ obj' = [obj EXCEPT ![cl[c].state].init = "err"]
        /\ Goto(c, "fail")
        /\ UNCHANGED <<queues, crashed>>
     \/ /\ buildable(cl[c].flow) /\ \E s \in allShards : p \notin bands[s]
        /\ crashed' = TRUE
        /\ UNCHANGED <<obj, cl, queues>>
     \/ /\ buildable(cl[c].flow) /\ \A s \in allShards : p \in bands[s]
        /\ queues' = synchronizeFlow(cl[c].flow, allShards)
        /\ obj' = [obj EXCEPT ![cl[c].state].init = "ok"]
        /\ Goto(c, "fn")
        /\ UNCHANGED crashed
  /\ UNCHANGED <<map, used, config, statsKeys, activeShards, drainingShards, nextShardID, bands>>
  /\ clientFrame

\* A failed provisioning: flowStates.Delete(key), whatever object is there.
failDelete(c) ==
  /\ cl[c].pc = "fail"
  /\ map' = [map EXCEPT ![cl[c].flow] = 0]
  /\ Goto(c, IF cl[c].isNew THEN "failBand" ELSE "release")
  /\ UNCHANGED <<obj, used, topoVars, crashed>> /\ clientFrame

failUnpinBand(c) ==
  /\ cl[c].pc = "failBand"
  /\ obj' = IF map[PrioFor(c)] = 0 THEN obj
            ELSE [obj EXCEPT ![map[PrioFor(c)]] = Unpinned(@, now)]
  /\ Goto(c, "release")
  /\ UNCHANGED <<map, used, topoVars, crashed>> /\ clientFrame

\* The callback returns, or the error does: the deferred unpin.
unpin(c) ==
  /\ cl[c].pc \in {"fn", "release"}
  /\ obj' = [obj EXCEPT ![cl[c].state] = Unpinned(@, cl[c].opened)]
  /\ cl' = [cl EXCEPT ![c] = NoCall]
  /\ UNCHANGED <<map, used, topoVars, crashed>> /\ clientFrame

Client(c) ==
  \/ pinLoad(c) \/ tryPin(c) \/ pinRecheck(c) \/ initializedDo(c)
  \/ ensureExists(c) \/ ensurePriorityBand(c) \/ ensureSync(c)
  \/ failDelete(c) \/ failUnpinBand(c) \/ unpin(c)

-----------------------------------------------------------------------------
(* executeGCCycle: gcFlows, gcPriorityBands, sweepDrainingShards.          *)

gcFrame == UNCHANGED <<now, cl, calls>>
Collecting == IF gc.phase = "flows" THEN Flows ELSE Prios
Timeout == IF gc.phase = "flows" THEN FlowGCTimeout ELSE PriorityBandGCTimeout
NoGC == [pc |-> "idle", phase |-> "flows", at |-> 0, todo |-> {}, key |-> 0,
         cand |-> 0, dead |-> {}]

\* collectLeasedResources reads the clock once, then ranges over the map.
Collect(phase) == [NoGC EXCEPT !.pc = "range", !.phase = phase, !.at = now,
                               !.todo = IF phase = "flows" THEN Flows ELSE Prios]

executeGCCycle ==
  /\ gc.pc = "idle" /\ gcTick
  /\ gcTick' = FALSE
  /\ gc' = Collect("flows")
  /\ UNCHANGED <<leaseVars, topoVars, crashed>> /\ gcFrame

gcVisit(k) ==
  /\ gc.pc = "range" /\ k \in gc.todo
  /\ gc' = IF map[k] = 0 THEN [gc EXCEPT !.todo = @ \ {k}]
           ELSE [gc EXCEPT !.todo = @ \ {k}, !.pc = "check", !.key = k, !.cand = map[k]]
  /\ UNCHANGED <<gcTick, leaseVars, topoVars, crashed>> /\ gcFrame

gcCheck ==
  /\ gc.pc = "check"
  /\ obj' = [obj EXCEPT ![gc.cand] = checkAndMarkForDeletion(@, Timeout, gc.at)]
  /\ gc' = [gc EXCEPT !.pc = IF mustMark(obj[gc.cand], Timeout, gc.at)
                             THEN "delete" ELSE "range"]
  /\ UNCHANGED <<gcTick, map, used, topoVars, crashed>> /\ gcFrame

\* A collector that marks and never removes.
MarkOnly ==
  /\ gc.pc = "delete"
  /\ gc' = [gc EXCEPT !.pc = "range"]
  /\ UNCHANGED <<gcTick, leaseVars, topoVars, crashed>> /\ gcFrame

\* LoadAndDelete by key: the object it removes is the one it reports.
gcDelete ==
  /\ gc.pc = "delete"
  /\ map' = [map EXCEPT ![gc.key] = 0]
  /\ gc' = [gc EXCEPT !.pc = "range",
                      !.dead = IF map[gc.key] = 0 THEN @ ELSE @ \union {gc.key}]
  /\ UNCHANGED <<gcTick, obj, used, topoVars, crashed>> /\ gcFrame

\* The range is over: gcFlows then releases the band leases one by one.
gcRanged ==
  /\ gc.pc = "range" /\ gc.todo = {}
  /\ gc' = IF gc.phase = "flows"
           THEN IF gc.dead = {} THEN Collect("bands")
                ELSE [gc EXCEPT !.pc = "unpin", !.todo = gc.dead]
           ELSE [gc EXCEPT !.pc = IF gc.dead = {} THEN "sweep" ELSE "bandRest"]
  /\ UNCHANGED <<gcTick, leaseVars, topoVars, crashed>> /\ gcFrame

\* The lease a collected flow gives back to its band.
releaseBand(ls) == Unpinned(ls, now)

gcUnpinBand(f) ==
  LET b == map[PrioOf[f]] IN
  /\ gc.pc = "unpin" /\ f \in gc.todo
  /\ obj' = IF b = 0 THEN obj ELSE [obj EXCEPT ![b] = releaseBand(@)]
  /\ gc' = [gc EXCEPT !.todo = @ \ {f}, !.pc = IF gc.todo = {f} THEN "flowRest" ELSE @]
  /\ UNCHANGED <<gcTick, map, used, topoVars, crashed>> /\ gcFrame

\* The keys to clean up: those whose key has not come back ("zombies").
Gone == {k \in gc.dead : map[k] = 0}

\* The queues of every shard without those of the flows of fs.
deleteFlow(fs) ==
  [s \in Shards |-> IF s \in allShards THEN queues[s] \ fs ELSE queues[s]]

\* One critical section of fr.mu; a flow that is back in the map is spared.
cleanupFlowResources ==
  /\ gc.pc = "flowRest"
  /\ queues' = deleteFlow(Gone)
  /\ gc' = Collect("bands")
  /\ UNCHANGED <<gcTick, leaseVars, config, statsKeys, activeShards, drainingShards,
                 nextShardID, bands, crashed>> /\ gcFrame

\* The shards a collected band is deleted from.
bandShards == allShards

cleanupPriorityBandResources ==
  /\ gc.pc = "bandRest"
  /\ config' = config \ Gone
  /\ statsKeys' = statsKeys \ Gone
  /\ bands' = [s \in Shards |-> IF s \in bandShards THEN bands[s] \ Gone ELSE bands[s]]
  /\ queues' = [s \in Shards |-> IF s \in bandShards
                                 THEN {f \in queues[s] : PrioOf[f] \notin Gone} ELSE queues[s]]
  /\ gc' = [gc EXCEPT !.pc = "sweep"]
  /\ UNCHANGED <<gcTick, leaseVars, activeShards, drainingShards, nextShardID, crashed>>
  /\ gcFrame

\* A draining shard goes once it is empty.  What it holds is ShardProcessor's
\* business: here any of them may still hold requests.
sweepDrainingShards ==
  /\ gc.pc = "sweep"
  /\ drainingShards' \in SUBSET drainingShards
  /\ gc' = NoGC
  /\ UNCHANGED <<gcTick, leaseVars, config, statsKeys, activeShards, nextShardID, bands, queues,
                 crashed>> /\ gcFrame

Collector ==
  \/ executeGCCycle \/ gcCheck \/ gcDelete \/ gcRanged
  \/ cleanupFlowResources \/ cleanupPriorityBandResources \/ sweepDrainingShards
  \/ \E k \in Keys : gcVisit(k)
  \/ \E f \in Flows : gcUnpinBand(f)

-----------------------------------------------------------------------------
(* updateShardCount, one critical section of fr.mu.                        *)

\* Scaling up provisions every flow of the map on the new shards, and leaves
\* everything as it was if the band of one of them has no configuration.
executeScaleUpLocked(n) ==
  LET more == nextShardID..(nextShardID + n - Len(activeShards) - 1)
      known == {f \in Flows : map[f] # 0}
  IN /\ n > Len(activeShards) /\ more \subseteq Shards
     /\ \A f \in known : buildable(f)
     /\ activeShards' = activeShards \o [i \in 1..(n - Len(activeShards)) |-> nextShardID + i - 1]
     /\ bands' = [s \in Shards |-> IF s \in more THEN config ELSE bands[s]]
     /\ queues' = [s \in Shards |-> IF s \in more THEN known ELSE queues[s]]
     /\ nextShardID' = nextShardID + n - Len(activeShards)
     /\ UNCHANGED drainingShards

executeScaleDownLocked(n) ==
  /\ n < Len(activeShards)
  /\ drainingShards' = drainingShards
       \union Range(SubSeq(activeShards, n + 1, Len(activeShards)))
  /\ activeShards' = SubSeq(activeShards, 1, n)
  /\ UNCHANGED <<nextShardID, bands, queues>>

updateShardCount(n) ==
  /\ \/ executeScaleUpLocked(n)
     \/ executeScaleDownLocked(n)
  /\ UNCHANGED <<now, gcTick, leaseVars, cl, calls, gc, config, statsKeys, crashed>>

-----------------------------------------------------------------------------
\* The ticker of Run fires every FlowGCTimeout, and drops a tick nobody took.
Tick ==
  /\ now < MaxTime
  /\ Stalls \/ (gc.pc = "idle" /\ ~gcTick /\ \A c \in Clients : cl[c].pc \in {"idle", "fn"})
  /\ now' = now + 1
  /\ gcTick' = (gcTick \/ now % FlowGCTimeout = 0)
  /\ UNCHANGED <<leaseVars, cl, calls, gc, topoVars, crashed>>

\* NewFlowRegistry: the configured bands exist on every initial shard.
Init ==
  /\ now = 1 /\ gcTick = FALSE
  /\ map = [k \in Keys |-> 0] /\ used = 0
  /\ obj = [o \in Objs |-> NewState(0)]
  /\ cl = [c \in Clients |-> NoCall] /\ calls = 0
  /\ gc = NoGC
  /\ config = StaticBands
  /\ statsKeys = StaticBands
  /\ activeShards = [i \in 1..InitialShardCount |-> i] /\ drainingShards = {}
  /\ nextShardID = InitialShardCount + 1
  /\ bands = [s \in Shards |-> IF s <= InitialShardCount THEN StaticBands ELSE {}]
  /\ queues = [s \in Shards |-> {}]
  /\ crashed = FALSE

Next ==
  \/ \E c \in Clients : ~crashed /\ Client(c)
  \/ \E c \in Clients, f \in Flows : ~crashed /\ WithConnection(c, f)
  \/ ~crashed /\ Collector
  \/ \E n \in ShardCounts : ~crashed /\ updateShardCount(n)
  \/ ~crashed /\ Tick
  \/ (crashed \/ now = MaxTime) /\ UNCHANGED vars

\* Every goroutine that can run does: a client ends its call, a collection
\* that has begun ends.
Fairness == WF_vars(~crashed /\ Collector) /\ \A c \in Clients : WF_vars(~crashed /\ Client(c))

Spec == Init /\ [][Next]_vars
FairSpec == Spec /\ Fairness

-----------------------------------------------------------------------------
(* Properties.                                                             *)

Holds(c, o) == cl[c].state = o \/ (cl[c].pc = "recheck" /\ cl[c].cand = o)
IsFlow(o) == obj[o].key \in Flows

\* The lease count of a flow object is the number of goroutines that hold it,
\* through every retry of the pin loop and every error path: none is lost, none
\* is given back twice.
LeaseCountExact ==
  \A o \in Objs : IsFlow(o) =>
    obj[o].leaseCount = Cardinality({c \in Clients : Holds(c, o)})

\* The provisioning of the flow has failed: buildFlowComponents found no
\* configuration of its band.
ProvisioningFailed(f) == \E o \in Objs : obj[o].key = f /\ obj[o].init = "err"

\* A goroutine inside its callback works on an object no collection has marked,
\* and this object is the one in the map.  Only the error path of WithConnection,
\* which deletes by key, may take it out of the map: that of a goroutine whose
\* provisioning of the same flow failed, as registry_unpinned_band shows it can.
ActiveFlowIsLive ==
  \A c \in Clients : cl[c].pc = "fn" =>
    /\ ~obj[cl[c].state].markedForDeletion
    /\ map[cl[c].flow] = cl[c].state \/ ProvisioningFailed(cl[c].flow)

\* While a callback runs, the flow's queue is there on every active shard: the
\* registry "guarantees that the flow's associated resources are pinned and
\* valid for the duration" of the callback.
LeasedFlowHasQueues ==
  \A c \in Clients : cl[c].pc = "fn" =>
    \A s \in Range(activeShards) : cl[c].flow \in queues[s]

\* With no call and no collection half way, a band's lease count is the number
\* of flows of that priority in the map (the invariant WithConnection states).
\* It rests on goroutines that do not stall for the length of a collection
\* period (Stalls), and is lost for good once a provisioning has failed.
BandLeaseExact ==
  (/\ gc.pc = "idle" /\ \A c \in Clients : cl[c].pc \in {"idle", "fn"}
   /\ ~Stalls /\ \A f \in Flows : ~ProvisioningFailed(f)) =>
    \A p \in Prios :
      LET n == Cardinality({f \in Flows : map[f] # 0 /\ PrioOf[f] = p})
      IN IF map[p] = 0 THEN n = 0 ELSE obj[map[p]].leaseCount = n

\* Both kinds of lease are counted exactly: no pin is lost or given back twice.
\* That of a band has the exceptions stated there.
LeasesExact == LeaseCountExact /\ BandLeaseExact

\* "All configured priority bands ... must exist on every Active shard", and no
\* other; the registry keeps statistics of exactly these.
BandsOnEveryShard ==
  ~crashed => /\ \A s \in Range(activeShards) : bands[s] = config
              /\ statsKeys = config

\* A call gets its connection, or returns its error: the pin loop, which races
\* the collector, ends.
CallsEnd == \A c \in Clients : cl[c].pc = "load" ~> (crashed \/ cl[c].pc = "idle")
=============================================================================
