------------------------- MODULE FlowRegistryProofs -------------------------
(***************************************************************************)
(* The leases of the flow registry: for any number of flows, goroutines    *)
(* and objects, and however goroutines stall, a flow's lease count is      *)
(* exact, no collection takes a leased flow away, and the bands of every   *)
(* active shard are those of the configuration.                            *)
(***************************************************************************)
EXTENDS FlowRegistry, FiniteSetTheorems, TLAPS

-----------------------------------------------------------------------------
(* The inductive invariant.                                                *)

Pinning == {"load", "pin", "recheck"}
Provisioning == {"exists", "ensure", "sync"}

ObjType ==
  [key : Keys \union {0}, leaseCount : Int, becameIdleAt : Int,
   markedForDeletion : BOOLEAN, init : {"new", "busy", "ok", "err"}]

CallType ==
  [pc : {"idle", "init", "fn", "fail", "failBand", "release"} \union Pinning \union Provisioning,
   flow : Flows \union {0}, forBand : BOOLEAN, cand : 0..MaxObj, candNew : BOOLEAN,
   state : 0..MaxObj, isNew : BOOLEAN, opened : Nat]

GCType ==
  [pc : {"idle", "range", "check", "delete", "unpin", "flowRest", "bandRest", "sweep"},
   phase : {"flows", "bands"}, at : Nat, todo : SUBSET Keys, key : Keys \union {0},
   cand : 0..MaxObj, dead : SUBSET Keys]

TypeInv ==
  /\ now \in Nat
  /\ used \in 0..MaxObj
  /\ map \in [Keys -> 0..MaxObj]
  /\ obj \in [Objs -> ObjType]
  /\ cl \in [Clients -> CallType]
  /\ gc \in GCType

\* Objects are created in order, and keep their key.
ObjInv ==
  /\ \A o \in Objs : o > used => obj[o] = NewState(0)
  /\ \A k \in Keys : map[k] # 0 => map[k] <= used /\ obj[map[k]].key = k

\* Where a call is, and the objects it works with.
CallOK(c) ==
  /\ cl[c].pc # "idle" => cl[c].flow \in Flows
  /\ cl[c].pc \in {"pin", "recheck"} =>
       cl[c].cand \in 1..used /\ obj[cl[c].cand].key = Target(c)
  /\ IF cl[c].pc = "idle" \/ (cl[c].pc \in Pinning /\ ~cl[c].forBand)
     THEN cl[c].state = 0
     ELSE cl[c].state \in 1..used /\ obj[cl[c].state].key = cl[c].flow

CallInv == \A c \in Clients : CallOK(c)

\* The object the collector looks at.
GCInv ==
  gc.pc \in {"check", "delete"} =>
    /\ gc.key \in Keys /\ gc.cand \in 1..used /\ obj[gc.cand].key = gc.key
    /\ gc.pc = "delete" => obj[gc.cand].markedForDeletion
    /\ gc.key \in Flows => map[gc.key] = gc.cand \/ ProvisioningFailed(gc.key)

\* sync.Once: one goroutine at a time provisions a flow, and its result stays.
OnceInv ==
  /\ \A c \in Clients : cl[c].pc \in Provisioning => obj[cl[c].state].init = "busy"
  /\ \A c, d \in Clients :
       cl[c].pc \in Provisioning /\ cl[d].pc \in Provisioning /\ cl[c].state = cl[d].state => c = d
  /\ \A c \in Clients : cl[c].pc = "fail" => obj[cl[c].state].init = "err"

\* A leased flow is not marked, and is the one in the map.
HeldInv ==
  /\ \A c \in Clients, o \in Objs : Holds(c, o) /\ IsFlow(o) => ~obj[o].markedForDeletion
  /\ \A c \in Clients : cl[c].state # 0 =>
       map[cl[c].flow] = cl[c].state \/ ProvisioningFailed(cl[c].flow)

LeaseInv == TypeInv /\ ObjInv /\ CallInv /\ GCInv /\ OnceInv /\ LeaseCountExact /\ HeldInv

-----------------------------------------------------------------------------
(* The steps of a call.                                                    *)

\* The key a call is pinning is a flow, or the priority of one.
LEMMA TargetType ==
  ASSUME LeaseInv, NEW c \in Clients, cl[c].pc # "idle"
  PROVE  /\ Target(c) \in Keys /\ PrioFor(c) \in Prios /\ PrioFor(c) \notin Flows
         /\ Target(c) \in Flows <=> ~cl[c].forBand
         /\ ~cl[c].forBand => Target(c) = cl[c].flow
BY RegistryAssumption, Zenon DEF LeaseInv, TypeInv, CallType, CallInv, CallOK, Target, PrioFor, Keys

\* What no step of a call does to the objects: one that exists keeps its key
\* and its mark, a failed provisioning stays failed, a flow leaves the map only
\* if its provisioning has failed, and an object it creates has no lease.
KeepsObjects ==
  /\ used' \in 0..MaxObj /\ used <= used'
  /\ map' \in [Keys -> 0..MaxObj] /\ obj' \in [Objs -> ObjType]
  /\ ObjInv'
  /\ \A o \in 1..used : /\ obj'[o].key = obj[o].key
                        /\ obj'[o].markedForDeletion = obj[o].markedForDeletion
                        /\ obj[o].init = "err" => obj'[o].init = "err"
  /\ \A f \in Flows : map[f] # 0 => map'[f] = map[f] \/ ProvisioningFailed(f)
  /\ \A o \in Objs : o > used => obj'[o].leaseCount = 0

\* What a step of the call c does to its lease: the count of a flow follows what
\* the call holds, and a lease is taken on an unmarked object.
LeaseMoves(c) ==
  /\ \A o \in 1..used : IsFlow(o) =>
       obj'[o].leaseCount = obj[o].leaseCount + (IF Holds(c, o)' THEN 1 ELSE 0)
                                              - (IF Holds(c, o) THEN 1 ELSE 0)
  /\ \A o \in Objs : Holds(c, o)' =>
       o <= used /\ (IsFlow(o) => Holds(c, o) \/ ~obj[o].markedForDeletion)
  /\ \/ cl'[c].state = 0
     \/ cl'[c].state = cl[c].state /\ cl'[c].flow = cl[c].flow
     \/ map'[cl'[c].flow] = cl'[c].state

\* What it does to the sync.Once of the flow.
OnceMoves(c) ==
  /\ cl'[c].pc \in Provisioning =>
       /\ obj'[cl'[c].state].init = "busy"
       /\ \/ cl[c].pc \in Provisioning /\ cl'[c].state = cl[c].state
          \/ obj[cl'[c].state].init # "busy"
  /\ cl'[c].pc = "fail" => obj'[cl'[c].state].init = "err"
  /\ \A x \in Clients \ {c} : cl[x].pc \in Provisioning => obj'[cl[x].state].init = "busy"

CallStep(c) ==
  /\ UNCHANGED gc /\ now' \in Nat
  /\ cl' \in [Clients -> CallType] /\ \A x \in Clients : x # c => cl'[x] = cl[x]
  /\ CallOK(c)'
  /\ KeepsObjects /\ LeaseMoves(c) /\ OnceMoves(c)

\* ProvisioningFailed in the next state, of a flow of this state.
FailedLater(f) == \E o \in Objs : obj'[o].key = f /\ obj'[o].init = "err"

\* A flow whose provisioning has failed has failed for good.
LEMMA FailureStays ==
  ASSUME LeaseInv, KeepsObjects
  PROVE  \A f \in Keys : ProvisioningFailed(f) => FailedLater(f)
<1> SUFFICES ASSUME NEW f \in Keys, NEW o \in Objs, obj[o].key = f, obj[o].init = "err"
             PROVE  obj'[o].key = f /\ obj'[o].init = "err"
  BY Zenon DEF ProvisioningFailed, FailedLater
<1>1. o <= used
  <2>1. o > used => obj[o].init = "new"
    BY DEF LeaseInv, ObjInv, NewState
  <2> QED BY <2>1 DEF LeaseInv, TypeInv, Objs
<1> QED BY <1>1 DEF KeepsObjects, Objs

-----------------------------------------------------------------------------
(* Every action of a call is such a step.                                  *)

\* A step that leaves the map and the lease states alone keeps the objects.
LEMMA SameObjects ==
  ASSUME LeaseInv, UNCHANGED leaseVars
  PROVE  /\ KeepsObjects
         /\ \A o \in 1..used : obj'[o] = obj[o]
<1>1. \A o \in Objs : o > used => obj[o].leaseCount = 0
  BY DEF LeaseInv, ObjInv, NewState
<1>2. ObjInv'
  BY Zenon DEF LeaseInv, ObjInv, leaseVars
<1> QED BY <1>1, <1>2 DEF KeepsObjects, LeaseInv, TypeInv, leaseVars, Keys

\* An object changes, and keeps its key and its mark.
LEMMA ChangedObject ==
  ASSUME LeaseInv, NEW b \in 1..used, NEW r \in ObjType,
         r.key = obj[b].key, r.markedForDeletion = obj[b].markedForDeletion,
         obj[b].init = "err" => r.init = "err",
         obj' = [obj EXCEPT ![b] = r], UNCHANGED <<map, used>>
  PROVE  /\ KeepsObjects
         /\ obj'[b] = r
         /\ \A o \in 1..used : o # b => obj'[o] = obj[o]
<1>1. /\ used \in 0..MaxObj /\ MaxObj \in Nat /\ b \in Objs
      /\ map \in [Keys -> 0..MaxObj] /\ obj \in [Objs -> ObjType]
  BY RegistryAssumption DEF LeaseInv, TypeInv, Objs
<1>2. /\ obj' \in [Objs -> ObjType] /\ obj'[b] = r
      /\ \A o \in Objs : o # b => obj'[o] = obj[o]
  BY <1>1, Zenon
<1>3. \A o \in Objs : o > used => obj'[o] = obj[o]
  BY <1>1, <1>2 DEF Objs
<1>4. \A o \in Objs : o > used => obj[o].leaseCount = 0
  BY DEF LeaseInv, ObjInv, NewState
<1>5. ObjInv'
  <2>1. \A k \in Keys : map[k] # 0 => map[k] \in Objs /\ map[k] <= used /\ obj[map[k]].key = k
    BY <1>1 DEF LeaseInv, ObjInv, Objs
  <2>2. \A k \in Keys : map[k] # 0 => map[k] <= used /\ obj'[map[k]].key = k
    BY <2>1, <1>2, Zenon
  <2> QED BY <2>2, <1>3, Zenon DEF LeaseInv, ObjInv
<1>6. \A o \in 1..used : o \in Objs
  BY <1>1 DEF Objs
<1> QED BY <1>1, <1>2, <1>3, <1>4, <1>5, <1>6 DEF KeepsObjects, Keys

\* A new object takes the key's place in the map, which was free.
LEMMA NewObject ==
  ASSUME LeaseInv, NEW k \in Keys, map[k] = 0, used < MaxObj,
         used' = used + 1, obj' = [obj EXCEPT ![used'] = NewState(k)],
         map' = [map EXCEPT ![k] = used']
  PROVE  /\ KeepsObjects
         /\ used' \in Objs /\ obj'[used'].key = k /\ map'[k] = used'
         /\ \A o \in 1..used : obj'[o] = obj[o]
<1> DEFINE n == used + 1
<1>1. /\ used \in Nat /\ n \in Objs /\ n \in 0..MaxObj
      /\ map \in [Keys -> 0..MaxObj] /\ obj \in [Objs -> ObjType]
  BY RegistryAssumption DEF LeaseInv, TypeInv, Objs
<1>2. NewState(k) \in ObjType /\ NewState(k).key = k
      /\ NewState(k).leaseCount = 0 /\ ~NewState(k).markedForDeletion /\ NewState(k).init = "new"
  BY DEF ObjType, NewState
<1>3. obj[n] = NewState(0) /\ obj[n].init = "new"
  <2>1. obj[n] = NewState(0) BY <1>1 DEF LeaseInv, ObjInv
  <2>2. NewState(0).init = "new" BY Zenon DEF NewState
  <2> QED BY <2>1, <2>2, Zenon
<1>4. /\ used' = n
      /\ obj' = [obj EXCEPT ![n] = NewState(k)]
      /\ map' = [map EXCEPT ![k] = n]
  BY Zenon
<1> HIDE DEF n
<1>5. /\ map' \in [Keys -> 0..MaxObj] /\ obj' \in [Objs -> ObjType]
      /\ obj'[n] = NewState(k) /\ map'[k] = n
      /\ \A o \in Objs : o # n => obj'[o] = obj[o]
      /\ \A j \in Keys : j # k => map'[j] = map[j]
  BY <1>1, <1>2, <1>4
<1>6. ObjInv'
  <2>1. \A o \in Objs : o > n => obj'[o] = NewState(0)
    BY <1>1, <1>5 DEF LeaseInv, ObjInv, n, Objs
  <2>2. ASSUME NEW j \in Keys, map'[j] # 0
        PROVE  map'[j] <= n /\ obj'[map'[j]].key = j
    <3>1. CASE j = k
      BY <3>1, <1>1, <1>2, <1>5 DEF n
    <3>2. CASE j # k
      <4>1. map'[j] = map[j] /\ map[j] <= used /\ map[j] \in Objs /\ obj[map[j]].key = j
        BY <3>2, <2>2, <1>1, <1>5 DEF LeaseInv, ObjInv, Objs
      <4>2. map[j] # n /\ map[j] <= n
        BY <4>1, <1>1 DEF n, Objs
      <4> QED BY <4>1, <4>2, <1>5, Zenon
    <3> QED BY <3>1, <3>2, Zenon
  <2> QED BY <2>1, <2>2, <1>4, Zenon DEF ObjInv
<1>7. \A o \in Objs : o > used => obj'[o].leaseCount = 0
  <2>1. NewState(0).leaseCount = 0
    BY Zenon DEF NewState
  <2> QED BY <1>2, <1>5, <2>1, Zenon DEF LeaseInv, ObjInv
<1>8. \A o \in 1..used : obj'[o] = obj[o]
  BY <1>1, <1>5 DEF n, Objs
<1>9. KeepsObjects
  BY <1>1, <1>4, <1>5, <1>6, <1>7, <1>8 DEF KeepsObjects, n, Keys
<1> QED BY <1>1, <1>2, <1>4, <1>5, <1>8, <1>9, Zenon

\* What the invariant says of the calls, in the form the steps use.
LEMMA CallFacts ==
  ASSUME LeaseInv
  PROVE  /\ now \in Nat /\ used \in Nat /\ MaxObj \in Nat /\ used <= MaxObj
         /\ map \in [Keys -> 0..MaxObj]
         /\ obj \in [Objs -> ObjType] /\ cl \in [Clients -> CallType]
         /\ \A o \in 1..used : o \in Objs /\ obj[o] \in ObjType /\ obj[o].leaseCount \in Int
         /\ \A x \in Clients : cl[x] \in CallType /\ CallOK(x)
         /\ \A x \in Clients : cl[x].pc \in Provisioning =>
               cl[x].state \in 1..used /\ obj[cl[x].state].init = "busy"
<1>1. /\ now \in Nat /\ used \in Nat /\ MaxObj \in Nat /\ used <= MaxObj
      /\ map \in [Keys -> 0..MaxObj]
      /\ obj \in [Objs -> ObjType] /\ cl \in [Clients -> CallType]
  BY RegistryAssumption DEF LeaseInv, TypeInv
<1>2. \A o \in 1..used : o \in Objs /\ obj[o] \in ObjType /\ obj[o].leaseCount \in Int
  BY <1>1 DEF ObjType, Objs
<1>3. \A x \in Clients : cl[x] \in CallType /\ CallOK(x)
  BY <1>1, Zenon DEF LeaseInv, CallInv
<1>4. \A x \in Clients : cl[x].pc \in Provisioning =>
         cl[x].state \in 1..used /\ obj[cl[x].state].init = "busy"
  BY <1>3, Zenon DEF LeaseInv, CallOK, OnceInv, Provisioning, Pinning
<1> QED BY <1>1, <1>2, <1>3, <1>4, Zenon

\* A step of one call changes that call only.
LEMMA ChangedCall ==
  ASSUME LeaseInv, NEW c \in Clients, NEW d \in CallType, cl' = [cl EXCEPT ![c] = d]
  PROVE  /\ cl' \in [Clients -> CallType]
         /\ \A x \in Clients : x # c => cl'[x] = cl[x]
         /\ cl'[c] = d
BY Zenon DEF LeaseInv, TypeInv

\* WithConnection begins a call: a step of one call.
LEMMA WithConnectionStep ==
  ASSUME LeaseInv, NEW c \in Clients, NEW f \in Flows, WithConnection(c, f)
  PROVE  CallStep(c)
<1>1. KeepsObjects /\ \A o \in 1..used : obj'[o] = obj[o]
  BY SameObjects, Zenon DEF WithConnection
<1>2. cl[c].pc = "idle" /\ cl[c].state = 0
  BY CallFacts, Zenon DEF WithConnection, CallOK
<1>3. /\ cl' \in [Clients -> CallType] /\ \A x \in Clients : x # c => cl'[x] = cl[x]
      /\ cl'[c].pc = "load" /\ cl'[c].flow = f /\ ~cl'[c].forBand /\ cl'[c].state = 0
  <2> DEFINE d == [cl[c] EXCEPT !.pc = "load", !.flow = f, !.forBand = FALSE]
  <2>1. d \in CallType /\ d.pc = "load" /\ d.flow = f /\ ~d.forBand /\ d.state = cl[c].state
    BY CallFacts, Zenon DEF CallType, Pinning
  <2>2. cl' = [cl EXCEPT ![c] = d]
    BY Zenon DEF WithConnection
  <2> HIDE DEF d
  <2> QED BY <1>2, <2>1, <2>2, ChangedCall, Zenon
<1>4. CallOK(c)'
  BY <1>3, Zenon DEF CallOK, Pinning
<1>5. \A o \in Objs : ~Holds(c, o) /\ ~Holds(c, o)'
  BY <1>2, <1>3 DEF Holds, Objs
<1>6. LeaseMoves(c)
  BY <1>1, <1>3, <1>5, CallFacts, SMTT(30) DEF LeaseMoves
<1>7. OnceMoves(c)
  BY <1>1, <1>3, CallFacts, Zenon DEF OnceMoves, Provisioning
<1> QED BY <1>1, <1>3, <1>4, <1>6, <1>7, CallFacts, Zenon DEF CallStep, WithConnection

\* pinLeasedResource loads the flow from the map, or stores a new one: a step of one call.
LEMMA PinLoadStep ==
  ASSUME LeaseInv, NEW c \in Clients, pinLoad(c)
  PROVE  CallStep(c)
<1>1. /\ Target(c) \in Keys /\ cl[c].pc = "load" /\ cl[c].flow \in Flows
  BY TargetType, CallFacts, Zenon DEF pinLoad, CallOK
<1>2. /\ KeepsObjects /\ \A o \in 1..used : obj'[o] = obj[o]
      /\ map'[Target(c)] \in Objs /\ map'[Target(c)] <= used'
      /\ obj'[map'[Target(c)]].key = Target(c)
      /\ \E b \in BOOLEAN :
           cl' = [cl EXCEPT ![c] = [@ EXCEPT !.pc = "pin", !.cand = map'[Target(c)], !.candNew = b]]
  <2>1. CASE map[Target(c)] # 0
    <3>1. UNCHANGED leaseVars
      BY <2>1, Zenon DEF pinLoad
    <3>2. cl' = [cl EXCEPT ![c] = [@ EXCEPT !.pc = "pin", !.cand = map[Target(c)], !.candNew = FALSE]]
      BY <2>1, Zenon DEF pinLoad
    <3>3. map[Target(c)] \in Objs /\ map[Target(c)] <= used /\ obj[map[Target(c)]].key = Target(c)
      BY <1>1, <2>1, CallFacts, SMTT(30) DEF LeaseInv, ObjInv, Objs
    <3> QED BY <1>1, <3>1, <3>2, <3>3, SameObjects, Zenon DEF leaseVars
  <2>2. CASE map[Target(c)] = 0
    <3>1. /\ used < MaxObj /\ used' = used + 1
          /\ obj' = [obj EXCEPT ![used'] = NewState(Target(c))]
          /\ map' = [map EXCEPT ![Target(c)] = used']
      BY <2>2, Zenon DEF pinLoad
    <3>2. cl' = [cl EXCEPT ![c] = [@ EXCEPT !.pc = "pin", !.cand = used', !.candNew = TRUE]]
      BY <2>2, Zenon DEF pinLoad
    <3>3. /\ KeepsObjects
          /\ used' \in Objs /\ obj'[used'].key = Target(c) /\ map'[Target(c)] = used'
          /\ \A o \in 1..used : obj'[o] = obj[o]
      BY <1>1, <2>2, <3>1, NewObject, Zenon
    <3>4. cl' = [cl EXCEPT ![c] = [@ EXCEPT !.pc = "pin", !.cand = map'[Target(c)], !.candNew = TRUE]]
      BY <3>2, <3>3, Zenon
    <3>5. map'[Target(c)] \in Objs /\ map'[Target(c)] <= used' /\ obj'[map'[Target(c)]].key = Target(c)
      BY <3>1, <3>3
    <3> QED BY <3>3, <3>4, <3>5, Zenon
  <2> QED BY <2>1, <2>2, ZenonT(30)
<1>3. /\ cl' \in [Clients -> CallType] /\ \A x \in Clients : x # c => cl'[x] = cl[x]
      /\ cl'[c].pc = "pin" /\ cl'[c].cand = map'[Target(c)]
      /\ cl'[c].flow = cl[c].flow /\ cl'[c].forBand = cl[c].forBand /\ cl'[c].state = cl[c].state
  <2> PICK b \in BOOLEAN :
        cl' = [cl EXCEPT ![c] = [@ EXCEPT !.pc = "pin", !.cand = map'[Target(c)], !.candNew = b]]
    BY <1>2, Zenon
  <2> DEFINE d == [cl[c] EXCEPT !.pc = "pin", !.cand = map'[Target(c)], !.candNew = b]
  <2>1. map'[Target(c)] \in 0..MaxObj
    BY <1>2 DEF Objs
  <2>2. /\ d \in CallType /\ d.pc = "pin" /\ d.cand = map'[Target(c)]
        /\ d.flow = cl[c].flow /\ d.forBand = cl[c].forBand /\ d.state = cl[c].state
    BY <2>1, CallFacts, Zenon DEF CallType, Pinning
  <2>3. cl' = [cl EXCEPT ![c] = d]
    BY Zenon
  <2> HIDE DEF d
  <2> QED BY <2>2, <2>3, ChangedCall, Zenon
<1>4. Target(c)' = Target(c)
  BY <1>3, Zenon DEF Target
<1>5. CallOK(c)'
  BY <1>1, <1>2, <1>3, <1>4, CallFacts DEF CallOK, Pinning, Objs, KeepsObjects
<1>6. \A o \in Objs : Holds(c, o)' <=> Holds(c, o)
  BY <1>1, <1>3, Zenon DEF Holds
<1>7. \A o \in Objs : Holds(c, o) => o <= used
  BY <1>1, CallFacts DEF Holds, CallOK, Objs
<1>8. LeaseMoves(c)
  BY <1>2, <1>3, <1>6, <1>7, CallFacts DEF LeaseMoves
<1>9. OnceMoves(c)
  BY <1>2, <1>3, CallFacts DEF OnceMoves, Provisioning
<1> QED BY <1>2, <1>3, <1>5, <1>8, <1>9, CallFacts, Zenon DEF CallStep, pinLoad, clientFrame

\* A call that only moves to p.
LEMMA GotoCall ==
  ASSUME LeaseInv, NEW c \in Clients,
         NEW p \in {"idle", "init", "fn", "fail", "failBand", "release"}
                     \union Pinning \union Provisioning,
         Goto(c, p)
  PROVE  /\ cl' \in [Clients -> CallType] /\ \A x \in Clients : x # c => cl'[x] = cl[x]
         /\ cl'[c].pc = p /\ cl'[c].cand = cl[c].cand
         /\ cl'[c].flow = cl[c].flow /\ cl'[c].forBand = cl[c].forBand
         /\ cl'[c].state = cl[c].state
         /\ Target(c)' = Target(c)
<1> DEFINE d == [cl[c] EXCEPT !.pc = p]
<1>1. /\ d \in CallType /\ d.pc = p /\ d.cand = cl[c].cand
      /\ d.flow = cl[c].flow /\ d.forBand = cl[c].forBand /\ d.state = cl[c].state
  BY CallFacts DEF CallType
<1>2. cl' = [cl EXCEPT ![c] = d]
  BY Zenon DEF Goto
<1> HIDE DEF d
<1>3. /\ cl' \in [Clients -> CallType] /\ \A x \in Clients : x # c => cl'[x] = cl[x]
      /\ cl'[c] = d
  BY <1>1, <1>2, ChangedCall, Zenon
<1> QED BY <1>1, <1>3, Zenon DEF Target

\* A lease more, a lease less.
LEMMA LeaseChange ==
  ASSUME NEW ls \in ObjType, NEW t \in Nat
  PROVE  /\ Pinned(ls) \in ObjType /\ Pinned(ls).leaseCount = ls.leaseCount + 1
         /\ Pinned(ls).key = ls.key /\ Pinned(ls).init = ls.init
         /\ Pinned(ls).markedForDeletion = ls.markedForDeletion
         /\ Unpinned(ls, t) \in ObjType /\ Unpinned(ls, t).leaseCount = ls.leaseCount - 1
         /\ Unpinned(ls, t).key = ls.key /\ Unpinned(ls, t).init = ls.init
         /\ Unpinned(ls, t).markedForDeletion = ls.markedForDeletion
<1> DEFINE m == ls.leaseCount + 1
           n == ls.leaseCount - 1
           u == IF ls.leaseCount = 1 THEN t ELSE ls.becameIdleAt
           R(i, j) == [ls EXCEPT !.leaseCount = i, !.becameIdleAt = j]
<1>1. m \in Int /\ n \in Int /\ u \in Int
  BY DEF ObjType
<1>2. Pinned(ls) = R(m, 0)
  BY Zenon DEF Pinned
<1>3. Unpinned(ls, t) = R(n, u)
  BY Zenon DEF Unpinned
<1> HIDE DEF m, n, u
<1>4. \A i, j \in Int : /\ R(i, j) \in ObjType /\ R(i, j).leaseCount = i
                        /\ R(i, j).key = ls.key /\ R(i, j).init = ls.init
                        /\ R(i, j).markedForDeletion = ls.markedForDeletion
  BY Zenon DEF ObjType
<1> HIDE DEF R
<1>5. /\ Pinned(ls) \in ObjType /\ Pinned(ls).leaseCount = m
      /\ Pinned(ls).key = ls.key /\ Pinned(ls).init = ls.init
      /\ Pinned(ls).markedForDeletion = ls.markedForDeletion
  BY <1>1, <1>2, <1>4
<1>6. /\ Unpinned(ls, t) \in ObjType /\ Unpinned(ls, t).leaseCount = n
      /\ Unpinned(ls, t).key = ls.key /\ Unpinned(ls, t).init = ls.init
      /\ Unpinned(ls, t).markedForDeletion = ls.markedForDeletion
  BY <1>1, <1>3, <1>4
<1> QED BY <1>5, <1>6, Zenon DEF m, n

\* tryPin counts a lease, unless the flow is marked for deletion: a step of one call.
LEMMA TryPinStep ==
  ASSUME LeaseInv, NEW c \in Clients, tryPin(c)
  PROVE  CallStep(c)
<1> DEFINE o == cl[c].cand
<1>1. /\ cl[c].pc = "pin" /\ o \in 1..used /\ obj[o].key = Target(c) /\ cl[c].flow \in Flows
      /\ ~cl[c].forBand => cl[c].state = 0
  BY CallFacts, Zenon DEF tryPin, CallOK, Pinning
<1>2. obj[o].key \in Flows <=> ~cl[c].forBand
  BY <1>1, TargetType, Zenon
<1>3. \A b \in Objs : Holds(c, b) => b = cl[c].state /\ b <= used
  BY <1>1, CallFacts DEF Holds, CallOK, Objs
<1>4. obj[o] \in ObjType
  BY <1>1, CallFacts, Zenon
<1>5. CASE ~obj[o].markedForDeletion
  <2>1. Goto(c, "recheck") /\ obj' = [obj EXCEPT ![o] = Pinned(obj[o])] /\ UNCHANGED <<map, used>>
    BY <1>5, Zenon DEF tryPin, canPin
  <2>2. /\ Pinned(obj[o]) \in ObjType /\ Pinned(obj[o]).leaseCount = obj[o].leaseCount + 1
        /\ Pinned(obj[o]).key = obj[o].key /\ Pinned(obj[o]).init = obj[o].init
        /\ Pinned(obj[o]).markedForDeletion = obj[o].markedForDeletion
    BY <1>4, LeaseChange, Zenon
  <2>3. /\ KeepsObjects /\ obj'[o] = Pinned(obj[o])
        /\ \A b \in 1..used : b # o => obj'[b] = obj[b]
    BY <1>1, <2>1, <2>2, ChangedObject, Zenon
  <2>4. /\ cl' \in [Clients -> CallType] /\ \A x \in Clients : x # c => cl'[x] = cl[x]
        /\ cl'[c].pc = "recheck" /\ cl'[c].cand = cl[c].cand
        /\ cl'[c].flow = cl[c].flow /\ cl'[c].forBand = cl[c].forBand
        /\ cl'[c].state = cl[c].state /\ Target(c)' = Target(c)
    BY <2>1, GotoCall, Zenon DEF Pinning
  <2>5. CallOK(c)'
    BY <1>1, <2>1, <2>2, <2>3, <2>4, CallFacts DEF CallOK, Pinning
  <2>6. \A b \in Objs : Holds(c, b)' <=> Holds(c, b) \/ b = o
    BY <1>1, <2>4, Zenon DEF Holds
  <2>7. LeaseMoves(c)
    <3>1. ASSUME NEW b \in 1..used, IsFlow(b)
          PROVE  obj'[b].leaseCount = obj[b].leaseCount + (IF Holds(c, b)' THEN 1 ELSE 0)
                                                        - (IF Holds(c, b) THEN 1 ELSE 0)
      <4>1. CASE b = o
        <5>1. cl[c].state = 0
          BY <1>1, <1>2, <3>1, <4>1, Zenon DEF IsFlow
        <5>2. b \in Objs /\ ~Holds(c, b) /\ Holds(c, b)'
          BY <1>3, <2>6, <4>1, <5>1, CallFacts, SMTT(30) DEF Objs
        <5> QED BY <2>2, <2>3, <4>1, <5>2
      <4>2. CASE b # o
        BY <2>3, <2>6, <4>2, CallFacts, SMTT(30)
      <4> QED BY <4>1, <4>2, Zenon
    <3>2. \A b \in Objs : Holds(c, b)' => b <= used /\ (Holds(c, b) \/ ~obj[b].markedForDeletion)
      BY <1>1, <1>3, <1>5, <2>6, SMTT(30)
    <3> QED BY <3>1, <3>2, <2>4, Zenon DEF LeaseMoves
  <2>8. OnceMoves(c)
    BY <2>2, <2>3, <2>4, CallFacts, SMTT(30) DEF OnceMoves, Provisioning
  <2> QED BY <2>3, <2>4, <2>5, <2>7, <2>8, CallFacts, Zenon DEF CallStep, tryPin, clientFrame
<1>6. CASE obj[o].markedForDeletion
  <2>1. Goto(c, "load") /\ UNCHANGED leaseVars
    BY <1>6, Zenon DEF tryPin, canPin, leaseVars
  <2>2. KeepsObjects /\ \A b \in 1..used : obj'[b] = obj[b]
    BY <2>1, SameObjects, Zenon
  <2>3. /\ cl' \in [Clients -> CallType] /\ \A x \in Clients : x # c => cl'[x] = cl[x]
        /\ cl'[c].pc = "load"
        /\ cl'[c].flow = cl[c].flow /\ cl'[c].forBand = cl[c].forBand
        /\ cl'[c].state = cl[c].state
    BY <2>1, GotoCall, Zenon DEF Pinning
  <2>4. CallOK(c)'
    BY <1>1, <2>1, <2>2, <2>3, CallFacts, SMTT(30) DEF CallOK, Pinning, leaseVars
  <2>5. \A b \in Objs : Holds(c, b)' <=> Holds(c, b)
    BY <1>1, <2>3, Zenon DEF Holds
  <2>6. LeaseMoves(c) /\ OnceMoves(c)
    BY <1>3, <2>2, <2>3, <2>5, CallFacts DEF LeaseMoves, OnceMoves, Provisioning
  <2> QED BY <2>2, <2>3, <2>4, <2>6, CallFacts, Zenon DEF CallStep, tryPin, clientFrame
<1> QED BY <1>5, <1>6, Zenon

\* The pinned flow is compared with the one in the map: a step of one call.
LEMMA PinRecheckStep ==
  ASSUME LeaseInv, NEW c \in Clients, pinRecheck(c)
  PROVE  CallStep(c)
<1> DEFINE o == cl[c].cand
<1>1. /\ cl[c].pc = "recheck" /\ o \in 1..used /\ obj[o].key = Target(c) /\ cl[c].flow \in Flows
      /\ ~cl[c].forBand => cl[c].state = 0
      /\ cl[c].forBand => cl[c].state \in 1..used /\ obj[cl[c].state].key = cl[c].flow
  BY CallFacts, Zenon DEF pinRecheck, CallOK, Pinning
<1>2. /\ obj[o].key \in Flows <=> ~cl[c].forBand
      /\ ~cl[c].forBand => Target(c) = cl[c].flow
  BY <1>1, TargetType, Zenon
<1>3. \A b \in Objs : Holds(c, b) <=> b = o \/ b = cl[c].state
  BY <1>1, Zenon DEF Holds
<1>4. obj[o] \in ObjType
  BY <1>1, CallFacts, Zenon
<1>5. CASE map[Target(c)] # o
  <2>1. Goto(c, "load") /\ obj' = [obj EXCEPT ![o] = Unpinned(obj[o], now)] /\ UNCHANGED <<map, used>>
    BY <1>5, Zenon DEF pinRecheck, backOff
  <2> DEFINE r == Unpinned(obj[o], now)
  <2>2. /\ r \in ObjType /\ r.leaseCount = obj[o].leaseCount - 1
        /\ r.key = obj[o].key /\ r.init = obj[o].init
        /\ r.markedForDeletion = obj[o].markedForDeletion
    BY <1>4, LeaseChange, CallFacts, Zenon
  <2> HIDE DEF r
  <2>3. /\ KeepsObjects /\ obj'[o] = r
        /\ \A b \in 1..used : b # o => obj'[b] = obj[b]
    BY <1>1, <2>1, <2>2, ChangedObject, Zenon DEF r
  <2>4. /\ cl' \in [Clients -> CallType] /\ \A x \in Clients : x # c => cl'[x] = cl[x]
        /\ cl'[c].pc = "load" /\ cl'[c].cand = cl[c].cand
        /\ cl'[c].flow = cl[c].flow /\ cl'[c].forBand = cl[c].forBand
        /\ cl'[c].state = cl[c].state /\ Target(c)' = Target(c)
    BY <2>1, GotoCall, Zenon DEF Pinning
  <2>5. CallOK(c)'
    BY <1>1, <2>1, <2>2, <2>3, <2>4 DEF CallOK, Pinning
  <2>6. \A b \in Objs : Holds(c, b)' <=> b = cl[c].state
    BY <2>4, Zenon DEF Holds
  <2>7. LeaseMoves(c)
    <3>1. ASSUME NEW b \in 1..used, IsFlow(b)
          PROVE  obj'[b].leaseCount = obj[b].leaseCount + (IF Holds(c, b)' THEN 1 ELSE 0)
                                                        - (IF Holds(c, b) THEN 1 ELSE 0)
      <4>1. CASE b = o
        BY <1>1, <1>2, <1>3, <2>2, <2>3, <2>6, <3>1, <4>1, CallFacts, SMTT(30) DEF IsFlow, Objs
      <4>2. CASE b # o
        BY <1>3, <2>3, <2>6, <4>2, CallFacts, SMTT(30)
      <4> QED BY <4>1, <4>2, Zenon
    <3>2. \A b \in Objs : Holds(c, b)' => b <= used /\ Holds(c, b)
      BY <1>1, <1>3, <2>6, SMTT(30) DEF Objs
    <3> QED BY <3>1, <3>2, <2>4, ZenonT(30) DEF LeaseMoves
  <2>8. OnceMoves(c)
    BY <2>2, <2>3, <2>4, CallFacts DEF OnceMoves, Provisioning
  <2> QED BY <2>3, <2>4, <2>5, <2>7, <2>8, CallFacts, Zenon DEF CallStep, pinRecheck, clientFrame
<1>6. CASE map[Target(c)] = o
  <2> DEFINE d == IF cl[c].forBand THEN [cl[c] EXCEPT !.pc = "init", !.opened = now]
                  ELSE IF cl[c].candNew
                  THEN [cl[c] EXCEPT !.pc = "load", !.forBand = TRUE, !.state = o, !.isNew = TRUE]
                  ELSE [[cl[c] EXCEPT !.pc = "init", !.opened = now]
                          EXCEPT !.state = o, !.isNew = FALSE]
  <2>1. cl' = [cl EXCEPT ![c] = d] /\ UNCHANGED leaseVars
    BY <1>6, Zenon DEF pinRecheck, leaseVars
  <2>2. KeepsObjects /\ \A b \in 1..used : obj'[b] = obj[b]
    BY <2>1, SameObjects, Zenon
  <2>3. /\ d \in CallType /\ d.flow = cl[c].flow
        /\ d.pc = "init" \/ (d.pc = "load" /\ d.forBand)
        /\ d.state = IF cl[c].forBand THEN cl[c].state ELSE o
    BY <1>1, CallFacts, ZenonT(30) DEF CallType, Pinning, Objs
  <2> HIDE DEF d
  <2>4. /\ cl' \in [Clients -> CallType] /\ \A x \in Clients : x # c => cl'[x] = cl[x]
        /\ cl'[c] = d
    BY <2>1, <2>3, ChangedCall, Zenon
  <2>5. CallOK(c)'
    BY <1>1, <1>2, <2>1, <2>3, <2>4, Zenon DEF CallOK, Pinning, leaseVars
  <2>6. \A b \in Objs : Holds(c, b)' <=> b = d.state
    BY <2>3, <2>4, Zenon DEF Holds
  <2>7. \A b \in Objs : IsFlow(b) => (Holds(c, b)' <=> Holds(c, b))
    BY <1>1, <1>2, <1>3, <2>3, <2>6, SMTT(30) DEF IsFlow, Objs
  <2>8. \A b \in Objs : Holds(c, b)' => b <= used
    BY <1>1, <2>3, <2>6, SMTT(30)
  <2>9. LeaseMoves(c)
    <3>1. \/ cl'[c].state = cl[c].state /\ cl'[c].flow = cl[c].flow
          \/ map'[cl'[c].flow] = cl'[c].state
      BY <1>2, <1>6, <2>1, <2>3, <2>4, Zenon DEF leaseVars
    <3> QED BY <2>2, <2>7, <2>8, <3>1, CallFacts, SMTT(30) DEF LeaseMoves
  <2>10. OnceMoves(c)
    BY <2>2, <2>3, <2>4, CallFacts, Zenon DEF OnceMoves, Provisioning
  <2> QED BY <2>2, <2>4, <2>5, <2>9, <2>10, CallFacts, Zenon DEF CallStep, pinRecheck, clientFrame
<1> QED BY <1>5, <1>6, Zenon

\* The call leaves its candidate alone and works on the object it holds: its
\* leases stay what they are, and the object may change its sync.Once.
LEMMA HolderSteps ==
  ASSUME LeaseInv, NEW c \in Clients,
         cl[c].pc \notin {"idle", "load", "pin", "recheck"},
         NEW p \in {"init", "fn", "fail", "failBand", "release"} \union Provisioning,
         Goto(c, p), KeepsObjects,
         \A o \in 1..used : IsFlow(o) => obj'[o].leaseCount = obj[o].leaseCount
  PROVE  /\ cl' \in [Clients -> CallType] /\ \A x \in Clients : x # c => cl'[x] = cl[x]
         /\ cl'[c].pc = p /\ cl'[c].state = cl[c].state
         /\ CallOK(c)' /\ LeaseMoves(c)
<1>1. /\ cl' \in [Clients -> CallType] /\ \A x \in Clients : x # c => cl'[x] = cl[x]
      /\ cl'[c].pc = p /\ cl'[c].flow = cl[c].flow /\ cl'[c].forBand = cl[c].forBand
      /\ cl'[c].state = cl[c].state
  BY GotoCall, Zenon
<1>2. cl[c].flow \in Flows /\ cl[c].state \in 1..used /\ obj[cl[c].state].key = cl[c].flow
  BY CallFacts, Zenon DEF CallOK, Pinning
<1>3. CallOK(c)'
  BY <1>1, <1>2, CallFacts, SMTT(30) DEF CallOK, Pinning, Provisioning, KeepsObjects
<1>4. \A o \in Objs : (Holds(c, o)' <=> Holds(c, o)) /\ (Holds(c, o) => o <= used)
  BY <1>1, <1>2, SMTT(30) DEF Holds, Provisioning
<1>5. LeaseMoves(c)
  <2>1. \A o \in 1..used : o \in Objs /\ obj[o].leaseCount \in Int
    BY CallFacts, Zenon
  <2>2. ASSUME NEW o \in 1..used, IsFlow(o)
        PROVE  obj'[o].leaseCount = obj[o].leaseCount + (IF Holds(c, o)' THEN 1 ELSE 0)
                                                      - (IF Holds(c, o) THEN 1 ELSE 0)
    <3>1. Holds(c, o)' <=> Holds(c, o)
      BY <1>4, <2>1, Zenon
    <3>2. obj'[o].leaseCount = obj[o].leaseCount /\ obj[o].leaseCount \in Int
      BY <2>1, <2>2, Zenon
    <3> QED BY <3>1, <3>2
  <2>3. \A o \in Objs : Holds(c, o)' => o <= used /\ Holds(c, o)
    BY <1>4, Zenon
  <2> QED BY <1>1, <2>2, <2>3, Zenon DEF LeaseMoves
<1> QED BY <1>1, <1>3, <1>5, Zenon

\* initialized.Do lets one call provision the flow: a step of one call.
LEMMA InitializedDoStep ==
  ASSUME LeaseInv, NEW c \in Clients, initializedDo(c)
  PROVE  CallStep(c)
<1> DEFINE o == cl[c].state
<1>1. cl[c].pc = "init" /\ o \in 1..used /\ obj[o] \in ObjType
  BY CallFacts, Zenon DEF initializedDo, CallOK, Pinning
<1>2. CASE obj[o].init = "new"
  <2> DEFINE r == [obj[o] EXCEPT !.init = "busy"]
  <2>1. Goto(c, "exists") /\ obj' = [obj EXCEPT ![o] = r] /\ UNCHANGED <<map, used>>
    BY <1>2, Zenon DEF initializedDo
  <2>2. /\ r \in ObjType /\ r.leaseCount = obj[o].leaseCount /\ r.key = obj[o].key
        /\ r.init = "busy" /\ r.markedForDeletion = obj[o].markedForDeletion
    BY <1>1, Zenon DEF ObjType
  <2> HIDE DEF r
  <2>3. /\ KeepsObjects /\ obj'[o] = r /\ \A b \in 1..used : b # o => obj'[b] = obj[b]
    BY <1>1, <1>2, <2>1, <2>2, ChangedObject, ZenonT(30)
  <2>4. \A b \in 1..used : obj'[b].leaseCount = obj[b].leaseCount
    BY <2>2, <2>3, ZenonT(30)
  <2>5. /\ cl' \in [Clients -> CallType] /\ \A x \in Clients : x # c => cl'[x] = cl[x]
        /\ cl'[c].pc = "exists" /\ cl'[c].state = cl[c].state /\ CallOK(c)' /\ LeaseMoves(c)
    BY <1>1, <2>1, <2>3, <2>4, HolderSteps, ZenonT(30) DEF Provisioning
  <2>6. OnceMoves(c)
    BY <1>2, <2>2, <2>3, <2>5, CallFacts, Zenon DEF OnceMoves, Provisioning
  <2> QED BY <2>3, <2>5, <2>6, CallFacts, Zenon DEF CallStep, initializedDo, clientFrame
<1>3. CASE obj[o].init # "new"
  <2>1. UNCHANGED leaseVars /\ \/ Goto(c, "fn")
                               \/ Goto(c, "fail") /\ obj[o].init = "err"
    BY <1>3, Zenon DEF initializedDo, leaseVars
  <2>2. KeepsObjects /\ \A b \in 1..used : obj'[b] = obj[b]
    BY <2>1, SameObjects, Zenon
  <2>3. /\ cl' \in [Clients -> CallType] /\ \A x \in Clients : x # c => cl'[x] = cl[x]
        /\ cl'[c].pc = "fn" \/ (cl'[c].pc = "fail" /\ obj[o].init = "err")
        /\ cl'[c].state = cl[c].state /\ CallOK(c)' /\ LeaseMoves(c)
    <3>1. \A b \in 1..used : IsFlow(b) => obj'[b].leaseCount = obj[b].leaseCount
      BY <2>2, Zenon
    <3>2. CASE Goto(c, "fn")
      BY <1>1, <2>2, <3>1, <3>2, HolderSteps, ZenonT(30)
    <3>3. CASE Goto(c, "fail") /\ obj[o].init = "err"
      BY <1>1, <2>2, <3>1, <3>3, HolderSteps, ZenonT(30)
    <3> QED BY <2>1, <3>2, <3>3, Zenon
  <2>4. OnceMoves(c)
    BY <1>1, <2>2, <2>3, CallFacts, Zenon DEF OnceMoves, Provisioning
  <2> QED BY <2>2, <2>3, <2>4, CallFacts, Zenon DEF CallStep, initializedDo, clientFrame
<1> QED BY <1>2, <1>3, Zenon

\* The provisioning call looks for the band: a step of one call.
LEMMA EnsureExistsStep ==
  ASSUME LeaseInv, NEW c \in Clients, ensureExists(c)
  PROVE  CallStep(c)
<1>1. cl[c].pc = "exists" /\ UNCHANGED leaseVars /\ (Goto(c, "sync") \/ Goto(c, "ensure"))
  BY Zenon DEF ensureExists
<1>2. KeepsObjects /\ \A b \in 1..used : obj'[b] = obj[b]
  BY <1>1, SameObjects, Zenon
<1>3. /\ cl' \in [Clients -> CallType] /\ \A x \in Clients : x # c => cl'[x] = cl[x]
      /\ cl'[c].pc \in {"sync", "ensure"}
      /\ cl'[c].state = cl[c].state /\ CallOK(c)' /\ LeaseMoves(c)
  BY <1>1, <1>2, HolderSteps, Zenon DEF Provisioning
<1>4. OnceMoves(c)
  BY <1>1, <1>2, <1>3, CallFacts, SMTT(30) DEF OnceMoves, Provisioning
<1> QED BY <1>2, <1>3, <1>4, CallFacts, Zenon DEF CallStep, ensureExists, clientFrame

\* ensurePriorityBand adds the band to the shards: a step of one call.
LEMMA EnsurePriorityBandStep ==
  ASSUME LeaseInv, NEW c \in Clients, ensurePriorityBand(c)
  PROVE  CallStep(c)
<1>1. cl[c].pc = "ensure" /\ Goto(c, "sync")
  BY Zenon DEF ensurePriorityBand
<1>2. PrioFor(c) \in Keys
  BY <1>1, TargetType, Zenon DEF Keys
<1>3. KeepsObjects /\ \A b \in 1..used : obj'[b] = obj[b]
  <2>1. CASE UNCHANGED leaseVars
    BY <2>1, SameObjects, Zenon
  <2>2. CASE /\ map[PrioFor(c)] = 0 /\ used < MaxObj /\ used' = used + 1
             /\ obj' = [obj EXCEPT ![used'] = NewState(PrioFor(c))]
             /\ map' = [map EXCEPT ![PrioFor(c)] = used']
    BY <1>2, <2>2, NewObject, Zenon
  <2> QED BY <2>1, <2>2, Zenon DEF ensurePriorityBand
<1>4. /\ cl' \in [Clients -> CallType] /\ \A x \in Clients : x # c => cl'[x] = cl[x]
      /\ cl'[c].pc = "sync" /\ cl'[c].state = cl[c].state /\ CallOK(c)' /\ LeaseMoves(c)
  BY <1>1, <1>3, HolderSteps, Zenon DEF Provisioning
<1>5. OnceMoves(c)
  BY <1>1, <1>3, <1>4, CallFacts DEF OnceMoves, Provisioning
<1> QED BY <1>3, <1>4, <1>5, CallFacts, Zenon DEF CallStep, ensurePriorityBand, clientFrame

\* The provisioning ends, with the queues of the flow or with an error: a step of one call.
LEMMA EnsureSyncStep ==
  ASSUME LeaseInv, NEW c \in Clients, ensureSync(c)
  PROVE  CallStep(c)
<1> DEFINE o == cl[c].state
<1>1. cl[c].pc = "sync" /\ o \in 1..used /\ obj[o] \in ObjType /\ obj[o].init = "busy"
  BY CallFacts, Zenon DEF ensureSync, CallOK, Pinning, Provisioning
<1>2. ASSUME NEW i \in {"ok", "err"}, obj' = [obj EXCEPT ![o] = [obj[o] EXCEPT !.init = i]],
             UNCHANGED <<map, used>>,
             NEW p \in {"fn", "fail"}, p = "fail" => i = "err", Goto(c, p)
      PROVE  CallStep(c)
  <2> DEFINE r == [obj[o] EXCEPT !.init = i]
  <2>1. /\ r \in ObjType /\ r.leaseCount = obj[o].leaseCount /\ r.key = obj[o].key
        /\ r.init = i /\ r.markedForDeletion = obj[o].markedForDeletion
    BY <1>1, Zenon DEF ObjType
  <2>2. obj' = [obj EXCEPT ![o] = r]
    BY <1>2, Zenon
  <2> HIDE DEF r
  <2>3. /\ KeepsObjects /\ obj'[o] = r /\ \A b \in 1..used : b # o => obj'[b] = obj[b]
    BY <1>1, <1>2, <2>1, <2>2, ChangedObject, Zenon
  <2>4. \A b \in 1..used : obj'[b].leaseCount = obj[b].leaseCount
    BY <2>1, <2>3, Zenon
  <2>5. /\ cl' \in [Clients -> CallType] /\ \A x \in Clients : x # c => cl'[x] = cl[x]
        /\ cl'[c].pc = p /\ cl'[c].state = cl[c].state /\ CallOK(c)' /\ LeaseMoves(c)
    BY <1>1, <1>2, <2>3, <2>4, HolderSteps, Zenon
  <2>6. \A x \in Clients \ {c} : cl[x].pc \in Provisioning => cl[x].state # o
    BY <1>1, Zenon DEF LeaseInv, OnceInv, Provisioning
  <2>7. OnceMoves(c)
    BY <1>2, <2>1, <2>3, <2>5, <2>6, CallFacts, Zenon DEF OnceMoves, Provisioning
  <2> QED BY <2>3, <2>5, <2>7, CallFacts, Zenon DEF CallStep, ensureSync, clientFrame
<1>3. CASE obj' = [obj EXCEPT ![o].init = "err"] /\ Goto(c, "fail")
  BY <1>2, <1>3, Zenon DEF ensureSync
<1>4. CASE UNCHANGED <<obj, cl>>
  <2>1. UNCHANGED leaseVars
    BY <1>4, Zenon DEF ensureSync, leaseVars
  <2>2. KeepsObjects /\ \A b \in 1..used : obj'[b] = obj[b]
    BY <2>1, SameObjects, Zenon
  <2>3. CallOK(c)'
    BY <1>4, <2>1, CallFacts, Zenon DEF CallOK, Target, leaseVars
  <2>4. \A b \in Objs : (Holds(c, b)' <=> Holds(c, b)) /\ (Holds(c, b) => b <= used)
    BY <1>1, <1>4, SMTT(30) DEF Holds
  <2>5. LeaseMoves(c) /\ OnceMoves(c)
    BY <1>1, <1>4, <2>2, <2>4, CallFacts DEF LeaseMoves, OnceMoves
  <2> QED BY <1>4, <2>2, <2>3, <2>5, CallFacts, Zenon DEF CallStep, ensureSync, clientFrame
<1>5. CASE obj' = [obj EXCEPT ![o].init = "ok"] /\ Goto(c, "fn")
  BY <1>2, <1>5, Zenon DEF ensureSync
<1> QED BY <1>3, <1>4, <1>5, Zenon DEF ensureSync

\* The error path takes the flow out of the map: its provisioning has failed.
LEMMA FailDeleteStep ==
  ASSUME LeaseInv, NEW c \in Clients, failDelete(c)
  PROVE  CallStep(c)
<1>1. /\ cl[c].pc = "fail" /\ cl[c].flow \in Flows /\ cl[c].state \in 1..used
      /\ obj[cl[c].state].key = cl[c].flow /\ obj[cl[c].state].init = "err"
  BY CallFacts, Zenon DEF failDelete, CallOK, Pinning, LeaseInv, OnceInv
<1>2. /\ map' = [map EXCEPT ![cl[c].flow] = 0] /\ UNCHANGED <<obj, used>>
      /\ Goto(c, "failBand") \/ Goto(c, "release")
  BY Zenon DEF failDelete
<1>3. ProvisioningFailed(cl[c].flow)
  BY <1>1, CallFacts, Zenon DEF ProvisioningFailed
<1>4. KeepsObjects
  <2>1. map' \in [Keys -> 0..MaxObj] /\ \A k \in Keys : map'[k] = map[k] \/ (k = cl[c].flow /\ map'[k] = 0)
    <3> DEFINE f == cl[c].flow
    <3>1. map' = [map EXCEPT ![f] = 0] /\ 0 \in 0..MaxObj
      BY <1>2, CallFacts
    <3> HIDE DEF f
    <3> QED BY <3>1, CallFacts, Zenon DEF f
  <2>2. ObjInv'
    BY <1>2, <2>1, Zenon DEF LeaseInv, ObjInv
  <2>3. \A o \in Objs : o > used => obj[o].leaseCount = 0
    BY DEF LeaseInv, ObjInv, NewState
  <2> QED BY <1>2, <1>3, <2>1, <2>2, <2>3, CallFacts DEF KeepsObjects, Keys
<1>5. /\ cl' \in [Clients -> CallType] /\ \A x \in Clients : x # c => cl'[x] = cl[x]
      /\ cl'[c].pc \in {"failBand", "release"}
      /\ cl'[c].state = cl[c].state /\ CallOK(c)' /\ LeaseMoves(c)
  BY <1>1, <1>2, <1>4, HolderSteps, Zenon
<1>6. OnceMoves(c)
  BY <1>2, <1>5, CallFacts, Zenon DEF OnceMoves, Provisioning
<1> QED BY <1>4, <1>5, <1>6, CallFacts, Zenon DEF CallStep, failDelete, clientFrame

\* After a failure the lease of the band is given back: a step of one call.
LEMMA FailUnpinBandStep ==
  ASSUME LeaseInv, NEW c \in Clients, failUnpinBand(c)
  PROVE  CallStep(c)
<1> DEFINE b == map[PrioFor(c)]
<1>1. cl[c].pc = "failBand" /\ Goto(c, "release") /\ UNCHANGED <<map, used>>
  BY Zenon DEF failUnpinBand
<1>2. PrioFor(c) \in Keys /\ PrioFor(c) \notin Flows
  BY <1>1, TargetType, Zenon DEF Keys
<1>3. /\ KeepsObjects
      /\ \A o \in 1..used : obj'[o].init = obj[o].init
      /\ \A o \in 1..used : IsFlow(o) => obj'[o].leaseCount = obj[o].leaseCount
  <2>1. CASE b = 0
    <3>1. UNCHANGED leaseVars
      BY <1>1, <2>1, Zenon DEF failUnpinBand, leaseVars
    <3> QED BY <3>1, SameObjects, Zenon
  <2>2. CASE b # 0
    <3> DEFINE r == Unpinned(obj[b], now)
    <3>1. b \in 1..used /\ obj[b].key \notin Flows
      BY <1>2, <2>2, CallFacts, SMTT(30) DEF LeaseInv, ObjInv
    <3>2. obj' = [obj EXCEPT ![b] = r]
      BY <2>2, Zenon DEF failUnpinBand
    <3>3. /\ r \in ObjType /\ r.key = obj[b].key /\ r.init = obj[b].init
          /\ r.markedForDeletion = obj[b].markedForDeletion
      BY <3>1, LeaseChange, CallFacts, Zenon
    <3> HIDE DEF r, b
    <3>4. /\ KeepsObjects /\ obj'[b] = r /\ \A o \in 1..used : o # b => obj'[o] = obj[o]
      BY <1>1, <3>1, <3>2, <3>3, ChangedObject, Zenon
    <3> QED BY <3>1, <3>3, <3>4, Zenon DEF IsFlow
  <2> QED BY <2>1, <2>2, Zenon
<1>4. /\ cl' \in [Clients -> CallType] /\ \A x \in Clients : x # c => cl'[x] = cl[x]
      /\ cl'[c].pc = "release" /\ cl'[c].state = cl[c].state /\ CallOK(c)' /\ LeaseMoves(c)
  BY <1>1, <1>3, HolderSteps, Zenon
<1>5. OnceMoves(c)
  BY <1>3, <1>4, CallFacts, Zenon DEF OnceMoves, Provisioning
<1> QED BY <1>3, <1>4, <1>5, CallFacts, Zenon DEF CallStep, failUnpinBand, clientFrame

\* The lease of the flow is given back: a step of one call.
LEMMA UnpinStep ==
  ASSUME LeaseInv, NEW c \in Clients, unpin(c)
  PROVE  CallStep(c)
<1> DEFINE o == cl[c].state
           r == Unpinned(obj[o], cl[c].opened)
<1>1. /\ cl[c].pc \in {"fn", "release"} /\ o \in 1..used /\ obj[o] \in ObjType
      /\ cl[c].opened \in Nat
  BY CallFacts, Zenon DEF unpin, CallOK, Pinning, CallType
<1>2. obj' = [obj EXCEPT ![o] = r] /\ UNCHANGED <<map, used>> /\ cl' = [cl EXCEPT ![c] = NoCall]
  BY Zenon DEF unpin
<1>3. /\ r \in ObjType /\ r.leaseCount = obj[o].leaseCount - 1 /\ r.key = obj[o].key
      /\ r.init = obj[o].init /\ r.markedForDeletion = obj[o].markedForDeletion
  BY <1>1, LeaseChange, Zenon
<1> HIDE DEF r
<1>4. /\ KeepsObjects /\ obj'[o] = r /\ \A b \in 1..used : b # o => obj'[b] = obj[b]
  BY <1>1, <1>2, <1>3, ChangedObject, Zenon
<1>5. NoCall \in CallType /\ NoCall.pc = "idle" /\ NoCall.state = 0
  BY CallFacts DEF CallType, NoCall
<1>6. /\ cl' \in [Clients -> CallType] /\ \A x \in Clients : x # c => cl'[x] = cl[x]
      /\ cl'[c].pc = "idle" /\ cl'[c].state = 0
  BY <1>2, <1>5, ChangedCall, Zenon
<1>7. CallOK(c)'
  BY <1>6, Zenon DEF CallOK
<1>8. \A b \in Objs : ~Holds(c, b)' /\ (Holds(c, b) <=> b = o)
  <2> SUFFICES ASSUME NEW b \in Objs
               PROVE  ~Holds(c, b)' /\ (Holds(c, b) <=> b = o)
    BY Zenon
  <2>1. b # 0 /\ cl[c].pc # "recheck"
    BY <1>1 DEF Objs
  <2> QED BY <1>6, <2>1, Zenon DEF Holds
<1>9. LeaseMoves(c)
  <2>1. ASSUME NEW b \in 1..used, IsFlow(b)
        PROVE  obj'[b].leaseCount = obj[b].leaseCount + (IF Holds(c, b)' THEN 1 ELSE 0)
                                                      - (IF Holds(c, b) THEN 1 ELSE 0)
    <3>1. b \in Objs /\ obj[b].leaseCount \in Int
      BY CallFacts, Zenon
    <3>2. ~Holds(c, b)' /\ (Holds(c, b) <=> b = o)
      BY <1>8, <3>1, Zenon
    <3>3. CASE b = o
      BY <1>3, <1>4, <3>1, <3>2, <3>3
    <3>4. CASE b # o
      BY <1>4, <3>1, <3>2, <3>4
    <3> QED BY <3>3, <3>4, Zenon
  <2> QED BY <1>6, <1>8, <2>1, Zenon DEF LeaseMoves
<1>10. OnceMoves(c)
  BY <1>3, <1>4, <1>6, CallFacts DEF OnceMoves, Provisioning
<1> QED BY <1>4, <1>6, <1>7, <1>9, <1>10, CallFacts, Zenon DEF CallStep, unpin, clientFrame

-----------------------------------------------------------------------------
(* The registry.                                                           *)

\* The bands every active shard has.
BandInv ==
  /\ activeShards \in Seq(Shards) /\ drainingShards \subseteq Shards /\ nextShardID \in Nat
  /\ config \subseteq Prios /\ statsKeys = config
  /\ bands \in [Shards -> SUBSET Prios]
  /\ \A s \in Range(activeShards) : bands[s] = config

-----------------------------------------------------------------------------
(* Lemmas.                                                                 *)

\* A step that changes one call changes the number of holders by what this
\* call takes or gives back.
LEMMA HoldersChange ==
  ASSUME NEW c \in Clients, NEW o \in Objs,
         \A x \in Clients : x # c => (Holds(x, o)' <=> Holds(x, o))
  PROVE  LET H == {x \in Clients : Holds(x, o)}
         IN /\ Cardinality(H) \in Nat
            /\ Holds(c, o) => Cardinality(H) >= 1
            /\ (Holds(c, o)' <=> Holds(c, o)) => Cardinality(H') = Cardinality(H)
            /\ Holds(c, o)' /\ ~Holds(c, o) => Cardinality(H') = Cardinality(H) + 1
            /\ ~Holds(c, o)' /\ Holds(c, o) => Cardinality(H') = Cardinality(H) - 1
<1> DEFINE H == {x \in Clients : Holds(x, o)}
           K == {x \in Clients : Holds(x, o)'}
<1>1. IsFiniteSet(H) /\ IsFiniteSet(K)
  BY FS_Subset, RegistryAssumption, H \subseteq Clients, K \subseteq Clients, Zenon
<1>2. Cardinality(H) \in Nat /\ Cardinality(K) \in Nat
  BY <1>1, FS_CardinalityType, Zenon
<1>3. ASSUME Holds(c, o) PROVE Cardinality(H) >= 1
  <2>1. H # {} BY <1>3, Zenon
  <2>2. Cardinality(H) # 0 BY <2>1, <1>1, FS_EmptySet, Zenon
  <2> QED BY <2>2, <1>2
<1>4. (Holds(c, o)' <=> Holds(c, o)) => K = H
  BY Zenon
<1>5. Holds(c, o)' /\ ~Holds(c, o) => K = H \union {c} /\ c \notin H
  BY Zenon
<1>6. ~Holds(c, o)' /\ Holds(c, o) => K = H \ {c} /\ c \in H
  BY Zenon
<1>7. c \notin H => Cardinality(H \union {c}) = Cardinality(H) + 1
  BY <1>1, FS_AddElement, Zenon
<1>8. c \in H => Cardinality(H \ {c}) = Cardinality(H) - 1
  BY <1>1, FS_RemoveElement, Zenon
<1> HIDE DEF H, K
<1>9. /\ Cardinality(H) \in Nat
      /\ Holds(c, o) => Cardinality(H) >= 1
      /\ (Holds(c, o)' <=> Holds(c, o)) => Cardinality(K) = Cardinality(H)
      /\ Holds(c, o)' /\ ~Holds(c, o) => Cardinality(K) = Cardinality(H) + 1
      /\ ~Holds(c, o)' /\ Holds(c, o) => Cardinality(K) = Cardinality(H) - 1
  BY <1>2, <1>3, <1>4, <1>5, <1>6, <1>7, <1>8, Zenon
<1> QED BY <1>9, Zenon DEF H, K

\* The invariant of the leases holds before the first call.
LEMMA InitLease == Init => LeaseInv
<1> SUFFICES ASSUME Init PROVE LeaseInv BY Zenon
<1> USE DEF Init, NoCall, NoGC, NewState
<1>1. TypeInv
  BY RegistryAssumption DEF TypeInv, ObjType, CallType, GCType, Pinning, Provisioning, Keys, Objs
<1>2. ObjInv /\ CallInv /\ GCInv /\ OnceInv
  BY Zenon DEF ObjInv, CallInv, CallOK, GCInv, OnceInv, Pinning, Provisioning, Objs, Keys
<1>3. \A c \in Clients, o \in Objs : ~Holds(c, o)
  BY DEF Holds, Objs
<1>4. LeaseCountExact
  <2>1. \A o \in Objs : {c \in Clients : Holds(c, o)} = {}
    BY <1>3, Zenon
  <2>2. \A o \in Objs : Cardinality({c \in Clients : Holds(c, o)}) = 0
    BY <2>1, FS_EmptySet, Zenon
  <2> QED BY <2>2, Zenon DEF LeaseCountExact, Objs
<1>5. HeldInv
  BY <1>3, Zenon DEF HeldInv, Objs
<1> QED BY <1>1, <1>2, <1>4, <1>5, Zenon DEF LeaseInv

\* Any such step keeps the invariant.
LEMMA CallStepLease ==
  ASSUME LeaseInv, NEW c \in Clients, CallStep(c)
  PROVE  LeaseInv'
<1>1. TypeInv' /\ ObjInv'
  BY Zenon DEF LeaseInv, TypeInv, CallStep, KeepsObjects
<1>2. /\ used \in Nat /\ used' \in Nat /\ used <= used' /\ used <= MaxObj /\ MaxObj \in Nat
      /\ cl \in [Clients -> CallType] /\ cl' \in [Clients -> CallType]
      /\ obj \in [Objs -> ObjType] /\ obj' \in [Objs -> ObjType]
      /\ \A x \in Clients : x # c => cl'[x] = cl[x]
      /\ \A x \in Clients : CallOK(x)
      /\ \A o \in 1..used : /\ obj'[o].key = obj[o].key
                            /\ obj'[o].markedForDeletion = obj[o].markedForDeletion
  BY RegistryAssumption DEF LeaseInv, TypeInv, CallInv, CallStep, KeepsObjects
<1>3. CallInv'
  <2>1. ASSUME NEW x \in Clients, x # c PROVE CallOK(x)'
    BY <1>2, <2>1 DEF CallOK, Target, CallType
  <2> QED BY <2>1, Zenon DEF CallInv, CallStep
<1>4. GCInv'
  <2> SUFFICES ASSUME gc.pc \in {"check", "delete"}
               PROVE  /\ gc.key \in Keys /\ gc.cand \in 1..used' /\ obj'[gc.cand].key = gc.key
                      /\ gc.pc = "delete" => obj'[gc.cand].markedForDeletion
                      /\ gc.key \in Flows => map'[gc.key] = gc.cand \/ FailedLater(gc.key)
    BY Zenon DEF CallStep, GCInv, ProvisioningFailed, FailedLater
  <2>1. /\ gc.key \in Keys /\ gc.cand \in 1..used /\ obj[gc.cand].key = gc.key
        /\ gc.pc = "delete" => obj[gc.cand].markedForDeletion
        /\ gc.key \in Flows => map[gc.key] = gc.cand \/ ProvisioningFailed(gc.key)
    BY Zenon DEF LeaseInv, GCInv
  <2>2. gc.key \in Flows => map'[gc.key] = gc.cand \/ ProvisioningFailed(gc.key)
    BY <2>1 DEF CallStep, KeepsObjects
  <2>3. gc.key \in Flows => map'[gc.key] = gc.cand \/ FailedLater(gc.key)
    BY <2>2, FailureStays, Zenon DEF CallStep, Keys
  <2>4. /\ gc.cand \in 1..used' /\ obj'[gc.cand].key = gc.key
        /\ obj'[gc.cand].markedForDeletion = obj[gc.cand].markedForDeletion
    BY <1>2, <2>1
  <2> QED BY <2>1, <2>3, <2>4, Zenon
<1>5. OnceInv'
  <2>1. \A x \in Clients : cl'[x].pc \in Provisioning => obj'[cl'[x].state].init = "busy"
    BY <1>2, Zenon DEF CallStep, OnceMoves
  <2>2. ASSUME NEW x \in Clients, NEW y \in Clients, cl'[x].pc \in Provisioning,
               cl'[y].pc \in Provisioning, cl'[x].state = cl'[y].state
        PROVE  x = y
    BY <1>2, <2>2 DEF CallStep, OnceMoves, LeaseInv, OnceInv
  <2>3. \A x \in Clients : cl'[x].pc = "fail" => obj'[cl'[x].state].init = "err"
    BY <1>2 DEF CallStep, OnceMoves, KeepsObjects, LeaseInv, OnceInv, CallOK, Pinning, CallType
  <2> QED BY <2>1, <2>2, <2>3, Zenon DEF OnceInv
<1>6. \A x \in Clients, o \in Objs : x # c => (Holds(x, o)' <=> Holds(x, o))
  BY <1>2, Zenon DEF Holds
<1>7. \A x \in Clients, o \in Objs : Holds(x, o) => o <= used
  <2> SUFFICES ASSUME NEW x \in Clients, NEW o \in Objs, Holds(x, o) PROVE o <= used
    BY Zenon
  <2>1. CallOK(x)
    BY <1>2, Zenon
  <2>2. CASE cl[x].state = o
    BY <1>2, <2>1, <2>2 DEF CallOK, Objs
  <2>3. CASE cl[x].pc = "recheck" /\ cl[x].cand = o
    BY <1>2, <2>1, <2>3 DEF CallOK
  <2> QED BY <2>2, <2>3, Zenon DEF Holds
<1>8. LeaseCountExact'
  <2> SUFFICES ASSUME NEW o \in Objs, IsFlow(o)'
               PROVE  obj'[o].leaseCount = Cardinality({x \in Clients : Holds(x, o)'})
    BY Zenon DEF LeaseCountExact
  <2> DEFINE H == {x \in Clients : Holds(x, o)}
             K == {x \in Clients : Holds(x, o)'}
  <2>1. CASE o <= used
    <3>1. IsFlow(o) /\ o \in 1..used
      BY <1>2, <2>1 DEF IsFlow, Objs
    <3>2. obj[o].leaseCount = Cardinality(H)
      BY <3>1, Zenon DEF LeaseInv, LeaseCountExact
    <3>3. obj'[o].leaseCount = obj[o].leaseCount + (IF Holds(c, o)' THEN 1 ELSE 0)
                                                 - (IF Holds(c, o) THEN 1 ELSE 0)
      BY <3>1, Zenon DEF CallStep, LeaseMoves
    <3>4. /\ Cardinality(H) \in Nat
          /\ (Holds(c, o)' <=> Holds(c, o)) => Cardinality(K) = Cardinality(H)
          /\ Holds(c, o)' /\ ~Holds(c, o) => Cardinality(K) = Cardinality(H) + 1
          /\ ~Holds(c, o)' /\ Holds(c, o) => Cardinality(K) = Cardinality(H) - 1
      BY <1>6, HoldersChange, Zenon
    <3> HIDE DEF H, K
    <3>5. obj'[o].leaseCount = Cardinality(K)
      BY <3>2, <3>3, <3>4
    <3> QED BY <3>5, Zenon DEF K
  <2>2. CASE o > used
    <3>1. \A x \in Clients : ~Holds(x, o)'
      BY <1>2, <1>6, <1>7, <2>2 DEF CallStep, LeaseMoves, Objs
    <3>2. K = {}
      BY <3>1, Zenon
    <3> QED BY <2>2, <3>2, FS_EmptySet, Zenon DEF CallStep, KeepsObjects
  <2> QED BY <2>1, <2>2, <1>2 DEF Objs
<1>9. HeldInv'
  <2>1. ASSUME NEW x \in Clients, NEW o \in Objs, Holds(x, o)', IsFlow(o)'
        PROVE  ~obj'[o].markedForDeletion
    <3>1. o <= used
      BY <1>6, <1>7, <2>1, Zenon DEF CallStep, LeaseMoves
    <3>2. IsFlow(o) /\ obj'[o].markedForDeletion = obj[o].markedForDeletion
      BY <1>2, <2>1, <3>1 DEF IsFlow, Objs
    <3>3. Holds(x, o) \/ ~obj[o].markedForDeletion
      BY <1>6, <2>1, <3>2, Zenon DEF CallStep, LeaseMoves
    <3> QED BY <3>2, <3>3, Zenon DEF LeaseInv, HeldInv
  <2>2. ASSUME NEW x \in Clients, cl'[x].state # 0
        PROVE  map'[cl'[x].flow] = cl'[x].state \/ FailedLater(cl'[x].flow)
    <3>1. cl'[x].flow \in Flows
      BY <1>3, <2>2, Zenon DEF CallInv, CallOK
    <3>2. \/ cl'[x].state = cl[x].state /\ cl'[x].flow = cl[x].flow
          \/ map'[cl'[x].flow] = cl'[x].state
      BY <1>2, <2>2, Zenon DEF CallStep, LeaseMoves
    <3>3. map[cl[x].flow] = cl[x].state \/ ProvisioningFailed(cl[x].flow) \/ cl[x].state = 0
      BY Zenon DEF LeaseInv, HeldInv
    <3> QED BY <2>2, <3>1, <3>2, <3>3, FailureStays, Zenon DEF CallStep, KeepsObjects, Keys
  <2> QED BY <2>1, <2>2, Zenon DEF HeldInv, FailedLater, ProvisioningFailed
<1> QED BY <1>1, <1>3, <1>4, <1>5, <1>8, <1>9, Zenon DEF LeaseInv

-----------------------------------------------------------------------------
(* The steps of the collector, of the clock and of the shards.             *)

\* A step that changes no call, no key, no sync.Once and no lease of a flow.
LEMMA OtherStep ==
  ASSUME LeaseInv, TypeInv', ObjInv', GCInv', UNCHANGED <<cl, used>>,
         \A o \in Objs : /\ obj'[o].key = obj[o].key /\ obj'[o].init = obj[o].init
                         /\ IsFlow(o) => obj'[o].leaseCount = obj[o].leaseCount,
         \A c \in Clients, o \in Objs : Holds(c, o) /\ IsFlow(o) => ~obj'[o].markedForDeletion,
         \A c \in Clients : cl[c].state # 0 =>
           map'[cl[c].flow] = cl[c].state \/ ProvisioningFailed(cl[c].flow)
  PROVE  LeaseInv'
<1>1. CallInv'
  <2>1. ASSUME NEW c \in Clients PROVE CallOK(c)'
    <3>1. CallOK(c) /\ \A o \in 1..used : obj'[o].key = obj[o].key
      BY CallFacts, Zenon
    <3> QED BY <3>1, Zenon DEF CallOK, Target
  <2> QED BY <2>1, Zenon DEF CallInv
<1>2. OnceInv'
  <2>1. \A c \in Clients : cl[c].pc = "fail" => cl[c].state \in Objs
    BY CallFacts, Zenon DEF CallOK, Pinning
  <2>2. \A c \in Clients : cl[c].pc \in Provisioning => cl[c].state \in Objs
    BY CallFacts, Zenon
  <2> QED BY <2>1, <2>2, Zenon DEF LeaseInv, OnceInv
<1>3. \A c \in Clients, o \in Objs : Holds(c, o)' <=> Holds(c, o)
  BY Zenon DEF Holds
<1>4. \A o \in Objs : IsFlow(o)' <=> IsFlow(o)
  BY Zenon DEF IsFlow
<1>5. LeaseCountExact'
  <2> SUFFICES ASSUME NEW o \in Objs, IsFlow(o)
               PROVE  obj'[o].leaseCount = Cardinality({x \in Clients : Holds(x, o)'})
    BY <1>4, Zenon DEF LeaseCountExact
  <2>1. {x \in Clients : Holds(x, o)'} = {x \in Clients : Holds(x, o)}
    BY <1>3, Zenon
  <2> QED BY <2>1, Zenon DEF LeaseInv, LeaseCountExact
<1>6. HeldInv'
  <2>1. \A c \in Clients, o \in Objs : Holds(c, o)' /\ IsFlow(o)' => ~obj'[o].markedForDeletion
    BY <1>3, <1>4, Zenon
  <2>2. \A c \in Clients : cl[c].state # 0 =>
           map'[cl[c].flow] = cl[c].state \/ FailedLater(cl[c].flow)
    BY SMTT(30) DEF ProvisioningFailed, FailedLater
  <2> QED BY <2>1, <2>2, Zenon DEF HeldInv, FailedLater, ProvisioningFailed
<1> QED BY <1>1, <1>2, <1>5, <1>6, Zenon DEF LeaseInv

\* A step of the collector that changes no lease keeps the invariant.
LEMMA QuietStep ==
  ASSUME LeaseInv, UNCHANGED <<leaseVars, cl>>, now' \in Nat, gc' \in GCType, GCInv'
  PROVE  LeaseInv'
<1>1. TypeInv' /\ ObjInv'
  BY Zenon DEF LeaseInv, TypeInv, ObjInv, leaseVars
<1>2. /\ \A c \in Clients, o \in Objs : Holds(c, o) /\ IsFlow(o) => ~obj[o].markedForDeletion
      /\ \A c \in Clients : cl[c].state # 0 =>
           map[cl[c].flow] = cl[c].state \/ ProvisioningFailed(cl[c].flow)
  BY Zenon DEF LeaseInv, HeldInv
<1> QED BY <1>1, <1>2, OtherStep, Zenon DEF leaseVars

\* checkAndMarkForDeletion marks exactly when it must, and leaves the rest of the lease state alone.
LEMMA MarkChange ==
  ASSUME NEW ls \in ObjType, NEW timeout, NEW t \in Nat
  PROVE  LET r == checkAndMarkForDeletion(ls, timeout, t)
         IN /\ r \in ObjType /\ r.key = ls.key /\ r.init = ls.init /\ r.leaseCount = ls.leaseCount
            /\ mustMark(ls, timeout, t) => r.markedForDeletion
            /\ ~mustMark(ls, timeout, t) => r.markedForDeletion = ls.markedForDeletion
<1> DEFINE r == checkAndMarkForDeletion(ls, timeout, t)
<1>1. LET q == [ls EXCEPT !.markedForDeletion = TRUE]
      IN /\ q \in ObjType /\ q.key = ls.key /\ q.init = ls.init /\ q.leaseCount = ls.leaseCount
         /\ q.markedForDeletion
  BY Zenon DEF ObjType
<1>2. ASSUME NEW i \in Int
      PROVE  LET q == [ls EXCEPT !.becameIdleAt = i]
             IN /\ q \in ObjType /\ q.key = ls.key /\ q.init = ls.init
                /\ q.leaseCount = ls.leaseCount /\ q.markedForDeletion = ls.markedForDeletion
  BY Zenon DEF ObjType
<1>3. /\ mustMark(ls, timeout, t) => r = [ls EXCEPT !.markedForDeletion = TRUE]
      /\ ~mustMark(ls, timeout, t) =>
           r = ls \/ \E i \in {0, t} : r = [ls EXCEPT !.becameIdleAt = i]
  BY Zenon DEF checkAndMarkForDeletion
<1> HIDE DEF r
<1>4. ~mustMark(ls, timeout, t) => r = ls \/ \E i \in Int : r = [ls EXCEPT !.becameIdleAt = i]
  BY <1>3
<1>5. CASE mustMark(ls, timeout, t)
  BY <1>1, <1>3, <1>5, Zenon DEF r
<1>6. CASE ~mustMark(ls, timeout, t)
  <2>1. CASE r = ls
    BY <1>6, <2>1, Zenon DEF r
  <2>2. CASE \E i \in Int : r = [ls EXCEPT !.becameIdleAt = i]
    <3>1. PICK i \in Int : r = [ls EXCEPT !.becameIdleAt = i]
      BY <2>2, Zenon
    <3> QED BY <1>2, <1>6, <3>1 DEF r
  <2> QED BY <1>4, <1>6, <2>1, <2>2, Zenon
<1> QED BY <1>5, <1>6, Zenon

\* No call holds the flow object that is marked.
LEMMA GCCheckStep ==
  ASSUME LeaseInv, gcCheck
  PROVE  LeaseInv'
<1> DEFINE b == gc.cand
           r == checkAndMarkForDeletion(obj[b], Timeout, gc.at)
<1>1. /\ gc \in GCType /\ gc.at \in Nat /\ gc.key \in Keys /\ b \in 1..used /\ obj[b].key = gc.key
      /\ gc.key \in Flows => map[gc.key] = b \/ ProvisioningFailed(gc.key)
  BY Zenon DEF LeaseInv, TypeInv, GCInv, GCType, gcCheck
<1>2. obj' = [obj EXCEPT ![b] = r] /\ UNCHANGED <<map, used, cl, now>>
  BY Zenon DEF gcCheck, gcFrame
<1>3. /\ gc' \in GCType /\ gc'.key = gc.key /\ gc'.cand = gc.cand
      /\ gc'.pc = IF mustMark(obj[b], Timeout, gc.at) THEN "delete" ELSE "range"
  BY <1>1, Zenon DEF gcCheck, GCType
<1>4. /\ r \in ObjType /\ r.key = obj[b].key /\ r.init = obj[b].init
      /\ r.leaseCount = obj[b].leaseCount
      /\ mustMark(obj[b], Timeout, gc.at) => r.markedForDeletion
      /\ ~mustMark(obj[b], Timeout, gc.at) => r.markedForDeletion = obj[b].markedForDeletion
  BY <1>1, MarkChange, CallFacts
<1>5. mustMark(obj[b], Timeout, gc.at) => obj[b].leaseCount <= 0
  BY Zenon DEF mustMark
<1> HIDE DEF r, b
<1>6. /\ b \in Objs /\ obj' \in [Objs -> ObjType] /\ obj'[b] = r
      /\ \A o \in Objs : o # b => obj'[o] = obj[o]
  BY <1>1, <1>2, <1>4, CallFacts, Zenon
<1>7. TypeInv'
  BY <1>2, <1>3, <1>6, Zenon DEF LeaseInv, TypeInv
<1>8. ObjInv'
  <2>1. \A k \in Keys : map[k] # 0 => map[k] \in Objs
    BY CallFacts DEF Objs
  <2>2. \A o \in Objs : o > used => o # b /\ obj[o] = NewState(0)
    <3>1. \A o \in Objs : o > used => obj[o] = NewState(0)
      BY Zenon DEF LeaseInv, ObjInv
    <3>2. \A o \in Objs : o > used => o # b
      BY <1>1, CallFacts DEF Objs
    <3> QED BY <3>1, <3>2, Zenon
  <2>3. \A k \in Keys : map[k] # 0 => map[k] <= used /\ obj[map[k]].key = k
    BY Zenon DEF LeaseInv, ObjInv
  <2>4. \A o \in Objs : obj'[o].key = obj[o].key
    BY <1>4, <1>6, Zenon
  <2> QED BY <1>2, <1>6, <2>1, <2>2, <2>3, <2>4, Zenon DEF ObjInv
<1>9. GCInv'
  <2>1. gc.key \in Flows => map[gc.key] = b \/ FailedLater(gc.key)
    BY <1>1, <1>4, <1>6 DEF ProvisioningFailed, FailedLater
  <2>2. gc'.pc \in {"check", "delete"} => r.markedForDeletion
    BY <1>3, <1>4, Zenon
  <2> QED BY <1>1, <1>2, <1>3, <1>4, <1>6, <2>1, <2>2
       DEF GCInv, b, FailedLater, ProvisioningFailed
<1>10. ASSUME NEW c \in Clients, NEW o \in Objs, Holds(c, o), IsFlow(o)
       PROVE  ~obj'[o].markedForDeletion
  <2>1. ~obj[o].markedForDeletion
    BY <1>10, Zenon DEF LeaseInv, HeldInv
  <2>2. \A x \in Clients : x # c => (Holds(x, o)' <=> Holds(x, o))
    BY <1>2, Zenon DEF Holds
  <2>3. obj[o].leaseCount = Cardinality({x \in Clients : Holds(x, o)})
    BY <1>10, Zenon DEF LeaseInv, LeaseCountExact
  <2>4. Cardinality({x \in Clients : Holds(x, o)}) \in Nat /\ Cardinality({x \in Clients : Holds(x, o)}) >= 1
    BY <1>10, <2>2, HoldersChange, Zenon
  <2>5. ~(obj[o].leaseCount <= 0)
    BY <2>3, <2>4
  <2> QED BY <1>4, <1>5, <1>6, <2>1, <2>5, Zenon
<1>11. \A c \in Clients : cl[c].state # 0 =>
         map'[cl[c].flow] = cl[c].state \/ ProvisioningFailed(cl[c].flow)
  BY <1>2, Zenon DEF LeaseInv, HeldInv
<1>12. \A o \in Objs : /\ obj'[o].key = obj[o].key /\ obj'[o].init = obj[o].init
                       /\ obj'[o].leaseCount = obj[o].leaseCount
  BY <1>4, <1>6, Zenon
<1> QED BY <1>2, <1>7, <1>8, <1>9, <1>10, <1>11, <1>12, OtherStep, Zenon

\* The object that is deleted is marked, so no call holds it.
LEMMA GCDeleteStep ==
  ASSUME LeaseInv, gcDelete
  PROVE  LeaseInv'
<1>1. /\ gc \in GCType /\ gc.key \in Keys /\ gc.cand \in 1..used /\ obj[gc.cand].key = gc.key
      /\ obj[gc.cand].markedForDeletion
      /\ gc.key \in Flows => map[gc.key] = gc.cand \/ ProvisioningFailed(gc.key)
  BY Zenon DEF LeaseInv, TypeInv, GCInv, gcDelete
<1>2. map' = [map EXCEPT ![gc.key] = 0] /\ UNCHANGED <<obj, used, cl, now>>
  BY Zenon DEF gcDelete, gcFrame
<1>3. gc' \in GCType /\ gc'.pc = "range"
  BY <1>1, Zenon DEF gcDelete, GCType
<1>4. /\ map' \in [Keys -> 0..MaxObj] /\ map'[gc.key] = 0
      /\ \A k \in Keys : k # gc.key => map'[k] = map[k]
  BY <1>1, <1>2, CallFacts
<1>5. TypeInv' /\ ObjInv' /\ GCInv'
  <2>1. TypeInv'
    BY <1>2, <1>3, <1>4, Zenon DEF LeaseInv, TypeInv
  <2>2. ObjInv'
    BY <1>2, <1>4, Zenon DEF LeaseInv, ObjInv
  <2> QED BY <1>3, <2>1, <2>2, Zenon DEF GCInv
<1>6. ASSUME NEW c \in Clients, cl[c].state # 0
      PROVE  map'[cl[c].flow] = cl[c].state \/ ProvisioningFailed(cl[c].flow)
  <2>1. map[cl[c].flow] = cl[c].state \/ ProvisioningFailed(cl[c].flow)
    BY <1>6, Zenon DEF LeaseInv, HeldInv
  <2>2. cl[c].flow \in Flows /\ cl[c].flow \in Keys
    BY <1>6, CallFacts, Zenon DEF CallOK, Keys
  <2>3. CASE cl[c].flow # gc.key
    BY <1>4, <2>1, <2>2, <2>3, Zenon
  <2>4. CASE cl[c].flow = gc.key
    <3>1. cl[c].state # gc.cand
      <4> SUFFICES ASSUME cl[c].state = gc.cand PROVE FALSE
        BY Zenon
      <4>1. gc.cand \in Objs /\ Holds(c, gc.cand) /\ IsFlow(gc.cand)
        BY <1>1, <2>2, <2>4, CallFacts, Zenon DEF Holds, IsFlow
      <4> QED BY <1>1, <4>1, Zenon DEF LeaseInv, HeldInv
    <3> QED BY <1>1, <2>1, <2>2, <2>4, <3>1, Zenon
  <2> QED BY <2>3, <2>4, Zenon
<1>7. \A c \in Clients, o \in Objs : Holds(c, o) /\ IsFlow(o) => ~obj[o].markedForDeletion
  BY Zenon DEF LeaseInv, HeldInv
<1> QED BY <1>2, <1>5, <1>6, <1>7, OtherStep, Zenon

\* The collector gives the lease of the band of a deleted flow back: the invariant is kept.
LEMMA GCUnpinBandStep ==
  ASSUME LeaseInv, NEW f \in Flows, gcUnpinBand(f)
  PROVE  LeaseInv'
<1> DEFINE b == map[PrioOf[f]]
           r == Unpinned(obj[b], now)
<1>1. PrioOf[f] \in Keys /\ PrioOf[f] \notin Flows
  BY RegistryAssumption, Zenon DEF Keys
<1>2. gc' \in GCType /\ gc'.pc \notin {"check", "delete"}
  BY Zenon DEF gcUnpinBand, LeaseInv, TypeInv, GCType
<1>3. UNCHANGED <<map, used, cl, now>>
  BY Zenon DEF gcUnpinBand, gcFrame
<1>4. GCInv'
  BY <1>2, Zenon DEF GCInv
<1>5. CASE b = 0
  <2>1. UNCHANGED <<leaseVars, cl>>
    BY <1>3, <1>5, Zenon DEF gcUnpinBand, leaseVars
  <2> QED BY <1>2, <1>3, <1>4, <2>1, QuietStep, CallFacts, Zenon
<1>6. CASE b # 0
  <2>1. b \in 1..used /\ obj[b].key \notin Flows
    BY <1>1, <1>6, CallFacts DEF LeaseInv, ObjInv
  <2>2. obj' = [obj EXCEPT ![b] = r]
    BY <1>6, Zenon DEF gcUnpinBand, releaseBand
  <2>3. /\ r \in ObjType /\ r.key = obj[b].key /\ r.init = obj[b].init
        /\ r.markedForDeletion = obj[b].markedForDeletion
    BY <2>1, LeaseChange, CallFacts, Zenon
  <2> HIDE DEF r, b
  <2>4. /\ KeepsObjects /\ obj'[b] = r
    BY <1>3, <2>1, <2>2, <2>3, ChangedObject, CallFacts, Zenon
  <2>5. b \in Objs /\ \A o \in Objs : o # b => obj'[o] = obj[o]
    BY <2>1, <2>2, CallFacts, Zenon
  <2>6. TypeInv' /\ ObjInv'
    BY <1>2, <1>3, <2>4, Zenon DEF KeepsObjects, LeaseInv, TypeInv
  <2>7. \A o \in Objs : /\ obj'[o].key = obj[o].key /\ obj'[o].init = obj[o].init
                        /\ obj'[o].markedForDeletion = obj[o].markedForDeletion
                        /\ IsFlow(o) => obj'[o].leaseCount = obj[o].leaseCount
    BY <2>1, <2>3, <2>4, <2>5, Zenon DEF IsFlow
  <2>8. /\ \A c \in Clients, o \in Objs : Holds(c, o) /\ IsFlow(o) => ~obj'[o].markedForDeletion
        /\ \A c \in Clients : cl[c].state # 0 =>
             map'[cl[c].flow] = cl[c].state \/ ProvisioningFailed(cl[c].flow)
    <3>1. /\ \A c \in Clients, o \in Objs : Holds(c, o) /\ IsFlow(o) => ~obj[o].markedForDeletion
          /\ \A c \in Clients : cl[c].state # 0 =>
               map[cl[c].flow] = cl[c].state \/ ProvisioningFailed(cl[c].flow)
      BY Zenon DEF LeaseInv, HeldInv
    <3>2. \A o \in Objs : obj'[o].markedForDeletion = obj[o].markedForDeletion
      BY <2>7, Zenon
    <3> QED BY <1>3, <3>1, <3>2, Zenon
  <2>9. \A o \in Objs : /\ obj'[o].key = obj[o].key /\ obj'[o].init = obj[o].init
                        /\ IsFlow(o) => obj'[o].leaseCount = obj[o].leaseCount
    BY <2>7, Zenon
  <2> QED BY <1>3, <1>4, <2>6, <2>8, <2>9, OtherStep, Zenon
<1> QED BY <1>5, <1>6, Zenon

\* Every step of the collector keeps the invariant of the leases.
LEMMA CollectorLease ==
  ASSUME LeaseInv, Collector
  PROVE  LeaseInv'
<1>1. now \in Nat /\ gc \in GCType /\ used \in Nat
  BY CallFacts, Zenon DEF LeaseInv, TypeInv
<1>2. ASSUME NEW p \in {"flows", "bands"}
      PROVE  Collect(p) \in GCType /\ Collect(p).pc = "range"
  <2> DEFINE t == IF p = "flows" THEN Flows ELSE Prios
  <2>1. t \in SUBSET Keys
    BY Zenon DEF Keys
  <2>2. Collect(p) = [NoGC EXCEPT !.pc = "range", !.phase = p, !.at = now, !.todo = t]
    BY Zenon DEF Collect
  <2>3. NoGC \in GCType
    BY RegistryAssumption, 0 \in 0..MaxObj, {} \in SUBSET Keys, Zenon DEF NoGC, GCType
  <2> HIDE DEF t
  <2> QED BY <1>1, <2>1, <2>2, <2>3, ZenonT(30) DEF GCType
<1>3. ASSUME UNCHANGED <<leaseVars, cl, now>>, gc' \in GCType, gc'.pc \notin {"check", "delete"}
      PROVE  LeaseInv'
  BY <1>1, <1>3, QuietStep, Zenon DEF GCInv
<1>4. CASE executeGCCycle
  BY <1>2, <1>3, <1>4, Zenon DEF executeGCCycle, gcFrame
<1>5. CASE gcRanged
  <2>1. gc' \in GCType /\ gc'.pc \notin {"check", "delete"}
    <3>1. [gc EXCEPT !.pc = "unpin", !.todo = gc.dead] \in GCType
          /\ [gc EXCEPT !.pc = "unpin", !.todo = gc.dead].pc = "unpin"
      BY <1>1, Zenon DEF GCType
    <3>2. ASSUME NEW p \in {"sweep", "bandRest"}
          PROVE  [gc EXCEPT !.pc = p] \in GCType /\ [gc EXCEPT !.pc = p].pc = p
      BY <1>1, Zenon DEF GCType
    <3>3. \/ gc' = Collect("bands")
          \/ gc' = [gc EXCEPT !.pc = "unpin", !.todo = gc.dead]
          \/ gc' = [gc EXCEPT !.pc = "sweep"]
          \/ gc' = [gc EXCEPT !.pc = "bandRest"]
      BY <1>5, Zenon DEF gcRanged
    <3> QED BY <1>2, <3>1, <3>2, <3>3, Zenon
  <2> QED BY <1>3, <1>5, <2>1, Zenon DEF gcRanged, gcFrame
<1>6. CASE cleanupFlowResources
  BY <1>2, <1>3, <1>6, Zenon DEF cleanupFlowResources, gcFrame
<1>7. CASE cleanupPriorityBandResources
  <2>1. gc' \in GCType /\ gc'.pc = "sweep"
    BY <1>1, <1>7, Zenon DEF cleanupPriorityBandResources, GCType
  <2> QED BY <1>3, <1>7, <2>1, Zenon DEF cleanupPriorityBandResources, gcFrame
<1>8. CASE sweepDrainingShards
  <2>1. gc' \in GCType /\ gc'.pc = "idle"
    <3>1. 0 \in 0..MaxObj /\ {} \in SUBSET Keys
      BY RegistryAssumption
    <3> QED BY <1>8, <3>1, Zenon DEF sweepDrainingShards, NoGC, GCType
  <2> QED BY <1>3, <1>8, <2>1, Zenon DEF sweepDrainingShards, gcFrame
<1>9. ASSUME NEW k \in Keys, gcVisit(k) PROVE LeaseInv'
  <2>1. UNCHANGED <<leaseVars, cl, now>>
    BY <1>9, Zenon DEF gcVisit, gcFrame
  <2>2. CASE map[k] = 0
    <3>1. gc' \in GCType /\ gc'.pc = "range"
      BY <1>1, <1>9, <2>2, Zenon DEF gcVisit, GCType
    <3> QED BY <1>3, <2>1, <3>1, Zenon
  <2>3. CASE map[k] # 0
    <3> DEFINE g == [gc EXCEPT !.todo = @ \ {k}, !.pc = "check", !.key = k, !.cand = map[k]]
    <3>1. map[k] \in 0..MaxObj /\ map[k] \in 1..used /\ obj[map[k]].key = k
      BY <1>1, <2>3, CallFacts DEF LeaseInv, ObjInv
    <3>2. g \in GCType /\ g.pc = "check" /\ g.key = k /\ g.cand = map[k]
      BY <1>1, <3>1, Zenon DEF GCType
    <3>3. gc' = g
      BY <1>9, <2>3, Zenon DEF gcVisit
    <3> HIDE DEF g
    <3>4. GCInv'
      BY <2>1, <3>1, <3>2, <3>3, Zenon DEF GCInv, leaseVars
    <3> QED BY <1>1, <2>1, <3>2, <3>3, <3>4, QuietStep, Zenon
  <2> QED BY <2>2, <2>3, Zenon
<1> QED BY <1>4, <1>5, <1>6, <1>7, <1>8, <1>9, GCCheckStep, GCDeleteStep, GCUnpinBandStep, Zenon
     DEF Collector

\* Every step keeps the invariant of the leases.
LEMMA NextLease == LeaseInv /\ [Next]_vars => LeaseInv'
<1> SUFFICES ASSUME LeaseInv, [Next]_vars PROVE LeaseInv'
  BY Zenon
<1>1. ASSUME NEW c \in Clients, Client(c) PROVE LeaseInv'
  BY Zenon, <1>1, PinLoadStep, TryPinStep, PinRecheckStep, InitializedDoStep, EnsureExistsStep,
     EnsurePriorityBandStep, EnsureSyncStep, FailDeleteStep, FailUnpinBandStep, UnpinStep,
     CallStepLease DEF Client
<1>2. ASSUME NEW c \in Clients, NEW f \in Flows, WithConnection(c, f) PROVE LeaseInv'
  BY <1>2, WithConnectionStep, CallStepLease, Zenon
<1>3. ASSUME UNCHANGED <<leaseVars, cl, gc>>, now' \in Nat PROVE LeaseInv'
  <2>1. GCInv'
    BY <1>3, Zenon DEF LeaseInv, GCInv, leaseVars, ProvisioningFailed
  <2> QED BY <1>3, <2>1, QuietStep, Zenon DEF LeaseInv, TypeInv
<1>4. now \in Nat /\ now + 1 \in Nat
  BY DEF LeaseInv, TypeInv
<1>5. ASSUME NEW n \in ShardCounts, updateShardCount(n) PROVE LeaseInv'
  BY <1>3, <1>4, <1>5, Zenon DEF updateShardCount
<1>6. CASE Tick
  BY <1>3, <1>4, <1>6, Zenon DEF Tick
<1>7. CASE UNCHANGED vars
  BY <1>3, <1>4, <1>7, Zenon DEF vars
<1> QED BY <1>1, <1>2, <1>5, <1>6, <1>7, CollectorLease, Zenon DEF Next

-----------------------------------------------------------------------------
(* The bands of the shards.                                                *)

\* Every shard has its bands before the first call.
LEMMA InitBands == Init => BandInv
<1> SUFFICES ASSUME Init PROVE BandInv
  BY Zenon
<1>1. /\ InitialShardCount \in Nat /\ InitialShardCount <= MaxShards /\ MaxShards \in Nat
      /\ activeShards = [i \in 1..InitialShardCount |-> i]
  BY RegistryAssumption DEF Init
<1>2. activeShards \in Seq(Shards)
  BY <1>1 DEF Shards
<1>3. \A s \in Range(activeShards) : s \in Shards /\ s <= InitialShardCount
  BY <1>1, SMTT(30) DEF Range, Shards
<1>4. bands \in [Shards -> SUBSET Prios] /\ \A s \in Range(activeShards) : bands[s] = StaticBands
  BY <1>3, RegistryAssumption, Zenon DEF Init
<1>5. /\ config = StaticBands /\ statsKeys = StaticBands /\ StaticBands \subseteq Prios
      /\ drainingShards \subseteq Shards /\ nextShardID \in Nat
  BY <1>1, RegistryAssumption, SMTT(30) DEF Init
<1> QED BY <1>2, <1>4, <1>5, Zenon DEF BandInv

\* Every step keeps the invariant of the bands.
LEMMA NextBands == LeaseInv /\ BandInv /\ [Next]_vars => BandInv'
<1> SUFFICES ASSUME LeaseInv, BandInv, [Next]_vars PROVE BandInv'
  BY Zenon
<1>1. /\ activeShards \in Seq(Shards) /\ drainingShards \subseteq Shards /\ nextShardID \in Nat
      /\ config \subseteq Prios /\ statsKeys = config /\ bands \in [Shards -> SUBSET Prios]
      /\ \A s \in Range(activeShards) : s \in Shards /\ bands[s] = config
  BY DEF BandInv, Range
<1>2. ASSUME UNCHANGED <<config, statsKeys, activeShards, nextShardID, bands>>,
             drainingShards' \subseteq drainingShards
      PROVE  BandInv'
  BY <1>1, <1>2, Zenon DEF BandInv
<1>3. ASSUME NEW c \in Clients, ensurePriorityBand(c) PROVE BandInv'
  <2> DEFINE p == PrioFor(c)
  <2>1. p \in Prios
    BY <1>3, TargetType, Zenon DEF ensurePriorityBand
  <2>2. /\ config' = config \union {p} /\ statsKeys' = statsKeys \union {p}
        /\ UNCHANGED <<activeShards, drainingShards, nextShardID>>
        /\ bands' = [s \in Shards |-> IF p \notin config /\ s \in Range(activeShards)
                                      THEN bands[s] \union {p} ELSE bands[s]]
    BY <1>3, Zenon DEF ensurePriorityBand, newBandShards
  <2> HIDE DEF p
  <2>3. bands' \in [Shards -> SUBSET Prios]
    BY <1>1, <2>1, <2>2, Zenon
  <2>4. \A s \in Range(activeShards) : bands'[s] = config'
    BY <1>1, <2>1, <2>2, Zenon
  <2> QED BY <1>1, <2>1, <2>2, <2>3, <2>4, Zenon DEF BandInv
<1>4. CASE cleanupPriorityBandResources
  <2>1. /\ config' = config \ Gone /\ statsKeys' = statsKeys \ Gone
        /\ UNCHANGED <<activeShards, drainingShards, nextShardID>>
        /\ bands' = [s \in Shards |-> IF s \in Range(activeShards) \union drainingShards
                                      THEN bands[s] \ Gone ELSE bands[s]]
    BY <1>4, Zenon DEF cleanupPriorityBandResources, bandShards, allShards
  <2>2. bands' \in [Shards -> SUBSET Prios]
    BY <1>1, <2>1, Zenon
  <2>3. \A s \in Range(activeShards) : bands'[s] = config'
    BY <1>1, <2>1, Zenon
  <2> QED BY <1>1, <2>1, <2>2, <2>3, Zenon DEF BandInv
<1>5. ASSUME NEW n \in ShardCounts, executeScaleUpLocked(n), UNCHANGED <<config, statsKeys>>
      PROVE  BandInv'
  <2> DEFINE k == n - Len(activeShards)
             more == nextShardID..(nextShardID + n - Len(activeShards) - 1)
             q == [i \in 1..k |-> nextShardID + i - 1]
  <2>1. n \in Nat /\ Len(activeShards) \in Nat /\ n > Len(activeShards) /\ more \subseteq Shards
    BY <1>1, <1>5, RegistryAssumption, SMTT(30) DEF executeScaleUpLocked
  <2>2. /\ activeShards' = activeShards \o q
        /\ bands' = [s \in Shards |-> IF s \in more THEN config ELSE bands[s]]
        /\ nextShardID' = nextShardID + n - Len(activeShards)
        /\ UNCHANGED drainingShards
    BY <1>5, Zenon DEF executeScaleUpLocked
  <2>3. k \in Nat /\ \A i \in 1..k : q[i] \in more
    BY <1>1, <2>1
  <2> HIDE DEF more
  <2>4. q \in Seq(Shards) /\ Len(q) = k
    BY <2>1, <2>3
  <2>5. nextShardID' \in Nat
    BY <1>1, <2>1, <2>2
  <2> HIDE DEF q, k
  <2>6. /\ activeShards' \in Seq(Shards)
        /\ \A s \in Range(activeShards') : s \in Range(activeShards) \/ s \in more
    <3>1. activeShards' \in Seq(Shards) /\ Len(activeShards') = Len(activeShards) + k
      <4>1. \A a, b \in Seq(Shards) : a \o b \in Seq(Shards) /\ Len(a \o b) = Len(a) + Len(b)
        OBVIOUS
      <4> QED BY <1>1, <2>2, <2>4, <4>1, Zenon
    <3>2. ASSUME NEW i \in 1..Len(activeShards')
          PROVE  activeShards'[i] \in Range(activeShards) \union more
      <4>1. CASE i <= Len(activeShards)
        <5>1. i \in DOMAIN activeShards /\ activeShards'[i] = activeShards[i]
          BY <1>1, <2>2, <2>4, <4>1
        <5> QED BY <5>1, Zenon DEF Range
      <4>2. CASE i > Len(activeShards)
        <5>1. i - Len(activeShards) \in 1..k /\ activeShards'[i] = q[i - Len(activeShards)]
          BY <1>1, <2>1, <2>2, <2>3, <2>4, <3>1, <4>2
        <5> QED BY <2>3, <5>1, Zenon
      <4> QED BY <1>1, <2>1, <4>1, <4>2
    <3> QED BY <3>1, <3>2 DEF Range
  <2>7. bands' \in [Shards -> SUBSET Prios]
    BY <1>1, <2>2, Zenon
  <2>8. \A s \in Range(activeShards') : bands'[s] = config
    BY <1>1, <2>1, <2>2, <2>6, Zenon
  <2> QED BY <1>1, <1>5, <2>2, <2>5, <2>6, <2>7, <2>8, Zenon DEF BandInv
<1>6. ASSUME NEW n \in ShardCounts, executeScaleDownLocked(n), UNCHANGED <<config, statsKeys>>
      PROVE  BandInv'
  <2>1. /\ n \in Nat /\ n < Len(activeShards) /\ n >= 1
        /\ drainingShards' = drainingShards
              \union Range(SubSeq(activeShards, n + 1, Len(activeShards)))
        /\ activeShards' = SubSeq(activeShards, 1, n)
        /\ UNCHANGED <<nextShardID, bands>>
    BY <1>6, RegistryAssumption DEF executeScaleDownLocked
  <2>2. ASSUME NEW a \in Nat, a >= 1, NEW b \in Nat, b <= Len(activeShards)
        PROVE  /\ SubSeq(activeShards, a, b) \in Seq(Shards)
               /\ Range(SubSeq(activeShards, a, b)) \subseteq Range(activeShards)
    BY <1>1, <2>2 DEF Range
  <2>3. /\ activeShards' \in Seq(Shards) /\ Range(activeShards') \subseteq Range(activeShards)
        /\ drainingShards' \subseteq Shards
    BY <1>1, <2>1, <2>2
  <2> QED BY <1>1, <1>6, <2>1, <2>3, Zenon DEF BandInv
<1>7. ASSUME NEW c \in Clients, Client(c) PROVE BandInv'
  <2>1. UNCHANGED topoVars \/ ensurePriorityBand(c) \/ ensureSync(c)
    BY <1>7, Zenon DEF Client, pinLoad, tryPin, pinRecheck, initializedDo, ensureExists, failDelete,
       failUnpinBand, unpin
  <2> QED BY <1>2, <1>3, <2>1, Zenon DEF topoVars, ensureSync
<1>8. CASE Collector
  <2>1. \/ UNCHANGED topoVars \/ cleanupFlowResources \/ cleanupPriorityBandResources
        \/ sweepDrainingShards
    BY <1>8, Zenon DEF Collector, executeGCCycle, gcVisit, gcCheck, gcDelete, gcRanged, gcUnpinBand
  <2> QED BY <1>2, <1>4, <2>1, Zenon DEF topoVars, cleanupFlowResources, sweepDrainingShards
<1>9. ASSUME NEW n \in ShardCounts, updateShardCount(n) PROVE BandInv'
  BY <1>5, <1>6, <1>9, Zenon DEF updateShardCount
<1> QED BY <1>2, <1>7, <1>8, <1>9, Zenon DEF Next, WithConnection, Tick, vars, topoVars

-----------------------------------------------------------------------------
(* Theorems.                                                               *)

\* Through every retry of the pin loop, every error path of WithConnection and
\* every collection, the lease count of a flow object is the number of calls
\* that hold it.
THEOREM LeasesAreCounted == Spec => []LeaseCountExact
<1>1. LeaseInv => LeaseCountExact
  BY Zenon DEF LeaseInv
<1> QED BY InitLease, NextLease, <1>1, PTL DEF Spec

\* A callback of WithConnection works on an object the collector has not marked
\* and that is in the map, unless a provisioning of the flow has failed.
THEOREM LeasedFlowStays == Spec => []ActiveFlowIsLive
<1>1. LeaseInv => ActiveFlowIsLive
  <2> SUFFICES ASSUME LeaseInv, NEW c \in Clients, cl[c].pc = "fn"
               PROVE  /\ ~obj[cl[c].state].markedForDeletion
                      /\ map[cl[c].flow] = cl[c].state \/ ProvisioningFailed(cl[c].flow)
    BY Zenon DEF ActiveFlowIsLive
  <2>1. /\ cl[c].state \in Objs /\ cl[c].state # 0 /\ cl[c].flow \in Flows
        /\ obj[cl[c].state].key = cl[c].flow
    BY CallFacts, SMTT(30) DEF CallOK, Pinning, Objs
  <2>2. Holds(c, cl[c].state) /\ IsFlow(cl[c].state)
    BY <2>1, Zenon DEF Holds, IsFlow
  <2> QED BY <2>1, <2>2, Zenon DEF LeaseInv, HeldInv
<1> QED BY InitLease, NextLease, <1>1, PTL DEF Spec

\* The bands of every active shard, and the statistics, are those of the
\* configuration: through the provisioning and the collection of bands, and
\* the scaling of the shards.
THEOREM BandsFollowConfig == Spec => []BandsOnEveryShard
<1>1. BandInv => BandsOnEveryShard
  BY Zenon DEF BandInv, BandsOnEveryShard
<1> QED BY InitLease, NextLease, InitBands, NextBands, <1>1, PTL DEF Spec
=============================================================================
