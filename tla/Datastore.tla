----------------------------- MODULE Datastore -----------------------------
(***************************************************************************)
(* The datastore and the two reconcilers that feed it.  The pod worker     *)
(* (controller/pod_reconciler.go) and the pool worker                      *)
(* (controller/inferencepool_reconciler.go) run concurrently; ds.mu guards *)
(* ds.pool only, the endpoints are in a sync.Map.  Endpoints are created   *)
(* and released through the data layer runtime, which keeps one running    *)
(* collector per endpoint and tells endpoint sources of additions and      *)
(* removals (datalayer/runtime.go).                                        *)
(*                                                                         *)
(* `api` and `apiPool` are the objects in the informer cache; an event     *)
(* filter runs after the cache holds the new object.                       *)
(***************************************************************************)
EXTENDS Component

CONSTANTS
    PodNames,         \* names of pods
    PodObjects,       \* contents a pod can have: [label, ready, active]
    PoolObjects,      \* contents the pool can have: [selector, targetPorts]
    MaxPodChanges,    \* bound on changes of pods
    MaxPoolChanges    \* bound on changes of the pool

\* A pool's content is its selector and its ports: PoolSet compares all of it.
ASSUME PoolAssumption ==
    \A pool \in PoolObjects :
       /\ pool = [selector |-> pool.selector, targetPorts |-> pool.targetPorts]
       /\ pool.targetPorts \in Seq(Nat)

\* A worker has endpoint operations to do, and at most one that it is doing.
Idle == [pc |-> "idle", pod |-> Nil, object |-> Nil, todo |-> {}, doing |-> {}]
PoolIdle == [pc |-> "idle", list |-> <<>>, keep |-> {}, todo |-> {}, doing |-> {}]

DatastoreInit ==
    \E polling \in BOOLEAN :
    st = [api |-> [p \in PodNames |-> Nil], apiPool |-> Nil, polling |-> polling,
          events |-> <<>>, queue |-> {}, poolQueued |-> FALSE,
          pool |-> Nil, pods |-> <<>>, collectors |-> {}, notified |-> {},
          podWorker |-> Idle, poolWorker |-> PoolIdle,
          podChanges |-> 0, poolChanges |-> 0, unlisted |-> FALSE, raced |-> {}, met |-> {}]

-----------------------------------------------------------------------------
\* Pods and endpoints

\* Endpoint names: createEndpointNamespacedName(pod, idx).
Endpoint(p, idx) == <<p, idx>>
EndpointsOf(p, pods) == {k \in DOMAIN pods : k[1] = p}

Matches(pool, label) == pool # Nil /\ pool.selector = label
IsPodReady(pod) == pod.ready

\* The annotation "active-ports" restricts the target ports; without it (Nil)
\* every target port is active.
extractActivePorts(pod, targetPorts) ==
    LET allPorts == {targetPorts[i] : i \in DOMAIN targetPorts}
    IN IF pod.active = Nil THEN allPorts ELSE pod.active \cap allPorts

\* What the store keeps of an endpoint (EndpointMetadata).
Metadata(pod, pool, idx) == [label |-> pod.label, port |-> pool.targetPorts[idx]]

ActiveRanks(pod, pool) ==
    {i \in DOMAIN pool.targetPorts : pool.targetPorts[i] \in extractActivePorts(pod, pool.targetPorts)}

\* An endpoint operation; `at` is its place in the loops of the handler.
Op(op, key, meta, at) == [op |-> op, key |-> key, meta |-> meta, at |-> at]

\* The operations of podUpdateOrAddIfNotExist: first the active ranks in
\* order, then the inactive ranks of the pool it was given.
updateOps(p, pod, pool) ==
    LET active == ActiveRanks(pod, pool)
    IN {Op("add", Endpoint(p, i), Metadata(pod, pool, i), i) : i \in active}
       \cup {Op("drop", Endpoint(p, i), Nil, Len(pool.targetPorts) + i) :
                 i \in DOMAIN pool.targetPorts \ active}

\* The operations of a pods.Range, in no particular order.
rangeOps(op, keys) == {Op(op, k, Nil, 0) : k \in keys}

\* The endpoint operations work on a record s of the three maps and of the
\* worker's `todo` and `doing`.  Looking an endpoint up, creating it and
\* storing it, deleting it and releasing it, are separate steps: the other
\* worker may run in between.  Load is the lookup that each operation starts with.
Load(s, o) ==
    LET rest == [s EXCEPT !.todo = @ \ {o}]
        then(op) == [rest EXCEPT !.doing = {Op(op, o.key, o.meta, o.at)}]
        found == o.key \in DOMAIN s.pods
    IN CASE o.op = "add" /\ found -> [rest EXCEPT !.pods = With(@, o.key, o.meta)]
         [] o.op = "add" /\ ~found -> then("new")
         [] o.op = "drop" /\ found -> then("delete")
         [] o.op = "free" /\ found -> then("release")
         [] OTHER -> rest

NewEndpoint(s, o) ==
    LET store == {Op("store", o.key, o.meta, o.at)}
    IN IF ~s.polling THEN [s EXCEPT !.doing = store]
       ELSE IF o.key \in s.collectors THEN [s EXCEPT !.doing = {}]
       ELSE [s EXCEPT !.collectors = @ \cup {o.key}, !.notified = @ \cup {o.key}, !.doing = store]

StoreEndpoint(s, o) == [s EXCEPT !.pods = With(@, o.key, o.meta), !.doing = {}]

DeleteEndpoint(s, o) ==
    [s EXCEPT !.pods = Without(@, {o.key}), !.doing = {Op("release", o.key, o.meta, o.at)}]

ReleaseEndpoint(s, o) ==
    [s EXCEPT !.notified = @ \ {o.key}, !.collectors = @ \ {o.key}, !.doing = {}]

endpointSteps(s) ==
    IF s.doing = {}
    THEN {Load(s, o) : o \in {q \in s.todo : \A r \in s.todo : q.at <= r.at}}
    ELSE {CASE o.op = "new" -> NewEndpoint(s, o)
            [] o.op = "store" -> StoreEndpoint(s, o)
            [] o.op = "delete" -> DeleteEndpoint(s, o)
            [] OTHER -> ReleaseEndpoint(s, o) : o \in s.doing}

\* What the steps of worker w work on.
Work(w) == [pods |-> st.pods, collectors |-> st.collectors, notified |-> st.notified,
            polling |-> st.polling, todo |-> w.todo, doing |-> w.doing]

Finished(w) == w.todo = {} /\ w.doing = {}

\* The pod worker, or the pool worker, takes the next step of its operations.
PodWorkerStep ==
    \E s \in endpointSteps(Work(st.podWorker)) :
       st' = [st EXCEPT !.pods = s.pods, !.collectors = s.collectors, !.notified = s.notified,
                        !.podWorker = [@ EXCEPT !.todo = s.todo, !.doing = s.doing]]

PoolWorkerStep ==
    \E s \in endpointSteps(Work(st.poolWorker)) :
       st' = [st EXCEPT !.pods = s.pods, !.collectors = s.collectors, !.notified = s.notified,
                        !.poolWorker = [@ EXCEPT !.todo = s.todo, !.doing = s.doing]]

-----------------------------------------------------------------------------
\* The API server and the event filters

PodChanges(p) ==
    \E pod \in {Nil} \cup PodObjects :
       /\ pod # st.api[p] /\ st.podChanges < MaxPodChanges
       /\ st' = [st EXCEPT !.api[p] = pod, !.podChanges = @ + 1,
                           !.events = Append(@, [pod |-> p,
                              labels |-> {q.label : q \in {st.api[p], pod} \ {Nil}}])]

PoolChanges ==
    \E pool \in {Nil} \cup PoolObjects :
       /\ pool # st.apiPool /\ st.poolChanges < MaxPoolChanges
       /\ st' = [st EXCEPT !.apiPool = pool, !.poolChanges = @ + 1, !.poolQueued = TRUE]

\* ds.mu is held by the pool worker from PoolSet or Clear to its return.
Locked == st.poolWorker.pc # "idle"

\* The filter of SetupWithManager: an event is queued if a label of the old
\* or of the new object matches the pool the store has now.
PodEvent ==
    /\ st.events # <<>> /\ ~Locked
    /\ LET ev == Head(st.events)
       IN st' = [st EXCEPT !.events = Tail(@),
                   !.queue = IF \E l \in ev.labels : Matches(st.pool, l) THEN @ \cup {ev.pod} ELSE @]

-----------------------------------------------------------------------------
\* The pod worker

Deleting(p) ==
    [Idle EXCEPT !.pc = "endpoints", !.pod = p, !.todo = rangeOps("drop", EndpointsOf(p, st.pods))]

\* Reconcile: nothing is done while there is no pool.
PodReconcile(p) ==
    /\ p \in st.queue /\ st.podWorker.pc = "idle" /\ ~Locked
    /\ st' = [st EXCEPT !.queue = @ \ {p},
                        !.podWorker = IF st.pool = Nil THEN Idle ELSE [Idle EXCEPT !.pc = "get", !.pod = p]]

\* Get: a pod that is gone is deleted from the store.  When Get fails the
\* request goes back into the queue and Reconcile runs again.
PodGet ==
    LET w == st.podWorker
    IN /\ w.pc = "get"
       /\ st' = [st EXCEPT !.podWorker =
            IF st.api[w.pod] = Nil THEN Deleting(w.pod)
            ELSE [Idle EXCEPT !.pc = "match", !.pod = w.pod, !.object = st.api[w.pod]]]

\* updateDatastore: IsPodReady and PoolLabelsMatch.
updateDatastore ==
    LET w == st.podWorker
    IN /\ w.pc = "match" /\ ~Locked
       /\ st' = [st EXCEPT !.podWorker =
            IF IsPodReady(w.object) /\ Matches(st.pool, w.object.label)
            THEN [Idle EXCEPT !.pc = "update", !.pod = w.pod, !.object = w.object]
            ELSE Deleting(w.pod)]

\* PodUpdateOrAddIfNotExist takes the pool under the read lock; the endpoints
\* are updated after the lock is released.
PodUpdateOrAddIfNotExist ==
    LET w == st.podWorker
    IN /\ w.pc = "update" /\ ~Locked
       /\ st' = [st EXCEPT !.podWorker =
            IF st.pool = Nil THEN Idle
            ELSE [Idle EXCEPT !.pc = "endpoints", !.pod = w.pod,
                              !.todo = updateOps(w.pod, w.object, st.pool)]]

PodReconciled ==
    /\ st.podWorker.pc = "endpoints" /\ Finished(st.podWorker)
    /\ st' = [st EXCEPT !.podWorker = Idle]

-----------------------------------------------------------------------------
\* The pool worker

\* The pod the pod worker is working on when the pool worker takes the lock,
\* and the pods whose endpoints and collectors an earlier such meeting of the
\* two workers left apart.
InReconcile == IF st.podWorker.pc = "idle" THEN {} ELSE {st.podWorker.pod}

InStep(p) ==
    st.polling => /\ {k \in st.collectors : k[1] = p} = EndpointsOf(p, st.pods)
                  /\ {k \in st.notified : k[1] = p} = EndpointsOf(p, st.pods)

\* The history the properties need: who is reconciled, or out of step, now,
\* and who has ever been reconciled when the lock was taken.
Met == [raced |-> InReconcile \cup {p \in PodNames : ~InStep(p)}, met |-> st.met \cup InReconcile]

\* Clear: the pool is forgotten, every endpoint is released, and when all are,
\* the map is emptied at once.
Clear ==
    st' = [st EXCEPT !.poolQueued = FALSE, !.pool = Nil, !.unlisted = FALSE,
                     !.raced = Met.raced, !.met = Met.met,
                     !.poolWorker = [PoolIdle EXCEPT !.pc = "clear", !.todo = rangeOps("free", DOMAIN st.pods)]]

Cleared ==
    /\ st.poolWorker.pc = "clear" /\ Finished(st.poolWorker)
    /\ st' = [st EXCEPT !.pods = <<>>, !.poolWorker = PoolIdle]

selectorChanged(old, pool) == old = Nil \/ old.selector # pool.selector
targetPortsChanged(old, pool) == old # Nil /\ old.targetPorts # pool.targetPorts

\* Mutant: only a changed selector is followed by a resync.
ResyncOnSelector(old, pool) == selectorChanged(old, pool)
needsResync(old, pool) == selectorChanged(old, pool) \/ targetPortsChanged(old, pool)

\* The pods podResyncAll lists and does not skip.
Listed(pool) ==
    {p \in PodNames : st.api[p] # Nil /\ st.api[p].label = pool.selector /\ IsPodReady(st.api[p])}

PoolSet(pool) ==
    IF needsResync(st.pool, pool)
    THEN \/ st' = [st EXCEPT !.poolQueued = FALSE, !.pool = pool, !.unlisted = FALSE,
                             !.raced = Met.raced, !.met = Met.met,
                             !.poolWorker = [PoolIdle EXCEPT !.pc = "resync",
                                                !.list = [p \in Listed(pool) |-> st.api[p]]]]
         \* List fails: the pool is already stored, the request is retried
         \/ st' = [st EXCEPT !.pool = pool, !.unlisted = TRUE]
    ELSE st' = [st EXCEPT !.poolQueued = FALSE, !.pool = pool]

PoolReconcile ==
    /\ st.poolQueued /\ ~Locked
    /\ IF st.apiPool = Nil THEN Clear ELSE PoolSet(st.apiPool)

\* podResyncAll: the listed pods are updated one after the other, in the
\* order of the list; all ranks of a listed pod are kept.
podResyncAll ==
    LET w == st.poolWorker
    IN /\ w.pc = "resync" /\ Finished(w)
       /\ \E p \in DOMAIN w.list :
             st' = [st EXCEPT !.poolWorker =
                      [PoolIdle EXCEPT !.pc = "resync", !.list = Without(w.list, {p}),
                          !.keep = w.keep \cup {Endpoint(p, i) : i \in DOMAIN st.pool.targetPorts},
                          !.todo = updateOps(p, w.list[p], st.pool)]]

\* Then every endpoint that is not kept is removed.
PoolPrune ==
    LET w == st.poolWorker
    IN /\ w.pc = "resync" /\ Finished(w) /\ DOMAIN w.list = {}
       /\ st' = [st EXCEPT !.poolWorker =
                   [PoolIdle EXCEPT !.pc = "prune", !.todo = rangeOps("drop", DOMAIN st.pods \ w.keep)]]

PoolReconciled ==
    /\ st.poolWorker.pc = "prune" /\ Finished(st.poolWorker)
    /\ st' = [st EXCEPT !.poolWorker = PoolIdle]

DatastoreNext ==
    \/ \E p \in PodNames : PodChanges(p) \/ PodReconcile(p)
    \/ PoolChanges
    \/ PodEvent
    \/ PodGet
    \/ updateDatastore
    \/ PodUpdateOrAddIfNotExist
    \/ PodWorkerStep
    \/ PodReconciled
    \/ PoolReconcile
    \/ Cleared
    \/ podResyncAll
    \/ PoolPrune
    \/ PoolWorkerStep
    \/ PoolReconciled

-----------------------------------------------------------------------------
\* The endpoints a pod should have under a pool.
Wanted(p, pod, pool) ==
    IF pool = Nil \/ pod = Nil THEN <<>>
    ELSE IF ~IsPodReady(pod) \/ ~Matches(pool, pod.label) THEN <<>>
    ELSE [k \in {Endpoint(p, i) : i \in ActiveRanks(pod, pool)} |-> Metadata(pod, pool, k[2])]

DatastoreQuiet ==
    /\ st.events = <<>> /\ st.queue = {} /\ ~st.poolQueued
    /\ st.podWorker.pc = "idle" /\ st.poolWorker.pc = "idle"

(***************************************************************************)
(* When every event has been handled the store holds exactly the endpoints *)
(* of the ready, matching pods, with their current metadata, and exactly   *)
(* those have a collector and are known to the endpoint sources - although *)
(* filters drop events by the pool of the moment and both workers write    *)
(* the endpoints.  The code has two exceptions, and no other: the pool     *)
(* whose pods could not be listed when it was stored (the retry finds the  *)
(* selector unchanged and does not list again), and a pod that was being   *)
(* reconciled when the pool worker took the lock, or that an earlier such  *)
(* meeting left with endpoints and collectors that differ (a pod stored    *)
(* while Clear is releasing keeps its collector and loses its endpoint,    *)
(* and NewEndpoint then refuses it).  The endpoints and collectors of any  *)
(* other pod never come apart.                                             *)
(***************************************************************************)
DatastoreConverges ==
    part = "datastore" =>
      /\ st.raced \subseteq st.met
      /\ DatastoreQuiet /\ ~st.unlisted =>
           \A p \in PodNames \ st.raced :
              /\ [k \in EndpointsOf(p, st.pods) |-> st.pods[k]] = Wanted(p, st.api[p], st.apiPool)
              /\ InStep(p)
=============================================================================
