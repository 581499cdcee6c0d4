-------------------------- MODULE DatastoreProofs --------------------------
(***************************************************************************)
(* The datastore converges (DatastoreConverges), for every value of the    *)
(* constants.  The invariant follows each pod that is not raced: its       *)
(* endpoints and collectors agree but for the operation being done on it   *)
(* (PodTogether), and unless an event of it is on its way, or the pod      *)
(* worker is about to act on it, the operations left to do end in the      *)
(* endpoints it should have (PodSettled).                                  *)
(***************************************************************************)
EXTENDS Datastore, TLAPS

\* The behaviours of the datastore alone.

DatastoreSpec ==
  part = "datastore" /\ DatastoreInit /\ [][UNCHANGED part /\ DatastoreNext]_<<part, st>>

DatastoreFields ==
  {"api", "apiPool", "polling", "events", "queue", "poolQueued", "pool", "pods", "collectors", "notified",
   "podWorker", "poolWorker", "podChanges", "poolChanges", "unlisted", "raced", "met"}
PodWorkerFields == {"pc", "pod", "object", "todo", "doing"}
PoolWorkerFields == {"pc", "list", "keep", "todo", "doing"}
WorkFields == {"pods", "collectors", "notified", "polling", "todo", "doing"}

Keys == PodNames \X Nat

TodoOps == {"add", "drop", "free"}
DoingOps == {"new", "store", "delete", "release"}

\* What is true of every record that endpoint operations work on: an endpoint
\* has at most one operation, the one being done included.
WorkType(s) ==
  /\ DOMAIN s = WorkFields
  /\ DOMAIN s.pods \subseteq Keys /\ s.collectors \subseteq Keys /\ s.notified \subseteq Keys
  /\ \A o \in s.todo : o.op \in TodoOps /\ o.key \in Keys
  /\ \A o \in s.doing : o.op \in DoingOps /\ o.key \in Keys
  /\ \A o, q \in s.doing : o = q
  /\ \A o, q \in s.todo : o.key = q.key => o = q
  /\ \A o \in s.todo : \A q \in s.doing : o.key # q.key

\* No operation of s is on k.
Untouched(s, k) == \A o \in s.todo \cup s.doing : o.key # k

\* k is, or is about to be, an endpoint with metadata m; k is not, or is about
\* to be no longer, an endpoint.
Coming(s, k, m) ==
  \/ \E o \in s.todo \cup s.doing : o.key = k /\ o.op \in {"add", "new", "store"} /\ o.meta = m
  \/ Untouched(s, k) /\ k \in DOMAIN s.pods /\ s.pods[k] = m

Leaving(s, k) ==
  \/ \E o \in s.todo \cup s.doing : o.key = k /\ o.op \in {"drop", "delete", "release"}
  \/ Untouched(s, k) /\ k \notin DOMAIN s.pods

\* With polling, k has a collector exactly while it is an endpoint, from just
\* before it is stored until just after it is deleted; nothing is known to
\* have a collector otherwise.
Together(s, k) ==
  /\ \A o \in s.doing : o.key = k => IF o.op = "delete" THEN k \in DOMAIN s.pods ELSE k \notin DOMAIN s.pods
  /\ s.polling =>
       /\ k \in s.collectors <=> k \in s.notified
       /\ k \in s.collectors <=> \/ k \in DOMAIN s.pods
                                 \/ \E o \in s.doing : o.key = k /\ o.op \in {"store", "release"}

\* While Clear runs: the collector of k is there until k is released.
Freeing(s, k) ==
  /\ \A o \in s.todo : o.key = k => o.op = "free" /\ k \in DOMAIN s.pods
  /\ \A o \in s.doing : o.key = k => o.op = "release"
  /\ s.polling => /\ k \in s.collectors <=> k \in s.notified
                  /\ k \in s.collectors <=> ~Untouched(s, k)

-----------------------------------------------------------------------------
\* The invariant.

Labels == {pod.label : pod \in PodObjects}

DatastoreShape ==
  /\ DOMAIN st = DatastoreFields
  /\ st.api \in [PodNames -> PodObjects \cup {Nil}] /\ st.events \in Seq([pod : PodNames, labels : SUBSET Labels])
  /\ st.pool \in PoolObjects \cup {Nil} /\ st.apiPool \in PoolObjects \cup {Nil}
  /\ DOMAIN st.podWorker = PodWorkerFields /\ DOMAIN st.poolWorker = PoolWorkerFields
  /\ st.podWorker.pc \in {"idle", "get", "match", "update", "endpoints"}
  /\ st.poolWorker.pc \in {"idle", "clear", "resync", "prune"}
  /\ WorkType(Work(st.podWorker)) /\ WorkType(Work(st.poolWorker))
  /\ ~st.poolQueued => st.apiPool = st.pool
  /\ st.raced \subseteq st.met

\* A worker has operations only in its last stage, on its own pod; nobody but
\* the pool worker frees; while the lock is held the pod worker's pod is raced.
WorkersApart ==
  /\ st.podWorker.pc # "endpoints" => Finished(st.podWorker)
  /\ st.podWorker.pc # "idle" => st.podWorker.pod \in PodNames
  /\ st.podWorker.pc \in {"match", "update"} => st.podWorker.object # Nil
  /\ \A o \in st.podWorker.todo \cup st.podWorker.doing : o.key[1] = st.podWorker.pod /\ o.op # "free"
  /\ st.poolWorker.pc = "idle" => Finished(st.poolWorker)
  /\ st.poolWorker.pc # "clear" => \A o \in st.poolWorker.todo : o.op # "free"
  /\ st.poolWorker.pc = "clear" => st.pool = Nil
  /\ st.poolWorker.pc \in {"resync", "prune"} => st.pool # Nil
  /\ st.poolWorker.pc = "resync" => /\ DOMAIN st.poolWorker.list \subseteq PodNames
                                    /\ \A o \in st.poolWorker.todo \cup st.poolWorker.doing : o.key[1] \notin DOMAIN st.poolWorker.list
  /\ Locked /\ st.podWorker.pc # "idle" => st.podWorker.pod \in st.raced

\* The work that concerns a pod that is not raced.
Now == Work(IF Locked THEN st.poolWorker ELSE st.podWorker)

KeysOf(p) == {p} \X Nat

PodTogether(p) ==
  \A k \in KeysOf(p) : IF st.poolWorker.pc = "clear" THEN Freeing(Now, k) ELSE Together(Now, k)

\* No event of p is on its way to the pod worker.
Steady(p) ==
  /\ p \notin st.queue
  /\ \A i \in DOMAIN st.events : st.events[i].pod = p => \A l \in st.events[i].labels : ~Matches(st.pool, l)

\* The pod worker has read p, or is about to, and has not acted on it.
Reading(p) == st.podWorker.pc \in {"get", "match", "update"} /\ st.podWorker.pod = p

Achieves(p, wanted) ==
  \A k \in KeysOf(p) :
    IF k \in DOMAIN wanted
    THEN /\ st.poolWorker.pc # "clear" /\ Coming(Now, k, wanted[k])
         /\ st.poolWorker.pc = "resync" => k \in st.poolWorker.keep
    ELSE \/ st.poolWorker.pc = "clear" \/ Leaving(Now, k)
         \/ st.poolWorker.pc = "resync" /\ k \notin st.poolWorker.keep

PodSettled(p) ==
  Steady(p) /\ ~Reading(p) =>
    IF st.poolWorker.pc = "resync" /\ p \in DOMAIN st.poolWorker.list
    THEN Wanted(p, st.poolWorker.list[p], st.pool) = Wanted(p, st.api[p], st.pool)
    ELSE Achieves(p, Wanted(p, st.api[p], st.pool))

\* What the pod worker holds of p is as good as what the API has.
PodRead(p) ==
  st.podWorker.pod = p =>
    /\ st.podWorker.pc \in {"match", "update"} /\ Steady(p) =>
         Wanted(p, st.podWorker.object, st.pool) = Wanted(p, st.api[p], st.pool)
    /\ st.podWorker.pc = "update" =>
         st.pool # Nil /\ IsPodReady(st.podWorker.object) /\ Matches(st.pool, st.podWorker.object.label)

Ranks == IF st.pool = Nil THEN {} ELSE DOMAIN st.pool.targetPorts

\* No endpoint stays that is not a rank of the pool.
RanksOnly(p) ==
  st.poolWorker.pc \notin {"clear", "resync"} => \A k \in KeysOf(p) : k[2] \notin Ranks => Leaving(Now, k)

Resyncing(p) ==
  st.poolWorker.pc = "resync" =>
    /\ \A k \in KeysOf(p) : k \in st.poolWorker.keep => k[2] \in Ranks
    /\ p \in DOMAIN st.poolWorker.list => /\ \A k \in KeysOf(p) : Untouched(Now, k) /\ k \notin st.poolWorker.keep
                                          /\ Matches(st.pool, st.poolWorker.list[p].label)
                                          /\ IsPodReady(st.poolWorker.list[p]) /\ st.poolWorker.list[p] # Nil

PodInv(p) ==
  /\ PodTogether(p)
  /\ ~st.unlisted => PodSettled(p) /\ PodRead(p) /\ RanksOnly(p) /\ Resyncing(p)

DatastoreInv ==
  /\ part = "datastore" /\ DatastoreShape /\ WorkersApart
  /\ \A p \in PodNames \ st.raced : PodInv(p)

-----------------------------------------------------------------------------
(* The endpoint operations.                                                *)

\* Nothing about k differs between s and t.
Same(s, t, k) ==
  /\ t.polling = s.polling
  /\ k \in DOMAIN t.pods <=> k \in DOMAIN s.pods
  /\ k \in DOMAIN s.pods => t.pods[k] = s.pods[k]
  /\ k \in t.collectors <=> k \in s.collectors
  /\ k \in t.notified <=> k \in s.notified
  /\ \A o : o.key = k => (o \in t.todo <=> o \in s.todo) /\ (o \in t.doing <=> o \in s.doing)

\* What is said of an endpoint holds in every state that is the same for it.
LEMMA SameKeeps ==
  ASSUME NEW s, NEW t, NEW k, Same(s, t, k)
  PROVE  /\ Untouched(s, k) => Untouched(t, k)
         /\ \A m : Coming(s, k, m) => Coming(t, k, m)
         /\ Leaving(s, k) => Leaving(t, k)
         /\ Together(s, k) => Together(t, k)
         /\ Freeing(s, k) => Freeing(t, k)
<1>1. Untouched(s, k) <=> Untouched(t, k)
  BY Zenon DEF Same, Untouched
<1>2. \A m : Coming(s, k, m) => Coming(t, k, m)
  BY <1>1, Zenon DEF Same, Coming
<1>3. Leaving(s, k) => Leaving(t, k)
  BY <1>1, Zenon DEF Same, Leaving
<1>4. Together(s, k) => Together(t, k)
  BY Zenon DEF Same, Together
<1>5. Freeing(s, k) => Freeing(t, k)
  BY <1>1, Zenon DEF Same, Freeing
<1> QED BY <1>1, <1>2, <1>3, <1>4, <1>5, Zenon

\* A step takes an operation from `todo` and ends it or goes on with it.
Loads(s, t, o) ==
  /\ s.doing = {} /\ o \in s.todo /\ t.todo = s.todo \ {o}
  /\ t.collectors = s.collectors /\ t.notified = s.notified
  /\ \/ o.op = "add" /\ o.key \in DOMAIN s.pods /\ t.pods = With(s.pods, o.key, o.meta) /\ t.doing = {}
     \/ /\ t.pods = s.pods
        /\ \/ o.op = "add" /\ o.key \notin DOMAIN s.pods /\ t.doing = {Op("new", o.key, o.meta, o.at)}
           \/ o.op = "drop" /\ o.key \in DOMAIN s.pods /\ t.doing = {Op("delete", o.key, o.meta, o.at)}
           \/ o.op = "free" /\ o.key \in DOMAIN s.pods /\ t.doing = {Op("release", o.key, o.meta, o.at)}
           \/ o.op # "add" /\ o.key \notin DOMAIN s.pods /\ t.doing = {}

\* ... or goes on with the one in `doing`.
Does(s, t, o) ==
  /\ s.doing = {o} /\ t.todo = s.todo
  /\ \/ /\ o.op = "new" /\ ~s.polling /\ t.doing = {Op("store", o.key, o.meta, o.at)}
        /\ t.pods = s.pods /\ t.collectors = s.collectors /\ t.notified = s.notified
     \/ /\ o.op = "new" /\ s.polling /\ o.key \in s.collectors /\ t.doing = {}
        /\ t.pods = s.pods /\ t.collectors = s.collectors /\ t.notified = s.notified
     \/ /\ o.op = "new" /\ s.polling /\ o.key \notin s.collectors /\ t.doing = {Op("store", o.key, o.meta, o.at)}
        /\ t.pods = s.pods
        /\ t.collectors = s.collectors \cup {o.key} /\ t.notified = s.notified \cup {o.key}
     \/ /\ o.op = "store" /\ t.pods = With(s.pods, o.key, o.meta) /\ t.doing = {}
        /\ t.collectors = s.collectors /\ t.notified = s.notified
     \/ /\ o.op = "delete" /\ t.pods = Without(s.pods, {o.key}) /\ t.doing = {Op("release", o.key, o.meta, o.at)}
        /\ t.collectors = s.collectors /\ t.notified = s.notified
     \/ /\ o.op = "release" /\ t.pods = s.pods /\ t.doing = {}
        /\ t.collectors = s.collectors \ {o.key} /\ t.notified = s.notified \ {o.key}

\* A step of endpointSteps takes an operation out of the list or does part of one.
LEMMA StepCases ==
  ASSUME NEW s, WorkType(s), NEW t \in endpointSteps(s)
  PROVE  /\ DOMAIN t = WorkFields /\ t.polling = s.polling
         /\ \E o : Loads(s, t, o) \/ Does(s, t, o)
<1>1. DOMAIN s = WorkFields
  BY Zenon DEF WorkType
<1>2. CASE s.doing = {}
  <2>1. PICK o \in s.todo : t = Load(s, o)
    BY <1>2, Zenon DEF endpointSteps
  <2>2. o.op \in TodoOps
    BY Zenon DEF WorkType
  <2> DEFINE rest == [s EXCEPT !.todo = @ \ {o}]
  <2>3. /\ DOMAIN rest = WorkFields /\ rest.todo = s.todo \ {o} /\ rest.doing = s.doing
        /\ rest.pods = s.pods /\ rest.collectors = s.collectors /\ rest.notified = s.notified
        /\ rest.polling = s.polling
    BY <1>1, Zenon DEF WorkFields
  <2>4. /\ o.op = "add" /\ o.key \in DOMAIN s.pods => t = [rest EXCEPT !.pods = With(@, o.key, o.meta)]
        /\ o.op = "add" /\ o.key \notin DOMAIN s.pods =>
             t = [rest EXCEPT !.doing = {Op("new", o.key, o.meta, o.at)}]
        /\ o.op = "drop" /\ o.key \in DOMAIN s.pods =>
             t = [rest EXCEPT !.doing = {Op("delete", o.key, o.meta, o.at)}]
        /\ o.op = "free" /\ o.key \in DOMAIN s.pods =>
             t = [rest EXCEPT !.doing = {Op("release", o.key, o.meta, o.at)}]
        /\ o.op # "add" /\ o.key \notin DOMAIN s.pods => t = rest
    BY <2>1, <2>2, Zenon DEF Load, TodoOps
  <2> HIDE DEF rest
  <2>5. CASE o.op = "add" /\ o.key \in DOMAIN s.pods
    <3>1. t = [rest EXCEPT !.pods = With(@, o.key, o.meta)]
      BY <2>4, <2>5, Zenon
    <3>2. /\ DOMAIN t = WorkFields /\ t.polling = s.polling /\ t.todo = s.todo \ {o} /\ t.doing = {}
          /\ t.collectors = s.collectors /\ t.notified = s.notified /\ t.pods = With(s.pods, o.key, o.meta)
      BY <1>2, <2>3, <3>1, Zenon DEF WorkFields
    <3>3. Loads(s, t, o)
      BY <1>2, <2>5, <3>2, Zenon DEF Loads
    <3> QED BY <3>2, <3>3, Zenon
  <2>6. ASSUME NEW op, t = [rest EXCEPT !.doing = {Op(op, o.key, o.meta, o.at)}]
        PROVE  /\ DOMAIN t = WorkFields /\ t.polling = s.polling /\ t.todo = s.todo \ {o}
               /\ t.doing = {Op(op, o.key, o.meta, o.at)}
               /\ t.collectors = s.collectors /\ t.notified = s.notified /\ t.pods = s.pods
    BY <1>2, <2>3, <2>6, Zenon DEF WorkFields
  <2>7. CASE o.op = "add" /\ o.key \notin DOMAIN s.pods
    <3>1. t = [rest EXCEPT !.doing = {Op("new", o.key, o.meta, o.at)}]
      BY <2>4, <2>7, Zenon
    <3> QED BY <1>2, <2>6, <2>7, <3>1, Zenon DEF Loads
  <2>8. CASE o.op = "drop" /\ o.key \in DOMAIN s.pods
    <3>1. t = [rest EXCEPT !.doing = {Op("delete", o.key, o.meta, o.at)}]
      BY <2>4, <2>8, Zenon
    <3> QED BY <1>2, <2>6, <2>8, <3>1, Zenon DEF Loads
  <2>9. CASE o.op = "free" /\ o.key \in DOMAIN s.pods
    <3>1. t = [rest EXCEPT !.doing = {Op("release", o.key, o.meta, o.at)}]
      BY <2>4, <2>9, Zenon
    <3> QED BY <1>2, <2>6, <2>9, <3>1, Zenon DEF Loads
  <2>10. CASE o.op # "add" /\ o.key \notin DOMAIN s.pods
    <3>1. t = rest
      BY <2>4, <2>10, Zenon
    <3> QED BY <1>2, <2>3, <2>10, <3>1, Zenon DEF Loads
  <2> QED BY <2>2, <2>5, <2>7, <2>8, <2>9, <2>10, Zenon DEF TodoOps
<1>3. CASE s.doing # {}
  <2>1. PICK o \in s.doing : t = CASE o.op = "new" -> NewEndpoint(s, o)
                                  [] o.op = "store" -> StoreEndpoint(s, o)
                                  [] o.op = "delete" -> DeleteEndpoint(s, o)
                                  [] OTHER -> ReleaseEndpoint(s, o)
    BY <1>3, Zenon DEF endpointSteps
  <2>2. s.doing = {o} /\ o.op \in DoingOps
    BY Zenon DEF WorkType
  <2>3. /\ o.op = "new" => t = NewEndpoint(s, o)
        /\ o.op = "store" => t = StoreEndpoint(s, o)
        /\ o.op = "delete" => t = DeleteEndpoint(s, o)
        /\ o.op = "release" => t = ReleaseEndpoint(s, o)
    BY <2>1, Zenon
  <2>4. CASE o.op = "new"
    <3>1. CASE ~s.polling
      <4>1. t = [s EXCEPT !.doing = {Op("store", o.key, o.meta, o.at)}]
        BY <2>3, <2>4, <3>1, Zenon DEF NewEndpoint
      <4> QED BY <1>1, <2>2, <2>4, <3>1, <4>1, Zenon DEF Does, WorkFields
    <3>2. CASE s.polling /\ o.key \in s.collectors
      <4>1. t = [s EXCEPT !.doing = {}]
        BY <2>3, <2>4, <3>2, Zenon DEF NewEndpoint
      <4> QED BY <1>1, <2>2, <2>4, <3>2, <4>1, Zenon DEF Does, WorkFields
    <3>3. CASE s.polling /\ o.key \notin s.collectors
      <4>1. t = [s EXCEPT !.collectors = @ \cup {o.key}, !.notified = @ \cup {o.key},
                          !.doing = {Op("store", o.key, o.meta, o.at)}]
        BY <2>3, <2>4, <3>3, Zenon DEF NewEndpoint
      <4>2. /\ DOMAIN t = WorkFields /\ t.polling = s.polling /\ t.todo = s.todo /\ t.pods = s.pods
            /\ t.doing = {Op("store", o.key, o.meta, o.at)}
            /\ t.collectors = s.collectors \cup {o.key} /\ t.notified = s.notified \cup {o.key}
        BY <1>1, <4>1, Zenon DEF WorkFields
      <4> QED BY <2>2, <2>4, <3>3, <4>2, Zenon DEF Does
    <3> QED BY <3>1, <3>2, <3>3, Zenon
  <2>5. CASE o.op = "store"
    <3>1. t = StoreEndpoint(s, o)
      BY <2>3, <2>5, Zenon
    <3>2. /\ DOMAIN t = WorkFields /\ t.polling = s.polling /\ t.todo = s.todo /\ t.doing = {}
          /\ t.pods = With(s.pods, o.key, o.meta)
          /\ t.collectors = s.collectors /\ t.notified = s.notified
      BY <1>1, <3>1, Zenon DEF WorkFields, StoreEndpoint
    <3> QED BY <2>2, <2>5, <3>2, Zenon DEF Does
  <2>6. CASE o.op = "delete"
    <3>1. t = DeleteEndpoint(s, o)
      BY <2>3, <2>6, Zenon
    <3>2. /\ DOMAIN t = WorkFields /\ t.polling = s.polling /\ t.todo = s.todo
          /\ t.doing = {Op("release", o.key, o.meta, o.at)}
          /\ t.pods = Without(s.pods, {o.key})
          /\ t.collectors = s.collectors /\ t.notified = s.notified
      BY <1>1, <3>1, Zenon DEF WorkFields, DeleteEndpoint
    <3> QED BY <2>2, <2>6, <3>2, Zenon DEF Does
  <2>7. CASE o.op = "release"
    <3>1. t = ReleaseEndpoint(s, o)
      BY <2>3, <2>7, Zenon
    <3>2. /\ DOMAIN t = WorkFields /\ t.polling = s.polling /\ t.todo = s.todo /\ t.doing = {}
          /\ t.pods = s.pods
          /\ t.collectors = s.collectors \ {o.key} /\ t.notified = s.notified \ {o.key}
      BY <1>1, <3>1, Zenon DEF WorkFields, ReleaseEndpoint
    <3> QED BY <2>2, <2>7, <3>2, Zenon DEF Does
  <2> QED BY <2>2, <2>4, <2>5, <2>6, <2>7, Zenon DEF DoingOps
<1> QED BY <1>2, <1>3, Zenon

\* A step is about the key of one operation; about any other key nothing changes.
LEMMA StepElsewhere ==
  ASSUME NEW s, WorkType(s), NEW t, t.polling = s.polling, NEW o, Loads(s, t, o) \/ Does(s, t, o)
  PROVE  /\ o \in s.todo \cup s.doing /\ o.key \in Keys
         /\ \A k : k # o.key => Same(s, t, k)
<1>1. o \in s.todo \cup s.doing
  BY Zenon DEF Loads, Does
<1>2. o.key \in Keys
  BY <1>1, Zenon DEF WorkType
<1>3. ASSUME NEW k, k # o.key PROVE Same(s, t, k)
  <2>1. \A m : /\ k \in DOMAIN With(s.pods, o.key, m) <=> k \in DOMAIN s.pods
               /\ k \in DOMAIN s.pods => With(s.pods, o.key, m)[k] = s.pods[k]
    BY <1>3, Zenon DEF With
  <2>2. /\ k \in DOMAIN Without(s.pods, {o.key}) <=> k \in DOMAIN s.pods
        /\ k \in DOMAIN s.pods => Without(s.pods, {o.key})[k] = s.pods[k]
    BY <1>3, Zenon DEF Without
  <2>3. \A op : Op(op, o.key, o.meta, o.at).key = o.key
    BY Zenon DEF Op
  <2>4. ASSUME NEW q, q.key = k PROVE (q \in t.todo <=> q \in s.todo) /\ (q \in t.doing <=> q \in s.doing)
    <3>1. q # o /\ \A op : q # Op(op, o.key, o.meta, o.at)
      BY <1>3, <2>3, <2>4, Zenon
    <3> QED BY <3>1, Zenon DEF Loads, Does
  <2>5. k \in DOMAIN t.pods <=> k \in DOMAIN s.pods
    BY <2>1, <2>2, Zenon DEF Loads, Does
  <2>6. k \in DOMAIN s.pods => t.pods[k] = s.pods[k]
    BY <2>1, <2>2, Zenon DEF Loads, Does
  <2>7. (k \in t.collectors <=> k \in s.collectors) /\ (k \in t.notified <=> k \in s.notified)
    BY <1>3, Zenon DEF Loads, Does
  <2> QED BY <2>4, <2>5, <2>6, <2>7, Zenon DEF Same
<1> QED BY <1>1, <1>2, <1>3, Zenon

\* A step keeps an endpoint to one operation.
LEMMA StepType ==
  ASSUME NEW s, WorkType(s), NEW t \in endpointSteps(s)
  PROVE  /\ WorkType(t) /\ t.polling = s.polling
         /\ \A q \in t.todo \cup t.doing : \E o \in s.todo \cup s.doing :
              o.key = q.key /\ (q.op = "free" => o.op = "free")
<1>1. PICK o : Loads(s, t, o) \/ Does(s, t, o)
  BY StepCases, Zenon
<1>2. DOMAIN t = WorkFields /\ t.polling = s.polling
  BY StepCases, Zenon
<1>3. o \in s.todo \cup s.doing /\ o.key \in Keys
  BY <1>1, <1>2, StepElsewhere, Zenon
<1>4. DOMAIN t.pods \subseteq Keys /\ t.collectors \subseteq Keys /\ t.notified \subseteq Keys
  <2>1. \A m : DOMAIN With(s.pods, o.key, m) \subseteq Keys
    BY <1>3, Zenon DEF With, WorkType
  <2>2. DOMAIN Without(s.pods, {o.key}) \subseteq Keys
    BY Zenon DEF Without, WorkType
  <2> QED BY <1>1, <1>3, <2>1, <2>2, Zenon DEF Loads, Does, WorkType
<1>5. t.todo \subseteq s.todo
  BY <1>1, Zenon DEF Loads, Does
<1>6. \A q \in t.doing : /\ q.op \in DoingOps /\ q.key = o.key
                         /\ \A r \in t.todo : r.key # o.key
  <2>1. \A op : Op(op, o.key, o.meta, o.at).key = o.key /\ Op(op, o.key, o.meta, o.at).op = op
    BY Zenon DEF Op
  <2>2. \A q \in t.doing : \E op \in DoingOps : q = Op(op, o.key, o.meta, o.at)
    BY <1>1, Zenon DEF Loads, Does, DoingOps
  <2>3. \A r \in t.todo : r.key # o.key
    BY <1>1, Zenon DEF Loads, Does, WorkType
  <2> QED BY <2>1, <2>2, <2>3
<1>7. \A q, r \in t.doing : q = r
  BY <1>1, Zenon DEF Loads, Does
<1>8. WorkType(t)
  <2>1. /\ \A q \in t.todo : q.op \in TodoOps /\ q.key \in Keys
        /\ \A q, r \in t.todo : q.key = r.key => q = r
    BY <1>5, Zenon DEF WorkType
  <2>2. \A q \in t.doing : q.op \in DoingOps /\ q.key \in Keys
    BY <1>3, <1>6, Zenon
  <2>3. \A r \in t.todo : \A q \in t.doing : r.key # q.key
    BY <1>6, Zenon
  <2> QED BY <1>2, <1>4, <1>7, <2>1, <2>2, <2>3, Zenon DEF WorkType
<1>9. \A q \in t.todo \cup t.doing : \E r \in s.todo \cup s.doing :
              r.key = q.key /\ (q.op = "free" => r.op = "free")
  BY <1>3, <1>5, <1>6, Zenon DEF DoingOps
<1> QED BY <1>2, <1>8, <1>9, Zenon

\* A step of the only worker that has to do with k.
LEMMA StepKeeps ==
  ASSUME NEW s, WorkType(s), NEW t \in endpointSteps(s), NEW k, Together(s, k),
         \A o \in s.todo : o.op # "free"
  PROVE  /\ Together(t, k)
         /\ \A m : Coming(s, k, m) => Coming(t, k, m)
         /\ Leaving(s, k) => Leaving(t, k)
         /\ Untouched(s, k) => Untouched(t, k)
<1>1. PICK o : Loads(s, t, o) \/ Does(s, t, o)
  BY StepCases, Zenon
<1>2. t.polling = s.polling
  BY StepCases, Zenon
<1>3. o \in s.todo \cup s.doing /\ \A j : j # o.key => Same(s, t, j)
  BY <1>1, <1>2, StepElsewhere, Zenon
<1>4. CASE k # o.key
  BY <1>3, <1>4, SameKeeps, Zenon
<1>5. CASE k = o.key
  <2>1. \A op : /\ Op(op, k, o.meta, o.at).key = k /\ Op(op, k, o.meta, o.at).op = op
                /\ Op(op, k, o.meta, o.at).meta = o.meta
    BY Zenon DEF Op
  <2>2. /\ \A q \in s.todo \cup s.doing : q.key = k => q = o
        /\ \A q \in t.todo : q.key # k
        /\ s.doing \subseteq {o} /\ o.op \in TodoOps \cup DoingOps
    BY <1>1, <1>5, Zenon DEF Loads, Does, WorkType
  <2>3. ~Untouched(s, k)
    BY <1>3, <1>5, Zenon DEF Untouched
  <2>4. \A m : k \in DOMAIN With(s.pods, k, m) /\ With(s.pods, k, m)[k] = m
    BY Zenon DEF With
  <2>5. k \notin DOMAIN Without(s.pods, {k})
    BY Zenon DEF Without
  <2>6. ASSUME t.doing = {} PROVE Untouched(t, k)
    BY <2>2, <2>6, Zenon DEF Untouched
  <2>7. CASE Loads(s, t, o)
    <3>1. CASE o.op = "add" /\ k \in DOMAIN s.pods
      <4>1. t.pods = With(s.pods, k, o.meta) /\ t.doing = {} /\ s.doing = {}
            /\ t.collectors = s.collectors /\ t.notified = s.notified
        BY <1>5, <2>7, <3>1, Zenon DEF Loads
      <4>2. \A m : Coming(s, k, m) => m = o.meta
        BY <2>2, <2>3, Zenon DEF Coming
      <4>3. ~Leaving(s, k)
        BY <2>2, <2>3, <3>1, Zenon DEF Leaving
      <4>4. Together(t, k)
        BY <1>2, <2>4, <3>1, <4>1, Zenon DEF Together
      <4> QED BY <2>3, <2>4, <2>6, <4>1, <4>2, <4>3, <4>4 DEF Coming
    <3>2. CASE o.op = "add" /\ k \notin DOMAIN s.pods
      <4>1. t.pods = s.pods /\ t.doing = {Op("new", k, o.meta, o.at)} /\ s.doing = {}
            /\ t.collectors = s.collectors /\ t.notified = s.notified
        BY <1>5, <2>7, <3>2, Zenon DEF Loads
      <4>2. \A m : Coming(s, k, m) => m = o.meta
        BY <2>2, <2>3, Zenon DEF Coming
      <4>3. ~Leaving(s, k)
        BY <2>2, <2>3, <3>2, Zenon DEF Leaving
      <4>4. Together(t, k)
        BY <1>2, <2>1, <3>2, <4>1 DEF Together
      <4> QED BY <2>1, <2>3, <4>1, <4>2, <4>3, <4>4 DEF Coming
    <3>3. CASE o.op = "drop" /\ k \in DOMAIN s.pods
      <4>1. t.pods = s.pods /\ t.doing = {Op("delete", k, o.meta, o.at)} /\ s.doing = {}
            /\ t.collectors = s.collectors /\ t.notified = s.notified
        BY <1>5, <2>7, <3>3, Zenon DEF Loads
      <4>2. \A m : ~Coming(s, k, m)
        BY <2>2, <2>3, <3>3, Zenon DEF Coming
      <4>3. Together(t, k)
        BY <1>2, <2>1, <3>3, <4>1 DEF Together
      <4> QED BY <2>1, <2>3, <4>1, <4>2, <4>3 DEF Leaving
    <3>4. CASE o.op = "drop" /\ k \notin DOMAIN s.pods
      <4>1. t.pods = s.pods /\ t.doing = {} /\ s.doing = {}
            /\ t.collectors = s.collectors /\ t.notified = s.notified
        BY <1>5, <2>7, <3>4, Zenon DEF Loads
      <4>2. \A m : ~Coming(s, k, m)
        BY <2>2, <2>3, <3>4, Zenon DEF Coming
      <4>3. Together(t, k)
        BY <1>2, <3>4, <4>1, Zenon DEF Together
      <4> QED BY <2>3, <2>6, <3>4, <4>1, <4>2, <4>3, Zenon DEF Leaving
    <3> QED BY <2>2, <2>7, <3>1, <3>2, <3>3, <3>4, Zenon DEF Loads, WorkType, TodoOps
  <2>8. CASE Does(s, t, o)
    <3>1. o.key = k /\ s.doing = {o}
      BY <1>5, <2>8, Zenon DEF Does
    <3>2. IF o.op = "delete" THEN k \in DOMAIN s.pods ELSE k \notin DOMAIN s.pods
      BY <3>1, Zenon DEF Together
    <3>3. s.polling => /\ k \in s.collectors <=> k \in s.notified
                       /\ k \in s.collectors <=> k \in DOMAIN s.pods \/ o.op \in {"store", "release"}
      BY <3>1, Zenon DEF Together
    <3>4. CASE o.op = "new"
      <4>1. /\ t.pods = s.pods /\ t.doing = {Op("store", k, o.meta, o.at)}
            /\ s.polling => k \in t.collectors /\ k \in t.notified
        BY <1>5, <2>8, <3>2, <3>3, <3>4, Zenon DEF Does
      <4>2. \A m : Coming(s, k, m) => m = o.meta
        BY <2>2, <2>3, Zenon DEF Coming
      <4>3. ~Leaving(s, k)
        BY <2>2, <2>3, <3>4, Zenon DEF Leaving
      <4>4. Together(t, k)
        BY <1>2, <2>1, <3>2, <3>4, <4>1 DEF Together
      <4> QED BY <2>1, <2>3, <4>1, <4>2, <4>3, <4>4 DEF Coming
    <3>5. CASE o.op = "store"
      <4>1. t.pods = With(s.pods, k, o.meta) /\ t.doing = {}
            /\ t.collectors = s.collectors /\ t.notified = s.notified
        BY <1>5, <2>8, <3>5, Zenon DEF Does
      <4>2. \A m : Coming(s, k, m) => m = o.meta
        BY <2>2, <2>3, Zenon DEF Coming
      <4>3. ~Leaving(s, k)
        BY <2>2, <2>3, <3>5, Zenon DEF Leaving
      <4>4. Together(t, k)
        BY <1>2, <2>4, <3>3, <3>5, <4>1, Zenon DEF Together
      <4> QED BY <2>3, <2>4, <2>6, <4>1, <4>2, <4>3, <4>4 DEF Coming
    <3>6. CASE o.op = "delete"
      <4>1. t.pods = Without(s.pods, {k}) /\ t.doing = {Op("release", k, o.meta, o.at)}
            /\ t.collectors = s.collectors /\ t.notified = s.notified
        BY <1>5, <2>8, <3>6, Zenon DEF Does
      <4>2. \A m : ~Coming(s, k, m)
        BY <2>2, <2>3, <3>6, Zenon DEF Coming
      <4>3. Together(t, k)
        BY <1>2, <2>1, <2>5, <3>2, <3>3, <3>6, <4>1 DEF Together
      <4> QED BY <2>1, <2>3, <4>1, <4>2, <4>3 DEF Leaving
    <3>7. CASE o.op = "release"
      <4>1. t.pods = s.pods /\ t.doing = {} /\ k \notin t.collectors /\ k \notin t.notified
        BY <1>5, <2>8, <3>7, Zenon DEF Does
      <4>2. \A m : ~Coming(s, k, m)
        BY <2>2, <2>3, <3>7, Zenon DEF Coming
      <4>3. Together(t, k)
        BY <1>2, <3>2, <3>7, <4>1, Zenon DEF Together
      <4> QED BY <2>3, <2>6, <3>2, <3>7, <4>1, <4>2, <4>3, Zenon DEF Leaving
    <3> QED BY <2>8, <3>4, <3>5, <3>6, <3>7, Zenon DEF Does
  <2> QED BY <1>1, <2>7, <2>8, Zenon
<1> QED BY <1>4, <1>5, Zenon

\* A step of Clear.
LEMMA StepFrees ==
  ASSUME NEW s, WorkType(s), NEW t \in endpointSteps(s), NEW k, Freeing(s, k)
  PROVE  Freeing(t, k)
<1>1. PICK o : Loads(s, t, o) \/ Does(s, t, o)
  BY StepCases, Zenon
<1>2. t.polling = s.polling
  BY StepCases, Zenon
<1>3. o \in s.todo \cup s.doing /\ \A j : j # o.key => Same(s, t, j)
  BY <1>1, <1>2, StepElsewhere, Zenon
<1>4. CASE k # o.key
  BY <1>3, <1>4, SameKeeps, Zenon
<1>5. CASE k = o.key
  <2>1. \A op : Op(op, k, o.meta, o.at).key = k /\ Op(op, k, o.meta, o.at).op = op
    BY Zenon DEF Op
  <2>2. \A q \in t.todo : q.key # k
    BY <1>1, <1>5, Zenon DEF Loads, Does, WorkType
  <2>3. ~Untouched(s, k)
    BY <1>3, <1>5, Zenon DEF Untouched
  <2>4. CASE Loads(s, t, o)
    <3>1. o.op = "free" /\ k \in DOMAIN s.pods
      BY <1>5, <2>4, Zenon DEF Loads, Freeing
    <3>2. t.doing = {Op("release", k, o.meta, o.at)} /\ t.collectors = s.collectors /\ t.notified = s.notified
      BY <1>5, <2>4, <3>1, Zenon DEF Loads
    <3>3. ~Untouched(t, k)
      BY <2>1, <3>2, Zenon DEF Untouched
    <3> QED BY <1>2, <2>1, <2>2, <2>3, <3>2, <3>3, Zenon DEF Freeing
  <2>5. CASE Does(s, t, o)
    <3>1. o.op = "release"
      BY <1>5, <2>5, Zenon DEF Does, Freeing
    <3>2. t.doing = {} /\ k \notin t.collectors /\ k \notin t.notified
      BY <1>5, <2>5, <3>1, Zenon DEF Does
    <3>3. Untouched(t, k)
      BY <2>2, <3>2, Zenon DEF Untouched
    <3> QED BY <2>2, <3>2, <3>3, Zenon DEF Freeing
  <2> QED BY <1>1, <2>4, <2>5, Zenon
<1> QED BY <1>4, <1>5, Zenon

-----------------------------------------------------------------------------
(* Operations that are given to a worker that has none.                    *)

\* A worker with nothing to do is given one operation for each key of K.
LEMMA GiveRange ==
  ASSUME NEW s, WorkType(s), s.doing = {}, s.todo = {}, NEW op \in {"drop", "free"}, NEW K, K \subseteq DOMAIN s.pods,
         NEW t, DOMAIN t = WorkFields, t.pods = s.pods, t.collectors = s.collectors, t.notified = s.notified,
         t.polling = s.polling, t.doing = {}, t.todo = rangeOps(op, K)
  PROVE  /\ WorkType(t)
         /\ \A k : k \notin K => Same(s, t, k)
         /\ \A k \in K : ~Untouched(t, k)
         /\ \A k \in K : op = "drop" => Leaving(t, k)
         /\ \A k : Together(s, k) => Together(t, k)
         /\ \A o \in t.todo : o.op = op /\ o.key \in K
<1>1. \A o \in t.todo : \E k \in K : o = Op(op, k, Nil, 0)
  BY Zenon DEF rangeOps
<1>2. \A k \in K : Op(op, k, Nil, 0) \in t.todo
  BY Zenon DEF rangeOps
<1>3. \A k : Op(op, k, Nil, 0).key = k /\ Op(op, k, Nil, 0).op = op
  BY Zenon DEF Op
<1>4. \A o \in t.todo : o.key \in K /\ o.op = op /\ o = Op(op, o.key, Nil, 0)
  BY <1>1, <1>3
<1>5. WorkType(t)
  <2>1. K \subseteq Keys
    BY Zenon DEF WorkType
  <2> QED BY <1>4, <2>1, Zenon DEF WorkType, TodoOps
<1>6. \A k : k \notin K => Same(s, t, k)
  BY <1>4, Zenon DEF Same
<1>7. \A k \in K : ~Untouched(t, k)
  BY <1>2, <1>3, Zenon DEF Untouched
<1>8. \A k \in K : op = "drop" => Leaving(t, k)
  BY <1>2, <1>3 DEF Leaving
<1>9. \A k : Together(s, k) => Together(t, k)
  BY Zenon DEF Together
<1> QED BY <1>4, <1>5, <1>6, <1>7, <1>8, <1>9, Zenon

\* A worker with nothing to do is given the operations of
\* podUpdateOrAddIfNotExist.
LEMMA GiveUpdate ==
  ASSUME NEW s, WorkType(s), s.doing = {}, s.todo = {}, NEW p \in PodNames, NEW pod, NEW pool \in PoolObjects,
         NEW t, DOMAIN t = WorkFields, t.pods = s.pods, t.collectors = s.collectors, t.notified = s.notified,
         t.polling = s.polling, t.doing = {}, t.todo = updateOps(p, pod, pool)
  PROVE  /\ WorkType(t)
         /\ \A k : (\A i \in DOMAIN pool.targetPorts : k # <<p, i>>) => Same(s, t, k)
         /\ \A i \in ActiveRanks(pod, pool) : Coming(t, <<p, i>>, Metadata(pod, pool, i))
         /\ \A i \in DOMAIN pool.targetPorts \ ActiveRanks(pod, pool) : Leaving(t, <<p, i>>)
         /\ \A k : Together(s, k) => Together(t, k)
         /\ \A o \in t.todo : o.op # "free" /\ o.key[1] = p
<1> DEFINE act == ActiveRanks(pod, pool)
           A(i) == Op("add", <<p, i>>, Metadata(pod, pool, i), i)
           D(i) == Op("drop", <<p, i>>, Nil, Len(pool.targetPorts) + i)
<1>1. act \subseteq DOMAIN pool.targetPorts /\ DOMAIN pool.targetPorts \subseteq Nat
  <2>1. pool.targetPorts \in Seq(Nat)
    BY PoolAssumption, Zenon
  <2> QED BY <2>1 DEF ActiveRanks
<1>2. /\ \A i : A(i).key = <<p, i>> /\ A(i).op = "add" /\ A(i).meta = Metadata(pod, pool, i)
      /\ \A i : D(i).key = <<p, i>> /\ D(i).op = "drop"
  BY Zenon DEF Op
<1>3. t.todo = {A(i) : i \in act} \cup {D(i) : i \in DOMAIN pool.targetPorts \ act}
  BY Zenon DEF updateOps, Endpoint
<1> HIDE DEF act, A, D
<1>4. ASSUME NEW o \in t.todo
      PROVE  \E i \in DOMAIN pool.targetPorts :
               o.key = <<p, i>> /\ o.op \in {"add", "drop"} /\ o = IF i \in act THEN A(i) ELSE D(i)
  <2>1. CASE o \in {A(i) : i \in act}
    BY <1>1, <1>2, <2>1, Zenon
  <2>2. CASE o \in {D(i) : i \in DOMAIN pool.targetPorts \ act}
    BY <1>2, <2>2, Zenon
  <2> QED BY <1>3, <2>1, <2>2, Zenon
<1>5. \A i, j : <<p, i>> = <<p, j>> => i = j
  BY Zenon
<1>6. WorkType(t)
  <2>1. ASSUME NEW o \in t.todo PROVE o.op \in TodoOps /\ o.key \in Keys
    <3>1. PICK i \in DOMAIN pool.targetPorts : o.key = <<p, i>> /\ o.op \in {"add", "drop"}
      BY <1>4, Zenon
    <3>2. <<p, i>> \in Keys
      BY <1>1, Zenon DEF Keys
    <3> QED BY <3>1, <3>2, Zenon DEF TodoOps
  <2>2. ASSUME NEW o \in t.todo, NEW q \in t.todo, o.key = q.key PROVE o = q
    BY <1>4, <1>5, <2>2
  <2> QED BY <2>1, <2>2, Zenon DEF WorkType
<1>7. ASSUME NEW k, \A i \in DOMAIN pool.targetPorts : k # <<p, i>> PROVE Same(s, t, k)
  <2>1. \A o \in t.todo : o.key # k
    BY <1>4, <1>7, Zenon
  <2> QED BY <2>1, Zenon DEF Same
<1>8. ASSUME NEW i \in act PROVE Coming(t, <<p, i>>, Metadata(pod, pool, i))
  <2>1. A(i) \in t.todo
    BY <1>3, Zenon
  <2> QED BY <1>2, <2>1, Zenon DEF Coming
<1>9. ASSUME NEW i \in DOMAIN pool.targetPorts \ act PROVE Leaving(t, <<p, i>>)
  <2>1. D(i) \in t.todo
    BY <1>3, Zenon
  <2> QED BY <1>2, <2>1, Zenon DEF Leaving
<1>10. \A k : Together(s, k) => Together(t, k)
  BY Zenon DEF Together
<1>11. \A o \in t.todo : o.op # "free" /\ o.key[1] = p
  BY <1>4
<1> QED BY <1>6, <1>7, <1>8, <1>9, <1>10, <1>11, Zenon DEF act

\* A pod no operation is about: its endpoints and collectors agree exactly when
\* each key has both or neither.
LEMMA InStepTogether ==
  ASSUME DOMAIN st.pods \subseteq Keys, st.collectors \subseteq Keys, st.notified \subseteq Keys,
         NEW p \in PodNames, NEW s, s.pods = st.pods, s.collectors = st.collectors, s.notified = st.notified,
         s.polling = st.polling, \A k \in KeysOf(p) : Untouched(s, k)
  PROVE  InStep(p) <=> \A k \in KeysOf(p) : Together(s, k)
<1>1. \A k \in Keys : k[1] = p <=> k \in KeysOf(p)
  BY Zenon DEF Keys, KeysOf
<1>2. \A k \in KeysOf(p) : k[1] = p
  BY Zenon DEF KeysOf
<1>3. \A k \in KeysOf(p) : Together(s, k) <=>
        (st.polling => /\ k \in st.collectors <=> k \in st.notified
                       /\ k \in st.collectors <=> k \in DOMAIN st.pods)
  BY Zenon DEF Together, Untouched
<1>4. ASSUME InStep(p), NEW k \in KeysOf(p), st.polling
      PROVE  (k \in st.collectors <=> k \in st.notified) /\ (k \in st.collectors <=> k \in DOMAIN st.pods)
  <2>1. k \in {j \in st.collectors : j[1] = p} <=> k \in EndpointsOf(p, st.pods)
    BY <1>4, Zenon DEF InStep
  <2>2. k \in {j \in st.notified : j[1] = p} <=> k \in EndpointsOf(p, st.pods)
    BY <1>4, Zenon DEF InStep
  <2> QED BY <1>2, <2>1, <2>2, Zenon DEF EndpointsOf
<1>5. ASSUME \A k \in KeysOf(p) : Together(s, k), st.polling
      PROVE  /\ {k \in st.collectors : k[1] = p} = EndpointsOf(p, st.pods)
             /\ {k \in st.notified : k[1] = p} = EndpointsOf(p, st.pods)
  BY <1>1, <1>3, <1>5, Zenon DEF EndpointsOf
<1> QED BY <1>3, <1>4, <1>5, Zenon DEF InStep

\* The state the workers and the pool are in.
SameWork ==
  /\ st'.polling = st.polling /\ st'.pods = st.pods /\ st'.collectors = st.collectors /\ st'.notified = st.notified
  /\ st'.podWorker = st.podWorker /\ st'.poolWorker = st.poolWorker /\ st'.pool = st.pool

\* The same work is being done under the same lock.
LEMMA SameWorkNow ==
  ASSUME SameWork
  PROVE  /\ Locked' = Locked /\ Now' = Now /\ Ranks' = Ranks
         /\ Work(st.podWorker)' = Work(st.podWorker) /\ Work(st.poolWorker)' = Work(st.poolWorker)
<1>1. Work(st.podWorker)' = Work(st.podWorker) /\ Work(st.poolWorker)' = Work(st.poolWorker)
  BY Zenon DEF SameWork, Work
<1>2. Locked' = Locked
  BY Zenon DEF SameWork, Locked
<1>3. Now' = Now
  BY <1>2, Zenon DEF SameWork, Now, Work
<1>4. Ranks' = Ranks
  BY Zenon DEF SameWork, Ranks
<1> QED BY <1>1, <1>2, <1>3, <1>4, Zenon

\* Objects and events change: nothing is lost if p is not steadier than before
\* and should have the endpoints it should have had.
LEMMA PodInvKept ==
  ASSUME NEW p, PodInv(p), SameWork, st'.unlisted = st.unlisted,
         Steady(p)' => Steady(p) /\ Wanted(p, st'.api[p], st'.pool) = Wanted(p, st.api[p], st.pool)
  PROVE  PodInv(p)'
<1>1. Now' = Now /\ Ranks' = Ranks
  BY SameWorkNow, Zenon
<1>2. st'.podWorker = st.podWorker /\ st'.poolWorker = st.poolWorker /\ st'.pool = st.pool
  BY Zenon DEF SameWork
<1>3. PodTogether(p)'
  BY <1>1, <1>2, Zenon DEF PodInv, PodTogether
<1>4. ASSUME ~st.unlisted PROVE PodSettled(p)'
  <2> SUFFICES ASSUME Steady(p)', ~Reading(p)'
               PROVE  IF st'.poolWorker.pc = "resync" /\ p \in DOMAIN st'.poolWorker.list
                      THEN Wanted(p, st'.poolWorker.list[p], st'.pool) = Wanted(p, st'.api[p], st'.pool)
                      ELSE Achieves(p, Wanted(p, st.api[p], st.pool))'
    BY Zenon DEF PodSettled
  <2>1. ~Reading(p) /\ PodSettled(p)
    BY <1>2, <1>4, Zenon DEF Reading, PodInv
  <2>2. IF st.poolWorker.pc = "resync" /\ p \in DOMAIN st.poolWorker.list
        THEN Wanted(p, st.poolWorker.list[p], st.pool) = Wanted(p, st.api[p], st.pool)
        ELSE Achieves(p, Wanted(p, st.api[p], st.pool))
    BY <2>1, Zenon DEF PodSettled
  <2>3. ASSUME Achieves(p, Wanted(p, st.api[p], st.pool))
        PROVE  Achieves(p, Wanted(p, st.api[p], st.pool))'
    <3> DEFINE wanted == Wanted(p, st.api[p], st.pool)
    <3>1. wanted' = wanted
      BY Zenon
    <3> HIDE DEF wanted
    <3>2. Achieves(p, wanted)
      BY <2>3, Zenon DEF wanted
    <3>3. Achieves(p, wanted)'
      BY <1>1, <1>2, <3>1, <3>2, Zenon DEF Achieves
    <3> QED BY <3>3, Zenon DEF wanted
  <2> QED BY <1>2, <2>2, <2>3, Zenon
<1>5. ASSUME ~st.unlisted PROVE PodRead(p)'
  BY <1>2, <1>5, Zenon DEF PodInv, PodRead
<1>6. ASSUME ~st.unlisted PROVE RanksOnly(p)' /\ Resyncing(p)'
  BY <1>1, <1>2, <1>6, Zenon DEF PodInv, RanksOnly, Resyncing
<1> QED BY <1>3, <1>4, <1>5, <1>6, Zenon DEF PodInv

\* The workers stay apart while neither of them moves.
LEMMA WorkersKept ==
  ASSUME WorkersApart, SameWork, st'.raced = st.raced
  PROVE  WorkersApart'
<1>1. Locked' = Locked
  BY SameWorkNow, Zenon
<1>2. st'.podWorker = st.podWorker /\ st'.poolWorker = st.poolWorker /\ st'.pool = st.pool
  BY Zenon DEF SameWork
<1> QED BY <1>1, <1>2 DEF WorkersApart, Finished

\* An object whose label the pool does not select wants no endpoints.
LEMMA NotWanted ==
  ASSUME NEW p, NEW pod, NEW pool, pod # Nil => ~Matches(pool, pod.label)
  PROVE  Wanted(p, pod, pool) = <<>>
BY Zenon DEF Wanted

\* The API server changes a pod.
LEMMA PodChangesKeep ==
  ASSUME DatastoreInv, part' = part, NEW q \in PodNames, PodChanges(q)
  PROVE  DatastoreInv'
<1>1. DatastoreShape /\ WorkersApart
  BY Zenon DEF DatastoreInv
<1>2. PICK pod \in {Nil} \cup PodObjects :
        st' = [st EXCEPT !.api[q] = pod, !.podChanges = @ + 1,
                         !.events = Append(@, [pod |-> q, labels |-> {o.label : o \in {st.api[q], pod} \ {Nil}}])]
  BY Zenon DEF PodChanges
<1> DEFINE ev == [pod |-> q, labels |-> {o.label : o \in {st.api[q], pod} \ {Nil}}]
<1>3. DOMAIN st = DatastoreFields
  BY <1>1, Zenon DEF DatastoreShape
<1>4. /\ DOMAIN st' = DatastoreFields /\ st'.api = [st.api EXCEPT ![q] = pod] /\ st'.events = Append(st.events, ev)
      /\ SameWork /\ st'.unlisted = st.unlisted /\ st'.raced = st.raced /\ st'.met = st.met
      /\ st'.apiPool = st.apiPool /\ st'.queue = st.queue /\ st'.poolQueued = st.poolQueued
  BY <1>2, <1>3, Zenon DEF DatastoreFields, SameWork
<1>5. st.api \in [PodNames -> PodObjects \cup {Nil}] /\ st.events \in Seq([pod : PodNames, labels : SUBSET Labels])
  BY <1>1, Zenon DEF DatastoreShape
<1>6. ev \in [pod : PodNames, labels : SUBSET Labels]
  BY <1>5, Zenon DEF Labels
<1>7. /\ st'.api \in [PodNames -> PodObjects \cup {Nil}]
      /\ st'.events \in Seq([pod : PodNames, labels : SUBSET Labels])
      /\ st'.api[q] = pod /\ \A p \in PodNames : p # q => st'.api[p] = st.api[p]
  BY <1>4, <1>5, <1>6
<1>8. DatastoreShape'
  BY <1>1, <1>4, <1>7, SameWorkNow, Zenon DEF DatastoreShape, SameWork
<1>9. WorkersApart'
  BY <1>1, <1>4, WorkersKept, Zenon
<1>10. /\ DOMAIN st'.events = 1..(Len(st.events) + 1) /\ DOMAIN st.events = 1..Len(st.events)
       /\ Len(st.events) \in Nat /\ st'.events[Len(st.events) + 1] = ev
       /\ \A i \in DOMAIN st.events : st'.events[i] = st.events[i]
  BY <1>4, <1>5, <1>6
<1> HIDE DEF ev
<1>11. ASSUME NEW p \in PodNames \ st.raced PROVE PodInv(p)'
  <2>1. PodInv(p)
    BY Zenon DEF DatastoreInv
  <2>2. ASSUME Steady(p)'
        PROVE  Steady(p) /\ Wanted(p, st'.api[p], st'.pool) = Wanted(p, st.api[p], st.pool)
    <3>1. st'.pool = st.pool
      BY <1>4, Zenon DEF SameWork
    <3>2. Steady(p)
      BY <1>4, <1>10, <2>2, <3>1 DEF Steady
    <3>3. CASE p # q
      BY <1>7, <3>1, <3>2, <3>3, Zenon
    <3>4. CASE p = q
      <4>1. \A l \in ev.labels : ~Matches(st.pool, l)
        <5>1. Len(st.events) + 1 \in DOMAIN st'.events
          BY <1>10
        <5>2. ev.pod = p
          BY <3>4, Zenon DEF ev
        <5> QED BY <1>10, <2>2, <3>1, <5>1, <5>2, Zenon DEF Steady
      <4>2. \A o \in {st.api[q], pod} \ {Nil} : ~Matches(st.pool, o.label)
        BY <4>1, Zenon DEF ev
      <4>3. Wanted(p, pod, st.pool) = <<>> /\ Wanted(p, st.api[q], st.pool) = <<>>
        BY <4>2, NotWanted, Zenon
      <4> QED BY <1>7, <3>1, <3>2, <3>4, <4>3, Zenon
    <3> QED BY <3>3, <3>4, Zenon
  <2> QED BY <1>4, <2>1, <2>2, PodInvKept, Zenon
<1> QED BY <1>4, <1>8, <1>9, <1>11, Zenon DEF DatastoreInv

\* The API server changes the pool.
LEMMA PoolChangesKeep ==
  ASSUME DatastoreInv, part' = part, PoolChanges
  PROVE  DatastoreInv'
<1>1. DatastoreShape /\ WorkersApart
  BY Zenon DEF DatastoreInv
<1>2. PICK pool \in {Nil} \cup PoolObjects :
        st' = [st EXCEPT !.apiPool = pool, !.poolChanges = @ + 1, !.poolQueued = TRUE]
  BY Zenon DEF PoolChanges
<1>3. DOMAIN st = DatastoreFields
  BY <1>1, Zenon DEF DatastoreShape
<1>4. /\ DOMAIN st' = DatastoreFields /\ st'.api = st.api /\ st'.events = st.events
      /\ SameWork /\ st'.unlisted = st.unlisted /\ st'.raced = st.raced /\ st'.met = st.met
      /\ st'.apiPool = pool /\ st'.queue = st.queue /\ st'.poolQueued = TRUE
  BY <1>2, <1>3, Zenon DEF DatastoreFields, SameWork
<1>5. st'.apiPool \in PoolObjects \cup {Nil}
  BY <1>4, Zenon
<1>6. DatastoreShape'
  BY <1>1, <1>4, <1>5, SameWorkNow, Zenon DEF DatastoreShape, SameWork
<1>7. WorkersApart'
  BY <1>1, <1>4, WorkersKept, Zenon
<1>8. ASSUME NEW p \in PodNames \ st.raced PROVE PodInv(p)'
  <2>1. PodInv(p)
    BY Zenon DEF DatastoreInv
  <2>2. st'.pool = st.pool
    BY <1>4, Zenon DEF SameWork
  <2>3. Steady(p)' => Steady(p)
    BY <1>4, <2>2, Zenon DEF Steady
  <2>4. Wanted(p, st'.api[p], st'.pool) = Wanted(p, st.api[p], st.pool)
    BY <1>4, <2>2, Zenon
  <2> QED BY <1>4, <2>1, <2>3, <2>4, PodInvKept, Zenon
<1> QED BY <1>4, <1>6, <1>7, <1>8, Zenon DEF DatastoreInv

\* The event filter queues a pod or drops its event.
LEMMA PodEventKeeps ==
  ASSUME DatastoreInv, part' = part, PodEvent
  PROVE  DatastoreInv'
<1>1. DatastoreShape /\ WorkersApart
  BY Zenon DEF DatastoreInv
<1> DEFINE ev == Head(st.events)
           queued == IF \E l \in ev.labels : Matches(st.pool, l) THEN st.queue \cup {ev.pod} ELSE st.queue
<1>2. /\ st.events # <<>>
      /\ st' = [st EXCEPT !.events = Tail(@), !.queue = IF \E l \in ev.labels : Matches(st.pool, l) THEN @ \cup {ev.pod} ELSE @]
  BY Zenon DEF PodEvent
<1>3. DOMAIN st = DatastoreFields
  BY <1>1, Zenon DEF DatastoreShape
<1>4. /\ DOMAIN st' = DatastoreFields /\ st'.api = st.api /\ st'.events = Tail(st.events)
      /\ SameWork /\ st'.unlisted = st.unlisted /\ st'.raced = st.raced /\ st'.met = st.met
      /\ st'.apiPool = st.apiPool /\ st'.queue = queued /\ st'.poolQueued = st.poolQueued
  BY <1>2, <1>3, Zenon DEF DatastoreFields, SameWork
<1>5. st.events \in Seq([pod : PodNames, labels : SUBSET Labels])
  BY <1>1, Zenon DEF DatastoreShape
<1>6. st'.events \in Seq([pod : PodNames, labels : SUBSET Labels])
  BY <1>2, <1>4, <1>5
<1>7. DatastoreShape'
  BY <1>1, <1>4, <1>6, SameWorkNow, Zenon DEF DatastoreShape, SameWork
<1>8. WorkersApart'
  BY <1>1, <1>4, WorkersKept, Zenon
<1>9. /\ Len(st.events) \in Nat /\ DOMAIN st.events = 1..Len(st.events) /\ ev = st.events[1]
      /\ \A i \in DOMAIN st.events : i # 1 => i - 1 \in DOMAIN st'.events /\ st'.events[i - 1] = st.events[i]
  BY <1>2, <1>4, <1>5
<1> HIDE DEF ev
<1>10. ASSUME NEW p \in PodNames \ st.raced PROVE PodInv(p)'
  <2>1. PodInv(p)
    BY Zenon DEF DatastoreInv
  <2>2. st'.pool = st.pool
    BY <1>4, Zenon DEF SameWork
  <2>3. ASSUME Steady(p)' PROVE Steady(p)
    <3>1. p \notin st.queue /\ (ev.pod = p => \A l \in ev.labels : ~Matches(st.pool, l))
      BY <1>4, <2>3, Zenon DEF Steady
    <3>2. ASSUME NEW i \in DOMAIN st.events, st.events[i].pod = p
          PROVE  \A l \in st.events[i].labels : ~Matches(st.pool, l)
      <4>1. CASE i = 1
        BY <1>9, <3>1, <3>2, <4>1, Zenon
      <4>2. CASE i # 1
        <5>1. i - 1 \in DOMAIN st'.events /\ st'.events[i - 1] = st.events[i]
          BY <1>9, <4>2, Zenon
        <5> QED BY <2>2, <2>3, <3>2, <5>1, Zenon DEF Steady
      <4> QED BY <4>1, <4>2, Zenon
    <3> QED BY <3>1, <3>2, Zenon DEF Steady
  <2>4. Wanted(p, st'.api[p], st'.pool) = Wanted(p, st.api[p], st.pool)
    BY <1>4, <2>2, Zenon
  <2> QED BY <1>4, <2>1, <2>3, <2>4, PodInvKept, Zenon
<1> QED BY <1>4, <1>7, <1>8, <1>10, Zenon DEF DatastoreInv

-----------------------------------------------------------------------------
(* The pod worker.                                                         *)

\* The work for p goes on.
LEMMA PodInvAdvances ==
  ASSUME NEW p, PodInv(p), st'.pool = st.pool, st'.api = st.api, st'.unlisted = st.unlisted,
         st'.poolWorker.pc = st.poolWorker.pc, st'.poolWorker.list = st.poolWorker.list,
         st'.poolWorker.keep = st.poolWorker.keep,
         \A k \in KeysOf(p) : /\ IF st.poolWorker.pc = "clear" THEN Freeing(Now', k) ELSE Together(Now', k)
                              /\ \A m : st.poolWorker.pc # "clear" /\ Coming(Now, k, m) => Coming(Now', k, m)
                              /\ st.poolWorker.pc # "clear" /\ Leaving(Now, k) => Leaving(Now', k)
                              /\ st.poolWorker.pc # "clear" /\ Untouched(Now, k) => Untouched(Now', k),
         ~st.unlisted => PodRead(p)',
         ~st.unlisted => PodSettled(p)' \/ (Steady(p)' /\ ~Reading(p)' => Steady(p) /\ ~Reading(p))
  PROVE  PodInv(p)'
<1>1. PodTogether(p)'
  BY Zenon DEF PodTogether
<1>2. Ranks' = Ranks
  BY Zenon DEF Ranks
<1>3. ASSUME ~st.unlisted PROVE PodSettled(p)'
  <2> SUFFICES ASSUME Steady(p)' /\ ~Reading(p)' => Steady(p) /\ ~Reading(p)
               PROVE  PodSettled(p)'
    BY <1>3, Zenon
  <2> DEFINE wanted == Wanted(p, st.api[p], st.pool)
  <2>1. wanted' = wanted
    BY Zenon
  <2>2. Steady(p) /\ ~Reading(p) =>
          IF st.poolWorker.pc = "resync" /\ p \in DOMAIN st.poolWorker.list
          THEN Wanted(p, st.poolWorker.list[p], st.pool) = wanted
          ELSE Achieves(p, wanted)
    BY <1>3, Zenon DEF PodInv, PodSettled
  <2>3. ASSUME Achieves(p, wanted) PROVE Achieves(p, wanted)'
    <3> HIDE DEF wanted
    <3> SUFFICES ASSUME NEW k \in KeysOf(p)
                 PROVE  IF k \in DOMAIN wanted
                        THEN /\ st.poolWorker.pc # "clear" /\ Coming(Now', k, wanted[k])
                             /\ st.poolWorker.pc = "resync" => k \in st.poolWorker.keep
                        ELSE \/ st.poolWorker.pc = "clear" \/ Leaving(Now', k)
                             \/ st.poolWorker.pc = "resync" /\ k \notin st.poolWorker.keep
      BY <2>1, Zenon DEF Achieves
    <3>1. IF k \in DOMAIN wanted
          THEN /\ st.poolWorker.pc # "clear" /\ Coming(Now, k, wanted[k])
               /\ st.poolWorker.pc = "resync" => k \in st.poolWorker.keep
          ELSE \/ st.poolWorker.pc = "clear" \/ Leaving(Now, k)
               \/ st.poolWorker.pc = "resync" /\ k \notin st.poolWorker.keep
      BY <2>3, Zenon DEF Achieves
    <3> QED BY <3>1, Zenon
  <2>4. Steady(p)' /\ ~Reading(p)' =>
          IF st'.poolWorker.pc = "resync" /\ p \in DOMAIN st'.poolWorker.list
          THEN Wanted(p, st'.poolWorker.list[p], st'.pool) = wanted'
          ELSE Achieves(p, wanted)'
    BY <2>1, <2>2, <2>3, Zenon
  <2> QED BY <2>4, Zenon DEF PodSettled
<1>4. ASSUME ~st.unlisted PROVE RanksOnly(p)'
  BY <1>2, <1>4, Zenon DEF PodInv, RanksOnly
<1>5. ASSUME ~st.unlisted PROVE Resyncing(p)'
  BY <1>2, <1>5, Zenon DEF PodInv, Resyncing
<1> QED BY <1>1, <1>3, <1>4, <1>5, Zenon DEF PodInv

\* A step that is not about p.
LEMMA PodInvElsewhere ==
  ASSUME NEW p, PodInv(p), st'.pool = st.pool, st'.api = st.api, st'.unlisted = st.unlisted,
         st'.poolWorker = st.poolWorker, \A k \in KeysOf(p) : Same(Now, Now', k),
         Steady(p)' => Steady(p), Reading(p) => Reading(p)', PodRead(p)'
  PROVE  PodInv(p)'
<1>1. ASSUME NEW k \in KeysOf(p)
      PROVE  /\ IF st.poolWorker.pc = "clear" THEN Freeing(Now', k) ELSE Together(Now', k)
             /\ \A m : st.poolWorker.pc # "clear" /\ Coming(Now, k, m) => Coming(Now', k, m)
             /\ st.poolWorker.pc # "clear" /\ Leaving(Now, k) => Leaving(Now', k)
             /\ st.poolWorker.pc # "clear" /\ Untouched(Now, k) => Untouched(Now', k)
  <2>1. IF st.poolWorker.pc = "clear" THEN Freeing(Now, k) ELSE Together(Now, k)
    BY Zenon DEF PodInv, PodTogether
  <2>2. Same(Now, Now', k)
    BY Zenon
  <2> QED BY <2>1, <2>2, SameKeeps, Zenon
<1> QED BY <1>1, PodInvAdvances, Zenon

\* PodDelete: all endpoints of p are dropped.
LEMMA DeletingLeaves ==
  ASSUME NEW s, WorkType(s), s.doing = {}, s.todo = {}, NEW p \in PodNames,
         NEW t, DOMAIN t = WorkFields, t.pods = s.pods, t.collectors = s.collectors, t.notified = s.notified,
         t.polling = s.polling, t.doing = {}, t.todo = rangeOps("drop", EndpointsOf(p, s.pods))
  PROVE  /\ WorkType(t)
         /\ \A k \in KeysOf(p) : Leaving(t, k)
         /\ \A k : k[1] # p => Same(s, t, k)
         /\ \A k : Together(s, k) => Together(t, k)
         /\ \A o \in t.todo : o.op # "free" /\ o.key[1] = p
<1> DEFINE K == EndpointsOf(p, s.pods)
<1>1. K \subseteq DOMAIN s.pods /\ \A k \in DOMAIN s.pods : k \in K <=> k[1] = p
  BY Zenon DEF EndpointsOf
<1> HIDE DEF K
<1>2. t.todo = rangeOps("drop", K)
  BY Zenon DEF K
<1>3. /\ WorkType(t)
      /\ \A k : k \notin K => Same(s, t, k)
      /\ \A k \in K : Leaving(t, k)
      /\ \A k : Together(s, k) => Together(t, k)
      /\ \A o \in t.todo : o.op = "drop" /\ o.key \in K
  BY <1>1, <1>2, GiveRange
<1>4. ASSUME NEW k \in KeysOf(p), k \notin K PROVE Leaving(t, k)
  <2>1. k[1] = p
    BY Zenon DEF KeysOf
  <2>2. Leaving(s, k)
    BY <1>1, <1>4, <2>1, Zenon DEF Leaving, Untouched
  <2> QED BY <1>3, <1>4, <2>2, SameKeeps, Zenon
<1> QED BY <1>1, <1>3, <1>4, Zenon

\* podUpdateOrAddIfNotExist: p gets the endpoints it should have.
LEMMA UpdateAchieves ==
  ASSUME NEW s, WorkType(s), s.doing = {}, s.todo = {}, NEW p \in PodNames, NEW pod, NEW pool \in PoolObjects,
         pod # Nil, pool # Nil, IsPodReady(pod), Matches(pool, pod.label),
         NEW t, DOMAIN t = WorkFields, t.pods = s.pods, t.collectors = s.collectors, t.notified = s.notified,
         t.polling = s.polling, t.doing = {}, t.todo = updateOps(p, pod, pool)
  PROVE  \A k \in KeysOf(p) : IF k \in DOMAIN Wanted(p, pod, pool)
                              THEN k[2] \in DOMAIN pool.targetPorts /\ Coming(t, k, Wanted(p, pod, pool)[k])
                              ELSE k[2] \in DOMAIN pool.targetPorts => Leaving(t, k)
<1> DEFINE act == ActiveRanks(pod, pool)
<1>1. Wanted(p, pod, pool) = [k \in {<<p, i>> : i \in act} |-> Metadata(pod, pool, k[2])]
  BY Zenon DEF Wanted, Endpoint
<1>2. /\ \A i \in act : Coming(t, <<p, i>>, Metadata(pod, pool, i))
      /\ \A i \in DOMAIN pool.targetPorts \ act : Leaving(t, <<p, i>>)
  BY GiveUpdate
<1>3. act \subseteq DOMAIN pool.targetPorts
  BY Zenon DEF ActiveRanks
<1> HIDE DEF act
<1> SUFFICES ASSUME NEW k \in KeysOf(p)
             PROVE  IF k \in {<<p, i>> : i \in act}
                    THEN k[2] \in DOMAIN pool.targetPorts /\ Coming(t, k, Metadata(pod, pool, k[2]))
                    ELSE k[2] \in DOMAIN pool.targetPorts => Leaving(t, k)
  BY <1>1
<1>4. k = <<p, k[2]>>
  BY DEF KeysOf
<1>5. k \in {<<p, i>> : i \in act} <=> k[2] \in act
  BY <1>4
<1> QED BY <1>2, <1>3, <1>4, <1>5, Zenon

\* The pod worker is in a state of its own; everything else is as before.
OnlyPodWorker ==
  /\ DOMAIN st' = DatastoreFields
  /\ st'.api = st.api /\ st'.apiPool = st.apiPool /\ st'.polling = st.polling /\ st'.events = st.events
  /\ st'.poolQueued = st.poolQueued /\ st'.pool = st.pool /\ st'.poolWorker = st.poolWorker
  /\ st'.unlisted = st.unlisted /\ st'.raced = st.raced /\ st'.met = st.met

\* The shape of the state when the pod worker moves.
LEMMA PodWorkerShape ==
  ASSUME DatastoreShape, OnlyPodWorker, DOMAIN st'.podWorker = PodWorkerFields,
         st'.podWorker.pc \in {"idle", "get", "match", "update", "endpoints"},
         WorkType(Work(st.podWorker)')
  PROVE  DatastoreShape' /\ Locked' = Locked
<1>1. WorkType(Work(st.poolWorker)')
  <2>1. WorkType(Work(st.poolWorker))
    BY Zenon DEF DatastoreShape
  <2>2. Work(st.poolWorker)' = [pods |-> st'.pods, collectors |-> st'.collectors, notified |-> st'.notified,
            polling |-> st'.polling, todo |-> st.poolWorker.todo, doing |-> st.poolWorker.doing]
    BY Zenon DEF Work, OnlyPodWorker
  <2>3. DOMAIN st'.pods \subseteq Keys /\ st'.collectors \subseteq Keys /\ st'.notified \subseteq Keys
    BY Zenon DEF Work, WorkType
  <2> QED BY <2>1, <2>2, <2>3, SMTT(30) DEF Work, WorkType, WorkFields
<1> QED BY <1>1, Zenon DEF DatastoreShape, OnlyPodWorker, Locked

\* The workers stay apart when the pod worker moves.
LEMMA PodWorkerApart ==
  ASSUME WorkersApart, OnlyPodWorker, Locked' = Locked,
         st'.podWorker.pc # "endpoints" => Finished(st'.podWorker),
         st'.podWorker.pc # "idle" => st'.podWorker.pod \in PodNames,
         st'.podWorker.pc \in {"match", "update"} => st'.podWorker.object # Nil,
         \A o \in st'.podWorker.todo \cup st'.podWorker.doing : o.key[1] = st'.podWorker.pod /\ o.op # "free",
         Locked /\ st'.podWorker.pc # "idle" => st'.podWorker.pod \in st.raced
  PROVE  WorkersApart'
BY Zenon DEF WorkersApart, OnlyPodWorker, Finished

\* Work on nothing, or with the same operations, is the same work.
LEMMA SameRefl ==
  ASSUME NEW s, NEW t, t = s, NEW k
  PROVE  Same(s, t, k)
BY Zenon DEF Same

\* The pod worker is given operations on q: nothing changes for another pod.
LEMMA PodMoveElsewhere ==
  ASSUME DatastoreInv, OnlyPodWorker, Locked' = Locked,
         st'.pods = st.pods, st'.collectors = st.collectors, st'.notified = st.notified,
         Finished(st.podWorker), st'.podWorker.doing = {}, NEW q, \A o \in st'.podWorker.todo : o.key[1] = q,
         st.podWorker.pc = "idle" \/ st.podWorker.pod = q, st'.podWorker.pc = "idle" \/ st'.podWorker.pod = q,
         NEW p \in PodNames \ st.raced, p # q, p \in st.queue => p \in st'.queue
  PROVE  PodInv(p)'
<1>1. PodInv(p)
  BY Zenon DEF DatastoreInv
<1>2. \A k \in KeysOf(p) : Same(Now, Now', k)
  <2> SUFFICES ASSUME NEW k \in KeysOf(p) PROVE Same(Now, Now', k)
    BY Zenon
  <2>1. CASE Locked
    <3>1. Now' = Now
      BY <2>1, Zenon DEF Now, Work, OnlyPodWorker
    <3> QED BY <3>1, SameRefl, Zenon
  <2>2. CASE ~Locked
    <3>1. Now = Work(st.podWorker) /\ Now' = Work(st.podWorker)'
      BY <2>2, Zenon DEF Now
    <3>2. k[1] = p
      BY Zenon DEF KeysOf
    <3> QED BY <3>1, <3>2, Zenon DEF Same, Work, OnlyPodWorker, Finished
  <2> QED BY <2>1, <2>2, Zenon
<1>3. Steady(p)' => Steady(p)
  BY Zenon DEF Steady, OnlyPodWorker
<1>4. ~Reading(p) /\ PodRead(p)'
  BY Zenon DEF Reading, PodRead
<1> QED BY <1>1, <1>2, <1>3, <1>4, PodInvElsewhere, Zenon DEF OnlyPodWorker

\* PodReconcile takes a pod from the queue.
LEMMA PodReconcileKeeps ==
  ASSUME DatastoreInv, part' = part, NEW q \in PodNames, PodReconcile(q)
  PROVE  DatastoreInv'
<1>1. DatastoreShape /\ WorkersApart
  BY Zenon DEF DatastoreInv
<1>2. /\ q \in st.queue /\ st.podWorker.pc = "idle" /\ ~Locked
      /\ st' = [st EXCEPT !.queue = @ \ {q},
                  !.podWorker = IF st.pool = Nil THEN Idle ELSE [Idle EXCEPT !.pc = "get", !.pod = q]]
  BY Zenon DEF PodReconcile
<1>3. DOMAIN st = DatastoreFields
  BY <1>1, Zenon DEF DatastoreShape
<1>4. /\ OnlyPodWorker /\ st'.queue = st.queue \ {q}
      /\ st'.podWorker = IF st.pool = Nil THEN Idle ELSE [Idle EXCEPT !.pc = "get", !.pod = q]
      /\ st'.pods = st.pods /\ st'.collectors = st.collectors /\ st'.notified = st.notified
  BY <1>2, <1>3, Zenon DEF DatastoreFields, OnlyPodWorker
<1>5. /\ DOMAIN st'.podWorker = PodWorkerFields /\ st'.podWorker.pc \in {"idle", "get"}
      /\ st'.podWorker.todo = {} /\ st'.podWorker.doing = {}
      /\ st'.podWorker.pc # "idle" => st'.podWorker.pod = q
      /\ st.pool # Nil => st'.podWorker.pc = "get" /\ st'.podWorker.pod = q
  BY <1>4 DEF Idle, PodWorkerFields
<1>6. st.podWorker.todo = {} /\ st.podWorker.doing = {} /\ Finished(st.podWorker)
  BY <1>1, <1>2, Zenon DEF WorkersApart, Finished
<1>7. Work(st.podWorker)' = Work(st.podWorker)
  BY <1>4, <1>5, <1>6, Zenon DEF Work, OnlyPodWorker
<1>8. WorkType(Work(st.podWorker)')
  BY <1>1, <1>7, Zenon DEF DatastoreShape
<1>9. DatastoreShape' /\ Locked' = Locked
  BY <1>1, <1>4, <1>5, <1>8, PodWorkerShape, Zenon
<1>10. WorkersApart'
  BY <1>1, <1>2, <1>4, <1>5, <1>9, PodWorkerApart, Zenon DEF Finished
<1>11. Now' = Now
  BY <1>2, <1>7, <1>9, Zenon DEF Now
<1>12. ASSUME NEW p \in PodNames \ st.raced PROVE PodInv(p)'
  <2>1. CASE p # q
    BY <1>2, <1>4, <1>5, <1>6, <1>9, <2>1, PodMoveElsewhere, Zenon
  <2>2. CASE p = q
    <3>1. PodInv(p)
      BY Zenon DEF DatastoreInv
    <3>2. st.poolWorker.pc = "idle"
      BY <1>2, Zenon DEF Locked
    <3>3. PodRead(p)'
      BY <1>5, Zenon DEF PodRead
    <3>4. ASSUME ~st.unlisted, st.pool = Nil PROVE PodSettled(p)'
      <4>1. Wanted(p, st'.api[p], st'.pool) = <<>>
        BY <1>4, <3>4, Zenon DEF Wanted, OnlyPodWorker
      <4>2. \A k \in KeysOf(p) : Leaving(Now', k)
        BY <1>11, <3>1, <3>2, <3>4, Zenon DEF PodInv, RanksOnly, Ranks
      <4>3. Achieves(p, <<>>)'
        BY <4>2 DEF Achieves
      <4> QED BY <1>4, <3>2, <4>1, <4>3, Zenon DEF PodSettled, OnlyPodWorker
    <3>5. st.pool # Nil => Reading(p)'
      BY <1>5, <2>2, Zenon DEF Reading
    <3>6. \A k \in KeysOf(p) : Together(Now', k)
      BY <1>11, <3>1, <3>2, Zenon DEF PodInv, PodTogether
    <3> QED BY <1>4, <1>11, <3>1, <3>2, <3>3, <3>4, <3>5, <3>6, PodInvAdvances, Zenon DEF OnlyPodWorker
  <2> QED BY <2>1, <2>2, Zenon
<1> QED BY <1>4, <1>9, <1>10, <1>12, Zenon DEF DatastoreInv, OnlyPodWorker

\* The pod worker is about to delete the endpoints of its pod.
LEMMA DeletingKeeps ==
  ASSUME DatastoreInv, part' = part, Finished(st.podWorker), st.podWorker.pc # "idle",
         OnlyPodWorker, st'.queue = st.queue, st'.podWorker = Deleting(st.podWorker.pod),
         st'.pods = st.pods, st'.collectors = st.collectors, st'.notified = st.notified,
         ~Locked \/ st.podWorker.pod \in st.raced,
         st.podWorker.pod \notin st.raced /\ ~st.unlisted /\ Steady(st.podWorker.pod) =>
           Wanted(st.podWorker.pod, st.api[st.podWorker.pod], st.pool) = <<>>
  PROVE  DatastoreInv'
<1> DEFINE q == st.podWorker.pod
<1>1. DatastoreShape /\ WorkersApart /\ q \in PodNames
  BY Zenon DEF DatastoreInv, WorkersApart
<1>2. /\ DOMAIN st'.podWorker = PodWorkerFields /\ st'.podWorker.pc = "endpoints" /\ st'.podWorker.pod = q
      /\ st'.podWorker.todo = rangeOps("drop", EndpointsOf(q, st.pods)) /\ st'.podWorker.doing = {}
  BY Zenon DEF Deleting, Idle, PodWorkerFields
<1> HIDE DEF q
<1> DEFINE s == Work(st.podWorker)
           t == Work(st.podWorker)'
<1>3. /\ WorkType(s) /\ s.todo = {} /\ s.doing = {} /\ s.pods = st.pods
      /\ DOMAIN t = WorkFields /\ t.pods = s.pods /\ t.collectors = s.collectors /\ t.notified = s.notified
      /\ t.polling = s.polling /\ t.doing = {} /\ t.todo = rangeOps("drop", EndpointsOf(q, s.pods))
  BY <1>1, <1>2, Zenon DEF Work, WorkFields, DatastoreShape, Finished, OnlyPodWorker
<1> HIDE DEF s, t
<1>4. /\ WorkType(t) /\ \A k \in KeysOf(q) : Leaving(t, k)
      /\ \A k : Together(s, k) => Together(t, k)
      /\ \A o \in t.todo : o.op # "free" /\ o.key[1] = q
  BY <1>1, <1>3, DeletingLeaves, SMTT(30)
<1>5. t.todo = st'.podWorker.todo
  BY Zenon DEF t, Work
<1>6. DatastoreShape' /\ Locked' = Locked
  BY <1>1, <1>2, <1>4, PodWorkerShape, Zenon DEF t
<1>7. WorkersApart'
  BY <1>1, <1>2, <1>4, <1>5, <1>6, PodWorkerApart, Zenon DEF q
<1>8. ASSUME NEW p \in PodNames \ st.raced PROVE PodInv(p)'
  <2>1. CASE p # q
    BY <1>2, <1>4, <1>5, <1>6, <2>1, PodMoveElsewhere, Zenon DEF q
  <2>2. CASE p = q
    <3>1. PodInv(p)
      BY Zenon DEF DatastoreInv
    <3>2. ~Locked /\ st.poolWorker.pc = "idle"
      BY <2>2, Zenon DEF Locked, q
    <3>3. Now = s /\ Now' = t
      BY <1>6, <3>2, Zenon DEF Now, s, t
    <3>4. PodRead(p)'
      BY <1>2, Zenon DEF PodRead
    <3>5. ASSUME ~st.unlisted PROVE PodSettled(p)'
      <4>1. Steady(p)' => Steady(p)
        BY Zenon DEF Steady, OnlyPodWorker
      <4>2. Steady(p)' => Wanted(p, st'.api[p], st'.pool) = <<>>
        BY <2>2, <3>5, <4>1, Zenon DEF OnlyPodWorker, q
      <4>3. Achieves(p, <<>>)'
        BY <1>4, <2>2, <3>3, SMTT(30) DEF Achieves
      <4> QED BY <3>2, <4>2, <4>3, Zenon DEF PodSettled, OnlyPodWorker
    <3>6. \A k \in KeysOf(p) : Together(Now', k)
      BY <1>4, <3>1, <3>2, <3>3, Zenon DEF PodInv, PodTogether
    <3>7. \A k \in KeysOf(p) : ~st.unlisted => Leaving(Now', k)
      BY <1>4, <2>2, <3>3, Zenon
    <3>8. RanksOnly(p)' /\ Resyncing(p)'
      BY <1>4, <2>2, <3>2, <3>3, Zenon DEF RanksOnly, Resyncing, OnlyPodWorker
    <3>9. PodTogether(p)'
      BY <3>2, <3>6, Zenon DEF PodTogether, OnlyPodWorker
    <3> QED BY <3>4, <3>5, <3>8, <3>9, Zenon DEF PodInv, OnlyPodWorker
  <2> QED BY <2>1, <2>2, Zenon
<1> QED BY <1>6, <1>7, <1>8, Zenon DEF DatastoreInv, OnlyPodWorker

\* The pod worker goes on reading its pod, without operations.
LEMMA ReadingKeeps ==
  ASSUME DatastoreInv, part' = part, Finished(st.podWorker), st.podWorker.pc \in {"get", "match", "update"},
         OnlyPodWorker, st'.queue = st.queue,
         DOMAIN st'.podWorker = PodWorkerFields, st'.podWorker.pc \in {"match", "update"},
         st'.podWorker.pod = st.podWorker.pod, st'.podWorker.object # Nil,
         st'.podWorker.todo = {}, st'.podWorker.doing = {},
         st'.pods = st.pods, st'.collectors = st.collectors, st'.notified = st.notified,
         st.podWorker.pod \notin st.raced /\ ~st.unlisted => PodRead(st.podWorker.pod)'
  PROVE  DatastoreInv'
<1> DEFINE q == st.podWorker.pod
<1>1. DatastoreShape /\ WorkersApart /\ q \in PodNames
  BY Zenon DEF DatastoreInv, WorkersApart
<1>2. Work(st.podWorker)' = Work(st.podWorker)
  BY Zenon DEF Work, OnlyPodWorker, Finished
<1>3. WorkType(Work(st.podWorker)')
  BY <1>1, <1>2, Zenon DEF DatastoreShape
<1>4. DatastoreShape' /\ Locked' = Locked
  BY <1>1, <1>3, PodWorkerShape, Zenon
<1>5. Locked => q \in st.raced
  BY <1>1, Zenon DEF WorkersApart
<1>6. WorkersApart'
  BY <1>1, <1>4, <1>5, PodWorkerApart, Zenon DEF Finished
<1>7. Now' = Now
  BY <1>2, <1>4, Zenon DEF Now, Work, OnlyPodWorker
<1>8. ASSUME NEW p \in PodNames \ st.raced PROVE PodInv(p)'
  <2>1. CASE p # q
    BY <1>4, <2>1, PodMoveElsewhere, Zenon
  <2>2. CASE p = q
    <3>1. PodInv(p)
      BY Zenon DEF DatastoreInv
    <3>2. st.poolWorker.pc = "idle"
      BY <1>5, <2>2, Zenon DEF Locked
    <3>3. \A k \in KeysOf(p) : Together(Now', k)
      BY <1>7, <3>1, <3>2, Zenon DEF PodInv, PodTogether
    <3>4. Reading(p)'
      BY <2>2, Zenon DEF Reading
    <3> HIDE DEF q
    <3>5. ~st.unlisted => PodRead(p)'
      BY <2>2, Zenon DEF q
    <3> QED BY <1>7, <3>1, <3>2, <3>3, <3>4, <3>5, PodInvAdvances, Zenon DEF OnlyPodWorker
  <2> QED BY <2>1, <2>2, Zenon
<1> QED BY <1>4, <1>6, <1>8, Zenon DEF DatastoreInv, OnlyPodWorker

\* A step that assigns the pod worker only.
LEMMA AssignsPodWorker ==
  ASSUME DatastoreShape, NEW w, st' = [st EXCEPT !.podWorker = w]
  PROVE  /\ OnlyPodWorker /\ st'.queue = st.queue /\ st'.podWorker = w
         /\ st'.pods = st.pods /\ st'.collectors = st.collectors /\ st'.notified = st.notified
BY Zenon DEF DatastoreShape, DatastoreFields, OnlyPodWorker

\* PodReconcile reads the pod.
LEMMA PodGetKeeps ==
  ASSUME DatastoreInv, part' = part, PodGet
  PROVE  DatastoreInv'
<1> DEFINE q == st.podWorker.pod
<1>1. DatastoreShape /\ WorkersApart
  BY Zenon DEF DatastoreInv
<1>2. /\ st.podWorker.pc = "get"
      /\ st' = [st EXCEPT !.podWorker =
           IF st.api[q] = Nil THEN Deleting(q)
           ELSE [Idle EXCEPT !.pc = "match", !.pod = q, !.object = st.api[q]]]
  BY Zenon DEF PodGet
<1>3. /\ OnlyPodWorker /\ st'.queue = st.queue
      /\ st'.podWorker = IF st.api[q] = Nil THEN Deleting(q)
                         ELSE [Idle EXCEPT !.pc = "match", !.pod = q, !.object = st.api[q]]
      /\ st'.pods = st.pods /\ st'.collectors = st.collectors /\ st'.notified = st.notified
  BY <1>1, <1>2, AssignsPodWorker, Zenon
<1>4. Finished(st.podWorker) /\ (Locked => q \in st.raced)
  BY <1>1, <1>2, Zenon DEF WorkersApart
<1>5. CASE st.api[q] = Nil
  <2>1. Wanted(q, st.api[q], st.pool) = <<>>
    BY <1>5, Zenon DEF Wanted
  <2> QED BY <1>2, <1>3, <1>4, <1>5, <2>1, DeletingKeeps, Zenon
<1>6. CASE st.api[q] # Nil
  <2>1. /\ DOMAIN st'.podWorker = PodWorkerFields /\ st'.podWorker.pc = "match" /\ st'.podWorker.pod = q
        /\ st'.podWorker.object = st.api[q] /\ st'.podWorker.todo = {} /\ st'.podWorker.doing = {}
    BY <1>3, <1>6, Zenon DEF Idle, PodWorkerFields
  <2>2. PodRead(st.podWorker.pod)'
    BY <1>3, <2>1, Zenon DEF PodRead, OnlyPodWorker
  <2> QED BY <1>2, <1>3, <1>4, <1>6, <2>1, <2>2, ReadingKeeps, Zenon
<1> QED BY <1>5, <1>6, Zenon

\* updateDatastore matches the pod with the pool of the moment.
LEMMA updateDatastoreKeeps ==
  ASSUME DatastoreInv, part' = part, updateDatastore
  PROVE  DatastoreInv'
<1> DEFINE q == st.podWorker.pod
           pod == st.podWorker.object
           ok == IsPodReady(pod) /\ Matches(st.pool, pod.label)
<1>1. DatastoreShape /\ WorkersApart
  BY Zenon DEF DatastoreInv
<1>2. /\ st.podWorker.pc = "match" /\ ~Locked
      /\ st' = [st EXCEPT !.podWorker =
           IF ok THEN [Idle EXCEPT !.pc = "update", !.pod = q, !.object = pod] ELSE Deleting(q)]
  BY Zenon DEF updateDatastore
<1>3. /\ OnlyPodWorker /\ st'.queue = st.queue
      /\ st'.podWorker = IF ok THEN [Idle EXCEPT !.pc = "update", !.pod = q, !.object = pod] ELSE Deleting(q)
      /\ st'.pods = st.pods /\ st'.collectors = st.collectors /\ st'.notified = st.notified
  BY <1>1, <1>2, AssignsPodWorker, Zenon
<1>4. Finished(st.podWorker) /\ pod # Nil /\ q \in PodNames
  BY <1>1, <1>2, Zenon DEF WorkersApart
<1>5. ASSUME q \notin st.raced, ~st.unlisted, Steady(q) PROVE Wanted(q, pod, st.pool) = Wanted(q, st.api[q], st.pool)
  BY <1>2, <1>4, <1>5, Zenon DEF DatastoreInv, PodInv, PodRead
<1>6. CASE ~ok
  <2>1. Wanted(q, pod, st.pool) = <<>>
    BY <1>6, Zenon DEF Wanted
  <2> QED BY <1>2, <1>3, <1>4, <1>5, <1>6, <2>1, DeletingKeeps, Zenon
<1>7. CASE ok
  <2>1. /\ DOMAIN st'.podWorker = PodWorkerFields /\ st'.podWorker.pc = "update" /\ st'.podWorker.pod = q
        /\ st'.podWorker.object = pod /\ st'.podWorker.todo = {} /\ st'.podWorker.doing = {}
    BY <1>3, <1>7, Zenon DEF Idle, PodWorkerFields
  <2>2. Steady(q)' => Steady(q)
    BY <1>3, <2>1, Zenon DEF Steady, OnlyPodWorker
  <2>3. ASSUME q \notin st.raced, ~st.unlisted PROVE PodRead(st.podWorker.pod)'
    <3>1. Steady(q)' => Wanted(q, st'.podWorker.object, st'.pool) = Wanted(q, st'.api[q], st'.pool)
      BY <1>3, <1>5, <2>1, <2>2, <2>3, Zenon DEF OnlyPodWorker
    <3>2. st.pool # Nil
      BY <1>7, Zenon DEF Matches
    <3> QED BY <1>3, <1>7, <2>1, <3>1, <3>2, Zenon DEF PodRead, OnlyPodWorker
  <2> QED BY <1>2, <1>3, <1>4, <2>1, <2>3, ReadingKeeps, Zenon
<1> QED BY <1>6, <1>7, Zenon

\* PodUpdateOrAddIfNotExist reads the pool and lists the operations.
LEMMA PodUpdateKeeps ==
  ASSUME DatastoreInv, part' = part, PodUpdateOrAddIfNotExist
  PROVE  DatastoreInv'
<1> DEFINE q == st.podWorker.pod
           pod == st.podWorker.object
<1>1. DatastoreShape /\ WorkersApart
  BY Zenon DEF DatastoreInv
<1>2. /\ st.podWorker.pc = "update" /\ ~Locked
      /\ st' = [st EXCEPT !.podWorker =
           IF st.pool = Nil THEN Idle
           ELSE [Idle EXCEPT !.pc = "endpoints", !.pod = q, !.todo = updateOps(q, pod, st.pool)]]
  BY Zenon DEF PodUpdateOrAddIfNotExist
<1>3. /\ OnlyPodWorker /\ st'.queue = st.queue
      /\ st'.podWorker = IF st.pool = Nil THEN Idle
                         ELSE [Idle EXCEPT !.pc = "endpoints", !.pod = q, !.todo = updateOps(q, pod, st.pool)]
      /\ st'.pods = st.pods /\ st'.collectors = st.collectors /\ st'.notified = st.notified
  BY <1>1, <1>2, AssignsPodWorker, Zenon
<1>4. Finished(st.podWorker) /\ pod # Nil /\ q \in PodNames /\ st.poolWorker.pc = "idle"
  BY <1>1, <1>2, Zenon DEF WorkersApart, Locked
<1>5. ASSUME q \notin st.raced, ~st.unlisted
      PROVE  /\ st.pool # Nil /\ IsPodReady(pod) /\ Matches(st.pool, pod.label)
             /\ Steady(q) => Wanted(q, pod, st.pool) = Wanted(q, st.api[q], st.pool)
  BY <1>2, <1>4, <1>5, Zenon DEF DatastoreInv, PodInv, PodRead
<1> HIDE DEF q, pod
<1>6. CASE st.pool = Nil
  <2>1. st'.podWorker = Idle
    BY <1>3, <1>6, Zenon
  <2>2. /\ DOMAIN st'.podWorker = PodWorkerFields /\ st'.podWorker.pc = "idle"
        /\ st'.podWorker.todo = {} /\ st'.podWorker.doing = {}
    BY <2>1 DEF Idle, PodWorkerFields
  <2>3. Work(st.podWorker)' = Work(st.podWorker)
    BY <1>3, <1>4, <2>2, Zenon DEF Work, OnlyPodWorker, Finished
  <2>4. WorkType(Work(st.podWorker)')
    BY <1>1, <2>3, Zenon DEF DatastoreShape
  <2>5. DatastoreShape' /\ Locked' = Locked
    BY <1>1, <1>3, <2>2, <2>4, PodWorkerShape, Zenon
  <2>6. WorkersApart'
    BY <1>1, <1>3, <2>2, <2>5, PodWorkerApart, Zenon DEF Finished
  <2>7. ASSUME NEW p \in PodNames \ st.raced PROVE PodInv(p)'
    <3>1. CASE p # q
      BY <1>3, <1>4, <2>2, <2>5, <3>1, PodMoveElsewhere, Zenon DEF q
    <3>2. CASE p = q
      <4>1. st.unlisted /\ st'.unlisted
        BY <1>3, <1>5, <1>6, <3>2, Zenon DEF OnlyPodWorker
      <4>2. Now' = Now
        BY <1>2, <2>3, <2>5, Zenon DEF Now
      <4>3. PodTogether(p)'
        BY <1>3, <1>4, <4>2, Zenon DEF DatastoreInv, PodInv, PodTogether, OnlyPodWorker
      <4> QED BY <4>1, <4>3, Zenon DEF PodInv
    <3> QED BY <3>1, <3>2, Zenon
  <2> QED BY <1>3, <2>5, <2>6, <2>7, Zenon DEF DatastoreInv, OnlyPodWorker
<1>7. CASE st.pool # Nil
  <2>1. /\ DOMAIN st'.podWorker = PodWorkerFields /\ st'.podWorker.pc = "endpoints" /\ st'.podWorker.pod = q
        /\ st'.podWorker.todo = updateOps(q, pod, st.pool) /\ st'.podWorker.doing = {}
    BY <1>3, <1>7, Zenon DEF Idle, PodWorkerFields
  <2> DEFINE s == Work(st.podWorker)
             t == Work(st.podWorker)'
  <2>2. /\ WorkType(s) /\ s.todo = {} /\ s.doing = {} /\ s.pods = st.pods
        /\ DOMAIN t = WorkFields /\ t.pods = s.pods /\ t.collectors = s.collectors /\ t.notified = s.notified
        /\ t.polling = s.polling /\ t.doing = {} /\ t.todo = updateOps(q, pod, st.pool)
    BY <1>1, <1>3, <1>4, <2>1, Zenon DEF Work, WorkFields, DatastoreShape, Finished, OnlyPodWorker
  <2>3. st.pool \in PoolObjects
    BY <1>1, <1>7, Zenon DEF DatastoreShape
  <2>4. t.todo = st'.podWorker.todo
    BY Zenon DEF Work
  <2> HIDE DEF s, t
  <2>5. /\ WorkType(t)
        /\ \A k : (\A i \in DOMAIN st.pool.targetPorts : k # <<q, i>>) => Same(s, t, k)
        /\ \A k : Together(s, k) => Together(t, k)
        /\ \A o \in t.todo : o.op # "free" /\ o.key[1] = q
    BY <1>4, <2>2, <2>3, GiveUpdate
  <2>6. DatastoreShape' /\ Locked' = Locked
    BY <1>1, <1>3, <2>1, <2>5, PodWorkerShape, Zenon DEF t
  <2>7. WorkersApart'
    BY <1>1, <1>2, <1>3, <1>4, <2>1, <2>4, <2>5, <2>6, PodWorkerApart, Zenon
  <2>8. ASSUME NEW p \in PodNames \ st.raced PROVE PodInv(p)'
    <3>1. CASE p # q
      BY <1>3, <1>4, <2>1, <2>4, <2>5, <2>6, <3>1, PodMoveElsewhere, ZenonT(30) DEF q
    <3>2. CASE p = q
      <4>1. PodInv(p)
        BY Zenon DEF DatastoreInv
      <4>2. Now = s /\ Now' = t
        BY <1>2, <2>6, Zenon DEF Now, s, t
      <4>3. PodRead(p)'
        BY <2>1, Zenon DEF PodRead
      <4>4. PodTogether(p)'
        BY <1>3, <1>4, <2>5, <4>1, <4>2, Zenon DEF PodInv, PodTogether, OnlyPodWorker
      <4>5. ASSUME ~st.unlisted, NEW k \in KeysOf(p), k[2] \notin Ranks PROVE Leaving(t, k)
        <5>1. Leaving(s, k)
          BY <1>4, <4>1, <4>2, <4>5, Zenon DEF PodInv, RanksOnly
        <5>2. \A i \in DOMAIN st.pool.targetPorts : k # <<q, i>>
          BY <1>7, <4>5 DEF Ranks
        <5> QED BY <2>5, <5>1, <5>2, SameKeeps, Zenon
      <4>6. ASSUME ~st.unlisted PROVE PodSettled(p)'
        <5>1. Steady(p)' => Steady(p)
          BY <1>3, Zenon DEF Steady, OnlyPodWorker
        <5>2. Steady(p)' => Wanted(p, st'.api[p], st'.pool) = Wanted(p, pod, st.pool)
          BY <1>3, <1>5, <3>2, <4>6, <5>1, Zenon DEF OnlyPodWorker
        <5>3. \A k \in KeysOf(p) : IF k \in DOMAIN Wanted(p, pod, st.pool)
                              THEN Coming(t, k, Wanted(p, pod, st.pool)[k])
                              ELSE k[2] \in DOMAIN st.pool.targetPorts => Leaving(t, k)
          BY <1>4, <1>5, <1>7, <2>2, <2>3, <3>2, <4>6, UpdateAchieves, Zenon
        <5>4. \A k \in KeysOf(p) : k \notin DOMAIN Wanted(p, pod, st.pool) => Leaving(t, k)
          BY <1>7, <4>5, <4>6, <5>3, Zenon DEF Ranks
        <5> DEFINE W == Wanted(p, st.api[p], st.pool)
        <5>5. ASSUME Steady(p)' PROVE Achieves(p, W)'
          <6>1. W' = Wanted(p, pod, st.pool)
            BY <5>2, <5>5, Zenon
          <6> HIDE DEF W
          <6> QED BY <1>3, <1>4, <4>2, <5>3, <5>4, <6>1, Zenon DEF Achieves, OnlyPodWorker
        <5> QED BY <1>3, <1>4, <5>5, Zenon DEF PodSettled, OnlyPodWorker
      <4>7. Ranks' = Ranks
        BY <1>3, Zenon DEF Ranks, OnlyPodWorker
      <4>8. ~st.unlisted => RanksOnly(p)' /\ Resyncing(p)'
        BY <1>3, <1>4, <4>2, <4>5, <4>7, Zenon DEF RanksOnly, Resyncing, OnlyPodWorker
      <4> QED BY <1>3, <4>3, <4>4, <4>6, <4>8, Zenon DEF PodInv, OnlyPodWorker
    <3> QED BY <3>1, <3>2, Zenon
  <2> QED BY <1>3, <2>6, <2>7, <2>8, Zenon DEF DatastoreInv, OnlyPodWorker
<1> QED BY <1>6, <1>7, Zenon

\* The pod is reconciled.
LEMMA PodReconciledKeeps ==
  ASSUME DatastoreInv, part' = part, PodReconciled
  PROVE  DatastoreInv'
<1>1. DatastoreShape /\ WorkersApart
  BY Zenon DEF DatastoreInv
<1>2. st.podWorker.pc = "endpoints" /\ Finished(st.podWorker) /\ st' = [st EXCEPT !.podWorker = Idle]
  BY Zenon DEF PodReconciled
<1>3. /\ OnlyPodWorker /\ st'.queue = st.queue /\ st'.podWorker = Idle
      /\ st'.pods = st.pods /\ st'.collectors = st.collectors /\ st'.notified = st.notified
  BY <1>1, <1>2, AssignsPodWorker, Zenon
<1>4. /\ DOMAIN st'.podWorker = PodWorkerFields /\ st'.podWorker.pc = "idle"
      /\ st'.podWorker.todo = {} /\ st'.podWorker.doing = {}
  BY <1>3 DEF Idle, PodWorkerFields
<1>5. Work(st.podWorker)' = Work(st.podWorker)
  BY <1>2, <1>3, <1>4, Zenon DEF Work, OnlyPodWorker, Finished
<1>6. WorkType(Work(st.podWorker)')
  BY <1>1, <1>5, Zenon DEF DatastoreShape
<1>7. DatastoreShape' /\ Locked' = Locked
  BY <1>1, <1>3, <1>4, <1>6, PodWorkerShape, Zenon
<1>8. WorkersApart'
  BY <1>1, <1>3, <1>4, <1>7, PodWorkerApart, Zenon DEF Finished
<1>9. Now' = Now
  BY <1>3, <1>5, <1>7, Zenon DEF Now, Work, OnlyPodWorker
<1>10. ASSUME NEW p \in PodNames \ st.raced PROVE PodInv(p)'
  <2>1. PodInv(p)
    BY Zenon DEF DatastoreInv
  <2>2. \A k \in KeysOf(p) : Same(Now, Now', k)
    BY <1>9, SameRefl, Zenon
  <2>3. ~Reading(p) /\ PodRead(p)'
    BY <1>2, <1>4, Zenon DEF Reading, PodRead
  <2>4. Steady(p)' => Steady(p)
    BY <1>3, Zenon DEF Steady, OnlyPodWorker
  <2> QED BY <1>3, <2>1, <2>2, <2>3, <2>4, PodInvElsewhere, Zenon DEF OnlyPodWorker
<1> QED BY <1>3, <1>7, <1>8, <1>10, Zenon DEF DatastoreInv, OnlyPodWorker

\* The pod worker takes a step of an endpoint operation.
LEMMA PodWorkerStepKeeps ==
  ASSUME DatastoreInv, part' = part, PodWorkerStep
  PROVE  DatastoreInv'
<1> DEFINE q == st.podWorker.pod
           s == Work(st.podWorker)
<1>1. DatastoreShape /\ WorkersApart
  BY Zenon DEF DatastoreInv
<1>2. PICK t \in endpointSteps(s) :
        st' = [st EXCEPT !.pods = t.pods, !.collectors = t.collectors, !.notified = t.notified,
                         !.podWorker = [@ EXCEPT !.todo = t.todo, !.doing = t.doing]]
  BY Zenon DEF PodWorkerStep
<1>3. DOMAIN st = DatastoreFields /\ DOMAIN st.podWorker = PodWorkerFields
  BY <1>1, Zenon DEF DatastoreShape
<1>4. /\ OnlyPodWorker /\ st'.queue = st.queue
      /\ st'.pods = t.pods /\ st'.collectors = t.collectors /\ st'.notified = t.notified
      /\ st'.podWorker = [st.podWorker EXCEPT !.todo = t.todo, !.doing = t.doing]
  BY <1>2, <1>3, Zenon DEF DatastoreFields, OnlyPodWorker
<1>5. /\ DOMAIN st'.podWorker = PodWorkerFields /\ st'.podWorker.pc = st.podWorker.pc
      /\ st'.podWorker.pod = q /\ st'.podWorker.object = st.podWorker.object
      /\ st'.podWorker.todo = t.todo /\ st'.podWorker.doing = t.doing
  BY <1>3, <1>4, Zenon DEF PodWorkerFields
<1>6. WorkType(s) /\ s.todo = st.podWorker.todo /\ s.doing = st.podWorker.doing /\ s.polling = st.polling
  BY <1>1, Zenon DEF DatastoreShape, Work
<1> HIDE DEF s
<1>7. /\ WorkType(t) /\ t.polling = s.polling
      /\ \A r \in t.todo \cup t.doing : \E o \in s.todo \cup s.doing :
           o.key = r.key /\ (r.op = "free" => o.op = "free")
  BY <1>6, StepType, Zenon
<1>8. DOMAIN t = WorkFields
  BY <1>7, Zenon DEF WorkType
<1>9. /\ \A k : Same(Work(st.podWorker)', t, k) /\ Same(t, Work(st.podWorker)', k)
      /\ WorkType(Work(st.podWorker)')
  <2> DEFINE u == Work(st.podWorker)'
  <2>1. /\ DOMAIN u = WorkFields /\ u.pods = t.pods /\ u.collectors = t.collectors /\ u.notified = t.notified
        /\ u.polling = t.polling /\ u.todo = t.todo /\ u.doing = t.doing
    BY <1>4, <1>5, <1>6, <1>7, Zenon DEF Work, WorkFields, OnlyPodWorker
  <2> HIDE DEF u
  <2>2. WorkType(u)
    BY <1>7, <2>1, Zenon DEF WorkType
  <2>3. \A k : Same(u, t, k) /\ Same(t, u, k)
    BY <2>1, Zenon DEF Same
  <2> QED BY <2>2, <2>3, Zenon DEF u
<1>10. st.podWorker.pc = "endpoints" /\ q \in PodNames
  <2>1. s.todo \cup s.doing # {}
    <3>1. PICK o : Loads(s, t, o) \/ Does(s, t, o)
      BY <1>6, StepCases, Zenon
    <3> QED BY <3>1, Zenon DEF Loads, Does
  <2> QED BY <1>1, <1>6, <2>1, Zenon DEF WorkersApart, Finished
<1>11. DatastoreShape' /\ Locked' = Locked
  BY <1>1, <1>4, <1>5, <1>9, <1>10, PodWorkerShape, Zenon
<1>12. \A o \in s.todo \cup s.doing : o.key[1] = q /\ o.op # "free"
  BY <1>1, <1>6, Zenon DEF WorkersApart
<1> HIDE DEF q
<1>13. \A o \in t.todo \cup t.doing : o.key[1] = q /\ o.op # "free"
  BY <1>7, <1>12, Zenon
<1>14. WorkersApart'
  <2>1. Locked => q \in st.raced
    BY <1>1, <1>10, Zenon DEF WorkersApart, q
  <2> QED BY <1>1, <1>4, <1>5, <1>10, <1>11, <1>13, <2>1, PodWorkerApart, Zenon
<1>15. ASSUME NEW k, k[1] # q PROVE Same(s, t, k)
  <2>1. PICK o : Loads(s, t, o) \/ Does(s, t, o)
    BY <1>6, StepCases, Zenon
  <2>2. o \in s.todo \cup s.doing /\ \A j : j # o.key => Same(s, t, j)
    BY <1>6, <1>7, <2>1, StepElsewhere, Zenon
  <2> QED BY <1>12, <1>15, <2>2, Zenon
<1>16. ASSUME NEW p \in PodNames \ st.raced PROVE PodInv(p)'
  <2>1. PodInv(p)
    BY Zenon DEF DatastoreInv
  <2>2. ~Reading(p) /\ ~Reading(p)' /\ PodRead(p)'
    BY <1>5, <1>10, Zenon DEF Reading, PodRead
  <2>3. Steady(p)' => Steady(p)
    BY <1>4, Zenon DEF Steady, OnlyPodWorker
  <2>4. CASE p # q
    <3> SUFFICES ASSUME NEW k \in KeysOf(p) PROVE Same(Now, Now', k)
      BY <1>4, <2>1, <2>2, <2>3, PodInvElsewhere, Zenon DEF OnlyPodWorker
    <3>1. k[1] # q
      BY <2>4, Zenon DEF KeysOf
    <3>2. Same(s, t, k)
      BY <1>15, <3>1, Zenon
    <3>3. CASE Locked
      <4>1. /\ Now = Work(st.poolWorker) /\ Now' = Work(st.poolWorker)'
        BY <1>11, <3>3, Zenon DEF Now
      <4>2. /\ Now.polling = st.polling /\ Now.pods = st.pods /\ Now.collectors = st.collectors
            /\ Now.notified = st.notified /\ Now.todo = st.poolWorker.todo /\ Now.doing = st.poolWorker.doing
        BY <4>1, Zenon DEF Work
      <4>3. /\ Now'.polling = st.polling /\ Now'.pods = t.pods /\ Now'.collectors = t.collectors
            /\ Now'.notified = t.notified /\ Now'.todo = st.poolWorker.todo /\ Now'.doing = st.poolWorker.doing
        BY <1>4, <4>1, Zenon DEF Work, OnlyPodWorker
      <4>4. s.pods = st.pods /\ s.collectors = st.collectors /\ s.notified = st.notified
        BY Zenon DEF s, Work
      <4> QED BY <3>2, <4>2, <4>3, <4>4, Zenon DEF Same
    <3>4. CASE ~Locked
      <4>1. Now = s /\ Now' = Work(st.podWorker)'
        BY <1>11, <3>4, Zenon DEF Now, s
      <4>2. Same(t, Now', k)
        BY <1>9, <4>1, Zenon
      <4> QED BY <3>2, <4>1, <4>2, Zenon DEF Same
    <3> QED BY <3>3, <3>4, Zenon
  <2>5. CASE p = q
    <3>1. ~Locked /\ st.poolWorker.pc = "idle"
      BY <1>1, <1>10, <2>5, Zenon DEF WorkersApart, Locked, q
    <3>2. Now = s /\ Now' = Work(st.podWorker)'
      BY <1>11, <3>1, Zenon DEF Now, s
    <3>3. ASSUME NEW k \in KeysOf(p)
          PROVE  /\ Together(Now', k)
                 /\ \A m : Coming(Now, k, m) => Coming(Now', k, m)
                 /\ Leaving(Now, k) => Leaving(Now', k)
                 /\ Untouched(Now, k) => Untouched(Now', k)
      <4>1. Together(s, k)
        BY <2>1, <3>1, <3>2, Zenon DEF PodInv, PodTogether
      <4>2. /\ Together(t, k)
            /\ \A m : Coming(s, k, m) => Coming(t, k, m)
            /\ Leaving(s, k) => Leaving(t, k)
            /\ Untouched(s, k) => Untouched(t, k)
        BY <1>6, <1>12, <4>1, StepKeeps, Zenon
      <4>3. Same(t, Now', k)
        BY <1>9, <3>2, Zenon
      <4> QED BY <3>2, <4>2, <4>3, SameKeeps, Zenon
    <3> QED BY <1>4, <2>1, <2>2, <2>3, <3>1, <3>3, PodInvAdvances, Zenon DEF OnlyPodWorker
  <2> QED BY <2>4, <2>5, Zenon
<1> QED BY <1>4, <1>11, <1>14, <1>16, Zenon DEF DatastoreInv, OnlyPodWorker

-----------------------------------------------------------------------------
(* The pool worker.                                                        *)

\* The pool worker is in a state of its own; objects and events are as before.
OnlyPoolWorker ==
  /\ DOMAIN st' = DatastoreFields
  /\ st'.api = st.api /\ st'.apiPool = st.apiPool /\ st'.polling = st.polling /\ st'.events = st.events
  /\ st'.queue = st.queue /\ st'.podWorker = st.podWorker

\* The shape of the state when the pool worker moves.
LEMMA PoolWorkerShape ==
  ASSUME DatastoreShape, OnlyPoolWorker, DOMAIN st'.poolWorker = PoolWorkerFields,
         st'.poolWorker.pc \in {"idle", "clear", "resync", "prune"},
         st'.pool \in PoolObjects \cup {Nil}, ~st'.poolQueued => st'.apiPool = st'.pool, st'.raced \subseteq st'.met,
         WorkType(Work(st.poolWorker)')
  PROVE  DatastoreShape'
<1>1. WorkType(Work(st.podWorker)')
  <2>1. WorkType(Work(st.podWorker))
    BY Zenon DEF DatastoreShape
  <2>2. Work(st.podWorker)' = [pods |-> st'.pods, collectors |-> st'.collectors, notified |-> st'.notified,
            polling |-> st'.polling, todo |-> st.podWorker.todo, doing |-> st.podWorker.doing]
    BY Zenon DEF Work, OnlyPoolWorker
  <2>3. DOMAIN st'.pods \subseteq Keys /\ st'.collectors \subseteq Keys /\ st'.notified \subseteq Keys
    BY Zenon DEF Work, WorkType
  <2> QED BY <2>1, <2>2, <2>3, ZenonT(30) DEF Work, WorkType, WorkFields
<1> QED BY <1>1, Zenon DEF DatastoreShape, OnlyPoolWorker

\* The workers stay apart when the pool worker moves.
LEMMA PoolWorkerApart ==
  ASSUME WorkersApart, OnlyPoolWorker,
         st'.poolWorker.pc = "idle" => Finished(st'.poolWorker),
         st'.poolWorker.pc # "clear" => \A o \in st'.poolWorker.todo : o.op # "free",
         st'.poolWorker.pc = "clear" => st'.pool = Nil,
         st'.poolWorker.pc \in {"resync", "prune"} => st'.pool # Nil,
         st'.poolWorker.pc = "resync" =>
           /\ DOMAIN st'.poolWorker.list \subseteq PodNames
           /\ \A o \in st'.poolWorker.todo \cup st'.poolWorker.doing : o.key[1] \notin DOMAIN st'.poolWorker.list,
         Locked' /\ st.podWorker.pc # "idle" => st.podWorker.pod \in st'.raced
  PROVE  WorkersApart'
<1>1. /\ st'.podWorker.pc # "endpoints" => Finished(st'.podWorker)
      /\ st'.podWorker.pc # "idle" => st'.podWorker.pod \in PodNames
      /\ st'.podWorker.pc \in {"match", "update"} => st'.podWorker.object # Nil
      /\ \A o \in st'.podWorker.todo \cup st'.podWorker.doing : o.key[1] = st'.podWorker.pod /\ o.op # "free"
  <2>1. st'.podWorker = st.podWorker
    BY Zenon DEF OnlyPoolWorker
  <2>2. /\ st.podWorker.pc # "endpoints" => Finished(st.podWorker)
        /\ st.podWorker.pc # "idle" => st.podWorker.pod \in PodNames
        /\ st.podWorker.pc \in {"match", "update"} => st.podWorker.object # Nil
        /\ \A o \in st.podWorker.todo \cup st.podWorker.doing : o.key[1] = st.podWorker.pod /\ o.op # "free"
    BY Zenon DEF WorkersApart
  <2> QED BY <2>1, <2>2
<1>2. Locked' /\ st'.podWorker.pc # "idle" => st'.podWorker.pod \in st'.raced
  BY Zenon DEF OnlyPoolWorker
<1> QED BY <1>1, <1>2, Zenon DEF WorkersApart, Finished

\* What PodRead and Steady say is not about the pool worker.
LEMMA PodReadKept ==
  ASSUME OnlyPoolWorker, st'.pool = st.pool, NEW p
  PROVE  /\ PodRead(p) => PodRead(p)'
         /\ Steady(p)' => Steady(p)
         /\ Reading(p)' <=> Reading(p)
         /\ Wanted(p, st'.api[p], st'.pool) = Wanted(p, st.api[p], st.pool)
<1>1. Steady(p)' <=> Steady(p)
  BY Zenon DEF Steady, OnlyPoolWorker
<1>2. Reading(p)' <=> Reading(p)
  BY Zenon DEF Reading, OnlyPoolWorker
<1>3. Wanted(p, st'.api[p], st'.pool) = Wanted(p, st.api[p], st.pool)
  BY Zenon DEF OnlyPoolWorker
<1>4. PodRead(p) => PodRead(p)'
  BY <1>1, Zenon DEF PodRead, OnlyPoolWorker
<1> QED BY <1>1, <1>2, <1>3, <1>4, Zenon

\* When the lock is held, the pod worker has nothing to do with a pod that is
\* not raced.
LEMMA PodWorkerElsewhere ==
  ASSUME WorkersApart, NEW p, st.podWorker.pc = "idle" \/ st.podWorker.pod # p
  PROVE  \A k \in KeysOf(p) : Untouched(Work(st.podWorker), k)
<1> SUFFICES ASSUME NEW k \in KeysOf(p), NEW o \in st.podWorker.todo \cup st.podWorker.doing, o.key = k
             PROVE  FALSE
  BY Zenon DEF Untouched, Work
<1>1. k[1] = p
  BY Zenon DEF KeysOf
<1>2. CASE st.podWorker.pc = "idle"
  BY <1>2, Zenon DEF WorkersApart, Finished
<1>3. CASE st.podWorker.pod # p
  BY <1>1, <1>3, Zenon DEF WorkersApart
<1> QED BY <1>2, <1>3, Zenon

\* Taking the lock: a pod that is in nobody's hands and not raced from now on
\* has endpoints and collectors that agree; the others were raced before.
LEMMA LockTaken ==
  ASSUME DatastoreInv, ~Locked
  PROVE  /\ Met.raced \subseteq Met.met
         /\ st.podWorker.pc # "idle" => st.podWorker.pod \in Met.raced
         /\ \A p \in PodNames \ Met.raced :
              /\ st.podWorker.pc = "idle" \/ st.podWorker.pod # p
              /\ \A k \in KeysOf(p) : Untouched(Work(st.poolWorker), k) /\ Together(Work(st.poolWorker), k)
<1>1. DatastoreShape /\ WorkersApart
  BY Zenon DEF DatastoreInv
<1>2. st.poolWorker.pc = "idle" /\ Now = Work(st.podWorker)
  BY Zenon DEF Locked, Now
<1>3. Met.raced = InReconcile \cup {p \in PodNames : ~InStep(p)} /\ Met.met = st.met \cup InReconcile
  BY Zenon DEF Met
<1>4. DOMAIN st.pods \subseteq Keys /\ st.collectors \subseteq Keys /\ st.notified \subseteq Keys
  BY <1>1, Zenon DEF DatastoreShape, WorkType, Work
<1>5. /\ st.podWorker.pc # "idle" => InReconcile = {st.podWorker.pod}
      /\ st.podWorker.pc = "idle" => InReconcile = {}
  BY Zenon DEF InReconcile
<1>6. ASSUME NEW p \in PodNames, p \notin InReconcile, p \notin st.met PROVE InStep(p)
  <2>1. PodInv(p)
    BY <1>1, <1>6, Zenon DEF DatastoreInv, DatastoreShape
  <2>2. \A k \in KeysOf(p) : Together(Work(st.podWorker), k)
    BY <1>2, <2>1, Zenon DEF PodInv, PodTogether
  <2>3. \A k \in KeysOf(p) : Untouched(Work(st.podWorker), k)
    BY <1>1, <1>5, <1>6, PodWorkerElsewhere, Zenon
  <2> DEFINE s == Work(st.podWorker)
  <2>4. s.pods = st.pods /\ s.collectors = st.collectors /\ s.notified = st.notified /\ s.polling = st.polling
    BY Zenon DEF Work
  <2> HIDE DEF s
  <2> QED BY <1>4, <2>2, <2>3, <2>4, InStepTogether, Zenon DEF s
<1>7. ASSUME NEW p \in PodNames \ Met.raced, NEW k \in KeysOf(p)
      PROVE  Untouched(Work(st.poolWorker), k) /\ Together(Work(st.poolWorker), k)
  <2>1. \A j : Untouched(Work(st.poolWorker), j)
    BY <1>1, <1>2, Zenon DEF WorkersApart, Finished, Untouched, Work
  <2>2. InStep(p)
    BY <1>3, <1>7, Zenon
  <2> DEFINE s == Work(st.poolWorker)
  <2>3. s.pods = st.pods /\ s.collectors = st.collectors /\ s.notified = st.notified /\ s.polling = st.polling
    BY Zenon DEF Work
  <2> HIDE DEF s
  <2>4. Together(s, k)
    BY <1>4, <2>1, <2>2, <2>3, InStepTogether, Zenon DEF s
  <2> QED BY <2>1, <2>4, Zenon DEF s
<1>8. Met.raced \subseteq Met.met
  BY <1>3, <1>6, Zenon
<1> QED BY <1>3, <1>5, <1>7, <1>8, Zenon

\* The pool is gone: Clear begins to release the endpoints.
LEMMA ClearKeeps ==
  ASSUME DatastoreInv, part' = part, ~Locked, st.apiPool = Nil, Clear
  PROVE  DatastoreInv'
<1>1. DatastoreShape /\ WorkersApart /\ DOMAIN st = DatastoreFields
  BY Zenon DEF DatastoreInv, DatastoreShape
<1>2. st' = [st EXCEPT !.poolQueued = FALSE, !.pool = Nil, !.unlisted = FALSE,
                       !.raced = Met.raced, !.met = Met.met,
                       !.poolWorker = [PoolIdle EXCEPT !.pc = "clear", !.todo = rangeOps("free", DOMAIN st.pods)]]
  BY Zenon DEF Clear
<1>3. /\ OnlyPoolWorker /\ st'.poolQueued = FALSE /\ st'.pool = Nil /\ st'.raced = Met.raced /\ st'.met = Met.met
      /\ st'.poolWorker = [PoolIdle EXCEPT !.pc = "clear", !.todo = rangeOps("free", DOMAIN st.pods)]
      /\ st'.pods = st.pods /\ st'.collectors = st.collectors /\ st'.notified = st.notified
  BY <1>1, <1>2, Zenon DEF DatastoreFields, OnlyPoolWorker
<1>4. /\ DOMAIN st'.poolWorker = PoolWorkerFields /\ st'.poolWorker.pc = "clear"
      /\ st'.poolWorker.todo = rangeOps("free", DOMAIN st.pods) /\ st'.poolWorker.doing = {}
  BY <1>3, Zenon DEF PoolIdle, PoolWorkerFields
<1> DEFINE s == Work(st.poolWorker)
           t == Work(st.poolWorker)'
<1>5. /\ WorkType(s) /\ s.todo = {} /\ s.doing = {} /\ s.pods = st.pods
      /\ DOMAIN t = WorkFields /\ t.pods = s.pods /\ t.collectors = s.collectors /\ t.notified = s.notified
      /\ t.polling = s.polling /\ t.doing = {} /\ t.todo = rangeOps("free", DOMAIN s.pods)
  BY <1>1, <1>3, <1>4, Zenon DEF Work, WorkFields, DatastoreShape, WorkersApart, Locked, Finished, OnlyPoolWorker
<1>6. t = Now'
  BY <1>4, Zenon DEF Now, Locked
<1> HIDE DEF s, t
<1>7. /\ WorkType(t)
      /\ \A k : k \notin DOMAIN s.pods => Same(s, t, k)
      /\ \A k \in DOMAIN s.pods : ~Untouched(t, k)
      /\ \A o \in t.todo : o.op = "free" /\ o.key \in DOMAIN s.pods
  BY <1>5, GiveRange, SMTT(30)
<1>8. /\ Met.raced \subseteq Met.met
      /\ st.podWorker.pc # "idle" => st.podWorker.pod \in Met.raced
      /\ \A p \in PodNames \ Met.raced :
           /\ st.podWorker.pc = "idle" \/ st.podWorker.pod # p
           /\ \A k \in KeysOf(p) : Untouched(s, k) /\ Together(s, k)
  BY LockTaken, Zenon DEF s
<1>9. DatastoreShape'
  BY <1>1, <1>3, <1>4, <1>7, <1>8, PoolWorkerShape, Zenon DEF OnlyPoolWorker, t
<1>10. WorkersApart'
  BY <1>1, <1>3, <1>4, <1>8, PoolWorkerApart, Zenon
<1>11. ASSUME NEW p \in PodNames \ st'.raced PROVE PodInv(p)'
  <2>1. ASSUME NEW k \in KeysOf(p) PROVE Freeing(t, k)
    <3>1. Untouched(s, k) /\ Together(s, k)
      BY <1>3, <1>8, <2>1, Zenon
    <3>2. s.polling => (k \in s.collectors <=> k \in s.notified) /\ (k \in s.collectors <=> k \in DOMAIN s.pods)
      BY <1>5, <3>1, Zenon DEF Together
    <3>3. k \in DOMAIN s.pods <=> ~Untouched(t, k)
      <4>1. k \notin DOMAIN s.pods => Untouched(t, k)
        BY <1>5, <1>7, Zenon DEF Untouched
      <4> QED BY <1>7, <4>1, Zenon
    <3> QED BY <1>5, <1>7, <3>2, <3>3, Zenon DEF Freeing
  <2>2. PodTogether(p)'
    BY <1>4, <1>6, <2>1, Zenon DEF PodTogether
  <2>3. Wanted(p, st'.api[p], st'.pool) = <<>>
    BY <1>3, Zenon DEF Wanted
  <2>4. PodSettled(p)'
    BY <1>4, <2>3 DEF PodSettled, Achieves
  <2>5. PodRead(p)'
    BY <1>3, <1>8, Zenon DEF PodRead, OnlyPoolWorker
  <2>6. RanksOnly(p)' /\ Resyncing(p)'
    BY <1>4, Zenon DEF RanksOnly, Resyncing
  <2> QED BY <2>2, <2>4, <2>5, <2>6, Zenon DEF PodInv
<1> QED BY <1>9, <1>10, <1>11, Zenon DEF DatastoreInv

\* The selector or the ports have changed: PoolSet lists the pods.
LEMMA ResyncKeeps ==
  ASSUME DatastoreInv, part' = part, ~Locked, NEW pool \in PoolObjects, pool # Nil, pool = st.apiPool,
         NEW list, DOMAIN list = Listed(pool), \A p \in Listed(pool) : list[p] = st.api[p],
         OnlyPoolWorker, st'.poolQueued = FALSE, st'.pool = pool, st'.raced = Met.raced, st'.met = Met.met,
         st'.pods = st.pods, st'.collectors = st.collectors, st'.notified = st.notified,
         st'.poolWorker = [PoolIdle EXCEPT !.pc = "resync", !.list = list]
  PROVE  DatastoreInv'
<1>1. DatastoreShape /\ WorkersApart /\ DOMAIN st = DatastoreFields
  BY Zenon DEF DatastoreInv, DatastoreShape
<1>2. /\ OnlyPoolWorker /\ st'.poolQueued = FALSE /\ st'.pool = pool /\ st'.raced = Met.raced /\ st'.met = Met.met
      /\ st'.pods = st.pods /\ st'.collectors = st.collectors /\ st'.notified = st.notified
  BY Zenon
<1>3. /\ DOMAIN st'.poolWorker = PoolWorkerFields /\ st'.poolWorker.pc = "resync" /\ st'.poolWorker.keep = {}
      /\ st'.poolWorker.todo = {} /\ st'.poolWorker.doing = {}
      /\ st'.poolWorker.list = list
  BY Zenon DEF PoolIdle, PoolWorkerFields
<1>4. /\ DOMAIN st'.poolWorker.list = Listed(pool) /\ \A p \in Listed(pool) : st'.poolWorker.list[p] = st.api[p]
  BY <1>3, Zenon
<1>5. \A p : p \in Listed(pool) <=>
        p \in PodNames /\ st.api[p] # Nil /\ st.api[p].label = pool.selector /\ IsPodReady(st.api[p])
  BY Zenon DEF Listed
<1>6. Work(st.poolWorker)' = Work(st.poolWorker)
  BY <1>1, <1>2, <1>3, Zenon DEF Work, WorkersApart, Locked, Finished, OnlyPoolWorker
<1>7. Now' = Work(st.poolWorker)
  BY <1>3, <1>6, Zenon DEF Now, Locked
<1>8. /\ Met.raced \subseteq Met.met
      /\ st.podWorker.pc # "idle" => st.podWorker.pod \in Met.raced
      /\ \A p \in PodNames \ Met.raced :
           /\ st.podWorker.pc = "idle" \/ st.podWorker.pod # p
           /\ \A k \in KeysOf(p) : Untouched(Now', k) /\ Together(Now', k)
  BY <1>7, LockTaken, Zenon
<1>9. DatastoreShape'
  <2>1. WorkType(Work(st.poolWorker)')
    BY <1>1, <1>6, Zenon DEF DatastoreShape
  <2> QED BY <1>1, <1>2, <1>3, <1>8, <2>1, PoolWorkerShape, Zenon DEF OnlyPoolWorker
<1>10. WorkersApart'
  BY <1>1, <1>2, <1>3, <1>4, <1>5, <1>8, PoolWorkerApart, Zenon
<1>11. ASSUME NEW p \in PodNames \ st'.raced PROVE PodInv(p)'
  <2>1. \A k \in KeysOf(p) : Untouched(Now', k) /\ Together(Now', k)
    BY <1>2, <1>8, Zenon
  <2>2. PodTogether(p)'
    BY <1>3, <2>1, Zenon DEF PodTogether
  <2>3. PodSettled(p)'
    <3>1. CASE p \in Listed(pool)
      <4>1. p \in DOMAIN st'.poolWorker.list /\ st'.poolWorker.list[p] = st'.api[p]
        BY <1>2, <1>4, <3>1, Zenon DEF OnlyPoolWorker
      <4> QED BY <1>3, <4>1, Zenon DEF PodSettled
    <3>2. CASE p \notin Listed(pool)
      <4>1. Wanted(p, st.api[p], pool) = <<>>
        BY <1>5, <3>2, Zenon DEF Wanted, Matches
      <4>2. Wanted(p, st'.api[p], st'.pool) = <<>>
        BY <1>2, <4>1, Zenon DEF OnlyPoolWorker
      <4>3. Achieves(p, <<>>)'
        <5>1. \A k : k \notin st'.poolWorker.keep
          BY <1>3, Zenon
        <5>2. DOMAIN <<>> = {}
          OBVIOUS
        <5> QED BY <1>3, <5>1, <5>2, Zenon DEF Achieves
      <4> QED BY <1>4, <3>2, <4>2, <4>3, Zenon DEF PodSettled
    <3> QED BY <3>1, <3>2, Zenon
  <2>4. PodRead(p)'
    BY <1>2, <1>8, Zenon DEF PodRead, OnlyPoolWorker
  <2>5. RanksOnly(p)'
    BY <1>3, Zenon DEF RanksOnly
  <2>6. Resyncing(p)'
    BY <1>2, <1>3, <1>4, <1>5, <2>1 DEF Resyncing, Matches
  <2> QED BY <2>2, <2>3, <2>4, <2>5, <2>6, Zenon DEF PodInv
<1> QED BY <1>9, <1>10, <1>11, Zenon DEF DatastoreInv

\* The pods could not be listed.
LEMMA UnlistedKeeps ==
  ASSUME DatastoreInv, part' = part, ~Locked, st.poolQueued, NEW pool \in PoolObjects, pool # Nil,
         st' = [st EXCEPT !.pool = pool, !.unlisted = TRUE]
  PROVE  DatastoreInv'
<1>1. DatastoreShape /\ WorkersApart /\ DOMAIN st = DatastoreFields
  BY Zenon DEF DatastoreInv, DatastoreShape
<1>2. /\ OnlyPoolWorker /\ st'.poolQueued = st.poolQueued /\ st'.pool = pool /\ st'.raced = st.raced /\ st'.met = st.met
      /\ st'.unlisted = TRUE /\ st'.poolWorker = st.poolWorker
      /\ st'.pods = st.pods /\ st'.collectors = st.collectors /\ st'.notified = st.notified
  BY <1>1, Zenon DEF DatastoreFields, OnlyPoolWorker
<1>3. /\ Work(st.poolWorker)' = Work(st.poolWorker) /\ Now' = Now /\ ~Locked' /\ st.poolWorker.pc = "idle"
  BY <1>2, Zenon DEF Work, Now, Locked, OnlyPoolWorker
<1>4. DatastoreShape'
  BY <1>1, <1>2, <1>3, PoolWorkerShape, Zenon DEF DatastoreShape
<1>5. WorkersApart'
  BY <1>1, <1>2, <1>3, PoolWorkerApart, Zenon DEF WorkersApart
<1>6. ASSUME NEW p \in PodNames \ st.raced PROVE PodInv(p)'
  BY <1>2, <1>3, Zenon DEF DatastoreInv, PodInv, PodTogether
<1> QED BY <1>2, <1>4, <1>5, <1>6, Zenon DEF DatastoreInv

\* Nothing of the pool has changed.
LEMMA SamePoolKeeps ==
  ASSUME DatastoreInv, part' = part, NEW pool \in PoolObjects, pool = st.apiPool, ~needsResync(st.pool, pool),
         st' = [st EXCEPT !.poolQueued = FALSE, !.pool = pool]
  PROVE  DatastoreInv'
<1>1. DatastoreShape /\ WorkersApart /\ DOMAIN st = DatastoreFields
  BY Zenon DEF DatastoreInv, DatastoreShape
<1>2. st.pool = pool
  <2>1. st.pool # Nil /\ st.pool.selector = pool.selector /\ st.pool.targetPorts = pool.targetPorts
    BY Zenon DEF needsResync, selectorChanged, targetPortsChanged
  <2>2. st.pool \in PoolObjects
    BY <1>1, <2>1, Zenon DEF DatastoreShape
  <2> QED BY <2>1, <2>2, PoolAssumption, Zenon
<1>3. /\ DOMAIN st' = DatastoreFields /\ SameWork /\ st'.api = st.api /\ st'.events = st.events
      /\ st'.apiPool = st.apiPool /\ st'.queue = st.queue /\ st'.pool = st'.apiPool
      /\ st'.unlisted = st.unlisted /\ st'.raced = st.raced /\ st'.met = st.met
  BY <1>1, <1>2, Zenon DEF DatastoreFields, SameWork
<1>4. DatastoreShape'
  BY <1>1, <1>3, SameWorkNow, Zenon DEF DatastoreShape, SameWork
<1>5. WorkersApart'
  BY <1>1, <1>3, WorkersKept, Zenon
<1>6. ASSUME NEW p \in PodNames \ st.raced PROVE PodInv(p)'
  <2>1. PodInv(p)
    BY Zenon DEF DatastoreInv
  <2>2. st'.pool = st.pool
    BY <1>3, Zenon DEF SameWork
  <2>3. Steady(p)' => Steady(p)
    BY <1>3, <2>2, Zenon DEF Steady
  <2>4. Wanted(p, st'.api[p], st'.pool) = Wanted(p, st.api[p], st.pool)
    BY <1>3, <2>2, Zenon
  <2> QED BY <1>3, <2>1, <2>3, <2>4, PodInvKept, Zenon
<1> QED BY <1>3, <1>4, <1>5, <1>6, Zenon DEF DatastoreInv

\* The pool is reconciled: Clear, or one of the three ends of PoolSet.
LEMMA PoolReconcileKeeps ==
  ASSUME DatastoreInv, part' = part, PoolReconcile
  PROVE  DatastoreInv'
<1>1. st.poolQueued /\ ~Locked /\ IF st.apiPool = Nil THEN Clear ELSE PoolSet(st.apiPool)
  BY Zenon DEF PoolReconcile
<1>2. CASE st.apiPool = Nil
  BY <1>1, <1>2, ClearKeeps, Zenon
<1>3. CASE st.apiPool # Nil
  <2>1. st.apiPool \in PoolObjects
    BY <1>3, Zenon DEF DatastoreInv, DatastoreShape
  <2>2. PoolSet(st.apiPool)
    BY <1>1, <1>3, Zenon
  <2>3. CASE needsResync(st.pool, st.apiPool)
    <3> DEFINE list == [p \in Listed(st.apiPool) |-> st.api[p]]
    <3>1. CASE st' = [st EXCEPT !.poolQueued = FALSE, !.pool = st.apiPool, !.unlisted = FALSE,
                                !.raced = Met.raced, !.met = Met.met,
                                !.poolWorker = [PoolIdle EXCEPT !.pc = "resync", !.list = list]]
      <4>1. DOMAIN list = Listed(st.apiPool) /\ \A p \in Listed(st.apiPool) : list[p] = st.api[p]
        BY Zenon
      <4> HIDE DEF list
      <4>2. DOMAIN st = DatastoreFields
        BY Zenon DEF DatastoreInv, DatastoreShape
      <4>3. /\ OnlyPoolWorker /\ st'.poolQueued = FALSE /\ st'.pool = st.apiPool
            /\ st'.raced = Met.raced /\ st'.met = Met.met
            /\ st'.pods = st.pods /\ st'.collectors = st.collectors /\ st'.notified = st.notified
            /\ st'.poolWorker = [PoolIdle EXCEPT !.pc = "resync", !.list = list]
        BY <3>1, <4>2, Zenon DEF DatastoreFields, OnlyPoolWorker
      <4> QED BY <1>1, <1>3, <2>1, <4>1, <4>3, ResyncKeeps, ZenonT(30)
    <3>2. CASE st' = [st EXCEPT !.pool = st.apiPool, !.unlisted = TRUE]
      BY <1>1, <1>3, <2>1, <3>2, UnlistedKeeps, Zenon
    <3> QED BY <2>2, <2>3, <3>1, <3>2, Zenon DEF PoolSet
  <2>4. CASE ~needsResync(st.pool, st.apiPool)
    BY <2>1, <2>2, <2>4, SamePoolKeeps, Zenon DEF PoolSet
  <2> QED BY <2>3, <2>4, Zenon
<1> QED BY <1>2, <1>3, Zenon

\* A step of the pool worker under the lock that gives it its next work.
OnlyPoolStage ==
  /\ OnlyPoolWorker /\ st'.poolQueued = st.poolQueued /\ st'.pool = st.pool /\ st'.unlisted = st.unlisted
  /\ st'.raced = st.raced /\ st'.met = st.met /\ st'.collectors = st.collectors /\ st'.notified = st.notified

\* Only the pool worker is assigned.
LEMMA AssignsPoolWorker ==
  ASSUME DatastoreInv, NEW w, st' = [st EXCEPT !.poolWorker = w]
  PROVE  OnlyPoolStage /\ st'.pods = st.pods /\ st'.poolWorker = w
<1>1. DOMAIN st = DatastoreFields
  BY Zenon DEF DatastoreInv, DatastoreShape
<1> QED BY <1>1, Zenon DEF DatastoreFields, OnlyPoolStage, OnlyPoolWorker

\* While the lock is held a pod that is not raced is not the pod worker's.
LEMMA LockedOut ==
  ASSUME WorkersApart, Locked, NEW p \in PodNames \ st.raced
  PROVE  st.podWorker.pc = "idle" \/ st.podWorker.pod # p
BY Zenon DEF WorkersApart

\* The pod worker then holds nothing of that pod.
LEMMA LockedOutReads ==
  ASSUME OnlyPoolWorker, NEW p, st.podWorker.pc = "idle" \/ st.podWorker.pod # p
  PROVE  PodRead(p)'
BY Zenon DEF PodRead, OnlyPoolWorker

\* The pool worker releases the lock: the work on p is then the pod worker's,
\* which has none.
LEMMA Released ==
  ASSUME DatastoreInv, Locked, OnlyPoolStage, st'.poolWorker = PoolIdle, NEW p \in PodNames \ st.raced
  PROVE  \A k \in KeysOf(p) : Untouched(Now', k)
<1>1. WorkersApart
  BY Zenon DEF DatastoreInv
<1>2. Now' = Work(st.podWorker)'
  BY SMTT(30) DEF Now, Locked, PoolIdle
<1>3. Now'.todo = st.podWorker.todo /\ Now'.doing = st.podWorker.doing
  BY <1>2, Zenon DEF Work, OnlyPoolStage, OnlyPoolWorker
<1>4. \A k \in KeysOf(p) : Untouched(Work(st.podWorker), k)
  BY <1>1, LockedOut, PodWorkerElsewhere, Zenon
<1> QED BY <1>3, <1>4, Zenon DEF Untouched, Work

\* The shape of the state when the pool worker is done.
LEMMA IdleShape ==
  ASSUME DatastoreInv, OnlyPoolStage, st'.poolWorker = PoolIdle, DOMAIN st'.pods \subseteq Keys
  PROVE  DatastoreShape' /\ WorkersApart' /\ ~Locked'
<1>1. DatastoreShape /\ WorkersApart
  BY Zenon DEF DatastoreInv
<1>2. /\ DOMAIN st'.poolWorker = PoolWorkerFields /\ st'.poolWorker.pc = "idle" /\ st'.poolWorker.todo = {}
      /\ st'.poolWorker.doing = {}
  BY DEF PoolIdle, PoolWorkerFields
<1>3. WorkType(Work(st.poolWorker)')
  <2> DEFINE t == Work(st.poolWorker)'
  <2>1. /\ DOMAIN t = WorkFields /\ t.pods = st'.pods /\ t.collectors = st.collectors /\ t.notified = st.notified
        /\ t.todo = {} /\ t.doing = {}
    BY <1>2, Zenon DEF Work, WorkFields, OnlyPoolStage
  <2>2. st.collectors \subseteq Keys /\ st.notified \subseteq Keys
    BY <1>1, Zenon DEF DatastoreShape, WorkType, Work
  <2> HIDE DEF t
  <2>3. WorkType(t)
    BY <2>1, <2>2, Zenon DEF WorkType
  <2> QED BY <2>3, Zenon DEF t
<1>4. OnlyPoolWorker /\ st'.pool = st.pool /\ st'.poolQueued = st.poolQueued /\ st'.raced = st.raced /\ st'.met = st.met
  BY Zenon DEF OnlyPoolStage
<1>5. st'.pool \in PoolObjects \cup {Nil} /\ (~st'.poolQueued => st'.apiPool = st'.pool) /\ st'.raced \subseteq st'.met
  BY <1>1, <1>4, Zenon DEF DatastoreShape, OnlyPoolWorker
<1>6. DatastoreShape'
  BY <1>1, <1>2, <1>3, <1>4, <1>5, PoolWorkerShape, Zenon
<1>7. ~Locked'
  BY <1>2, Zenon DEF Locked
<1>8. Finished(st'.poolWorker)
  BY <1>2, Zenon DEF Finished
<1>9. WorkersApart'
  BY <1>1, <1>2, <1>4, <1>7, <1>8, PoolWorkerApart, Zenon
<1> QED BY <1>6, <1>7, <1>9, Zenon

\* Clear empties the map.
LEMMA ClearedKeeps ==
  ASSUME DatastoreInv, part' = part, Cleared
  PROVE  DatastoreInv'
<1>1. DatastoreShape /\ WorkersApart /\ DOMAIN st = DatastoreFields
  BY Zenon DEF DatastoreInv, DatastoreShape
<1>2. st.poolWorker.pc = "clear" /\ Finished(st.poolWorker) /\ Locked
  BY Zenon DEF Cleared, Locked
<1>3. st' = [st EXCEPT !.pods = <<>>, !.poolWorker = PoolIdle]
  BY Zenon DEF Cleared
<1>4. OnlyPoolStage /\ st'.pods = <<>> /\ st'.poolWorker = PoolIdle
  BY <1>1, <1>3, Zenon DEF DatastoreFields, OnlyPoolStage, OnlyPoolWorker
<1>5. DOMAIN st'.pods = {}
  BY <1>4
<1>6. DatastoreShape' /\ WorkersApart' /\ ~Locked'
  BY <1>4, <1>5, IdleShape, Zenon
<1>7. st'.poolWorker.pc = "idle" /\ st'.pool = Nil
  BY <1>1, <1>2, <1>4, SMTT(30) DEF PoolIdle, OnlyPoolStage, WorkersApart
<1>8. /\ Now' = Work(st.podWorker)' /\ Now'.pods = st'.pods /\ Now'.collectors = st.collectors
      /\ Now'.notified = st.notified
  <2>1. Now' = Work(st.podWorker)'
    BY <1>6, Zenon DEF Now
  <2> QED BY <1>4, <2>1, Zenon DEF Work, OnlyPoolStage
<1>9. /\ Now = Work(st.poolWorker) /\ Now.collectors = st.collectors /\ Now.notified = st.notified
      /\ Now.todo = {} /\ Now.doing = {} /\ Now.polling = st.polling
  BY <1>2, Zenon DEF Now, Work, Finished
<1>10. Now'.polling = st.polling
  BY <1>4, <1>8, Zenon DEF Work, OnlyPoolStage, OnlyPoolWorker
<1>11. ASSUME NEW p \in PodNames \ st.raced PROVE PodInv(p)'
  <2>1. \A k \in KeysOf(p) : Untouched(Now', k)
    BY <1>2, <1>4, Released, Zenon
  <2>2. ASSUME NEW k \in KeysOf(p) PROVE Together(Now', k) /\ Leaving(Now', k)
    <3>1. Freeing(Now, k)
      BY <1>2, <2>2, Zenon DEF DatastoreInv, PodInv, PodTogether
    <3>2. st.polling => k \notin st.collectors /\ k \notin st.notified
      BY <1>9, <3>1, Zenon DEF Freeing, Untouched
    <3>3. k \notin DOMAIN Now'.pods /\ Untouched(Now', k)
      BY <1>5, <1>8, <2>1, <2>2, Zenon
    <3>4. Leaving(Now', k)
      BY <3>3, Zenon DEF Leaving
    <3>5. Together(Now', k)
      BY <1>8, <1>10, <3>2, <3>3, Zenon DEF Together, Untouched
    <3> QED BY <3>4, <3>5, Zenon
  <2>3. PodTogether(p)'
    BY <1>7, <2>2, Zenon DEF PodTogether
  <2>4. PodSettled(p)'
    <3>1. Wanted(p, st'.api[p], st'.pool) = <<>>
      BY <1>7, Zenon DEF Wanted
    <3>2. Achieves(p, <<>>)'
      BY <2>2 DEF Achieves
    <3> QED BY <1>7, <3>1, <3>2, Zenon DEF PodSettled
  <2>5. PodRead(p)'
    BY <1>1, <1>2, <1>4, LockedOut, LockedOutReads, Zenon DEF OnlyPoolStage
  <2>6. RanksOnly(p)' /\ Resyncing(p)'
    BY <1>7, <2>2, Zenon DEF RanksOnly, Resyncing
  <2> QED BY <2>3, <2>4, <2>5, <2>6, Zenon DEF PodInv
<1> QED BY <1>4, <1>6, <1>11, Zenon DEF DatastoreInv, OnlyPoolStage

\* The pool worker is done.
LEMMA PoolReconciledKeeps ==
  ASSUME DatastoreInv, part' = part, PoolReconciled
  PROVE  DatastoreInv'
<1>1. DatastoreShape /\ WorkersApart
  BY Zenon DEF DatastoreInv
<1>2. st.poolWorker.pc = "prune" /\ Finished(st.poolWorker) /\ Locked
  BY Zenon DEF PoolReconciled, Locked
<1>3. st' = [st EXCEPT !.poolWorker = PoolIdle]
  BY Zenon DEF PoolReconciled
<1>4. OnlyPoolStage /\ st'.pods = st.pods /\ st'.poolWorker = PoolIdle
  BY <1>3, AssignsPoolWorker, Zenon
<1>5. DOMAIN st.pods \subseteq Keys
  BY <1>1, Zenon DEF DatastoreShape, WorkType, Work
<1>6. DatastoreShape' /\ WorkersApart' /\ ~Locked'
  BY <1>4, <1>5, IdleShape, Zenon
<1>7. st'.poolWorker.pc = "idle" /\ st'.pool = st.pool /\ Ranks' = Ranks
  BY <1>4, SMTT(30) DEF PoolIdle, OnlyPoolStage, Ranks
<1>8. /\ Now.collectors = st.collectors /\ Now.notified = st.notified
      /\ Now.todo = {} /\ Now.doing = {} /\ Now.polling = st.polling /\ Now.pods = st.pods
  BY <1>2, Zenon DEF Now, Work, Finished
<1>9. /\ Now'.collectors = st.collectors /\ Now'.notified = st.notified /\ Now'.polling = st.polling
      /\ Now'.pods = st.pods
  BY <1>4, Zenon DEF Now, Work, OnlyPoolStage, OnlyPoolWorker
<1>10. ASSUME NEW p \in PodNames \ st.raced PROVE PodInv(p)'
  <2>1. PodInv(p)
    BY Zenon DEF DatastoreInv
  <2>2. ASSUME NEW k \in KeysOf(p) PROVE Same(Now, Now', k)
    <3>1. Untouched(Now', k)
      BY <1>2, <1>4, <2>2, Released, Zenon
    <3> QED BY <1>8, <1>9, <3>1, Zenon DEF Same, Untouched
  <2>3. PodTogether(p)'
    <3>1. \A k \in KeysOf(p) : Together(Now, k)
      BY <1>2, <2>1, Zenon DEF PodInv, PodTogether
    <3>2. \A k \in KeysOf(p) : Together(Now', k)
      BY <2>2, <3>1, SameKeeps, Zenon
    <3> QED BY <1>7, <3>2, Zenon DEF PodTogether
  <2>4. ASSUME PodSettled(p) PROVE PodSettled(p)'
    <3> DEFINE W == Wanted(p, st.api[p], st.pool)
    <3>1. (Steady(p)' => Steady(p)) /\ (Reading(p)' <=> Reading(p)) /\ Wanted(p, st'.api[p], st'.pool) = W
      BY <1>4, <1>7, PodReadKept, Zenon DEF OnlyPoolStage
    <3> HIDE DEF W
    <3>2. ASSUME Achieves(p, W) PROVE Achieves(p, W)'
      <4>1. \A k \in KeysOf(p) : IF k \in DOMAIN W THEN Coming(Now, k, W[k]) ELSE Leaving(Now, k)
        BY <1>2, <3>2, Zenon DEF Achieves
      <4>2. \A k \in KeysOf(p) : IF k \in DOMAIN W THEN Coming(Now', k, W[k]) ELSE Leaving(Now', k)
        BY <2>2, <4>1, SameKeeps, Zenon
      <4>3. W' = W
        BY <3>1, Zenon DEF W
      <4> QED BY <1>7, <4>2, <4>3, Zenon DEF Achieves
    <3>3. Steady(p) /\ ~Reading(p) => Achieves(p, W)
      BY <1>2, <2>4, Zenon DEF PodSettled, W
    <3>4. Steady(p)' /\ ~Reading(p)' => Achieves(p, Wanted(p, st.api[p], st.pool))'
      BY <3>1, <3>2, <3>3, Zenon DEF W
    <3> QED BY <1>7, <3>4, Zenon DEF PodSettled
  <2>5. PodRead(p)'
    BY <1>1, <1>2, <1>4, LockedOut, LockedOutReads, Zenon DEF OnlyPoolStage
  <2>6. RanksOnly(p) => RanksOnly(p)'
    <3>1. RanksOnly(p) => \A k \in KeysOf(p) : k[2] \notin Ranks => Leaving(Now, k)
      BY <1>2, Zenon DEF RanksOnly
    <3>2. RanksOnly(p) => \A k \in KeysOf(p) : k[2] \notin Ranks => Leaving(Now', k)
      BY <2>2, <3>1, SameKeeps, Zenon
    <3> QED BY <1>7, <3>2, Zenon DEF RanksOnly
  <2>7. Resyncing(p)'
    BY <1>7, Zenon DEF Resyncing
  <2>8. st'.unlisted = st.unlisted
    BY <1>4, Zenon DEF OnlyPoolStage
  <2> QED BY <2>1, <2>3, <2>4, <2>5, <2>6, <2>7, <2>8, Zenon DEF PodInv
<1> QED BY <1>4, <1>6, <1>10, Zenon DEF DatastoreInv, OnlyPoolStage

\* podResyncAll updates the next listed pod.
LEMMA podResyncAllKeeps ==
  ASSUME DatastoreInv, part' = part, podResyncAll
  PROVE  DatastoreInv'
<1> DEFINE w == st.poolWorker
           s == Work(st.poolWorker)
           t == Work(st.poolWorker)'
<1>1. DatastoreShape /\ WorkersApart /\ DOMAIN st = DatastoreFields
  BY Zenon DEF DatastoreInv, DatastoreShape
<1>2. w.pc = "resync" /\ Finished(w) /\ Locked
  BY Zenon DEF podResyncAll, Locked
<1>3. PICK q \in DOMAIN w.list :
        st' = [st EXCEPT !.poolWorker =
                 [PoolIdle EXCEPT !.pc = "resync", !.list = Without(w.list, {q}),
                     !.keep = w.keep \cup {Endpoint(q, i) : i \in DOMAIN st.pool.targetPorts},
                     !.todo = updateOps(q, w.list[q], st.pool)]]
  BY Zenon DEF podResyncAll
<1>4. /\ OnlyPoolStage /\ st'.pods = st.pods
      /\ st'.poolWorker = [PoolIdle EXCEPT !.pc = "resync", !.list = Without(w.list, {q}),
                              !.keep = w.keep \cup {Endpoint(q, i) : i \in DOMAIN st.pool.targetPorts},
                              !.todo = updateOps(q, w.list[q], st.pool)]
  BY <1>3, AssignsPoolWorker, Zenon
<1>5. /\ DOMAIN st'.poolWorker = PoolWorkerFields /\ st'.poolWorker.pc = "resync"
      /\ st'.poolWorker.list = Without(w.list, {q})
      /\ st'.poolWorker.keep = w.keep \cup {Endpoint(q, i) : i \in DOMAIN st.pool.targetPorts}
      /\ st'.poolWorker.todo = updateOps(q, w.list[q], st.pool) /\ st'.poolWorker.doing = {}
  BY <1>4, Zenon DEF PoolIdle, PoolWorkerFields
<1>6. /\ DOMAIN st'.poolWorker.list = DOMAIN w.list \ {q}
      /\ \A p \in DOMAIN w.list \ {q} : st'.poolWorker.list[p] = w.list[p]
  BY <1>5, Zenon DEF Without
<1>7. q \in PodNames /\ st.pool \in PoolObjects /\ st.pool # Nil
  BY <1>1, <1>2, Zenon DEF WorkersApart, DatastoreShape
<1>8. \A k : k \in st'.poolWorker.keep <=> k \in w.keep \/ \E i \in DOMAIN st.pool.targetPorts : k = <<q, i>>
  BY <1>5, Zenon DEF Endpoint
<1>9. /\ WorkType(s) /\ s.doing = {} /\ s.todo = {}
      /\ DOMAIN t = WorkFields /\ t.pods = s.pods /\ t.collectors = s.collectors /\ t.notified = s.notified
      /\ t.polling = s.polling /\ t.doing = {} /\ t.todo = updateOps(q, w.list[q], st.pool)
  BY <1>1, <1>2, <1>4, <1>5, Zenon DEF Work, WorkFields, DatastoreShape, Finished, OnlyPoolStage, OnlyPoolWorker
<1>10. Now = s /\ Now' = t
  BY <1>2, <1>5, Zenon DEF Now, Locked
<1>11. st'.pool = st.pool /\ Ranks' = DOMAIN st.pool.targetPorts /\ Ranks = DOMAIN st.pool.targetPorts
  BY <1>4, <1>7, Zenon DEF OnlyPoolStage, Ranks
<1> HIDE DEF s, t, w
<1>12. /\ WorkType(t)
       /\ \A k : (\A i \in DOMAIN st.pool.targetPorts : k # <<q, i>>) => Same(s, t, k)
       /\ \A k : Together(s, k) => Together(t, k)
       /\ \A o \in t.todo : o.op # "free" /\ o.key[1] = q
  BY <1>7, <1>9, GiveUpdate, SMTT(60)
<1>13. DatastoreShape'
  <2>1. WorkType(Work(st.poolWorker)')
    BY <1>12, Zenon DEF t
  <2> QED BY <1>1, <1>4, <1>5, <2>1, PoolWorkerShape, Zenon DEF OnlyPoolStage, DatastoreShape, OnlyPoolWorker
<1>14. WorkersApart'
  <2>1. st'.poolWorker.todo = t.todo
    BY <1>5, <1>9, Zenon
  <2>2. DOMAIN w.list \subseteq PodNames
    BY <1>1, <1>2, Zenon DEF WorkersApart, w
  <2>3. \A o \in st'.poolWorker.todo \cup st'.poolWorker.doing : o.op # "free" /\ o.key[1] \notin DOMAIN st'.poolWorker.list
    BY <1>5, <1>6, <1>12, <2>1, Zenon
  <2>4. Locked' /\ st.podWorker.pc # "idle" => st.podWorker.pod \in st'.raced
    BY <1>1, <1>2, <1>4, Zenon DEF WorkersApart, OnlyPoolStage
  <2> QED BY <1>1, <1>4, <1>5, <1>6, <1>7, <1>11, <2>2, <2>3, <2>4, PoolWorkerApart, Zenon DEF OnlyPoolStage
<1>15. ASSUME NEW p \in PodNames \ st.raced PROVE PodInv(p)'
  <2> DEFINE W == Wanted(p, st.api[p], st.pool)
  <2>1. PodInv(p)
    BY Zenon DEF DatastoreInv
  <2>2. PodTogether(p)'
    BY <1>2, <1>5, <1>10, <1>12, <2>1, Zenon DEF PodInv, PodTogether, w
  <2>3. PodRead(p)'
    BY <1>1, <1>2, <1>4, LockedOut, LockedOutReads, Zenon DEF OnlyPoolStage
  <2>4. RanksOnly(p)'
    BY <1>5, Zenon DEF RanksOnly
  <2>5. (Steady(p)' => Steady(p)) /\ (Reading(p)' <=> Reading(p)) /\ Wanted(p, st'.api[p], st'.pool) = W
    BY <1>4, <1>11, PodReadKept, Zenon DEF OnlyPoolStage
  <2> HIDE DEF W
  <2>6. CASE p # q
    <3>1. ASSUME NEW k \in KeysOf(p)
          PROVE  /\ Same(s, t, k)
                 /\ k \in st'.poolWorker.keep <=> k \in w.keep
      <4>1. \A i \in DOMAIN st.pool.targetPorts : k # <<q, i>>
        BY <2>6, <3>1 DEF KeysOf
      <4> QED BY <1>8, <1>12, <4>1, Zenon
    <3>2. p \in DOMAIN st'.poolWorker.list <=> p \in DOMAIN w.list
      BY <1>6, <2>6, Zenon
    <3>3. p \in DOMAIN w.list => st'.poolWorker.list[p] = w.list[p]
      BY <1>6, <2>6, Zenon
    <3>4. ASSUME Resyncing(p) PROVE Resyncing(p)'
      <4>1. \A k \in KeysOf(p) : k \in w.keep => k[2] \in Ranks
        BY <1>2, <3>4, Zenon DEF Resyncing, w
      <4>2. \A k \in KeysOf(p) : k \in st'.poolWorker.keep => k[2] \in Ranks'
        BY <1>11, <3>1, <4>1, Zenon
      <4>3. p \in DOMAIN w.list => /\ \A k \in KeysOf(p) : Untouched(s, k) /\ k \notin w.keep
                                   /\ Matches(st.pool, w.list[p].label) /\ IsPodReady(w.list[p]) /\ w.list[p] # Nil
        BY <1>2, <1>10, <3>4, Zenon DEF Resyncing, w
      <4>4. p \in DOMAIN w.list => \A k \in KeysOf(p) : Untouched(t, k) /\ k \notin st'.poolWorker.keep
        BY <3>1, <4>3, SameKeeps, Zenon
      <4> QED BY <1>10, <1>11, <3>2, <3>3, <4>2, <4>3, <4>4, Zenon DEF Resyncing
    <3>5. ASSUME PodSettled(p) PROVE PodSettled(p)'
      <4>1. CASE p \in DOMAIN w.list
        <5>1. Steady(p) /\ ~Reading(p) => Wanted(p, w.list[p], st.pool) = W
          BY <1>2, <3>5, <4>1, Zenon DEF PodSettled, W, w
        <5>2. Steady(p)' /\ ~Reading(p)' => Wanted(p, st'.poolWorker.list[p], st'.pool) = Wanted(p, st'.api[p], st'.pool)
          BY <1>11, <2>5, <3>3, <4>1, <5>1, Zenon
        <5>3. p \in DOMAIN st'.poolWorker.list
          BY <3>2, <4>1, Zenon
        <5> QED BY <1>5, <5>2, <5>3, Zenon DEF PodSettled
      <4>2. CASE p \notin DOMAIN w.list
        <5>1. Steady(p) /\ ~Reading(p) => Achieves(p, W)
          BY <1>2, <3>5, <4>2, Zenon DEF PodSettled, W, w
        <5>2. ASSUME Achieves(p, W) PROVE Achieves(p, W)'
          <6>1. \A k \in KeysOf(p) : IF k \in DOMAIN W THEN Coming(s, k, W[k]) /\ k \in w.keep
                                     ELSE Leaving(s, k) \/ k \notin w.keep
            BY <1>2, <1>10, <5>2, Zenon DEF Achieves, w
          <6>2. \A k \in KeysOf(p) : IF k \in DOMAIN W THEN Coming(t, k, W[k]) /\ k \in st'.poolWorker.keep
                                     ELSE Leaving(t, k) \/ k \notin st'.poolWorker.keep
            BY <3>1, <6>1, SameKeeps, Zenon
          <6>3. W' = W
            BY <2>5, Zenon DEF W
          <6> QED BY <1>5, <1>10, <6>2, <6>3, Zenon DEF Achieves
        <5>3. Steady(p)' /\ ~Reading(p)' => Achieves(p, Wanted(p, st.api[p], st.pool))'
          BY <2>5, <5>1, <5>2, Zenon DEF W
        <5> QED BY <3>2, <4>2, <5>3, Zenon DEF PodSettled
      <4> QED BY <4>1, <4>2, Zenon
    <3>6. st'.unlisted = st.unlisted
      BY <1>4, Zenon DEF OnlyPoolStage
    <3> QED BY <2>1, <2>2, <2>3, <2>4, <3>4, <3>5, <3>6, Zenon DEF PodInv
  <2>7. CASE p = q
    <3>1. p \notin DOMAIN st'.poolWorker.list
      BY <1>6, <2>7, Zenon
    <3>2. ASSUME Resyncing(p)
          PROVE  /\ Resyncing(p)'
                 /\ \A k \in KeysOf(p) : IF k \in DOMAIN Wanted(p, w.list[p], st.pool)
                                         THEN k \in st'.poolWorker.keep /\ Coming(t, k, Wanted(p, w.list[p], st.pool)[k])
                                         ELSE k \notin st'.poolWorker.keep \/ Leaving(t, k)
      <4>1. /\ \A k \in KeysOf(p) : k \notin w.keep
            /\ Matches(st.pool, w.list[p].label) /\ IsPodReady(w.list[p]) /\ w.list[p] # Nil
        BY <1>2, <1>3, <2>7, <3>2, Zenon DEF Resyncing, w
      <4>2. \A k \in KeysOf(p) : k \in st'.poolWorker.keep <=> k[2] \in DOMAIN st.pool.targetPorts
        <5> SUFFICES ASSUME NEW k \in KeysOf(p)
                     PROVE  k \in st'.poolWorker.keep <=> k[2] \in DOMAIN st.pool.targetPorts
          BY Zenon
        <5>1. k = <<p, k[2]>>
          BY DEF KeysOf
        <5>2. (\E i \in DOMAIN st.pool.targetPorts : k = <<q, i>>) <=> k[2] \in DOMAIN st.pool.targetPorts
          BY <2>7, <5>1, SMTT(30)
        <5> QED BY <1>8, <4>1, <5>2, Zenon
      <4>3. Resyncing(p)'
        BY <1>11, <3>1, <4>2, Zenon DEF Resyncing
      <4>4. \A k \in KeysOf(p) : IF k \in DOMAIN Wanted(p, w.list[p], st.pool)
                                 THEN k[2] \in DOMAIN st.pool.targetPorts /\ Coming(t, k, Wanted(p, w.list[p], st.pool)[k])
                                 ELSE k[2] \in DOMAIN st.pool.targetPorts => Leaving(t, k)
        BY <1>7, <1>9, <2>7, <4>1, UpdateAchieves, Zenon
      <4> QED BY <4>2, <4>3, <4>4, Zenon
    <3>3. ASSUME PodSettled(p), Resyncing(p) PROVE PodSettled(p)'
      <4>1. Steady(p) /\ ~Reading(p) => Wanted(p, w.list[p], st.pool) = W
        BY <1>2, <1>3, <2>7, <3>3, Zenon DEF PodSettled, W, w
      <4>2. ASSUME Wanted(p, w.list[p], st.pool) = W PROVE Achieves(p, W)'
        <5>1. \A k \in KeysOf(p) : IF k \in DOMAIN W THEN k \in st'.poolWorker.keep /\ Coming(t, k, W[k])
                                   ELSE k \notin st'.poolWorker.keep \/ Leaving(t, k)
          BY <3>2, <3>3, <4>2, Zenon
        <5>2. W' = W
          BY <2>5, Zenon DEF W
        <5> QED BY <1>5, <1>10, <5>1, <5>2, Zenon DEF Achieves
      <4>3. Steady(p)' /\ ~Reading(p)' => Achieves(p, Wanted(p, st.api[p], st.pool))'
        BY <2>5, <4>1, <4>2, Zenon DEF W
      <4> QED BY <3>1, <4>3, Zenon DEF PodSettled
    <3>4. st'.unlisted = st.unlisted
      BY <1>4, Zenon DEF OnlyPoolStage
    <3> QED BY <2>1, <2>2, <2>3, <2>4, <3>2, <3>3, <3>4, Zenon DEF PodInv
  <2> QED BY <2>6, <2>7, Zenon
<1> QED BY <1>4, <1>13, <1>14, <1>15, Zenon DEF DatastoreInv, OnlyPoolStage

\* podResyncAll removes what no listed pod has.
LEMMA PoolPruneKeeps ==
  ASSUME DatastoreInv, part' = part, PoolPrune
  PROVE  DatastoreInv'
<1> DEFINE w == st.poolWorker
           s == Work(st.poolWorker)
           t == Work(st.poolWorker)'
           K == DOMAIN st.pods \ w.keep
<1>1. DatastoreShape /\ WorkersApart /\ DOMAIN st = DatastoreFields
  BY Zenon DEF DatastoreInv, DatastoreShape
<1>2. w.pc = "resync" /\ Finished(w) /\ DOMAIN w.list = {} /\ Locked
  BY Zenon DEF PoolPrune, Locked
<1>3. st' = [st EXCEPT !.poolWorker = [PoolIdle EXCEPT !.pc = "prune", !.todo = rangeOps("drop", K)]]
  BY Zenon DEF PoolPrune
<1>4. /\ OnlyPoolStage /\ st'.pods = st.pods
      /\ st'.poolWorker = [PoolIdle EXCEPT !.pc = "prune", !.todo = rangeOps("drop", K)]
  BY <1>3, AssignsPoolWorker, Zenon
<1>5. /\ DOMAIN st'.poolWorker = PoolWorkerFields /\ st'.poolWorker.pc = "prune"
      /\ st'.poolWorker.todo = rangeOps("drop", K) /\ st'.poolWorker.doing = {}
  BY <1>4, Zenon DEF PoolIdle, PoolWorkerFields
<1>6. /\ WorkType(s) /\ s.doing = {} /\ s.todo = {} /\ s.pods = st.pods
      /\ DOMAIN t = WorkFields /\ t.pods = s.pods /\ t.collectors = s.collectors /\ t.notified = s.notified
      /\ t.polling = s.polling /\ t.doing = {} /\ t.todo = rangeOps("drop", K)
  BY <1>1, <1>2, <1>4, <1>5, Zenon DEF Work, WorkFields, DatastoreShape, Finished, OnlyPoolStage, OnlyPoolWorker
<1>7. Now = s /\ Now' = t
  BY <1>2, <1>5, Zenon DEF Now, Locked
<1>8. st'.pool = st.pool /\ Ranks' = Ranks /\ st.pool # Nil
  BY <1>1, <1>2, <1>4, Zenon DEF OnlyPoolStage, Ranks, WorkersApart
<1>9. K \subseteq DOMAIN s.pods /\ \A k : k \in K <=> k \in DOMAIN s.pods /\ k \notin w.keep
  BY <1>6, Zenon
<1> HIDE DEF s, t, w, K
<1>10. /\ WorkType(t)
       /\ \A k : k \notin K => Same(s, t, k)
       /\ \A k \in K : Leaving(t, k)
       /\ \A k : Together(s, k) => Together(t, k)
       /\ \A o \in t.todo : o.op = "drop"
  BY <1>6, <1>9, GiveRange, SMTT(60)
<1>11. DatastoreShape'
  <2>1. WorkType(Work(st.poolWorker)')
    BY <1>10, Zenon DEF t
  <2> QED BY <1>1, <1>4, <1>5, <2>1, PoolWorkerShape, Zenon DEF OnlyPoolStage, DatastoreShape, OnlyPoolWorker
<1>12. WorkersApart'
  <2>1. st'.poolWorker.todo = t.todo
    BY <1>5, <1>6, Zenon
  <2>2. Locked' /\ st.podWorker.pc # "idle" => st.podWorker.pod \in st'.raced
    BY <1>1, <1>2, <1>4, Zenon DEF WorkersApart, OnlyPoolStage
  <2> QED BY <1>1, <1>4, <1>5, <1>8, <1>10, <2>1, <2>2, PoolWorkerApart, Zenon DEF OnlyPoolStage
<1>13. ASSUME NEW p \in PodNames \ st.raced PROVE PodInv(p)'
  <2> DEFINE W == Wanted(p, st.api[p], st.pool)
  <2>1. PodInv(p)
    BY Zenon DEF DatastoreInv
  <2>2. PodTogether(p)'
    BY <1>2, <1>5, <1>7, <1>10, <2>1, Zenon DEF PodInv, PodTogether, w
  <2>3. PodRead(p)'
    BY <1>1, <1>2, <1>4, LockedOut, LockedOutReads, Zenon DEF OnlyPoolStage
  <2>4. (Steady(p)' => Steady(p)) /\ (Reading(p)' <=> Reading(p)) /\ Wanted(p, st'.api[p], st'.pool) = W
    BY <1>4, <1>8, PodReadKept, Zenon DEF OnlyPoolStage
  <2> HIDE DEF W
  <2>5. ASSUME NEW k, k \notin w.keep PROVE Leaving(t, k)
    <3>1. CASE k \in K
      BY <1>10, <3>1, Zenon
    <3>2. CASE k \notin K
      <4>1. k \notin DOMAIN s.pods /\ Untouched(s, k)
        BY <1>6, <1>9, <2>5, <3>2, Zenon DEF Untouched
      <4>2. Leaving(s, k)
        BY <4>1, Zenon DEF Leaving
      <4> QED BY <1>10, <3>2, <4>2, SameKeeps, Zenon
    <3> QED BY <3>1, <3>2, Zenon
  <2>6. ASSUME NEW k, Leaving(s, k) PROVE Leaving(t, k)
    <3>1. k \notin DOMAIN s.pods
      BY <1>6, <2>6, Zenon DEF Leaving
    <3> QED BY <1>9, <1>10, <2>6, <3>1, SameKeeps, Zenon
  <2>7. ASSUME NEW k \in w.keep, NEW m, Coming(s, k, m) PROVE Coming(t, k, m)
    BY <1>9, <1>10, <2>7, SameKeeps, Zenon
  <2>8. ASSUME Resyncing(p) PROVE RanksOnly(p)' /\ Resyncing(p)'
    <3>1. \A k \in KeysOf(p) : k \in w.keep => k[2] \in Ranks
      BY <1>2, <2>8, Zenon DEF Resyncing, w
    <3> QED BY <1>5, <1>7, <1>8, <2>5, <3>1, Zenon DEF RanksOnly, Resyncing
  <2>9. ASSUME PodSettled(p) PROVE PodSettled(p)'
    <3>1. Steady(p) /\ ~Reading(p) => Achieves(p, W)
      BY <1>2, <2>9, Zenon DEF PodSettled, W, w
    <3>2. ASSUME Achieves(p, W) PROVE Achieves(p, W)'
      <4>1. \A k \in KeysOf(p) : IF k \in DOMAIN W THEN Coming(s, k, W[k]) /\ k \in w.keep
                                 ELSE Leaving(s, k) \/ k \notin w.keep
        BY <1>2, <1>7, <3>2, Zenon DEF Achieves, w
      <4>2. \A k \in KeysOf(p) : IF k \in DOMAIN W THEN Coming(t, k, W[k]) ELSE Leaving(t, k)
        BY <2>5, <2>6, <2>7, <4>1, Zenon
      <4>3. W' = W
        BY <2>4, Zenon DEF W
      <4> QED BY <1>5, <1>7, <4>2, <4>3, Zenon DEF Achieves
    <3>3. Steady(p)' /\ ~Reading(p)' => Achieves(p, Wanted(p, st.api[p], st.pool))'
      BY <2>4, <3>1, <3>2, Zenon DEF W
    <3> QED BY <1>5, <3>3, Zenon DEF PodSettled
  <2>10. st'.unlisted = st.unlisted
    BY <1>4, Zenon DEF OnlyPoolStage
  <2> QED BY <2>1, <2>2, <2>3, <2>8, <2>9, <2>10, Zenon DEF PodInv
<1> QED BY <1>4, <1>11, <1>12, <1>13, Zenon DEF DatastoreInv, OnlyPoolStage

\* The pool worker takes a step of an endpoint operation.
LEMMA PoolWorkerStepKeeps ==
  ASSUME DatastoreInv, part' = part, PoolWorkerStep
  PROVE  DatastoreInv'
<1> DEFINE s == Work(st.poolWorker)
           u == Work(st.poolWorker)'
<1>1. DatastoreShape /\ WorkersApart
  BY Zenon DEF DatastoreInv
<1>2. PICK t \in endpointSteps(s) :
        st' = [st EXCEPT !.pods = t.pods, !.collectors = t.collectors, !.notified = t.notified,
                         !.poolWorker = [@ EXCEPT !.todo = t.todo, !.doing = t.doing]]
  BY Zenon DEF PoolWorkerStep
<1>3. DOMAIN st = DatastoreFields /\ DOMAIN st.poolWorker = PoolWorkerFields
  BY <1>1, Zenon DEF DatastoreShape
<1>4. /\ OnlyPoolWorker /\ st'.poolQueued = st.poolQueued /\ st'.pool = st.pool /\ st'.unlisted = st.unlisted
      /\ st'.raced = st.raced /\ st'.met = st.met
      /\ st'.pods = t.pods /\ st'.collectors = t.collectors /\ st'.notified = t.notified
      /\ st'.poolWorker = [st.poolWorker EXCEPT !.todo = t.todo, !.doing = t.doing]
  BY <1>2, <1>3, Zenon DEF DatastoreFields, OnlyPoolWorker
<1>5. /\ DOMAIN st'.poolWorker = PoolWorkerFields /\ st'.poolWorker.pc = st.poolWorker.pc
      /\ st'.poolWorker.list = st.poolWorker.list /\ st'.poolWorker.keep = st.poolWorker.keep
      /\ st'.poolWorker.todo = t.todo /\ st'.poolWorker.doing = t.doing
  BY <1>3, <1>4, Zenon DEF PoolWorkerFields
<1>6. WorkType(s) /\ s.todo = st.poolWorker.todo /\ s.doing = st.poolWorker.doing /\ s.polling = st.polling
  BY <1>1, Zenon DEF DatastoreShape, Work
<1> HIDE DEF s
<1>7. /\ WorkType(t) /\ t.polling = s.polling
      /\ \A r \in t.todo \cup t.doing : \E o \in s.todo \cup s.doing :
           o.key = r.key /\ (r.op = "free" => o.op = "free")
  BY <1>6, StepType, Zenon
<1>8. /\ DOMAIN u = WorkFields /\ u.pods = t.pods /\ u.collectors = t.collectors /\ u.notified = t.notified
      /\ u.polling = t.polling /\ u.todo = t.todo /\ u.doing = t.doing
  BY <1>4, <1>5, <1>6, <1>7, Zenon DEF Work, WorkFields, OnlyPoolWorker
<1> HIDE DEF u
<1>9. WorkType(u) /\ \A k : Same(t, u, k)
  <2>1. WorkType(u)
    BY <1>7, <1>8, Zenon DEF WorkType
  <2>2. \A k : Same(t, u, k)
    BY <1>8, Zenon DEF Same
  <2> QED BY <2>1, <2>2, Zenon
<1>10. st.poolWorker.pc # "idle" /\ Locked
  <2>1. s.todo \cup s.doing # {}
    <3>1. PICK o : Loads(s, t, o) \/ Does(s, t, o)
      BY <1>6, StepCases, Zenon
    <3> QED BY <3>1, Zenon DEF Loads, Does
  <2> QED BY <1>1, <1>6, <2>1, Zenon DEF WorkersApart, Finished, Locked
<1>11. Now = s /\ Now' = u
  BY <1>5, <1>10, Zenon DEF Now, Locked, s, u
<1>12. DatastoreShape'
  <2>1. WorkType(Work(st.poolWorker)')
    BY <1>9, Zenon DEF u
  <2>2. st'.poolWorker.pc \in {"idle", "clear", "resync", "prune"} /\ st'.pool \in PoolObjects \cup {Nil}
    BY <1>1, <1>4, <1>5, Zenon DEF DatastoreShape
  <2>3. (~st'.poolQueued => st'.apiPool = st'.pool) /\ st'.raced \subseteq st'.met
    BY <1>1, <1>4, Zenon DEF DatastoreShape, OnlyPoolWorker
  <2> QED BY <1>1, <1>4, <1>5, <2>1, <2>2, <2>3, PoolWorkerShape, Zenon
<1>13. st.poolWorker.pc # "clear" => \A o \in s.todo : o.op # "free"
  BY <1>1, <1>6, Zenon DEF WorkersApart
<1>14. WorkersApart'
  <2>1. st.poolWorker.pc # "clear" => \A o \in t.todo : o.op # "free"
    <3> SUFFICES ASSUME st.poolWorker.pc # "clear", NEW r \in t.todo, r.op = "free" PROVE FALSE
      BY Zenon
    <3>1. PICK o \in s.todo \cup s.doing : o.op = "free"
      BY <1>7, Zenon
    <3>2. o \in s.doing => o.op # "free"
      BY <1>6, Zenon DEF WorkType, DoingOps
    <3> QED BY <1>13, <3>1, <3>2, Zenon
  <2>2. st.poolWorker.pc = "resync" =>
           /\ DOMAIN st.poolWorker.list \subseteq PodNames
           /\ \A o \in s.todo \cup s.doing : o.key[1] \notin DOMAIN st.poolWorker.list
    BY <1>1, <1>6, Zenon DEF WorkersApart
  <2>3. st.poolWorker.pc = "resync" => \A o \in t.todo \cup t.doing : o.key[1] \notin DOMAIN st.poolWorker.list
    BY <1>7, <2>2, Zenon
  <2>4. Locked' /\ st.podWorker.pc # "idle" => st.podWorker.pod \in st'.raced
    BY <1>1, <1>4, <1>10, Zenon DEF WorkersApart
  <2>5. /\ st.poolWorker.pc = "clear" => st.pool = Nil
        /\ st.poolWorker.pc \in {"resync", "prune"} => st.pool # Nil
    BY <1>1, Zenon DEF WorkersApart
  <2> QED BY <1>1, <1>4, <1>5, <1>10, <2>1, <2>2, <2>3, <2>4, <2>5, PoolWorkerApart, Zenon
<1>15. ASSUME NEW p \in PodNames \ st.raced PROVE PodInv(p)'
  <2>1. PodInv(p)
    BY Zenon DEF DatastoreInv
  <2>2. PodRead(p)'
    BY <1>1, <1>4, <1>10, LockedOut, LockedOutReads, Zenon
  <2>3. (Steady(p)' => Steady(p)) /\ (Reading(p)' <=> Reading(p))
    BY <1>4, PodReadKept, Zenon
  <2>4. ASSUME NEW k \in KeysOf(p)
        PROVE  /\ IF st.poolWorker.pc = "clear" THEN Freeing(Now', k) ELSE Together(Now', k)
               /\ \A m : st.poolWorker.pc # "clear" /\ Coming(Now, k, m) => Coming(Now', k, m)
               /\ st.poolWorker.pc # "clear" /\ Leaving(Now, k) => Leaving(Now', k)
               /\ st.poolWorker.pc # "clear" /\ Untouched(Now, k) => Untouched(Now', k)
    <3>1. CASE st.poolWorker.pc = "clear"
      <4>1. Freeing(s, k)
        BY <1>11, <2>1, <3>1, Zenon DEF PodInv, PodTogether
      <4>2. Freeing(t, k)
        BY <1>6, <4>1, StepFrees, Zenon
      <4> QED BY <1>9, <1>11, <3>1, <4>2, SameKeeps, Zenon
    <3>2. CASE st.poolWorker.pc # "clear"
      <4>1. Together(s, k)
        BY <1>11, <2>1, <3>2, Zenon DEF PodInv, PodTogether
      <4>2. /\ Together(t, k)
            /\ \A m : Coming(s, k, m) => Coming(t, k, m)
            /\ Leaving(s, k) => Leaving(t, k)
            /\ Untouched(s, k) => Untouched(t, k)
        BY <1>6, <1>13, <3>2, <4>1, StepKeeps, Zenon
      <4> QED BY <1>9, <1>11, <3>2, <4>2, SameKeeps, Zenon
    <3> QED BY <3>1, <3>2, Zenon
  <2>5. st'.api = st.api /\ st'.pool = st.pool /\ st'.unlisted = st.unlisted
    BY <1>4, Zenon DEF OnlyPoolWorker
  <2> QED BY <1>5, <2>1, <2>2, <2>3, <2>4, <2>5, PodInvAdvances, Zenon
<1> QED BY <1>4, <1>12, <1>14, <1>15, Zenon DEF DatastoreInv

\* The empty store satisfies the invariant.
LEMMA DatastoreStarts ==
  ASSUME part = "datastore", DatastoreInit
  PROVE  DatastoreInv
<1>1. PICK polling \in BOOLEAN :
        /\ DOMAIN st = DatastoreFields /\ st.api = [p \in PodNames |-> Nil] /\ st.apiPool = Nil /\ st.events = <<>>
        /\ st.poolQueued = FALSE /\ st.pool = Nil /\ st.pods = <<>> /\ st.collectors = {} /\ st.notified = {}
        /\ st.podWorker = Idle /\ st.poolWorker = PoolIdle /\ st.raced = {} /\ st.met = {}
  BY SMTT(30) DEF DatastoreInit, DatastoreFields
<1>2. /\ DOMAIN st.podWorker = PodWorkerFields /\ st.podWorker.pc = "idle" /\ Finished(st.podWorker)
      /\ DOMAIN st.poolWorker = PoolWorkerFields /\ st.poolWorker.pc = "idle" /\ Finished(st.poolWorker)
  BY <1>1 DEF Idle, PoolIdle, PodWorkerFields, PoolWorkerFields, Finished
<1>3. DOMAIN st.pods = {}
  BY <1>1
<1>4. ASSUME NEW w, Finished(w) PROVE WorkType(Work(w)) /\ \A k : Leaving(Work(w), k) /\ Together(Work(w), k)
  <2> DEFINE s == Work(w)
  <2>1. /\ DOMAIN s = WorkFields /\ DOMAIN s.pods = {} /\ s.collectors = {} /\ s.notified = {}
        /\ s.todo = {} /\ s.doing = {}
    BY <1>1, <1>3, <1>4, Zenon DEF Work, WorkFields, Finished
  <2> HIDE DEF s
  <2>2. WorkType(s)
    BY <2>1, Zenon DEF WorkType
  <2>3. \A k : Leaving(s, k) /\ Together(s, k)
    BY <2>1, Zenon DEF Leaving, Together, Untouched
  <2> QED BY <2>2, <2>3, Zenon DEF s
<1>5. DatastoreShape
  <2>1. st.api \in [PodNames -> PodObjects \cup {Nil}] /\ st.events \in Seq([pod : PodNames, labels : SUBSET Labels])
    BY <1>1, SMTT(30)
  <2> QED BY <1>1, <1>2, <1>4, <2>1, Zenon DEF DatastoreShape
<1>6. WorkersApart
  BY <1>2, Zenon DEF WorkersApart, Finished, Locked
<1>7. ASSUME NEW p \in PodNames PROVE PodInv(p)
  <2>1. Now = Work(st.podWorker) /\ \A k : Leaving(Now, k) /\ Together(Now, k)
    BY <1>2, <1>4, Zenon DEF Now, Locked
  <2>2. Wanted(p, st.api[p], st.pool) = <<>>
    BY <1>1, Zenon DEF Wanted
  <2>3. Achieves(p, <<>>)
    BY <2>1 DEF Achieves
  <2> QED BY <1>2, <2>1, <2>2, <2>3, ZenonT(30) DEF PodInv, PodTogether, PodSettled, PodRead, RanksOnly, Resyncing
<1> QED BY <1>5, <1>6, <1>7, Zenon DEF DatastoreInv

\* Every step keeps the invariant.
LEMMA DatastoreStep ==
  ASSUME DatastoreInv, [UNCHANGED part /\ DatastoreNext]_<<part, st>>
  PROVE  DatastoreInv'
<1>1. CASE UNCHANGED <<part, st>>
  <2>1. part' = part /\ st' = st
    BY <1>1, Zenon
  <2>2. SameWork
    BY <2>1, Zenon DEF SameWork
  <2>3. DatastoreShape'
    BY <2>1, <2>2, SameWorkNow, Zenon DEF DatastoreInv, DatastoreShape
  <2>4. WorkersApart'
    BY <2>1, <2>2, WorkersKept, Zenon DEF DatastoreInv
  <2>5. ASSUME NEW p \in PodNames \ st.raced PROVE PodInv(p)'
    <3>1. PodInv(p)
      BY Zenon DEF DatastoreInv
    <3>2. Steady(p)' => Steady(p)
      BY <2>1, Zenon DEF Steady
    <3> QED BY <2>1, <2>2, <3>1, <3>2, PodInvKept, Zenon
  <2> QED BY <2>1, <2>3, <2>4, <2>5, Zenon DEF DatastoreInv
<1>2. CASE part' = part /\ DatastoreNext
  <2>1. part' = part
    BY <1>2, Zenon
  <2>2. CASE \E p \in PodNames : PodChanges(p)
    BY <2>1, <2>2, PodChangesKeep, Zenon
  <2>3. CASE \E p \in PodNames : PodReconcile(p)
    BY <2>1, <2>3, PodReconcileKeeps, Zenon
  <2>4. CASE PoolChanges
    BY <2>1, <2>4, PoolChangesKeep, Zenon
  <2>5. CASE PodEvent
    BY <2>1, <2>5, PodEventKeeps, Zenon
  <2>6. CASE PodGet
    BY <2>1, <2>6, PodGetKeeps, Zenon
  <2>7. CASE updateDatastore
    BY <2>1, <2>7, updateDatastoreKeeps, Zenon
  <2>8. CASE PodUpdateOrAddIfNotExist
    BY <2>1, <2>8, PodUpdateKeeps, Zenon
  <2>9. CASE PodWorkerStep
    BY <2>1, <2>9, PodWorkerStepKeeps, Zenon
  <2>10. CASE PodReconciled
    BY <2>1, <2>10, PodReconciledKeeps, Zenon
  <2>11. CASE PoolReconcile
    BY <2>1, <2>11, PoolReconcileKeeps, Zenon
  <2>12. CASE Cleared
    BY <2>1, <2>12, ClearedKeeps, Zenon
  <2>13. CASE podResyncAll
    BY <2>1, <2>13, podResyncAllKeeps, Zenon
  <2>14. CASE PoolPrune
    BY <2>1, <2>14, PoolPruneKeeps, Zenon
  <2>15. CASE PoolWorkerStep
    BY <2>1, <2>15, PoolWorkerStepKeeps, Zenon
  <2>16. CASE PoolReconciled
    BY <2>1, <2>16, PoolReconciledKeeps, Zenon
  <2> QED BY SMTT(30), <1>2, <2>2, <2>3, <2>4, <2>5, <2>6, <2>7, <2>8, <2>9, <2>10, <2>11, <2>12, <2>13, <2>14, <2>15,
             <2>16, Zenon DEF DatastoreNext
<1> QED BY <1>1, <1>2, Zenon

\* With nothing left to do the invariant says what the store holds.
LEMMA QuietConverges ==
  ASSUME DatastoreInv
  PROVE  DatastoreConverges
<1>1. DatastoreShape /\ WorkersApart
  BY Zenon DEF DatastoreInv
<1>2. ASSUME DatastoreQuiet, ~st.unlisted, NEW p \in PodNames \ st.raced
      PROVE  /\ [k \in EndpointsOf(p, st.pods) |-> st.pods[k]] = Wanted(p, st.api[p], st.apiPool)
             /\ InStep(p)
  <2>1. PodInv(p) /\ PodSettled(p)
    BY <1>2, Zenon DEF DatastoreInv, PodInv
  <2>2. /\ st.events = <<>> /\ st.queue = {} /\ ~st.poolQueued
        /\ st.podWorker.pc = "idle" /\ st.poolWorker.pc = "idle"
    BY <1>2, Zenon DEF DatastoreQuiet
  <2>3. st.apiPool = st.pool
    BY <1>1, <2>2, Zenon DEF DatastoreShape
  <2> DEFINE W == Wanted(p, st.api[p], st.pool)
  <2>4. Achieves(p, W)
    <3>1. Steady(p)
      BY <2>2 DEF Steady
    <3>2. ~Reading(p)
      BY <2>2, Zenon DEF Reading
    <3> QED BY <2>1, <2>2, <3>1, <3>2, Zenon DEF PodSettled
  <2>5. /\ Now = Work(st.podWorker) /\ Now.todo = {} /\ Now.doing = {}
        /\ Now.pods = st.pods /\ Now.collectors = st.collectors /\ Now.notified = st.notified
        /\ Now.polling = st.polling
    BY <1>1, <2>2, Zenon DEF Now, Locked, Work, WorkersApart, Finished
  <2>6. \A k : Untouched(Now, k)
    BY <2>5, Zenon DEF Untouched
  <2>7. DOMAIN st.pods \subseteq Keys /\ st.collectors \subseteq Keys /\ st.notified \subseteq Keys
    BY <1>1, ZenonT(30) DEF DatastoreShape, WorkType, Work
  <2>8. \A k \in KeysOf(p) : Together(Now, k)
    BY <2>1, <2>2, Zenon DEF PodInv, PodTogether
  <2>9. InStep(p)
    <3> DEFINE s == Now
    <3>1. \A k \in KeysOf(p) : Untouched(s, k) /\ Together(s, k)
      BY <2>6, <2>8, Zenon
    <3>2. s.pods = st.pods /\ s.collectors = st.collectors /\ s.notified = st.notified /\ s.polling = st.polling
      BY <2>5, Zenon
    <3> HIDE DEF s
    <3> QED BY <2>7, <3>1, <3>2, InStepTogether, Zenon
  <2>10. W = [k \in DOMAIN W |-> W[k]] /\ DOMAIN W \subseteq KeysOf(p)
    <3>1. st.pool # Nil => st.pool \in PoolObjects
      BY <1>1, Zenon DEF DatastoreShape
    <3>2. CASE W = <<>>
      BY <3>2
    <3>3. CASE W # <<>>
      <4>1. st.pool # Nil /\ W = [k \in {Endpoint(p, i) : i \in ActiveRanks(st.api[p], st.pool)} |->
                                      Metadata(st.api[p], st.pool, k[2])]
        BY <3>3, Zenon DEF Wanted
      <4>2. ActiveRanks(st.api[p], st.pool) \subseteq Nat
        <5>1. st.pool.targetPorts \in Seq(Nat)
          BY <3>1, <4>1, PoolAssumption, Zenon
        <5> QED BY <5>1 DEF ActiveRanks
      <4>3. {Endpoint(p, i) : i \in ActiveRanks(st.api[p], st.pool)} \subseteq KeysOf(p)
        BY <4>2, SMTT(30) DEF Endpoint, KeysOf
      <4> QED BY <4>1, <4>3, Zenon
    <3> QED BY <3>2, <3>3, Zenon
  <2> HIDE DEF W
  <2>11. \A k \in KeysOf(p) : IF k \in DOMAIN W THEN k \in DOMAIN st.pods /\ st.pods[k] = W[k]
                              ELSE k \notin DOMAIN st.pods
    BY <2>2, <2>4, <2>5, <2>6, Zenon DEF Achieves, Coming, Leaving
  <2>12. EndpointsOf(p, st.pods) = DOMAIN W
    <3>1. \A k : k \in EndpointsOf(p, st.pods) <=> k \in DOMAIN st.pods /\ k[1] = p
      BY Zenon DEF EndpointsOf
    <3>2. \A k \in DOMAIN st.pods : k[1] = p <=> k \in KeysOf(p)
      BY <2>7, Zenon DEF Keys, KeysOf
    <3> QED BY <2>10, <2>11, <3>1, <3>2, Zenon
  <2>13. \A k \in DOMAIN W : st.pods[k] = W[k]
    BY <2>10, <2>11, Zenon
  <2>14. [k \in EndpointsOf(p, st.pods) |-> st.pods[k]] = W
    BY <2>10, <2>12, <2>13, Zenon
  <2> QED BY <2>3, <2>9, <2>14, Zenon DEF W
<1>3. st.raced \subseteq st.met
  BY <1>1, Zenon DEF DatastoreShape
<1> QED BY <1>2, <1>3, Zenon DEF DatastoreConverges

(***************************************************************************)
(* When every event has been handled the store holds exactly the endpoints *)
(* the pods and the pool in the API call for, each with its collector, but *)
(* for the two exceptions DatastoreConverges names: for any number of      *)
(* pods, pools, ports and changes.                                         *)
(***************************************************************************)
THEOREM StoreConverges == DatastoreSpec => []DatastoreConverges
<1>1. part = "datastore" /\ DatastoreInit => DatastoreInv
  BY DatastoreStarts, Zenon
<1>2. DatastoreInv /\ [UNCHANGED part /\ DatastoreNext]_<<part, st>> => DatastoreInv'
  BY DatastoreStep, Zenon
<1>3. DatastoreInv => DatastoreConverges
  BY QuietConverges, Zenon
<1> QED BY <1>1, <1>2, <1>3, PTL DEF DatastoreSpec
=============================================================================
