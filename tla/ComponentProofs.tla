-------------------------- MODULE ComponentProofs --------------------------
(***************************************************************************)
(* Three components that share no state with the others, for every value   *)
(* of their constants: a shard has one processor (OneProcessorPerShard), a *)
(* cached lookup of candidates is fresh (CandidatesFresh), and the         *)
(* adapters store of the body-based router follows the ConfigMaps          *)
(* (AdaptersFollowConfigMaps).                                             *)
(***************************************************************************)
EXTENDS FlowDistribution, Candidates, AdapterStore, FiniteSetTheorems, TLAPS

-----------------------------------------------------------------------------
(* The workers of the flow controller.                                     *)

DistributionSpec ==
  part = "distribution" /\ DistributionInit /\ [][UNCHANGED part /\ DistributionNext]_<<part, st>>

-----------------------------------------------------------------------------
(* The inductive invariant.                                                *)

InstanceType == [shard : Shards, phase : {"built", "running", "exited"}, cancelled : BOOLEAN]
StateFields == {"shards", "changes", "workers", "instances", "collector", "running", "req", "raced"}
RequestFields == {"pc", "todo", "mine", "candidates", "attempts"}

\* A request that is about to store a worker has built one for the shard it is at.
RequestOK(q) ==
  /\ DOMAIN q = RequestFields
  /\ q.todo \in Seq(Shards)
  /\ q.pc = "store" => /\ q.mine \in 1..Len(st.instances) /\ q.todo # <<>>
                       /\ st.instances[q.mine].shard = Head(q.todo)

ShapeInv ==
  /\ DOMAIN st = StateFields
  /\ st.shards \in [Shards -> {"new", "active", "draining", "gone"}]
  /\ st.instances \in Seq(InstanceType)
  /\ DOMAIN st.req = FlowRequests
  /\ \A r \in FlowRequests : RequestOK(st.req[r])

\* The map holds workers under the shard they work for.
MapInv ==
  \A s \in DOMAIN st.workers :
    st.workers[s] \in 1..Len(st.instances) /\ st.instances[st.workers[s]].shard = s

Mapped(w) ==
  LET s == st.instances[w].shard IN s \in DOMAIN st.workers /\ st.workers[s] = w

\* A started worker leaves the map only when it is cancelled, and then its shard
\* has left the registry, or was added after reconcileProcessors had looked.
WorkerInv ==
  \A w \in 1..Len(st.instances) : st.instances[w].phase = "running" =>
    \/ Mapped(w)
    \/ /\ st.instances[w].cancelled
       /\ st.instances[w].shard \in st.raced \/ st.shards[st.instances[w].shard] = "gone"

DistributionInv == part = "distribution" /\ ShapeInv /\ MapInv /\ WorkerInv

-----------------------------------------------------------------------------
(* Operators.                                                              *)

\* ActiveShards lists elements of the set.
LEMMA ActiveShardsType ==
  ASSUME NEW S, IsFiniteSet(S)
  PROVE  ActiveShards(S) \in Seq(S)
<1> DEFINE n == Cardinality(S)
<1>1. n \in Nat /\ ExistsBijection(1..n, S)
  BY FS_CardinalityType, Zenon
<1>2. PICK f \in [1..n -> S] : \A i, j \in DOMAIN f : f[i] = f[j] => i = j
  BY <1>1, Zenon DEF ExistsBijection, Bijection, Injection, IsInjective
<1>3. ActiveShards(S) \in [1..n -> S]
  BY <1>2, Zenon DEF ActiveShards
<1> QED BY <1>1, <1>3

\* What a step that only moves one request keeps.
LEMMA RequestStep ==
  ASSUME DistributionInv, NEW r \in FlowRequests, NEW q, RequestOK(q),
         DOMAIN st' = StateFields, part' = part,
         st'.shards = st.shards, st'.workers = st.workers, st'.instances = st.instances,
         st'.raced = st.raced, st'.req = [st.req EXCEPT ![r] = q]
  PROVE  DistributionInv'
<1>1. RequestOK(q)'
  BY Zenon DEF RequestOK
<1>2. \A x \in FlowRequests : RequestOK(st.req[x])'
  <2> TAKE x \in FlowRequests
  <2>1. CASE x = r
    BY <1>1, <2>1, Zenon DEF DistributionInv, ShapeInv, RequestOK
  <2>2. CASE x # r
    BY <2>2, Zenon DEF DistributionInv, ShapeInv, RequestOK
  <2> QED BY <2>1, <2>2, Zenon
<1> QED BY <1>2 DEF DistributionInv, ShapeInv, MapInv, WorkerInv, Mapped

-----------------------------------------------------------------------------
(* The steps of a request.                                                 *)

\* A new request is well formed wherever it waits but before LoadOrStore.
LEMMA NewRequestOK ==
  ASSUME NEW p, p # "store", NEW t \in Seq(Shards), NEW a
  PROVE  RequestOK([NewRequest EXCEPT !.pc = p, !.todo = t, !.attempts = a])
BY Zenon DEF RequestOK, NewRequest, RequestFields

\* EnqueueAndWait returns: the invariant of the workers is kept.
LEMMA FinishStep ==
  ASSUME DistributionInv, part' = part, NEW r \in FlowRequests, st' = Finish(r)
  PROVE  DistributionInv'
<1> DEFINE q == [NewRequest EXCEPT !.pc = "done"]
<1>1. RequestOK(q)
  BY DEF RequestOK, NewRequest, RequestFields
<1>2. /\ DOMAIN st' = StateFields
      /\ st'.shards = st.shards /\ st'.workers = st.workers /\ st'.instances = st.instances
      /\ st'.raced = st.raced /\ st'.req = [st.req EXCEPT ![r] = q]
  BY Zenon DEF Finish, DistributionInv, ShapeInv, StateFields
<1> HIDE DEF q
<1> QED BY <1>1, <1>2, RequestStep, Zenon

\* tryDistribution reads the active shards, or gives up: the invariant is kept.
LEMMA TryDistributionStep ==
  ASSUME DistributionInv, part' = part, NEW r \in FlowRequests, tryDistribution(r)
  PROVE  DistributionInv'
<1> DEFINE active == {s \in Shards : st.shards[s] = "active"}
           q == [NewRequest EXCEPT !.pc = "workers", !.todo = ActiveShards(active),
                                   !.attempts = st.req[r].attempts + 1]
<1>1. IsFiniteSet(active)
  BY ShardsAssumption, FS_Subset, Zenon
<1>2. ActiveShards(active) \in Seq(Shards)
  BY <1>1, ActiveShardsType, SMTT(30)
<1>3. RequestOK(q)
  BY <1>2, NewRequestOK, Zenon
<1>4. CASE st' = Finish(r)
  BY <1>4, FinishStep, Zenon
<1>5. CASE st' = [st EXCEPT !.req[r] = q]
  <2> HIDE DEF q
  <2>1. /\ DOMAIN st' = StateFields
        /\ st'.shards = st.shards /\ st'.workers = st.workers /\ st'.instances = st.instances
        /\ st'.raced = st.raced /\ st'.req = [st.req EXCEPT ![r] = q]
    BY <1>5, Zenon DEF DistributionInv, ShapeInv, StateFields
  <2> QED BY <1>3, <2>1, RequestStep, Zenon
<1> QED BY <1>4, <1>5, Zenon DEF tryDistribution

\* The next candidate, with the worker found or started
LEMMA AddCandidateOK ==
  ASSUME DistributionInv, NEW r \in FlowRequests, NEW w, st.req[r].todo # <<>>
  PROVE  RequestOK(addCandidate(r, w))
<1> DEFINE q == addCandidate(r, w)
<1>1. /\ DOMAIN st.req[r] = RequestFields /\ st.req[r].todo \in Seq(Shards)
  BY Zenon DEF DistributionInv, ShapeInv, RequestOK
<1>2. DOMAIN q = RequestFields /\ q.pc = "workers" /\ q.todo = Tail(st.req[r].todo)
  BY <1>1, Zenon DEF addCandidate, RequestFields
<1>3. Tail(st.req[r].todo) \in Seq(Shards)
  BY <1>1
<1> QED BY <1>2, <1>3, Zenon DEF RequestOK

\* getOrStartWorker finds the worker in the map, or builds one: the invariant is kept.
LEMMA GetWorkerStep ==
  ASSUME DistributionInv, part' = part, NEW r \in FlowRequests, getWorker(r)
  PROVE  DistributionInv'
<1> DEFINE s == Head(st.req[r].todo)
           found == addCandidate(r, st.workers[s])
           built == [shard |-> s, phase |-> "built", cancelled |-> ~st.running]
<1>1. /\ st.req[r].todo \in Seq(Shards) /\ st.req[r].todo # <<>> /\ s \in Shards
      /\ DOMAIN st.req[r] = RequestFields /\ DOMAIN st.req = FlowRequests
      /\ DOMAIN st = StateFields /\ st.instances \in Seq(InstanceType)
  BY DEF getWorker, DistributionInv, ShapeInv, RequestOK
<1>2. CASE s \in DOMAIN st.workers
  <2>1. RequestOK(found)
    BY <1>1, AddCandidateOK, Zenon
  <2>2. st' = [st EXCEPT !.req[r] = found]
    BY <1>2, Zenon DEF getWorker
  <2> HIDE DEF found
  <2>3. /\ DOMAIN st' = StateFields
        /\ st'.shards = st.shards /\ st'.workers = st.workers /\ st'.instances = st.instances
        /\ st'.raced = st.raced /\ st'.req = [st.req EXCEPT ![r] = found]
    BY <1>1, <2>2, Zenon DEF StateFields
  <2> QED BY <2>1, <2>3, RequestStep, Zenon
<1>3. CASE s \notin DOMAIN st.workers
  <2> DEFINE q == [st.req[r] EXCEPT !.pc = "store", !.mine = Len(st.instances) + 1]
  <2>1. built \in InstanceType
    BY <1>1, Zenon DEF InstanceType
  <2>2. st' = [st EXCEPT !.instances = Append(@, built),
                         !.req[r].pc = "store", !.req[r].mine = Len(st.instances) + 1]
    BY <1>3, Zenon DEF getWorker
  <2>3. built.shard = s /\ built.phase = "built"
    BY Zenon
  <2> HIDE DEF built
  <2>4. /\ DOMAIN st' = StateFields
        /\ st'.shards = st.shards /\ st'.workers = st.workers /\ st'.raced = st.raced
        /\ st'.instances = Append(st.instances, built)
        /\ st'.req = [st.req EXCEPT ![r] = q]
    BY <1>1, <2>2, Zenon DEF StateFields
  <2>5. /\ st'.instances \in Seq(InstanceType) /\ Len(st'.instances) = Len(st.instances) + 1
        /\ \A w \in 1..Len(st.instances) : st'.instances[w] = st.instances[w]
        /\ st'.instances[Len(st.instances) + 1] = built
        /\ Len(st.instances) \in Nat
    BY <1>1, <2>1, <2>4
  <2>6. \A x \in FlowRequests : RequestOK(st.req[x])'
    <3> TAKE x \in FlowRequests
    <3>1. CASE x = r
      <4>1. st'.req[x] = q
        BY <1>1, <2>4, <3>1, Zenon
      <4>2. DOMAIN q = RequestFields /\ q.todo = st.req[r].todo /\ q.mine = Len(st.instances) + 1
        BY <1>1, Zenon DEF RequestFields
      <4> QED BY <1>1, <2>3, <2>5, <4>1, <4>2 DEF RequestOK
    <3>2. CASE x # r
      <4>1. st'.req[x] = st.req[x] /\ RequestOK(st.req[x])
        BY <1>1, <2>4, <3>2, Zenon DEF DistributionInv, ShapeInv
      <4> HIDE DEF q
      <4>2. ASSUME st.req[x].pc = "store"
            PROVE  /\ st.req[x].mine \in 1..Len(st'.instances)
                   /\ st'.instances[st.req[x].mine] = st.instances[st.req[x].mine]
        BY <2>5, <4>1, <4>2 DEF RequestOK
      <4> QED BY <4>1, <4>2, Zenon DEF RequestOK
    <3> QED BY <3>1, <3>2, Zenon
  <2>7. DOMAIN st'.req = FlowRequests
    BY <1>1, <2>4, Zenon
  <2> HIDE DEF q
  <2>8. ShapeInv'
    BY <2>4, <2>5, <2>6, <2>7, Zenon DEF ShapeInv, DistributionInv
  <2>9. MapInv'
    BY <2>4, <2>5 DEF MapInv, DistributionInv
  <2>10. WorkerInv'
    BY <2>3, <2>4, <2>5 DEF WorkerInv, DistributionInv, Mapped
  <2> QED BY <2>8, <2>9, <2>10, Zenon DEF DistributionInv
<1> QED BY <1>2, <1>3, Zenon

\* A step that moves a request and leaves its list of shards alone.
LEMMA MoveStep ==
  ASSUME DistributionInv, part' = part, NEW r \in FlowRequests, NEW q,
         DOMAIN q = RequestFields, q.todo = st.req[r].todo, q.pc # "store",
         st' = [st EXCEPT !.req[r] = q]
  PROVE  DistributionInv'
<1>1. RequestOK(q)
  BY Zenon DEF RequestOK, DistributionInv, ShapeInv
<1>2. /\ DOMAIN st' = StateFields
      /\ st'.shards = st.shards /\ st'.workers = st.workers /\ st'.instances = st.instances
      /\ st'.raced = st.raced /\ st'.req = [st.req EXCEPT ![r] = q]
  BY Zenon DEF DistributionInv, ShapeInv, StateFields
<1> QED BY <1>1, <1>2, RequestStep, Zenon

\* selectDistributionCandidates orders the candidates, or finds none: the invariant is kept.
LEMMA SelectStep ==
  ASSUME DistributionInv, part' = part, NEW r \in FlowRequests, selectDistributionCandidates(r)
  PROVE  DistributionInv'
<1>1. CASE st' = Finish(r)
  BY <1>1, FinishStep, Zenon
<1>2. CASE st' # Finish(r)
  <2> DEFINE cs == SortSeq(st.req[r].candidates, LAMBDA a, b : a.byteSize < b.byteSize)
             q == [st.req[r] EXCEPT !.pc = "submit", !.candidates = cs]
  <2> HIDE DEF cs
  <2>1. st' = [st EXCEPT !.req[r] = q]
    <3>1. st' = [st EXCEPT !.req[r].pc = "submit", !.req[r].candidates = cs]
      BY <1>2, Zenon DEF selectDistributionCandidates, cs
    <3>2. DOMAIN st = StateFields /\ DOMAIN st.req = FlowRequests /\ DOMAIN st.req[r] = RequestFields
      BY Zenon DEF DistributionInv, ShapeInv, RequestOK
    <3> QED BY <3>1, <3>2, Zenon DEF StateFields, RequestFields
  <2>2. DOMAIN q = RequestFields /\ q.todo = st.req[r].todo /\ q.pc = "submit"
    BY Zenon DEF DistributionInv, ShapeInv, RequestOK, RequestFields
  <2> HIDE DEF q
  <2> QED BY <2>1, <2>2, MoveStep, Zenon
<1> QED BY <1>1, <1>2, Zenon

\* A processor takes the item: the invariant is kept.
LEMMA HandedStep ==
  ASSUME DistributionInv, part' = part, NEW r \in FlowRequests, NEW w, st' = Handed(r, w)
  PROVE  DistributionInv'
<1> DEFINE q == [st.req[r] EXCEPT !.pc = "await", !.mine = w, !.candidates = <<>>]
<1>1. DOMAIN st = StateFields /\ DOMAIN st.req = FlowRequests /\ DOMAIN st.req[r] = RequestFields
  BY Zenon DEF DistributionInv, ShapeInv, RequestOK
<1>2. st' = [st EXCEPT !.req[r] = q]
  BY <1>1, Zenon DEF Handed, StateFields, RequestFields
<1>3. DOMAIN q = RequestFields /\ q.todo = st.req[r].todo /\ q.pc = "await"
  BY <1>1, Zenon DEF RequestFields
<1> HIDE DEF q
<1> QED BY <1>2, <1>3, MoveStep, Zenon

\* A turn of distributeRequest with Submit: the invariant is kept.
LEMMA DistributeStep ==
  ASSUME DistributionInv, part' = part, NEW r \in FlowRequests, distributeRequest(r)
  PROVE  DistributionInv'
<1> DEFINE cs == st.req[r].candidates
           q == [st.req[r] EXCEPT !.pc = "block", !.candidates = <<cs[1]>>]
<1>1. CASE \E i \in Accepting(cs) : st' = Handed(r, cs[i].worker)
  BY <1>1, HandedStep, Zenon
<1>2. CASE st' = [st EXCEPT !.req[r].pc = "block", !.req[r].candidates = <<cs[1]>>]
  <2>1. DOMAIN st = StateFields /\ DOMAIN st.req = FlowRequests /\ DOMAIN st.req[r] = RequestFields
    BY Zenon DEF DistributionInv, ShapeInv, RequestOK
  <2>2. st' = [st EXCEPT !.req[r] = q]
    BY <1>2, <2>1, Zenon DEF StateFields, RequestFields
  <2>3. DOMAIN q = RequestFields /\ q.todo = st.req[r].todo /\ q.pc = "block"
    BY <2>1, Zenon DEF RequestFields
  <2> HIDE DEF q
  <2> QED BY <2>2, <2>3, MoveStep, Zenon
<1> QED BY <1>1, <1>2, Zenon DEF distributeRequest

\* The blocking SubmitOrBlock on the best candidate: the invariant is kept.
LEMMA BlockStep ==
  ASSUME DistributionInv, part' = part, NEW r \in FlowRequests, SubmitOrBlock(r)
  PROVE  DistributionInv'
<1> DEFINE w == st.req[r].candidates[1].worker
<1>1. CASE st' = Handed(r, w)
  BY <1>1, HandedStep, Zenon
<1>2. CASE st' = Finish(r)
  BY <1>2, FinishStep, Zenon
<1> QED BY <1>1, <1>2, Zenon DEF SubmitOrBlock

\* awaitFinalization ends, with a retry or for good: the invariant is kept.
LEMMA AwaitStep ==
  ASSUME DistributionInv, part' = part, NEW r \in FlowRequests, awaitFinalization(r)
  PROVE  DistributionInv'
<1> DEFINE q == [NewRequest EXCEPT !.attempts = st.req[r].attempts]
<1>1. CASE st' = Finish(r)
  BY <1>1, FinishStep, Zenon
<1>2. CASE st' = [st EXCEPT !.req[r] = q]
  <2>1. RequestOK(q)
    BY DEF RequestOK, NewRequest, RequestFields
  <2> HIDE DEF q
  <2>2. /\ DOMAIN st' = StateFields
        /\ st'.shards = st.shards /\ st'.workers = st.workers /\ st'.instances = st.instances
        /\ st'.raced = st.raced /\ st'.req = [st.req EXCEPT ![r] = q]
    BY <1>2, Zenon DEF DistributionInv, ShapeInv, StateFields
  <2> QED BY <2>1, <2>2, RequestStep, Zenon
<1> QED BY <1>1, <1>2, Zenon DEF awaitFinalization

\* The shape survives a step that changes workers and one request.
LEMMA ShapeStep ==
  ASSUME DistributionInv, NEW r \in FlowRequests, NEW q, RequestOK(q),
         DOMAIN st' = StateFields, st'.shards = st.shards,
         st'.instances \in Seq(InstanceType), Len(st'.instances) = Len(st.instances),
         \A w \in 1..Len(st.instances) : st'.instances[w].shard = st.instances[w].shard,
         st'.req = [st.req EXCEPT ![r] = q] \/ st'.req = st.req
  PROVE  ShapeInv'
<1>1. Len(st.instances) \in Nat /\ DOMAIN st.req = FlowRequests
  BY DEF DistributionInv, ShapeInv
<1>2. DOMAIN st'.req = FlowRequests /\ Len(st'.instances) \in Nat
  BY <1>1, Zenon
<1>3. ASSUME NEW x \in FlowRequests PROVE RequestOK(st.req[x])'
  <2>1. RequestOK(st.req[x]) /\ (st'.req[x] = q \/ st'.req[x] = st.req[x])
    BY <1>1, Zenon DEF DistributionInv, ShapeInv
  <2>2. ASSUME NEW p, RequestOK(p), st'.req[x] = p PROVE RequestOK(st.req[x])'
    BY <1>1, <2>2, Zenon DEF RequestOK
  <2> QED BY <2>1, <2>2, Zenon
<1> QED BY <1>2, <1>3, Zenon DEF ShapeInv, DistributionInv

\* A new worker is stored and started, unless another request was faster: the invariant is kept.
LEMMA StartStep ==
  ASSUME DistributionInv, part' = part, NEW r \in FlowRequests, startWorker(r)
  PROVE  DistributionInv'
<1> DEFINE s == Head(st.req[r].todo)
           m == st.req[r].mine
<1>1. /\ DOMAIN st = StateFields /\ DOMAIN st.req = FlowRequests
      /\ st.instances \in Seq(InstanceType) /\ Len(st.instances) \in Nat
  BY DEF DistributionInv, ShapeInv
<1>2. /\ st.req[r].todo \in Seq(Shards) /\ st.req[r].todo # <<>> /\ s \in Shards
      /\ m \in 1..Len(st.instances) /\ st.instances[m].shard = s
  <2>1. RequestOK(st.req[r]) /\ st.req[r].pc = "store"
    BY Zenon DEF startWorker, DistributionInv, ShapeInv
  <2> QED BY <2>1 DEF RequestOK
<1>3. st.instances[m] \in InstanceType
  BY <1>1, <1>2, SMTT(30)
<1> HIDE DEF s, m
<1>4. CASE s \in DOMAIN st.workers
  <2> DEFINE q == addCandidate(r, st.workers[s])
             i == [st.instances[m] EXCEPT !.cancelled = TRUE]
  <2>1. RequestOK(q)
    BY <1>2, AddCandidateOK, Zenon
  <2>2. st' = [st EXCEPT !.instances[m].cancelled = TRUE, !.req[r] = q]
    BY <1>4, Zenon DEF startWorker, s, m
  <2>3. i \in InstanceType /\ i.shard = s /\ i.phase = st.instances[m].phase /\ i.cancelled
    BY <1>2, <1>3, Zenon DEF InstanceType
  <2> HIDE DEF q
  <2>4. /\ DOMAIN st' = StateFields /\ st'.shards = st.shards /\ st'.workers = st.workers
        /\ st'.raced = st.raced /\ st'.instances = [st.instances EXCEPT ![m] = i]
        /\ st'.req = [st.req EXCEPT ![r] = q]
    BY <1>1, <2>2, Zenon DEF StateFields
  <2> HIDE DEF i
  <2>5. /\ st'.instances \in Seq(InstanceType) /\ Len(st'.instances) = Len(st.instances)
        /\ \A w \in 1..Len(st.instances) :
             /\ st'.instances[w].shard = st.instances[w].shard
             /\ st'.instances[w].phase = st.instances[w].phase
             /\ st.instances[w].cancelled => st'.instances[w].cancelled
    BY <1>1, <1>2, <2>3, <2>4, SMTT(30)
  <2>6. ShapeInv'
    BY <2>1, <2>4, <2>5, ShapeStep, Zenon
  <2>7. MapInv'
    BY <2>4, <2>5, SMTT(30) DEF MapInv, DistributionInv
  <2>8. WorkerInv'
    BY <2>4, <2>5, SMTT(30) DEF WorkerInv, DistributionInv, Mapped
  <2> QED BY <2>6, <2>7, <2>8 DEF DistributionInv
<1>5. CASE s \notin DOMAIN st.workers
  <2> DEFINE q == addCandidate(r, m)
             i == [st.instances[m] EXCEPT !.phase = "running"]
             ws == With(st.workers, s, m)
  <2>1. RequestOK(q)
    BY <1>2, AddCandidateOK, Zenon
  <2>2. st' = [st EXCEPT !.workers = ws, !.instances[m].phase = "running", !.req[r] = q]
    BY <1>5, Zenon DEF startWorker, s, m
  <2>3. i \in InstanceType /\ i.shard = s /\ i.cancelled = st.instances[m].cancelled
    BY <1>2, <1>3, Zenon DEF InstanceType
  <2>4. /\ DOMAIN ws = DOMAIN st.workers \cup {s} /\ ws[s] = m
        /\ \A t \in DOMAIN st.workers : ws[t] = st.workers[t]
    BY <1>5, Zenon DEF With
  <2> HIDE DEF q, ws
  <2>5. /\ DOMAIN st' = StateFields /\ st'.shards = st.shards /\ st'.workers = ws
        /\ st'.raced = st.raced /\ st'.instances = [st.instances EXCEPT ![m] = i]
        /\ st'.req = [st.req EXCEPT ![r] = q]
    BY <1>1, <2>2, Zenon DEF StateFields
  <2> HIDE DEF i
  <2>6. /\ st'.instances \in Seq(InstanceType) /\ Len(st'.instances) = Len(st.instances)
        /\ \A w \in 1..Len(st.instances) :
             /\ st'.instances[w].shard = st.instances[w].shard
             /\ w # m => st'.instances[w].phase = st.instances[w].phase
             /\ st.instances[w].cancelled => st'.instances[w].cancelled
    BY <1>1, <1>2, <2>3, <2>5, SMTT(30)
  <2>7. ShapeInv'
    BY <2>1, <2>5, <2>6, ShapeStep, Zenon
  <2>8. MapInv'
    <3> SUFFICES ASSUME NEW t \in DOMAIN ws
                 PROVE  ws[t] \in 1..Len(st.instances) /\ st'.instances[ws[t]].shard = t
      BY <2>5, <2>6, Zenon DEF MapInv
    <3>1. CASE t = s
      BY <1>2, <1>3, <2>4, <2>6, <3>1, Zenon
    <3>2. CASE t \in DOMAIN st.workers
      <4>1. st.workers[t] \in 1..Len(st.instances) /\ st.instances[st.workers[t]].shard = t
        BY <3>2, Zenon DEF MapInv, DistributionInv
      <4> QED BY <2>4, <2>6, <3>2, <4>1, Zenon
    <3> QED BY <2>4, <3>1, <3>2, Zenon
  <2>9. WorkerInv'
    <3> SUFFICES ASSUME NEW w \in 1..Len(st.instances), st'.instances[w].phase = "running", ~Mapped(w)'
                 PROVE  /\ st'.instances[w].cancelled
                        /\ \/ st'.instances[w].shard \in st'.raced
                           \/ st'.shards[st'.instances[w].shard] = "gone"
      BY <2>6, Zenon DEF WorkerInv
    <3>1. w # m
      <4>1. st'.instances[m].shard = s /\ s \in DOMAIN st'.workers /\ st'.workers[s] = m
        BY <1>2, <1>3, <2>4, <2>5, <2>6, Zenon
      <4> QED BY <4>1, Zenon DEF Mapped
    <3>2. st'.instances[w].shard = st.instances[w].shard
      BY <2>6, Zenon
    <3>3. ~Mapped(w)
      BY <2>4, <2>5, <3>2, Zenon DEF Mapped
    <3> QED BY <2>5, <2>6, <3>1, <3>3 DEF WorkerInv, DistributionInv
  <2> QED BY <2>7, <2>8, <2>9, Zenon DEF DistributionInv
<1> QED BY <1>4, <1>5, Zenon

-----------------------------------------------------------------------------
(* The supervisor's steps.                                                 *)

\* reconcileProcessors begins with the shards the registry has at that moment: the invariant is kept.
LEMMA ReconcileStartStep ==
  ASSUME DistributionInv, part' = part, ReconcileStart
  PROVE  DistributionInv'
<1> DEFINE c == [known |-> {s \in Shards : st.shards[s] \in {"active", "draining"}}, todo |-> Shards]
<1>1. st' = [st EXCEPT !.collector = c]
  BY Zenon DEF ReconcileStart
<1> HIDE DEF c
<1>2. /\ DOMAIN st' = StateFields /\ st'.shards = st.shards /\ st'.workers = st.workers
      /\ st'.instances = st.instances /\ st'.raced = st.raced /\ st'.req = st.req
  BY <1>1, Zenon DEF DistributionInv, ShapeInv, StateFields
<1>3. ShapeInv'
  BY <1>2, Zenon DEF DistributionInv, ShapeInv, RequestOK
<1> QED BY <1>2, <1>3 DEF DistributionInv, MapInv, WorkerInv, Mapped

\* reconcileProcessors visits a worker, and deletes and cancels a stale one: the invariant is kept.
LEMMA ReconcileStepStep ==
  ASSUME DistributionInv, part' = part, NEW s \in Shards, ReconcileStep(s)
  PROVE  DistributionInv'
<1> DEFINE stale == s \in DOMAIN st.workers /\ s \notin st.collector.known
           m == st.workers[s]
           left == st.collector.todo \ {s}
           c == IF left = {} THEN Nil ELSE [st.collector EXCEPT !.todo = left]
           is == IF stale THEN [st.instances EXCEPT ![m].cancelled = TRUE] ELSE st.instances
           ws == IF stale THEN Without(st.workers, {s}) ELSE st.workers
           rs == IF stale /\ st.shards[s] # "gone" THEN st.raced \cup {s} ELSE st.raced
<1>1. /\ DOMAIN st = StateFields /\ DOMAIN st.req = FlowRequests
      /\ st.instances \in Seq(InstanceType) /\ Len(st.instances) \in Nat
  BY DEF DistributionInv, ShapeInv
<1>2. st' = [st EXCEPT !.collector = c, !.instances = is, !.workers = ws, !.raced = rs]
  BY Zenon DEF ReconcileStep
<1>3. stale => m \in 1..Len(st.instances) /\ st.instances[m] \in InstanceType /\ st.instances[m].shard = s
  BY <1>1, SMTT(30) DEF MapInv, DistributionInv
<1>4. /\ is \in Seq(InstanceType) /\ Len(is) = Len(st.instances)
      /\ \A w \in 1..Len(st.instances) :
           /\ is[w].shard = st.instances[w].shard /\ is[w].phase = st.instances[w].phase
           /\ st.instances[w].cancelled => is[w].cancelled
      /\ stale => is[m].cancelled
  <2>1. CASE ~stale
    BY <1>1, <2>1, Zenon
  <2>2. CASE stale
    <3> DEFINE i == [st.instances[m] EXCEPT !.cancelled = TRUE]
    <3>1. i \in InstanceType /\ i.shard = s /\ i.phase = st.instances[m].phase /\ i.cancelled
      BY <1>3, <2>2, Zenon DEF InstanceType
    <3>2. is = [st.instances EXCEPT ![m] = i]
      BY <2>2, Zenon
    <3> HIDE DEF i, is
    <3> QED BY <1>1, <1>3, <2>2, <3>1, <3>2, SMTT(30)
  <2> QED BY <2>1, <2>2, Zenon
<1>5. /\ DOMAIN ws = IF stale THEN DOMAIN st.workers \ {s} ELSE DOMAIN st.workers
      /\ \A t \in DOMAIN ws : ws[t] = st.workers[t]
  BY Zenon DEF Without
<1>6. st.raced \subseteq rs /\ (stale => s \in rs \/ st.shards[s] = "gone")
  BY Zenon
<1> HIDE DEF c, is, ws, rs
<1>7. /\ DOMAIN st' = StateFields /\ st'.shards = st.shards /\ st'.workers = ws
      /\ st'.instances = is /\ st'.raced = rs /\ st'.req = st.req
  BY <1>1, <1>2, Zenon DEF StateFields
<1>8. ShapeInv'
  <2>1. \A x \in FlowRequests : RequestOK(st.req[x])'
    BY <1>1, <1>4, <1>7 DEF DistributionInv, ShapeInv, RequestOK
  <2> QED BY <1>1, <1>4, <1>7, <2>1, Zenon DEF DistributionInv, ShapeInv
<1>9. MapInv'
  BY <1>4, <1>5, <1>7 DEF DistributionInv, MapInv
<1>10. WorkerInv'
  <2> SUFFICES ASSUME NEW w \in 1..Len(st.instances), st'.instances[w].phase = "running", ~Mapped(w)'
               PROVE  /\ st'.instances[w].cancelled
                      /\ \/ st'.instances[w].shard \in st'.raced
                         \/ st'.shards[st'.instances[w].shard] = "gone"
    BY <1>4, <1>7, Zenon DEF WorkerInv
  <2>1. st'.instances[w].shard = st.instances[w].shard /\ st.instances[w].phase = "running"
    BY <1>4, <1>7, Zenon
  <2>2. CASE ~Mapped(w)
    BY <1>4, <1>6, <1>7, <2>1, <2>2, Zenon DEF DistributionInv, WorkerInv
  <2>3. CASE Mapped(w)
    <3>1. stale /\ w = m
      BY <1>5, <1>7, <2>1, <2>3, Zenon DEF Mapped
    <3> QED BY <1>3, <1>4, <1>6, <1>7, <2>1, <3>1, SMTT(30)
  <2> QED BY <2>2, <2>3, Zenon
<1> QED BY <1>8, <1>9, <1>10, Zenon DEF DistributionInv

\* Contexts that end and processors that return take no worker out of the map.
LEMMA WindDown ==
  ASSUME DistributionInv, part' = part, DOMAIN st' = StateFields,
         st'.shards = st.shards, st'.workers = st.workers, st'.raced = st.raced, st'.req = st.req,
         st'.instances \in Seq(InstanceType), Len(st'.instances) = Len(st.instances),
         \A w \in 1..Len(st.instances) :
           /\ st'.instances[w].shard = st.instances[w].shard
           /\ st'.instances[w].phase = "running" => st.instances[w].phase = "running"
           /\ st.instances[w].cancelled => st'.instances[w].cancelled
  PROVE  DistributionInv'
<1>1. Len(st.instances) \in Nat /\ DOMAIN st.req = FlowRequests
  BY DEF DistributionInv, ShapeInv
<1>2. \A x \in FlowRequests : RequestOK(st.req[x])'
  BY <1>1 DEF DistributionInv, ShapeInv, RequestOK
<1>3. ShapeInv'
  BY <1>1, <1>2, Zenon DEF DistributionInv, ShapeInv
<1>4. MapInv'
  BY DEF DistributionInv, MapInv
<1>5. WorkerInv'
  BY DEF DistributionInv, WorkerInv, Mapped
<1> QED BY <1>3, <1>4, <1>5, Zenon DEF DistributionInv

\* The controller shuts its workers down: the invariant is kept.
LEMMA ShutdownStep ==
  ASSUME DistributionInv, part' = part, Shutdown
  PROVE  DistributionInv'
<1> DEFINE is == [i \in DOMAIN st.instances |-> [st.instances[i] EXCEPT !.cancelled = TRUE]]
<1>1. DOMAIN st = StateFields /\ st.instances \in Seq(InstanceType) /\ Len(st.instances) \in Nat
  BY DEF DistributionInv, ShapeInv
<1>2. st' = [st EXCEPT !.running = FALSE, !.collector = Nil, !.instances = is]
  BY Zenon DEF Shutdown
<1>3. ASSUME NEW w \in 1..Len(st.instances)
      PROVE  /\ is[w] \in InstanceType /\ is[w].shard = st.instances[w].shard
             /\ is[w].phase = st.instances[w].phase /\ is[w].cancelled
  <2>1. st.instances[w] \in InstanceType /\ is[w] = [st.instances[w] EXCEPT !.cancelled = TRUE]
    BY <1>1
  <2> HIDE DEF is
  <2> QED BY <2>1, Zenon DEF InstanceType
<1>4. is \in [1..Len(st.instances) -> InstanceType]
  <2>1. DOMAIN is = 1..Len(st.instances) /\ is = [i \in DOMAIN is |-> is[i]]
    BY <1>1
  <2> HIDE DEF is
  <2> QED BY <1>3, <2>1, Zenon
<1> HIDE DEF is
<1>5. is \in Seq(InstanceType) /\ Len(is) = Len(st.instances)
  BY <1>1, <1>4
<1>6. /\ DOMAIN st' = StateFields /\ st'.shards = st.shards /\ st'.workers = st.workers
      /\ st'.raced = st.raced /\ st'.req = st.req /\ st'.instances = is
  BY <1>1, <1>2, Zenon DEF StateFields
<1> QED BY <1>3, <1>5, <1>6, WindDown, Zenon

\* The goroutine of a worker returns: the invariant is kept.
LEMMA WorkerExitsStep ==
  ASSUME DistributionInv, part' = part, NEW m \in DOMAIN st.instances, WorkerExits(m)
  PROVE  DistributionInv'
<1> DEFINE i == [st.instances[m] EXCEPT !.phase = "exited"]
<1>1. /\ DOMAIN st = StateFields /\ st.instances \in Seq(InstanceType) /\ Len(st.instances) \in Nat
      /\ m \in 1..Len(st.instances) /\ st.instances[m] \in InstanceType
  BY DEF DistributionInv, ShapeInv
<1>2. /\ i \in InstanceType /\ i.shard = st.instances[m].shard /\ i.phase = "exited"
      /\ i.cancelled = st.instances[m].cancelled
  BY <1>1, Zenon DEF InstanceType
<1>3. /\ DOMAIN st' = StateFields /\ st'.shards = st.shards /\ st'.workers = st.workers
      /\ st'.raced = st.raced /\ st'.req = st.req /\ st'.instances = [st.instances EXCEPT ![m] = i]
  BY <1>1, Zenon DEF WorkerExits, StateFields
<1> HIDE DEF i
<1>4. /\ st'.instances \in Seq(InstanceType) /\ Len(st'.instances) = Len(st.instances)
      /\ \A w \in 1..Len(st.instances) : st'.instances[w] = IF w = m THEN i ELSE st.instances[w]
  BY <1>1, <1>2, <1>3, SMTT(30)
<1> QED BY <1>2, <1>3, <1>4, WindDown, Zenon

\* A shard that is gone stays gone: its id is not used again.
LEMMA ShardChangesStep ==
  ASSUME DistributionInv, part' = part, NEW s \in Shards, ShardChanges(s)
  PROVE  DistributionInv'
<1> DEFINE next == CASE st.shards[s] = "new" -> "active" [] st.shards[s] = "active" -> "draining"
                     [] st.shards[s] = "draining" -> "gone"
<1>1. /\ DOMAIN st = StateFields /\ st.shards \in [Shards -> {"new", "active", "draining", "gone"}]
      /\ st.shards[s] # "gone"
  BY Zenon DEF DistributionInv, ShapeInv, ShardChanges
<1>2. next \in {"new", "active", "draining", "gone"}
  BY <1>1, Zenon
<1>3. st' = [st EXCEPT !.changes = st.changes + 1, !.shards[s] = next]
  BY Zenon DEF ShardChanges
<1> HIDE DEF next
<1>4. /\ DOMAIN st' = StateFields /\ st'.workers = st.workers /\ st'.instances = st.instances
      /\ st'.raced = st.raced /\ st'.req = st.req /\ st'.shards = [st.shards EXCEPT ![s] = next]
  BY <1>1, <1>3, Zenon DEF StateFields
<1>5. /\ st'.shards \in [Shards -> {"new", "active", "draining", "gone"}]
      /\ \A t \in Shards : st.shards[t] = "gone" => st'.shards[t] = "gone"
  BY <1>1, <1>2, <1>4, Zenon
<1>6. ShapeInv'
  BY <1>4, <1>5 DEF DistributionInv, ShapeInv, RequestOK
<1>7. MapInv'
  BY <1>4, Zenon DEF DistributionInv, MapInv
<1>8. \A w \in 1..Len(st.instances) : st.instances[w].shard \in Shards
  <2> TAKE w \in 1..Len(st.instances)
  <2>1. st.instances[w] \in InstanceType
    BY DEF DistributionInv, ShapeInv
  <2> QED BY <2>1, Zenon DEF InstanceType
<1>9. WorkerInv'
  BY <1>4, <1>5, <1>8 DEF DistributionInv, WorkerInv, Mapped
<1> QED BY <1>6, <1>7, <1>9, Zenon DEF DistributionInv

-----------------------------------------------------------------------------
(* The theorem.                                                            *)

\* The invariant holds before the first request.
LEMMA DistributionInitInv ==
  ASSUME part = "distribution", DistributionInit
  PROVE  DistributionInv
<1> DEFINE first == CHOOSE f \in Shards : TRUE
           ss == [s \in Shards |-> IF s = first THEN "active" ELSE "new"]
           rq == [r \in FlowRequests |-> NewRequest]
<1>1. st = [shards |-> ss, changes |-> 0, workers |-> <<>>, instances |-> <<>>, collector |-> Nil,
            running |-> TRUE, req |-> rq, raced |-> {}]
  BY Zenon DEF DistributionInit
<1>2. ss \in [Shards -> {"new", "active", "draining", "gone"}] /\ DOMAIN rq = FlowRequests
  BY Zenon
<1>3. \A r \in FlowRequests : rq[r] = NewRequest
  BY Zenon
<1> HIDE DEF ss, rq
<1>4. /\ DOMAIN st = StateFields /\ st.shards = ss /\ st.workers = <<>> /\ st.instances = <<>>
      /\ st.req = rq
  BY <1>1, Zenon DEF StateFields
<1>5. RequestOK(NewRequest)
  BY DEF RequestOK, NewRequest, RequestFields
<1>6. ShapeInv
  BY <1>2, <1>3, <1>4, <1>5 DEF ShapeInv
<1>7. MapInv /\ WorkerInv
  BY <1>4 DEF MapInv, WorkerInv
<1> QED BY <1>6, <1>7, Zenon DEF DistributionInv

\* Every step keeps the invariant.
LEMMA DistributionNextInv ==
  ASSUME DistributionInv, [UNCHANGED part /\ DistributionNext]_<<part, st>>
  PROVE  DistributionInv'
<1>1. CASE UNCHANGED <<part, st>>
  BY <1>1, Zenon DEF DistributionInv, ShapeInv, RequestOK, MapInv, WorkerInv, Mapped
<1>2. CASE part' = part /\ \E r \in FlowRequests :
             \/ tryDistribution(r) \/ getWorker(r) \/ startWorker(r) \/ selectDistributionCandidates(r)
             \/ distributeRequest(r) \/ SubmitOrBlock(r) \/ awaitFinalization(r)
  BY <1>2, TryDistributionStep, GetWorkerStep, StartStep, SelectStep, DistributeStep, BlockStep, AwaitStep, Zenon
<1>3. CASE part' = part /\ ReconcileStart
  BY <1>3, ReconcileStartStep, Zenon
<1>4. CASE part' = part /\ \E s \in Shards : ReconcileStep(s) \/ ShardChanges(s)
  BY <1>4, ReconcileStepStep, ShardChangesStep, Zenon
<1>5. CASE part' = part /\ Shutdown
  BY <1>5, ShutdownStep, Zenon
<1>6. CASE part' = part /\ \E w \in DOMAIN st.instances : WorkerExits(w)
  BY <1>6, WorkerExitsStep, Zenon
<1> QED BY <1>1, <1>2, <1>3, <1>4, <1>5, <1>6, Zenon DEF DistributionNext

\* The invariant gives one processor per shard.
LEMMA OneWorker ==
  ASSUME DistributionInv
  PROVE  OneProcessorPerShard
<1> SUFFICES ASSUME NEW s \in Shards,
                    NEW live, live = {w \in DOMAIN st.instances :
                                        st.instances[w].shard = s /\ st.instances[w].phase = "running"}
             PROVE  /\ \A w \in {v \in live : ~Stopping(v)} : s \in DOMAIN st.workers /\ st.workers[s] = w
                    /\ s \notin st.raced /\ st.shards[s] # "gone" => Cardinality(live) =< 1
  BY Zenon DEF OneProcessorPerShard
<1>1. \A w \in live : w \in 1..Len(st.instances) /\ st.instances[w].shard = s
                      /\ st.instances[w].phase = "running"
  BY DEF DistributionInv, ShapeInv
<1>2. \A w \in live : \/ s \in DOMAIN st.workers /\ st.workers[s] = w
                      \/ st.instances[w].cancelled /\ (s \in st.raced \/ st.shards[s] = "gone")
  BY <1>1, Zenon DEF DistributionInv, WorkerInv, Mapped
<1>3. ASSUME s \notin st.raced, st.shards[s] # "gone" PROVE Cardinality(live) =< 1
  <2>1. live \subseteq {st.workers[s]}
    BY <1>2, <1>3, Zenon
  <2>2. live = {} \/ live = {st.workers[s]}
    BY <2>1, Zenon
  <2>3. Cardinality(live) = 0 \/ Cardinality(live) = 1
    <3>1. CASE live = {}
      BY <3>1, FS_EmptySet, Zenon
    <3>2. CASE live = {st.workers[s]}
      BY <3>2, FS_Singleton, Zenon
    <3> QED BY <2>2, <3>1, <3>2, Zenon
  <2> QED BY <2>3
<1> QED BY <1>2, <1>3, Zenon DEF Stopping

(***************************************************************************)
(* For any shards, any callers of EnqueueAndWait and any number of         *)
(* changes of the registry's shards: the worker that getOrStartWorker's    *)
(* LoadOrStore put into the map is the only processor of its shard that    *)
(* works, and a processor that is still shutting down overlaps with a new  *)
(* one only in the two cases the property names.                           *)
(***************************************************************************)
THEOREM ShardHasOneProcessor == DistributionSpec => []OneProcessorPerShard
<1>1. part = "distribution" /\ DistributionInit => DistributionInv
  BY DistributionInitInv, Zenon
<1>2. DistributionInv /\ [UNCHANGED part /\ DistributionNext]_<<part, st>> => DistributionInv'
  BY DistributionNextInv, Zenon
<1>3. DistributionInv => OneProcessorPerShard
  BY OneWorker, Zenon
<1> QED BY <1>1, <1>2, <1>3, PTL DEF DistributionSpec

-----------------------------------------------------------------------------
(* The candidates of a request.                                            *)

CandidatesSpec ==
  part = "candidates" /\ CandidatesInit /\ [][UNCHANGED part /\ CandidatesNext]_<<part, st>>

CandidatesFields == {"disabled", "pods", "now", "past", "cache", "last", "changes"}

\* The times from which an unexpired entry may be.
Window == Max2(0, st.now - CacheTTL + 1)..st.now

\* What list selected from the endpoints of time t.
SelectedAt(t, list, got) == \E pods \in st.past[t] : got = Select(pods, list)

\* An entry is under the key of the list it was computed for, at the time it
\* was computed.
EntryOK(k) ==
  /\ st.cache[k].list \in SubsetLists /\ generateCacheKey(st.cache[k].list) = k
  /\ st.cache[k].expiry \in Int /\ st.cache[k].expiry - CacheTTL =< st.now
  /\ st.cache[k].expiry >= CacheTTL
  /\ st.now < st.cache[k].expiry =>
       SelectedAt(st.cache[k].expiry - CacheTTL, st.cache[k].list, st.cache[k].pods)

CandidatesInv ==
  /\ part = "candidates" /\ DOMAIN st = CandidatesFields
  /\ st.now \in Nat /\ DOMAIN st.past = Window /\ st.pods \in st.past[st.now]
  /\ \A k \in DOMAIN st.cache : EntryOK(k)
  /\ CandidatesFresh

\* The three kinds of keys.
LEMMA KeyKinds ==
  ASSUME NEW list \in SubsetLists
  PROVE  \/ list = Nil /\ generateCacheKey(list) = DefaultKey
         \/ list # Nil /\ Malformed(list) /\ generateCacheKey(list) = DefaultKey
         \/ list # Nil /\ list = <<>> /\ generateCacheKey(list) = EmptyKey
         \/ list # Nil /\ generateCacheKey(list) = joined(strings(list))
<1>1. list # Nil /\ Len(list) = 1 /\ list[1] = Nil => list = <<Nil>>
  BY CandidatesAssumption
<1> QED BY <1>1, Zenon DEF generateCacheKey, Malformed

\* The keys of no list, of an empty list and of a list with addresses are three.
LEMMA KeysDiffer ==
  ASSUME NEW l
  PROVE  DefaultKey # EmptyKey /\ DefaultKey # joined(l) /\ EmptyKey # joined(l)
<1>1. DefaultKey.kind = "default" /\ EmptyKey.kind = "empty" /\ joined(l).kind = "list"
  BY Zenon DEF DefaultKey, EmptyKey, joined
<1> QED BY <1>1, Zenon

\* Lists under one key select the same endpoints, the malformed list apart:
\* the joined strings tell which strings there are.
LEMMA SameSelection ==
  ASSUME NEW l \in SubsetLists, NEW m \in SubsetLists, generateCacheKey(l) = generateCacheKey(m),
         generateCacheKey(l) = DefaultKey => ~Malformed(l) /\ ~Malformed(m),
         NEW pods
  PROVE  Select(pods, l) = Select(pods, m)
<1> DEFINE key == generateCacheKey(l)
<1>1. CASE key = DefaultKey
  <2>1. l = Nil /\ m = Nil
    BY <1>1, KeyKinds, KeysDiffer, Zenon
  <2> QED BY <2>1, Zenon
<1>2. CASE key = EmptyKey
  <2>1. l = <<>> /\ m = <<>>
    BY <1>2, KeyKinds, KeysDiffer, Zenon
  <2> QED BY <2>1, Zenon
<1>3. CASE key # DefaultKey /\ key # EmptyKey
  <2>1. l # Nil /\ m # Nil /\ joined(strings(l)) = joined(strings(m))
    BY <1>3, KeyKinds, Zenon
  <2>2. ASSUME NEW q PROVE joined(q).strings = [e \in Range(q) |-> Cardinality({i \in DOMAIN q : q[i] = e})]
    BY Zenon DEF joined
  <2>3. ASSUME NEW q PROVE DOMAIN joined(q).strings = Range(q)
    BY <2>2, Zenon
  <2>4. Range(strings(l)) = Range(strings(m))
    BY <2>1, <2>3, Zenon
  <2> QED BY <2>1, <2>4, Zenon DEF Select
<1> QED BY <1>1, <1>2, <1>3, Zenon

\* The invariant of the cache holds before the first lookup.
LEMMA CandidatesInitInv ==
  ASSUME part = "candidates", CandidatesInit
  PROVE  CandidatesInv
<1>1. PICK d \in BOOLEAN :
        st = [disabled |-> d, pods |-> Addresses, now |-> 0, past |-> [t \in {0} |-> {Addresses}],
              cache |-> <<>>, last |-> Nil, changes |-> 0]
  BY Zenon DEF CandidatesInit
<1>2. Window = 0..0
  BY <1>1, CandidatesAssumption DEF Window, Max2
<1>3. DOMAIN [t \in {0} |-> {Addresses}] = {0} /\ [t \in {0} |-> {Addresses}][0] = {Addresses}
  BY Zenon
<1>4. 0..0 = {0}
  OBVIOUS
<1>5. CandidatesFresh
  BY <1>1, Zenon DEF CandidatesFresh
<1>6. DOMAIN st = CandidatesFields /\ st.now = 0 /\ st.past = [t \in {0} |-> {Addresses}]
      /\ st.pods = Addresses /\ st.cache = <<>>
  BY <1>1, Zenon DEF CandidatesFields
<1>7. DOMAIN st.cache = {}
  BY <1>6
<1> QED BY <1>2, <1>3, <1>4, <1>5, <1>6, <1>7 DEF CandidatesInv

\* CachedLocate: a fresh entry answers for a list with its key, any other
\* lookup is of the present endpoints.
LEMMA LocateStep ==
  ASSUME CandidatesInv, part' = part, NEW list \in SubsetLists, CachedLocate(list)
  PROVE  CandidatesInv'
<1> DEFINE key == generateCacheKey(list)
           fresh == key \in DOMAIN st.cache /\ st.now < st.cache[key].expiry
           got == IF fresh THEN st.cache[key].pods ELSE Select(st.pods, list)
           entry == [list |-> list, pods |-> got, expiry |-> st.now + CacheTTL]
           answer == [list |-> list, pods |-> got]
<1>1. /\ DOMAIN st' = CandidatesFields /\ st'.now = st.now /\ st'.past = st.past
      /\ st'.pods = st.pods /\ st'.disabled = st.disabled
      /\ st'.last = answer
      /\ st'.cache = IF fresh THEN st.cache ELSE With(st.cache, key, entry)
  BY Zenon DEF CachedLocate, CandidatesInv, CandidatesFields
<1>2. /\ key = generateCacheKey(list) /\ answer.list = list /\ answer.pods = got
      /\ entry.list = list /\ entry.pods = got /\ entry.expiry = st.now + CacheTTL
      /\ fresh => got = st.cache[key].pods /\ key \in DOMAIN st.cache /\ st.now < st.cache[key].expiry
      /\ ~fresh => got = Select(st.pods, list)
  BY Zenon
<1> HIDE DEF key, fresh, got, entry, answer
<1>3. /\ st.now \in Nat /\ CacheTTL \in Nat \ {0} /\ Window' = Window
      /\ \A t \in Nat : t \in Window <=> st.now - CacheTTL + 1 =< t /\ t =< st.now
  BY <1>1, CandidatesAssumption DEF CandidatesInv, Window, Max2
<1>4. ASSUME NEW p, NEW l PROVE Select(p, l)' = Select(p, l)
  BY <1>1, Zenon DEF Select
<1>5. st.pods \in st.past[st.now]
  BY Zenon DEF CandidatesInv
<1>6. PICK g, n, now : g = got /\ n = entry.expiry /\ now = st.now
  BY Zenon
<1>7. ASSUME NEW k \in DOMAIN st'.cache PROVE EntryOK(k)'
  <2>1. CASE k \in DOMAIN st.cache /\ st'.cache[k] = st.cache[k]
    <3>1. EntryOK(k)
      BY <2>1, Zenon DEF CandidatesInv
    <3> QED BY <1>1, <1>4, <2>1, <3>1, Zenon DEF EntryOK, SelectedAt
  <2>2. CASE ~fresh /\ k = key /\ st'.cache[k] = entry
    <3>1. n - CacheTTL = now /\ n \in Int /\ n >= CacheTTL /\ now =< now
      BY <1>2, <1>3, <1>6
    <3>2. SelectedAt(now, list, g)'
      BY <1>1, <1>2, <1>4, <1>5, <1>6, <2>2, Zenon DEF SelectedAt
    <3> QED BY <1>1, <1>2, <1>6, <2>2, <3>1, <3>2, Zenon DEF EntryOK
  <2>3. (k \in DOMAIN st.cache /\ st'.cache[k] = st.cache[k]) \/ (~fresh /\ k = key /\ st'.cache[k] = entry)
    BY <1>1 DEF With
  <2> QED BY <2>1, <2>2, <2>3, Zenon
<1>8. ASSUME NEW t \in Window, NEW p \in st.past[t], g = Select(p, list) PROVE CandidatesFresh'
  <2>1. g = Select(p, list)'
    BY <1>4, <1>8, Zenon
  <2> QED BY <1>1, <1>2, <1>3, <1>6, <1>8, <2>1, Zenon DEF CandidatesFresh, Window
<1>9. ASSUME fresh PROVE CandidatesFresh'
  <2>1. /\ key \in DOMAIN st.cache /\ st.now < st.cache[key].expiry /\ st'.cache = st.cache
        /\ got = st.cache[key].pods
    BY <1>1, <1>2, <1>9, Zenon
  <2>2. EntryOK(key)
    BY <2>1, Zenon DEF CandidatesInv
  <2>3. CASE key = DefaultKey /\ (Malformed(st.cache[key].list) \/ Malformed(list))
    BY <1>1, <1>2, <2>1, <2>3, Zenon DEF CandidatesFresh
  <2>4. CASE key = DefaultKey => ~Malformed(st.cache[key].list) /\ ~Malformed(list)
    <3>1. PICK t : t = st.cache[key].expiry - CacheTTL
      BY Zenon
    <3>2. t \in Window
      BY <1>3, <2>1, <2>2, <3>1 DEF EntryOK
    <3>3. PICK p \in st.past[t] : got = Select(p, st.cache[key].list)
      BY <2>1, <2>2, <3>1, Zenon DEF EntryOK, SelectedAt
    <3>4. got = Select(p, list)
      BY <1>2, <2>2, <2>4, <3>3, SameSelection, Zenon DEF EntryOK
    <3> QED BY <1>6, <1>8, <3>2, <3>4, Zenon
  <2> QED BY <2>3, <2>4, Zenon
<1>10. ASSUME ~fresh PROVE CandidatesFresh'
  <2>1. now \in Window
    BY <1>3, <1>6
  <2>2. PICK p : p = st.pods
    BY Zenon
  <2> QED BY <1>2, <1>5, <1>6, <1>8, <1>10, <2>1, <2>2, Zenon
<1>11. CandidatesFresh'
  BY <1>9, <1>10, Zenon
<1>12. st'.now \in Nat /\ DOMAIN st'.past = Window' /\ st'.pods \in st'.past[st'.now]
  BY <1>1, <1>3, <1>5, Zenon DEF CandidatesInv
<1> QED BY <1>1, <1>7, <1>11, <1>12, Zenon DEF CandidatesInv

\* What the other steps keep: they forget the last answer, and an entry that
\* has not expired finds the endpoints it was computed from.
LEMMA KeepsEntries ==
  ASSUME CandidatesInv, part' = part, DOMAIN st' = CandidatesFields, st'.disabled = st.disabled,
         st'.last = Nil, st'.now \in Nat, DOMAIN st'.past = Window', st'.pods \in st'.past[st'.now],
         DOMAIN st'.cache \subseteq DOMAIN st.cache, st'.now >= st.now,
         \A k \in DOMAIN st'.cache : st'.cache[k] = st.cache[k],
         \A t \in Window : t \in Window' => st.past[t] \subseteq st'.past[t]
  PROVE  CandidatesInv'
<1>1. /\ st.now \in Nat /\ CacheTTL \in Nat \ {0}
      /\ \A t \in Nat : t \in Window <=> st.now - CacheTTL + 1 =< t /\ t =< st.now
      /\ \A t \in Nat : t \in Window' <=> st'.now - CacheTTL + 1 =< t /\ t =< st'.now
  BY CandidatesAssumption DEF CandidatesInv, Window, Max2
<1>2. ASSUME NEW p, NEW l PROVE Select(p, l)' = Select(p, l)
  BY Zenon DEF Select
<1>3. ASSUME NEW k \in DOMAIN st'.cache PROVE EntryOK(k)'
  <2>1. EntryOK(k) /\ st'.cache[k] = st.cache[k]
    BY Zenon DEF CandidatesInv
  <2>2. PICK t : t = st.cache[k].expiry - CacheTTL
    BY Zenon
  <2>3. /\ t =< st'.now
        /\ st'.now < st.cache[k].expiry => st.now < st.cache[k].expiry /\ t \in Window /\ t \in Window'
    BY <1>1, <2>1, <2>2 DEF EntryOK
  <2>4. ASSUME st'.now < st.cache[k].expiry
        PROVE  SelectedAt(t, st.cache[k].list, st.cache[k].pods)'
    <3>1. PICK p \in st.past[t] : st.cache[k].pods = Select(p, st.cache[k].list)
      BY <2>1, <2>2, <2>3, <2>4, Zenon DEF EntryOK, SelectedAt
    <3>2. p \in st'.past[t]
      BY <2>3, <2>4, <3>1, Zenon
    <3> QED BY <1>2, <2>1, <3>1, <3>2, Zenon DEF SelectedAt
  <2> QED BY <2>1, <2>2, <2>3, <2>4, Zenon DEF EntryOK
<1>4. CandidatesFresh'
  BY Zenon DEF CandidatesFresh
<1> QED BY <1>3, <1>4, Zenon DEF CandidatesInv

\* The window of one time unit later.
LEMMA WindowMoves ==
  ASSUME NEW n \in Nat, NEW k \in Nat \ {0}
  PROVE  Max2(0, n + 1 - k + 1)..(n + 1) = (Max2(0, n - k + 1)..n \ {n + 1 - k}) \cup {n + 1}
<1>1. CASE n - k + 1 < 0
  <2>1. Max2(0, n - k + 1) = 0 /\ Max2(0, n + 1 - k + 1) = 0
    BY <1>1 DEF Max2
  <2> QED BY <1>1, <2>1
<1>2. CASE n - k + 1 >= 0
  <2>1. Max2(0, n - k + 1) = n - k + 1 /\ Max2(0, n + 1 - k + 1) = n - k + 2
    BY <1>2 DEF Max2
  <2>2. \A t : t \in (n - k + 2)..(n + 1) <=> (t \in (n - k + 1)..n /\ t # n + 1 - k) \/ t = n + 1
    BY <1>2
  <2>3. (n - k + 2)..(n + 1) = ((n - k + 1)..n \ {n + 1 - k}) \cup {n + 1}
    BY <2>2, Zenon
  <2> QED BY <2>1, <2>3, Zenon
<1> QED BY <1>1, <1>2

\* Every lookup, cleanup and change of the endpoints keeps the invariant of the cache.
LEMMA CandidatesNextInv ==
  ASSUME CandidatesInv, [UNCHANGED part /\ CandidatesNext]_<<part, st>>
  PROVE  CandidatesInv'
<1>1. /\ DOMAIN st = CandidatesFields /\ st.now \in Nat /\ DOMAIN st.past = Window
      /\ st.pods \in st.past[st.now] /\ CacheTTL \in Nat \ {0}
  BY CandidatesAssumption, Zenon DEF CandidatesInv
<1>2. st.now \in Window
  BY <1>1 DEF Window, Max2
<1>3. ASSUME part' = part, CacheCleanup PROVE CandidatesInv'
  <2> DEFINE c == Without(st.cache, {k \in DOMAIN st.cache : st.now > st.cache[k].expiry})
  <2>1. /\ DOMAIN st' = CandidatesFields /\ st'.now = st.now /\ st'.past = st.past /\ st'.pods = st.pods
        /\ st'.disabled = st.disabled /\ st'.last = Nil /\ st'.cache = c
    BY <1>1, <1>3, Zenon DEF CacheCleanup, CandidatesFields
  <2>2. DOMAIN c \subseteq DOMAIN st.cache /\ \A k \in DOMAIN c : c[k] = st.cache[k]
    BY Zenon DEF Without
  <2> HIDE DEF c
  <2>3. Window' = Window
    BY <2>1, Zenon DEF Window
  <2> QED BY <1>1, <1>3, <2>1, <2>2, <2>3, KeepsEntries
<1>4. ASSUME part' = part, CandidatesChange PROVE CandidatesInv'
  <2>1. PICK pods \in SUBSET Addresses :
          st' = [st EXCEPT !.pods = pods, !.past[st.now] = @ \cup {pods}, !.last = Nil, !.changes = @ + 1]
    BY <1>4, Zenon DEF CandidatesChange
  <2>2. /\ DOMAIN st' = CandidatesFields /\ st'.now = st.now /\ st'.pods = pods
        /\ st'.past = [st.past EXCEPT ![st.now] = @ \cup {pods}]
        /\ st'.disabled = st.disabled /\ st'.last = Nil /\ st'.cache = st.cache
    BY <1>1, <2>1, Zenon DEF CandidatesFields
  <2>3. Window' = Window
    BY <2>2, Zenon DEF Window
  <2>4. /\ DOMAIN st'.past = Window /\ pods \in st'.past[st.now]
        /\ \A t \in Window : st.past[t] \subseteq st'.past[t]
    BY <1>1, <1>2, <2>2, Zenon
  <2> QED BY <1>1, <1>4, <2>2, <2>3, <2>4, KeepsEntries
<1>5. ASSUME part' = part, CandidatesTick PROVE CandidatesInv'
  <2> DEFINE q == With(Without(st.past, {st.now + 1 - CacheTTL}), st.now + 1, {st.pods})
  <2>1. /\ DOMAIN st' = CandidatesFields /\ st'.now = st.now + 1 /\ st'.pods = st.pods /\ st'.past = q
        /\ st'.disabled = st.disabled /\ st'.last = Nil /\ st'.cache = st.cache
    BY <1>1, <1>5, Zenon DEF CandidatesTick, CandidatesFields
  <2>2. /\ DOMAIN q = (DOMAIN st.past \ {st.now + 1 - CacheTTL}) \cup {st.now + 1}
        /\ q[st.now + 1] = {st.pods}
        /\ \A t \in DOMAIN q : t # st.now + 1 => q[t] = st.past[t]
    BY Zenon DEF With, Without
  <2> HIDE DEF q
  <2>3. Window' = (Window \ {st.now + 1 - CacheTTL}) \cup {st.now + 1}
    <3>1. Window' = Max2(0, st.now + 1 - CacheTTL + 1)..(st.now + 1)
      BY <1>1, <2>1 DEF Window
    <3>2. Max2(0, st.now + 1 - CacheTTL + 1)..(st.now + 1)
          = (Max2(0, st.now - CacheTTL + 1)..st.now \ {st.now + 1 - CacheTTL}) \cup {st.now + 1}
      BY <1>1, WindowMoves
    <3> QED BY <3>1, <3>2, Zenon DEF Window
  <2>4. \A t \in Window : t # st.now + 1
    BY <1>1 DEF Window, Max2
  <2>5. /\ st'.now \in Nat /\ DOMAIN st'.past = Window' /\ st'.pods \in st'.past[st'.now]
        /\ st'.now >= st.now
        /\ \A t \in Window : t \in Window' => st.past[t] \subseteq st'.past[t]
    BY <1>1, <2>1, <2>2, <2>3, <2>4
  <2> QED BY <1>5, <2>1, <2>5, KeepsEntries, Zenon
<1>6. CASE UNCHANGED <<part, st>>
  BY <1>6, ZenonT(30) DEF CandidatesInv, Window, EntryOK, SelectedAt, Select, CandidatesFresh
<1> QED BY <1>3, <1>4, <1>5, <1>6, LocateStep, Zenon DEF CandidatesNext

(***************************************************************************)
(* For any addresses, subset lists and ttl, and however lookups, the       *)
(* cleanup and changes of the endpoints interleave: what                   *)
(* CachedEndpointCandidates.Locate returns is the request's own selection  *)
(* from endpoints less than the ttl old, but for the malformed list.       *)
(***************************************************************************)
THEOREM LookupsAreFresh == CandidatesSpec => []CandidatesFresh
<1>1. CandidatesInv => CandidatesFresh
  BY Zenon DEF CandidatesInv
<1> QED BY CandidatesInitInv, CandidatesNextInv, <1>1, PTL DEF CandidatesSpec

-----------------------------------------------------------------------------
(* The adapters store of the body-based router.                            *)

AdaptersSpec ==
  part = "adapters" /\ AdapterStoreInit /\ [][UNCHANGED part /\ AdapterStoreNext]_<<part, st>>

AdapterFields == {"api", "queue", "store", "changes", "registered", "orphans", "moved", "shared"}
StoreFields == {"loraAdapterToBaseModel", "configmapAdapters", "baseModels"}

table == st.store.loraAdapterToBaseModel
counts == st.store.baseModels

AdapterShape ==
  /\ DOMAIN st = AdapterFields /\ DOMAIN st.store = StoreFields
  /\ DOMAIN st.api = ConfigMaps /\ \A n \in ConfigMaps : st.api[n] \in MapObjects \/ st.api[n] = Nil
  /\ DOMAIN known \subseteq ConfigMaps /\ DOMAIN st.registered = DOMAIN known

\* A map that is neither queued nor an orphan is known exactly when it counts,
\* with its present adapters; it was counted under its present base model, or
\* both names are among the misplaced ones.
MapsSettled ==
  \A n \in ConfigMaps \ (st.queue \cup st.orphans) :
    IF n \in LiveMaps
    THEN /\ n \in DOMAIN known /\ known[n] = st.api[n].adapters
         /\ st.registered[n] = st.api[n].base \/ {st.registered[n], st.api[n].base} \subseteq st.moved
    ELSE n \notin DOMAIN known

\* An adapter no two maps shared has an entry exactly while a map lists it, and
\* the entry is of that map.
AdaptersListed ==
  /\ \A m, n \in DOMAIN known : m # n => known[m] \cap known[n] \subseteq st.shared
  /\ \A a \in DOMAIN table \ st.shared : \E n \in DOMAIN known : a \in known[n]
  /\ \A n \in DOMAIN known : \A a \in known[n] \ st.shared : a \in DOMAIN table
  /\ \A n \in DOMAIN known \ (st.queue \cup st.orphans) : \A a \in known[n] \ st.shared :
       table[a] = st.api[n].base

\* A base model is counted once for every map registered with it.
RegisteredWith(b) == {n \in DOMAIN st.registered : st.registered[n] = b}

BasesCounted ==
  /\ \A n \in DOMAIN st.registered : st.registered[n] # Nil
  /\ \A b \in ModelNames \ st.moved :
       IF RegisteredWith(b) = {} THEN b \notin DOMAIN counts
       ELSE b \in DOMAIN counts /\ counts[b] = Cardinality(RegisteredWith(b))

AdaptersInv == part = "adapters" /\ AdapterShape /\ MapsSettled /\ AdaptersListed /\ BasesCounted

-----------------------------------------------------------------------------

\* The invariant of the adapters store holds before the first ConfigMap.
LEMMA AdaptersInitInv ==
  ASSUME part = "adapters", AdapterStoreInit
  PROVE  AdaptersInv
<1>1. /\ DOMAIN st = AdapterFields /\ st.api = [n \in ConfigMaps |-> Nil] /\ st.queue = {}
      /\ st.store = EmptyStore /\ st.registered = <<>> /\ st.orphans = {} /\ st.shared = {}
  BY Zenon DEF AdapterStoreInit, AdapterFields
<1>2. /\ DOMAIN st.store = StoreFields /\ DOMAIN known = {} /\ DOMAIN table = {} /\ DOMAIN counts = {}
      /\ DOMAIN st.registered = {}
  BY <1>1 DEF EmptyStore, StoreFields, known, table, counts
<1>3. DOMAIN st.api = ConfigMaps /\ \A n \in ConfigMaps : st.api[n] = Nil
  BY <1>1, Zenon
<1>4. AdapterShape
  BY <1>1, <1>2, <1>3, Zenon DEF AdapterShape
<1>5. MapsSettled
  BY <1>2, <1>3, Zenon DEF MapsSettled, LiveMaps
<1>6. AdaptersListed
  BY <1>2, Zenon DEF AdaptersListed
<1>7. BasesCounted
  BY <1>2, Zenon DEF BasesCounted, RegisteredWith
<1> QED BY <1>4, <1>5, <1>6, <1>7, Zenon DEF AdaptersInv

\* The counts depend on the registered maps and the misplaced names only.
LEMMA BasesKept ==
  ASSUME BasesCounted, st'.registered = st.registered, counts' = counts, st.moved \subseteq st'.moved
  PROVE  BasesCounted'
<1>1. ASSUME NEW b PROVE RegisteredWith(b)' = RegisteredWith(b)
  BY Zenon DEF RegisteredWith
<1>2. \A n \in DOMAIN st'.registered : st'.registered[n] # Nil
  BY Zenon DEF BasesCounted
<1>3. ASSUME NEW b \in ModelNames \ st'.moved
      PROVE  IF RegisteredWith(b)' = {} THEN b \notin DOMAIN counts'
             ELSE b \in DOMAIN counts' /\ counts'[b] = Cardinality(RegisteredWith(b)')
  <2>1. b \in ModelNames \ st.moved
    BY <1>3, Zenon
  <2> QED BY <1>1, <2>1, Zenon DEF BasesCounted
<1> QED BY <1>2, <1>3, Zenon DEF BasesCounted

\* ConfigMapChanges: a change that is not queued is of a map that was and is
\* not managed, hence unknown.
LEMMA ChangeStep ==
  ASSUME AdaptersInv, part' = part, NEW n \in ConfigMaps, ConfigMapChanges(n)
  PROVE  AdaptersInv'
<1>1. PICK new \in {Nil} \cup MapObjects :
        st' = [st EXCEPT !.api[n] = new, !.changes = @ + 1,
                         !.queue = IF bbrManagedPredicate(st.api[n], new) THEN @ \cup {n} ELSE @]
  BY Zenon DEF ConfigMapChanges
<1>2. /\ DOMAIN st = AdapterFields /\ DOMAIN st.api = ConfigMaps
  BY Zenon DEF AdaptersInv, AdapterShape
<1>3. /\ DOMAIN st' = AdapterFields /\ st'.api = [st.api EXCEPT ![n] = new]
      /\ st'.store = st.store /\ st'.registered = st.registered /\ st'.orphans = st.orphans
      /\ st'.moved = st.moved /\ st'.shared = st.shared
      /\ st'.queue = IF bbrManagedPredicate(st.api[n], new) THEN st.queue \cup {n} ELSE st.queue
  BY <1>1, <1>2, Zenon DEF AdapterFields
<1>4. /\ DOMAIN st'.api = ConfigMaps /\ st'.api[n] = new
      /\ \A m \in ConfigMaps : m # n => st'.api[m] = st.api[m]
  BY <1>2, <1>3, Zenon
<1>5. known' = known /\ table' = table /\ counts' = counts
  BY <1>3, Zenon DEF known, table, counts
<1>6. st.queue \cup st.orphans \subseteq st'.queue \cup st'.orphans
  BY <1>3, Zenon
<1>7. ASSUME n \notin st'.queue \cup st'.orphans
      PROVE  n \notin DOMAIN known /\ n \notin LiveMaps'
  <2>1. ~bbrManagedPredicate(st.api[n], new) /\ n \notin st.queue \cup st.orphans
    BY <1>3, <1>7, Zenon
  <2>2. (st.api[n] # Nil => ~st.api[n].managed) /\ (new # Nil => ~new.managed)
    BY <2>1, Zenon DEF bbrManagedPredicate
  <2>3. n \notin LiveMaps /\ n \notin LiveMaps'
    BY <1>4, <2>2, Zenon DEF LiveMaps
  <2> QED BY <2>1, <2>3, Zenon DEF AdaptersInv, MapsSettled
<1>8. ASSUME NEW m \in ConfigMaps, m # n PROVE m \in LiveMaps' <=> m \in LiveMaps
  BY <1>4, <1>8, Zenon DEF LiveMaps
<1>9. AdapterShape'
  BY <1>3, <1>4, <1>5, Zenon DEF AdaptersInv, AdapterShape
<1>10. MapsSettled'
  <2> SUFFICES ASSUME NEW m \in ConfigMaps, m \notin st'.queue \cup st'.orphans
               PROVE  IF m \in LiveMaps'
                      THEN /\ m \in DOMAIN known' /\ known'[m] = st'.api[m].adapters
                           /\ \/ st'.registered[m] = st'.api[m].base
                              \/ {st'.registered[m], st'.api[m].base} \subseteq st'.moved
                      ELSE m \notin DOMAIN known'
    BY Zenon DEF MapsSettled
  <2>1. CASE m = n
    BY <1>5, <1>7, <2>1, Zenon
  <2>2. CASE m # n
    <3>1. m \notin st.queue \cup st.orphans /\ st'.api[m] = st.api[m] /\ (m \in LiveMaps' <=> m \in LiveMaps)
      BY <1>4, <1>6, <1>8, <2>2, Zenon
    <3> QED BY <1>3, <1>5, <3>1, Zenon DEF AdaptersInv, MapsSettled
  <2> QED BY <2>1, <2>2, Zenon
<1>11. AdaptersListed'
  <2>1. ASSUME NEW m \in DOMAIN known, m \notin st'.queue \cup st'.orphans, NEW a \in known[m] \ st.shared
        PROVE  table[a] = st'.api[m].base
    <3>1. m # n
      BY <1>7, <2>1, Zenon
    <3>2. m \in ConfigMaps /\ m \notin st.queue \cup st.orphans
      BY <1>6, <2>1, Zenon DEF AdaptersInv, AdapterShape
    <3>3. table[a] = st.api[m].base
      BY <3>2, Zenon DEF AdaptersInv, AdaptersListed
    <3> QED BY <1>4, <3>1, <3>2, <3>3, Zenon
  <2> QED BY <1>3, <1>5, <2>1, ZenonT(30) DEF AdaptersInv, AdaptersListed
<1>12. BasesCounted'
  BY <1>3, <1>5, BasesKept, Zenon DEF AdaptersInv
<1> QED BY <1>9, <1>10, <1>11, <1>12, Zenon DEF AdaptersInv

\* A map that is gone leaves the queue and becomes an orphan.
LEMMA GoneStep ==
  ASSUME AdaptersInv, part' = part, NEW n \in st.queue,
         st' = [st EXCEPT !.queue = @ \ {n}, !.orphans = @ \cup {n}]
  PROVE  AdaptersInv'
<1>1. /\ DOMAIN st' = AdapterFields /\ st'.api = st.api
      /\ st'.store = st.store /\ st'.registered = st.registered
      /\ st'.queue = st.queue \ {n} /\ st'.orphans = st.orphans \cup {n}
      /\ st'.moved = st.moved /\ st'.shared = st.shared
  BY Zenon DEF AdaptersInv, AdapterShape, AdapterFields
<1>2. st'.queue \cup st'.orphans = st.queue \cup st.orphans
  BY <1>1, Zenon
<1>3. known' = known /\ table' = table /\ counts' = counts /\ LiveMaps' = LiveMaps
  BY <1>1, Zenon DEF known, table, counts, LiveMaps
<1>4. AdapterShape'
  BY <1>1, <1>3, Zenon DEF AdaptersInv, AdapterShape
<1>5. MapsSettled'
  BY <1>1, <1>2, <1>3 DEF AdaptersInv, MapsSettled
<1>6. AdaptersListed'
  BY <1>1, <1>2, <1>3 DEF AdaptersInv, AdaptersListed
<1>7. BasesCounted'
  BY <1>1, <1>3, BasesKept, Zenon DEF AdaptersInv
<1> QED BY <1>4, <1>5, <1>6, <1>7, Zenon DEF AdaptersInv

\* RouterRestarts: the store is empty and every managed map is queued.
LEMMA RestartStep ==
  ASSUME AdaptersInv, part' = part, RouterRestarts
  PROVE  AdaptersInv'
<1>1. /\ DOMAIN st' = AdapterFields /\ st'.api = st.api
      /\ st'.store = EmptyStore /\ st'.registered = <<>>
      /\ st'.queue = {n \in ConfigMaps : IF st.api[n] = Nil THEN FALSE ELSE st.api[n].managed}
  BY Zenon DEF AdaptersInv, AdapterShape, AdapterFields, RouterRestarts
<1>2. /\ DOMAIN st'.store = StoreFields /\ DOMAIN known' = {} /\ DOMAIN table' = {} /\ DOMAIN counts' = {}
      /\ DOMAIN st'.registered = {}
  BY <1>1 DEF EmptyStore, StoreFields, known, table, counts
<1>3. AdapterShape'
  BY <1>1, <1>2, Zenon DEF AdaptersInv, AdapterShape
<1>4. MapsSettled'
  <2> SUFFICES ASSUME NEW n \in ConfigMaps, n \notin st'.queue
               PROVE  n \notin LiveMaps'
    BY <1>2, Zenon DEF MapsSettled
  <2> QED BY <1>1, Zenon DEF LiveMaps
<1>5. AdaptersListed'
  BY <1>2, Zenon DEF AdaptersListed
<1>6. BasesCounted'
  <2>1. ASSUME NEW b PROVE RegisteredWith(b)' = {}
    BY <1>2, Zenon DEF RegisteredWith
  <2> QED BY <1>2, <2>1, Zenon DEF BasesCounted
<1> QED BY <1>3, <1>4, <1>5, <1>6, Zenon DEF AdaptersInv

-----------------------------------------------------------------------------
(* What the maps of the store become.                                      *)

\* uncount lowers the count of its base model by one, and no other.
LEMMA UncountFields ==
  ASSUME NEW f, NEW base
  PROVE  /\ base # Nil /\ base \in DOMAIN f =>
              IF f[base] = 1 THEN base \notin DOMAIN uncount(f, base)
              ELSE base \in DOMAIN uncount(f, base) /\ uncount(f, base)[base] = f[base] - 1
         /\ \A b : b # base => /\ b \in DOMAIN uncount(f, base) <=> b \in DOMAIN f
                               /\ b \in DOMAIN f => uncount(f, base)[b] = f[b]
<1> DEFINE count == Lookup(f, base, 0)
           w == With(f, base, count - 1)
           x == Without(f, {base})
<1>1. uncount(f, base) = IF base = Nil THEN f ELSE IF count = 1 THEN x ELSE w
  BY Zenon DEF uncount
<1>2. base \in DOMAIN f => count = f[base]
  BY Zenon DEF Lookup
<1>3. /\ DOMAIN w = DOMAIN f \cup {base} /\ w[base] = count - 1
      /\ \A l \in DOMAIN f \ {base} : w[l] = f[l]
  BY Zenon DEF With
<1>4. /\ DOMAIN x = DOMAIN f \ {base} /\ \A l \in DOMAIN f \ {base} : x[l] = f[l]
  BY Zenon DEF Without
<1> HIDE DEF count, w, x
<1> QED BY <1>1, <1>2, <1>3, <1>4, Zenon

\* The reconciler sees a map that is unlabelled or being deleted.
LEMMA DeleteStep ==
  ASSUME AdaptersInv, part' = part, NEW n \in st.queue, n \in ConfigMaps, NEW cm, cm = st.api[n],
         cm # Nil, cm.deleting \/ ~cm.managed,
         DOMAIN st' = AdapterFields, st'.api = st.api, st'.queue = st.queue \ {n},
         st'.orphans = st.orphans \ {n}, st'.shared = st.shared,
         st'.store = configMapDelete(st.store, n, cm.base),
         st'.moved = st.moved \cup misplaced(n, cm.base),
         st'.registered = Without(st.registered, {n})
  PROVE  AdaptersInv'
<1> USE DEF AdaptersInv
<1>1. CASE n \notin DOMAIN known
  <2>1. st'.store = st.store
    BY <1>1, Zenon DEF configMapDelete, known
  <2>2. n \notin DOMAIN st.registered
    BY <1>1, Zenon DEF AdapterShape
  <2>3. /\ known' = known /\ table' = table /\ counts' = counts /\ LiveMaps' = LiveMaps
        /\ DOMAIN st'.registered = DOMAIN st.registered
        /\ \A m \in DOMAIN st.registered : st'.registered[m] = st.registered[m]
        /\ st'.moved = st.moved
    <3>1. known' = known /\ table' = table /\ counts' = counts
      BY <2>1, Zenon DEF known, table, counts
    <3>2. LiveMaps' = LiveMaps
      BY Zenon DEF LiveMaps
    <3>3. st'.moved = st.moved
      BY <2>2, Zenon DEF misplaced
    <3> QED BY <2>2, <3>1, <3>2, <3>3, Zenon DEF Without
  <2>4. n \notin LiveMaps
    BY Zenon DEF LiveMaps
  <2>5. AdapterShape'
    BY <2>1, <2>3, Zenon DEF AdapterShape
  <2>6. MapsSettled'
    <3> SUFFICES ASSUME NEW m \in ConfigMaps, m \notin st'.queue \cup st'.orphans
                 PROVE  IF m \in LiveMaps
                        THEN /\ m \in DOMAIN known /\ known[m] = st.api[m].adapters
                             /\ \/ st'.registered[m] = st.api[m].base
                                \/ {st'.registered[m], st.api[m].base} \subseteq st.moved
                        ELSE m \notin DOMAIN known
      BY <2>3, Zenon DEF MapsSettled
    <3>1. CASE m = n
      BY <1>1, <2>4, <3>1, Zenon
    <3>2. CASE m # n
      <4>1. m \notin st.queue \cup st.orphans
        BY <3>2, Zenon
      <4>2. m \in DOMAIN known => st'.registered[m] = st.registered[m]
        BY <2>3, Zenon DEF AdapterShape
      <4> QED BY <4>1, <4>2, Zenon DEF MapsSettled
    <3> QED BY <3>1, <3>2, Zenon
  <2>7. AdaptersListed'
    <3>1. ASSUME NEW m \in DOMAIN known, m \notin st'.queue \cup st'.orphans
          PROVE  m \notin st.queue \cup st.orphans
      BY <1>1, <3>1, Zenon
    <3>2. \A m \in DOMAIN known \ (st'.queue \cup st'.orphans) : \A a \in known[m] \ st.shared :
            table[a] = st.api[m].base
      BY <3>1, Zenon DEF AdaptersListed
    <3> QED BY <2>3, <3>2 DEF AdaptersListed
  <2>8. BasesCounted'
    <3>1. ASSUME NEW b PROVE RegisteredWith(b)' = RegisteredWith(b)
      BY <2>3, Zenon DEF RegisteredWith
    <3> QED BY <2>3, <3>1, Zenon DEF BasesCounted
  <2> QED BY <2>5, <2>6, <2>7, <2>8, Zenon
<1>2. CASE n \in DOMAIN known
  <2>1. st'.store = [st.store EXCEPT !.loraAdapterToBaseModel = Without(@, known[n]),
                                     !.configmapAdapters = Without(@, {n}),
                                     !.baseModels = uncount(@, cm.base)]
    BY <1>2, Zenon DEF configMapDelete, known
  <2>2. DOMAIN st.store = StoreFields
    BY Zenon DEF AdapterShape
  <2>3. /\ DOMAIN st'.store = StoreFields /\ table' = Without(table, known[n])
        /\ known' = Without(known, {n}) /\ counts' = uncount(counts, cm.base)
    BY <2>1, <2>2, Zenon DEF StoreFields, table, known, counts
  <2>4. /\ DOMAIN known' = DOMAIN known \ {n} /\ \A m \in DOMAIN known \ {n} : known'[m] = known[m]
        /\ DOMAIN table' = DOMAIN table \ known[n] /\ \A a \in DOMAIN table \ known[n] : table'[a] = table[a]
    BY <2>3, Zenon DEF Without
  <2>5. /\ DOMAIN st'.registered = DOMAIN st.registered \ {n}
        /\ \A m \in DOMAIN st.registered \ {n} : st'.registered[m] = st.registered[m]
    BY Zenon DEF Without
  <2>6. LiveMaps' = LiveMaps
    BY Zenon DEF LiveMaps
  <2>7. n \notin LiveMaps
    BY Zenon DEF LiveMaps
  <2>8. AdapterShape'
    BY <2>3, <2>4, <2>5, Zenon DEF AdapterShape
  <2>9. MapsSettled'
    <3> SUFFICES ASSUME NEW m \in ConfigMaps, m \notin st'.queue \cup st'.orphans
                 PROVE  IF m \in LiveMaps
                        THEN /\ m \in DOMAIN known' /\ known'[m] = st.api[m].adapters
                             /\ \/ st'.registered[m] = st.api[m].base
                                \/ {st'.registered[m], st.api[m].base} \subseteq st'.moved
                        ELSE m \notin DOMAIN known'
      BY <2>6, Zenon DEF MapsSettled
    <3>1. CASE m = n
      BY <2>4, <2>7, <3>1, Zenon
    <3>2. CASE m # n
      <4>1. m \notin st.queue \cup st.orphans
        BY <3>2, Zenon
      <4>2. m \in DOMAIN known => st'.registered[m] = st.registered[m] /\ known'[m] = known[m]
        BY <2>4, <2>5, <3>2, Zenon DEF AdapterShape
      <4>3. m \in DOMAIN known' <=> m \in DOMAIN known
        BY <2>4, <3>2, Zenon
      <4>4. IF m \in LiveMaps
            THEN /\ m \in DOMAIN known /\ known[m] = st.api[m].adapters
                 /\ \/ st.registered[m] = st.api[m].base
                    \/ {st.registered[m], st.api[m].base} \subseteq st.moved
            ELSE m \notin DOMAIN known
        BY <4>1, Zenon DEF MapsSettled
      <4>5. st.moved \subseteq st'.moved
        BY Zenon
      <4> QED BY <4>2, <4>3, <4>4, <4>5, Zenon
    <3> QED BY <3>1, <3>2, Zenon
  <2>10. AdaptersListed'
    <3>1. \A m, l \in DOMAIN known' : m # l => known'[m] \cap known'[l] \subseteq st.shared
      BY <2>4, Zenon DEF AdaptersListed
    <3>2. ASSUME NEW a \in DOMAIN table' \ st.shared PROVE \E m \in DOMAIN known' : a \in known'[m]
      <4>1. a \in DOMAIN table \ st.shared /\ a \notin known[n]
        BY <2>4, Zenon
      <4>2. PICK m \in DOMAIN known : a \in known[m]
        BY <4>1, Zenon DEF AdaptersListed
      <4> QED BY <2>4, <4>1, <4>2, Zenon
    <3>3. ASSUME NEW m \in DOMAIN known', NEW a \in known'[m] \ st.shared
          PROVE  /\ a \in DOMAIN table'
                 /\ m \notin st'.queue \cup st'.orphans => table'[a] = st.api[m].base
      <4>1. m \in DOMAIN known /\ m # n /\ a \in known[m] \ st.shared
        BY <2>4, Zenon
      <4>2. a \in DOMAIN table
        BY <4>1, Zenon DEF AdaptersListed
      <4>3. a \notin known[n]
        BY <1>2, <4>1, Zenon DEF AdaptersListed
      <4>4. m \notin st'.queue \cup st'.orphans => m \notin st.queue \cup st.orphans
        BY <4>1, Zenon
      <4>5. m \notin st.queue \cup st.orphans => table[a] = st.api[m].base
        BY <4>1, Zenon DEF AdaptersListed
      <4> QED BY <2>4, <4>2, <4>3, <4>4, <4>5, Zenon
    <3> QED BY <3>1, <3>2, <3>3 DEF AdaptersListed
  <2>11. BasesCounted'
    <3>1. \A m \in DOMAIN st'.registered : st'.registered[m] # Nil
      BY <2>5, Zenon DEF BasesCounted
    <3>2. n \in DOMAIN st.registered /\ st.registered[n] # Nil
      BY <1>2, Zenon DEF AdapterShape, BasesCounted
    <3>3. ASSUME NEW b \in ModelNames \ st'.moved
          PROVE  IF RegisteredWith(b)' = {} THEN b \notin DOMAIN counts'
                 ELSE b \in DOMAIN counts' /\ counts'[b] = Cardinality(RegisteredWith(b)')
      <4>1. IF RegisteredWith(b) = {} THEN b \notin DOMAIN counts
            ELSE b \in DOMAIN counts /\ counts[b] = Cardinality(RegisteredWith(b))
        BY <3>3, Zenon DEF BasesCounted
      <4>2. RegisteredWith(b)' = RegisteredWith(b) \ {n}
        BY <2>5, Zenon DEF RegisteredWith
      <4>3. n \in RegisteredWith(b) <=> st.registered[n] = b
        BY <3>2, Zenon DEF RegisteredWith
      <4>4. CASE st.registered[n] = b
        <5>1. cm.base = b
          <6> SUFFICES ASSUME st.registered[n] # cm.base PROVE FALSE
            BY <4>4, Zenon
          <6>1. misplaced(n, cm.base) = {st.registered[n], cm.base} \ {Nil}
            BY <3>2, Zenon DEF misplaced
          <6> QED BY <3>2, <3>3, <4>4, <6>1, Zenon
        <5>2. IsFiniteSet(RegisteredWith(b))
          <6>1. RegisteredWith(b) \subseteq ConfigMaps
            BY Zenon DEF RegisteredWith, AdapterShape
          <6> QED BY <6>1, MapsAssumption, FS_Subset, Zenon
        <5>3. n \in RegisteredWith(b)
          BY <4>3, <4>4, Zenon
        <5>4. Cardinality(RegisteredWith(b)) \in Nat /\ Cardinality(RegisteredWith(b)') = Cardinality(RegisteredWith(b)) - 1
          BY <4>2, <5>2, <5>3, FS_RemoveElement, FS_CardinalityType, Zenon
        <5>5. b \in DOMAIN counts /\ counts[b] = Cardinality(RegisteredWith(b))
          BY <4>1, <5>3, Zenon
        <5>6. IF counts[b] = 1 THEN b \notin DOMAIN counts'
              ELSE b \in DOMAIN counts' /\ counts'[b] = counts[b] - 1
          <6>1. b # Nil /\ counts' = uncount(counts, b)
            BY <2>3, <3>2, <4>4, <5>1, Zenon
          <6>2. IF counts[b] = 1 THEN b \notin DOMAIN uncount(counts, b)
                ELSE b \in DOMAIN uncount(counts, b) /\ uncount(counts, b)[b] = counts[b] - 1
            BY <5>5, <6>1, UncountFields
          <6> QED BY <6>1, <6>2, Zenon
        <5>7. RegisteredWith(b)' = {} <=> Cardinality(RegisteredWith(b)') = 0
          <6>1. IsFiniteSet(RegisteredWith(b)')
            BY <4>2, <5>2, FS_Subset, Zenon
          <6> QED BY <6>1, FS_EmptySet, Zenon
        <5> QED BY <5>4, <5>5, <5>6, <5>7
      <4>5. CASE st.registered[n] # b
        <5>1. RegisteredWith(b)' = RegisteredWith(b)
          BY <4>2, <4>3, <4>5, Zenon
        <5>2. cm.base = b => b = Nil
          <6> SUFFICES ASSUME cm.base = b, b # Nil PROVE FALSE
            BY Zenon
          <6>1. misplaced(n, cm.base) = {st.registered[n], cm.base} \ {Nil}
            BY <3>2, <4>5, Zenon DEF misplaced
          <6> QED BY <3>3, <6>1, Zenon
        <5>3. (b \in DOMAIN counts' <=> b \in DOMAIN counts) /\ (b \in DOMAIN counts => counts'[b] = counts[b])
          <6> DEFINE base == cm.base
                     u == uncount(counts, base)
          <6>1. CASE base = b
            BY <2>3, <5>2, <6>1, Zenon DEF uncount
          <6>2. CASE base # b
            <7> HIDE DEF base
            <7>1. (b \in DOMAIN u <=> b \in DOMAIN counts) /\ (b \in DOMAIN counts => u[b] = counts[b])
              BY <6>2, UncountFields
            <7> QED BY <2>3, <7>1, Zenon DEF base
          <6> QED BY <6>1, <6>2, Zenon
        <5> QED BY <4>1, <5>1, <5>3, Zenon
      <4> QED BY <4>4, <4>5, Zenon
    <3> QED BY <3>1, <3>3, Zenon DEF BasesCounted
  <2> QED BY <2>8, <2>9, <2>10, <2>11, Zenon
<1> QED BY <1>1, <1>2, Zenon

\* The reconciler sees a map that counts.
LEMMA UpdateStep ==
  ASSUME AdaptersInv, part' = part, NEW n \in st.queue, n \in ConfigMaps, NEW cm, cm = st.api[n],
         cm # Nil, cm.managed, ~cm.deleting, parses(cm),
         DOMAIN st' = AdapterFields, st'.api = st.api, st'.queue = st.queue \ {n},
         st'.orphans = st.orphans \ {n},
         st'.shared = st.shared \cup (cm.adapters \cap UNION {known[m] : m \in DOMAIN known \ {n}}),
         st'.store = configMapUpdateOrAddIfNotExist(st.store, n, cm),
         st'.moved = st.moved \cup misplaced(n, cm.base),
         st'.registered = With(st.registered, n, Lookup(st.registered, n, cm.base))
  PROVE  AdaptersInv'
<1> USE DEF AdaptersInv
<1> DEFINE old == Lookup(known, n, {})
           removed == old \ cm.adapters
<1>1. st'.store = [st.store EXCEPT
                     !.loraAdapterToBaseModel = [a \in (DOMAIN @ \cup cm.adapters) \ removed |->
                                                   IF a \in cm.adapters THEN cm.base ELSE @[a]],
                     !.baseModels = IF n \in DOMAIN known THEN @ ELSE With(@, cm.base, Lookup(@, cm.base, 0) + 1),
                     !.configmapAdapters = With(@, n, cm.adapters)]
  BY Zenon DEF configMapUpdateOrAddIfNotExist, known
<1>2. DOMAIN st.store = StoreFields
  BY Zenon DEF AdapterShape
<1> HIDE DEF removed
<1>3. /\ DOMAIN st'.store = StoreFields
      /\ table' = [a \in (DOMAIN table \cup cm.adapters) \ removed |->
                     IF a \in cm.adapters THEN cm.base ELSE table[a]]
      /\ known' = With(known, n, cm.adapters)
      /\ counts' = IF n \in DOMAIN known THEN counts ELSE With(counts, cm.base, Lookup(counts, cm.base, 0) + 1)
  BY <1>1, <1>2, Zenon DEF StoreFields, table, known, counts
<1>4. /\ DOMAIN known' = DOMAIN known \cup {n} /\ known'[n] = cm.adapters
      /\ \A m \in DOMAIN known \ {n} : known'[m] = known[m]
  BY <1>3, Zenon DEF With
<1>5. /\ DOMAIN st'.registered = DOMAIN st.registered \cup {n}
      /\ st'.registered[n] = IF n \in DOMAIN known THEN st.registered[n] ELSE cm.base
      /\ \A m \in DOMAIN st.registered \ {n} : st'.registered[m] = st.registered[m]
  BY Zenon DEF With, Lookup, AdapterShape
<1>6. /\ DOMAIN table' = (DOMAIN table \cup cm.adapters) \ removed
      /\ \A a \in DOMAIN table' : table'[a] = IF a \in cm.adapters THEN cm.base ELSE table[a]
  BY <1>3, Zenon
<1>7. \A a : a \in removed <=> n \in DOMAIN known /\ a \in known[n] /\ a \notin cm.adapters
  BY Zenon DEF removed, Lookup
<1>8. \A m \in DOMAIN known \ {n} : cm.adapters \cap known[m] \subseteq st'.shared
  BY Zenon
<1>9. st.shared \subseteq st'.shared /\ st.moved \subseteq st'.moved
  BY Zenon
<1>10. LiveMaps' = LiveMaps
  BY Zenon DEF LiveMaps
<1>11. n \in LiveMaps
  BY Zenon DEF LiveMaps
<1>12. cm.base # Nil
  BY Zenon DEF parses
<1> HIDE DEF old
<1>13. AdapterShape'
  BY <1>3, <1>4, <1>5 DEF AdapterShape
<1>14. MapsSettled'
  <2> SUFFICES ASSUME NEW m \in ConfigMaps, m \notin st'.queue \cup st'.orphans
               PROVE  IF m \in LiveMaps
                      THEN /\ m \in DOMAIN known' /\ known'[m] = st.api[m].adapters
                           /\ \/ st'.registered[m] = st.api[m].base
                              \/ {st'.registered[m], st.api[m].base} \subseteq st'.moved
                      ELSE m \notin DOMAIN known'
    BY <1>10, ZenonT(30) DEF MapsSettled
  <2>1. CASE m = n
    <3>1. st'.registered[n] = cm.base \/ {st'.registered[n], cm.base} \subseteq st'.moved
      <4> SUFFICES ASSUME st'.registered[n] # cm.base PROVE {st'.registered[n], cm.base} \subseteq st'.moved
        BY Zenon
      <4>1. n \in DOMAIN st.registered /\ st'.registered[n] = st.registered[n] /\ st.registered[n] # Nil
        BY <1>5, Zenon DEF AdapterShape, BasesCounted
      <4>2. misplaced(n, cm.base) = {st.registered[n], cm.base} \ {Nil}
        BY <4>1, Zenon DEF misplaced
      <4> QED BY <1>12, <4>1, <4>2, Zenon
    <3> QED BY <1>4, <1>11, <2>1, <3>1, Zenon
  <2>2. CASE m # n
    <3>1. m \notin st.queue \cup st.orphans
      BY <2>2, Zenon
    <3>2. m \in DOMAIN known => st'.registered[m] = st.registered[m] /\ known'[m] = known[m]
      BY <1>4, <1>5, <2>2, Zenon DEF AdapterShape
    <3>3. m \in DOMAIN known' <=> m \in DOMAIN known
      BY <1>4, <2>2, Zenon
    <3>4. IF m \in LiveMaps
          THEN /\ m \in DOMAIN known /\ known[m] = st.api[m].adapters
               /\ \/ st.registered[m] = st.api[m].base
                  \/ {st.registered[m], st.api[m].base} \subseteq st.moved
          ELSE m \notin DOMAIN known
      BY <3>1, Zenon DEF MapsSettled
    <3> QED BY <1>9, <3>2, <3>3, <3>4
  <2> QED BY <2>1, <2>2, Zenon
<1>15. AdaptersListed'
  <2>1. ASSUME NEW m \in DOMAIN known', NEW l \in DOMAIN known', m # l
        PROVE  known'[m] \cap known'[l] \subseteq st'.shared
    <3>1. CASE m = n
      BY <1>4, <1>8, <2>1, <3>1, Zenon
    <3>2. CASE l = n
      BY <1>4, <1>8, <2>1, <3>2, Zenon
    <3>3. CASE m # n /\ l # n
      <4>1. known[m] \cap known[l] \subseteq st.shared
        BY <1>4, <2>1, <3>3, Zenon DEF AdaptersListed
      <4> QED BY <1>4, <1>9, <3>3, <4>1, Zenon
    <3> QED BY <3>1, <3>2, <3>3, Zenon
  <2>2. ASSUME NEW a \in DOMAIN table' \ st'.shared PROVE \E m \in DOMAIN known' : a \in known'[m]
    <3>1. CASE a \in cm.adapters
      BY <1>4, <3>1, Zenon
    <3>2. CASE a \notin cm.adapters
      <4>1. a \in DOMAIN table \ st.shared /\ a \notin removed
        BY <1>6, <1>9, <3>2, Zenon
      <4>2. PICK m \in DOMAIN known : a \in known[m]
        BY <4>1, Zenon DEF AdaptersListed
      <4>3. m # n
        BY <1>7, <3>2, <4>1, <4>2, Zenon
      <4> QED BY <1>4, <4>2, <4>3, Zenon
    <3> QED BY <3>1, <3>2, Zenon
  <2>3. ASSUME NEW m \in DOMAIN known', NEW a \in known'[m] \ st'.shared
        PROVE  /\ a \in DOMAIN table'
               /\ m \notin st'.queue \cup st'.orphans => table'[a] = st'.api[m].base
    <3>1. CASE m = n
      <4>1. a \in cm.adapters /\ a \in DOMAIN table'
        BY <1>4, <1>6, <1>7, <3>1, Zenon
      <4> QED BY <1>6, <3>1, <4>1, Zenon
    <3>2. CASE m # n
      <4>1. m \in DOMAIN known /\ a \in known[m] /\ a \notin st.shared
        BY <1>4, <1>9, <3>2, Zenon
      <4>2. a \in DOMAIN table
        BY <4>1, Zenon DEF AdaptersListed
      <4>3. a \notin cm.adapters
        BY <1>8, <2>3, <3>2, <4>1, Zenon
      <4>4. a \notin removed
        BY <1>7, <3>2, <4>1, Zenon DEF AdaptersListed
      <4>5. a \in DOMAIN table' /\ table'[a] = table[a]
        BY <1>6, <4>2, <4>3, <4>4, Zenon
      <4>6. m \notin st'.queue \cup st'.orphans => m \notin st.queue \cup st.orphans
        BY <3>2, Zenon
      <4>7. m \notin st.queue \cup st.orphans => table[a] = st.api[m].base
        BY <4>1, Zenon DEF AdaptersListed
      <4> QED BY <4>5, <4>6, <4>7, Zenon
    <3> QED BY <3>1, <3>2, Zenon
  <2> QED BY <2>1, <2>2, <2>3, Zenon DEF AdaptersListed
<1>16. BasesCounted'
  <2>1. \A m \in DOMAIN st'.registered : st'.registered[m] # Nil
    <3>1. DOMAIN st.registered = DOMAIN known
      BY Zenon DEF AdapterShape
    <3>2. \A m \in DOMAIN st.registered : st.registered[m] # Nil
      BY Zenon DEF BasesCounted
    <3> QED BY <1>5, <1>12, <3>1, <3>2, SMTT(30)
  <2>2. ASSUME NEW b \in ModelNames \ st'.moved
        PROVE  IF RegisteredWith(b)' = {} THEN b \notin DOMAIN counts'
               ELSE b \in DOMAIN counts' /\ counts'[b] = Cardinality(RegisteredWith(b)')
    <3>1. IF RegisteredWith(b) = {} THEN b \notin DOMAIN counts
          ELSE b \in DOMAIN counts /\ counts[b] = Cardinality(RegisteredWith(b))
      BY <1>9, <2>2, Zenon DEF BasesCounted
    <3>2. CASE n \in DOMAIN known
      <4>1. RegisteredWith(b)' = RegisteredWith(b)
        BY <1>5, <3>2 DEF RegisteredWith, AdapterShape
      <4> QED BY <1>3, <3>1, <3>2, <4>1, Zenon
    <3>3. CASE n \notin DOMAIN known
      <4>1. n \notin DOMAIN st.registered
        BY <3>3, Zenon DEF AdapterShape
      <4>2. counts' = With(counts, cm.base, Lookup(counts, cm.base, 0) + 1)
        BY <1>3, <3>3, Zenon
      <4>3. CASE b # cm.base
        <5>1. RegisteredWith(b)' = RegisteredWith(b)
          BY <1>5, <3>3, <4>1, <4>3 DEF RegisteredWith
        <5>2. (b \in DOMAIN counts' <=> b \in DOMAIN counts) /\ (b \in DOMAIN counts => counts'[b] = counts[b])
          BY <4>2, <4>3, Zenon DEF With
        <5> QED BY <3>1, <5>1, <5>2, Zenon
      <4>4. CASE b = cm.base
        <5>1. RegisteredWith(b)' = RegisteredWith(b) \cup {n} /\ n \notin RegisteredWith(b)
          BY <1>5, <3>3, <4>1, <4>4 DEF RegisteredWith
        <5>2. IsFiniteSet(RegisteredWith(b))
          <6>1. RegisteredWith(b) \subseteq ConfigMaps
            BY Zenon DEF RegisteredWith, AdapterShape
          <6> QED BY <6>1, MapsAssumption, FS_Subset, Zenon
        <5>3. Cardinality(RegisteredWith(b)') = Cardinality(RegisteredWith(b)) + 1
          BY <5>1, <5>2, FS_AddElement, Zenon
        <5>4. Lookup(counts, b, 0) = Cardinality(RegisteredWith(b))
          <6>1. CASE RegisteredWith(b) = {}
            BY <3>1, <6>1, FS_EmptySet, Zenon DEF Lookup
          <6>2. CASE RegisteredWith(b) # {}
            BY <3>1, <6>2, Zenon DEF Lookup
          <6> QED BY <6>1, <6>2, Zenon
        <5>5. b \in DOMAIN counts' /\ counts'[b] = Lookup(counts, b, 0) + 1
          BY <4>2, <4>4, Zenon DEF With
        <5> QED BY <5>1, <5>3, <5>4, <5>5, ZenonT(30)
      <4> QED BY <4>3, <4>4, Zenon
    <3> QED BY <3>2, <3>3, Zenon
  <2> QED BY <2>1, <2>2, Zenon DEF BasesCounted
<1> QED BY <1>13, <1>14, <1>15, <1>16, Zenon

\* Every event of a ConfigMap keeps the invariant of the adapters store.
LEMMA AdaptersNextInv ==
  ASSUME AdaptersInv, [UNCHANGED part /\ AdapterStoreNext]_<<part, st>>
  PROVE  AdaptersInv'
<1>1. ASSUME NEW n \in ConfigMaps, part' = part, ConfigMapReconcile(n) PROVE AdaptersInv'
  <2> DEFINE cm == st.api[n]
             done == [st EXCEPT !.queue = @ \ {n}, !.orphans = IF cm = Nil THEN @ \cup {n} ELSE @ \ {n}]
  <2>1. DOMAIN st = AdapterFields /\ n \in st.queue
    BY <1>1, Zenon DEF ConfigMapReconcile, AdaptersInv, AdapterShape
  <2>2. CASE cm = Nil
    <3>1. st' = [st EXCEPT !.queue = @ \ {n}, !.orphans = @ \cup {n}]
      BY <1>1, <2>2, Zenon DEF ConfigMapReconcile
    <3> QED BY <1>1, <2>1, <3>1, GoneStep, Zenon
  <2>3. CASE cm # Nil /\ (cm.deleting \/ ~cm.managed)
    <3>1. st' = [done EXCEPT !.store = configMapDelete(@, n, cm.base),
                             !.moved = @ \cup misplaced(n, cm.base), !.registered = Without(@, {n})]
      BY <1>1, <2>3, Zenon DEF ConfigMapReconcile
    <3>2. /\ DOMAIN st' = AdapterFields /\ st'.api = st.api /\ st'.queue = st.queue \ {n}
          /\ st'.orphans = st.orphans \ {n} /\ st'.shared = st.shared
          /\ st'.store = configMapDelete(st.store, n, cm.base)
          /\ st'.moved = st.moved \cup misplaced(n, cm.base)
          /\ st'.registered = Without(st.registered, {n})
      BY <2>1, <2>3, <3>1, Zenon DEF AdapterFields
    <3> QED BY <1>1, <2>1, <2>3, <3>2, DeleteStep, Zenon
  <2>4. CASE cm # Nil /\ cm.managed /\ ~cm.deleting
    <3>1. /\ parses(cm)
          /\ st' = [done EXCEPT
                      !.store = configMapUpdateOrAddIfNotExist(@, n, cm),
                      !.moved = @ \cup misplaced(n, cm.base),
                      !.registered = With(@, n, Lookup(@, n, cm.base)),
                      !.shared = @ \cup (cm.adapters \cap UNION {known[m] : m \in DOMAIN known \ {n}})]
      BY <1>1, <2>4, Zenon DEF ConfigMapReconcile, known
    <3>2. /\ DOMAIN st' = AdapterFields /\ st'.api = st.api /\ st'.queue = st.queue \ {n}
          /\ st'.orphans = st.orphans \ {n}
          /\ st'.shared = st.shared \cup (cm.adapters \cap UNION {known[m] : m \in DOMAIN known \ {n}})
          /\ st'.store = configMapUpdateOrAddIfNotExist(st.store, n, cm)
          /\ st'.moved = st.moved \cup misplaced(n, cm.base)
          /\ st'.registered = With(st.registered, n, Lookup(st.registered, n, cm.base))
      BY <2>1, <2>4, <3>1, Zenon DEF AdapterFields
    <3> QED BY <1>1, <2>1, <2>4, <3>1, <3>2, UpdateStep, Zenon
  <2> QED BY <2>2, <2>3, <2>4, Zenon
<1>2. CASE UNCHANGED <<part, st>>
  <2>1. known' = known /\ table' = table /\ counts' = counts /\ LiveMaps' = LiveMaps
    BY <1>2, Zenon DEF known, table, counts, LiveMaps
  <2>2. AdapterShape' /\ MapsSettled' /\ AdaptersListed'
    BY <1>2, <2>1, ZenonT(30) DEF AdaptersInv, AdapterShape, MapsSettled, AdaptersListed
  <2> QED BY <1>2, <2>1, <2>2, BasesKept, Zenon DEF AdaptersInv
<1> QED BY <1>1, <1>2, ChangeStep, RestartStep, Zenon DEF AdapterStoreNext

\* A settled name is looked up as the live maps prescribe.
LEMMA AdaptersInvFollows ==
  ASSUME AdaptersInv
  PROVE  AdaptersFollowConfigMaps
<1> SUFFICES ASSUME NEW m \in ModelNames \ Unsettled
             PROVE  LET listing == {n \in LiveMaps : m \in st.api[n].adapters}
                        based == {n \in LiveMaps : st.api[n].base = m}
                        got == getBaseModel(st.store, m)
                    IN IF listing # {} THEN \E n \in listing : got = st.api[n].base
                       ELSE IF based # {} THEN got = m ELSE got = Nil
  BY Zenon DEF AdaptersFollowConfigMaps
<1> DEFINE listing == {n \in LiveMaps : m \in st.api[n].adapters}
           based == {n \in LiveMaps : st.api[n].base = m}
           got == getBaseModel(st.store, m)
           waiting == st.queue \cup st.orphans
<1>1. got = IF m \in DOMAIN table THEN table[m] ELSE IF m \in DOMAIN counts THEN m ELSE Nil
  BY Zenon DEF getBaseModel, table, counts
<1>2. m \notin st.moved /\ m \notin st.shared /\ \A n \in waiting : m \notin NamesOf(n)
  <2>1. m \notin st.moved /\ m \notin st.shared /\ m \notin UNION {NamesOf(n) : n \in waiting}
    <3> DEFINE named == UNION {NamesOf(n) : n \in waiting}
    <3>1. Unsettled = named \cup st.moved \cup st.shared
      BY Zenon DEF Unsettled
    <3> HIDE DEF named
    <3>2. m \notin st.moved /\ m \notin st.shared /\ m \notin named
      BY <3>1, Zenon
    <3> QED BY <3>2, Zenon DEF named
  <2> QED BY <2>1, Zenon
<1>3. ASSUME NEW n \in LiveMaps, m = st.api[n].base \/ m \in st.api[n].adapters
      PROVE  n \in ConfigMaps /\ n \notin waiting
  <2>1. /\ n \in ConfigMaps /\ st.api[n] # Nil /\ st.api[n].adapters # Nil
    BY <1>3, Zenon DEF LiveMaps, parses
  <2>2. m \in NamesOf(n)
    BY <1>3, <2>1, Zenon DEF NamesOf
  <2> QED BY <1>2, <2>1, <2>2, Zenon
<1>4. ASSUME NEW n \in DOMAIN known, m \in known[n]
      PROVE  n \in listing
  <2>1. m \in NamesOf(n)
    BY <1>4, Zenon DEF NamesOf, Lookup
  <2>2. n \in ConfigMaps \ waiting
    BY <1>2, <2>1, Zenon DEF AdaptersInv, AdapterShape
  <2>3. n \in LiveMaps /\ known[n] = st.api[n].adapters
    BY <2>2, Zenon DEF AdaptersInv, MapsSettled
  <2> QED BY <1>4, <2>3, Zenon
<1>5. ASSUME NEW n \in DOMAIN st.registered, st.registered[n] = m
      PROVE  n \in based
  <2>1. m \in NamesOf(n)
    BY <1>5, Zenon DEF NamesOf
  <2>2. n \in ConfigMaps \ waiting /\ n \in DOMAIN known
    BY <1>2, <2>1, Zenon DEF AdaptersInv, AdapterShape
  <2>3. /\ n \in LiveMaps
        /\ st.registered[n] = st.api[n].base \/ {st.registered[n], st.api[n].base} \subseteq st.moved
    BY <2>2, Zenon DEF AdaptersInv, MapsSettled
  <2> QED BY <1>2, <1>5, <2>3, Zenon
<1>6. ASSUME NEW n \in listing
      PROVE  m \in DOMAIN table /\ table[m] = st.api[n].base
  <2>1. n \in LiveMaps /\ n \in ConfigMaps \ waiting /\ m \in st.api[n].adapters
    BY <1>3, <1>6, Zenon
  <2>2. n \in DOMAIN known /\ known[n] = st.api[n].adapters
    BY <2>1, Zenon DEF AdaptersInv, MapsSettled
  <2>3. m \in known[n] \ st.shared /\ n \in DOMAIN known \ (st.queue \cup st.orphans)
    BY <1>2, <2>1, <2>2, Zenon
  <2> QED BY <2>3, Zenon DEF AdaptersInv, AdaptersListed
<1>7. m \in DOMAIN table => listing # {}
  <2> SUFFICES ASSUME m \in DOMAIN table PROVE listing # {}
    BY Zenon
  <2>1. PICK n \in DOMAIN known : m \in known[n]
    BY <1>2, Zenon DEF AdaptersInv, AdaptersListed
  <2> QED BY <1>4, <2>1, Zenon
<1>8. m \in DOMAIN counts <=> RegisteredWith(m) # {}
  BY <1>2, Zenon DEF AdaptersInv, BasesCounted
<1>9. RegisteredWith(m) # {} <=> based # {}
  <2>1. ASSUME NEW n \in RegisteredWith(m) PROVE n \in based
    BY <1>5, <2>1, Zenon DEF RegisteredWith
  <2>2. ASSUME NEW n \in based PROVE n \in RegisteredWith(m)
    <3>1. n \in LiveMaps /\ n \in ConfigMaps \ waiting /\ st.api[n].base = m
      BY <1>3, <2>2, Zenon
    <3>2. /\ n \in DOMAIN known
          /\ st.registered[n] = st.api[n].base \/ {st.registered[n], st.api[n].base} \subseteq st.moved
      BY <3>1, Zenon DEF AdaptersInv, MapsSettled
    <3>3. n \in DOMAIN st.registered
      BY <3>2, Zenon DEF AdaptersInv, AdapterShape
    <3> QED BY <1>2, <3>1, <3>2, <3>3, Zenon DEF RegisteredWith
  <2> QED BY <2>1, <2>2, Zenon
<1> HIDE DEF listing, based, got
<1>10. CASE listing # {}
  <2>1. PICK n \in listing : TRUE
    BY <1>10, Zenon
  <2>2. got = st.api[n].base
    BY <1>1, <1>6, <2>1, Zenon
  <2>3. \E k \in listing : got = st.api[k].base
    BY <2>1, <2>2, Zenon
  <2> QED BY <1>10, <2>3, Zenon DEF listing, based, got
<1>11. CASE listing = {}
  <2>1. m \notin DOMAIN table
    BY <1>7, <1>11, Zenon
  <2>2. IF based # {} THEN got = m ELSE got = Nil
    BY <1>1, <1>8, <1>9, <2>1, Zenon
  <2> QED BY <1>11, <2>2, Zenon DEF listing, based, got
<1> QED BY <1>10, <1>11, Zenon

\* For any number of ConfigMaps, whatever changes, and whenever the router
\* restarts: getBaseModel gives a settled name the base model that the maps
\* prescribe (configMapUpdateOrAddIfNotExist, configMapDelete, Reconcile).
THEOREM AdaptersAreCurrent == AdaptersSpec => []AdaptersFollowConfigMaps
<1>1. part = "adapters" /\ AdapterStoreInit => AdaptersInv
  BY AdaptersInitInv, Zenon
<1>2. AdaptersInv /\ [UNCHANGED part /\ AdapterStoreNext]_<<part, st>> => AdaptersInv'
  BY AdaptersNextInv, Zenon
<1>3. AdaptersInv => AdaptersFollowConfigMaps
  BY AdaptersInvFollows, Zenon
<1> QED BY <1>1, <1>2, <1>3, PTL DEF AdaptersSpec

=============================================================================
