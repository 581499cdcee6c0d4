-------------------------- MODULE FlowDistribution --------------------------
(***************************************************************************)
(* The flow controller above the shard processors: EnqueueAndWait's        *)
(* distribution loop over the active shards, lazily started workers, and   *)
(* the supervisor that stops workers of removed shards.  What a processor  *)
(* does with an item is module ShardProcessor; here an item in a           *)
(* processor's hands ends with one of the outcomes a processor gives.      *)
(***************************************************************************)
EXTENDS Component, TLC

CONSTANTS
    Shards,            \* shard ids
    FlowRequests,      \* callers of EnqueueAndWait
    BufferSize,        \* EnqueueChannelBufferSize
    MaxShardChanges,   \* bound on changes of the registry's shards
    MaxAttempts        \* bound on distribution attempts of one request

ASSUME ShardsAssumption == IsFiniteSet(Shards)

\* A shard is yet to be added, Active, Draining, or gone: ids are not used again.
NewRequest == [pc |-> "check", todo |-> <<>>, mine |-> 0, candidates |-> <<>>, attempts |-> 0]

DistributionInit ==
    st = [shards |-> [s \in Shards |-> IF s = CHOOSE first \in Shards : TRUE THEN "active" ELSE "new"], changes |-> 0,
          workers |-> <<>>, instances |-> <<>>, collector |-> Nil, running |-> TRUE,
          req |-> [r \in FlowRequests |-> NewRequest], raced |-> {}]

\* EnqueueAndWait returns; which outcome it returns is module RequestLifecycle's
\* subject and is left out here.
Finish(r) == [st EXCEPT !.req[r] = [NewRequest EXCEPT !.pc = "done"]]

-----------------------------------------------------------------------------
\* The distribution loop

\* ActiveShards: the active shards as a slice, in some order.
ActiveShards(S) == CHOOSE q \in [1..Cardinality(S) -> S] : \A i, j \in DOMAIN q : q[i] = q[j] => i = j

\* One turn of the loop: the controller must run; conn.ActiveShards is a live
\* view of the registry.
tryDistribution(r) ==
    LET active == {s \in Shards : st.shards[s] = "active"}
    IN /\ st.req[r].pc = "check" /\ st.req[r].attempts < MaxAttempts
       /\ st' = IF ~st.running \/ active = {} THEN Finish(r)
                ELSE [st EXCEPT !.req[r] = [NewRequest EXCEPT !.pc = "workers", !.todo = ActiveShards(active),
                                                              !.attempts = st.req[r].attempts + 1]]

\* The bytes of the flow's queue on a shard: the items its workers hold.
ByteSize(s) == Cardinality({r \in FlowRequests : st.req[r].pc = "await"
                                                 /\ st.instances[st.req[r].mine].shard = s})

addCandidate(r, w) ==
    LET s == Head(st.req[r].todo)
    IN [st.req[r] EXCEPT !.pc = "workers", !.todo = Tail(@),
          !.candidates = IF st.shards[s] = "gone" THEN @   \* ManagedQueue fails: the shard is skipped
                         ELSE Append(@, [worker |-> w, byteSize |-> ByteSize(s)])]

\* getOrStartWorker: the worker is in the map, or a new one is built ...
getWorker(r) ==
    LET q == st.req[r]
        s == Head(q.todo)
    IN /\ q.pc = "workers" /\ q.todo # <<>>
       /\ st' = IF s \in DOMAIN st.workers
                THEN [st EXCEPT !.req[r] = addCandidate(r, st.workers[s])]
                ELSE [st EXCEPT !.instances = Append(@, [shard |-> s, phase |-> "built", cancelled |-> ~st.running]),
                                !.req[r].pc = "store", !.req[r].mine = Len(st.instances) + 1]

\* Mutant: the new worker replaces one another request has stored meanwhile.
startAlways(r) ==
    LET q == st.req[r]
        s == Head(q.todo)
    IN /\ q.pc = "store"
       /\ st' = [st EXCEPT !.workers = With(@, s, q.mine), !.instances[q.mine].phase = "running",
                           !.req[r] = addCandidate(r, q.mine)]
\* ... and stored and started, unless another request was faster (LoadOrStore).
startWorker(r) ==
    LET q == st.req[r]
        s == Head(q.todo)
    IN /\ q.pc = "store"
       /\ st' = IF s \in DOMAIN st.workers
                THEN [st EXCEPT !.instances[q.mine].cancelled = TRUE, !.req[r] = addCandidate(r, st.workers[s])]
                ELSE [st EXCEPT !.workers = With(@, s, q.mine), !.instances[q.mine].phase = "running",
                                !.req[r] = addCandidate(r, q.mine)]

\* The candidates, least loaded first.
selectDistributionCandidates(r) ==
    /\ st.req[r].pc = "workers" /\ st.req[r].todo = <<>>
    /\ st' = IF st.req[r].candidates = <<>> THEN Finish(r)
             ELSE [st EXCEPT !.req[r].pc = "submit",
                             !.req[r].candidates = SortSeq(@, LAMBDA a, b : a.byteSize < b.byteSize)]

Waiting(w) == {r \in FlowRequests : st.req[r].pc = "await" /\ st.req[r].mine = w}
HasRoom(w) == Cardinality(Waiting(w)) < BufferSize
Stopping(w) == st.instances[w].cancelled

\* The candidates a fast failover may settle on: the first with room; a worker
\* that is stopping may take the item or refuse it.
Accepting(candidates) ==
    {i \in DOMAIN candidates :
        /\ HasRoom(candidates[i].worker) /\ st.instances[candidates[i].worker].phase # "exited"
        /\ \A j \in 1..(i - 1) : ~HasRoom(candidates[j].worker) \/ Stopping(candidates[j].worker)}

Handed(r, w) == [st EXCEPT !.req[r].pc = "await", !.req[r].mine = w, !.req[r].candidates = <<>>]

\* distributeRequest: a non-blocking Submit to each, then a blocking one to the
\* best candidate.
distributeRequest(r) ==
    LET cs == st.req[r].candidates
        best == cs[1].worker
    IN /\ st.req[r].pc = "submit"
       /\ \/ \E i \in Accepting(cs) : st' = Handed(r, cs[i].worker)
          \/ /\ \A i \in DOMAIN cs : ~HasRoom(cs[i].worker) \/ Stopping(cs[i].worker)
             /\ st' = [st EXCEPT !.req[r].pc = "block", !.req[r].candidates = <<cs[1]>>]

\* SubmitOrBlock: room, the end of the request's context, or a worker that stops.
SubmitOrBlock(r) ==
    LET w == st.req[r].candidates[1].worker
    IN /\ st.req[r].pc = "block"
       /\ \/ HasRoom(w) /\ st.instances[w].phase # "exited" /\ st' = Handed(r, w)
          \/ Stopping(w) /\ st' = Finish(r)
          \/ st' = Finish(r)

\* awaitFinalization: the processor's outcome or the end of the context.  A
\* draining shard makes the loop start again with a new item.
awaitFinalization(r) ==
    LET i == st.instances[st.req[r].mine]
    IN /\ st.req[r].pc = "await"
       /\ \/ i.cancelled /\ st' = Finish(r)
          \/ ~i.cancelled /\ st.shards[i.shard] = "draining"
             /\ st' = [st EXCEPT !.req[r] = [NewRequest EXCEPT !.attempts = st.req[r].attempts]]
          \/ ~i.cancelled /\ i.phase = "running" /\ st' = Finish(r)
          \/ st' = Finish(r)

-----------------------------------------------------------------------------
\* The supervisor

\* reconcileProcessors takes the shards the registry has ...
ReconcileStart ==
    /\ st.running /\ st.collector = Nil /\ st.workers # <<>>
    /\ st' = [st EXCEPT !.collector = [known |-> {s \in Shards : st.shards[s] \in {"active", "draining"}},
                                       todo |-> Shards]]

\* ... and then visits the workers one by one.
ReconcileStep(s) ==
    /\ st.collector # Nil /\ s \in st.collector.todo
    /\ LET stale == s \in DOMAIN st.workers /\ s \notin st.collector.known
           left == st.collector.todo \ {s}
       IN st' = [st EXCEPT
            !.collector = IF left = {} THEN Nil ELSE [@ EXCEPT !.todo = left],
            !.instances = IF stale THEN [@ EXCEPT ![st.workers[s]].cancelled = TRUE] ELSE @,
            !.workers = IF stale THEN Without(@, {s}) ELSE @,
            !.raced = IF stale /\ st.shards[s] # "gone" THEN @ \cup {s} ELSE @]

\* The controller's context ends: every worker's context is derived from it.
Shutdown ==
    /\ st.running
    /\ st' = [st EXCEPT !.running = FALSE, !.collector = Nil,
                        !.instances = [i \in DOMAIN @ |-> [@[i] EXCEPT !.cancelled = TRUE]]]

\* A processor's Run returns once it has drained its queues.
WorkerExits(w) ==
    /\ st.instances[w].phase = "running" /\ Stopping(w) /\ Waiting(w) = {}
    /\ st' = [st EXCEPT !.instances[w].phase = "exited"]

\* updateShardCount and the registry's collection of drained shards.
ShardChanges(s) ==
    /\ st.changes < MaxShardChanges /\ st.shards[s] # "gone"
    /\ st' = [st EXCEPT !.changes = @ + 1,
                !.shards[s] = CASE @ = "new" -> "active" [] @ = "active" -> "draining" [] @ = "draining" -> "gone"]

DistributionNext ==
    \/ \E r \in FlowRequests :
          \/ tryDistribution(r) \/ getWorker(r) \/ startWorker(r) \/ selectDistributionCandidates(r)
          \/ distributeRequest(r) \/ SubmitOrBlock(r) \/ awaitFinalization(r)
    \/ ReconcileStart
    \/ \E s \in Shards : ReconcileStep(s) \/ ShardChanges(s)
    \/ Shutdown
    \/ \E w \in DOMAIN st.instances : WorkerExits(w)

-----------------------------------------------------------------------------
(***************************************************************************)
(* A shard's queues have one processor: however many requests start it at  *)
(* the same time, one worker of a shard runs, it is the one in the map     *)
(* (where the supervisor finds it), and while the controller runs none of  *)
(* the started workers escapes cancellation.  A second processor appears   *)
(* beside one that is still shutting down only on a shard that was added   *)
(* while reconcileProcessors was between its snapshot and that worker, or  *)
(* that was removed from the registry while its worker was being started.  *)
(***************************************************************************)
OneProcessorPerShard ==
    part = "distribution" =>
      \A s \in Shards :
        LET live == {w \in DOMAIN st.instances : st.instances[w].shard = s /\ st.instances[w].phase = "running"}
            working == {w \in live : ~Stopping(w)}
        IN /\ \A w \in working : s \in DOMAIN st.workers /\ st.workers[s] = w
           /\ s \notin st.raced /\ st.shards[s] # "gone" => Cardinality(live) =< 1
=============================================================================
