--------------------------- MODULE EvictionQueue ---------------------------
(***************************************************************************)
(* The eviction plugin: the requests in flight, the heap of those that may *)
(* be evicted, the goroutine each tracked request leaves behind until its  *)
(* context ends, and EvictN, which pops a request, aborts it on the model  *)
(* server and tracks it again when the abort fails.                        *)
(*                                                                         *)
(* The heap is the set of ids in handles: container/heap hands out the     *)
(* least entry under the ordering policy.  Requests are known by their id. *)
(***************************************************************************)
EXTENDS Integers, FiniteSets

CONSTANTS Requests, PriorityOf

NoItem == [id |-> "none", priority |-> 0, at |-> 0]

VARIABLES
  allInFlight,    \* request id |-> eviction item, of the tracked requests
  handles,        \* the ids that have an entry in the heap
  waiters,        \* goroutines waiting for a request context to end
  evicting,       \* the item EvictN has popped and is aborting
  retracked,      \* the requests a failed abort has tracked again
  clock           \* dispatch times: the number of items made so far

evictionVars == <<allInFlight, handles, waiters, evicting, retracked, clock>>

Put(f, k, v) == [x \in DOMAIN f \union {k} |-> IF x = k THEN v ELSE f[x]]
Without(f, k) == [x \in DOMAIN f \ {k} |-> f[x]]

\* SheddableFilter.Accept
Accept(item) == item.priority < 0

\* PriorityThenTimeOrdering.Less: the lowest priority, then the newest.
Less(a, b) == IF a.priority # b.priority THEN a.priority < b.priority
                                         ELSE a.at > b.at

\* The entry heap.Pop returns.
MostEvictable(item) == \A id \in handles : ~Less(allInFlight[id], item)

Track(item) ==
  /\ allInFlight' = Put(allInFlight, item.id, item)
  /\ handles' = IF Accept(item) THEN handles \union {item.id} ELSE handles \ {item.id}

\* Mutant: completion only takes the request out of the heap.
UntrackHeap(id) ==
  /\ handles' = handles \ {id}
  /\ UNCHANGED allInFlight

Untrack(id) ==
  /\ handles' = handles \ {id}
  /\ allInFlight' = Without(allInFlight, id)

NewItem(r) == [id |-> r, priority |-> PriorityOf[r], at |-> clock]

EvictionPreRequest(r) ==
  /\ Track(NewItem(r))
  /\ waiters' = waiters \union {r}
  /\ clock' = clock + 1
  /\ UNCHANGED <<evicting, retracked>>

\* ResponseBody with EndOfStream, of a request the director has scheduled.
EvictionResponseBody(r) == Untrack(r) /\ UNCHANGED <<waiters, evicting, retracked, clock>>

\* go func() { <-ctx.Done(); p.queue.Untrack(requestID) }()
ContextDone(r) ==
  /\ r \in waiters
  /\ Untrack(r)
  /\ waiters' = waiters \ {r}
  /\ UNCHANGED <<evicting, retracked, clock>>

\* EvictN, one round: the pop...
EvictPop ==
  /\ evicting = NoItem
  /\ \E id \in handles :
       /\ MostEvictable(allInFlight[id])
       /\ evicting' = allInFlight[id]
       /\ Untrack(id)
  /\ UNCHANGED <<waiters, retracked, clock>>

\* ... and the abort, with the lock released in between.
EvictAborted(failed) ==
  /\ evicting # NoItem
  /\ evicting' = NoItem
  /\ IF failed THEN Track(evicting) ELSE UNCHANGED <<allInFlight, handles>>
  /\ retracked' = IF failed THEN retracked \union {evicting.id} ELSE retracked
  /\ UNCHANGED <<waiters, clock>>

EvictionInit ==
  /\ allInFlight = << >>
  /\ handles = {}
  /\ waiters = {}
  /\ evicting = NoItem /\ retracked = {}
  /\ clock = 0
=============================================================================
