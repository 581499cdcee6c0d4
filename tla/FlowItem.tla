------------------------------ MODULE FlowItem ------------------------------
(***************************************************************************)
(* The item a request becomes inside the flow control layer, and the only  *)
(* two operations that change it: SetHandle, when a queue takes it in, and *)
(* the finalization, which sync.Once makes happen at most once whoever     *)
(* calls it (the request's own goroutine, when its context ends, or the    *)
(* shard processor).                                                       *)
(*                                                                         *)
(* A finalization reads the handle and stores the final state inside one   *)
(* sync.Once body.  It is one step here: the only step that can fall       *)
(* between the read and the store is the processor's SetHandle, and that   *)
(* run ends in the same state as the one where SetHandle comes after.      *)
(***************************************************************************)
EXTENDS Naturals

CONSTANT Items          \* one FlowItem per distribution attempt

VARIABLES
  handle,               \* handle[i]: has a queue ever taken the item in?
  final                 \* final[i]: its outcome, or NotYetFinalized

itemVars == <<handle, final>>

NotYetFinalized == "NotYetFinalized"

Rejections == {"RejectedCapacity", "RejectedOther"}
Evictions  == {"EvictedTTL", "EvictedContextCancelled", "EvictedOther"}
Outcomes   == {"Dispatched"} \union Rejections \union Evictions

\* Why a request's context ended.
Causes == {"TTL", "Canceled", "Other"}

ItemTypeOK ==
  /\ handle \in [Items -> BOOLEAN]
  /\ final \in [Items -> Outcomes \union {NotYetFinalized}]

ItemInit ==
  /\ handle = [i \in Items |-> FALSE]
  /\ final = [i \in Items |-> NotYetFinalized]

Finalized(i) == final[i] # NotYetFinalized

SetHandle(i) == handle' = [handle EXCEPT ![i] = TRUE]

-----------------------------------------------------------------------------
\* A finalization without sync.Once: the last caller wins.
FinalizeTwice(S, o) ==
  final' = [i \in Items |-> IF i \in S THEN o ELSE final[i]]

\* The first finalization of each item of S stores the outcome, later ones do
\* nothing.
finalizeInternal(S, o) ==
  final' = [i \in Items |-> IF i \in S /\ ~Finalized(i) THEN o ELSE final[i]]

FinalizeWithOutcome(i, o) == finalizeInternal({i}, o)

outcomeIfEvicted(cause) ==
  CASE cause = "TTL"      -> "EvictedTTL"
    [] cause = "Canceled" -> "EvictedContextCancelled"
    [] OTHER              -> "EvictedOther"

\* The outcome inferred without looking at the handle.
InferQueued(cause, isQueued) == outcomeIfEvicted(cause)

\* The outcome of an item whose request's context ended: a rejection when no
\* queue has taken it in, an eviction otherwise.
inferOutcome(cause, isQueued) ==
  IF isQueued THEN outcomeIfEvicted(cause) ELSE "RejectedOther"

Finalize(i, cause) == finalizeInternal({i}, inferOutcome(cause, handle[i]))
=============================================================================
