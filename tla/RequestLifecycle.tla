-------------------------- MODULE RequestLifecycle --------------------------
(***************************************************************************)
(* What the flow control layer promises about one item of a request.  The  *)
(* item is pending until a queue admits it or it is rejected; an item in a *)
(* queue is dispatched or evicted; an outcome is final; and the caller of  *)
(* EnqueueAndWait is answered once, with that outcome.  Several items may  *)
(* take a step together (a shutdown evicts a whole queue).                 *)
(***************************************************************************)
CONSTANT Items

VARIABLES
  status,               \* "pending", "queued" or the item's outcome
  answer                \* what the caller was told, or NotYetFinalized

Rejected == {"RejectedCapacity", "RejectedOther"}
Left     == {"Dispatched", "EvictedTTL", "EvictedContextCancelled", "EvictedOther"}

Init ==
  /\ status = [i \in Items |-> "pending"]
  /\ answer = [i \in Items |-> "NotYetFinalized"]

Admit(i)    == status[i] = "pending" /\ status'[i] = "queued"
Reject(i)   == status[i] = "pending" /\ status'[i] \in Rejected
Conclude(i) == status[i] = "queued" /\ status'[i] \in Left

Answer(i) ==
  /\ answer[i] = "NotYetFinalized"
  /\ status'[i] \in Rejected \union Left
  /\ answer'[i] = status'[i]

Step(i) ==
  /\ Admit(i) \/ Reject(i) \/ Conclude(i) \/ status'[i] = status[i]
  /\ Answer(i) \/ answer'[i] = answer[i]

Next == \A i \in Items : Step(i)

Spec == Init /\ [][Next]_<<status, answer>>
=============================================================================
