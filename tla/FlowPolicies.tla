---------------------------- MODULE FlowPolicies ----------------------------
(***************************************************************************)
(* The policies a priority band is built with: the ordering policies       *)
(* compare items (first come first served, earliest deadline, SLO          *)
(* deadline), the fairness policies pick the queue to serve (round robin   *)
(* with a cursor, global strict over the heads).                           *)
(***************************************************************************)
EXTENDS Component, SequencesExt

CONSTANTS
    Flows,           \* flow keys: integers, in the order of FlowKey.Compare
    MaxQueued,       \* bound on a flow's queue
    PolicyItems      \* items: [enqueued, ttl, received, slo]

MaxDeadline == 1000  \* time.Unix(0, 1<<63-1)
PickError == 0       \* Pick returns an error (flow keys are positive)
Unpicked == -1

-----------------------------------------------------------------------------
\* Ordering

\* A time to live of zero or less never expires.
calculateDeadline(item) == IF item.ttl =< 0 THEN MaxDeadline ELSE item.enqueued + item.ttl

\* The TTFT objective in the request's header; Nil where it is absent or no number.
calculateSLODeadline(item) ==
    IF item.slo = Nil THEN MaxDeadline ELSE IF item.slo < 0 THEN MaxDeadline ELSE item.received + item.slo

fcfsLess(a, b) == a # Nil /\ (b = Nil \/ a.enqueued < b.enqueued)

edfLess(a, b) ==
    /\ a # Nil
    /\ \/ b = Nil
       \/ calculateDeadline(a) < calculateDeadline(b)
       \/ calculateDeadline(a) = calculateDeadline(b) /\ a.enqueued < b.enqueued

sloLess(a, b) ==
    /\ a # Nil
    /\ \/ b = Nil
       \/ calculateSLODeadline(a) < calculateSLODeadline(b)
       \/ calculateSLODeadline(a) = calculateSLODeadline(b) /\ a.received < b.received

OrderingLess(policy, a, b) ==
    CASE policy = "fcfs" -> fcfsLess(a, b) [] policy = "edf" -> edfLess(a, b) [] policy = "slo" -> sloLess(a, b)

-----------------------------------------------------------------------------
\* Fairness

\* globalStrict.Pick over the queues in the order of the iteration; heads[f] is
\* Nil for an empty queue.  Queues of different policies are an error.
strictPick(order, policy, heads) ==
    FoldLeft(LAMBDA best, f :
                IF best = PickError \/ heads[f] = Nil THEN best
                ELSE IF best = Nil THEN f
                ELSE IF policy[f] # policy[best] THEN PickError
                ELSE IF OrderingLess(policy[best], heads[f], heads[best]) THEN f ELSE best,
             Nil, order)

\* Mutant: the scan starts at the flow that was served last.
rrStartAt(keys, cursor) ==
    IF \E i \in DOMAIN keys : keys[i] = cursor
    THEN (CHOOSE i \in DOMAIN keys : keys[i] = cursor) - 1 ELSE 0
\* roundRobin.Pick: the first flow with items after the one the cursor names.
rrStart(keys, cursor) ==
    IF \E i \in DOMAIN keys : keys[i] = cursor
    THEN (CHOOSE i \in DOMAIN keys : keys[i] = cursor) % Len(keys) ELSE 0
rrPick(len, cursor) ==
    LET keys == SortSeq(SetToSeq(DOMAIN len), LAMBDA a, b : a < b)
        Key(i) == keys[((rrStart(keys, cursor) + i) % Len(keys)) + 1]
        served == {i \in 0..(Len(keys) - 1) : len[Key(i)] > 0}
    IN IF served = {} THEN Nil ELSE Key(CHOOSE i \in served : \A j \in served : i =< j)

-----------------------------------------------------------------------------
\* A band served round robin: len holds the lengths of its queues; passed[f][g]
\* counts how often g was served while f waited, and lost holds the flows that
\* waited when the flow under the cursor was removed.
Zero == [f \in Flows |-> 0]
RoundRobinInit ==
    st = [mode |-> "rr", len |-> <<>>, cursor |-> Nil, passed |-> [f \in Flows |-> Zero], lost |-> {}]

Waits(f) == f \in DOMAIN st.len /\ st.len[f] > 0

FlowArrives(f) ==
    /\ f \notin DOMAIN st.len
    /\ st' = [st EXCEPT !.len = With(@, f, 0)]

FlowLeaves(f) ==
    /\ f \in DOMAIN st.len
    /\ st' = [st EXCEPT !.len = Without(@, {f}), !.passed[f] = Zero,
                !.lost = IF st.cursor = f THEN {g \in Flows \ {f} : Waits(g)} ELSE @ \ {f}]

ItemArrives(f) ==
    /\ f \in DOMAIN st.len /\ st.len[f] < MaxQueued
    /\ st' = [st EXCEPT !.len[f] = @ + 1]

\* A dispatch cycle: the picked queue's head leaves, or turns out to be gone.
ServePick(leaves) ==
    LET f == rrPick(st.len, st.cursor)
    IN st' = IF f = Nil THEN [st EXCEPT !.cursor = Nil]
             ELSE [st EXCEPT !.cursor = f, !.len[f] = @ - leaves,
                     !.passed = [g \in Flows |-> IF g = f \/ ~Waits(g) THEN Zero ELSE [@[g] EXCEPT ![f] = Min2(@ + 1, 3)]],
                     !.lost = @ \ {f}]

\* A band served strictly: the heads of its queues, and the pick.
StrictInit ==
    \E policy \in {"fcfs", "edf", "slo"}, other \in {"fcfs", "edf"}, heads \in [Flows -> PolicyItems \cup {Nil}] :
      st = [mode |-> "strict", heads |-> heads, pick |-> Unpicked,
            policy |-> [f \in Flows |-> IF f = 1 THEN other ELSE policy]]

StrictPickStep ==
    /\ st.pick = Unpicked
    /\ \E order \in SetToSeqs(Flows) : st' = [st EXCEPT !.pick = strictPick(order, st.policy, st.heads)]

PoliciesInit == RoundRobinInit \/ StrictInit
PoliciesNext ==
    \/ /\ st.mode = "rr"
       /\ \/ \E f \in Flows : FlowArrives(f) \/ FlowLeaves(f) \/ ItemArrives(f)
          \/ \E leaves \in 0..1 : ServePick(leaves)
    \/ st.mode = "strict" /\ StrictPickStep

(***************************************************************************)
(* Who is served next: under round robin a flow with queued items is       *)
(* passed over at most once by each other flow before it is served, as     *)
(* long as the flow under the cursor is not removed meanwhile (the scan    *)
(* then starts again at the first flow).  Under global strict the pick is  *)
(* a queue whose head no other head precedes, whatever the order of the    *)
(* iteration, and nothing is picked only if every queue is empty or the    *)
(* band mixes ordering policies.                                           *)
(***************************************************************************)
ServedInTurn ==
    part = "policies" =>
      IF st.mode = "rr"
      THEN \A f \in Flows \ st.lost, g \in Flows : st.passed[f][g] =< 1
      ELSE LET full == {f \in Flows : st.heads[f] # Nil}
               uniform == \A f, g \in full : st.policy[f] = st.policy[g]
           IN /\ st.pick = PickError => ~uniform
              /\ st.pick = Nil => full = {}
              /\ st.pick \in full /\ uniform =>
                   \A g \in full : ~OrderingLess(st.policy[g], st.heads[g], st.heads[st.pick])
=============================================================================
