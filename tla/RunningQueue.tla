---------------------------- MODULE RunningQueue ----------------------------
(***************************************************************************)
(* The priority queue of the requests running on one endpoint, ordered by  *)
(* their TPOT objective: a binary heap in an array kept by container/heap, *)
(* with a lookup by request id.  Every operation holds the queue's lock.   *)
(* Indices are the code's, from 0.                                         *)
(***************************************************************************)
EXTENDS Component, SequencesExt

CONSTANTS RunningIds,    \* request ids; "" is one the queue refuses
          RunningTPOTs   \* objectives; a negative one is refused

\* items holds the ids in the heap's order; tpot, the lookup, and index are kept per id.
newRequestPriorityQueue == [items |-> <<>>, tpot |-> <<>>, index |-> <<>>]
RunningInit == st = [kind |-> "running", q |-> newRequestPriorityQueue]

tpotLess(q, i, j) == q.tpot[q.items[i + 1]] < q.tpot[q.items[j + 1]]
tpotSwap(q, i, j) ==
    [q EXCEPT !.items = [@ EXCEPT ![i + 1] = q.items[j + 1], ![j + 1] = q.items[i + 1]],
              !.index = [@ EXCEPT ![q.items[j + 1]] = i, ![q.items[i + 1]] = j]]

-----------------------------------------------------------------------------
\* container/heap

RECURSIVE heapUp(_, _)
heapUp(q, j) ==
    LET i == (j - 1) \div 2
    IN IF j = 0 \/ ~tpotLess(q, j, i) THEN q ELSE heapUp(tpotSwap(q, i, j), i)

RECURSIVE heapDown(_, _, _)
heapDown(q, i, n) ==
    LET left == 2 * i + 1
        j == IF left + 1 < n /\ tpotLess(q, left + 1, left) THEN left + 1 ELSE left
    IN IF left >= n \/ ~tpotLess(q, j, i) THEN q ELSE heapDown(tpotSwap(q, i, j), j, n)

\* The item at i has a new value: down among the first n, or else up.
heapFix(q, i, n) == LET moved == heapDown(q, i, n) IN IF moved = q THEN heapUp(q, i) ELSE moved

-----------------------------------------------------------------------------
RunningPush(q, id) == [q EXCEPT !.items = Append(@, id), !.index = With(@, id, Len(q.items))]
RunningPop(q) ==
    [q EXCEPT !.items = SubSeq(@, 1, Len(@) - 1), !.index = Without(@, {q.items[Len(q.items)]})]

\* Add; with no id, a negative objective or an id already there, it returns false.
RunningAdd(id, tpot) ==
    /\ id # "" /\ tpot >= 0 /\ id \notin DOMAIN st.q.tpot
    /\ st' = [st EXCEPT !.q = heapUp(RunningPush([@ EXCEPT !.tpot = With(@, id, tpot)], id), Len(@.items))]

\* Update; with a negative objective or an unknown id, it returns false.
RunningUpdate(id, tpot) ==
    /\ tpot >= 0 /\ id \in DOMAIN st.q.tpot
    /\ st' = [st EXCEPT !.q = heapFix([@ EXCEPT !.tpot[id] = tpot], @.index[id], Len(@.items))]

\* Remove: the last item takes the place of the one removed.
RunningRemove(id) ==
    /\ id \in DOMAIN st.q.tpot
    /\ LET n == Len(st.q.items) - 1
           i == st.q.index[id]
           placed == IF n = i THEN st.q ELSE heapFix(tpotSwap(st.q, i, n), i, n)
       IN st' = [st EXCEPT !.q = [RunningPop(placed) EXCEPT !.tpot = Without(@, {id})]]

RunningNext ==
    \E id \in RunningIds :
       \/ \E tpot \in RunningTPOTs : RunningAdd(id, tpot) \/ RunningUpdate(id, tpot)
       \/ RunningRemove(id)

RunningPeek == IF st.q.items = <<>> THEN Nil ELSE st.q.items[1]

\* The items are the requests the lookup knows, each index is where its item
\* is, and Peek is the tightest objective.
RunningQueueSound ==
    LET q == st.q
    IN /\ Range(q.items) = DOMAIN q.tpot /\ Len(q.items) = Cardinality(DOMAIN q.tpot)
       /\ DOMAIN q.index = DOMAIN q.tpot
       /\ \A id \in DOMAIN q.index : q.items[q.index[id] + 1] = id
       /\ \A id \in DOMAIN q.tpot : q.tpot[RunningPeek] =< q.tpot[id]
=============================================================================
