------------------------------- MODULE Queues -------------------------------
(***************************************************************************)
(* The two SafeQueue implementations: ListQueue, a linked list, and        *)
(* MaxMinHeap, an array whose even levels hold the best item of their      *)
(* subtree and whose odd levels hold the worst.  Every operation holds the *)
(* queue's lock, so each is one step.  Indices are the code's, from 0.     *)
(* The queue of running requests (RunningQueue) is a third, of its own.    *)
(***************************************************************************)
EXTENDS RunningQueue

CONSTANTS QueueItems,   \* the items; an item's priority is Rank[item], its size Bytes[item]
          Rank, Bytes,
          MaxCleaned    \* bound on the items one Cleanup removes

\* q.items is the array or list, q.index the index field of each live handle;
\* `skewed` records a removal that left an item out of order with those above it.
EmptyQueue == [items |-> <<>>, index |-> <<>>]
QueuesInit ==
    \/ RunningInit
    \/ \E kind \in {"ListQueue", "MaxMinHeap"} :
         st = [kind |-> kind, q |-> EmptyQueue, byteSize |-> 0, live |-> {}, skewed |-> FALSE]

\* OrderingPolicy.Less: a is dispatched before b.
Less(a, b) == Rank[a] > Rank[b]
At(q, i) == q.items[i + 1]
Parent(i) == IF i = 0 THEN 0 ELSE (i - 1) \div 2

Level(i) == CHOOSE l \in 0..10 : 2^l =< i + 1 /\ i + 1 < 2^(l + 1)
isMinLevel(i) == Level(i) % 2 # 0

\* The order of the levels of one kind: better upwards on max levels, worse on min levels.
Above(min, a, b) == IF min THEN Less(b, a) ELSE Less(a, b)

swap(q, i, j) ==
    [items |-> [q.items EXCEPT ![i + 1] = At(q, j), ![j + 1] = At(q, i)],
     index |-> [q.index EXCEPT ![At(q, j)] = i, ![At(q, i)] = j]]

-----------------------------------------------------------------------------
RECURSIVE upLevels(_, _, _)
\* upMin and upMax: bubble up through the grandparents.
upLevels(q, i, min) ==
    LET grandparent == Parent(Parent(i))
    IN IF Parent(i) # 0 /\ Above(min, At(q, i), At(q, grandparent))
       THEN upLevels(swap(q, i, grandparent), grandparent, min)
       ELSE q

up(q, i) ==
    IF i = 0 THEN q
    ELSE IF Above(~isMinLevel(i), At(q, i), At(q, Parent(i)))
         THEN upLevels(swap(q, i, Parent(i)), Parent(i), ~isMinLevel(i))
         ELSE upLevels(q, i, isMinLevel(i))

\* The first of the most extreme among the children and grandchildren of i; -1 if none.
findExtremeDescendant(q, i, min) ==
    LET family == {j \in {2*i + 1, 2*i + 2} \cup (4*i + 3)..(4*i + 6) : j < Len(q.items)}
        extreme == {j \in family : \A k \in family : ~Above(min, At(q, k), At(q, j))}
    IN IF family = {} THEN -1 ELSE CHOOSE j \in extreme : \A k \in extreme : j =< k

RECURSIVE downLevels(_, _, _)
\* downMin and downMax: trickle down through children and grandchildren.
downLevels(q, i, min) ==
    LET m == findExtremeDescendant(q, i, min)
        moved == swap(q, i, m)
        p == Parent(m)
    IN IF m = -1 \/ ~Above(min, At(q, m), At(q, i)) THEN q
       ELSE downLevels(IF p # i /\ Above(~min, At(moved, m), At(moved, p)) THEN swap(moved, m, p) ELSE moved, m, min)

down(q, i) == downLevels(q, i, isMinLevel(i))

RECURSIVE heapify(_, _)
heapify(q, i) == IF i < 0 THEN q ELSE heapify(down(q, i), i - 1)

-----------------------------------------------------------------------------
push(q, item) == up([items |-> Append(q.items, item), index |-> With(q.index, item, Len(q.items))], Len(q.items))

QueueAdd(item) ==
    /\ item \notin st.live
    /\ st' = [st EXCEPT !.live = @ \cup {item}, !.byteSize = @ + Bytes[item],
                !.q = IF st.kind = "MaxMinHeap" THEN push(@, item)
                      ELSE [items |-> Append(@.items, item), index |-> <<>>]]

\* The item that fills the hole at i belongs higher up.
Misplaced(q, i) ==
    /\ i > 0
    /\ \/ Above(~isMinLevel(i), At(q, i), At(q, Parent(i)))
       \/ Parent(i) # 0 /\ Above(isMinLevel(i), At(q, i), At(q, Parent(Parent(i))))

\* MaxMinHeap.Remove: the last item fills the hole and trickles down.
fillHole(q, item) ==
    LET i == q.index[item]
        n == Len(q.items) - 1
        swapped == swap(q, i, n)
        cut == [items |-> SubSeq(swapped.items, 1, n), index |-> Without(swapped.index, {item})]
    IN [hole |-> i < n /\ Misplaced(cut, i), q |-> IF i < n THEN down(cut, i) ELSE cut]

\* Remove; with an invalidated handle, or another queue's, it only returns an error.
QueueRemove(item) ==
    /\ item \in st.live
    /\ LET filled == fillHole(st.q, item)
       IN st' = [st EXCEPT !.live = @ \ {item}, !.byteSize = @ - Bytes[item],
                   !.q = IF st.kind = "MaxMinHeap" THEN filled.q
                         ELSE [@ EXCEPT !.items = SelectSeq(@, LAMBDA x : x # item)],
                   !.skewed = st.kind = "MaxMinHeap" /\ filled.q.items # <<>> /\ (@ \/ filled.hole)]

\* Mutant: the kept items are not rebuilt into a heap.
CompactOnly(q, gone) ==
    LET kept == SelectSeq(q.items, LAMBDA x : x \notin gone)
    IN [items |-> kept, index |-> [x \in Range(kept) |-> (CHOOSE i \in DOMAIN kept : kept[i] = x) - 1]]
compact(q, gone) ==
    LET kept == SelectSeq(q.items, LAMBDA x : x \notin gone)
    IN heapify([items |-> kept, index |-> [x \in Range(kept) |-> (CHOOSE i \in DOMAIN kept : kept[i] = x) - 1]],
               Len(kept) \div 2 - 1)

\* Cleanup with a predicate that holds of the items in `gone`.
QueueCleanup(gone) ==
    /\ gone # {} /\ Cardinality(gone) =< MaxCleaned
    /\ st' = [st EXCEPT !.live = @ \ gone,
                !.byteSize = FoldLeft(LAMBDA b, x : IF x \in gone THEN b - Bytes[x] ELSE b, @, st.q.items),
                !.q = IF st.kind = "MaxMinHeap" THEN compact(@, gone)
                      ELSE [@ EXCEPT !.items = SelectSeq(@, LAMBDA x : x \notin gone)],
                !.skewed = FALSE]

QueueDrain == st' = [st EXCEPT !.q = EmptyQueue, !.byteSize = 0, !.live = {}, !.skewed = FALSE]

QueuesNext ==
    \/ st.kind = "running" /\ RunningNext
    \/ /\ st.kind # "running"
       /\ \/ \E item \in QueueItems : QueueAdd(item) \/ QueueRemove(item)
          \/ \E gone \in SUBSET st.live : QueueCleanup(gone)
          \/ QueueDrain

PeekHead == At(st.q, 0)
PeekTail ==
    LET n == Len(st.q.items)
    IN CASE st.kind = "ListQueue" \/ n =< 2 -> At(st.q, n - 1)
         [] OTHER -> IF Less(At(st.q, 1), At(st.q, 2)) THEN At(st.q, 2) ELSE At(st.q, 1)

(***************************************************************************)
(* What a managed queue and the ordering policies rely on, after any       *)
(* sequence of operations: the items with a live handle are the queued     *)
(* ones, each handle of the heap points at its item, ByteSize is the sum   *)
(* of the queued sizes, and the heap's head and tail are a best and a      *)
(* worst item.  The last holds as long as no Remove has filled its hole    *)
(* with an item that belongs above it (Remove only trickles down, line     *)
(* 290); the next Cleanup that removes anything rebuilds the heap.  The    *)
(* queue of running requests, which Fixes in both directions, keeps its    *)
(* tightest objective at the head without that exception.                  *)
(***************************************************************************)
QueueKeepsItsItems ==
    part = "queue" =>
      IF st.kind = "running" THEN RunningQueueSound
      ELSE LET items == st.q.items
           IN /\ Range(items) = st.live /\ Len(items) = Cardinality(st.live)
              /\ st.byteSize = FoldLeft(LAMBDA b, x : b + Bytes[x], 0, items)
              /\ st.kind = "MaxMinHeap" =>
                   /\ DOMAIN st.q.index = st.live
                   /\ \A x \in st.live : At(st.q, st.q.index[x]) = x
                   /\ items # <<>> /\ ~st.skewed =>
                        \A x \in st.live : ~Less(x, PeekHead) /\ ~Less(PeekTail, x)
=============================================================================
