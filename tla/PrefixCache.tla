---------------------------- MODULE PrefixCache ----------------------------
(***************************************************************************)
(* The approximate prefix cache producer: PrepareRequestData hashes the    *)
(* prompt in blocks and looks the hashes up in the indexer, PreRequest     *)
(* adds them for the chosen servers in a goroutine of its own, and the     *)
(* plugin state carries the hashes from the one to the other.  The         *)
(* director gives up waiting for PrepareRequestData after a timeout, so    *)
(* PreRequest may overtake it.  The plugin state keeps the data and the    *)
(* time of the last access in two sync.Maps.                               *)
(***************************************************************************)
EXTENDS Component, SequencesExt

CONSTANTS
    PromptOf,           \* request -> [model, salt, text], each a sequence
    Servers,            \* servers (pods)
    CacheBlockSize,     \* server -> block size its metrics report, 0: none
    CacheNumBlocks,     \* server -> number of GPU blocks its metrics report
    AutoTune,           \* config.AutoTune
    BlockSizeTokens,    \* config.BlockSizeTokens
    CharactersPerToken, \* averageCharactersPerToken
    MaxPrefixBlocks,    \* config.MaxPrefixBlocksToMatch
    LRUCapacity,        \* defaultLRUCapacityPerServer
    Staleness,          \* stalenessThreshold, in ticks
    EndpointLists,      \* candidate lists the director passes, in order
    TargetChoices,      \* targets scheduling may choose: primary, then prefill
    SlowRequests,       \* requests whose data preparation may time out (a bound)
    MaxPodToggles,      \* bound on servers leaving and returning
    Leaving,            \* servers that leave
    MaxPrefixClock      \* bound on the clock

PrefixRequests == DOMAIN PromptOf

PrefixInit ==
    st = [req |-> [r \in PrefixRequests |-> [prepare |-> "new", main |-> "waiting", hashes |-> <<>>, found |-> Nil,
                                             servers |-> <<>>]],
          storage |-> <<>>, access |-> <<>>, late |-> {}, overtaken |-> {}, reaping |-> Nil,
          hashToPods |-> <<>>, podToLRU |-> <<>>, orphans |-> {},
          active |-> Servers, sweep |-> {}, toggles |-> 0, now |-> 0]

-----------------------------------------------------------------------------
\* Hashing.  A hash stands for the bytes that were written to it.

GetBlockSize(endpoints) ==
    IF AutoTune /\ endpoints # <<>>
    THEN LET c == CacheBlockSize[endpoints[1]] IN IF c > 0 THEN c ELSE BlockSizeTokens
    ELSE BlockSizeTokens

hashPrompt(prompt, blockSize) ==
    LET size == blockSize * CharactersPerToken
        text == SubSeq(prompt.text, 1, Min2(Len(prompt.text), MaxPrefixBlocks * size))
        hash[i \in 0..Len(text)] ==
            IF i = 0 THEN <<prompt.model \o prompt.salt>>
            ELSE Append(hash[i - 1], SubSeq(text, (i - 1) * size + 1, i * size))
    IN IF size =< 0 \/ Len(prompt.text) < size THEN <<>>
       ELSE [i \in 1..(Len(text) \div size) |-> hash[i]]

-----------------------------------------------------------------------------
\* The indexer (all operations under its mutex)

Get(h) == Lookup(st.hashToPods, h, {})

\* A server's count is the number of leading blocks that some server has and
\* that it has itself.
matchLongestPrefix(hashes) ==
    LET known == {i \in DOMAIN hashes : \A j \in 1..i : Get(hashes[j]) # {}}
    IN [s \in UNION {Get(hashes[i]) : i \in known} |-> Cardinality({i \in known : s \in Get(hashes[i])})]

evictFrom(table, h, s) ==
    LET t == With(table, h, Lookup(table, h, {}) \ {s})
    IN IF t[h] = {} THEN Without(t, {h}) ELSE t

capacityOf(s) == IF AutoTune /\ CacheNumBlocks[s] > 0 THEN CacheNumBlocks[s] ELSE LRUCapacity

\* Mutant: the eviction callback is not installed.
lruAddNoCallback(i, h, s) ==
    LET order == Append(SelectSeq(i.lru, LAMBDA x : x # h), h)
    IN [i EXCEPT !.lru = IF Len(order) > capacityOf(s) THEN Tail(order) ELSE order]
\* lru.Add: to the front of the recency order, evicting from its tail.
lruAdd(i, h, s) ==
    LET order == Append(SelectSeq(i.lru, LAMBDA x : x # h), h)
    IN IF Len(order) > capacityOf(s)
       THEN [lru |-> Tail(order), table |-> evictFrom(i.table, Head(order), s)]
       ELSE [i EXCEPT !.lru = order]

Add(hashes, s) ==
    LET old == Lookup(st.podToLRU, s, <<>>)
        after == FoldLeft(LAMBDA i, h : lruAdd(i, h, s), [lru |-> old, table |-> st.hashToPods], hashes)
        new == ToSet(hashes)
    IN [podToLRU |-> With(st.podToLRU, s, after.lru),
        hashToPods |-> [h \in DOMAIN after.table \cup new |->
                           Lookup(after.table, h, {}) \cup (IF h \in new THEN {s} ELSE {})],
        orphans |-> {o \in st.orphans : ~(o[2] = s /\ o[1] \in new)}
                    \cup {<<h, s>> : h \in new \ ToSet(after.lru)}]

-----------------------------------------------------------------------------
\* PrepareRequestData, with PluginState.Write in two steps

PrepareHash(r) ==
    /\ st.req[r].prepare = "new"
    /\ \E endpoints \in EndpointLists :
         LET hashes == hashPrompt(PromptOf[r], GetBlockSize(endpoints))
         IN st' = [st EXCEPT !.req[r].hashes = hashes, !.req[r].found = matchLongestPrefix(hashes),
                             !.req[r].prepare = "stamp"]

WriteStamp(r) ==
    /\ st.req[r].prepare = "stamp"
    /\ st' = [st EXCEPT !.access = With(@, r, st.now), !.req[r].prepare = "store", !.overtaken = @ \ {r}]

WriteStore(r) ==
    /\ st.req[r].prepare = "store"
    /\ st' = [st EXCEPT !.storage = With(@, r, st.req[r].hashes), !.req[r].prepare = "done"]

-----------------------------------------------------------------------------
\* PreRequest, with PluginState.Read and the deferred Delete in two steps

\* The director goes on when the data is prepared, or after the timeout; the
\* target, and a prefill server if there is a prefill profile, are chosen.
PreRequest(r) ==
    /\ st.req[r].main = "waiting" /\ (st.req[r].prepare = "done" \/ r \in SlowRequests)
    /\ \E servers \in TargetChoices :
         LET found == r \in DOMAIN st.storage
         IN st' = [st EXCEPT
               !.access = IF servers = <<>> THEN @ ELSE With(@, r, st.now),
               !.req[r].found = Nil,
               !.req[r].main = "delete",
               !.req[r].servers = IF servers # <<>> /\ found THEN servers ELSE <<>>]

\* The goroutine that adds the hashes; PreRequest does not wait for it.
IndexUpdate(r) ==
    /\ st.req[r].servers # <<>>
    /\ LET new == Add(st.req[r].hashes, Head(st.req[r].servers))
       IN st' = [st EXCEPT !.podToLRU = new.podToLRU, !.hashToPods = new.hashToPods,
                           !.orphans = new.orphans, !.req[r].servers = Tail(@)]

DeleteStorage(r) ==
    /\ st.req[r].main = "delete"
    /\ st' = [st EXCEPT !.storage = Without(@, {r}), !.req[r].main = "deleteAccess",
                        !.late = IF st.req[r].prepare = "done" THEN @ ELSE @ \cup {r}]

\* A Write that stored its time before a Delete's second step and stores its
\* data after the first leaves data without a time.
overtakenBy(r) == st.overtaken \cup {x \in {r} : st.req[r].prepare = "store" \/ r \in DOMAIN st.storage}

DeleteAccess(r) ==
    /\ st.req[r].main = "deleteAccess"
    /\ st' = [st EXCEPT !.access = Without(@, {r}), !.req[r].main = "done", !.overtaken = overtakenBy(r)]

\* cleanStaleRequests reaches r and finds it stale; Delete follows, in two steps.
FindStale(r) ==
    /\ st.reaping = Nil /\ r \in DOMAIN st.access /\ st.now - st.access[r] > Staleness
    /\ st' = [st EXCEPT !.reaping = [id |-> r, step |-> "storage"]]

ReapStorage ==
    /\ st.reaping # Nil /\ st.reaping.step = "storage"
    /\ st' = [st EXCEPT !.storage = Without(@, {st.reaping.id}), !.reaping.step = "access"]

ReapAccess ==
    /\ st.reaping # Nil /\ st.reaping.step = "access"
    /\ st' = [st EXCEPT !.access = Without(@, {st.reaping.id}), !.reaping = Nil,
                        !.overtaken = overtakenBy(st.reaping.id)]

-----------------------------------------------------------------------------
\* CleanUpInactivePods: the pods in the index and not in the pod list, then
\* RemovePod for each.

PodsChange ==
    \E s \in Leaving :
       /\ st.toggles < MaxPodToggles
       /\ st' = [st EXCEPT !.toggles = @ + 1, !.active = IF s \in @ THEN @ \ {s} ELSE @ \cup {s}]

CleanUpInactivePods ==
    /\ st.sweep = {} /\ DOMAIN st.podToLRU \ st.active # {}
    /\ st' = [st EXCEPT !.sweep = DOMAIN st.podToLRU \ st.active]

RemovePod(s) ==
    /\ s \in st.sweep
    /\ st' = [st EXCEPT !.sweep = @ \ {s}, !.podToLRU = Without(@, {s}),
                        !.hashToPods = IF s \in DOMAIN st.podToLRU
                            THEN FoldLeft(LAMBDA t, h : evictFrom(t, h, s), @, st.podToLRU[s]) ELSE @]

PrefixTick ==
    /\ st.now < MaxPrefixClock
    /\ st' = [st EXCEPT !.now = @ + 1]

PrefixNext ==
    \/ \E r \in PrefixRequests :
          \/ PrepareHash(r) \/ WriteStamp(r) \/ WriteStore(r)
          \/ PreRequest(r) \/ IndexUpdate(r) \/ DeleteStorage(r) \/ DeleteAccess(r)
          \/ FindStale(r)
    \/ ReapStorage
    \/ ReapAccess
    \/ PodsChange
    \/ CleanUpInactivePods
    \/ \E s \in Servers : RemovePod(s)
    \/ PrefixTick

-----------------------------------------------------------------------------
(***************************************************************************)
(* The two tables of the indexer agree: a server is listed for a hash      *)
(* exactly when the hash is in the server's LRU.  The code has one         *)
(* exception, and the property states it: hashes evicted by the very batch *)
(* that added them are listed, in no LRU, and stay listed when the pod is  *)
(* removed, until a later batch adds them again.                           *)
(***************************************************************************)
PrefixTablesAgree ==
    part = "prefix" =>
      {<<h, s>> \in (DOMAIN st.hashToPods) \X Servers : s \in st.hashToPods[h]}
      = (UNION {{<<h, s>> : h \in ToSet(st.podToLRU[s])} : s \in DOMAIN st.podToLRU}) \cup st.orphans

(***************************************************************************)
(* Data in the plugin state can always be reaped: cleanStaleRequests goes  *)
(* by the times of last access, and data without one stays for ever.  It   *)
(* happens only to a request for which a Delete ran between the two steps  *)
(* of a Write.  And a request whose PrepareRequestData was done before the *)
(* Delete of PreRequest leaves nothing behind at all.                      *)
(***************************************************************************)
PluginStateReapable ==
    part = "prefix" =>
      \A r \in PrefixRequests :
        /\ r \in DOMAIN st.storage \ DOMAIN st.access => r \in st.overtaken
        /\ st.req[r].main = "done" /\ r \notin st.late
              => r \notin DOMAIN st.storage /\ r \notin DOMAIN st.access

\* What the prefix plugin keeps between requests, in the indexer and in the
\* plugin state, is consistent and can go: the two properties above.
PrefixStateSound == PrefixTablesAgree /\ PluginStateReapable
=============================================================================
