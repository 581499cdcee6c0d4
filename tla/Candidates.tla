----------------------------- MODULE Candidates -----------------------------
(***************************************************************************)
(* The endpoint candidates of a request (requestcontrol/candidates.go):    *)
(* the datastore's endpoints filtered by the subset in the request's       *)
(* metadata, behind a cache keyed by that subset whose entries live for    *)
(* `ttl`.  A subset entry is [ip, port], or Nil for a value that is not a  *)
(* string.                                                                 *)
(***************************************************************************)
EXTENDS Component, Functions

CONSTANTS
    Addresses,      \* IP addresses of endpoints
    SubsetLists,    \* the subset lists requests carry; Nil: no subset filter
    CacheTTL,       \* ttl, in ticks
    MaxNow,         \* bound on the clock
    MaxSetChanges   \* bound on changes of the set of endpoints

ASSUME CandidatesAssumption ==
    /\ CacheTTL \in Nat \ {0}
    /\ \A list \in SubsetLists : list = Nil \/ list \in Seq(Range(list))

CandidatesInit ==
    \E disabled \in BOOLEAN :
    st = [disabled |-> disabled, pods |-> Addresses, now |-> 0, past |-> [t \in {0} |-> {Addresses}], cache |-> <<>>, last |-> Nil, changes |-> 0]

strings(list) == SelectSeq(list, LAMBDA e : e # Nil)

\* DatastoreEndpointCandidates.Locate, over the given endpoints.
Select(pods, list) ==
    IF st.disabled \/ list = Nil THEN pods
    ELSE {a \in pods : \E e \in Range(strings(list)) : e.ip = a}

\* generateCacheKey: the sorted strings, joined; a sorted sequence of strings is
\* told apart from another by how often each string occurs in it.
DefaultKey == [kind |-> "default"]
EmptyKey == [kind |-> "empty"]
joined(list) == [kind |-> "list", strings |-> [e \in Range(list) |-> Cardinality({i \in DOMAIN list : list[i] = e})]]

\* Mutant: a multi-entry list is keyed by its first entry alone.
FirstEntryKey(list) ==
    IF list = Nil THEN DefaultKey
    ELSE IF list = <<>> THEN EmptyKey
    ELSE IF list[1] = Nil THEN DefaultKey ELSE joined(<<list[1]>>)
generateCacheKey(list) ==
    IF list = Nil THEN DefaultKey
    ELSE IF list = <<>> THEN EmptyKey
    ELSE IF Len(list) = 1 /\ list[1] = Nil THEN DefaultKey
    ELSE joined(strings(list))

\* CachedEndpointCandidates.Locate.  The slow path holds the write lock from
\* its second look to the update, so a lookup is one step.
CachedLocate(list) ==
    LET key == generateCacheKey(list)
        fresh == key \in DOMAIN st.cache /\ st.now < st.cache[key].expiry
        got == IF fresh THEN st.cache[key].pods ELSE Select(st.pods, list)
    IN st' = [st EXCEPT !.last = [list |-> list, pods |-> got],
                        !.cache = IF fresh THEN @
                                  ELSE With(@, key, [list |-> list, pods |-> got,
                                                     expiry |-> st.now + CacheTTL])]

\* The periodic sweep of runCleanup.
CacheCleanup ==
    st' = [st EXCEPT !.cache = Without(@, {k \in DOMAIN @ : st.now > @[k].expiry}), !.last = Nil]

\* Endpoints come and go; every set the store held at a tick is remembered for
\* as long as a cache entry may.
CandidatesChange ==
    \E pods \in SUBSET Addresses :
       /\ st.changes < MaxSetChanges
       /\ st' = [st EXCEPT !.pods = pods, !.past[st.now] = @ \cup {pods}, !.last = Nil,
                           !.changes = @ + 1]

CandidatesTick ==
    /\ st.now < MaxNow
    /\ st' = [st EXCEPT !.now = @ + 1, !.last = Nil,
                        !.past = With(Without(@, {st.now + 1 - CacheTTL}), st.now + 1, {st.pods})]

CandidatesNext ==
    \/ \E list \in SubsetLists : CachedLocate(list)
    \/ CacheCleanup
    \/ CandidatesChange
    \/ CandidatesTick

\* A one-entry list whose entry is no string shares the key of "no filter".
Malformed(list) == list = <<Nil>>

(***************************************************************************)
(* The endpoints CachedEndpointCandidates.Locate returns are what the      *)
(* request's own subset selected from the datastore at some moment less    *)
(* than the ttl ago: no other request's subset, no older set.  The one     *)
(* exception of the code is a single entry that is not a string: it is     *)
(* cached under the key of requests without a filter.                      *)
(***************************************************************************)
CandidatesFresh ==
    part = "candidates" /\ st.last # Nil =>
      \/ \E t \in Max2(0, st.now - CacheTTL + 1)..st.now : \E pods \in st.past[t] :
            st.last.pods = Select(pods, st.last.list)
      \/ /\ generateCacheKey(st.last.list) = DefaultKey
         /\ \E k \in DOMAIN st.cache : Malformed(st.cache[k].list) \/ Malformed(st.last.list)
=============================================================================
