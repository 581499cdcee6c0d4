---------------------------- MODULE AdapterStore ----------------------------
(***************************************************************************)
(* The body-based router's table of LoRA adapters and base models: the     *)
(* ConfigMap reconciler of the base-model-to-header plugin and the store   *)
(* it fills (pkg/bbr/plugins/basemodelextractor).                          *)
(***************************************************************************)
EXTENDS Component

CONSTANTS
    ConfigMaps,       \* names of ConfigMaps
    MapObjects,       \* [base, adapters, managed, deleting]: base is Nil when missing or blank,
                      \* adapters is Nil when the list does not parse
    ModelNames,       \* the model names requests ask for
    MaxMapChanges     \* bound on changes of the ConfigMaps

ASSUME MapsAssumption ==
    /\ IsFiniteSet(ConfigMaps)
    /\ \A cm \in MapObjects : cm # Nil /\ cm.managed \in BOOLEAN /\ cm.deleting \in BOOLEAN

EmptyStore == [loraAdapterToBaseModel |-> <<>>, configmapAdapters |-> <<>>, baseModels |-> <<>>]

\* `registered`, `orphans`, `moved` and `shared` are kept for the property only:
\* the base model each known map was first seen with, the maps found deleted
\* outright, the base models whose count was taken from the wrong name, and the
\* adapters two known maps listed at once.
AdapterStoreInit ==
    st = [api |-> [n \in ConfigMaps |-> Nil], queue |-> {}, store |-> EmptyStore, changes |-> 0,
          registered |-> <<>>, orphans |-> {}, moved |-> {}, shared |-> {}]

-----------------------------------------------------------------------------
\* The store (adapters_store.go)

parses(cm) == cm.base # Nil /\ cm.adapters # Nil

\* Mutant: adapters a map no longer lists keep their base model.
KeepDropped(s, n, cm) ==
    [s EXCEPT !.loraAdapterToBaseModel =
                 [a \in DOMAIN @ \cup cm.adapters |-> IF a \in cm.adapters THEN cm.base ELSE @[a]],
              !.baseModels = IF n \in DOMAIN s.configmapAdapters THEN @
                             ELSE With(@, cm.base, Lookup(@, cm.base, 0) + 1),
              !.configmapAdapters = With(@, n, cm.adapters)]
configMapUpdateOrAddIfNotExist(s, n, cm) ==
    LET removed == Lookup(s.configmapAdapters, n, {}) \ cm.adapters
    IN [s EXCEPT !.loraAdapterToBaseModel =
                    [a \in (DOMAIN @ \cup cm.adapters) \ removed |-> IF a \in cm.adapters THEN cm.base ELSE @[a]],
                 !.baseModels = IF n \in DOMAIN s.configmapAdapters THEN @
                                ELSE With(@, cm.base, Lookup(@, cm.base, 0) + 1),
                 !.configmapAdapters = With(@, n, cm.adapters)]

uncount(counts, base) ==
    IF base = Nil THEN counts
    ELSE LET count == Lookup(counts, base, 0)
         IN IF count = 1 THEN Without(counts, {base}) ELSE With(counts, base, count - 1)

configMapDelete(s, n, base) ==
    IF n \notin DOMAIN s.configmapAdapters THEN s
    ELSE [s EXCEPT !.loraAdapterToBaseModel = Without(@, s.configmapAdapters[n]),
                   !.configmapAdapters = Without(@, {n}),
                   !.baseModels = uncount(@, base)]

\* Nil is the empty string: neither an adapter nor a base model.
getBaseModel(s, model) ==
    IF model \in DOMAIN s.loraAdapterToBaseModel THEN s.loraAdapterToBaseModel[model]
    ELSE IF model \in DOMAIN s.baseModels THEN model ELSE Nil

-----------------------------------------------------------------------------
\* The reconciler (configmap_reconciler.go)

bbrManagedPredicate(old, new) == \E o \in {old, new} \ {Nil} : o.managed

ConfigMapChanges(n) ==
    \E new \in {Nil} \cup MapObjects :
       /\ st.changes < MaxMapChanges /\ new # st.api[n]
       /\ st' = [st EXCEPT !.api[n] = new, !.changes = @ + 1,
                   !.queue = IF bbrManagedPredicate(st.api[n], new) THEN @ \cup {n} ELSE @]

\* The base models a delete or an update with base b counts under the wrong name.
misplaced(n, b) ==
    IF n \in DOMAIN st.registered /\ st.registered[n] # b THEN {st.registered[n], b} \ {Nil} ELSE {}

\* An object that is gone is deleted from the store under the name of the object
\* that Get left empty, which no map has; one the parser refuses is retried.
ConfigMapReconcile(n) ==
    /\ n \in st.queue
    /\ LET cm == st.api[n]
           done == [st EXCEPT !.queue = @ \ {n}, !.orphans = IF cm = Nil THEN @ \cup {n} ELSE @ \ {n}]
       IN \/ cm = Nil /\ st' = done
          \/ /\ cm # Nil /\ (cm.deleting \/ ~cm.managed)
             /\ st' = [done EXCEPT !.store = configMapDelete(@, n, cm.base),
                                   !.moved = @ \cup misplaced(n, cm.base),
                                   !.registered = Without(@, {n})]
          \/ /\ cm # Nil /\ cm.managed /\ ~cm.deleting /\ parses(cm)
             /\ st' = [done EXCEPT
                         !.store = configMapUpdateOrAddIfNotExist(@, n, cm),
                         !.moved = @ \cup misplaced(n, cm.base),
                         !.registered = With(@, n, Lookup(@, n, cm.base)),
                         !.shared = @ \cup (cm.adapters \cap
                            UNION {st.store.configmapAdapters[m] : m \in DOMAIN st.store.configmapAdapters \ {n}})]

\* A new process starts empty; its informer lists the managed maps.
RouterRestarts ==
    st' = [st EXCEPT !.store = EmptyStore, !.registered = <<>>, !.orphans = {}, !.moved = {}, !.shared = {},
                     !.queue = {n \in ConfigMaps : IF st.api[n] = Nil THEN FALSE ELSE st.api[n].managed}]

AdapterStoreNext ==
    \/ \E n \in ConfigMaps : ConfigMapChanges(n) \/ ConfigMapReconcile(n)
    \/ RouterRestarts

-----------------------------------------------------------------------------
known == st.store.configmapAdapters

\* The maps that count: present, managed, not being deleted, well-formed.
LiveMaps == {n \in ConfigMaps : IF st.api[n] = Nil THEN FALSE
                                ELSE st.api[n].managed /\ ~st.api[n].deleting /\ parses(st.api[n])}

\* The names map n gives a meaning to, in the store or in the API.
NamesOf(n) ==
    Lookup(known, n, {})
      \cup (IF n \in DOMAIN st.registered THEN {st.registered[n]} ELSE {})
      \cup (IF st.api[n] = Nil THEN {}
            ELSE ({st.api[n].base} \cup (IF st.api[n].adapters = Nil THEN {} ELSE st.api[n].adapters)))

\* The names the store is not promised to know: those of maps not yet
\* reconciled (or refused), those of maps deleted outright, which the
\* reconciler does not find in the store, those counted under another name
\* and the adapters that two maps shared.
Unsettled ==
    (UNION {NamesOf(n) : n \in st.queue \cup st.orphans}) \cup st.moved \cup st.shared

(***************************************************************************)
(* The base model that getBaseModel gives a request is the one the         *)
(* ConfigMaps prescribe: that of the live map that lists the model as an   *)
(* adapter, else the model itself when it is the base model of a live map, *)
(* else none.  It holds for every name but those in Unsettled; in          *)
(* particular a map that is unlabelled, or seen while it is being deleted, *)
(* leaves nothing behind, and a map deleted outright does until it is      *)
(* created again or the router restarts.                                   *)
(***************************************************************************)
AdaptersFollowConfigMaps ==
    part = "adapters" =>
      \A m \in ModelNames \ Unsettled :
         LET listing == {n \in LiveMaps : m \in st.api[n].adapters}
             based == {n \in LiveMaps : st.api[n].base = m}
             got == getBaseModel(st.store, m)
         IN IF listing # {} THEN \E n \in listing : got = st.api[n].base
            ELSE IF based # {} THEN got = m ELSE got = Nil
=============================================================================
