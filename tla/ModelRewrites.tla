--------------------------- MODULE ModelRewrites ---------------------------
(***************************************************************************)
(* The InferenceModelRewrite and InferenceObjective objects in the         *)
(* datastore: the reconcilers that follow the API objects, the rewrite     *)
(* store's sorted rule lists, and Clear, which forgets them all when the   *)
(* pool goes.                                                              *)
(***************************************************************************)
EXTENDS Component, SequencesExt

CONSTANTS
    RewriteNames,        \* names of InferenceModelRewrite objects
    RewriteSpecs,        \* [poolRef, rules]; a rule is [matches, targets], the models of its
                         \* matches, Nil being a match that names none, and its target
                         \* models, a sequence of [model, weight]
    Models,              \* model names
    CreationTimes,       \* creation timestamps; objects may share one
    Priorities,          \* priorities of the one InferenceObjective
    MaxObjectChanges     \* bound on changes of the objects

Objective == "objective"

RewritesInit ==
    st = [api |-> [n \in RewriteNames |-> Nil], apiObjective |-> Nil, queue |-> {},
          genericRules |-> <<>>, rulesByExactModelMatch |-> <<>>, allReWrites |-> <<>>,
          objective |-> Nil, changes |-> 0, forgotten |-> {}]

-----------------------------------------------------------------------------
\* The store (modelrewritestore.go)

isGeneric(r) == r.matches = {}
exactModels(r) == r.matches \ {Nil}

withMetadata(name, obj) ==
    [i \in DOMAIN obj.rules |->
        [matches |-> obj.rules[i].matches, targets |-> obj.rules[i].targets, createTimestamp |-> obj.created, parentRewriteName |-> name]]

\* Mutant: the newest rule first.
NewestFirst(rules) == SortSeq(rules, LAMBDA a, b : a.createTimestamp > b.createTimestamp)
sortByTimestamp(rules) == SortSeq(rules, LAMBDA a, b : a.createTimestamp < b.createTimestamp)

notOf(n, rules) == SelectSeq(rules, LAMBDA r : r.parentRewriteName # n)

deleteInternal(s, n) ==
    IF n \notin DOMAIN s.allReWrites THEN s
    ELSE LET exact == s.rulesByExactModelMatch
         IN [s EXCEPT !.allReWrites = Without(@, {n}),
                      !.genericRules = notOf(n, @),
                      !.rulesByExactModelMatch =
                          [m \in {x \in DOMAIN exact : notOf(n, exact[x]) # <<>>} |-> notOf(n, exact[m])]]

setRewrite(s, n, obj) ==
    LET d == deleteInternal(s, n)
        new == withMetadata(n, obj)
        exact == d.rulesByExactModelMatch
        named == UNION {exactModels(new[i]) : i \in {j \in DOMAIN new : ~isGeneric(new[j])}}
    IN [d EXCEPT !.allReWrites = With(@, n, obj),
                 !.genericRules = sortByTimestamp(@ \o SelectSeq(new, isGeneric)),
                 !.rulesByExactModelMatch =
                    [m \in DOMAIN exact \cup named |->
                       sortByTimestamp(Lookup(exact, m, <<>>)
                                       \o SelectSeq(new, LAMBDA r : ~isGeneric(r) /\ m \in exactModels(r)))]]

getRule(m) ==
    LET exact == Lookup(st.rulesByExactModelMatch, m, <<>>)
    IN IF exact # <<>> THEN exact[1]
       ELSE IF st.genericRules # <<>> THEN st.genericRules[1] ELSE Nil

-----------------------------------------------------------------------------
\* The director's rewrite of a request's model; `random` is the number drawn.

totalWeight(targets) == FoldLeft(LAMBDA w, t : w + t.weight, 0, targets)

\* The range of the random number: the targets when they weigh nothing.
drawn(targets) == 0..((IF totalWeight(targets) = 0 THEN Len(targets) ELSE totalWeight(targets)) - 1)

\* With no targets, the empty name.
selectWeightedModel(targets, random) ==
    IF targets = <<>> THEN ""
    ELSE IF totalWeight(targets) = 0 THEN targets[random + 1].model
    ELSE LET reached == {i \in DOMAIN targets : random < totalWeight(SubSeq(targets, 1, i))}
         IN targets[CHOOSE i \in reached : \A j \in reached : i =< j].model

\* mutateModel: the name in the body, Nil when it has none, an error; `target`
\* is what an earlier stage chose, or empty.
mutateModel(model, target, random) ==
    IF model = Nil THEN Nil
    ELSE LET rule == getRule(model)
         IN IF rule # Nil THEN selectWeightedModel(rule.targets, random)
            ELSE IF target = "" THEN model ELSE target

-----------------------------------------------------------------------------
\* API changes pass the event filter when the old or the new object refers to
\* the pool.

RewriteChanges(n) ==
    \E spec \in {Nil} \cup RewriteSpecs : \E t \in CreationTimes :
       LET old == st.api[n]
           new == IF spec = Nil THEN Nil
                  ELSE [poolRef |-> spec.poolRef, rules |-> spec.rules,
                        created |-> IF old = Nil THEN t ELSE old.created]
       IN /\ st.changes < MaxObjectChanges /\ new # old
          /\ st' = [st EXCEPT !.api[n] = new, !.changes = @ + 1,
                      !.queue = IF \E o \in {old, new} \ {Nil} : o.poolRef THEN @ \cup {n} ELSE @]

ObjectiveChanges ==
    \E o \in {Nil} \cup [priority : Priorities, poolRef : BOOLEAN] :
       /\ st.changes < MaxObjectChanges /\ o # st.apiObjective
       /\ st' = [st EXCEPT !.apiObjective = o, !.changes = @ + 1,
                   !.queue = IF \E x \in {o, st.apiObjective} \ {Nil} : x.poolRef
                             THEN @ \cup {Objective} ELSE @]

RewriteReconcile(n) ==
    /\ n \in st.queue
    /\ LET obj == st.api[n]
           s == [st EXCEPT !.queue = @ \ {n}, !.forgotten = @ \ {n}]
       IN st' = IF obj = Nil THEN deleteInternal(s, n)
                ELSE IF ~obj.poolRef THEN deleteInternal(s, n)
                ELSE setRewrite(s, n, obj)

ObjectiveReconcile ==
    /\ Objective \in st.queue
    /\ LET o == st.apiObjective
       IN st' = [st EXCEPT !.queue = @ \ {Objective}, !.forgotten = @ \ {Objective},
                   !.objective = IF o = Nil THEN Nil ELSE IF ~o.poolRef THEN Nil ELSE o]

\* The pool was deleted; nothing lists the objects again when it comes back.
ClearObjects ==
    st' = [st EXCEPT !.objective = Nil, !.genericRules = <<>>, !.rulesByExactModelMatch = <<>>,
                     !.allReWrites = <<>>, !.forgotten = RewriteNames \cup {Objective}]

RewritesNext ==
    \/ \E n \in RewriteNames : RewriteChanges(n) \/ RewriteReconcile(n)
    \/ ObjectiveChanges
    \/ ObjectiveReconcile
    \/ ClearObjects

-----------------------------------------------------------------------------
\* The rules the API objects give for model m, those forgotten excepted.
LiveRules == UNION {ToSet(withMetadata(n, st.api[n])) :
                      n \in {x \in RewriteNames \ st.forgotten : st.api[x] # Nil /\ st.api[x].poolRef}}

(***************************************************************************)
(* When no reconcile request is outstanding, the rule that                 *)
(* ModelRewriteGet returns for any model is what the API objects           *)
(* prescribe: an oldest rule that names the model, else an oldest generic  *)
(* one, else none; and the objective is the API's.  The objects a Clear    *)
(* forgot count again only when the API next touches them.  At any time, a *)
(* request's model is rewritten to each target of its rule in proportion   *)
(* to the weights (all alike when they are all 0), and kept without a      *)
(* rule; only a rule without targets, which the API allows, empties the    *)
(* model's name.                                                           *)
(***************************************************************************)
RewriteRuleChosen ==
    part = "rewrites" =>
      /\ \A m \in Models :
            LET got == getRule(m)
                targets == got.targets
                Share(x) == Cardinality({r \in drawn(targets) : mutateModel(m, "", r) = x})
                Weight(x) == FoldLeft(LAMBDA w, t : IF t.model = x THEN w + t.weight ELSE w, 0, targets)
                Copies(x) == Cardinality({i \in DOMAIN targets : targets[i].model = x})
            IN IF got = Nil THEN mutateModel(m, "", 0) = m
               ELSE IF targets = <<>> THEN mutateModel(m, "", 0) = ""
               ELSE \A x \in {t.model : t \in Range(targets)} :
                      Share(x) = IF totalWeight(targets) = 0 THEN Copies(x) ELSE Weight(x)
      /\ st.queue = {} =>
           /\ \A m \in Models :
                 LET exact == {r \in LiveRules : m \in r.matches}
                     generic == {r \in LiveRules : r.matches = {}}
                     from == IF exact # {} THEN exact ELSE generic
                     got == getRule(m)
                 IN IF from = {} THEN got = Nil
                    ELSE got \in from /\ \A r \in from : got.createTimestamp =< r.createTimestamp
           /\ st.objective = IF Objective \in st.forgotten \/ st.apiObjective = Nil THEN Nil
                             ELSE IF st.apiObjective.poolRef THEN st.apiObjective ELSE Nil
=============================================================================
