----------------------------- MODULE Scheduling -----------------------------
(***************************************************************************)
(* One scheduling cycle: the profiles of the scheduler are built from      *)
(* lists of plugins; Schedule asks the profile handler which profiles to   *)
(* run, each runs its filters, its weighted scorers and its picker over    *)
(* the candidate endpoints, and the handler turns the results into the     *)
(* scheduling result.                                                      *)
(***************************************************************************)
EXTENDS SchedulingPlugins

CONSTANTS
    EndpointNames,   \* endpoints
    EndpointData,    \* what the data layer may know of one
    ProfileLists,    \* scheduler configurations: sequences of plugin lists, one per profile
    TargetModel      \* the request's model

\* AddPlugins: a plugin registers as everything it implements; a scorer needs a
\* weight and there is one picker.
EmptyProfile == [filters |-> <<>>, scorers |-> <<>>, picker |-> Nil]
addPlugin(p, plugin) ==
    LET is(kind) == kind \in plugin.implements
        refused == (is("scorer") /\ plugin.weight = Nil) \/ (is("picker") /\ p.picker # Nil)
    IN IF refused THEN Nil
       ELSE [filters |-> IF is("filter") THEN Append(p.filters, plugin.name) ELSE p.filters,
             scorers |-> IF is("scorer") THEN Append(p.scorers, plugin) ELSE p.scorers,
             picker |-> IF is("picker") THEN plugin ELSE p.picker]
AddPlugins(plugins) ==
    FoldLeft(LAMBDA p, plugin : IF p = Nil THEN Nil ELSE addPlugin(p, plugin), EmptyProfile, plugins)

SchedulingInit ==
    \E names \in SUBSET EndpointNames, lists \in ProfileLists :
      \E e \in [names -> EndpointData] :
        LET profiles == [i \in DOMAIN lists |-> AddPlugins(lists[i])]
        IN st = [pc |-> IF Nil \in Range(profiles) THEN "refused" ELSE "pick", e |-> e, profiles |-> profiles,
                 todo |-> <<>>, results |-> <<>>, endpoints |-> {}, scores |-> <<>>, result |-> Nil]

\* SingleProfileHandler.Pick: all profiles, until all have run.
handlerPick(profiles, results) == IF Len(profiles) = Len(results) THEN {} ELSE DOMAIN profiles

\* SingleProfileHandler.ProcessResults.
ProcessResults(results) == IF Len(results) # 1 THEN Nil ELSE results[1]

\* Schedule's loop: ask the handler, run what it picks, process the results.
PickProfiles ==
    /\ st.pc = "pick"
    /\ st' = IF handlerPick(st.profiles, st.results) # {}
             THEN [st EXCEPT !.pc = "filter", !.endpoints = DOMAIN st.e, !.todo = st.profiles[Len(st.results) + 1].filters]
             ELSE [st EXCEPT !.pc = "done",
                     !.result = IF st.results = <<>> THEN Nil ELSE ProcessResults(st.results)]

Profile == st.profiles[Len(st.results) + 1]

\* Run ends; the next profile of the set the handler picked runs on all candidates.
ProfileDone(result) ==
    LET results == Append(st.results, result)
        more == Len(results) < Len(st.profiles)
    IN [st EXCEPT !.results = results,
          !.pc = IF more THEN "filter" ELSE "pick",
          !.endpoints = IF more THEN DOMAIN st.e ELSE @,
          !.todo = IF more THEN st.profiles[Len(results) + 1].filters ELSE <<>>]

\* The concurrency filter, in each of its modes.
ConcurrencyMode == [concurrency |-> "requests", tokenConcurrency |-> "tokens"]

\* runFilterPlugins: one filter; an empty result ends the profile with an error.
runFilter(name, S, explore) ==
    CASE name = "utilization" -> utilizationFilter(st.e, S)
      [] name \in DOMAIN ConcurrencyMode -> concurrencyFilter(st.e, S, ConcurrencyMode[name])
      [] name = "affinity" -> affinityFilter(st.e, S, explore)
      [] name = "tier" -> tierFilter(st.e, S, explore)

RunFilterPlugins ==
    /\ st.pc = "filter" /\ st.todo # <<>> /\ st.endpoints # {}
    /\ \E explore \in BOOLEAN :
         st' = [st EXCEPT !.endpoints = runFilter(Head(st.todo), @, explore), !.todo = Tail(@)]

NoEndpoints ==
    /\ st.pc = "filter" /\ st.endpoints = {}
    /\ st' = ProfileDone(Nil)

\* enforceScoreRange
enforceScoreRange(score) == IF score < 0 THEN 0 ELSE IF score > Unit THEN Unit ELSE score

Scored(name, S) ==
    CASE name = "queue" -> queueScore(st.e, S) [] name = "running" -> runningScore(st.e, S)
      [] name = "kv" -> kvScore(st.e, S) [] name = "prefix" -> prefixScore(st.e, S)
      [] name = "lora" -> loraScore(st.e, S, TargetModel) [] name = "tokens" -> tokenLoadScore(st.e, S)
      [] name = "latency" -> latencyScore(st.e, S)

\* runScorerPlugins: the weighted sum.
RunScorerPlugins ==
    /\ st.pc = "filter" /\ st.todo = <<>> /\ st.endpoints # {}
    /\ st' = [st EXCEPT !.pc = "score",
                !.scores = [x \in st.endpoints |->
                   FoldLeft(LAMBDA a, s : a + enforceScoreRange(Scored(s.name, st.endpoints)[x]) * s.weight,
                            0, Profile.scorers)]]

\* The orders a picker may put the endpoints in: MaxScorePicker sorts by score
\* after a shuffle, WeightedRandomPicker draws keys and gives 0 to scores of 0
\* (and leaves the draw to RandomPicker if all are), RandomPicker shuffles.
MaxScoreOrder(order) == \A i, j \in DOMAIN order : i < j => st.scores[order[i]] >= st.scores[order[j]]
WeightedOrder(order) == \A i, j \in DOMAIN order : i < j /\ st.scores[order[i]] = 0 => st.scores[order[j]] = 0
PickerOrder(kind, order) ==
    CASE kind = "max" -> MaxScoreOrder(order) [] kind = "weighted" -> WeightedOrder(order) [] kind = "random" -> TRUE

\* A number of endpoints that is not positive is replaced by 1.
NumOfEndpoints(n) == IF n =< 0 THEN 1 ELSE n

RunPickerPlugin ==
    /\ st.pc = "score"
    /\ \E order \in SetToSeqs(st.endpoints) :
         /\ PickerOrder(Profile.picker.name, order)
         /\ st' = ProfileDone(SubSeq(order, 1, Min2(NumOfEndpoints(Profile.picker.max), Len(order))))

SchedulingNext == PickProfiles \/ RunFilterPlugins \/ NoEndpoints \/ RunScorerPlugins \/ RunPickerPlugin

-----------------------------------------------------------------------------
FirstFilter == IF st.profiles[1].filters = <<>> THEN "none" ELSE Head(st.profiles[1].filters)

(***************************************************************************)
(* A scheduling result can be trusted.  Its targets survived the filters,  *)
(* are distinct and as many as asked for and available, and the max score  *)
(* picker leaves out no better one.  Detector and filter agree: below      *)
(* saturation 1 the utilization filter leaves only fresh endpoints with    *)
(* room (its fallback to all of them is for saturated pools) and the       *)
(* concurrency filter, which has no fallback, never empties the pool.      *)
(* With the latency scorer alone, an endpoint predicted to miss an         *)
(* objective is not the first choice when one that survived meets both.    *)
(* A cycle fails only without candidates, with other than one profile, or  *)
(* when the concurrency filter rejects a pool that is saturated.           *)
(***************************************************************************)
ScheduleJustified ==
    part = "scheduling" /\ st.pc = "done" =>
      LET all == DOMAIN st.e
          p == st.profiles[1]
          t == st.result
      IN IF t = Nil
         THEN \/ all = {} \/ Len(st.profiles) # 1
              \/ \E name \in DOMAIN ConcurrencyMode :
                   /\ name \in Range(p.filters)
                   /\ FirstFilter = name => concurrencySaturation(st.e, all, ConcurrencyMode[name]) >= Unit
         ELSE /\ Range(t) \subseteq st.endpoints /\ Cardinality(Range(t)) = Len(t)
              /\ Len(t) = Min2(NumOfEndpoints(p.picker.max), Cardinality(st.endpoints))
              /\ p.picker.name = "max" =>
                   \A i \in DOMAIN t, x \in st.endpoints \ Range(t) : st.scores[t[i]] >= st.scores[x]
              /\ FirstFilter = "utilization" /\ utilizationSaturation(st.e, all) < Unit =>
                   \A i \in DOMAIN t : HasRoomFor(st.e, t[i])
              /\ p.picker.name = "max" /\ {s.name : s \in Range(p.scorers)} = {"latency"} =>
                   ((\E x \in st.endpoints : MeetsSLOs(st.e, x)) => ~MissesSLO(st.e, t[1]))
=============================================================================
