--------------------------- MODULE TrainingServer ---------------------------
(***************************************************************************)
(* The latency training server (latencypredictor/training_server.py):      *)
(* samples arrive in buckets while a thread trains from snapshots of them; *)
(* models are swapped in and written to disk under one lock; the process   *)
(* may be killed at any point and starts again from what is on disk.       *)
(*                                                                         *)
(* A fitted model is the number of the training cycle that fitted it and 0 *)
(* is a default model.  A Bayesian ridge model has a scaler, of the same   *)
(* fit and in a file of its own; the scalers of a gated model are in its   *)
(* file.                                                                   *)
(***************************************************************************)
EXTENDS Component, Functions

CONSTANTS
    ModelTypes,     \* settings.MODEL_TYPE: "bayesian_ridge", or a type without scalers
    Samples,        \* records [waiting, kv, prefix, ttft, tpot, test]; kv and prefix in percent
    TrainingBucket, \* MAX_TRAINING_DATA_SIZE_PER_BUCKET
    MaxTestData,    \* MAX_TEST_DATA_SIZE
    MinRetrain,     \* MIN_SAMPLES_FOR_RETRAIN
    MinRetrainFresh,\* MIN_SAMPLES_FOR_RETRAIN_FRESH
    MinSplit,       \* MIN_SAMPLES_FOR_ENSEMBLE_SPLIT
    EnsembleMode,
    MaxCycles, MaxCrashes, MaxFlushed \* bounds: training cycles, kills of the process, flushes

ASSUME NilAssumption == Nil \notin Nat

Metrics == {"ttft", "tpot"}
gatedFile(m) == IF m = "ttft" THEN "ttft_gated" ELSE "tpot_gated"
scalerFile(m) == IF m = "ttft" THEN "ttft_scaler" ELSE "tpot_scaler"
ModelFiles == Metrics \cup {"ttft_scaler", "tpot_scaler", "ttft_gated", "tpot_gated"}

\* The bucket of a sample.  Percentages are cut off at both ends; the last bucket has both its bounds.
getQueueBucket(n) == IF n = 0 THEN 0 ELSE IF n <= 2 THEN 1 ELSE IF n <= 5 THEN 2 ELSE IF n <= 10 THEN 3 ELSE 4
percentBucket(percent, buckets) == Min2((Max2(0, Min2(100, percent)) * buckets) \div 100, buckets - 1)
getBucketKey(s) == <<getQueueBucket(s.waiting), percentBucket(s.kv, 20), percentBucket(s.prefix, 4)>>
BucketKeys == {getBucketKey(s) : s \in Samples}

noData == [m \in Metrics |-> [k \in BucketKeys |-> <<>>]]
noTestData == [m \in Metrics |-> <<>>]
noJob == [pc |-> "wait", snap |-> <<>>, new |-> <<>>]
noModels == [f \in ModelFiles |-> Nil]

\* The process before load_models, with nothing in memory.
downWith(s) ==
    [s EXCEPT !.up = "down", !.data = noData, !.test = noTestData, !.scores = [m \in Metrics |-> 0],
              !.mem = noModels, !.active = FALSE, !.min = MinRetrain, !.job = noJob, !.saving = <<>>, !.next = Nil, !.failed = FALSE]

TrainingServerInit ==
    \E type \in ModelTypes :
    st = [up |-> "down", type |-> type, data |-> noData, test |-> noTestData, scores |-> [m \in Metrics |-> 0],
          mem |-> noModels, active |-> FALSE, min |-> MinRetrain, job |-> noJob,
          disk |-> [f \in ModelFiles |-> [v |-> Nil, whole |-> TRUE]], saving |-> <<>>, next |-> Nil,
          cycle |-> 0, crashes |-> 0, flushes |-> 0, failed |-> FALSE]

serving == st.up = "up" /\ st.saving = <<>>   \* and the lock is free
hasScalers(s) == s.type = "bayesian_ridge"
predictorReady(s) == \A m \in Metrics : s.mem[m] # Nil /\ (hasScalers(s) => s.mem[scalerFile(m)] # Nil)

\* _train_model_with_scaling: a new model v of the metric, and its scaler.
withModel(models, m, v) == [models EXCEPT ![m] = v, ![scalerFile(m)] = IF hasScalers(st) THEN v ELSE Nil]

-----------------------------------------------------------------------------
\* A deque with maxlen drops its oldest element.
appendTo(q, x, maxlen) == IF Len(q) < maxlen THEN Append(q, x) ELSE Append(Tail(q), x)

\* add_training_sample: only the metrics the sample has, to the test data or to the bucket.
AddSample(s) ==
    LET valid == {m \in Metrics : IF m = "ttft" THEN s.ttft > 0 ELSE s.tpot > 0} IN
    /\ serving
    /\ st' = IF s.test
             THEN [st EXCEPT !.test = [m \in Metrics |-> IF m \in valid THEN appendTo(@[m], s, MaxTestData) ELSE @[m]]]
             ELSE [st EXCEPT !.data = [m \in Metrics |->
                     IF m \notin valid THEN @[m]
                     ELSE [@[m] EXCEPT ![getBucketKey(s)] = appendTo(@, s, TrainingBucket)]]]

\* flush_training_data.  A training under way keeps the snapshots it has.
Flush ==
    /\ serving /\ st.flushes < MaxFlushed
    /\ \E training \in BOOLEAN, test \in BOOLEAN, metrics \in BOOLEAN :
         /\ training \/ test \/ metrics
         /\ st' = [st EXCEPT !.flushes = @ + 1,
                             !.data = IF training THEN noData ELSE @,
                             !.test = IF test THEN noTestData ELSE @,
                             !.scores = IF metrics THEN [m \in Metrics |-> 0] ELSE @]

-----------------------------------------------------------------------------
\* _all_samples and _split_samples_by_queue, as numbers of samples.
samplesIn(m, keys) == FoldFunctionOnSet(LAMBDA q, n : n + Len(q), 0, st.data[m], keys)
noqueueKeys == {k \in BucketKeys : k[1] = 0}
splitCounts == {samplesIn(m, ks) : m \in Metrics, ks \in {noqueueKeys, BucketKeys \ noqueueKeys}}

\* train(): the snapshot, under the lock.  Too few samples in all end it.
TrainBegins ==
    LET snap == [m \in Metrics |-> samplesIn(m, BucketKeys)] IN
    /\ serving /\ st.job.pc = "wait" /\ st.cycle < MaxCycles
    /\ snap["ttft"] + snap["tpot"] >= st.min
    /\ st' = [st EXCEPT !.cycle = @ + 1, !.job = [pc |-> "fit", snap |-> snap, new |-> noModels]]

\* train(): the single models are fitted, without the lock.  A metric with too few samples of its
\* own is skipped; an error leaves it without a new model.  Scores come from the test data of
\* the moment, and there are none with fewer than two test samples.
fitOutcomes(m) == IF st.job.snap[m] >= st.min THEN {Nil, st.cycle} ELSE {Nil}
scoreOf(m, model) == model # Nil /\ Len(st.test[m]) >= 2
FitModels ==
    /\ st.up = "up" /\ st.job.pc = "fit"
    /\ \E ttft \in fitOutcomes("ttft"), tpot \in fitOutcomes("tpot") :
         LET new == withModel(withModel(noModels, "ttft", ttft), "tpot", tpot) IN
         st' = [st EXCEPT !.job.pc = IF EnsembleMode THEN "split" ELSE "install", !.job.new = new,
                          !.scores = [m \in Metrics |-> IF scoreOf(m, new[m]) THEN Min2(@[m] + 1, 5) ELSE @[m]]]

\* train(): the gated models are fitted from the buckets of that moment, not from the snapshot;
\* all four sub-models or none.
FitEnsemble ==
    /\ serving /\ st.job.pc = "split"
    /\ \E fits \in {TRUE, FALSE} :
         st' = [st EXCEPT !.job.pc = "install",
                          !.job.new = IF fits /\ \A n \in splitCounts : n >= MinSplit
                                      THEN [@ EXCEPT !["ttft_gated"] = st.cycle, !["tpot_gated"] = st.cycle]
                                      ELSE @]

-----------------------------------------------------------------------------
\* _save_models_unlocked: the files to write, one after another, and none after an error.
oneIf(condition, file) == IF condition THEN <<file>> ELSE <<>>
filesToSave(s) ==
    oneIf(s.mem["ttft"] # Nil, "ttft") \o oneIf(s.mem["ttft_scaler"] # Nil, "ttft_scaler")
    \o oneIf(s.mem["tpot"] # Nil, "tpot") \o oneIf(s.mem["tpot_scaler"] # Nil, "tpot_scaler")
    \o oneIf(s.active /\ s.mem["ttft_gated"] # Nil, "ttft_gated")
    \o oneIf(s.active /\ s.mem["tpot_gated"] # Nil, "tpot_gated")
savingThen(s, next) == [s EXCEPT !.saving = filesToSave(s), !.next = next]

\* Mutant: the ensemble of an earlier cycle stays on.
InstallStaysActive ==
    LET new == st.job.new
        swapped == [st EXCEPT !.mem = [f \in ModelFiles |-> IF new[f] # Nil THEN new[f] ELSE @[f]],
                              !.active = @ \/ new["ttft_gated"] # Nil,
                              !.job = noJob]
    IN /\ serving /\ st.job.pc = "install"
       /\ st' = IF predictorReady(swapped) THEN savingThen(swapped, "up") ELSE swapped

\* train(): the new models are swapped in, the ensemble is on exactly when this cycle built it,
\* and everything is saved, whether or not this cycle fitted anything.
Install ==
    LET new == st.job.new
        ensemble == new["ttft_gated"] # Nil /\ new["tpot_gated"] # Nil
        swapped == [st EXCEPT !.mem = [f \in ModelFiles |-> IF new[f] # Nil THEN new[f] ELSE @[f]],
                              !.active = ensemble,
                              !.job = noJob]
    IN /\ serving /\ st.job.pc = "install"
       /\ st' = IF predictorReady(swapped) THEN savingThen(swapped, "up") ELSE swapped

\* load_models: on to the next model or, after the last one, up; RuntimeError if one is missing.
cannotStart(s) == [downWith(s) EXCEPT !.up = "failed"]
goesOn(s, next) == IF next = "up" /\ ~predictorReady(s) THEN cannotStart(s) ELSE [s EXCEPT !.up = next]

\* joblib.dump: the file is truncated, then whole again.  After the last file the lock is
\* released, or load_models goes on.  An I/O error is logged and ends the save, and nothing else.
WriteFile ==
    /\ st.saving # <<>>
    /\ LET f == Head(st.saving)
           done == [st EXCEPT !.disk[f] = [v |-> st.mem[f], whole |-> TRUE], !.saving = Tail(@)]
       IN IF st.disk[f].whole THEN st' = [st EXCEPT !.disk[f].whole = FALSE]
          ELSE st' = IF done.saving = <<>> THEN goesOn([done EXCEPT !.failed = FALSE], st.next) ELSE done
SaveFails ==
    /\ st.saving # <<>> /\ st.crashes < MaxCrashes
    /\ st' = goesOn([st EXCEPT !.saving = <<>>, !.failed = TRUE, !.crashes = @ + 1], st.next)

-----------------------------------------------------------------------------
\* load_models at startup: a model on disk is loaded, with its scaler if that is there, whatever
\* fit it is of; a truncated file ends the process.  A missing model becomes a default one, saved
\* at once, and lowers the retraining threshold.
loadModel(m, next) ==
    LET model == st.disk[m]
        scaler == st.disk[scalerFile(m)]
    IN IF ~model.whole \/ (model.v # Nil /\ hasScalers(st) /\ ~scaler.whole) THEN cannotStart(st)
       ELSE IF model.v # Nil
       THEN goesOn([st EXCEPT !.mem = [@ EXCEPT ![m] = model.v, ![scalerFile(m)] = IF hasScalers(st) THEN scaler.v ELSE Nil]], next)
       ELSE savingThen([st EXCEPT !.mem = withModel(@, m, 0), !.min = MinRetrainFresh], next)
LoadTTFT == st.up = "down" /\ st.saving = <<>> /\ st' = loadModel("ttft", "half")
LoadTPOT == st.up = "half" /\ st.saving = <<>> /\ st' = loadModel("tpot", "up")

\* The process is killed, or fails to start and is started again.
Killed ==
    /\ st.up \in {"down", "half", "up"} /\ st.crashes < MaxCrashes
    /\ st' = [downWith(st) EXCEPT !.crashes = @ + 1]
StartAgain == st.up = "failed" /\ st' = [st EXCEPT !.up = "down"]

TrainingServerNext ==
    \/ \E s \in Samples : AddSample(s)
    \/ Flush
    \/ TrainBegins
    \/ FitModels
    \/ FitEnsemble
    \/ Install
    \/ WriteFile
    \/ SaveFails
    \/ LoadTTFT
    \/ LoadTPOT
    \/ Killed
    \/ StartAgain

-----------------------------------------------------------------------------
\* What is served is what a restart would serve, model and scaler are of one fit and the ensemble
\* of one cycle, and nothing but an interrupted save keeps the server from starting:
\*  - while no file is being written, the models and scalers in memory are the ones on disk
\*    (unless the last save failed), and the gated models of an active ensemble as well;
\*  - a model and the scaler in memory with it are of different fits only when they were loaded
\*    so, from a save that a kill or an error has ended between the two files: training never
\*    mixes them;
\*  - an active ensemble is the last finished cycle's, both halves of it;
\*  - a server that is up is ready; one that cannot start has been killed, or has failed to
\*    write, in the middle of a file or between a first model and its scaler, which leaves no
\*    file torn.
mixedOnDisk(s, m) == /\ s.crashes > 0 /\ s.mem[m] = s.disk[m].v
                     /\ s.mem[scalerFile(m)] = s.disk[scalerFile(m)].v
interruptedSave(s) == s.crashes > 0 /\ \E m \in Metrics :
    \/ ~s.disk[m].whole
    \/ hasScalers(s) /\ ~s.disk[scalerFile(m)].whole
    \/ hasScalers(s) /\ s.disk[m].v # Nil /\ s.disk[scalerFile(m)].v = Nil
TrainingServerSound ==
    part = "training" =>
    /\ serving /\ ~st.failed => \A f \in ModelFiles :
           st.mem[f] # Nil /\ (f \in {"ttft_gated", "tpot_gated"} => st.active)
             => st.disk[f] = [v |-> st.mem[f], whole |-> TRUE]
    /\ hasScalers(st) => \A m \in Metrics : st.mem[scalerFile(m)] = st.mem[m] \/ mixedOnDisk(st, m)
    /\ st.active => /\ st.mem["ttft_gated"] = st.mem["tpot_gated"]
                    /\ st.mem["ttft_gated"] = IF st.job = noJob THEN st.cycle ELSE st.cycle - 1
    /\ st.up = "up" => predictorReady(st)
    /\ st.up = "failed" => interruptedSave(st)
=============================================================================
