----------------------------- MODULE ModelSync -----------------------------
(***************************************************************************)
(* How a model gets from the latency training server to the workers of the *)
(* prediction server (latencypredictor/prediction_server.py).  The         *)
(* training server rewrites its model files one after another, without a   *)
(* lock a reader could take.  The uvicorn workers of a prediction server   *)
(* share one directory of local files; each has a sync thread and serves   *)
(* /reload on its main thread, and each keeps models of its own in memory. *)
(*                                                                         *)
(* A model is the number of the save that wrote it, and so is a checksum.  *)
(* Modification times are only ever compared: newer[f] says that the       *)
(* server's file f was modified after the local one.                       *)
(***************************************************************************)
EXTENDS Component, Functions

CONSTANTS
    SyncScenarios, \* records [workers, reload, warm, base, gated], the files in sync order
    MaxSaves,      \* bound: the saves of the training server
    SyncRows       \* the sequences of rows (numbers of waiting requests) predictions are asked for

ASSUME SyncAssumption ==
    /\ 1 # Nil
    /\ \A run \in SyncScenarios :
         /\ run.base \in Seq(Range(run.base)) /\ run.base # <<>>
         /\ run.gated \in Seq(Range(run.gated)) /\ run.warm \in BOOLEAN

SyncThreads == {<<w, k>> : w \in st.run.workers, k \in {"main", "loop"}}
\* The files, in the order of sync_models and of load_models: the gated ones come last.
files == st.run.base \o st.run.gated
fileSet == Range(files)
baseFiles == Range(st.run.base)
gatedFiles == Range(st.run.gated)
localFile(f) == st.local[f]

idleThread == [pc |-> "idle", i |-> 0, got |-> Nil, updated |-> FALSE, sums |-> <<>>, new |-> <<>>, stale |-> {}]

\* Everything is as it is before the first save, or (warm) when all have the first save's models.
syncStart(run) ==
    LET names == Range(run.base \o run.gated)
        saved == IF run.warm THEN 1 ELSE Nil
        models == IF run.warm THEN [f \in names |-> 1] ELSE <<>>
    IN [
        run     |-> run,
        server  |-> [f \in names |-> [v |-> saved, whole |-> TRUE]],
        save    |-> IF run.warm THEN 1 ELSE 0,
        saving  |-> <<>>,
        newer   |-> [f \in names |-> FALSE],
        local   |-> [f \in names |-> saved],
        loaded  |-> [w \in run.workers |-> models],
        sums    |-> [w \in run.workers |-> models],
        lock    |-> [w \in run.workers |-> Nil],
        started |-> [w \in run.workers |-> run.warm],
        threads |-> [t \in {<<w, k>> : w \in run.workers, k \in {"main", "loop"}} |-> idleThread],
        lost    |-> [f \in names |-> FALSE],
        passed  |-> [w \in run.workers |-> {}],
        torn    |-> [w \in run.workers |-> {}],
        failed  |-> [w \in run.workers |-> {}]]

ModelSyncInit == \E run \in SyncScenarios : st = syncStart(run)

\* is_ready: every model (and scaler) the server cannot do without is loaded.
syncReady(w) == baseFiles \subseteq DOMAIN st.loaded[w]
ensembleActive(w) == gatedFiles # {} /\ gatedFiles \subseteq DOMAIN st.loaded[w]

-----------------------------------------------------------------------------
\* The training server's _save_models_unlocked: joblib.dump of one file after another.
\* A save without an active ensemble leaves the gated files as they are.
SaveBegins ==
    /\ st.saving = <<>> /\ st.save < MaxSaves
    /\ \E active \in {gatedFiles # {}, FALSE} :
         st' = [st EXCEPT !.save = @ + 1, !.saving = IF active THEN files ELSE st.run.base]

DumpStep ==
    /\ st.saving # <<>>
    /\ LET f == Head(st.saving) IN
       IF st.server[f].whole
       THEN st' = [st EXCEPT !.server[f].whole = FALSE, !.newer[f] = TRUE]
       ELSE st' = [st EXCEPT !.server[f] = [v |-> st.save, whole |-> TRUE], !.newer[f] = TRUE,
                             !.saving = Tail(@)]

-----------------------------------------------------------------------------
\* sync_models begins: at startup and on /reload in the main thread, round after round in the
\* sync thread, one thread of a process at a time.
SyncBegins(t) ==
    LET w == t[1] IN
    /\ st.threads[t].pc = "idle" /\ st.lock[w] = Nil
    /\ IF t[2] = "loop" THEN st.started[w] ELSE st.run.reload \/ ~st.started[w]
    /\ st' = [st EXCEPT !.threads[t] = [idleThread EXCEPT !.pc = "sync", !.i = 1], !.lock[w] = t]

\* sync_models goes on with the next file.
nextFile(t, updated) ==
    [st.threads[t] EXCEPT !.pc = "sync", !.i = @ + 1, !.got = Nil, !.updated = updated]

\* Mutant: the loop loads only until it has models.
syncedToUntilReady(t, updated) ==
    IF st.threads[t].i < Len(files) THEN [st EXCEPT !.threads[t] = nextFile(t, updated)]
    ELSE [st EXCEPT !.threads[t] = [idleThread EXCEPT
                       !.pc = IF t[2] = "main" \/ ~syncReady(t[1]) THEN "sums" ELSE "idle",
                       !.i = IF t[2] = "main" \/ ~syncReady(t[1]) THEN 1 ELSE 0],
                    !.lock[t[1]] = Nil]

\* Past the last file: the lock is released, and the caller goes on.  The loop loads when a
\* file was updated or nothing is loaded yet; startup and /reload load always.
syncedTo(t, updated) ==
    LET w == t[1]
        loads == t[2] = "main" \/ updated \/ ~syncReady(w)
    IN IF st.threads[t].i < Len(files) THEN [st EXCEPT !.threads[t] = nextFile(t, updated)]
       ELSE [st EXCEPT !.threads[t] = [idleThread EXCEPT !.pc = IF loads THEN "sums" ELSE "idle", !.i = IF loads THEN 1 ELSE 0],
                       !.lock[w] = Nil]

isNewer(f) == localFile(f) = Nil \/ st.newer[f]

\* _download_model_if_newer: the times are compared, and the download of the file begins.  No
\* file, no answer or no newer file ends it.
CheckNewer(t) ==
    LET f == files[st.threads[t].i] IN
    /\ st.threads[t].pc = "sync"
    /\ \/ st' = syncedTo(t, st.threads[t].updated)
       \/ /\ st.server[f].v # Nil \/ ~st.server[f].whole
          /\ isNewer(f)
          /\ LET got == IF st.server[f].whole THEN st.server[f].v ELSE Nil
             IN st' = [st EXCEPT !.threads[t] = [@ EXCEPT !.pc = "get", !.got = got]]

\* The download ends.  What is empty, short or cannot be unpickled (a file read while the server
\* was writing it) is dropped; a whole file replaces the local one, whose time is now.
\* lost, passed and stale record what nobody will notice: a file that the server has rewritten
\* meanwhile, a file replaced behind the back of the other workers, and one replaced while
\* another thread was loading the files.
DownloadEnds(t) ==
    LET f == files[st.threads[t].i]
        got == st.threads[t].got
        replaced == [syncedTo(t, TRUE) EXCEPT
            !.local[f] = got, !.newer[f] = FALSE,
            !.lost[f] = st.server[f].v # got \/ ~st.server[f].whole,
            !.passed = [w \in st.run.workers |-> IF w = t[1] THEN @[w] ELSE @[w] \cup {f}],
            !.threads = [u \in SyncThreads |->
                IF u # t /\ @[u].pc \in {"sums", "load"} THEN [@[u] EXCEPT !.stale = st.threads[u].stale \cup {f}] ELSE @[u]]]
    IN /\ st.threads[t].pc = "get"
       /\ \/ st' = syncedTo(t, st.threads[t].updated)
          \/ got # Nil /\ st' = replaced

-----------------------------------------------------------------------------
\* A thread that has returned: the loop waits, startup has started it.
returns(t) == [st EXCEPT !.threads[t] = idleThread, !.started[t[1]] = TRUE]

\* load_models, the checksums, file by file and before any lock: without a base file it gives
\* up; without all the gated ones the ensemble stays off; and when nothing changed nothing is loaded.
ReadChecksum(t) ==
    LET th == st.threads[t]
        w == t[1]
        f == files[th.i]
        sums == IF localFile(f) = Nil THEN th.sums ELSE With(th.sums, f, localFile(f))
        last == th.i = Len(files)
        read == [th EXCEPT !.sums = sums, !.stale = th.stale \ {f}]
        seen == [st EXCEPT !.passed[w] = @ \ {f}]
    IN /\ th.pc = "sums"
       /\ st' = IF localFile(f) = Nil /\ f \in baseFiles THEN returns(t)
                ELSE IF ~last THEN [seen EXCEPT !.threads[t] = [read EXCEPT !.i = th.i + 1]]
                ELSE IF syncReady(w) /\ sums = st.sums[w] THEN [returns(t) EXCEPT !.passed[w] = @ \ {f}]
                ELSE [seen EXCEPT !.threads[t] = [read EXCEPT !.i = 1, !.pc = "load"]]

\* The files to load: the gated ones only when the checksums found them all.
toLoad(th) == IF gatedFiles \subseteq DOMAIN th.sums THEN files ELSE st.run.base

\* load_models, joblib.load of one file after another, outside the lock.
LoadFile(t) ==
    LET th == st.threads[t]
        f == toLoad(th)[th.i]
    IN /\ th.pc = "load" /\ th.i <= Len(toLoad(th))
       /\ st' = [st EXCEPT !.threads[t] = [@ EXCEPT !.new = With(th.new, f, localFile(f)), !.i = th.i + 1]]

\* The files whose content worker w does not have loaded.
notLoaded(w) == {f \in fileSet : Lookup(st.loaded[w], f, Nil) # localFile(f)}

\* A file cannot be read.  The gated models are then done without, and the rest is loaded as
\* if they were there; for any other file load_models gives up, and the models stay as they
\* are.  failed records what this leaves behind.
LoadFails(t) ==
    LET th == st.threads[t]
        w == t[1]
    IN \/ /\ th.pc = "sums" \/ (th.pc = "load" /\ th.i <= Len(st.run.base))
          /\ st' = [returns(t) EXCEPT !.failed[w] = @ \cup notLoaded(w)]
       \/ /\ th.pc = "load" /\ Len(st.run.base) < th.i /\ th.i <= Len(toLoad(th))
          /\ st' = [st EXCEPT !.threads[t].i = Len(files) + 1]

\* load_models, the pointer swap, with the checksums of gated models that could not be loaded
\* among those that are kept.  A load that another thread's newer one has overtaken puts
\* the older models back, which passed records; torn records the files that were replaced
\* after the checksum was read and before they were loaded.
SwapModels(t) ==
    LET th == st.threads[t]
        w == t[1]
    IN /\ th.pc = "load" /\ th.i > Len(toLoad(th))
       /\ st' = [returns(t) EXCEPT !.loaded[w] = th.new, !.sums[w] = th.sums,
                                   !.passed[w] = @ \cup {f \in th.stale : Lookup(th.new, f, Nil) # localFile(f)},
                                   !.torn[w] = {f \in DOMAIN th.new : th.new[f] # th.sums[f]},
                                   !.failed[w] = Range(toLoad(th)) \ DOMAIN th.new]

-----------------------------------------------------------------------------
\* The columns the servers make of a row: _prepare_features_with_interaction, and
\* _prepare_features_for_ensemble, which drops the queue's columns in the noqueue regime.
commonColumns == <<"is_queued", "kv_cache_percentage", "input_token_length", "num_request_waiting", "num_request_running">>
tokenColumns == <<"prefill_tokens_in_flight", "decode_tokens_in_flight">>
lastColumns(metric) ==
    IF metric = "ttft" THEN <<"prefix_cache_score", "effective_input_tokens", "prefill_score_bucket", "pod_type_cat">>
    ELSE <<"num_tokens_generated", "pod_type_cat">>
prepareFeatures(metric) == commonColumns \o tokenColumns \o lastColumns(metric)
prepareForEnsemble(metric, regime) ==
    SelectSeq(prepareFeatures(metric),
              LAMBDA c : regime # "noqueue" \/ c \notin {"is_queued", "num_request_waiting"})

\* The columns the training server fits a model on, in the order it enforces.
trainedOrder(metric, dropQueue) ==
    (IF dropQueue THEN <<"kv_cache_percentage", "input_token_length", "num_request_running">> ELSE commonColumns)
    \o tokenColumns \o lastColumns(metric)

\* What a prediction is made from: the model of each metric, its columns, and whether the row's
\* tokens in flight are in them or zeros.
regimeOf(w, waiting) == IF ~ensembleActive(w) THEN Nil ELSE IF waiting = 0 THEN "noqueue" ELSE "queued"
usedModels(w, regime) ==
    [f \in IF regime = Nil THEN baseFiles ELSE gatedFiles |-> st.loaded[w][f]]
madeFrom(w, regime, tokens) ==
    [models |-> usedModels(w, regime), regime |-> regime, tokens |-> tokens,
     columns |-> [m \in {"ttft", "tpot"} |->
                    IF regime = Nil THEN prepareFeatures(m) ELSE prepareForEnsemble(m, regime)]]

predictRow(w, waiting) == IF ~syncReady(w) THEN Nil ELSE madeFrom(w, regimeOf(w, waiting), FALSE)

\* A batch is split by regime and put together again by index.
indicesOf(rows, queued) == SelectSeq([i \in 1..Len(rows) |-> i], LAMBDA i : (rows[i] > 0) = queued)
scatter(rows, w, tokens) ==
    LET noqueue == indicesOf(rows, FALSE)
        queued == indicesOf(rows, TRUE)
        part0 == [j \in 1..Len(noqueue) |-> madeFrom(w, "noqueue", tokens)]
        part1 == [j \in 1..Len(queued) |-> madeFrom(w, "queued", tokens)]
        At(s, i) == CHOOSE j \in 1..Len(s) : s[j] = i
    IN [i \in 1..Len(rows) |-> IF i \in Range(noqueue) THEN part0[At(noqueue, i)] ELSE part1[At(queued, i)]]
predictBatch(w, rows) ==
    IF ~syncReady(w) THEN Nil
    ELSE IF ensembleActive(w) THEN scatter(rows, w, FALSE)
    ELSE [i \in 1..Len(rows) |-> madeFrom(w, Nil, FALSE)]
\* /predict/bulk/strict: the only path that passes the row's tokens in flight on.
predictBatchFast(w, rows) ==
    IF ~syncReady(w) THEN Nil
    ELSE IF ensembleActive(w) THEN scatter(rows, w, TRUE)
    ELSE [i \in 1..Len(rows) |-> madeFrom(w, Nil, TRUE)]

\* /predict/bulk over rows some of which (Nil) are invalid: predictions by index, errors, counts.
predictBulk(w, rows) ==
    LET valid == SelectSeq([i \in 1..Len(rows) |-> i], LAMBDA i : rows[i] # Nil)
        batch == IF valid = <<>> THEN <<>> ELSE predictBatch(w, [j \in 1..Len(valid) |-> rows[valid[j]]])
        invalid == SelectSeq([i \in 1..Len(rows) |-> i], LAMBDA i : rows[i] = Nil)
    IN [predictions |-> [i \in 1..Len(rows) |->
            IF batch # Nil /\ i \in Range(valid) THEN batch[CHOOSE j \in 1..Len(valid) : valid[j] = i] ELSE Nil],
        errors |-> IF batch = Nil THEN invalid \o valid ELSE invalid,
        successful |-> IF batch = Nil THEN 0 ELSE Len(valid),
        failed |-> IF batch = Nil THEN Len(rows) ELSE Len(invalid)]

-----------------------------------------------------------------------------
ModelSyncNext ==
    \/ SaveBegins
    \/ DumpStep
    \/ \E t \in SyncThreads :
         \/ SyncBegins(t)
         \/ CheckNewer(t)
         \/ DownloadEnds(t)
         \/ ReadChecksum(t)
         \/ LoadFile(t)
         \/ LoadFails(t)
         \/ SwapModels(t)

-----------------------------------------------------------------------------
\* No silent staleness but by the races named: a local file that is not the server's will be
\* found newer, or the server rewrote the file while it was downloaded.
LocalFilesFollow ==
    \A f \in fileSet :
        (st.server[f].whole /\ localFile(f) # st.server[f].v /\ localFile(f) # Nil) => (st.newer[f] \/ st.lost[f])

\* A worker none of whose threads is busy has the local files loaded, or none because one is
\* missing, but for those another worker downloaded since, or that an overtaken load put back,
\* for one that was replaced under the load and whose former content is back (the checksum of
\* the load says that nothing has changed), and for those a failed load left behind.  After a
\* failed load a worker that is ready is not loaded again before some file changes or it is
\* asked to reload; that then loads a base file, since the checksum kept is another one, but
\* not a gated one, whose checksum was kept as if it had been loaded.
LoadedFollows ==
    \A w \in st.run.workers :
        (st.started[w] /\ \A k \in {"main", "loop"} : st.threads[<<w, k>>].pc = "idle")
        => \A f \in fileSet : Lookup(st.loaded[w], f, Nil) # localFile(f)
               => \/ f \in st.passed[w]
                  \/ ~syncReady(w) /\ \E b \in baseFiles : localFile(b) = Nil \/ b \in st.passed[w]
                  \/ \E g \in gatedFiles : f \in gatedFiles /\ (localFile(g) = Nil \/ g \in st.passed[w])
                  \/ f \in st.torn[w] /\ Lookup(st.sums[w], f, Nil) = localFile(f)
                  \/ f \in st.failed[w] /\ (f \in gatedFiles \/ Lookup(st.sums[w], f, Nil) # localFile(f))

\* Single, batch and strict bulk predictions use the same models and the columns these were
\* fitted on, row by row, and a bulk answer accounts for every row.
PredictionsAgree ==
    part = "modelsync" =>
    \A w \in st.run.workers, rows \in SyncRows :
        LET asked == SelectSeq(rows, LAMBDA r : r # Nil)
            bulk == predictBulk(w, rows)
        IN /\ syncReady(w) => \A i \in 1..Len(asked) :
                /\ predictBatch(w, asked)[i] = predictRow(w, asked[i])
                /\ predictBatchFast(w, asked)[i] = [predictRow(w, asked[i]) EXCEPT !.tokens = TRUE]
                /\ \A m \in {"ttft", "tpot"} :
                     predictRow(w, asked[i]).columns[m] = trainedOrder(m, predictRow(w, asked[i]).regime = "noqueue")
           /\ bulk.successful + bulk.failed = Len(rows)
           /\ \A i \in 1..Len(rows) : (bulk.predictions[i] = Nil) <=> (i \in Range(bulk.errors))

\* Models reach the workers: the first two facts above, whatever the order in which the training
\* server's saves, the sync threads and the /reload handlers of the workers run.
ModelsReachWorkers == part = "modelsync" => LocalFilesFollow /\ LoadedFollows
=============================================================================
