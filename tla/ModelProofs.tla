---------------------------- MODULE ModelProofs ----------------------------
(***************************************************************************)
(* The models of the latency predictor, for every value of the constants:  *)
(* the training server's files are those of its models                     *)
(* (TrainingServerSound), and the prediction servers' workers get the      *)
(* models the training server has saved (ModelsReachWorkers).              *)
(***************************************************************************)
EXTENDS TrainingServer, ModelSync, TLAPS

-----------------------------------------------------------------------------
(* The training server.                                                    *)

\* The behaviours of the training server alone.
TrainingSpec ==
  part = "training" /\ TrainingServerInit /\ [][UNCHANGED part /\ TrainingServerNext]_<<part, st>>

TrainingFields ==
  {"up", "type", "data", "test", "scores", "mem", "active", "min", "job", "disk", "saving", "next", "cycle",
   "crashes", "flushes", "failed"}

IsFile(d) == d = [v |-> d.v, whole |-> TRUE] \/ d = [v |-> d.v, whole |-> FALSE]

TrainingShape(s) ==
  /\ DOMAIN s = TrainingFields /\ DOMAIN s.mem = ModelFiles /\ DOMAIN s.disk = ModelFiles
  /\ \A f \in ModelFiles : IsFile(s.disk[f])
  /\ s.saving \in Seq(ModelFiles) /\ s.cycle \in Nat /\ s.crashes \in Nat
  /\ DOMAIN s.job = {"pc", "snap", "new"}

\* How far load_models has come, and what there is to show for it.
Loading(s) ==
  /\ s.up \in {"down", "half", "up", "failed"}
  /\ s.up # "up" => ~s.active /\ s.job = noJob
  /\ s.up = "down" => s.mem["tpot"] = Nil
  /\ s.up = "down" /\ s.saving = <<>> => s.mem["ttft"] = Nil
  /\ s.up = "down" /\ s.saving # <<>> => s.next = "half" /\ s.mem["ttft"] # Nil
  /\ s.up = "half" => s.mem["ttft"] # Nil
  /\ s.up = "half" /\ s.saving = <<>> => s.mem["tpot"] = Nil
  /\ s.up = "half" /\ s.saving # <<>> => s.next = "up" /\ s.mem["tpot"] # Nil
  /\ s.up = "up" => predictorReady(s)
  /\ s.up = "up" /\ s.saving # <<>> => s.next = "up"
  /\ s.up = "failed" => s.saving = <<>> /\ s.mem = noModels /\ interruptedSave(s)

\* The file holds what is in memory, unless it is still to be written or the last save failed.
Kept(s, f) == s.mem[f] # Nil /\ (f \in {"ttft_gated", "tpot_gated"} => s.active)
Has(q, x) == \E i \in 1..Len(q) : q[i] = x
Saved(s) ==
  \A f \in ModelFiles :
    Kept(s, f) /\ (~s.failed \/ s.saving # <<>>) /\ ~Has(s.saving, f) => s.disk[f] = [v |-> s.mem[f], whole |-> TRUE]
SavesKept(s) == \A f \in ModelFiles : Has(s.saving, f) => s.mem[f] # Nil

\* A model and its scaler are of one fit, in the cycle under way and in memory, unless the disk has them mixed.
ScalerOf(s, models, m) == models[scalerFile(m)] = IF hasScalers(s) THEN models[m] ELSE Nil
Pairs(s) == \A m \in Metrics : ScalerOf(s, s.mem, m) \/ (hasScalers(s) /\ mixedOnDisk(s, m))

\* Both gated models are of the last cycle that is done; those of the cycle under way are of it.
OneCycle(s) ==
  /\ s.active => /\ s.mem["ttft_gated"] # Nil /\ s.mem["ttft_gated"] = s.mem["tpot_gated"]
                 /\ s.mem["ttft_gated"] = IF s.job = noJob THEN s.cycle ELSE s.cycle - 1
  /\ s.job.pc = "wait" => s.job = noJob
  /\ s.job.pc # "wait" => /\ DOMAIN s.job.new = ModelFiles /\ s.job.new["ttft_gated"] = s.job.new["tpot_gated"]
                          /\ s.job.new["ttft_gated"] \in {Nil, s.cycle}
                          /\ \A m \in Metrics : ScalerOf(s, s.job.new, m)

\* A truncated file is the one being written, or something was interrupted.
TornByCrash(s) ==
  \A f \in ModelFiles : s.disk[f].whole \/ s.crashes > 0 \/ (s.saving # <<>> /\ f = Head(s.saving))

\* As long as nothing was interrupted, there is no file on disk but of what is in memory.
Fresh(s) == s.crashes = 0 => \A f \in ModelFiles : s.mem[f] = Nil => s.disk[f].v = Nil

\* The invariant, but for Loading and SavesKept, which say how a save or a load goes on.
AtRest(s) == TrainingShape(s) /\ Saved(s) /\ Pairs(s) /\ OneCycle(s) /\ TornByCrash(s) /\ Fresh(s)
ServerInv(s) == AtRest(s) /\ Loading(s) /\ SavesKept(s)
TrainingInv == part = "training" /\ ServerInv(st)

-----------------------------------------------------------------------------
\* What is in memory and on disk, and how far things are, stays.
SameServer(s, t) ==
  /\ DOMAIN t = TrainingFields
  /\ t.up = s.up /\ t.type = s.type /\ t.mem = s.mem /\ t.active = s.active /\ t.disk = s.disk /\ t.saving = s.saving
  /\ t.next = s.next /\ t.crashes = s.crashes /\ t.failed = s.failed

\* The invariant is about nothing else, but for the cycle and its job.
LEMMA SameServerKeeps ==
  ASSUME NEW s, NEW t, ServerInv(s), SameServer(s, t), t.cycle \in Nat, DOMAIN t.job = {"pc", "snap", "new"},
         s.up # "up" => t.job = s.job, OneCycle(t)
  PROVE  ServerInv(t)
<1>1. TrainingShape(s) /\ Saved(s) /\ Pairs(s) /\ TornByCrash(s) /\ Fresh(s) /\ Loading(s) /\ SavesKept(s)
  BY Zenon DEF ServerInv, AtRest
<1>2. TrainingShape(t)
  BY <1>1, Zenon DEF TrainingShape, SameServer
<1>3. Loading(t)
  <2>1. predictorReady(s) => predictorReady(t)
    BY Zenon DEF predictorReady, hasScalers, SameServer
  <2>2. interruptedSave(s) => interruptedSave(t)
    BY Zenon DEF interruptedSave, hasScalers, SameServer
  <2> QED BY <1>1, <2>1, <2>2, Zenon DEF Loading, SameServer
<1>4. Saved(t) /\ SavesKept(t)
  BY <1>1, Zenon DEF Saved, SavesKept, Kept, SameServer
<1>5. Pairs(t)
  BY <1>1, Zenon DEF Pairs, ScalerOf, mixedOnDisk, hasScalers, SameServer
<1>6. TornByCrash(t) /\ Fresh(t)
  BY <1>1, Zenon DEF TornByCrash, Fresh, SameServer
<1> QED BY <1>2, <1>3, <1>4, <1>5, <1>6, Zenon DEF ServerInv, AtRest

\* Samples come and go: neither memory nor disk is touched.
LEMMA SamplesKeep ==
  ASSUME ServerInv(st), (\E s \in Samples : AddSample(s)) \/ Flush
  PROVE  ServerInv(st')
<1>1. /\ DOMAIN st = TrainingFields /\ st.cycle \in Nat /\ DOMAIN st.job = {"pc", "snap", "new"} /\ OneCycle(st)
  BY Zenon DEF ServerInv, AtRest, TrainingShape
<1>2. SameServer(st, st') /\ st'.cycle = st.cycle /\ st'.job = st.job
  <2>1. ASSUME NEW s \in Samples, AddSample(s) PROVE SameServer(st, st') /\ st'.cycle = st.cycle /\ st'.job = st.job
    <3>1. \E d : st' = [st EXCEPT !.test = d] \/ st' = [st EXCEPT !.data = d]
      BY <2>1, Zenon DEF AddSample
    <3> QED BY <1>1, <3>1, Zenon DEF SameServer, TrainingFields
  <2>2. ASSUME Flush PROVE SameServer(st, st') /\ st'.cycle = st.cycle /\ st'.job = st.job
    <3>1. PICK training \in BOOLEAN, test \in BOOLEAN, metrics \in BOOLEAN :
            st' = [st EXCEPT !.flushes = @ + 1, !.data = IF training THEN noData ELSE @,
                             !.test = IF test THEN noTestData ELSE @,
                             !.scores = IF metrics THEN [m \in Metrics |-> 0] ELSE @]
      BY <2>2, Zenon DEF Flush
    <3> QED BY <1>1, <3>1, Zenon DEF SameServer, TrainingFields
  <2> QED BY <2>1, <2>2, Zenon
<1>3. OneCycle(st')
  BY <1>1, <1>2, Zenon DEF OneCycle, SameServer, ScalerOf, hasScalers
<1> QED BY <1>1, <1>2, <1>3, SameServerKeeps, Zenon

\* A new model comes with its scaler, if the type has scalers.
LEMMA WithModel ==
  ASSUME NEW models, DOMAIN models = ModelFiles, NEW m \in Metrics, NEW v
  PROVE  LET new == withModel(models, m, v) IN
         /\ DOMAIN new = ModelFiles /\ new[m] = v /\ new[scalerFile(m)] = IF hasScalers(st) THEN v ELSE Nil
         /\ \A f \in ModelFiles \ {m, scalerFile(m)} : new[f] = models[f]
<1>1. m \in ModelFiles /\ scalerFile(m) \in ModelFiles /\ m # scalerFile(m)
  BY Zenon DEF ModelFiles, Metrics, scalerFile
<1> QED BY <1>1, Zenon DEF withModel

\* The files of a metric are its own.
LEMMA FilesOfMetric ==
  /\ "ttft" \in Metrics /\ "tpot" \in Metrics /\ scalerFile("ttft") = "ttft_scaler" /\ scalerFile("tpot") = "tpot_scaler"
  /\ \A m \in Metrics : /\ m \in ModelFiles /\ scalerFile(m) \in ModelFiles
                        /\ m \notin {"ttft_gated", "tpot_gated"} /\ scalerFile(m) \notin {"ttft_gated", "tpot_gated"}
                        /\ \A n \in Metrics : n # scalerFile(m) /\ (scalerFile(n) = scalerFile(m) => n = m)
  /\ "ttft_gated" \in ModelFiles /\ "tpot_gated" \in ModelFiles
BY Zenon DEF ModelFiles, Metrics, scalerFile

\* A cycle begins.
LEMMA TrainBeginsKeeps ==
  ASSUME ServerInv(st), TrainBegins
  PROVE  ServerInv(st')
<1> DEFINE snap == [m \in Metrics |-> samplesIn(m, BucketKeys)]
<1>1. DOMAIN st = TrainingFields /\ st.cycle \in Nat /\ OneCycle(st)
  BY Zenon DEF ServerInv, AtRest, TrainingShape
<1>2. /\ st.up = "up" /\ st.job.pc = "wait"
      /\ st' = [st EXCEPT !.cycle = @ + 1, !.job = [pc |-> "fit", snap |-> snap, new |-> noModels]]
  BY Zenon DEF TrainBegins, serving
<1> HIDE DEF snap
<1>3. SameServer(st, st') /\ st'.cycle = st.cycle + 1 /\ st'.job = [pc |-> "fit", snap |-> snap, new |-> noModels]
  BY <1>1, <1>2, Zenon DEF SameServer, TrainingFields
<1>4. /\ DOMAIN st'.job = {"pc", "snap", "new"} /\ st'.job.pc = "fit" /\ st'.job.new = noModels
      /\ st'.job # noJob /\ st.job = noJob
  BY <1>1, <1>2, <1>3 DEF noJob, OneCycle
<1>5. /\ DOMAIN noModels = ModelFiles /\ noModels["ttft_gated"] = Nil /\ noModels["tpot_gated"] = Nil
      /\ \A m \in Metrics : noModels[m] = Nil /\ noModels[scalerFile(m)] = Nil
  BY FilesOfMetric, Zenon DEF noModels
<1>6. st.cycle + 1 \in Nat /\ (st.cycle + 1) - 1 = st.cycle
  BY <1>1
<1>7. OneCycle(st')
  <2>1. st.active => /\ st'.mem["ttft_gated"] # Nil /\ st'.mem["ttft_gated"] = st'.mem["tpot_gated"]
                     /\ st'.mem["ttft_gated"] = st'.cycle - 1
    BY <1>1, <1>3, <1>4, <1>6, Zenon DEF OneCycle, SameServer
  <2>2. \A m \in Metrics : ScalerOf(st', noModels, m)
    BY <1>5, Zenon DEF ScalerOf
  <2>3. st'.active = st.active
    BY <1>3, Zenon DEF SameServer
  <2>4. "fit" # "wait"
    OBVIOUS
  <2> QED BY <1>4, <1>5, <2>1, <2>2, <2>3, <2>4, Zenon DEF OneCycle
<1>8. st'.cycle \in Nat
  BY <1>3, <1>6, Zenon
<1> QED BY <1>2, <1>3, <1>4, <1>7, <1>8, SameServerKeeps, Zenon

\* Models are fitted, and nothing is done with them yet.
LEMMA FitKeeps ==
  ASSUME ServerInv(st), FitModels \/ FitEnsemble
  PROVE  ServerInv(st')
<1>1. DOMAIN st = TrainingFields /\ st.cycle \in Nat /\ DOMAIN st.job = {"pc", "snap", "new"} /\ OneCycle(st)
  BY Zenon DEF ServerInv, AtRest, TrainingShape
<1>2. /\ st.up = "up" /\ st.job.pc # "wait" /\ SameServer(st, st') /\ st'.cycle = st.cycle
      /\ DOMAIN st'.job = {"pc", "snap", "new"} /\ st'.job.pc # "wait"
      /\ DOMAIN st'.job.new = ModelFiles /\ st'.job.new["ttft_gated"] = st'.job.new["tpot_gated"]
      /\ st'.job.new["ttft_gated"] \in {Nil, st.cycle} /\ \A m \in Metrics : ScalerOf(st, st'.job.new, m)
  <2>1. CASE FitModels
    <3>1. PICK ttft \in fitOutcomes("ttft"), tpot \in fitOutcomes("tpot") :
            LET new == withModel(withModel(noModels, "ttft", ttft), "tpot", tpot) IN
            st' = [st EXCEPT !.job.pc = IF EnsembleMode THEN "split" ELSE "install", !.job.new = new,
                             !.scores = [m \in Metrics |-> IF scoreOf(m, new[m]) THEN Min2(@[m] + 1, 5) ELSE @[m]]]
      BY <2>1, Zenon DEF FitModels
    <3> DEFINE one == withModel(noModels, "ttft", ttft)
               new == withModel(one, "tpot", tpot)
    <3>2. /\ DOMAIN new = ModelFiles /\ new["ttft_gated"] = Nil /\ new["tpot_gated"] = Nil
          /\ \A m \in Metrics : ScalerOf(st, new, m)
      <4>1. DOMAIN noModels = ModelFiles /\ noModels["ttft_gated"] = Nil /\ noModels["tpot_gated"] = Nil
        BY FilesOfMetric, Zenon DEF noModels
      <4>2. /\ DOMAIN one = ModelFiles /\ one["ttft"] = ttft /\ one["ttft_scaler"] = IF hasScalers(st) THEN ttft ELSE Nil
            /\ \A f \in ModelFiles \ {"ttft", "ttft_scaler"} : one[f] = noModels[f]
        <5>3. "ttft" \in Metrics
          BY FilesOfMetric, Zenon
        <5>1. /\ DOMAIN one = ModelFiles /\ one["ttft"] = ttft /\ one[scalerFile("ttft")] = IF hasScalers(st) THEN ttft ELSE Nil
              /\ \A f \in ModelFiles \ {"ttft", scalerFile("ttft")} : one[f] = noModels[f]
          BY <4>1, <5>3, WithModel
        <5> HIDE DEF one
        <5>2. scalerFile("ttft") = "ttft_scaler"
          BY FilesOfMetric, Zenon
        <5> QED BY <5>1, <5>2, Zenon
      <4> HIDE DEF one
      <4>3. /\ DOMAIN new = ModelFiles /\ new["tpot"] = tpot /\ new["tpot_scaler"] = IF hasScalers(st) THEN tpot ELSE Nil
            /\ \A f \in ModelFiles \ {"tpot", "tpot_scaler"} : new[f] = one[f]
        <5>3. "tpot" \in Metrics
          BY FilesOfMetric, Zenon
        <5>1. /\ DOMAIN new = ModelFiles /\ new["tpot"] = tpot /\ new[scalerFile("tpot")] = IF hasScalers(st) THEN tpot ELSE Nil
              /\ \A f \in ModelFiles \ {"tpot", scalerFile("tpot")} : new[f] = one[f]
          BY <4>2, <5>3, WithModel
        <5> HIDE DEF new
        <5>2. scalerFile("tpot") = "tpot_scaler"
          BY FilesOfMetric, Zenon
        <5> QED BY <5>1, <5>2, Zenon
      <4> HIDE DEF new
      <4>4. /\ new["ttft"] = ttft /\ new["ttft_scaler"] = IF hasScalers(st) THEN ttft ELSE Nil
            /\ new["ttft_gated"] = Nil /\ new["tpot_gated"] = Nil
        BY <4>1, <4>2, <4>3, Zenon DEF ModelFiles, Metrics
      <4> QED BY <4>3, <4>4, Zenon DEF ScalerOf, Metrics, scalerFile
    <3> DEFINE pc == IF EnsembleMode THEN "split" ELSE "install"
               scores == [m \in Metrics |-> IF scoreOf(m, new[m]) THEN Min2(st.scores[m] + 1, 5) ELSE st.scores[m]]
    <3>3. st' = [st EXCEPT !.job.pc = pc, !.job.new = new, !.scores = scores]
      BY <3>1, Zenon
    <3>4. pc # "wait"
      BY Zenon
    <3> HIDE DEF new, pc, scores
    <3>5. SameServer(st, st') /\ st'.cycle = st.cycle
      BY <1>1, <3>3, Zenon DEF SameServer, TrainingFields
    <3>6. st'.job = [[st.job EXCEPT !.pc = pc] EXCEPT !.new = new]
      BY <1>1, <3>3, Zenon DEF TrainingFields
    <3>7. DOMAIN st'.job = {"pc", "snap", "new"} /\ st'.job.pc = pc /\ st'.job.new = new
      BY <1>1, <3>6, Zenon
    <3>8. st.up = "up" /\ st.job.pc = "fit"
      BY <2>1, Zenon DEF FitModels
    <3> QED BY <3>2, <3>4, <3>5, <3>7, <3>8, Zenon
  <2>2. CASE FitEnsemble
    <3>1. st.up = "up" /\ st.job.pc = "split"
      BY <2>2, Zenon DEF FitEnsemble, serving
    <3>2. PICK new :
            /\ new \in {st.job.new, [st.job.new EXCEPT !["ttft_gated"] = st.cycle, !["tpot_gated"] = st.cycle]}
            /\ st' = [st EXCEPT !.job.pc = "install", !.job.new = new]
      <4>1. PICK b : st' = [st EXCEPT !.job.pc = "install",
                                      !.job.new = IF b THEN [@ EXCEPT !["ttft_gated"] = st.cycle, !["tpot_gated"] = st.cycle]
                                                  ELSE @]
        BY <2>2, Zenon DEF FitEnsemble
      <4> QED BY <4>1, Zenon
    <3>3. SameServer(st, st') /\ st'.cycle = st.cycle
      BY <1>1, <3>2, Zenon DEF SameServer, TrainingFields
    <3>4. st'.job = [[st.job EXCEPT !.pc = "install"] EXCEPT !.new = new]
      BY <1>1, <3>2, Zenon DEF TrainingFields
    <3>5. DOMAIN st'.job = {"pc", "snap", "new"} /\ st'.job.pc = "install" /\ st'.job.new = new
      BY <1>1, <3>4, Zenon
    <3>6. /\ DOMAIN st.job.new = ModelFiles /\ st.job.new["ttft_gated"] = st.job.new["tpot_gated"]
          /\ st.job.new["ttft_gated"] \in {Nil, st.cycle} /\ \A m \in Metrics : ScalerOf(st, st.job.new, m)
      BY <1>1, <3>1, Zenon DEF OneCycle
    <3>7. /\ DOMAIN new = ModelFiles /\ new["ttft_gated"] = new["tpot_gated"] /\ new["ttft_gated"] \in {Nil, st.cycle}
          /\ \A f \in ModelFiles \ {"ttft_gated", "tpot_gated"} : new[f] = st.job.new[f]
      BY <3>2, <3>6, Zenon DEF ModelFiles, Metrics
    <3>8. \A m \in Metrics : ScalerOf(st, new, m)
      BY <3>6, <3>7, FilesOfMetric, Zenon DEF ScalerOf
    <3> QED BY <3>1, <3>3, <3>5, <3>7, <3>8, Zenon
  <2> QED BY <2>1, <2>2, Zenon
<1>3. st'.job # noJob /\ st.job # noJob
  BY <1>2 DEF noJob
<1>4. OneCycle(st')
  BY <1>1, <1>2, <1>3, Zenon DEF OneCycle, SameServer, ScalerOf, hasScalers
<1> QED BY <1>1, <1>2, <1>4, SameServerKeeps, Zenon

-----------------------------------------------------------------------------
(* Saving.                                                                 *)

\* A concatenation has what its halves have.
LEMMA ConcatHas ==
  ASSUME NEW S, NEW a \in Seq(S), NEW b \in Seq(S)
  PROVE  /\ a \o b \in Seq(S)
         /\ \A x : Has(a \o b, x) <=> Has(a, x) \/ Has(b, x)
<1>1. a \o b \in Seq(S) /\ Len(a \o b) = Len(a) + Len(b)
  OBVIOUS
<1>2. ASSUME NEW x, Has(a, x) PROVE Has(a \o b, x)
  <2>1. PICK i \in 1..Len(a) : a[i] = x
    BY <1>2, Zenon DEF Has
  <2>2. i \in 1..Len(a \o b) /\ (a \o b)[i] = x
    BY <1>1, <2>1
  <2> QED BY <2>2, Zenon DEF Has
<1>3. ASSUME NEW x, Has(b, x) PROVE Has(a \o b, x)
  <2>1. PICK i \in 1..Len(b) : b[i] = x
    BY <1>3, Zenon DEF Has
  <2>2. Len(a) + i \in 1..Len(a \o b) /\ (a \o b)[Len(a) + i] = x
    BY <1>1, <2>1
  <2> QED BY <2>2, Zenon DEF Has
<1>4. ASSUME NEW x, Has(a \o b, x) PROVE Has(a, x) \/ Has(b, x)
  <2>1. PICK i \in 1..Len(a \o b) : (a \o b)[i] = x
    BY <1>4, Zenon DEF Has
  <2>2. CASE i <= Len(a)
    <3>1. i \in 1..Len(a) /\ a[i] = x
      BY <1>1, <2>1, <2>2
    <3> QED BY <3>1, Zenon DEF Has
  <2>3. CASE ~(i <= Len(a))
    <3>1. i - Len(a) \in 1..Len(b) /\ b[i - Len(a)] = x
      BY <1>1, <2>1, <2>3
    <3> QED BY <3>1, Zenon DEF Has
  <2> QED BY <2>2, <2>3, Zenon
<1> QED BY <1>1, <1>2, <1>3, <1>4, Zenon

\* A file is in the list of oneIf if its condition holds.
LEMMA OneIf ==
  ASSUME NEW c, NEW f \in ModelFiles
  PROVE  oneIf(c, f) \in Seq(ModelFiles) /\ \A x : Has(oneIf(c, f), x) <=> c /\ x = f
<1>1. CASE c
  <2>1. oneIf(c, f) = <<f>> /\ <<f>>[1] = f /\ 1..Len(<<f>>) = {1} /\ <<f>> \in Seq(ModelFiles)
    BY <1>1 DEF oneIf
  <2> QED BY <1>1, <2>1, Zenon DEF Has
<1>2. CASE ~c
  <2>1. oneIf(c, f) = <<>> /\ <<>> \in Seq(ModelFiles) /\ 1..Len(<<>>) = {}
    BY <1>2 DEF oneIf
  <2> QED BY <1>2, <2>1, Zenon DEF Has
<1> QED BY <1>1, <1>2, Zenon

\* A save writes every file there is something to keep for, and no other.
LEMMA FilesToSave ==
  ASSUME NEW s
  PROVE  /\ filesToSave(s) \in Seq(ModelFiles)
         /\ \A f \in ModelFiles : Kept(s, f) <=> Has(filesToSave(s), f)
         /\ s.mem["ttft"] # Nil => filesToSave(s) # <<>>
<1> DEFINE a == oneIf(s.mem["ttft"] # Nil, "ttft")
           b == oneIf(s.mem["ttft_scaler"] # Nil, "ttft_scaler")
           c == oneIf(s.mem["tpot"] # Nil, "tpot")
           d == oneIf(s.mem["tpot_scaler"] # Nil, "tpot_scaler")
           e == oneIf(s.active /\ s.mem["ttft_gated"] # Nil, "ttft_gated")
           g == oneIf(s.active /\ s.mem["tpot_gated"] # Nil, "tpot_gated")
<1>1. /\ "ttft" \in ModelFiles /\ "tpot" \in ModelFiles /\ "ttft_gated" \in ModelFiles /\ "tpot_gated" \in ModelFiles
      /\ "ttft_scaler" \in ModelFiles /\ "tpot_scaler" \in ModelFiles
  BY Zenon DEF ModelFiles, Metrics
<1>2. a \in Seq(ModelFiles) /\ \A x : Has(a, x) <=> s.mem["ttft"] # Nil /\ x = "ttft"
  BY <1>1, OneIf, Zenon
<1>3. b \in Seq(ModelFiles) /\ \A x : Has(b, x) <=> s.mem["ttft_scaler"] # Nil /\ x = "ttft_scaler"
  BY <1>1, OneIf, Zenon
<1>4. c \in Seq(ModelFiles) /\ \A x : Has(c, x) <=> s.mem["tpot"] # Nil /\ x = "tpot"
  BY <1>1, OneIf, Zenon
<1>5. d \in Seq(ModelFiles) /\ \A x : Has(d, x) <=> s.mem["tpot_scaler"] # Nil /\ x = "tpot_scaler"
  BY <1>1, OneIf, Zenon
<1>6. e \in Seq(ModelFiles) /\ \A x : Has(e, x) <=> (s.active /\ s.mem["ttft_gated"] # Nil) /\ x = "ttft_gated"
  BY <1>1, OneIf, Zenon
<1>7. g \in Seq(ModelFiles) /\ \A x : Has(g, x) <=> (s.active /\ s.mem["tpot_gated"] # Nil) /\ x = "tpot_gated"
  BY <1>1, OneIf, Zenon
<1>8. filesToSave(s) = ((((a \o b) \o c) \o d) \o e) \o g
  BY Zenon DEF filesToSave
<1> HIDE DEF a, b, c, d, e, g
<1> DEFINE ab == a \o b
           abc == ab \o c
           abcd == abc \o d
           abcde == abcd \o e
<1>9. ab \in Seq(ModelFiles) /\ \A x : Has(ab, x) <=> Has(a, x) \/ Has(b, x)
  BY <1>2, <1>3, ConcatHas, Zenon
<1>18. filesToSave(s) = abcde \o g
  BY <1>8, Zenon
<1> HIDE DEF ab
<1>10. abc \in Seq(ModelFiles) /\ \A x : Has(abc, x) <=> Has(ab, x) \/ Has(c, x)
  BY <1>4, <1>9, ConcatHas, Zenon
<1> HIDE DEF abc
<1>11. abcd \in Seq(ModelFiles) /\ \A x : Has(abcd, x) <=> Has(abc, x) \/ Has(d, x)
  BY <1>5, <1>10, ConcatHas, Zenon
<1> HIDE DEF abcd
<1>12. abcde \in Seq(ModelFiles) /\ \A x : Has(abcde, x) <=> Has(abcd, x) \/ Has(e, x)
  BY <1>6, <1>11, ConcatHas, Zenon
<1> HIDE DEF abcde
<1>13. filesToSave(s) \in Seq(ModelFiles) /\ \A x : Has(filesToSave(s), x) <=> Has(abcde, x) \/ Has(g, x)
  <2>1. abcde \o g \in Seq(ModelFiles) /\ \A x : Has(abcde \o g, x) <=> Has(abcde, x) \/ Has(g, x)
    BY <1>7, <1>12, ConcatHas, Zenon
  <2> QED BY <1>18, <2>1, Zenon
<1>14. \A x : Has(filesToSave(s), x) <=> \/ Has(a, x) \/ Has(b, x) \/ Has(c, x) \/ Has(d, x) \/ Has(e, x) \/ Has(g, x)
  BY <1>9, <1>10, <1>11, <1>12, <1>13, Zenon
<1>15. ASSUME NEW f \in ModelFiles PROVE Kept(s, f) <=> Has(filesToSave(s), f)
  <2>1. f \in {"ttft", "ttft_scaler", "tpot", "tpot_scaler", "ttft_gated", "tpot_gated"}
    BY <1>15, Zenon DEF ModelFiles, Metrics
  <2> QED BY <1>2, <1>3, <1>4, <1>5, <1>6, <1>7, <1>14, <2>1, Zenon DEF Kept
<1>16. ~Has(<<>>, "ttft")
  BY DEF Has
<1>17. s.mem["ttft"] # Nil => Has(filesToSave(s), "ttft")
  BY <1>2, <1>14, Zenon
<1> QED BY <1>13, <1>15, <1>16, <1>17, Zenon

\* A save begins, in load_models or after a training cycle.
LEMMA SaveBeginsKeeps ==
  ASSUME NEW s, NEW next, TrainingShape(s), Pairs(s), OneCycle(s), TornByCrash(s), Fresh(s), s.saving = <<>>,
         s.mem["ttft"] # Nil,
         \/ s.up = "down" /\ next = "half" /\ s.mem["tpot"] = Nil /\ ~s.active /\ s.job = noJob
         \/ s.up = "half" /\ next = "up" /\ s.mem["tpot"] # Nil /\ ~s.active /\ s.job = noJob
         \/ s.up = "up" /\ next = "up" /\ predictorReady(s)
  PROVE  ServerInv(savingThen(s, next))
<1> DEFINE t == savingThen(s, next)
<1>0. DOMAIN s = TrainingFields
  BY Zenon DEF TrainingShape
<1>1. /\ DOMAIN t = TrainingFields /\ t.mem = s.mem /\ t.active = s.active /\ t.disk = s.disk /\ t.type = s.type
      /\ t.cycle = s.cycle /\ t.crashes = s.crashes /\ t.up = s.up /\ t.job = s.job
      /\ t.saving = filesToSave(s) /\ t.next = next /\ t.failed = s.failed
  BY <1>0, Zenon DEF savingThen, TrainingFields
<1> HIDE DEF t
<1>2. /\ filesToSave(s) \in Seq(ModelFiles) /\ filesToSave(s) # <<>>
      /\ \A f \in ModelFiles : Kept(s, f) <=> Has(filesToSave(s), f)
  BY FilesToSave, Zenon
<1>3. TrainingShape(t)
  BY <1>1, <1>2, Zenon DEF TrainingShape
<1>4. Loading(t)
  <2>1. predictorReady(s) => predictorReady(t)
    BY <1>1, Zenon DEF predictorReady, hasScalers
  <2> QED BY <1>1, <1>2, <2>1, Zenon DEF Loading
<1>5. Saved(t) /\ SavesKept(t)
  BY <1>1, <1>2, Zenon DEF Saved, SavesKept, Kept
<1>6. OneCycle(t)
  BY <1>1, Zenon DEF OneCycle, ScalerOf, hasScalers
<1>9. Pairs(t)
  BY <1>1, Zenon DEF Pairs, ScalerOf, mixedOnDisk, hasScalers
<1>7. TornByCrash(t) /\ Fresh(t)
  BY <1>1, Zenon DEF TornByCrash, Fresh
<1>8. ServerInv(t)
  BY <1>3, <1>4, <1>5, <1>6, <1>7, <1>9, Zenon DEF ServerInv, AtRest
<1> QED BY <1>8, Zenon DEF t

\* The process is down, with nothing in memory.
LEMMA DownKeeps ==
  ASSUME NEW s, NEW t, TrainingShape(s), DOMAIN t = TrainingFields, t.up \in {"down", "failed"}, t.mem = noModels,
         ~t.active, t.saving = <<>>, t.cycle = s.cycle, t.disk = s.disk, t.job = noJob, t.crashes \in Nat,
         t.crashes > 0, t.up = "failed" => interruptedSave(t)
  PROVE  ServerInv(t)
<1>1. /\ DOMAIN noModels = ModelFiles /\ (\A f \in ModelFiles : noModels[f] = Nil) /\ noModels["ttft"] = Nil
      /\ noModels["tpot"] = Nil
  BY FilesOfMetric, Zenon DEF noModels
<1>2. DOMAIN noJob = {"pc", "snap", "new"} /\ noJob.pc = "wait"
  BY Zenon DEF noJob
<1>3. <<>> \in Seq(ModelFiles) /\ ~(t.crashes = 0) /\ \A f : ~Has(<<>>, f)
  BY DEF Has
<1>4. TrainingShape(t)
  BY <1>1, <1>2, <1>3, Zenon DEF TrainingShape
<1>5. Loading(t)
  BY <1>1, Zenon DEF Loading
<1>6. Saved(t) /\ SavesKept(t) /\ Fresh(t) /\ TornByCrash(t)
  BY <1>1, <1>3, Zenon DEF Saved, Kept, SavesKept, Fresh, TornByCrash
<1>7. OneCycle(t)
  BY <1>2, Zenon DEF OneCycle
<1>8. Pairs(t)
  BY <1>1, FilesOfMetric, Zenon DEF Pairs, ScalerOf
<1> QED BY <1>4, <1>5, <1>6, <1>7, <1>8, Zenon DEF ServerInv, AtRest

\* The fields of downWith.
LEMMA DownWith ==
  ASSUME NEW s, DOMAIN s = TrainingFields
  PROVE  /\ DOMAIN downWith(s) = TrainingFields /\ downWith(s).up = "down" /\ downWith(s).mem = noModels
         /\ downWith(s).active = FALSE /\ downWith(s).saving = <<>> /\ downWith(s).cycle = s.cycle
         /\ downWith(s).disk = s.disk /\ downWith(s).job = noJob /\ downWith(s).crashes = s.crashes
         /\ downWith(s).type = s.type
BY Zenon DEF downWith, TrainingFields

\* A server that cannot start has an interrupted save to blame.
LEMMA CannotStartKeeps ==
  ASSUME NEW s, TrainingShape(s), interruptedSave(s)
  PROVE  ServerInv(cannotStart(s))
<1> DEFINE d == downWith(s)
           t == cannotStart(s)
<1>1. DOMAIN s = TrainingFields /\ s.crashes \in Nat
  BY Zenon DEF TrainingShape
<1>2. /\ DOMAIN d = TrainingFields /\ d.mem = noModels
      /\ d.active = FALSE /\ d.saving = <<>> /\ d.cycle = s.cycle
      /\ d.disk = s.disk /\ d.job = noJob /\ d.crashes = s.crashes /\ d.type = s.type
  BY <1>1, DownWith, Zenon
<1>3. t = [d EXCEPT !.up = "failed"]
  BY Zenon DEF cannotStart
<1> HIDE DEF d, t
<1>4. /\ DOMAIN t = TrainingFields /\ t.up = "failed" /\ t.mem = noModels
      /\ t.active = FALSE /\ t.saving = <<>> /\ t.cycle = s.cycle
      /\ t.disk = s.disk /\ t.job = noJob /\ t.crashes = s.crashes /\ t.type = s.type
  BY <1>2, <1>3, Zenon DEF TrainingFields
<1>5. interruptedSave(t) /\ t.crashes > 0 /\ t.crashes \in Nat
  BY <1>1, <1>4, Zenon DEF interruptedSave, hasScalers
<1>6. ServerInv(t)
  BY <1>4, <1>5, DownKeeps, Zenon
<1> QED BY <1>6, Zenon DEF t

\* load_models goes on: to the next model, up, or nowhere if a scaler is missing.
LEMMA GoesOnKeeps ==
  ASSUME NEW s, NEW next, AtRest(s), s.saving = <<>>, s.mem["ttft"] # Nil,
         \/ next = "half" /\ s.mem["tpot"] = Nil /\ ~s.active /\ s.job = noJob
         \/ next = "up" /\ s.mem["tpot"] # Nil
  PROVE  ServerInv(goesOn(s, next))
<1>1. /\ TrainingShape(s) /\ Saved(s) /\ Pairs(s) /\ OneCycle(s) /\ TornByCrash(s) /\ Fresh(s)
      /\ DOMAIN s = TrainingFields
  BY Zenon DEF AtRest, TrainingShape
<1>2. CASE next = "up" /\ ~predictorReady(s)
  <2>1. PICK m \in Metrics : ~(s.mem[m] # Nil /\ (hasScalers(s) => s.mem[scalerFile(m)] # Nil))
    BY <1>2, Zenon DEF predictorReady
  <2>2. s.mem[m] # Nil /\ hasScalers(s) /\ s.mem[scalerFile(m)] = Nil
    BY <1>2, <2>1, Zenon DEF Metrics
  <2>3. mixedOnDisk(s, m)
    BY <1>1, <2>2, Zenon DEF Pairs, ScalerOf
  <2>4. interruptedSave(s)
    BY <2>2, <2>3, Zenon DEF interruptedSave, mixedOnDisk
  <2>5. goesOn(s, next) = cannotStart(s)
    BY <1>2, Zenon DEF goesOn
  <2>6. ServerInv(cannotStart(s))
    BY <1>1, <2>4, CannotStartKeeps, Zenon
  <2> QED BY <2>5, <2>6, Zenon
<1>3. CASE ~(next = "up" /\ ~predictorReady(s))
  <2> DEFINE t == [s EXCEPT !.up = next]
  <2>1. goesOn(s, next) = t
    BY <1>3, Zenon DEF goesOn
  <2>2. /\ DOMAIN t = TrainingFields /\ t.mem = s.mem /\ t.active = s.active /\ t.disk = s.disk /\ t.type = s.type
        /\ t.cycle = s.cycle /\ t.crashes = s.crashes /\ t.up = next /\ t.job = s.job
        /\ t.saving = <<>> /\ t.next = s.next /\ t.failed = s.failed
    BY <1>1, Zenon DEF TrainingFields
  <2> HIDE DEF t
  <2>3. TrainingShape(t)
    BY <1>1, <2>2, Zenon DEF TrainingShape
  <2>4. Loading(t)
    <3>1. predictorReady(s) => predictorReady(t)
      BY <2>2, Zenon DEF predictorReady, hasScalers
    <3> QED BY <1>3, <2>2, <3>1, Zenon DEF Loading
  <2>5. \A f : ~Has(<<>>, f)
    BY DEF Has
  <2>6. Saved(t) /\ SavesKept(t)
    BY <1>1, <2>2, <2>5, Zenon DEF Saved, SavesKept, Kept
  <2>7. OneCycle(t)
    BY <1>1, <2>2, Zenon DEF OneCycle, ScalerOf, hasScalers
  <2>8. Pairs(t)
    BY <1>1, <2>2, Zenon DEF Pairs, ScalerOf, mixedOnDisk, hasScalers
  <2>9. TornByCrash(t) /\ Fresh(t)
    BY <1>1, <2>2, Zenon DEF TornByCrash, Fresh
  <2>10. ServerInv(t)
    BY <2>3, <2>4, <2>6, <2>7, <2>8, <2>9, Zenon DEF ServerInv, AtRest
  <2> QED BY <2>1, <2>10, Zenon
<1> QED BY <1>2, <1>3, Zenon

\* The new models are swapped in.
LEMMA InstallKeeps ==
  ASSUME ServerInv(st), Install
  PROVE  ServerInv(st')
<1> DEFINE new == st.job.new
           ensemble == new["ttft_gated"] # Nil /\ new["tpot_gated"] # Nil
           mem == [f \in ModelFiles |-> IF new[f] # Nil THEN new[f] ELSE st.mem[f]]
           swapped == [st EXCEPT !.mem = mem, !.active = ensemble, !.job = noJob]
<1>1. /\ st.up = "up" /\ st.saving = <<>> /\ st.job.pc = "install"
      /\ st' = IF predictorReady(swapped) THEN savingThen(swapped, "up") ELSE swapped
  BY Zenon DEF Install, serving
<1>2. /\ TrainingShape(st) /\ Pairs(st) /\ OneCycle(st) /\ TornByCrash(st) /\ Fresh(st) /\ predictorReady(st)
      /\ DOMAIN st = TrainingFields
      /\ new["ttft_gated"] = new["tpot_gated"] /\ new["ttft_gated"] \in {Nil, st.cycle}
      /\ \A m \in Metrics : ScalerOf(st, new, m)
  <2>1. TrainingShape(st) /\ Pairs(st) /\ OneCycle(st) /\ TornByCrash(st) /\ Fresh(st) /\ Loading(st)
    BY Zenon DEF ServerInv, AtRest
  <2>2. predictorReady(st) /\ DOMAIN st = TrainingFields
    BY <1>1, <2>1, Zenon DEF Loading, TrainingShape
  <2>3. st.job.pc # "wait"
    BY <1>1
  <2> QED BY <2>1, <2>2, <2>3, Zenon DEF OneCycle
<1>3. /\ DOMAIN swapped = TrainingFields /\ swapped.mem = mem /\ swapped.active = ensemble /\ swapped.job = noJob
      /\ swapped.disk = st.disk /\ swapped.cycle = st.cycle /\ swapped.crashes = st.crashes /\ swapped.up = st.up
      /\ swapped.saving = st.saving /\ swapped.type = st.type
  BY <1>2, Zenon DEF TrainingFields
<1>4. DOMAIN mem = ModelFiles /\ \A f \in ModelFiles : mem[f] = IF new[f] # Nil THEN new[f] ELSE st.mem[f]
  BY Zenon
<1>5. ensemble => /\ mem["ttft_gated"] # Nil /\ mem["ttft_gated"] = mem["tpot_gated"]
                  /\ mem["ttft_gated"] = st.cycle
  BY <1>2, <1>4, FilesOfMetric, Zenon
<1> HIDE DEF mem, ensemble, swapped
<1>6. Pairs(swapped)
  <2> SUFFICES ASSUME NEW m \in Metrics PROVE ScalerOf(swapped, mem, m) \/ (hasScalers(swapped) /\ mixedOnDisk(swapped, m))
    BY <1>3, Zenon DEF Pairs
  <2>1. /\ m \in ModelFiles /\ scalerFile(m) \in ModelFiles /\ hasScalers(swapped) = hasScalers(st)
        /\ mem[m] = IF new[m] # Nil THEN new[m] ELSE st.mem[m]
        /\ mem[scalerFile(m)] = IF new[scalerFile(m)] # Nil THEN new[scalerFile(m)] ELSE st.mem[scalerFile(m)]
    BY <1>3, <1>4, FilesOfMetric, Zenon DEF hasScalers
  <2>2. new[scalerFile(m)] = IF hasScalers(st) THEN new[m] ELSE Nil
    BY <1>2, Zenon DEF ScalerOf
  <2>3. \/ st.mem[scalerFile(m)] = IF hasScalers(st) THEN st.mem[m] ELSE Nil
        \/ hasScalers(st) /\ mixedOnDisk(st, m)
    BY <1>2, Zenon DEF Pairs, ScalerOf
  <2>4. CASE ~hasScalers(st)
    BY <2>1, <2>2, <2>3, <2>4, Zenon DEF ScalerOf
  <2>5. CASE hasScalers(st) /\ new[m] # Nil
    BY <2>1, <2>2, <2>5, Zenon DEF ScalerOf
  <2>6. CASE hasScalers(st) /\ new[m] = Nil
    <3>1. mem[m] = st.mem[m] /\ mem[scalerFile(m)] = st.mem[scalerFile(m)]
      BY <2>1, <2>2, <2>6, Zenon
    <3>2. CASE st.mem[scalerFile(m)] = st.mem[m]
      BY <2>1, <2>6, <3>1, <3>2, Zenon DEF ScalerOf
    <3>3. CASE mixedOnDisk(st, m)
      BY <1>3, <2>1, <2>6, <3>1, <3>3, Zenon DEF mixedOnDisk
    <3> QED BY <2>3, <2>6, <3>2, <3>3, Zenon
  <2> QED BY <2>4, <2>5, <2>6, Zenon
<1>7. predictorReady(swapped)
  BY <1>2, <1>3, <1>4, FilesOfMetric, ZenonT(30) DEF predictorReady, hasScalers
<1>8. TornByCrash(swapped) /\ Fresh(swapped)
  BY <1>2, <1>3, <1>4, Zenon DEF TornByCrash, Fresh
<1>9. DOMAIN noJob = {"pc", "snap", "new"} /\ noJob.pc = "wait"
  BY Zenon DEF noJob
<1>10. TrainingShape(swapped)
  BY <1>2, <1>3, <1>4, <1>9, Zenon DEF TrainingShape
<1>11. OneCycle(swapped)
  BY <1>3, <1>5, <1>9, Zenon DEF OneCycle
<1>12. mem["ttft"] # Nil
  BY <1>3, <1>7, FilesOfMetric, Zenon DEF predictorReady
<1>13. ServerInv(savingThen(swapped, "up"))
  BY <1>1, <1>3, <1>6, <1>7, <1>8, <1>10, <1>11, <1>12, SaveBeginsKeeps, Zenon
<1> QED BY <1>1, <1>7, <1>13, Zenon

\* joblib.dump: a file is truncated.
LEMMA TruncateKeeps ==
  ASSUME NEW s, ServerInv(s), s.saving # <<>>
  PROVE  ServerInv([s EXCEPT !.disk[Head(s.saving)].whole = FALSE])
<1> DEFINE f == Head(s.saving)
           t == [s EXCEPT !.disk[f].whole = FALSE]
<1>1. /\ TrainingShape(s) /\ Loading(s) /\ Saved(s) /\ OneCycle(s) /\ TornByCrash(s) /\ Pairs(s) /\ Fresh(s)
      /\ SavesKept(s) /\ DOMAIN s = TrainingFields /\ DOMAIN s.disk = ModelFiles
  BY Zenon DEF ServerInv, AtRest, TrainingShape
<1>2. f \in ModelFiles /\ 1 \in 1..Len(s.saving) /\ s.saving[1] = f
  BY <1>1 DEF TrainingShape
<1>3. Has(s.saving, f) /\ s.up # "failed"
  BY <1>1, <1>2, Zenon DEF Has, Loading
<1>4. /\ DOMAIN t = TrainingFields /\ t.up = s.up /\ t.type = s.type /\ t.mem = s.mem /\ t.active = s.active
      /\ t.saving = s.saving /\ t.next = s.next /\ t.crashes = s.crashes /\ t.failed = s.failed
      /\ t.cycle = s.cycle /\ t.job = s.job /\ t.disk = [s.disk EXCEPT ![f] = [@ EXCEPT !.whole = FALSE]]
  BY <1>1, Zenon DEF TrainingFields
<1>5. f = Head(s.saving)
  BY Zenon
<1> HIDE DEF f, t
<1>6. /\ DOMAIN t.disk = ModelFiles /\ (\A g \in ModelFiles \ {f} : t.disk[g] = s.disk[g])
      /\ t.disk[f] = [s.disk[f] EXCEPT !.whole = FALSE]
  BY <1>1, <1>2, <1>4, Zenon
<1>7. IsFile(t.disk[f]) /\ t.disk[f].v = s.disk[f].v
  <2>1. IsFile(s.disk[f])
    BY <1>1, <1>2, Zenon DEF TrainingShape
  <2> QED BY <1>6, <2>1, Zenon DEF IsFile
<1>8. \A g \in ModelFiles : t.disk[g].v = s.disk[g].v
  BY <1>6, <1>7, Zenon
<1>9. TrainingShape(t)
  BY <1>1, <1>4, <1>6, <1>7, Zenon DEF TrainingShape
<1>10. Loading(t)
  <2>1. predictorReady(s) => predictorReady(t)
    BY <1>4, Zenon DEF predictorReady, hasScalers
  <2> QED BY <1>1, <1>3, <1>4, <2>1, Zenon DEF Loading
<1>11. Saved(t) /\ SavesKept(t)
  <2> SUFFICES ASSUME NEW g \in ModelFiles, Kept(s, g), ~s.failed \/ s.saving # <<>>, ~Has(s.saving, g)
               PROVE  t.disk[g] = [v |-> s.mem[g], whole |-> TRUE]
    <3>1. SavesKept(t)
      BY <1>1, <1>4, Zenon DEF SavesKept
    <3>2. \A g \in ModelFiles : Kept(t, g) => Kept(s, g)
      BY <1>4, Zenon DEF Kept
    <3> QED BY <1>4, <3>1, <3>2, Zenon DEF Saved
  <2>1. g # f
    BY <1>3, Zenon
  <2>2. s.disk[g] = [v |-> s.mem[g], whole |-> TRUE]
    BY <1>1, Zenon DEF Saved
  <2> QED BY <1>6, <2>1, <2>2, Zenon
<1>12. OneCycle(t)
  BY <1>1, <1>4, ZenonT(30) DEF OneCycle, ScalerOf, hasScalers
<1>13. Pairs(t)
  <2> SUFFICES ASSUME NEW m \in Metrics PROVE ScalerOf(t, t.mem, m) \/ (hasScalers(t) /\ mixedOnDisk(t, m))
    BY Zenon DEF Pairs
  <2>1. m \in ModelFiles /\ scalerFile(m) \in ModelFiles /\ hasScalers(t) = hasScalers(s)
    BY <1>4, FilesOfMetric, Zenon DEF hasScalers
  <2>2. CASE ScalerOf(s, s.mem, m)
    BY <1>4, <2>1, <2>2, Zenon DEF ScalerOf
  <2>3. CASE hasScalers(s) /\ mixedOnDisk(s, m)
    BY <1>4, <1>8, <2>1, <2>3, Zenon DEF mixedOnDisk
  <2> QED BY <1>1, <2>2, <2>3, Zenon DEF Pairs
<1>14. TornByCrash(t)
  BY <1>1, <1>4, <1>5, <1>6, ZenonT(30) DEF TornByCrash
<1>16. Fresh(t)
  BY <1>1, <1>4, <1>8, Zenon DEF Fresh
<1>15. ServerInv(t)
  BY <1>9, <1>10, <1>11, <1>12, <1>13, <1>14, <1>16, Zenon DEF ServerInv, AtRest
<1> QED BY <1>15, Zenon DEF t, f

\* joblib.dump: a file is whole again, with what is in memory.
LEMMA WrittenKeeps ==
  ASSUME NEW s, ServerInv(s), s.saving # <<>>, NEW t, DOMAIN t = TrainingFields,
         t.up = s.up, t.type = s.type, t.mem = s.mem, t.active = s.active, t.saving = Tail(s.saving), t.next = s.next,
         t.crashes = s.crashes, t.cycle = s.cycle, t.job = s.job,
         t.disk = [s.disk EXCEPT ![Head(s.saving)] = [v |-> s.mem[Head(s.saving)], whole |-> TRUE]]
  PROVE  AtRest(t) /\ SavesKept(t)
<1> DEFINE f == Head(s.saving)
           whole == [v |-> s.mem[f], whole |-> TRUE]
<1>1. /\ TrainingShape(s) /\ Saved(s) /\ OneCycle(s) /\ TornByCrash(s) /\ Pairs(s) /\ Fresh(s)
      /\ SavesKept(s) /\ DOMAIN s = TrainingFields /\ DOMAIN s.disk = ModelFiles
  BY Zenon DEF ServerInv, AtRest, TrainingShape
<1>2. s.saving \in Seq(ModelFiles) /\ f \in ModelFiles /\ 1 \in 1..Len(s.saving) /\ s.saving[1] = f
  BY <1>1 DEF TrainingShape
<1>3. Has(s.saving, f) /\ s.mem[f] # Nil
  BY <1>1, <1>2, Zenon DEF Has, SavesKept
<1>4. whole.v = s.mem[f] /\ whole.whole = TRUE /\ IsFile(whole)
  BY Zenon DEF IsFile
<1>5. \A g \in ModelFiles : Has(s.saving, g) => g = f \/ Has(Tail(s.saving), g)
  <2> SUFFICES ASSUME NEW g \in ModelFiles, NEW i \in 1..Len(s.saving), s.saving[i] = g, g # f
               PROVE  Has(Tail(s.saving), g)
    BY Zenon DEF Has
  <2>1. i - 1 \in 1..Len(Tail(s.saving)) /\ Tail(s.saving)[i - 1] = g
    BY <1>2
  <2> QED BY <2>1, Zenon DEF Has
<1>6. Tail(s.saving) \in Seq(ModelFiles)
  BY <1>2
<1>7. \A g \in ModelFiles : Has(Tail(s.saving), g) => Has(s.saving, g)
  <2> SUFFICES ASSUME NEW g \in ModelFiles, NEW i \in 1..Len(Tail(s.saving)), Tail(s.saving)[i] = g
               PROVE  Has(s.saving, g)
    BY Zenon DEF Has
  <2>1. i + 1 \in 1..Len(s.saving) /\ s.saving[i + 1] = g
    BY <1>2
  <2> QED BY <2>1, Zenon DEF Has
<1>8. f = Head(s.saving) /\ t.disk = [s.disk EXCEPT ![f] = whole]
  BY Zenon
<1> HIDE DEF f, whole
<1>9. DOMAIN t.disk = ModelFiles /\ t.disk[f] = whole /\ \A g \in ModelFiles \ {f} : t.disk[g] = s.disk[g]
  BY <1>1, <1>2, <1>8, Zenon
<1>10. TrainingShape(t)
  BY <1>1, <1>4, <1>6, <1>9, Zenon DEF TrainingShape
<1>11. SavesKept(t)
  BY <1>1, <1>7, Zenon DEF SavesKept
<1>12. Saved(t)
  <2> SUFFICES ASSUME NEW g \in ModelFiles, Kept(s, g), ~Has(Tail(s.saving), g)
               PROVE  t.disk[g] = [v |-> s.mem[g], whole |-> TRUE]
    BY Zenon DEF Saved, Kept
  <2>1. CASE g = f
    BY <1>9, <2>1, Zenon DEF whole
  <2>2. CASE g # f
    <3>1. ~Has(s.saving, g)
      BY <1>5, <2>2, Zenon
    <3>2. s.disk[g] = [v |-> s.mem[g], whole |-> TRUE]
      BY <1>1, <3>1, Zenon DEF Saved
    <3> QED BY <1>9, <2>2, <3>2, Zenon
  <2> QED BY <2>1, <2>2, Zenon
<1>13. OneCycle(t)
  BY <1>1, ZenonT(30) DEF OneCycle, ScalerOf, hasScalers
<1>14. \A g \in ModelFiles : t.disk[g].v = IF g = f THEN s.mem[g] ELSE s.disk[g].v
  BY <1>4, <1>9, Zenon
<1>15. Pairs(t)
  <2> SUFFICES ASSUME NEW m \in Metrics PROVE ScalerOf(t, t.mem, m) \/ (hasScalers(t) /\ mixedOnDisk(t, m))
    BY Zenon DEF Pairs
  <2>1. m \in ModelFiles /\ scalerFile(m) \in ModelFiles /\ hasScalers(t) = hasScalers(s)
    BY FilesOfMetric, Zenon DEF hasScalers
  <2>2. CASE ScalerOf(s, s.mem, m)
    BY <2>1, <2>2, Zenon DEF ScalerOf
  <2>3. CASE hasScalers(s) /\ mixedOnDisk(s, m)
    BY <1>14, <2>1, <2>3, Zenon DEF mixedOnDisk
  <2> QED BY <1>1, <2>2, <2>3, Zenon DEF Pairs
<1>16. TornByCrash(t)
  BY <1>1, <1>4, <1>8, <1>9, Zenon DEF TornByCrash
<1>17. Fresh(t)
  BY <1>1, <1>3, <1>14, Zenon DEF Fresh
<1> QED BY <1>10, <1>11, <1>12, <1>13, <1>15, <1>16, <1>17, Zenon DEF AtRest

\* Where a save goes on to.
LEMMA NextAfterSave ==
  ASSUME NEW s, Loading(s), s.saving # <<>>
  PROVE  /\ s.mem["ttft"] # Nil /\ s.up # "failed"
         /\ \/ s.next = "half" /\ s.mem["tpot"] = Nil /\ ~s.active /\ s.job = noJob
            \/ s.next = "up" /\ s.mem["tpot"] # Nil
<1>1. s.up = "up" => s.mem["ttft"] # Nil /\ s.mem["tpot"] # Nil
  BY FilesOfMetric, Zenon DEF Loading, predictorReady
<1> QED BY <1>1, Zenon DEF Loading

\* save_models goes on by one step: it opens a file, or has written it, and goes to the next.
LEMMA WriteFileKeeps ==
  ASSUME ServerInv(st), WriteFile
  PROVE  ServerInv(st')
<1> DEFINE f == Head(st.saving)
           whole == [v |-> st.mem[f], whole |-> TRUE]
           done == [st EXCEPT !.disk[f] = whole, !.saving = Tail(@)]
           last == [done EXCEPT !.failed = FALSE]
<1>1. Loading(st) /\ st.saving # <<>> /\ DOMAIN st = TrainingFields /\ DOMAIN st.disk = ModelFiles
  BY Zenon DEF ServerInv, AtRest, TrainingShape, WriteFile
<1>2. \/ st' = [st EXCEPT !.disk[f].whole = FALSE]
      \/ done.saving = <<>> /\ st' = goesOn(last, st.next)
      \/ done.saving # <<>> /\ st' = done
  BY Zenon DEF WriteFile
<1>3. CASE st' = [st EXCEPT !.disk[f].whole = FALSE]
  BY <1>1, <1>3, TruncateKeeps, Zenon
<1>4. /\ DOMAIN done = TrainingFields /\ done.up = st.up /\ done.type = st.type /\ done.mem = st.mem
      /\ done.active = st.active /\ done.saving = Tail(st.saving) /\ done.next = st.next
      /\ done.crashes = st.crashes /\ done.failed = st.failed /\ done.cycle = st.cycle /\ done.job = st.job
      /\ done.disk = [st.disk EXCEPT ![f] = whole]
  BY <1>1, Zenon DEF TrainingFields
<1> HIDE DEF done
<1>5. CASE done.saving # <<>> /\ st' = done
  <2>1. AtRest(done) /\ SavesKept(done)
    BY <1>1, <1>4, WrittenKeeps, Zenon
  <2>2. Loading(done)
    <3>1. predictorReady(st) => predictorReady(done)
      BY <1>4, Zenon DEF predictorReady, hasScalers
    <3>2. st.up # "failed"
      BY <1>1, Zenon DEF Loading
    <3> QED BY <1>1, <1>4, <1>5, <3>1, <3>2, Zenon DEF Loading
  <2> QED BY <1>5, <2>1, <2>2, Zenon DEF ServerInv
<1>6. CASE done.saving = <<>> /\ st' = goesOn(last, st.next)
  <2>1. /\ DOMAIN last = TrainingFields /\ last.up = st.up /\ last.type = st.type /\ last.mem = st.mem
        /\ last.active = st.active /\ last.saving = Tail(st.saving) /\ last.next = st.next
        /\ last.crashes = st.crashes /\ last.cycle = st.cycle /\ last.job = st.job
        /\ last.disk = [st.disk EXCEPT ![f] = whole]
    BY <1>4, Zenon DEF TrainingFields
  <2> HIDE DEF last
  <2>2. AtRest(last)
    BY <1>1, <2>1, WrittenKeeps, Zenon
  <2>3. ServerInv(goesOn(last, st.next))
    <3>1. /\ st.mem["ttft"] # Nil
          /\ \/ st.next = "half" /\ st.mem["tpot"] = Nil /\ ~st.active /\ st.job = noJob
             \/ st.next = "up" /\ st.mem["tpot"] # Nil
      BY <1>1, NextAfterSave, Zenon
    <3>2. last.saving = <<>>
      BY <1>4, <1>6, <2>1, Zenon
    <3> QED BY <2>1, <2>2, <3>1, <3>2, GoesOnKeeps, Zenon
  <2> QED BY <1>6, <2>3, Zenon
<1> QED BY <1>2, <1>3, <1>5, <1>6, Zenon

\* An I/O error ends the save; memory and disk may differ from now on.
LEMMA SaveFailsKeeps ==
  ASSUME ServerInv(st), SaveFails
  PROVE  ServerInv(st')
<1> DEFINE s == [st EXCEPT !.saving = <<>>, !.failed = TRUE, !.crashes = @ + 1]
<1>1. /\ TrainingShape(st) /\ Loading(st) /\ OneCycle(st) /\ TornByCrash(st) /\ Pairs(st)
      /\ DOMAIN st = TrainingFields /\ st.crashes \in Nat
  BY Zenon DEF ServerInv, AtRest, TrainingShape
<1>2. st.saving # <<>> /\ st' = goesOn(s, st.next)
  BY Zenon DEF SaveFails
<1>3. /\ DOMAIN s = TrainingFields /\ s.up = st.up /\ s.type = st.type /\ s.mem = st.mem /\ s.active = st.active
      /\ s.saving = <<>> /\ s.next = st.next /\ s.crashes = st.crashes + 1 /\ s.failed = TRUE
      /\ s.cycle = st.cycle /\ s.job = st.job /\ s.disk = st.disk
  BY <1>1, Zenon DEF TrainingFields
<1> HIDE DEF s
<1>4. s.crashes \in Nat /\ s.crashes > 0 /\ s.crashes # 0 /\ <<>> \in Seq(ModelFiles)
  BY <1>1, <1>3
<1>5. TrainingShape(s)
  BY <1>1, <1>3, <1>4, Zenon DEF TrainingShape
<1>6. Saved(s) /\ TornByCrash(s) /\ Fresh(s)
  BY <1>3, <1>4, Zenon DEF Saved, TornByCrash, Fresh
<1>7. OneCycle(s)
  BY <1>1, <1>3, ZenonT(30) DEF OneCycle, ScalerOf, hasScalers
<1>8. Pairs(s)
  BY <1>1, <1>3, <1>4, Zenon DEF Pairs, ScalerOf, mixedOnDisk, hasScalers
<1>9. AtRest(s)
  BY <1>5, <1>6, <1>7, <1>8, Zenon DEF AtRest
<1>10. ServerInv(goesOn(s, st.next))
  <2>1. /\ st.mem["ttft"] # Nil
        /\ \/ st.next = "half" /\ st.mem["tpot"] = Nil /\ ~st.active /\ st.job = noJob
           \/ st.next = "up" /\ st.mem["tpot"] # Nil
    BY <1>1, <1>2, NextAfterSave, Zenon
  <2> QED BY <1>3, <1>9, <2>1, GoesOnKeeps, Zenon
<1> QED BY <1>2, <1>10, Zenon

\* A process that is killed forgets its models, and may leave the file it is writing torn.
LEMMA KilledKeeps ==
  ASSUME ServerInv(st), Killed
  PROVE  ServerInv(st')
<1> DEFINE d == downWith(st)
<1>1. TrainingShape(st) /\ DOMAIN st = TrainingFields /\ st.crashes \in Nat
  BY Zenon DEF ServerInv, AtRest, TrainingShape
<1>2. st' = [d EXCEPT !.crashes = @ + 1]
  BY Zenon DEF Killed
<1>3. /\ DOMAIN d = TrainingFields /\ d.up = "down" /\ d.mem = noModels
      /\ d.active = FALSE /\ d.saving = <<>> /\ d.cycle = st.cycle
      /\ d.disk = st.disk /\ d.job = noJob /\ d.crashes = st.crashes
  BY <1>1, DownWith, Zenon
<1> HIDE DEF d
<1>4. /\ DOMAIN st' = TrainingFields /\ st'.up = "down" /\ st'.mem = noModels
      /\ st'.active = FALSE /\ st'.saving = <<>> /\ st'.cycle = st.cycle
      /\ st'.disk = st.disk /\ st'.job = noJob /\ st'.crashes = st.crashes + 1
  BY <1>2, <1>3, Zenon DEF TrainingFields
<1>5. st'.crashes \in Nat /\ st'.crashes > 0
  BY <1>1, <1>4
<1>6. "down" # "failed"
  OBVIOUS
<1> QED BY <1>1, <1>4, <1>5, <1>6, DownKeeps, Zenon

\* A server that could not start is started again.
LEMMA StartAgainKeeps ==
  ASSUME ServerInv(st), StartAgain
  PROVE  ServerInv(st')
<1>1. /\ TrainingShape(st) /\ Loading(st) /\ DOMAIN st = TrainingFields /\ st.crashes \in Nat
  BY Zenon DEF ServerInv, AtRest, TrainingShape
<1>2. st.up = "failed" /\ st' = [st EXCEPT !.up = "down"]
  BY Zenon DEF StartAgain
<1>3. st.saving = <<>> /\ st.mem = noModels /\ st.crashes > 0 /\ ~st.active /\ st.job = noJob
  BY <1>1, <1>2, Zenon DEF Loading, interruptedSave
<1>4. /\ DOMAIN st' = TrainingFields /\ st'.up = "down" /\ st'.mem = st.mem /\ st'.active = st.active
      /\ st'.saving = st.saving /\ st'.crashes = st.crashes /\ st'.failed = st.failed
      /\ st'.cycle = st.cycle /\ st'.job = st.job /\ st'.disk = st.disk /\ st'.type = st.type
  BY <1>1, <1>2, Zenon DEF TrainingFields
<1>5. st'.up \in {"down", "failed"} /\ st'.up # "failed"
  BY <1>4
<1> QED BY <1>1, <1>3, <1>4, <1>5, DownKeeps, Zenon

\* load_models: one of the two models, and its scaler.
LEMMA LoadKeeps ==
  ASSUME ServerInv(st), LoadTTFT \/ LoadTPOT
  PROVE  ServerInv(st')
<1>1. /\ AtRest(st) /\ TrainingShape(st) /\ Loading(st) /\ Saved(st) /\ OneCycle(st) /\ TornByCrash(st) /\ Pairs(st) /\ Fresh(st)
      /\ DOMAIN st = TrainingFields /\ DOMAIN st.mem = ModelFiles /\ DOMAIN st.disk = ModelFiles
      /\ \A g \in ModelFiles : IsFile(st.disk[g])
  BY Zenon DEF ServerInv, AtRest, TrainingShape
<1> DEFINE At(m, next) == \/ st.up = "down" /\ m = "ttft" /\ next = "half"
                          \/ st.up = "half" /\ m = "tpot" /\ next = "up"
<1>2. PICK m, next : st' = loadModel(m, next) /\ st.saving = <<>> /\ At(m, next)
  <2>1. CASE LoadTTFT
    <3>1. st.up = "down" /\ st.saving = <<>> /\ st' = loadModel("ttft", "half")
      BY <2>1, Zenon DEF LoadTTFT
    <3>2. At("ttft", "half")
      BY <3>1, Zenon
    <3> HIDE DEF At
    <3> QED BY <3>1, <3>2, Zenon
  <2>2. CASE LoadTPOT
    <3>1. st.up = "half" /\ st.saving = <<>> /\ st' = loadModel("tpot", "up")
      BY <2>2, Zenon DEF LoadTPOT
    <3>2. At("tpot", "up")
      BY <3>1, Zenon
    <3> HIDE DEF At
    <3> QED BY <3>1, <3>2, Zenon
  <2> QED BY <2>1, <2>2, Zenon
<1> DEFINE f == scalerFile(m)
           model == st.disk[m]
           scaler == st.disk[f]
<1>3. /\ m \in Metrics /\ m \in ModelFiles /\ f \in ModelFiles /\ m # f /\ ~st.active /\ st.job = noJob /\ st.mem[m] = Nil
      /\ next = "up" => st.mem["ttft"] # Nil
      /\ next = "half" => st.mem["tpot"] = Nil
      /\ {m, f} \cap {"ttft_gated", "tpot_gated"} = {}
  <2>1. m \in Metrics /\ ~st.active /\ st.job = noJob /\ st.mem[m] = Nil
    BY <1>1, <1>2, FilesOfMetric, Zenon DEF Loading
  <2>2. (next = "up" => st.mem["ttft"] # Nil) /\ (next = "half" => st.mem["tpot"] = Nil)
    BY <1>1, <1>2, Zenon DEF Loading
  <2> QED BY <2>1, <2>2, FilesOfMetric, Zenon
<1>4. (m = "ttft" /\ next = "half") \/ (m = "tpot" /\ next = "up")
  BY <1>2, Zenon
<1>9. noJob.pc = "wait"
  BY Zenon DEF noJob
<1>5. \A g \in ModelFiles : ~st.disk[g].whole => st.crashes > 0
  BY <1>1, <1>2, Zenon DEF TornByCrash
<1>6. CASE ~model.whole \/ (model.v # Nil /\ hasScalers(st) /\ ~scaler.whole)
  <2>1. st' = cannotStart(st)
    BY <1>2, <1>6, Zenon DEF loadModel
  <2>2. interruptedSave(st)
    BY <1>3, <1>5, <1>6, Zenon DEF interruptedSave
  <2> QED BY <1>1, <2>1, <2>2, CannotStartKeeps, Zenon
<1>7. CASE ~(~model.whole \/ (model.v # Nil /\ hasScalers(st) /\ ~scaler.whole)) /\ model.v # Nil
  <2> DEFINE sv == IF hasScalers(st) THEN scaler.v ELSE Nil
             mem == [st.mem EXCEPT ![m] = model.v, ![f] = sv]
             s == [st EXCEPT !.mem = mem]
  <2>1. st' = goesOn(s, next)
    BY <1>2, <1>7, Zenon DEF loadModel
  <2>2. /\ DOMAIN s = TrainingFields /\ s.up = st.up /\ s.type = st.type /\ s.mem = mem
        /\ s.active = st.active /\ s.saving = <<>> /\ s.next = st.next /\ s.crashes = st.crashes
        /\ s.failed = st.failed /\ s.cycle = st.cycle /\ s.job = st.job /\ s.disk = st.disk
    BY <1>1, <1>2, Zenon DEF TrainingFields
  <2> HIDE DEF s
  <2>3. /\ DOMAIN mem = ModelFiles /\ mem[m] = model.v /\ mem[f] = sv
        /\ \A g \in ModelFiles \ {m, f} : mem[g] = st.mem[g]
    BY <1>1, <1>3, Zenon
  <2> HIDE DEF mem
  <2>4. st.crashes > 0
    <3>1. st.crashes # 0
      BY <1>1, <1>3, <1>7, Zenon DEF Fresh
    <3>2. st.crashes \in Nat
      BY <1>1, Zenon DEF TrainingShape
    <3> QED BY <3>1, <3>2
  <2>5. TrainingShape(s)
    BY <1>1, <1>2, <2>2, <2>3, Zenon DEF TrainingShape
  <2>6. OneCycle(s)
    BY <1>3, <1>9, <2>2, Zenon DEF OneCycle
  <2>7. TornByCrash(s) /\ Fresh(s)
    <3>1. s.crashes > 0 /\ s.crashes # 0
      BY <2>2, <2>4
    <3> QED BY <3>1, Zenon DEF TornByCrash, Fresh
  <2>8. Pairs(s)
    <3> SUFFICES ASSUME NEW n \in Metrics PROVE ScalerOf(s, mem, n) \/ (hasScalers(s) /\ mixedOnDisk(s, n))
      BY <2>2, Zenon DEF Pairs
    <3>1. hasScalers(s) = hasScalers(st) /\ n \in ModelFiles /\ scalerFile(n) \in ModelFiles
      BY <2>2, FilesOfMetric, Zenon DEF hasScalers
    <3>2. CASE n = m
      <4>1. CASE hasScalers(st)
        BY <2>2, <2>3, <2>4, <3>1, <3>2, <4>1, Zenon DEF mixedOnDisk
      <4>2. CASE ~hasScalers(st)
        BY <2>3, <3>1, <3>2, <4>2, Zenon DEF ScalerOf
      <4> QED BY <4>1, <4>2, Zenon
    <3>3. CASE n # m
      <4>1. mem[n] = st.mem[n] /\ mem[scalerFile(n)] = st.mem[scalerFile(n)]
        <5>1. n # f /\ scalerFile(n) # m /\ scalerFile(n) # f
          BY <1>3, <3>3, FilesOfMetric, Zenon
        <5> HIDE DEF f
        <5> QED BY <2>3, <3>1, <3>3, <5>1, Zenon
      <4>2. ScalerOf(st, st.mem, n) \/ (hasScalers(st) /\ mixedOnDisk(st, n))
        BY <1>1, Zenon DEF Pairs
      <4>3. CASE ScalerOf(st, st.mem, n)
        BY <3>1, <4>1, <4>3, Zenon DEF ScalerOf
      <4>4. CASE hasScalers(st) /\ mixedOnDisk(st, n)
        BY <2>2, <3>1, <4>1, <4>4, Zenon DEF mixedOnDisk
      <4> QED BY <4>2, <4>3, <4>4, Zenon
    <3> QED BY <3>2, <3>3, Zenon
  <2>9. Saved(s)
    <3> SUFFICES ASSUME NEW g \in ModelFiles, Kept(s, g), ~st.failed, ~Has(<<>>, g)
                 PROVE  st.disk[g] = [v |-> mem[g], whole |-> TRUE]
      BY <2>2, Zenon DEF Saved
    <3>1. CASE g \notin {m, f}
      <4>1. Kept(st, g) /\ mem[g] = st.mem[g]
        BY <2>2, <2>3, <3>1, Zenon DEF Kept
      <4> QED BY <1>1, <1>2, <4>1, Zenon DEF Saved
    <3>2. CASE g = m
      <4>1. IsFile(model) /\ model.whole
        BY <1>1, <1>3, <1>7, Zenon
      <4> HIDE DEF model
      <4>2. model = [v |-> model.v, whole |-> TRUE]
        BY <4>1, Zenon DEF IsFile
      <4> QED BY <2>3, <3>2, <4>2, Zenon DEF model
    <3>3. CASE g = f
      <4>1. sv # Nil
        BY <2>2, <2>3, <3>3, Zenon DEF Kept
      <4>2. IsFile(scaler) /\ scaler.whole /\ sv = scaler.v
        BY <1>1, <1>3, <1>7, <4>1, Zenon
      <4> HIDE DEF scaler, sv
      <4>3. scaler = [v |-> scaler.v, whole |-> TRUE]
        BY <4>2, Zenon DEF IsFile
      <4> QED BY <2>3, <3>3, <4>2, <4>3, Zenon DEF scaler
    <3> QED BY <3>1, <3>2, <3>3, Zenon
  <2>10. AtRest(s)
    BY <2>5, <2>6, <2>7, <2>8, <2>9, Zenon DEF AtRest
  <2>11. mem["ttft"] # Nil /\ (next = "half" => mem["tpot"] = Nil) /\ (next = "up" => mem["tpot"] # Nil)
    <3>1. f # "ttft" /\ f # "tpot" /\ "ttft" \in ModelFiles /\ "tpot" \in ModelFiles
      BY <1>3, FilesOfMetric, Zenon
    <3> HIDE DEF f, model, scaler, sv
    <3>2. model.v # Nil
      BY <1>7, Zenon
    <3>3. CASE m = "ttft"
      BY <1>3, <1>4, <2>3, <3>1, <3>2, <3>3, Zenon
    <3>4. CASE m = "tpot"
      BY <1>3, <1>4, <2>3, <3>1, <3>2, <3>4, Zenon
    <3> QED BY <1>4, <3>3, <3>4, Zenon
  <2>12. ServerInv(goesOn(s, next))
    BY <1>3, <1>4, <2>2, <2>10, <2>11, GoesOnKeeps, Zenon
  <2> QED BY <2>1, <2>12, Zenon
<1>8. CASE model.whole /\ model.v = Nil
  <2> DEFINE mem == withModel(st.mem, m, 0)
             s == [st EXCEPT !.mem = mem, !.min = MinRetrainFresh]
  <2>1. st' = savingThen(s, next)
    BY <1>2, <1>8, Zenon DEF loadModel
  <2>2. /\ DOMAIN s = TrainingFields /\ s.up = st.up /\ s.type = st.type /\ s.mem = mem
        /\ s.active = st.active /\ s.saving = <<>> /\ s.crashes = st.crashes
        /\ s.cycle = st.cycle /\ s.job = st.job /\ s.disk = st.disk
    BY <1>1, <1>2, Zenon DEF TrainingFields
  <2> HIDE DEF s
  <2>3. /\ DOMAIN mem = ModelFiles /\ mem[m] = 0 /\ mem[f] = IF hasScalers(st) THEN 0 ELSE Nil
        /\ \A g \in ModelFiles \ {m, f} : mem[g] = st.mem[g]
    BY <1>1, <1>3, WithModel
  <2> HIDE DEF mem
  <2>4. TrainingShape(s)
    BY <1>1, <1>2, <2>2, <2>3, Zenon DEF TrainingShape
  <2>5. OneCycle(s)
    BY <1>3, <1>9, <2>2, Zenon DEF OneCycle
  <2>6. TornByCrash(s)
    BY <1>1, <1>2, <2>2, Zenon DEF TornByCrash
  <2>7. 0 # Nil
    BY NilAssumption
  <2>8. Pairs(s)
    <3> SUFFICES ASSUME NEW n \in Metrics PROVE ScalerOf(s, mem, n) \/ (hasScalers(s) /\ mixedOnDisk(s, n))
      BY <2>2, Zenon DEF Pairs
    <3>1. hasScalers(s) = hasScalers(st) /\ n \in ModelFiles /\ scalerFile(n) \in ModelFiles
      BY <2>2, FilesOfMetric, Zenon DEF hasScalers
    <3>2. CASE n = m
      BY <2>3, <3>1, <3>2, Zenon DEF ScalerOf
    <3>3. CASE n # m
      <4>1. mem[n] = st.mem[n] /\ mem[scalerFile(n)] = st.mem[scalerFile(n)]
        <5>1. n # f /\ scalerFile(n) # m /\ scalerFile(n) # f
          BY <1>3, <3>3, FilesOfMetric, Zenon
        <5> HIDE DEF f
        <5> QED BY <2>3, <3>1, <3>3, <5>1, Zenon
      <4>2. ScalerOf(st, st.mem, n) \/ (hasScalers(st) /\ mixedOnDisk(st, n))
        BY <1>1, Zenon DEF Pairs
      <4>3. CASE ScalerOf(st, st.mem, n)
        BY <3>1, <4>1, <4>3, Zenon DEF ScalerOf
      <4>4. CASE hasScalers(st) /\ mixedOnDisk(st, n)
        BY <2>2, <3>1, <4>1, <4>4, Zenon DEF mixedOnDisk
      <4> QED BY <4>2, <4>3, <4>4, Zenon
    <3> QED BY <3>2, <3>3, Zenon
  <2>9. Fresh(s)
    <3> SUFFICES ASSUME NEW g \in ModelFiles, st.crashes = 0, mem[g] = Nil PROVE st.disk[g].v = Nil
      BY <2>2, Zenon DEF Fresh
    <3>1. st.mem[g] = Nil
      <4>1. g # m
        BY <2>3, <2>7, Zenon
      <4>2. CASE g = f
        <5>1. ~hasScalers(st)
          BY <2>3, <2>7, <4>2, Zenon
        <5> QED BY <1>1, <1>3, <4>2, <5>1, Zenon DEF Pairs, ScalerOf
      <4>3. CASE g # f
        BY <2>3, <4>1, <4>3, Zenon
      <4> QED BY <4>2, <4>3, Zenon
    <3> QED BY <1>1, <3>1, Zenon DEF Fresh
  <2>10. mem["ttft"] # Nil /\ (next = "half" => mem["tpot"] = Nil) /\ (next = "up" => mem["tpot"] # Nil)
    <3>1. f # "ttft" /\ f # "tpot" /\ "ttft" \in ModelFiles /\ "tpot" \in ModelFiles
      BY <1>3, FilesOfMetric, Zenon
    <3> HIDE DEF f
    <3>3. CASE m = "ttft"
      BY <1>3, <1>4, <2>3, <2>7, <3>1, <3>3, Zenon
    <3>4. CASE m = "tpot"
      BY <1>3, <1>4, <2>3, <2>7, <3>1, <3>4, Zenon
    <3> QED BY <1>4, <3>3, <3>4, Zenon
  <2>11. \/ s.up = "down" /\ next = "half" /\ mem["tpot"] = Nil /\ ~s.active /\ s.job = noJob
         \/ s.up = "half" /\ next = "up" /\ mem["tpot"] # Nil /\ ~s.active /\ s.job = noJob
    BY <1>2, <1>3, <2>2, <2>10, Zenon
  <2>12. ServerInv(savingThen(s, next))
    BY <2>2, <2>4, <2>5, <2>6, <2>8, <2>9, <2>10, <2>11, SaveBeginsKeeps, Zenon
  <2> QED BY <2>1, <2>12, Zenon
<1> QED BY <1>6, <1>7, <1>8, Zenon

-----------------------------------------------------------------------------
\* The server starts with an empty disk.
LEMMA TrainingStarts ==
  ASSUME part = "training", TrainingServerInit
  PROVE  TrainingInv
<1> DEFINE d == [v |-> Nil, whole |-> TRUE]
<1>1. /\ DOMAIN st = TrainingFields /\ st.up = "down" /\ st.mem = noModels /\ st.active = FALSE /\ st.job = noJob
      /\ st.disk = [f \in ModelFiles |-> d] /\ st.saving = <<>>
      /\ st.cycle = 0 /\ st.crashes = 0 /\ st.failed = FALSE
  <2>1. PICK type \in ModelTypes :
          st = [up |-> "down", type |-> type, data |-> noData, test |-> noTestData, scores |-> [m \in Metrics |-> 0],
                mem |-> noModels, active |-> FALSE, min |-> MinRetrain, job |-> noJob,
                disk |-> [f \in ModelFiles |-> d], saving |-> <<>>, next |-> Nil,
                cycle |-> 0, crashes |-> 0, flushes |-> 0, failed |-> FALSE]
    BY Zenon DEF TrainingServerInit
  <2> HIDE DEF d
  <2> QED BY <2>1, Zenon DEF TrainingFields
<1>2. /\ DOMAIN noModels = ModelFiles /\ (\A f \in ModelFiles : noModels[f] = Nil) /\ noModels["ttft"] = Nil
      /\ noModels["tpot"] = Nil
  BY FilesOfMetric, Zenon DEF noModels
<1>3. DOMAIN noJob = {"pc", "snap", "new"} /\ noJob.pc = "wait"
  BY Zenon DEF noJob
<1>4. IsFile(d) /\ d.whole /\ d.v = Nil
  BY Zenon DEF IsFile
<1>5. DOMAIN st.disk = ModelFiles /\ \A f \in ModelFiles : st.disk[f] = d
  BY <1>1, Zenon
<1> HIDE DEF d
<1>6. <<>> \in Seq(ModelFiles) /\ 0 \in Nat /\ \A f : ~Has(<<>>, f)
  BY DEF Has
<1>7. TrainingShape(st)
  BY <1>1, <1>2, <1>3, <1>4, <1>5, <1>6, Zenon DEF TrainingShape
<1>8. Loading(st)
  BY <1>1, <1>2, Zenon DEF Loading
<1>9. OneCycle(st)
  BY <1>1, <1>3, Zenon DEF OneCycle
<1>10. Saved(st) /\ SavesKept(st)
  BY <1>1, <1>2, <1>6, Zenon DEF Saved, SavesKept, Kept
<1>11. TornByCrash(st) /\ Fresh(st)
  BY <1>4, <1>5, Zenon DEF TornByCrash, Fresh
<1>12. Pairs(st)
  BY <1>1, <1>2, FilesOfMetric, Zenon DEF Pairs, ScalerOf
<1> QED BY <1>7, <1>8, <1>9, <1>10, <1>11, <1>12, Zenon DEF TrainingInv, ServerInv, AtRest

\* Every step keeps the invariant.
LEMMA TrainingStep ==
  ASSUME TrainingInv, [UNCHANGED part /\ TrainingServerNext]_<<part, st>>
  PROVE  TrainingInv'
<1>1. ServerInv(st) /\ part = "training"
  BY Zenon DEF TrainingInv
<1>2. CASE UNCHANGED <<part, st>>
  <2>1. part' = part /\ st' = st
    BY <1>2, Zenon
  <2> QED BY <1>1, <2>1, Zenon DEF TrainingInv
<1>3. CASE part' = part /\ TrainingServerNext
  <2>1. ServerInv(st')
    BY <1>1, <1>3, SamplesKeep, TrainBeginsKeeps, FitKeeps, InstallKeeps, WriteFileKeeps, SaveFailsKeeps, LoadKeeps,
       KilledKeeps, StartAgainKeeps, Zenon DEF TrainingServerNext
  <2> QED BY <1>1, <1>3, <2>1, Zenon DEF TrainingInv
<1> QED BY <1>2, <1>3, Zenon

\* The invariant says what TrainingServerSound says.
LEMMA TrainingInvSound ==
  ASSUME TrainingInv
  PROVE  TrainingServerSound
<1>1. Loading(st) /\ Saved(st) /\ OneCycle(st) /\ Pairs(st)
  BY Zenon DEF TrainingInv, ServerInv, AtRest
<1>2. ASSUME serving, ~st.failed, NEW f \in ModelFiles, st.mem[f] # Nil, f \in {"ttft_gated", "tpot_gated"} => st.active
      PROVE  st.disk[f] = [v |-> st.mem[f], whole |-> TRUE]
  <2>1. ~Has(st.saving, f)
    BY <1>2 DEF serving, Has
  <2> QED BY <1>1, <1>2, <2>1, Zenon DEF Saved, Kept
<1>3. hasScalers(st) => \A m \in Metrics : st.mem[scalerFile(m)] = st.mem[m] \/ mixedOnDisk(st, m)
  BY <1>1, Zenon DEF Pairs, ScalerOf
<1>4. st.active => /\ st.mem["ttft_gated"] = st.mem["tpot_gated"]
                   /\ st.mem["ttft_gated"] = IF st.job = noJob THEN st.cycle ELSE st.cycle - 1
  BY <1>1, Zenon DEF OneCycle
<1>5. (st.up = "up" => predictorReady(st)) /\ (st.up = "failed" => interruptedSave(st))
  BY <1>1, Zenon DEF Loading
<1> QED BY <1>2, <1>3, <1>4, <1>5, Zenon DEF TrainingServerSound

(***************************************************************************)
(* The training server serves what a restart would serve, a model with the *)
(* scaler of its fit and an ensemble of one cycle, and only an interrupted *)
(* save can keep it from starting or mix a model with another's scaler:    *)
(* for any samples, thresholds and model types, and however often it is    *)
(* killed or fails to write.                                               *)
(***************************************************************************)
THEOREM TrainingServerIsSound == TrainingSpec => []TrainingServerSound
<1>1. part = "training" /\ TrainingServerInit => TrainingInv
  BY TrainingStarts, Zenon
<1>2. TrainingInv /\ [UNCHANGED part /\ TrainingServerNext]_<<part, st>> => TrainingInv'
  BY TrainingStep, Zenon
<1>3. TrainingInv => TrainingServerSound
  BY TrainingInvSound, Zenon
<1> QED BY <1>1, <1>2, <1>3, PTL DEF TrainingSpec

-----------------------------------------------------------------------------
(* The models of the prediction server's workers.                          *)

ModelSyncSpec ==
  part = "modelsync" /\ ModelSyncInit /\ [][UNCHANGED part /\ ModelSyncNext]_<<part, st>>

SyncFields ==
  {"run", "server", "save", "saving", "newer", "local", "loaded", "sums", "lock", "started", "threads",
   "lost", "passed", "torn", "failed"}
ThreadFields == {"pc", "i", "got", "updated", "sums", "new", "stale"}

ThreadShape(th) ==
  /\ DOMAIN th = ThreadFields
  /\ th.pc \in {"idle", "sync", "get", "sums", "load"}
  /\ th.i \in Nat /\ th.updated \in BOOLEAN

SyncShape ==
  /\ DOMAIN st = SyncFields /\ st.run \in SyncScenarios
  /\ DOMAIN st.local = fileSet /\ DOMAIN st.newer = fileSet /\ DOMAIN st.lost = fileSet
  /\ DOMAIN st.server = fileSet
  /\ \A f \in fileSet : DOMAIN st.server[f] = {"v", "whole"}
  /\ DOMAIN st.loaded = st.run.workers /\ DOMAIN st.sums = st.run.workers
  /\ DOMAIN st.passed = st.run.workers /\ DOMAIN st.torn = st.run.workers /\ DOMAIN st.failed = st.run.workers
  /\ DOMAIN st.started = st.run.workers /\ DOMAIN st.lock = st.run.workers
  /\ DOMAIN st.threads = SyncThreads
  /\ \A t \in SyncThreads : ThreadShape(st.threads[t])
  /\ st.saving \in Seq(fileSet)

\* The files whose checksum a thread has read, and those it has loaded.
FirstFiles(n) == {files[j] : j \in 1..n}
ReadFiles(th) == FirstFiles(th.i - 1)
LoadedFiles(th) == {toLoad(th)[j] : j \in 1..(th.i - 1)}

\* What it has loaded: the files in order, or the base ones and not all of the gated ones, when
\* one of these could not be read.
LoadsInOrder(th) == DOMAIN th.new = LoadedFiles(th)
WithoutGated(th) ==
  /\ th.i = Len(toLoad(th)) + 1 /\ gatedFiles \subseteq DOMAIN th.sums
  /\ baseFiles \subseteq DOMAIN th.new /\ DOMAIN th.new \subseteq fileSet

\* A thread goes through the files in order.  What it has read or loaded of a
\* file is the local file, or the file was replaced since.
ThreadOK(t) ==
  LET th == st.threads[t] IN
  /\ th.pc \in {"sync", "get", "sums"} => th.i \in 1..Len(files)
  /\ th.pc \in {"sums", "load"} =>
       \A f \in DOMAIN th.sums : f \in fileSet /\ localFile(f) # Nil
  /\ th.pc = "sums" =>
       /\ DOMAIN th.new = {}
       /\ DOMAIN th.sums \subseteq ReadFiles(th)
       /\ \A f \in ReadFiles(th) : Lookup(th.sums, f, Nil) = localFile(f) \/ f \in th.stale
       /\ \A b \in baseFiles : b \in ReadFiles(th) => b \in DOMAIN th.sums
  /\ th.pc = "load" =>
       /\ th.i \in 1..(Len(toLoad(th)) + 1)
       /\ baseFiles \subseteq DOMAIN th.sums
       /\ LoadsInOrder(th) \/ WithoutGated(th)
       /\ \A f \in fileSet : Lookup(th.sums, f, Nil) = localFile(f) \/ f \in th.stale
       /\ \A f \in DOMAIN th.new : th.new[f] = localFile(f) \/ f \in th.stale

\* A thread that is going to notice what f is now.
Notices(t, f) ==
  LET th == st.threads[t] IN
  \/ th.pc \in {"sync", "get"} /\ th.updated
  \/ th.pc = "sums" /\ (f \notin ReadFiles(th) \/ Lookup(th.sums, f, Nil) = localFile(f))
  \/ th.pc = "load"

\* What a worker has of f, by its model or by its checksum, is the local file,
\* or one of its threads will notice, or nobody will.
FollowsFile(w, f) ==
  \/ Lookup(st.loaded[w], f, Nil) = localFile(f)
  \/ Lookup(st.sums[w], f, Nil) = localFile(f)
  \/ f \in st.passed[w]
  \/ \E k \in {"main", "loop"} : Notices(<<w, k>>, f)

NothingLoaded(w) == DOMAIN st.loaded[w] = {} /\ DOMAIN st.sums[w] = {}

FollowsFiles(w) ==
  \/ \A f \in fileSet : FollowsFile(w, f) \/ f \in st.failed[w]
  \/ NothingLoaded(w) /\ \E b \in baseFiles : FollowsFile(w, b)

\* The models of a worker are those of its checksums, but for files replaced
\* under the load, for the gated ones when one was missing, and for gated ones
\* that could not be read.
LoadedBySums(w) ==
  \/ NothingLoaded(w)
  \/ /\ baseFiles \subseteq DOMAIN st.loaded[w]
     /\ \A b \in baseFiles : localFile(b) # Nil
     /\ \A f \in fileSet :
          \/ Lookup(st.loaded[w], f, Nil) = Lookup(st.sums[w], f, Nil)
          \/ f \in st.torn[w]
          \/ /\ f \in gatedFiles /\ f \notin DOMAIN st.loaded[w]
             /\ \E g \in gatedFiles : g \notin DOMAIN st.loaded[w] /\ g \notin DOMAIN st.sums[w]
          \/ f \in gatedFiles /\ f \in st.failed[w]

\* A checksum is that of a file that is there; and where a load has failed, every file with a
\* checksum and no model is one that was left behind.
FailuresKnown(w) ==
  /\ \A f \in DOMAIN st.sums[w] : f \in fileSet /\ localFile(f) # Nil
  /\ st.failed[w] # {} =>
       \A f \in DOMAIN st.sums[w] : f \notin DOMAIN st.loaded[w] => f \in st.failed[w]

SyncInv ==
  /\ part = "modelsync" /\ SyncShape
  /\ \A t \in SyncThreads : ThreadOK(t)
  /\ \A w \in st.run.workers : LoadedBySums(w) /\ FailuresKnown(w) /\ FollowsFiles(w)
  /\ LocalFilesFollow

-----------------------------------------------------------------------------
\* The elements of a sequence and of a concatenation.
LEMMA ConcatRange ==
  ASSUME NEW A, NEW B, NEW a \in Seq(A), NEW b \in Seq(B)
  PROVE  Range(a \o b) = Range(a) \cup Range(b)
<1>1. Len(a) \in Nat /\ Len(b) \in Nat /\ DOMAIN a = 1..Len(a) /\ DOMAIN b = 1..Len(b)
  OBVIOUS
<1>2. a \in Seq(A \cup B) /\ b \in Seq(A \cup B)
  OBVIOUS
<1> DEFINE c == a \o b
<1>3. DOMAIN c = 1..(Len(a) + Len(b))
  BY <1>1, <1>2
<1>4. \A j \in 1..(Len(a) + Len(b)) : c[j] = IF j <= Len(a) THEN a[j] ELSE b[j - Len(a)]
  BY <1>1, <1>2
<1> HIDE DEF c
<1>5. ASSUME NEW x \in Range(c) PROVE x \in Range(a) \cup Range(b)
  <2>1. PICK j \in 1..(Len(a) + Len(b)) : x = c[j]
    BY <1>3, Zenon DEF Range
  <2>2. CASE j <= Len(a)
    BY <1>1, <1>4, <2>1, <2>2 DEF Range
  <2>3. CASE ~(j <= Len(a))
    <3>1. j - Len(a) \in 1..Len(b) /\ x = b[j - Len(a)]
      BY <1>1, <1>4, <2>1, <2>3
    <3> QED BY <1>1, <3>1, Zenon DEF Range
  <2> QED BY <2>2, <2>3, Zenon
<1>6. ASSUME NEW x \in Range(a) PROVE x \in Range(c)
  <2>1. PICK j \in 1..Len(a) : x = a[j]
    BY <1>1, Zenon DEF Range
  <2>2. j \in 1..(Len(a) + Len(b)) /\ x = c[j]
    BY <1>1, <1>4, <2>1
  <2> QED BY <1>3, <2>2, Zenon DEF Range
<1>7. ASSUME NEW x \in Range(b) PROVE x \in Range(c)
  <2>1. PICK j \in 1..Len(b) : x = b[j]
    BY <1>1, Zenon DEF Range
  <2>2. Len(a) + j \in 1..(Len(a) + Len(b)) /\ x = c[Len(a) + j]
    BY <1>1, <1>4, <2>1
  <2> QED BY <1>3, <2>2, Zenon DEF Range
<1> QED BY <1>5, <1>6, <1>7, Zenon DEF c

\* The files are the base ones and then the gated ones.
LEMMA FilesFacts ==
  ASSUME st.run \in SyncScenarios
  PROVE  /\ files \in Seq(fileSet) /\ Len(files) \in Nat /\ Len(files) >= 1
         /\ \A j \in 1..Len(files) : files[j] \in fileSet
         /\ \A f \in fileSet : \E j \in 1..Len(files) : files[j] = f
         /\ baseFiles \cup gatedFiles = fileSet /\ baseFiles # {}
         /\ st.run.base \in Seq(fileSet) /\ Len(st.run.base) \in Nat
<1>1. PICK a : a = st.run.base
  BY Zenon
<1>2. PICK b : b = st.run.gated
  BY Zenon
<1>3. a \in Seq(Range(a)) /\ a # <<>> /\ b \in Seq(Range(b))
  BY <1>1, <1>2, SyncAssumption, Zenon
<1>4. files = a \o b /\ fileSet = Range(a \o b) /\ baseFiles = Range(a) /\ gatedFiles = Range(b)
  BY <1>1, <1>2, Zenon DEF files, fileSet, baseFiles, gatedFiles
<1>5. fileSet = Range(a) \cup Range(b)
  BY <1>3, <1>4, ConcatRange
<1>6. a \in Seq(fileSet) /\ b \in Seq(fileSet)
  BY <1>3, <1>5
<1>7. files \in Seq(fileSet) /\ Len(files) = Len(a) + Len(b) /\ Len(a) \in Nat /\ Len(b) \in Nat
  BY <1>4, <1>6
<1>8. Len(a) >= 1 /\ DOMAIN a = 1..Len(a)
  BY <1>3, <1>6
<1>9. Range(a) # {}
  <2>1. 1 \in DOMAIN a
    BY <1>3, <1>8
  <2> QED BY <2>1, Zenon DEF Range
<1>10. DOMAIN files = 1..Len(files) /\ Len(files) >= 1
  BY <1>7, <1>8
<1>11. \A j \in 1..Len(files) : files[j] \in fileSet
  BY <1>7
<1>12. \A f \in fileSet : \E j \in 1..Len(files) : files[j] = f
  BY <1>10, Zenon DEF fileSet, Range
<1>13. baseFiles \cup gatedFiles = fileSet /\ baseFiles # {}
  BY <1>4, <1>5, <1>9, Zenon
<1>14. Len(files) \in Nat
  BY <1>7
<1> QED BY <1>1, <1>6, <1>7, <1>10, <1>11, <1>12, <1>13, <1>14, Zenon

\* The base files are the first ones.
LEMMA BaseFirst ==
  ASSUME st.run \in SyncScenarios
  PROVE  \A f \in baseFiles : \E j \in 1..Len(st.run.base) : f = files[j]
<1>1. PICK a, b : a = st.run.base /\ b = st.run.gated
  BY Zenon
<1>2. a \in Seq(Range(a)) /\ b \in Seq(Range(b))
  BY <1>1, SyncAssumption, Zenon
<1>3. files = a \o b /\ baseFiles = Range(a)
  BY <1>1, Zenon DEF files, baseFiles
<1>4. DOMAIN a = 1..Len(a) /\ \A j \in 1..Len(a) : (a \o b)[j] = a[j]
  <2>1. a \in Seq(Range(a) \cup Range(b)) /\ b \in Seq(Range(a) \cup Range(b))
    BY <1>2
  <2> QED BY <2>1
<1> QED BY <1>1, <1>3, <1>4, Zenon DEF Range

\* Before the first save, and when all have its models.
LEMMA SyncInvInit ==
  ASSUME part = "modelsync", ModelSyncInit
  PROVE  SyncInv
<1>1. PICK run \in SyncScenarios : st = syncStart(run)
  BY Zenon DEF ModelSyncInit
<1>2. PICK names : names = Range(run.base \o run.gated)
  BY Zenon
<1>3. PICK saved : saved = IF run.warm THEN 1 ELSE Nil
  BY Zenon
<1>4. PICK models : models = IF run.warm THEN [f \in names |-> 1] ELSE <<>>
  BY Zenon
<1>5. PICK idle : idle = idleThread
  BY Zenon
<1>6. st = [run |-> run, server |-> [f \in names |-> [v |-> saved, whole |-> TRUE]],
            save |-> IF run.warm THEN 1 ELSE 0, saving |-> <<>>,
            newer |-> [f \in names |-> FALSE], local |-> [f \in names |-> saved],
            loaded |-> [w \in run.workers |-> models], sums |-> [w \in run.workers |-> models],
            lock |-> [w \in run.workers |-> Nil], started |-> [w \in run.workers |-> run.warm],
            threads |-> [t \in {<<w, k>> : w \in run.workers, k \in {"main", "loop"}} |-> idle],
            lost |-> [f \in names |-> FALSE],
            passed |-> [w \in run.workers |-> {}], torn |-> [w \in run.workers |-> {}],
            failed |-> [w \in run.workers |-> {}]]
  BY <1>1, <1>2, <1>3, <1>4, <1>5 DEF syncStart
<1>7. /\ st.run = run /\ fileSet = names
      /\ SyncThreads = {<<w, k>> : w \in run.workers, k \in {"main", "loop"}}
  <2>1. st.run = run
    BY <1>6
  <2> QED BY <1>2, <2>1 DEF fileSet, files, SyncThreads
<1>8. /\ DOMAIN st = SyncFields /\ st.saving = <<>>
      /\ st.server = [f \in names |-> [v |-> saved, whole |-> TRUE]]
      /\ st.newer = [f \in names |-> FALSE] /\ st.local = [f \in names |-> saved]
      /\ st.lost = [f \in names |-> FALSE]
  BY <1>6 DEF SyncFields
<1>9. /\ st.loaded = [w \in run.workers |-> models] /\ st.sums = [w \in run.workers |-> models]
      /\ st.lock = [w \in run.workers |-> Nil] /\ st.started = [w \in run.workers |-> run.warm]
      /\ st.threads = [t \in SyncThreads |-> idle]
      /\ st.passed = [w \in run.workers |-> {}] /\ st.torn = [w \in run.workers |-> {}]
      /\ st.failed = [w \in run.workers |-> {}]
  BY <1>6, <1>7
<1>10. ThreadShape(idle) /\ idle.pc = "idle"
  BY <1>5, Zenon DEF idleThread, ThreadShape, ThreadFields
<1>11. SyncShape
  BY <1>7, <1>8, <1>9, <1>10, SMTT(30) DEF SyncShape
<1>12. /\ baseFiles \subseteq fileSet /\ baseFiles # {}
  BY <1>11, FilesFacts, Zenon DEF SyncShape
<1>13. ASSUME NEW t \in SyncThreads PROVE ThreadOK(t)
  BY <1>9, <1>10, Zenon DEF ThreadOK
<1>14. ASSUME NEW w \in st.run.workers PROVE LoadedBySums(w) /\ FailuresKnown(w) /\ FollowsFiles(w)
  <2>1. /\ st.loaded[w] = models /\ st.sums[w] = models /\ st.failed[w] = {}
        /\ \A f \in fileSet : localFile(f) = saved
    BY <1>7, <1>8, <1>9, <1>14 DEF localFile
  <2>2. CASE run.warm
    <3>1. saved = 1 /\ models = [f \in fileSet |-> 1] /\ 1 # Nil
      BY <1>3, <1>4, <1>7, <2>2, SyncAssumption, Zenon
    <3>2. \A f \in fileSet : Lookup(models, f, Nil) = 1
      BY <3>1, Zenon DEF Lookup
    <3>3. \A f \in fileSet : FollowsFile(w, f)
      BY <2>1, <3>1, <3>2, Zenon DEF FollowsFile
    <3>4. FailuresKnown(w)
      BY <2>1, <3>1, Zenon DEF FailuresKnown
    <3>5. LoadedBySums(w)
      BY <1>12, <2>1, <3>1, Zenon DEF LoadedBySums
    <3> QED BY <3>3, <3>4, <3>5, Zenon DEF FollowsFiles
  <2>3. CASE ~run.warm
    <3>1. saved = Nil /\ DOMAIN models = {}
      BY <1>3, <1>4, <2>3
    <3>2. NothingLoaded(w)
      BY <2>1, <3>1, Zenon DEF NothingLoaded
    <3>3. \A f \in fileSet : FollowsFile(w, f)
      BY <2>1, <3>1, Zenon DEF FollowsFile, Lookup
    <3> QED BY <2>1, <3>2, <3>3, Zenon DEF FollowsFiles, LoadedBySums, FailuresKnown, NothingLoaded
  <2> QED BY <2>2, <2>3, Zenon
<1>15. LocalFilesFollow
  BY <1>7, <1>8 DEF LocalFilesFollow, localFile
<1> QED BY <1>11, <1>13, <1>14, <1>15, Zenon DEF SyncInv

\* A worker none of whose threads is at work has what FollowsFile says, by its
\* model or by its checksum.
LEMMA FollowsWhenIdle ==
  ASSUME SyncInv
  PROVE  ModelsReachWorkers
<1>1. SyncShape /\ LocalFilesFollow
  BY Zenon DEF SyncInv
<1>2. /\ baseFiles \subseteq fileSet /\ baseFiles \cup gatedFiles = fileSet /\ baseFiles # {}
  BY <1>1, FilesFacts, Zenon DEF SyncShape
<1>3. ASSUME NEW w \in st.run.workers, \A k \in {"main", "loop"} : st.threads[<<w, k>>].pc = "idle",
             NEW f \in fileSet, Lookup(st.loaded[w], f, Nil) # localFile(f)
      PROVE  \/ f \in st.passed[w]
             \/ ~syncReady(w) /\ \E b \in baseFiles : localFile(b) = Nil \/ b \in st.passed[w]
             \/ \E g \in gatedFiles : f \in gatedFiles /\ (localFile(g) = Nil \/ g \in st.passed[w])
             \/ f \in st.torn[w] /\ Lookup(st.sums[w], f, Nil) = localFile(f)
             \/ f \in st.failed[w] /\ (f \in gatedFiles \/ Lookup(st.sums[w], f, Nil) # localFile(f))
  <2>1. LoadedBySums(w) /\ FailuresKnown(w) /\ FollowsFiles(w)
    BY Zenon DEF SyncInv
  <2>2. \A g : ~Notices(<<w, "main">>, g) /\ ~Notices(<<w, "loop">>, g)
    BY <1>3, Zenon DEF Notices
  <2>3. \A g : FollowsFile(w, g) =>
          \/ Lookup(st.loaded[w], g, Nil) = localFile(g)
          \/ Lookup(st.sums[w], g, Nil) = localFile(g)
          \/ g \in st.passed[w]
    BY <2>2, Zenon DEF FollowsFile
  <2>4. CASE Lookup(st.sums[w], f, Nil) # localFile(f)
    <3>1. CASE \A g \in fileSet : FollowsFile(w, g) \/ g \in st.failed[w]
      BY <1>3, <2>3, <2>4, <3>1, Zenon
    <3>2. CASE NothingLoaded(w) /\ \E b \in baseFiles : FollowsFile(w, b)
      <4>1. ~syncReady(w) /\ \A g : Lookup(st.loaded[w], g, Nil) = Nil /\ Lookup(st.sums[w], g, Nil) = Nil
        BY <1>2, <3>2, Zenon DEF NothingLoaded, syncReady, Lookup
      <4>2. PICK b \in baseFiles : FollowsFile(w, b)
        BY <3>2, Zenon
      <4>3. localFile(b) = Nil \/ b \in st.passed[w]
        BY <2>3, <4>1, <4>2, Zenon
      <4> QED BY <4>1, <4>3, Zenon
    <3> QED BY <2>1, <3>1, <3>2, Zenon DEF FollowsFiles
  <2>5. CASE Lookup(st.sums[w], f, Nil) = localFile(f)
    <3>1. ~NothingLoaded(w)
      BY <1>3, <2>5, Zenon DEF NothingLoaded, Lookup
    <3>2. \A g \in fileSet : FollowsFile(w, g) \/ g \in st.failed[w]
      BY <2>1, <3>1, Zenon DEF FollowsFiles
    <3>3. \/ f \in st.torn[w]
          \/ /\ f \in gatedFiles /\ f \notin DOMAIN st.loaded[w]
             /\ \E g \in gatedFiles : g \notin DOMAIN st.loaded[w] /\ g \notin DOMAIN st.sums[w]
          \/ f \in gatedFiles /\ f \in st.failed[w]
      BY <1>3, <2>1, <2>5, <3>1, Zenon DEF LoadedBySums
    <3>4. ASSUME f \in gatedFiles, f \notin DOMAIN st.loaded[w],
                 NEW h \in gatedFiles, h \notin DOMAIN st.loaded[w], h \notin DOMAIN st.sums[w]
          PROVE  f \in st.failed[w] \/ localFile(h) = Nil \/ h \in st.passed[w]
      <4>1. Lookup(st.loaded[w], h, Nil) = Nil /\ Lookup(st.sums[w], h, Nil) = Nil /\ h \in fileSet
        BY <1>2, <3>4, Zenon DEF Lookup
      <4>2. CASE h \in st.failed[w]
        <5>1. Lookup(st.loaded[w], f, Nil) = Nil
          BY <3>4, Zenon DEF Lookup
        <5>2. f \in DOMAIN st.sums[w]
          BY <1>3, <2>5, <5>1, Zenon DEF Lookup
        <5> QED BY <2>1, <3>4, <4>2, <5>2, Zenon DEF FailuresKnown
      <4>3. CASE FollowsFile(w, h)
        BY <2>3, <4>1, <4>3, Zenon
      <4> QED BY <3>2, <4>1, <4>2, <4>3, Zenon
    <3> QED BY <2>5, <3>3, <3>4, Zenon
  <2> QED BY <2>4, <2>5, Zenon
<1>4. LoadedFollows
  BY <1>3, Zenon DEF LoadedFollows
<1> QED BY <1>1, <1>4, Zenon DEF ModelsReachWorkers

\* The files and the threads are given with the run.
LEMMA SameRun ==
  ASSUME st'.run = st.run
  PROVE  /\ files' = files /\ fileSet' = fileSet /\ baseFiles' = baseFiles /\ gatedFiles' = gatedFiles
         /\ SyncThreads' = SyncThreads
  BY DEF files, fileSet, baseFiles, gatedFiles, SyncThreads

\* What a thread is, by its place in the table.
LEMMA ThreadFacts ==
  ASSUME NEW t \in SyncThreads
  PROVE  /\ t[1] \in st.run.workers /\ t[2] \in {"main", "loop"} /\ t = <<t[1], t[2]>>
         /\ \A w \in st.run.workers, k \in {"main", "loop"} : <<w, k>> \in SyncThreads
  BY DEF SyncThreads

\* A thread and the local files are as they were: so is what the thread will notice.
LEMMA SameThread ==
  ASSUME st'.run = st.run, st'.local = st.local, NEW u, st'.threads[u] = st.threads[u]
  PROVE  /\ ThreadOK(u) => ThreadOK(u)'
         /\ \A f \in fileSet : Notices(u, f)' = Notices(u, f)
<1>1. PICK th : th = st.threads[u]
  BY Zenon
<1>2. st'.threads[u] = th
  BY <1>1, Zenon
<1>3. /\ ReadFiles(th)' = ReadFiles(th) /\ toLoad(th)' = toLoad(th)
      /\ \A f : localFile(f)' = localFile(f)
  BY SameRun, Zenon DEF ReadFiles, FirstFiles, toLoad, localFile
<1>4. LoadedFiles(th)' = LoadedFiles(th)
  BY <1>3, Zenon DEF LoadedFiles
<1>5. ThreadOK(u) => ThreadOK(u)'
  BY <1>1, <1>2, <1>3, <1>4, SameRun, Zenon DEF ThreadOK, LoadsInOrder, WithoutGated
<1>6. \A f \in fileSet : Notices(u, f)' = Notices(u, f)
  BY <1>1, <1>2, <1>3, SameRun, Zenon DEF Notices
<1> QED BY <1>5, <1>6, Zenon

\* A step that leaves the models alone and keeps every worker informed keeps the invariant.
LEMMA InformedKeeps ==
  ASSUME SyncInv, part' = part, SyncShape', LocalFilesFollow', \A t \in SyncThreads : ThreadOK(t)',
         st'.run = st.run, st'.loaded = st.loaded, st'.sums = st.sums, st'.torn = st.torn, st'.failed = st.failed,
         \A f \in fileSet : localFile(f) # Nil => localFile(f)' # Nil,
         \A w \in st.run.workers, f \in fileSet : FollowsFile(w, f) => FollowsFile(w, f)'
  PROVE  SyncInv'
<1>1. baseFiles \subseteq fileSet
  BY FilesFacts, Zenon DEF SyncInv, SyncShape
<1>2. \A w \in st.run.workers : LoadedBySums(w)' /\ FailuresKnown(w)'
  <2> TAKE w \in st.run.workers
  <2>1. LoadedBySums(w) /\ FailuresKnown(w)
    BY Zenon DEF SyncInv
  <2>2. LoadedBySums(w)'
    BY <1>1, <2>1, SameRun, Zenon DEF LoadedBySums, NothingLoaded
  <2>3. FailuresKnown(w)'
    BY <2>1, SameRun, Zenon DEF FailuresKnown
  <2> QED BY <2>2, <2>3, Zenon
<1>3. \A w \in st.run.workers : FollowsFiles(w)'
  <2> TAKE w \in st.run.workers
  <2>1. FollowsFiles(w)
    BY Zenon DEF SyncInv
  <2> QED BY <1>1, <2>1, SameRun, Zenon DEF FollowsFiles, NothingLoaded
<1> QED BY <1>2, <1>3, SameRun, Zenon DEF SyncInv

\* A step of one thread: what it leaves alone.
OneThread(t) ==
  /\ DOMAIN st' = SyncFields /\ st'.run = st.run /\ st'.server = st.server /\ st'.newer = st.newer
  /\ st'.local = st.local /\ st'.lost = st.lost /\ st'.saving = st.saving
  /\ DOMAIN st'.loaded = st.run.workers /\ DOMAIN st'.sums = st.run.workers
  /\ DOMAIN st'.torn = st.run.workers /\ DOMAIN st'.failed = st.run.workers /\ DOMAIN st'.passed = st.run.workers
  /\ DOMAIN st'.lock = st.run.workers /\ DOMAIN st'.started = st.run.workers
  /\ \A w \in st.run.workers : w # t[1] =>
       /\ st'.loaded[w] = st.loaded[w] /\ st'.sums[w] = st.sums[w]
       /\ st'.torn[w] = st.torn[w] /\ st'.failed[w] = st.failed[w] /\ st'.passed[w] = st.passed[w]
  /\ DOMAIN st'.threads = SyncThreads /\ \A u \in SyncThreads : u # t => st'.threads[u] = st.threads[u]
  /\ ThreadShape(st'.threads[t])

\* It keeps the invariant, if it does so for its own worker.
LEMMA WorkerKeeps ==
  ASSUME SyncInv, part' = part, NEW t \in SyncThreads, OneThread(t), ThreadOK(t)',
         LoadedBySums(t[1])', FailuresKnown(t[1])', FollowsFiles(t[1])'
  PROVE  SyncInv'
<1>1. /\ SyncShape' /\ st'.run = st.run /\ st'.local = st.local
  BY SameRun, Zenon DEF SyncInv, SyncShape, OneThread
<1>2. LocalFilesFollow'
  BY SameRun DEF SyncInv, LocalFilesFollow, localFile, OneThread
<1>3. \A u \in SyncThreads : u # t => ThreadOK(u)'
  <2> TAKE u \in SyncThreads
  <2> HAVE u # t
  <2>1. ThreadOK(u) /\ st'.threads[u] = st.threads[u]
    BY Zenon DEF SyncInv, OneThread
  <2> QED BY <1>1, <2>1, SameThread, Zenon
<1>4. ASSUME NEW w \in st.run.workers, w # t[1] PROVE LoadedBySums(w)' /\ FailuresKnown(w)' /\ FollowsFiles(w)'
  <2>1. LoadedBySums(w) /\ FailuresKnown(w) /\ FollowsFiles(w)
    BY Zenon DEF SyncInv
  <2>2. /\ st'.loaded[w] = st.loaded[w] /\ st'.sums[w] = st.sums[w]
        /\ st'.torn[w] = st.torn[w] /\ st'.failed[w] = st.failed[w] /\ st'.passed[w] = st.passed[w]
        /\ \A k \in {"main", "loop"} : st'.threads[<<w, k>>] = st.threads[<<w, k>>]
    BY <1>4, ThreadFacts DEF OneThread
  <2>3. /\ files' = files /\ fileSet' = fileSet /\ baseFiles' = baseFiles /\ gatedFiles' = gatedFiles
    BY <1>1, SameRun, Zenon
  <2>4. LoadedBySums(w)'
    BY <1>1, <2>1, <2>2, <2>3, Zenon DEF LoadedBySums, NothingLoaded, localFile
  <2>7. FailuresKnown(w)'
    BY <1>1, <2>1, <2>2, <2>3, Zenon DEF FailuresKnown, localFile
  <2>5. \A f \in fileSet : FollowsFile(w, f)' = FollowsFile(w, f)
    BY <1>1, <2>2, <2>3, SameThread, Zenon DEF FollowsFile, localFile
  <2>6. baseFiles \subseteq fileSet
    BY FilesFacts, Zenon DEF SyncInv, SyncShape
  <2> QED BY <2>1, <2>2, <2>3, <2>4, <2>5, <2>6, <2>7, Zenon DEF FollowsFiles, NothingLoaded
<1> QED BY <1>1, <1>2, <1>3, <1>4, SameRun, Zenon DEF SyncInv

\* It does so if it leaves the models alone, and goes on noticing what it was to notice and
\* what is no longer taken as passed.
LEMMA ThreadKeeps ==
  ASSUME SyncInv, part' = part, NEW t \in SyncThreads, OneThread(t), ThreadOK(t)',
         st'.loaded = st.loaded, st'.sums = st.sums, st'.torn = st.torn, st'.failed = st.failed,
         \A f \in fileSet : Notices(t, f) => Notices(t, f)',
         \A f \in fileSet : f \in st.passed[t[1]] => f \in st'.passed[t[1]] \/ Notices(t, f)'
  PROVE  SyncInv'
<1>1. st'.run = st.run /\ st'.local = st.local /\ \A u \in SyncThreads : u # t => st'.threads[u] = st.threads[u]
  BY Zenon DEF OneThread
<1>2. PICK w \in st.run.workers : w = t[1]
  BY ThreadFacts, Zenon
<1>3. LoadedBySums(w) /\ FailuresKnown(w) /\ FollowsFiles(w)
  BY Zenon DEF SyncInv
<1>4. LoadedBySums(w)'
  BY <1>1, <1>3, SameRun, Zenon DEF LoadedBySums, NothingLoaded, localFile
<1>9. FailuresKnown(w)'
  BY <1>1, <1>3, SameRun, Zenon DEF FailuresKnown, localFile
<1>5. \A u \in SyncThreads, f \in fileSet : Notices(u, f) => Notices(u, f)'
  BY <1>1, SameThread, Zenon
<1>6. \A f \in fileSet : FollowsFile(w, f) => FollowsFile(w, f)'
  <2> TAKE f \in fileSet
  <2> HAVE FollowsFile(w, f)
  <2>1. Notices(t, f)' => FollowsFile(w, f)'
    BY <1>2, ThreadFacts, Zenon DEF FollowsFile
  <2> QED BY <1>1, <1>2, <1>5, <2>1, ThreadFacts, Zenon DEF FollowsFile, localFile
<1>7. baseFiles \subseteq fileSet
  BY FilesFacts, Zenon DEF SyncInv, SyncShape
<1>8. FollowsFiles(w)'
  BY <1>1, <1>3, <1>6, <1>7, SameRun, Zenon DEF FollowsFiles, NothingLoaded
<1> QED BY <1>2, <1>4, <1>8, <1>9, WorkerKeeps, Zenon

\* The training server's saves change its own files, which are newer then.
LEMMA SavesKeep ==
  ASSUME SyncInv, part' = part, SaveBegins \/ DumpStep
  PROVE  SyncInv'
<1>1. SyncShape /\ st.saving \in Seq(fileSet) /\ files \in Seq(fileSet) /\ st.run.base \in Seq(fileSet)
  BY FilesFacts, Zenon DEF SyncInv, SyncShape
<1> DEFINE Frame ==
             /\ DOMAIN st' = SyncFields /\ st'.run = st.run /\ st'.local = st.local /\ st'.lost = st.lost
             /\ st'.loaded = st.loaded /\ st'.sums = st.sums /\ st'.torn = st.torn /\ st'.failed = st.failed
             /\ st'.passed = st.passed
             /\ st'.lock = st.lock /\ st'.started = st.started /\ st'.threads = st.threads
           Rest ==
             /\ st'.saving \in Seq(fileSet)
             /\ DOMAIN st'.server = fileSet /\ DOMAIN st'.newer = fileSet
             /\ \A f \in fileSet : DOMAIN st'.server[f] = {"v", "whole"}
             /\ \A f \in fileSet : \/ st'.server[f] = st.server[f] /\ st'.newer[f] = st.newer[f]
                                   \/ st'.newer[f] = TRUE
<1>2. Frame /\ Rest
  <2>1. CASE SaveBegins
    BY <1>1, <2>1, SMTT(30) DEF SaveBegins, SyncShape, SyncFields
  <2>2. CASE DumpStep
    <3>1. PICK f : f = Head(st.saving)
      BY Zenon
    <3>2. f \in fileSet /\ Tail(st.saving) \in Seq(fileSet)
      BY <1>1, <2>2, <3>1 DEF DumpStep
    <3>3. CASE st.server[f].whole
      <4>1. st' = [st EXCEPT !.server[f].whole = FALSE, !.newer[f] = TRUE]
        BY <2>2, <3>1, <3>3, Zenon DEF DumpStep
      <4>2. /\ st'.server = [st.server EXCEPT ![f] = [@ EXCEPT !.whole = FALSE]]
            /\ st'.newer = [st.newer EXCEPT ![f] = TRUE] /\ st'.saving = st.saving /\ Frame
        BY <1>1, <4>1, Zenon DEF SyncShape, SyncFields
      <4>3. Rest
        BY <1>1, <3>2, <4>2, ZenonT(30) DEF SyncShape
      <4> QED BY <4>2, <4>3, Zenon
    <3>4. CASE ~st.server[f].whole
      <4>1. st' = [st EXCEPT !.server[f] = [v |-> st.save, whole |-> TRUE], !.newer[f] = TRUE, !.saving = Tail(@)]
        BY <2>2, <3>1, <3>4, Zenon DEF DumpStep
      <4>2. /\ st'.server = [st.server EXCEPT ![f] = [v |-> st.save, whole |-> TRUE]]
            /\ st'.newer = [st.newer EXCEPT ![f] = TRUE] /\ st'.saving = Tail(st.saving) /\ Frame
        BY <1>1, <4>1, Zenon DEF SyncShape, SyncFields
      <4>3. Rest
        BY <1>1, <3>2, <4>2, ZenonT(30) DEF SyncShape
      <4> QED BY <4>2, <4>3, Zenon
    <3> QED BY <3>3, <3>4, Zenon
  <2> QED BY <2>1, <2>2, Zenon
<1>3. Frame /\ Rest
  BY <1>2, Zenon
<1>4. SyncShape'
  BY <1>1, <1>2, <1>3, SameRun, Zenon DEF SyncShape
<1>5. LocalFilesFollow'
  <2>1. LocalFilesFollow
    BY Zenon DEF SyncInv
  <2> QED BY <1>2, <1>3, <2>1, SameRun DEF LocalFilesFollow, localFile
<1>6. \A t \in SyncThreads : ThreadOK(t)'
  <2> TAKE t \in SyncThreads
  <2>1. ThreadOK(t)
    BY Zenon DEF SyncInv
  <2> QED BY <1>2, <2>1, SameThread, Zenon
<1>7. \A w \in st.run.workers, f \in fileSet : FollowsFile(w, f) => FollowsFile(w, f)'
  BY <1>2, SameRun, SameThread, Zenon DEF FollowsFile, localFile
<1> QED BY <1>2, <1>4, <1>5, <1>6, <1>7, InformedKeeps, Zenon DEF localFile

\* A thread that has nothing to notice begins to synchronise.
LEMMA SyncBeginsKeeps ==
  ASSUME SyncInv, part' = part, NEW t \in SyncThreads, SyncBegins(t)
  PROVE  SyncInv'
<1>1. SyncShape /\ Len(files) >= 1 /\ Len(files) \in Nat
  BY FilesFacts, Zenon DEF SyncInv, SyncShape
<1>2. st' = [st EXCEPT !.threads[t] = [idleThread EXCEPT !.pc = "sync", !.i = 1], !.lock[t[1]] = t]
      /\ st.threads[t].pc = "idle"
  BY Zenon DEF SyncBegins
<1>3. st'.threads = [st.threads EXCEPT ![t] = [idleThread EXCEPT !.pc = "sync", !.i = 1]]
      /\ st'.lock = [st.lock EXCEPT ![t[1]] = t]
  BY <1>1, <1>2, Zenon DEF SyncShape, SyncFields
<1>4. st'.threads[t] = [idleThread EXCEPT !.pc = "sync", !.i = 1]
  BY <1>1, <1>3, Zenon DEF SyncShape
<1>5. ThreadShape(st'.threads[t]) /\ st'.threads[t].pc = "sync" /\ st'.threads[t].i = 1
  BY <1>4 DEF idleThread, ThreadShape, ThreadFields
<1>6. /\ DOMAIN st' = SyncFields /\ st'.run = st.run /\ st'.server = st.server /\ st'.newer = st.newer
      /\ st'.local = st.local /\ st'.lost = st.lost /\ st'.saving = st.saving /\ st'.started = st.started
      /\ st'.loaded = st.loaded /\ st'.sums = st.sums /\ st'.torn = st.torn /\ st'.failed = st.failed /\ st'.passed = st.passed
  BY <1>1, <1>2, Zenon DEF SyncShape, SyncFields
<1>7. ThreadOK(t)'
  BY <1>1, <1>5, <1>6, SameRun DEF ThreadOK
<1>8. \A f \in fileSet : ~Notices(t, f)
  BY <1>2, Zenon DEF Notices
<1>9. OneThread(t)
  BY <1>1, <1>3, <1>5, <1>6, Zenon DEF SyncShape, OneThread
<1> QED BY <1>6, <1>7, <1>8, <1>9, ThreadKeeps, Zenon

\* What holds of a thread past a file: it is on its way to the next, or begins to read the
\* checksums, or is through with nothing updated.
Synced(th, upd) ==
  \/ th.pc = "sync" /\ th.i \in 1..Len(files) /\ th.updated = upd
  \/ th.pc = "sums" /\ th.i = 1 /\ th.sums = <<>> /\ th.new = <<>>
  \/ th.pc = "idle" /\ ~upd

\* What the end of a file's synchronisation leaves.
LEMMA SyncedToFields ==
  ASSUME SyncInv, NEW t \in SyncThreads, NEW upd \in BOOLEAN, st.threads[t].pc \in {"sync", "get"}
  PROVE  LET s == syncedTo(t, upd)
             th == s.threads[t]
         IN /\ DOMAIN s = SyncFields
            /\ \A x \in SyncFields \ {"threads", "lock"} : s[x] = st[x]
            /\ DOMAIN s.lock = st.run.workers /\ DOMAIN s.threads = SyncThreads
            /\ \A u \in SyncThreads : u # t => s.threads[u] = st.threads[u]
            /\ ThreadShape(th) /\ Synced(th, upd)
<1>1. SyncShape /\ Len(files) \in Nat /\ ThreadShape(st.threads[t]) /\ st.threads[t].i \in 1..Len(files)
  BY FilesFacts, Zenon DEF SyncInv, SyncShape, ThreadOK
<1>2. CASE st.threads[t].i < Len(files)
  <2>1. PICK th : th = nextFile(t, upd)
    BY Zenon
  <2>2. ThreadShape(th) /\ Synced(th, upd)
    BY <1>1, <1>2, <2>1 DEF nextFile, ThreadShape, ThreadFields, Synced
  <2>3. syncedTo(t, upd) = [st EXCEPT !.threads[t] = th]
    BY <1>2, <2>1, Zenon DEF syncedTo
  <2>4. /\ DOMAIN syncedTo(t, upd) = SyncFields
        /\ \A x \in SyncFields \ {"threads", "lock"} : syncedTo(t, upd)[x] = st[x]
        /\ syncedTo(t, upd).threads = [st.threads EXCEPT ![t] = th]
        /\ DOMAIN syncedTo(t, upd).lock = st.run.workers
    BY <1>1, <2>3, Zenon DEF SyncShape, SyncFields
  <2> QED BY <1>1, <2>2, <2>4, Zenon DEF SyncShape
<1>3. CASE ~(st.threads[t].i < Len(files))
  <2> DEFINE loads == t[2] = "main" \/ upd \/ ~syncReady(t[1])
  <2>1. PICK th : th = [idleThread EXCEPT !.pc = IF loads THEN "sums" ELSE "idle", !.i = IF loads THEN 1 ELSE 0]
    BY Zenon
  <2>2. ThreadShape(th) /\ Synced(th, upd)
    BY <2>1, Zenon DEF idleThread, ThreadShape, ThreadFields, Synced
  <2>3. syncedTo(t, upd) = [st EXCEPT !.threads[t] = th, !.lock[t[1]] = Nil]
    BY <1>3, <2>1, Zenon DEF syncedTo
  <2>4. /\ DOMAIN syncedTo(t, upd) = SyncFields
        /\ \A x \in SyncFields \ {"threads", "lock"} : syncedTo(t, upd)[x] = st[x]
        /\ syncedTo(t, upd).threads = [st.threads EXCEPT ![t] = th]
        /\ DOMAIN syncedTo(t, upd).lock = st.run.workers
    BY <1>1, <2>3, Zenon DEF SyncShape, SyncFields
  <2> QED BY <1>1, <2>2, <2>4, Zenon DEF SyncShape
<1> QED BY <1>2, <1>3, Zenon

\* Such a thread is as the invariant wants it, and with an update it will notice every file.
LEMMA SyncedThread ==
  ASSUME st.run \in SyncScenarios, st'.run = st.run, NEW t, NEW upd \in BOOLEAN, Synced(st'.threads[t], upd)
  PROVE  /\ ThreadOK(t)'
         /\ upd => \A f \in fileSet : Notices(t, f)'
<1>1. files' = files /\ baseFiles' = baseFiles /\ Len(files) \in Nat /\ Len(files) >= 1
  BY FilesFacts, SameRun, Zenon
<1>2. DOMAIN <<>> = {} /\ 1..(1 - 1) = {}
  OBVIOUS
<1>3. CASE st'.threads[t].pc = "sync"
  BY <1>1, <1>3, Zenon DEF Synced, ThreadOK, Notices
<1>4. CASE st'.threads[t].pc = "sums"
  <2>1. ReadFiles(st.threads[t])' = {}
    BY <1>2, <1>4, Zenon DEF Synced, ReadFiles, FirstFiles
  <2> QED BY <1>1, <1>2, <1>4, <2>1 DEF Synced, ThreadOK, Notices
<1>5. CASE st'.threads[t].pc = "idle"
  BY <1>5, Zenon DEF Synced, ThreadOK
<1> QED BY <1>3, <1>4, <1>5, Zenon DEF Synced

\* A file that is not replaced: the thread goes on with what it knew.
LEMMA NotReplacedKeeps ==
  ASSUME SyncInv, part' = part, NEW t \in SyncThreads, st.threads[t].pc \in {"sync", "get"},
         st' = syncedTo(t, st.threads[t].updated)
  PROVE  SyncInv'
<1>1. SyncShape /\ st.run \in SyncScenarios /\ st.threads[t].updated \in BOOLEAN
  BY Zenon DEF SyncInv, SyncShape, ThreadShape
<1>2. PICK upd \in BOOLEAN : upd = st.threads[t].updated
  BY <1>1, Zenon
<1>3. /\ DOMAIN st' = SyncFields
      /\ \A x \in SyncFields \ {"threads", "lock"} : st'[x] = st[x]
      /\ DOMAIN st'.lock = st.run.workers /\ DOMAIN st'.threads = SyncThreads
      /\ \A u \in SyncThreads : u # t => st'.threads[u] = st.threads[u]
      /\ ThreadShape(st'.threads[t]) /\ Synced(st'.threads[t], upd)
  BY <1>2, SyncedToFields, Zenon
<1>4. /\ st'.run = st.run /\ st'.server = st.server /\ st'.newer = st.newer
      /\ st'.local = st.local /\ st'.lost = st.lost /\ st'.saving = st.saving /\ st'.started = st.started
      /\ st'.loaded = st.loaded /\ st'.sums = st.sums /\ st'.torn = st.torn /\ st'.failed = st.failed /\ st'.passed = st.passed
  BY <1>3, Zenon DEF SyncFields
<1>5. ThreadOK(t)' /\ (upd => \A f \in fileSet : Notices(t, f)')
  BY <1>1, <1>3, <1>4, SyncedThread, Zenon
<1>6. \A f \in fileSet : Notices(t, f) => upd
  BY <1>2, Zenon DEF Notices
<1>7. OneThread(t)
  BY <1>1, <1>3, <1>4, Zenon DEF SyncShape, OneThread
<1> QED BY <1>4, <1>5, <1>6, <1>7, ThreadKeeps, Zenon

\* The times are compared, and a download begins.
LEMMA CheckNewerKeeps ==
  ASSUME SyncInv, part' = part, NEW t \in SyncThreads, CheckNewer(t)
  PROVE  SyncInv'
<1>1. st.threads[t].pc = "sync" /\ SyncShape /\ ThreadOK(t) /\ ThreadShape(st.threads[t])
  BY Zenon DEF CheckNewer, SyncInv, SyncShape
<1>2. CASE st' = syncedTo(t, st.threads[t].updated)
  BY <1>1, <1>2, NotReplacedKeeps, Zenon
<1>3. ASSUME NEW got, st' = [st EXCEPT !.threads[t] = [@ EXCEPT !.pc = "get", !.got = got]]
      PROVE  SyncInv'
  <2>1. /\ DOMAIN st' = SyncFields /\ st'.run = st.run /\ st'.server = st.server /\ st'.newer = st.newer
        /\ st'.local = st.local /\ st'.lost = st.lost /\ st'.saving = st.saving /\ st'.started = st.started
        /\ st'.loaded = st.loaded /\ st'.sums = st.sums /\ st'.torn = st.torn /\ st'.failed = st.failed /\ st'.passed = st.passed
        /\ st'.lock = st.lock
        /\ st'.threads = [st.threads EXCEPT ![t] = [@ EXCEPT !.pc = "get", !.got = got]]
    BY <1>1, <1>3, Zenon DEF SyncShape, SyncFields
  <2>2. st'.threads[t] = [st.threads[t] EXCEPT !.pc = "get", !.got = got]
    BY <1>1, <2>1, Zenon DEF SyncShape
  <2>3. ThreadShape(st'.threads[t]) /\ st'.threads[t].pc = "get" /\ st'.threads[t].i = st.threads[t].i
        /\ st'.threads[t].updated = st.threads[t].updated
    BY <1>1, <2>2, Zenon DEF ThreadShape, ThreadFields
  <2>4. ThreadOK(t)'
    BY <1>1, <2>1, <2>3, SameRun, Zenon DEF ThreadOK
  <2>5. \A f \in fileSet : Notices(t, f) => Notices(t, f)'
    BY <1>1, <2>3, Zenon DEF Notices
  <2>6. OneThread(t)
    BY <1>1, <2>1, <2>3, Zenon DEF SyncShape, OneThread
  <2> QED BY <2>1, <2>4, <2>5, <2>6, ThreadKeeps, Zenon
<1>4. \/ st' = syncedTo(t, st.threads[t].updated)
      \/ \E got : st' = [st EXCEPT !.threads[t] = [@ EXCEPT !.pc = "get", !.got = got]]
  BY Zenon DEF CheckNewer
<1> QED BY <1>2, <1>3, <1>4, Zenon

\* A thread reads the files, and loads those it has checksums of: the base ones first.
LEMMA ThreadFiles ==
  ASSUME SyncInv, NEW t \in SyncThreads
  PROVE  LET th == st.threads[t]
             all == IF gatedFiles \subseteq DOMAIN th.sums THEN fileSet ELSE baseFiles
         IN /\ th.pc = "sums" => ReadFiles(th) \subseteq fileSet
            /\ th.pc = "load" =>
                 /\ toLoad(th) \in Seq(fileSet) /\ Range(toLoad(th)) = all
                 /\ DOMAIN th.new \subseteq Range(toLoad(th)) /\ DOMAIN th.new \subseteq fileSet
                 /\ all \subseteq DOMAIN th.sums /\ DOMAIN th.sums \subseteq fileSet
                 /\ th.i > Len(toLoad(th)) =>
                      baseFiles \subseteq DOMAIN th.new /\ (DOMAIN th.new = all \/ all = fileSet)
<1>1. PICK th : th = st.threads[t]
  BY Zenon
<1>2. ThreadOK(t) /\ st.run \in SyncScenarios
  BY Zenon DEF SyncInv, SyncShape
<1>3. /\ files \in Seq(fileSet) /\ st.run.base \in Seq(fileSet)
      /\ baseFiles \cup gatedFiles = fileSet
  BY <1>2, FilesFacts, Zenon
<1>4. ASSUME th.pc = "sums" PROVE ReadFiles(th) \subseteq fileSet
  <2>1. th.i \in 1..Len(files)
    BY <1>1, <1>2, <1>4, Zenon DEF ThreadOK
  <2>2. \A j \in 1..(th.i - 1) : j \in 1..Len(files)
    BY <1>3, <2>1
  <2> QED BY <1>3, <2>2 DEF ReadFiles, FirstFiles
<1>5. ASSUME th.pc = "load"
      PROVE  LET all == IF gatedFiles \subseteq DOMAIN th.sums THEN fileSet ELSE baseFiles IN
                 /\ toLoad(th) \in Seq(fileSet) /\ Range(toLoad(th)) = all
                 /\ DOMAIN th.new \subseteq Range(toLoad(th)) /\ DOMAIN th.new \subseteq fileSet
                 /\ all \subseteq DOMAIN th.sums /\ DOMAIN th.sums \subseteq fileSet
                 /\ th.i > Len(toLoad(th)) =>
                      baseFiles \subseteq DOMAIN th.new /\ (DOMAIN th.new = all \/ all = fileSet)
  <2>1. /\ th.i \in 1..(Len(toLoad(th)) + 1) /\ baseFiles \subseteq DOMAIN th.sums
        /\ (LoadsInOrder(th) \/ WithoutGated(th)) /\ DOMAIN th.sums \subseteq fileSet
    BY <1>1, <1>2, <1>5, Zenon DEF ThreadOK
  <2> DEFINE all == IF gatedFiles \subseteq DOMAIN th.sums THEN fileSet ELSE baseFiles
  <2>2. toLoad(th) \in Seq(fileSet) /\ Range(toLoad(th)) = all
    BY <1>3, Zenon DEF toLoad, fileSet, baseFiles
  <2>3. all \subseteq DOMAIN th.sums /\ all \subseteq fileSet /\ baseFiles \subseteq all
    BY <1>3, <2>1, Zenon
  <2>4. PICK s \in Seq(fileSet) : s = toLoad(th)
    BY <2>2, Zenon
  <2>5. CASE LoadsInOrder(th)
    <3>1. DOMAIN th.new = {s[j] : j \in 1..(th.i - 1)} /\ th.i \in 1..(Len(s) + 1)
      BY <2>1, <2>4, <2>5, Zenon DEF LoadedFiles, LoadsInOrder
    <3>2. Range(s) = {s[j] : j \in 1..Len(s)} /\ Len(s) \in Nat
      BY DEF Range
    <3>3. \A j \in 1..(th.i - 1) : j \in 1..Len(s)
      BY <3>1, <3>2
    <3>4. DOMAIN th.new \subseteq Range(s)
      BY <3>1, <3>2, <3>3, Zenon
    <3>5. th.i > Len(s) => th.i - 1 = Len(s)
      BY <3>1, <3>2
    <3>6. th.i > Len(s) => DOMAIN th.new = Range(s)
      BY <3>1, <3>2, <3>5, Zenon
    <3> HIDE DEF all
    <3> QED BY <2>1, <2>2, <2>3, <2>4, <3>4, <3>6, Zenon DEF all
  <2>6. CASE WithoutGated(th)
    <3>1. all = fileSet /\ baseFiles \subseteq DOMAIN th.new /\ DOMAIN th.new \subseteq fileSet
      BY <2>6, Zenon DEF WithoutGated
    <3> QED BY <2>1, <2>2, <2>3, <3>1, Zenon
  <2> QED BY <2>1, <2>5, <2>6, Zenon
<1> QED BY <1>1, <1>4, <1>5, Zenon

\* A file is replaced: the thread will load it, the other workers are passed by, and those who
\* are reading or loading the files have it among the stale ones.
Replaced(t, f, got, lost) ==
  /\ DOMAIN st' = SyncFields /\ st'.run = st.run /\ st'.server = st.server
  /\ st'.saving = st.saving /\ st'.started = st.started /\ DOMAIN st'.lock = st.run.workers
  /\ st'.loaded = st.loaded /\ st'.sums = st.sums /\ st'.torn = st.torn /\ st'.failed = st.failed
  /\ st'.local = [st.local EXCEPT ![f] = got] /\ st'.newer = [st.newer EXCEPT ![f] = FALSE]
  /\ st'.lost = [st.lost EXCEPT ![f] = lost]
  /\ st'.passed = [w \in st.run.workers |-> IF w = t[1] THEN st.passed[w] ELSE st.passed[w] \cup {f}]
  /\ DOMAIN st'.threads = SyncThreads /\ ThreadShape(st'.threads[t]) /\ Synced(st'.threads[t], TRUE)
  /\ \A u \in SyncThreads : u # t =>
       st'.threads[u] = IF st.threads[u].pc \in {"sums", "load"}
                        THEN [st.threads[u] EXCEPT !.stale = st.threads[u].stale \cup {f}] ELSE st.threads[u]

\* What replaces it is what is saved, unless that is being written or has changed meanwhile.
GetsSaved(f, got, lost) == st.server[f].whole => lost \/ got = st.server[f].v

\* The replacing of a local file keeps the invariant.
LEMMA ReplacedKeeps ==
  ASSUME SyncInv, part' = part, NEW t \in SyncThreads, st.threads[t].pc = "get", NEW got, got # Nil,
         NEW f, f = files[st.threads[t].i], NEW lost \in BOOLEAN, Replaced(t, f, got, lost),
         GetsSaved(f, got, lost)
  PROVE  SyncInv'
<1>1. SyncShape /\ f \in fileSet /\ st.run \in SyncScenarios
  <2>1. SyncShape /\ ThreadOK(t)
    BY Zenon DEF SyncInv
  <2>2. st.run \in SyncScenarios /\ st.threads[t].i \in 1..Len(files)
    BY <2>1, Zenon DEF SyncShape, ThreadOK
  <2> QED BY <2>1, <2>2, FilesFacts, Zenon
<1>6. /\ DOMAIN st' = SyncFields /\ st'.run = st.run /\ st'.server = st.server
      /\ st'.saving = st.saving /\ st'.started = st.started /\ DOMAIN st'.lock = st.run.workers
      /\ st'.loaded = st.loaded /\ st'.sums = st.sums /\ st'.torn = st.torn /\ st'.failed = st.failed
      /\ DOMAIN st'.threads = SyncThreads /\ ThreadShape(st'.threads[t]) /\ Synced(st'.threads[t], TRUE)
  BY Zenon DEF Replaced
<1>7. /\ DOMAIN st'.local = fileSet /\ DOMAIN st'.newer = fileSet /\ DOMAIN st'.lost = fileSet
      /\ DOMAIN st'.passed = st.run.workers
      /\ st'.local[f] = got /\ st'.lost[f] = lost
      /\ \A g \in fileSet : g # f => /\ st'.local[g] = st.local[g] /\ st'.newer[g] = st.newer[g]
                                     /\ st'.lost[g] = st.lost[g]
      /\ \A w \in st.run.workers : st.passed[w] \subseteq st'.passed[w] /\ (w # t[1] => f \in st'.passed[w])
  <2>1. DOMAIN st.local = fileSet /\ DOMAIN st.newer = fileSet /\ DOMAIN st.lost = fileSet
    BY <1>1, Zenon DEF SyncShape
  <2>2. st'.local = [st.local EXCEPT ![f] = got] /\ st'.newer = [st.newer EXCEPT ![f] = FALSE]
        /\ st'.lost = [st.lost EXCEPT ![f] = lost]
    BY Zenon DEF Replaced
  <2>3. st'.passed = [w \in st.run.workers |-> IF w = t[1] THEN st.passed[w] ELSE st.passed[w] \cup {f}]
    BY Zenon DEF Replaced
  <2>4. DOMAIN st'.passed = st.run.workers
    BY <2>3, Zenon
  <2>5. \A w \in st.run.workers : st.passed[w] \subseteq st'.passed[w] /\ (w # t[1] => f \in st'.passed[w])
    BY <2>3, Zenon
  <2> QED BY <1>1, <2>1, <2>2, <2>4, <2>5, Zenon
<1>8. ASSUME NEW u \in SyncThreads, u # t
      PROVE  /\ ThreadShape(st'.threads[u]) /\ st'.threads[u].pc = st.threads[u].pc
             /\ st'.threads[u].i = st.threads[u].i /\ st'.threads[u].updated = st.threads[u].updated
             /\ st'.threads[u].sums = st.threads[u].sums /\ st'.threads[u].new = st.threads[u].new
             /\ st.threads[u].pc \in {"sums", "load"} => st'.threads[u].stale = st.threads[u].stale \cup {f}
  <2>1. ThreadShape(st.threads[u])
    BY <1>1, Zenon DEF SyncShape
  <2>2. st'.threads[u] = IF st.threads[u].pc \in {"sums", "load"}
                         THEN [st.threads[u] EXCEPT !.stale = st.threads[u].stale \cup {f}] ELSE st.threads[u]
    BY <1>8, Zenon DEF Replaced
  <2> QED BY <2>1, <2>2, Zenon DEF ThreadShape, ThreadFields
<1>9. /\ \A g \in fileSet : g # f => localFile(g)' = localFile(g)
      /\ localFile(f)' = got
  BY <1>7, Zenon DEF localFile
<1>10. SyncShape'
  <2>1. \A u \in SyncThreads : ThreadShape(st'.threads[u])
    BY <1>6, <1>8, Zenon
  <2> QED BY <1>1, <1>6, <1>7, <2>1, SameRun, Zenon DEF SyncShape
<1>11. LocalFilesFollow'
  <2>1. LocalFilesFollow
    BY Zenon DEF SyncInv
  <2>2. fileSet' = fileSet
    BY <1>6, SameRun, Zenon
  <2> QED BY <1>6, <1>7, <1>9, <2>1, <2>2, Zenon DEF LocalFilesFollow, GetsSaved
<1>12. ThreadOK(t)' /\ \A g \in fileSet : Notices(t, g)'
  BY <1>1, <1>6, SyncedThread, Zenon
<1>13. ASSUME NEW u \in SyncThreads, u # t PROVE ThreadOK(u)'
  <2>1. ThreadOK(u)
    BY Zenon DEF SyncInv
  <2>2. /\ st'.threads[u].pc = st.threads[u].pc
        /\ st'.threads[u].i = st.threads[u].i
        /\ st'.threads[u].sums = st.threads[u].sums /\ st'.threads[u].new = st.threads[u].new
        /\ st.threads[u].pc \in {"sums", "load"} => st'.threads[u].stale = st.threads[u].stale \cup {f}
    BY <1>8, <1>13, Zenon
  <2>3. /\ files' = files /\ fileSet' = fileSet /\ baseFiles' = baseFiles /\ gatedFiles' = gatedFiles
    BY <1>6, SameRun, Zenon
  <2>4. /\ ReadFiles(st.threads[u])' = ReadFiles(st.threads[u])
        /\ toLoad(st.threads[u])' = toLoad(st.threads[u])
    BY <1>6, <2>2, <2>3, Zenon DEF ReadFiles, FirstFiles, toLoad
  <2>5. LoadedFiles(st.threads[u])' = LoadedFiles(st.threads[u])
    BY <2>2, <2>4, Zenon DEF LoadedFiles
  <2>6. \A g \in fileSet : localFile(g)' = localFile(g) \/ (g = f /\ localFile(g)' # Nil)
    BY <1>9, Zenon
  <2>7. CASE st.threads[u].pc \notin {"sums", "load"}
    BY <2>1, <2>2, <2>3, <2>7, Zenon DEF ThreadOK
  <2>8. CASE st.threads[u].pc = "sums"
    <3>1. ReadFiles(st.threads[u]) \subseteq fileSet
      BY <2>8, ThreadFiles, Zenon
    <3> QED BY <2>1, <2>2, <2>3, <2>4, <2>6, <2>8, <3>1, Zenon DEF ThreadOK
  <2>9. CASE st.threads[u].pc = "load"
    <3>1. DOMAIN st.threads[u].new \subseteq fileSet
      BY <2>9, ThreadFiles, Zenon
    <3>2. LoadsInOrder(st.threads[u])' \/ WithoutGated(st.threads[u])'
      BY <2>1, <2>2, <2>3, <2>4, <2>5, <2>9, Zenon DEF ThreadOK, LoadsInOrder, WithoutGated
    <3> QED BY <2>1, <2>2, <2>3, <2>4, <2>6, <2>9, <3>1, <3>2, Zenon DEF ThreadOK
  <2> QED BY <2>7, <2>8, <2>9, Zenon
<1>14. ASSUME NEW w \in st.run.workers, NEW g \in fileSet, FollowsFile(w, g) PROVE FollowsFile(w, g)'
  <2>1. CASE w = t[1]
    BY <1>12, <2>1, ThreadFacts, Zenon DEF FollowsFile
  <2>2. CASE w # t[1] /\ g = f
    BY <1>7, <2>2, Zenon DEF FollowsFile
  <2>3. CASE w # t[1] /\ g # f
    <3>1. ASSUME NEW k \in {"main", "loop"}, Notices(<<w, k>>, g) PROVE Notices(<<w, k>>, g)'
      <4>1. <<w, k>> \in SyncThreads /\ <<w, k>> # t
        <5>1. <<w, k>> \in SyncThreads
          BY ThreadFacts, Zenon
        <5>2. <<w, k>>[1] # t[1]
          BY <2>3, Zenon
        <5> QED BY <5>1, <5>2, Zenon
      <4>2. PICK u \in SyncThreads : u = <<w, k>> /\ u # t
        BY <4>1, Zenon
      <4>3. /\ st'.threads[u].pc = st.threads[u].pc /\ st'.threads[u].i = st.threads[u].i
            /\ st'.threads[u].updated = st.threads[u].updated /\ st'.threads[u].sums = st.threads[u].sums
        BY <1>8, <4>2, Zenon
      <4>4. ReadFiles(st.threads[u])' = ReadFiles(st.threads[u])
        BY <1>6, <4>3, SameRun, Zenon DEF ReadFiles, FirstFiles
      <4>5. localFile(g)' = localFile(g)
        BY <1>9, <2>3, Zenon
      <4>6. Notices(u, g)'
        BY <3>1, <4>2, <4>3, <4>4, <4>5, Zenon DEF Notices
      <4> QED BY <4>2, <4>6, Zenon
    <3> QED BY <1>6, <1>7, <1>9, <1>14, <2>3, <3>1, Zenon DEF FollowsFile
  <2> QED BY <2>1, <2>2, <2>3, Zenon
<1> QED BY <1>6, <1>9, <1>10, <1>11, <1>12, <1>13, <1>14, InformedKeeps, Zenon

\* The end of a download, with or without a new file, keeps the invariant.
LEMMA DownloadEndsKeeps ==
  ASSUME SyncInv, part' = part, NEW t \in SyncThreads, DownloadEnds(t)
  PROVE  SyncInv'
<1>1. CASE st' = syncedTo(t, st.threads[t].updated)
  BY <1>1, NotReplacedKeeps, Zenon DEF DownloadEnds
<1>2. CASE st' # syncedTo(t, st.threads[t].updated)
  <2>1. PICK f, got : f = files[st.threads[t].i] /\ got = st.threads[t].got
    BY Zenon
  <2>2. PICK lost \in BOOLEAN : lost = (st.server[f].v # got \/ ~st.server[f].whole)
    BY Zenon
  <2>3. PICK s : s = syncedTo(t, TRUE)
    BY Zenon
  <2>4. st.threads[t].pc = "get" /\ got # Nil
        /\ st' = [s EXCEPT
            !.local[f] = got, !.newer[f] = FALSE, !.lost[f] = lost,
            !.passed = [w \in st.run.workers |-> IF w = t[1] THEN @[w] ELSE @[w] \cup {f}],
            !.threads = [u \in SyncThreads |->
                IF u # t /\ @[u].pc \in {"sums", "load"}
                THEN [@[u] EXCEPT !.stale = st.threads[u].stale \cup {f}] ELSE @[u]]]
    BY <1>2, <2>1, <2>2, <2>3, Zenon DEF DownloadEnds
  <2>5. /\ DOMAIN s = SyncFields
        /\ \A x \in SyncFields \ {"threads", "lock"} : s[x] = st[x]
        /\ DOMAIN s.lock = st.run.workers /\ DOMAIN s.threads = SyncThreads
        /\ \A u \in SyncThreads : u # t => s.threads[u] = st.threads[u]
        /\ ThreadShape(s.threads[t]) /\ Synced(s.threads[t], TRUE)
    BY <2>3, <2>4, SyncedToFields, ZenonT(30)
  <2>6. PICK P : P = [w \in st.run.workers |-> IF w = t[1] THEN s.passed[w] ELSE s.passed[w] \cup {f}]
    BY Zenon
  <2>7. PICK T : T = [u \in SyncThreads |-> IF u # t /\ s.threads[u].pc \in {"sums", "load"}
                        THEN [s.threads[u] EXCEPT !.stale = st.threads[u].stale \cup {f}] ELSE s.threads[u]]
    BY Zenon
  <2>8. st' = [s EXCEPT !.local[f] = got, !.newer[f] = FALSE, !.lost[f] = lost, !.passed = P, !.threads = T]
    BY <2>4, <2>5, <2>6, <2>7, Zenon DEF SyncFields
  <2>9. /\ DOMAIN st' = SyncFields /\ st'.run = s.run /\ st'.server = s.server
        /\ st'.saving = s.saving /\ st'.started = s.started /\ st'.lock = s.lock
        /\ st'.loaded = s.loaded /\ st'.sums = s.sums /\ st'.torn = s.torn /\ st'.failed = s.failed
        /\ st'.local = [s.local EXCEPT ![f] = got] /\ st'.newer = [s.newer EXCEPT ![f] = FALSE]
        /\ st'.lost = [s.lost EXCEPT ![f] = lost] /\ st'.passed = P /\ st'.threads = T
    BY <2>5, <2>8, Zenon DEF SyncFields
  <2>10. /\ s.run = st.run /\ s.server = st.server /\ s.newer = st.newer
         /\ s.local = st.local /\ s.lost = st.lost /\ s.saving = st.saving /\ s.started = st.started
         /\ s.loaded = st.loaded /\ s.sums = st.sums /\ s.torn = st.torn /\ s.failed = st.failed /\ s.passed = st.passed
    BY <2>5, Zenon DEF SyncFields
  <2>11. DOMAIN T = SyncThreads /\ T[t] = s.threads[t]
         /\ \A u \in SyncThreads : u # t =>
              T[u] = IF st.threads[u].pc \in {"sums", "load"}
                     THEN [st.threads[u] EXCEPT !.stale = st.threads[u].stale \cup {f}] ELSE st.threads[u]
    BY <2>5, <2>7, Zenon
  <2>12. Replaced(t, f, got, lost)
    BY <2>5, <2>6, <2>9, <2>10, <2>11, Zenon DEF Replaced
  <2>13. GetsSaved(f, got, lost)
    BY <2>2, Zenon DEF GetsSaved
  <2> HIDE DEF Replaced
  <2> QED BY <2>1, <2>4, <2>12, <2>13, ReplacedKeeps, Zenon
<1> QED BY <1>1, <1>2, Zenon

-----------------------------------------------------------------------------
\* What a thread has read once it has read its file: the checksums of what is there.
SumsWith(th, f) == IF localFile(f) = Nil THEN th.sums ELSE With(th.sums, f, localFile(f))

ReadMore(th, f, sums) ==
  /\ f \in fileSet /\ th.i \in 1..Len(files) /\ Len(files) \in Nat
  /\ Lookup(sums, f, Nil) = localFile(f)
  /\ \A g \in fileSet : g # f => Lookup(sums, g, Nil) = Lookup(th.sums, g, Nil)
  /\ DOMAIN sums \subseteq ReadFiles(th) \cup {f}
  /\ \A g \in DOMAIN sums : g \in fileSet /\ localFile(g) # Nil
  /\ DOMAIN th.sums \subseteq DOMAIN sums
  /\ FirstFiles(th.i) = ReadFiles(th) \cup {f}
  /\ th.i = Len(files) => fileSet \subseteq ReadFiles(th) \cup {f}

\* With one more checksum read, the checksums are those of one more file.
LEMMA ReadOneMore ==
  ASSUME SyncInv, NEW t \in SyncThreads, NEW th, th = st.threads[t], th.pc = "sums",
         NEW f, f = files[th.i], NEW sums, sums = SumsWith(th, f)
  PROVE  ReadMore(th, f, sums)
<1>1. ThreadOK(t) /\ st.run \in SyncScenarios
  BY Zenon DEF SyncInv, SyncShape
<1>2. /\ Len(files) \in Nat /\ \A j \in 1..Len(files) : files[j] \in fileSet
      /\ \A g \in fileSet : \E j \in 1..Len(files) : files[j] = g
  BY <1>1, FilesFacts, Zenon
<1>3. /\ th.i \in 1..Len(files) /\ DOMAIN th.sums \subseteq ReadFiles(th)
      /\ \A g \in DOMAIN th.sums : g \in fileSet /\ localFile(g) # Nil
  BY <1>1, Zenon DEF ThreadOK
<1>4. f \in fileSet
  BY <1>2, <1>3, Zenon
<1>5. /\ Lookup(sums, f, Nil) = localFile(f)
      /\ \A g \in fileSet : g # f => Lookup(sums, g, Nil) = Lookup(th.sums, g, Nil)
      /\ DOMAIN th.sums \subseteq DOMAIN sums
      /\ DOMAIN sums \subseteq DOMAIN th.sums \cup {f}
      /\ f \in DOMAIN sums => localFile(f) # Nil
  <2>1. CASE localFile(f) = Nil
    BY <1>3, <2>1, Zenon DEF Lookup, SumsWith
  <2>2. CASE localFile(f) # Nil
    BY <2>2, Zenon DEF Lookup, With, SumsWith
  <2> QED BY <2>1, <2>2, Zenon
<1>6. FirstFiles(th.i) = ReadFiles(th) \cup {f}
  <2>1. \A j \in 1..th.i : j = th.i \/ j \in 1..(th.i - 1)
    BY <1>2, <1>3
  <2>2. th.i \in 1..th.i /\ \A j \in 1..(th.i - 1) : j \in 1..th.i
    BY <1>2, <1>3
  <2> QED BY <2>1, <2>2, Zenon DEF ReadFiles, FirstFiles
<1>7. th.i = Len(files) => fileSet \subseteq ReadFiles(th) \cup {f}
  BY <1>2, <1>6, Zenon DEF FirstFiles
<1> QED BY <1>2, <1>3, <1>4, <1>5, <1>6, <1>7, Zenon DEF ReadMore

\* A step of a thread that only marks its own worker's files as seen.
ThreadStep(t, th, P) == st' = [st EXCEPT !.passed[t[1]] = P, !.threads[t] = th]
StepFrame(t, th, P) ==
  /\ OneThread(t) /\ st'.loaded = st.loaded /\ st'.sums = st.sums /\ st'.torn = st.torn /\ st'.failed = st.failed
  /\ st'.threads[t] = th /\ st'.passed[t[1]] = P

\* Such a step leaves the other threads and workers, and the models, alone.
LEMMA ReadFrame ==
  ASSUME SyncInv, NEW t \in SyncThreads, NEW th, NEW P, ThreadShape(th), ThreadStep(t, th, P)
  PROVE  StepFrame(t, th, P)
<1>1. SyncShape /\ t[1] \in st.run.workers
  BY ThreadFacts, Zenon DEF SyncInv
<1>2. /\ DOMAIN st' = SyncFields /\ st'.run = st.run /\ st'.server = st.server /\ st'.newer = st.newer
      /\ st'.local = st.local /\ st'.lost = st.lost /\ st'.saving = st.saving
      /\ st'.loaded = st.loaded /\ st'.sums = st.sums /\ st'.torn = st.torn /\ st'.failed = st.failed /\ st'.lock = st.lock
      /\ st'.started = st.started
      /\ st'.passed = [st.passed EXCEPT ![t[1]] = P] /\ st'.threads = [st.threads EXCEPT ![t] = th]
  BY <1>1, Zenon DEF SyncShape, SyncFields, ThreadStep
<1>3. /\ DOMAIN st'.passed = st.run.workers /\ DOMAIN st'.threads = SyncThreads
      /\ st'.threads[t] = th /\ st'.passed[t[1]] = P
      /\ \A w \in st.run.workers : w # t[1] => st'.passed[w] = st.passed[w]
      /\ \A u \in SyncThreads : u # t => st'.threads[u] = st.threads[u]
  <2>1. DOMAIN st.passed = st.run.workers /\ DOMAIN st.threads = SyncThreads
    BY <1>1, Zenon DEF SyncShape
  <2>2. PICK w \in st.run.workers : w = t[1]
    BY <1>1, Zenon
  <2>3. /\ DOMAIN st'.passed = st.run.workers /\ st'.passed[w] = P
        /\ \A v \in st.run.workers : v # w => st'.passed[v] = st.passed[v]
    BY <1>2, <2>1, <2>2, Zenon
  <2>4. /\ DOMAIN st'.threads = SyncThreads /\ st'.threads[t] = th
        /\ \A u \in SyncThreads : u # t => st'.threads[u] = st.threads[u]
    BY <1>2, <2>1, Zenon
  <2> QED BY <2>2, <2>3, <2>4, Zenon
<1> QED BY <1>1, <1>2, <1>3, Zenon DEF SyncShape, OneThread, StepFrame

\* A checksum is read, and the thread goes on, with the next or with the loading.
ReadOn(t, th, f, sums, new) ==
  /\ ThreadShape(new) /\ new.sums = sums /\ new.stale = th.stale \ {f} /\ new.new = th.new
  /\ \/ new.pc = "sums" /\ new.i = th.i + 1 /\ th.i # Len(files)
     \/ new.pc = "load" /\ new.i = 1 /\ th.i = Len(files)
  /\ OneThread(t) /\ st'.loaded = st.loaded /\ st'.sums = st.sums /\ st'.torn = st.torn /\ st'.failed = st.failed
  /\ st'.threads[t] = new /\ st'.passed[t[1]] = st.passed[t[1]] \ {f}

\* The reading of a checksum keeps the invariant.
LEMMA ReadOnKeeps ==
  ASSUME SyncInv, part' = part, NEW t \in SyncThreads, NEW th, th = st.threads[t], th.pc = "sums",
         NEW f, f = files[th.i], NEW sums, sums = SumsWith(th, f), NEW new,
         f \in baseFiles => localFile(f) # Nil, ReadOn(t, th, f, sums, new)
  PROVE  SyncInv'
<1>1. SyncShape /\ ThreadShape(th) /\ ThreadOK(t)
  BY Zenon DEF SyncInv, SyncShape
<1>2. /\ f \in fileSet /\ th.i \in 1..Len(files) /\ Len(files) \in Nat
      /\ Lookup(sums, f, Nil) = localFile(f)
      /\ \A g \in fileSet : g # f => Lookup(sums, g, Nil) = Lookup(th.sums, g, Nil)
      /\ DOMAIN sums \subseteq ReadFiles(th) \cup {f}
      /\ \A g \in DOMAIN sums : g \in fileSet /\ localFile(g) # Nil
      /\ DOMAIN th.sums \subseteq DOMAIN sums
      /\ FirstFiles(th.i) = ReadFiles(th) \cup {f}
      /\ th.i = Len(files) => fileSet \subseteq ReadFiles(th) \cup {f}
  <2>1. ReadMore(th, f, sums)
    BY ReadOneMore, Zenon
  <2> QED BY <2>1, Zenon DEF ReadMore
<1>3. /\ ThreadShape(new) /\ new.sums = sums /\ new.stale = th.stale \ {f} /\ new.new = th.new
      /\ \/ new.pc = "sums" /\ new.i = th.i + 1 /\ th.i # Len(files)
         \/ new.pc = "load" /\ new.i = 1 /\ th.i = Len(files)
  BY Zenon DEF ReadOn
<1>4. /\ OneThread(t) /\ st'.loaded = st.loaded /\ st'.sums = st.sums /\ st'.torn = st.torn /\ st'.failed = st.failed
      /\ st'.threads[t] = new /\ st'.passed[t[1]] = st.passed[t[1]] \ {f}
  BY Zenon DEF ReadOn
<1>5. st'.run = st.run /\ st'.local = st.local
  BY <1>4, Zenon DEF OneThread
<1>6. /\ files' = files /\ fileSet' = fileSet /\ baseFiles' = baseFiles /\ gatedFiles' = gatedFiles
      /\ \A g : localFile(g)' = localFile(g)
  BY <1>5, SameRun, Zenon DEF localFile
<1>7. /\ DOMAIN th.new = {} /\ baseFiles \subseteq fileSet
      /\ \A g \in ReadFiles(th) : Lookup(th.sums, g, Nil) = localFile(g) \/ g \in th.stale
      /\ \A b \in baseFiles : b \in ReadFiles(th) => b \in DOMAIN th.sums
  BY <1>1, FilesFacts, Zenon DEF ThreadOK, SyncShape
<1>8. /\ ReadFiles(th) \subseteq fileSet
      /\ \A g \in ReadFiles(th) \cup {f} : Lookup(sums, g, Nil) = localFile(g) \/ g \in new.stale
      /\ \A b \in baseFiles : b \in ReadFiles(th) \cup {f} => b \in DOMAIN sums
  <2>1. ReadFiles(th) \subseteq fileSet
    BY ThreadFiles, Zenon
  <2>2. \A g \in ReadFiles(th) \cup {f} : Lookup(sums, g, Nil) = localFile(g) \/ g \in new.stale
    BY <1>2, <1>3, <1>7, <2>1, Zenon
  <2>3. f \in baseFiles => f \in DOMAIN sums
    BY Zenon DEF With, SumsWith
  <2> QED BY <1>2, <1>7, <2>1, <2>2, <2>3, Zenon
<1>9. CASE new.pc = "sums"
  <2>1. new.i = th.i + 1 /\ th.i + 1 \in 1..Len(files) /\ (th.i + 1) - 1 = th.i
    <3>1. new.i = th.i + 1 /\ th.i # Len(files)
      BY <1>3, <1>9, Zenon
    <3>2. th.i \in 1..Len(files) /\ Len(files) \in Nat
      BY <1>2, Zenon
    <3> QED BY <3>1, <3>2
  <2>2. ReadFiles(st.threads[t])' = ReadFiles(th) \cup {f}
    <3>1. ReadFiles(st.threads[t])' = FirstFiles(new.i - 1)'
      BY <1>4, Zenon DEF ReadFiles
    <3>2. new.i - 1 = th.i
      BY <2>1, Zenon
    <3>3. FirstFiles(th.i)' = FirstFiles(th.i)
      BY <1>6, Zenon DEF FirstFiles
    <3>4. FirstFiles(new.i - 1)' = FirstFiles(th.i)'
      BY <3>2, Zenon DEF FirstFiles
    <3> QED BY <1>2, <3>1, <3>3, <3>4, Zenon
  <2>3. ThreadOK(t)'
    BY <1>2, <1>3, <1>4, <1>6, <1>7, <1>8, <1>9, <2>1, <2>2, Zenon DEF ThreadOK
  <2>4. ASSUME NEW g \in fileSet, Notices(t, g) PROVE Notices(t, g)'
    <3>1. g \notin ReadFiles(th) \/ Lookup(th.sums, g, Nil) = localFile(g)
      BY <2>4, Zenon DEF Notices
    <3>2. g \notin ReadFiles(th) \cup {f} \/ Lookup(sums, g, Nil) = localFile(g)
      BY <1>2, <3>1, Zenon
    <3> QED BY <1>3, <1>4, <1>6, <1>9, <2>2, <3>2, Zenon DEF Notices
  <2>5. Notices(t, f)'
    BY <1>2, <1>3, <1>4, <1>6, <1>9, Zenon DEF Notices
  <2> QED BY <1>4, <2>3, <2>4, <2>5, ThreadKeeps, Zenon
<1>10. CASE new.pc = "load"
  <2>1. fileSet \subseteq ReadFiles(th) \cup {f} /\ new.i = 1
    BY <1>2, <1>3, <1>10, Zenon
  <2>2. LoadedFiles(st.threads[t])' = {}
    <3>1. 1..(1 - 1) = {}
      OBVIOUS
    <3> QED BY <1>4, <2>1, <3>1, Zenon DEF LoadedFiles
  <2>3. 1 \in 1..(Len(toLoad(st.threads[t])') + 1)
    <3>1. toLoad(st.threads[t])' = files \/ toLoad(st.threads[t])' = st.run.base
      BY <1>5, <1>6, Zenon DEF toLoad
    <3>2. Len(files) \in Nat /\ Len(st.run.base) \in Nat
      BY <1>1, FilesFacts, Zenon DEF SyncShape
    <3> QED BY <3>1, <3>2
  <2>6. LoadsInOrder(st.threads[t])'
    BY <1>3, <1>4, <1>7, <2>2, Zenon DEF LoadsInOrder
  <2>4. ThreadOK(t)'
    BY <1>2, <1>3, <1>4, <1>6, <1>7, <1>8, <1>10, <2>1, <2>3, <2>6, Zenon DEF ThreadOK
  <2>5. \A g \in fileSet : Notices(t, g)'
    BY <1>4, <1>10, Zenon DEF Notices
  <2> QED BY <1>4, <2>4, <2>5, ThreadKeeps, Zenon
<1> QED BY <1>3, <1>9, <1>10, Zenon

\* load_models returns without loading.
LEMMA ReturnKeeps ==
  ASSUME SyncInv, part' = part, NEW t \in SyncThreads, OneThread(t), st'.threads[t].pc = "idle",
         st'.loaded = st.loaded, st'.sums = st.sums, st'.torn = st.torn, st'.failed = st.failed, FollowsFiles(t[1])'
  PROVE  SyncInv'
<1>1. PICK w \in st.run.workers : w = t[1]
  BY ThreadFacts, Zenon
<1>2. LoadedBySums(w) /\ FailuresKnown(w) /\ st'.run = st.run /\ st'.local = st.local
  BY Zenon DEF SyncInv, OneThread
<1>3. LoadedBySums(w)'
  BY <1>2, SameRun, Zenon DEF LoadedBySums, NothingLoaded, localFile
<1>5. FailuresKnown(w)'
  BY <1>2, SameRun, Zenon DEF FailuresKnown, localFile
<1>4. ThreadOK(t)'
  BY Zenon DEF ThreadOK
<1> QED BY <1>1, <1>3, <1>4, <1>5, WorkerKeeps, Zenon

\* What returns leaves alone.
LEMMA ReturnsFields ==
  ASSUME SyncInv, NEW t \in SyncThreads
  PROVE  LET s == returns(t) IN
         /\ DOMAIN s = SyncFields
         /\ s.run = st.run /\ s.server = st.server /\ s.newer = st.newer /\ s.local = st.local
         /\ s.lost = st.lost /\ s.saving = st.saving /\ s.loaded = st.loaded /\ s.sums = st.sums
         /\ s.torn = st.torn /\ s.failed = st.failed /\ s.passed = st.passed /\ s.lock = st.lock
         /\ DOMAIN s.started = st.run.workers /\ DOMAIN s.threads = SyncThreads /\ s.threads[t] = idleThread
         /\ \A u \in SyncThreads : u # t => s.threads[u] = st.threads[u]
         /\ ThreadShape(idleThread) /\ idleThread.pc = "idle"
<1>1. SyncShape
  BY Zenon DEF SyncInv
<1>2. PICK th : th = idleThread
  BY Zenon
<1>3. ThreadShape(idleThread) /\ idleThread.pc = "idle"
  BY Zenon DEF idleThread, ThreadShape, ThreadFields
<1>4. PICK s : s = returns(t)
  BY Zenon
<1>5. s = [st EXCEPT !.threads[t] = th, !.started[t[1]] = TRUE]
  BY <1>2, <1>4, Zenon DEF returns
<1>6. /\ DOMAIN s = SyncFields
      /\ s.run = st.run /\ s.server = st.server /\ s.newer = st.newer /\ s.local = st.local
      /\ s.lost = st.lost /\ s.saving = st.saving /\ s.loaded = st.loaded /\ s.sums = st.sums
      /\ s.torn = st.torn /\ s.failed = st.failed /\ s.passed = st.passed /\ s.lock = st.lock
      /\ s.threads = [st.threads EXCEPT ![t] = th] /\ s.started = [st.started EXCEPT ![t[1]] = TRUE]
  BY <1>1, <1>5, Zenon DEF SyncShape, SyncFields
<1>7. DOMAIN st.threads = SyncThreads /\ DOMAIN st.started = st.run.workers
  BY <1>1, Zenon DEF SyncShape
<1>8. /\ DOMAIN s.started = st.run.workers /\ DOMAIN s.threads = SyncThreads /\ s.threads[t] = th
      /\ \A u \in SyncThreads : u # t => s.threads[u] = st.threads[u]
  BY <1>6, <1>7, Zenon
<1> QED BY <1>2, <1>3, <1>4, <1>6, <1>8, Zenon

\* Without a base file nothing is loaded, and nothing has ever been.
LEMMA GivesUpKeeps ==
  ASSUME SyncInv, part' = part, NEW t \in SyncThreads, NEW f \in baseFiles, localFile(f) = Nil, st' = returns(t)
  PROVE  SyncInv'
<1>1. SyncShape
  BY Zenon DEF SyncInv
<1>2. PICK s : s = returns(t)
  BY Zenon
<1>3. /\ DOMAIN s = SyncFields
      /\ s.run = st.run /\ s.server = st.server /\ s.newer = st.newer /\ s.local = st.local
      /\ s.lost = st.lost /\ s.saving = st.saving /\ s.loaded = st.loaded /\ s.sums = st.sums
      /\ s.torn = st.torn /\ s.failed = st.failed /\ s.passed = st.passed /\ s.lock = st.lock
      /\ DOMAIN s.started = st.run.workers /\ DOMAIN s.threads = SyncThreads
      /\ \A u \in SyncThreads : u # t => s.threads[u] = st.threads[u]
      /\ ThreadShape(s.threads[t]) /\ s.threads[t].pc = "idle"
  BY <1>2, ReturnsFields, Zenon
<1>4. s.run = st.run /\ s.local = st.local /\ s.passed = st.passed
  BY <1>3, Zenon
<1>5. st' = s
  BY <1>2, Zenon
<1>6. /\ OneThread(t) /\ st'.threads[t].pc = "idle"
      /\ st'.loaded = st.loaded /\ st'.sums = st.sums /\ st'.torn = st.torn /\ st'.failed = st.failed
  BY <1>1, <1>3, <1>4, <1>5, Zenon DEF OneThread, SyncShape
<1>7. PICK w \in st.run.workers : w = t[1]
  BY ThreadFacts, Zenon
<1>8. NothingLoaded(w)
  <2>1. LoadedBySums(w)
    BY Zenon DEF SyncInv
  <2> QED BY <2>1, Zenon DEF LoadedBySums
<1>9. baseFiles' = baseFiles /\ localFile(f)' = Nil /\ NothingLoaded(w)'
  <2>1. baseFiles' = baseFiles
    BY <1>4, <1>5, SameRun, Zenon
  <2>2. localFile(f)' = Nil
    BY <1>4, <1>5, Zenon DEF localFile
  <2>3. NothingLoaded(w)'
    BY <1>6, <1>8, Zenon DEF NothingLoaded
  <2> QED BY <2>1, <2>2, <2>3, Zenon
<1>10. FollowsFile(w, f)'
  BY <1>9, Zenon DEF FollowsFile, NothingLoaded, Lookup
<1>11. FollowsFiles(w)'
  BY <1>9, <1>10, Zenon DEF FollowsFiles
<1> HIDE DEF OneThread
<1> QED BY <1>6, <1>7, <1>11, ReturnKeeps, Zenon

\* All the checksums are those of the models: nothing is loaded.
SkipsLoad(t, f) == st' = [returns(t) EXCEPT !.passed[t[1]] = @ \ {f}]

\* The return without a load keeps the invariant.
LEMMA UnchangedKeeps ==
  ASSUME SyncInv, part' = part, NEW t \in SyncThreads, NEW th, th = st.threads[t], th.pc = "sums",
         NEW f, f = files[th.i], SumsWith(th, f) = st.sums[t[1]], th.i = Len(files), syncReady(t[1]),
         SkipsLoad(t, f)
  PROVE  SyncInv'
<1>1. SyncShape
  BY Zenon DEF SyncInv
<1>2. PICK s : s = returns(t)
  BY Zenon
<1>3. /\ DOMAIN s = SyncFields
      /\ s.run = st.run /\ s.server = st.server /\ s.newer = st.newer /\ s.local = st.local
      /\ s.lost = st.lost /\ s.saving = st.saving /\ s.loaded = st.loaded /\ s.sums = st.sums
      /\ s.torn = st.torn /\ s.failed = st.failed /\ s.passed = st.passed /\ s.lock = st.lock
      /\ DOMAIN s.started = st.run.workers /\ DOMAIN s.threads = SyncThreads
      /\ \A u \in SyncThreads : u # t => s.threads[u] = st.threads[u]
      /\ ThreadShape(s.threads[t]) /\ s.threads[t].pc = "idle"
  BY <1>2, ReturnsFields, Zenon
<1>4. s.run = st.run /\ s.local = st.local /\ s.passed = st.passed
  BY <1>3, Zenon
<1>5. PICK w \in st.run.workers : w = t[1]
  BY ThreadFacts, Zenon
<1>6. PICK P : P = [st.passed EXCEPT ![w] = st.passed[w] \ {f}]
  BY Zenon
<1>7. /\ DOMAIN st' = SyncFields /\ st'.run = s.run /\ st'.server = s.server /\ st'.newer = s.newer
      /\ st'.local = s.local /\ st'.lost = s.lost /\ st'.saving = s.saving /\ st'.loaded = s.loaded
      /\ st'.sums = s.sums /\ st'.torn = s.torn /\ st'.failed = s.failed /\ st'.lock = s.lock /\ st'.threads = s.threads
      /\ st'.started = s.started /\ st'.passed = P
  <2>1. st' = [s EXCEPT !.passed = P]
    BY <1>2, <1>4, <1>5, <1>6, Zenon DEF SkipsLoad
  <2> QED BY <1>3, <2>1, Zenon DEF SyncFields
<1>8. /\ DOMAIN P = st.run.workers /\ P[w] = st.passed[w] \ {f}
      /\ \A v \in st.run.workers : v # w => P[v] = st.passed[v]
  <2>1. DOMAIN st.passed = st.run.workers
    BY <1>1, Zenon DEF SyncShape
  <2> QED BY <1>6, <2>1, Zenon
<1>9. /\ OneThread(t) /\ st'.threads[t].pc = "idle"
      /\ st'.loaded = st.loaded /\ st'.sums = st.sums /\ st'.torn = st.torn /\ st'.failed = st.failed
  <2>1. /\ DOMAIN st.loaded = st.run.workers /\ DOMAIN st.sums = st.run.workers
        /\ DOMAIN st.torn = st.run.workers /\ DOMAIN st.failed = st.run.workers /\ DOMAIN st.lock = st.run.workers
    BY <1>1, Zenon DEF SyncShape
  <2>2. /\ st'.run = st.run /\ st'.server = st.server /\ st'.newer = st.newer
        /\ st'.local = st.local /\ st'.lost = st.lost /\ st'.saving = st.saving /\ st'.loaded = st.loaded
        /\ st'.sums = st.sums /\ st'.torn = st.torn /\ st'.failed = st.failed /\ st'.lock = st.lock
    BY <1>3, <1>7, Zenon
  <2>3. /\ DOMAIN st'.started = st.run.workers /\ DOMAIN st'.threads = SyncThreads
        /\ \A u \in SyncThreads : u # t => st'.threads[u] = st.threads[u]
        /\ ThreadShape(st'.threads[t]) /\ st'.threads[t].pc = "idle"
    BY <1>3, <1>7, Zenon
  <2>4. DOMAIN st' = SyncFields /\ DOMAIN st'.passed = st.run.workers
        /\ \A v \in st.run.workers : v # t[1] => st'.passed[v] = st.passed[v]
    BY <1>5, <1>7, <1>8, Zenon
  <2> QED BY <2>1, <2>2, <2>3, <2>4, Zenon DEF OneThread
<1>10. PICK sums : sums = SumsWith(th, f)
  BY Zenon
<1>11. /\ f \in fileSet /\ Lookup(sums, f, Nil) = localFile(f)
       /\ \A g \in fileSet : g # f => Lookup(sums, g, Nil) = Lookup(th.sums, g, Nil)
       /\ fileSet \subseteq ReadFiles(th) \cup {f}
  <2>1. ReadMore(th, f, sums)
    BY <1>10, ReadOneMore, Zenon
  <2> QED BY <2>1, Zenon DEF ReadMore
<1>12. /\ files' = files /\ fileSet' = fileSet /\ baseFiles' = baseFiles
       /\ \A g : localFile(g)' = localFile(g)
  BY <1>4, <1>7, SameRun, Zenon DEF localFile
<1>13. \A g \in fileSet : FollowsFile(w, g) \/ g \in st.failed[w]
  <2>1. FollowsFiles(w)
    BY Zenon DEF SyncInv
  <2>2. ~NothingLoaded(w)
    <3>1. baseFiles # {}
      BY <1>1, FilesFacts, Zenon DEF SyncShape
    <3> QED BY <1>5, <3>1, Zenon DEF NothingLoaded, syncReady
  <2> QED BY <2>1, <2>2, Zenon DEF FollowsFiles
<1>14. ASSUME NEW g \in fileSet, g \notin st.failed[w] PROVE FollowsFile(w, g)'
  <2>1. ASSUME Lookup(sums, g, Nil) = localFile(g) PROVE FollowsFile(w, g)'
    BY <1>5, <1>9, <1>10, <1>12, <2>1, Zenon DEF FollowsFile
  <2>2. CASE g = f
    BY <1>11, <2>1, <2>2, Zenon
  <2>3. CASE g # f
    <3>1. ASSUME Notices(t, g) PROVE Lookup(sums, g, Nil) = localFile(g)
      BY <1>11, <2>3, <3>1, Zenon DEF Notices
    <3>2. ASSUME NEW k \in {"main", "loop"}, Notices(<<w, k>>, g), <<w, k>> # t PROVE Notices(<<w, k>>, g)'
      <4>1. PICK u \in SyncThreads : u = <<w, k>>
        BY ThreadFacts, Zenon
      <4>2. st'.threads[u] = st.threads[u]
        BY <1>3, <1>7, <3>2, <4>1, Zenon
      <4>3. Notices(u, g)'
        BY <1>12, <3>2, <4>1, <4>2, Zenon DEF Notices, ReadFiles, FirstFiles
      <4> QED BY <4>1, <4>3, Zenon
    <3>3. g \in st.passed[w] => g \in st'.passed[w]
      BY <1>7, <1>8, <2>3, Zenon
    <3>4. FollowsFile(w, g)
      BY <1>13, <1>14, Zenon
    <3> QED BY <1>9, <1>12, <2>1, <3>1, <3>2, <3>3, <3>4, Zenon DEF FollowsFile
  <2> QED BY <2>2, <2>3, Zenon
<1>15. FollowsFiles(w)'
  BY <1>9, <1>12, <1>14, Zenon DEF FollowsFiles
<1> QED BY <1>5, <1>9, <1>15, ReturnKeeps, Zenon

\* load_models reads the checksum of one more file.
LEMMA ReadChecksumKeeps ==
  ASSUME SyncInv, part' = part, NEW t \in SyncThreads, ReadChecksum(t)
  PROVE  SyncInv'
<1>1. PICK th, f : th = st.threads[t] /\ f = files[th.i]
  BY Zenon
<1>2. PICK sums : sums = SumsWith(th, f)
  BY Zenon
<1>3. /\ th.pc = "sums"
      /\ st' = IF localFile(f) = Nil /\ f \in baseFiles THEN returns(t)
               ELSE IF ~(th.i = Len(files))
               THEN [[st EXCEPT !.passed[t[1]] = @ \ {f}] EXCEPT
                       !.threads[t] = [[th EXCEPT !.sums = sums, !.stale = th.stale \ {f}] EXCEPT !.i = th.i + 1]]
               ELSE IF syncReady(t[1]) /\ sums = st.sums[t[1]] THEN [returns(t) EXCEPT !.passed[t[1]] = @ \ {f}]
               ELSE [[st EXCEPT !.passed[t[1]] = @ \ {f}] EXCEPT
                       !.threads[t] = [[th EXCEPT !.sums = sums, !.stale = th.stale \ {f}] EXCEPT !.i = 1, !.pc = "load"]]
  BY <1>1, <1>2, Zenon DEF ReadChecksum, SumsWith
<1>4. SyncShape /\ ThreadShape(th)
  BY <1>1, Zenon DEF SyncInv, SyncShape
<1>5. CASE localFile(f) = Nil /\ f \in baseFiles
  <2>1. st' = returns(t)
    BY <1>3, <1>5, Zenon
  <2> QED BY <1>5, <2>1, GivesUpKeeps, Zenon
<1>6. ASSUME ~(localFile(f) = Nil /\ f \in baseFiles), th.i = Len(files), syncReady(t[1]), sums = st.sums[t[1]]
      PROVE  SyncInv'
  <2>1. SkipsLoad(t, f)
    BY <1>3, <1>6, Zenon DEF SkipsLoad
  <2> QED BY <1>1, <1>2, <1>3, <1>6, <2>1, UnchangedKeeps, Zenon
<1>7. ASSUME ~(localFile(f) = Nil /\ f \in baseFiles), th.i = Len(files) => ~(syncReady(t[1]) /\ sums = st.sums[t[1]])
      PROVE  SyncInv'
  <2>1. PICK new : new = IF th.i = Len(files)
                         THEN [[th EXCEPT !.sums = sums, !.stale = th.stale \ {f}] EXCEPT !.i = 1, !.pc = "load"]
                         ELSE [[th EXCEPT !.sums = sums, !.stale = th.stale \ {f}] EXCEPT !.i = th.i + 1]
    BY Zenon
  <2>2. st' = [[st EXCEPT !.passed[t[1]] = @ \ {f}] EXCEPT !.threads[t] = new]
    BY <1>3, <1>7, <2>1, Zenon
  <2>3. /\ ThreadShape(new) /\ new.sums = sums /\ new.stale = th.stale \ {f} /\ new.new = th.new
        /\ \/ new.pc = "sums" /\ new.i = th.i + 1 /\ th.i # Len(files)
           \/ new.pc = "load" /\ new.i = 1 /\ th.i = Len(files)
    <3>1. CASE th.i = Len(files)
      BY <1>4, <2>1, <3>1, Zenon DEF ThreadShape, ThreadFields
    <3>2. CASE th.i # Len(files)
      BY <1>3, <1>4, <2>1, <3>2 DEF ThreadShape, ThreadFields
    <3> QED BY <3>1, <3>2, Zenon
  <2>4. PICK P : P = st.passed[t[1]] \ {f}
    BY Zenon
  <2>5. ThreadStep(t, new, P)
    BY <1>4, <2>2, <2>4, Zenon DEF SyncShape, SyncFields, ThreadStep
  <2>6. StepFrame(t, new, P)
    BY <2>3, <2>5, ReadFrame, Zenon
  <2>7. ReadOn(t, th, f, sums, new)
    BY <2>3, <2>4, <2>6, Zenon DEF ReadOn, StepFrame
  <2> QED BY <1>1, <1>2, <1>3, <1>7, <2>7, ReadOnKeeps, Zenon
<1> QED BY <1>5, <1>6, <1>7, Zenon

\* load_models loads one more file.
LEMMA LoadFileKeeps ==
  ASSUME SyncInv, part' = part, NEW t \in SyncThreads, LoadFile(t)
  PROVE  SyncInv'
<1>1. PICK th : th = st.threads[t]
  BY Zenon
<1>2. PICK all : all = toLoad(th)
  BY Zenon
<1>3. PICK f : f = all[th.i]
  BY Zenon
<1>4. PICK m : m = With(th.new, f, localFile(f))
  BY Zenon
<1>5. /\ th.pc = "load" /\ th.i <= Len(all)
      /\ st' = [st EXCEPT !.threads[t] = [@ EXCEPT !.new = m, !.i = th.i + 1]]
  BY <1>1, <1>2, <1>3, <1>4, Zenon DEF LoadFile
<1>6. /\ SyncShape /\ ThreadShape(th) /\ ThreadOK(t) /\ t[1] \in st.run.workers /\ st.run \in SyncScenarios
  BY <1>1, ThreadFacts, Zenon DEF SyncInv, SyncShape
<1>7. PICK new : new = [th EXCEPT !.new = m, !.i = th.i + 1]
  BY Zenon
<1>9. /\ ThreadShape(new) /\ new.pc = "load" /\ new.i = th.i + 1 /\ new.sums = th.sums /\ new.stale = th.stale
      /\ new.new = m
  BY <1>5, <1>6, <1>7, SMTT(30) DEF ThreadShape, ThreadFields
<1>10. st' = [st EXCEPT !.threads[t] = new]
  BY <1>1, <1>5, <1>6, <1>7, Zenon DEF SyncShape, SyncFields
<1>11. /\ DOMAIN st' = SyncFields /\ st'.run = st.run /\ st'.server = st.server /\ st'.newer = st.newer
       /\ st'.local = st.local /\ st'.lost = st.lost /\ st'.saving = st.saving
       /\ st'.loaded = st.loaded /\ st'.sums = st.sums /\ st'.torn = st.torn /\ st'.failed = st.failed /\ st'.lock = st.lock
       /\ st'.started = st.started /\ st'.passed = st.passed
       /\ DOMAIN st'.threads = SyncThreads /\ st'.threads[t] = new
       /\ \A u \in SyncThreads : u # t => st'.threads[u] = st.threads[u]
  BY <1>6, <1>10, Zenon DEF SyncShape, SyncFields
<1>12. /\ OneThread(t) /\ st'.loaded = st.loaded /\ st'.sums = st.sums /\ st'.torn = st.torn /\ st'.failed = st.failed
       /\ st'.threads[t] = new /\ st'.passed[t[1]] = st.passed[t[1]]
       /\ st'.run = st.run /\ st'.local = st.local
  BY <1>6, <1>9, <1>11, Zenon DEF SyncShape, OneThread
<1>13. /\ toLoad(new)' = all /\ LoadedFiles(th) = {all[j] : j \in 1..(th.i - 1)}
       /\ LoadedFiles(new)' = {all[j] : j \in 1..th.i}
  <2>1. toLoad(new)' = all
    BY <1>2, <1>9, <1>12, SameRun, Zenon DEF toLoad
  <2>2. new.i - 1 = th.i
    BY <1>6, <1>9 DEF ThreadShape
  <2> QED BY <1>2, <2>1, <2>2, Zenon DEF LoadedFiles
<1>15. Len(all) \in Nat
  BY <1>2, <1>6, FilesFacts, Zenon DEF toLoad
<1>14. /\ th.i \in 1..(Len(all) + 1) /\ baseFiles \subseteq DOMAIN th.sums
       /\ DOMAIN th.new = {all[j] : j \in 1..(th.i - 1)}
       /\ \A g \in fileSet : Lookup(th.sums, g, Nil) = localFile(g) \/ g \in th.stale
       /\ \A g \in DOMAIN th.new : th.new[g] = localFile(g) \/ g \in th.stale
       /\ \A g \in DOMAIN th.sums : g \in fileSet /\ localFile(g) # Nil
  <2>1. ~(th.i = Len(all) + 1)
    BY <1>5, <1>6, <1>15 DEF ThreadShape
  <2>2. LoadsInOrder(th)
    BY <1>1, <1>2, <1>5, <1>6, <2>1, Zenon DEF ThreadOK, WithoutGated
  <2> QED BY <1>1, <1>2, <1>5, <1>6, <1>13, <2>2, Zenon DEF ThreadOK, LoadsInOrder
<1>16. /\ new.i \in 1..(Len(all) + 1)
       /\ {all[j] : j \in 1..th.i} = {all[j] : j \in 1..(th.i - 1)} \cup {f}
  BY <1>3, <1>5, <1>9, <1>14, <1>15
<1>17. /\ DOMAIN m = DOMAIN th.new \cup {f} /\ m[f] = localFile(f)
       /\ \A g \in DOMAIN th.new : g # f => m[g] = th.new[g]
  BY <1>4, Zenon DEF With
<1>18. ThreadOK(t)'
  <2>1. \A g \in DOMAIN m : m[g] = localFile(g) \/ g \in th.stale
    BY <1>14, <1>17, Zenon
  <2>2. LoadsInOrder(new)'
    BY <1>9, <1>13, <1>14, <1>16, <1>17, Zenon DEF LoadsInOrder
  <2>3. \A g : localFile(g)' = localFile(g)
    BY <1>12, Zenon DEF localFile
  <2>4. fileSet' = fileSet /\ baseFiles' = baseFiles
    BY <1>12, SameRun, Zenon
  <2> QED BY <1>9, <1>12, <1>13, <1>14, <1>16, <2>1, <2>2, <2>3, <2>4, Zenon DEF ThreadOK
<1>19. \A g \in fileSet : Notices(t, g)'
  BY <1>9, <1>12, Zenon DEF Notices
<1> QED BY <1>12, <1>18, <1>19, ThreadKeeps, Zenon

\* load_models gives up: what is not loaded is known to be left behind.
LEMMA LoadGivenUpKeeps ==
  ASSUME SyncInv, part' = part, NEW t \in SyncThreads,
         st' = [returns(t) EXCEPT !.failed[t[1]] = @ \cup notLoaded(t[1])]
  PROVE  SyncInv'
<1>1. SyncShape
  BY Zenon DEF SyncInv
<1>2. PICK s : s = returns(t)
  BY Zenon
<1>3. /\ DOMAIN s = SyncFields
      /\ s.run = st.run /\ s.server = st.server /\ s.newer = st.newer /\ s.local = st.local
      /\ s.lost = st.lost /\ s.saving = st.saving /\ s.loaded = st.loaded /\ s.sums = st.sums
      /\ s.torn = st.torn /\ s.failed = st.failed /\ s.passed = st.passed /\ s.lock = st.lock
      /\ DOMAIN s.started = st.run.workers /\ DOMAIN s.threads = SyncThreads
      /\ \A u \in SyncThreads : u # t => s.threads[u] = st.threads[u]
      /\ ThreadShape(s.threads[t]) /\ s.threads[t].pc = "idle"
  BY <1>2, ReturnsFields, Zenon
<1>4. PICK w \in st.run.workers : w = t[1]
  BY ThreadFacts, Zenon
<1>5. PICK F : F = [st.failed EXCEPT ![w] = st.failed[w] \cup notLoaded(w)]
  BY Zenon
<1>6. /\ DOMAIN st' = SyncFields /\ st'.run = s.run /\ st'.server = s.server /\ st'.newer = s.newer
      /\ st'.local = s.local /\ st'.lost = s.lost /\ st'.saving = s.saving /\ st'.loaded = s.loaded
      /\ st'.sums = s.sums /\ st'.torn = s.torn /\ st'.lock = s.lock /\ st'.threads = s.threads
      /\ st'.started = s.started /\ st'.passed = s.passed /\ st'.failed = F
  <2>1. s.failed = st.failed
    BY <1>3, Zenon
  <2>2. st' = [s EXCEPT !.failed = F]
    BY <1>2, <1>4, <1>5, <2>1, Zenon
  <2> QED BY <1>3, <2>2, Zenon DEF SyncFields
<1>7. /\ DOMAIN F = st.run.workers /\ F[w] = st.failed[w] \cup notLoaded(w)
      /\ \A v \in st.run.workers : v # w => F[v] = st.failed[v]
  <2>1. DOMAIN st.failed = st.run.workers
    BY <1>1, Zenon DEF SyncShape
  <2> QED BY <1>5, <2>1, Zenon
<1>8. /\ st'.run = st.run /\ st'.server = st.server /\ st'.newer = st.newer
      /\ st'.local = st.local /\ st'.lost = st.lost /\ st'.saving = st.saving /\ st'.loaded = st.loaded
      /\ st'.sums = st.sums /\ st'.torn = st.torn /\ st'.lock = st.lock /\ st'.passed = st.passed
  BY <1>3, <1>6, Zenon
<1>9. OneThread(t) /\ st'.threads[t].pc = "idle"
  <2>1. /\ DOMAIN st.loaded = st.run.workers /\ DOMAIN st.sums = st.run.workers
        /\ DOMAIN st.torn = st.run.workers /\ DOMAIN st.lock = st.run.workers
        /\ DOMAIN st.passed = st.run.workers
    BY <1>1, Zenon DEF SyncShape
  <2>2. /\ DOMAIN st'.started = st.run.workers /\ DOMAIN st'.threads = SyncThreads
        /\ \A u \in SyncThreads : u # t => st'.threads[u] = st.threads[u]
        /\ ThreadShape(st'.threads[t]) /\ st'.threads[t].pc = "idle"
    BY <1>3, <1>6, Zenon
  <2>3. DOMAIN st' = SyncFields /\ DOMAIN st'.failed = st.run.workers
        /\ \A v \in st.run.workers : v # t[1] => st'.failed[v] = st.failed[v]
    BY <1>4, <1>6, <1>7, Zenon
  <2> QED BY <1>8, <2>1, <2>2, <2>3, Zenon DEF OneThread
<1>10. /\ fileSet' = fileSet /\ baseFiles' = baseFiles /\ gatedFiles' = gatedFiles
       /\ \A g : localFile(g)' = localFile(g)
  BY <1>8, SameRun, Zenon DEF localFile
<1>11. st'.failed[w] = st.failed[w] \cup notLoaded(w)
  BY <1>6, <1>7, Zenon
<1>12. ThreadOK(t)'
  BY <1>9, Zenon DEF ThreadOK
<1>13. LoadedBySums(w) /\ FailuresKnown(w)
  BY Zenon DEF SyncInv
<1>14. LoadedBySums(w)'
  BY <1>8, <1>10, <1>11, <1>13, Zenon DEF LoadedBySums, NothingLoaded
<1>15. FailuresKnown(w)'
  <2>1. ASSUME NEW f \in DOMAIN st.sums[w], f \notin DOMAIN st.loaded[w] PROVE f \in notLoaded(w)
    BY <1>13, <2>1, Zenon DEF FailuresKnown, notLoaded, Lookup
  <2> QED BY <1>8, <1>10, <1>11, <1>13, <2>1, Zenon DEF FailuresKnown
<1>16. FollowsFiles(w)'
  <2>1. ASSUME NEW f \in fileSet PROVE FollowsFile(w, f)' \/ f \in st'.failed[w]
    <3>1. CASE f \in notLoaded(w)
      BY <1>11, <3>1, Zenon
    <3>2. CASE f \notin notLoaded(w)
      <4>1. Lookup(st.loaded[w], f, Nil) = localFile(f)
        BY <3>2, Zenon DEF notLoaded
      <4> QED BY <1>8, <1>10, <4>1, Zenon DEF FollowsFile
    <3> QED BY <3>1, <3>2, Zenon
  <2> QED BY <1>10, <2>1, Zenon DEF FollowsFiles
<1> QED BY <1>4, <1>9, <1>12, <1>14, <1>15, <1>16, WorkerKeeps, Zenon

\* A gated file cannot be read: the thread goes on without.
LEMMA LoadFailsKeeps ==
  ASSUME SyncInv, part' = part, NEW t \in SyncThreads, LoadFails(t)
  PROVE  SyncInv'
<1>1. PICK th : th = st.threads[t]
  BY Zenon
<1>2. CASE st' = [returns(t) EXCEPT !.failed[t[1]] = @ \cup notLoaded(t[1])]
  BY <1>2, LoadGivenUpKeeps, Zenon
<1>3. ASSUME th.pc = "load", Len(st.run.base) < th.i, th.i <= Len(toLoad(th)),
             st' = [st EXCEPT !.threads[t].i = Len(files) + 1]
      PROVE  SyncInv'
  <2>1. SyncShape /\ ThreadShape(th) /\ ThreadOK(t) /\ t[1] \in st.run.workers /\ st.run \in SyncScenarios
    BY <1>1, ThreadFacts, Zenon DEF SyncInv, SyncShape
  <2>2. PICK new : new = [th EXCEPT !.i = Len(files) + 1]
    BY Zenon
  <2>3. Len(files) \in Nat /\ Len(st.run.base) \in Nat /\ st.run.base \in Seq(fileSet)
    BY <2>1, FilesFacts, Zenon
  <2>4. Len(files) + 1 \in Nat
    BY <2>3
  <2>5. /\ ThreadShape(new) /\ new.pc = "load" /\ new.i = Len(files) + 1 /\ new.sums = th.sums
        /\ new.stale = th.stale /\ new.new = th.new
    BY <1>3, <2>1, <2>2, <2>4, Zenon DEF ThreadShape, ThreadFields
  <2>6. st' = [st EXCEPT !.threads[t] = new]
    BY <1>1, <1>3, <2>1, <2>2, Zenon DEF SyncShape, SyncFields
  <2>7. /\ DOMAIN st' = SyncFields /\ st'.run = st.run /\ st'.server = st.server /\ st'.newer = st.newer
        /\ st'.local = st.local /\ st'.lost = st.lost /\ st'.saving = st.saving
        /\ st'.loaded = st.loaded /\ st'.sums = st.sums /\ st'.torn = st.torn /\ st'.failed = st.failed
        /\ st'.lock = st.lock /\ st'.started = st.started /\ st'.passed = st.passed
        /\ DOMAIN st'.threads = SyncThreads /\ st'.threads[t] = new
        /\ \A u \in SyncThreads : u # t => st'.threads[u] = st.threads[u]
    BY <2>1, <2>6, Zenon DEF SyncShape, SyncFields
  <2>8. OneThread(t) /\ st'.passed[t[1]] = st.passed[t[1]]
    BY <2>1, <2>5, <2>7, Zenon DEF SyncShape, OneThread
  <2>9. ~(th.i <= Len(st.run.base))
    BY <1>3, <2>1, <2>3 DEF ThreadShape
  <2>10. gatedFiles \subseteq DOMAIN th.sums /\ toLoad(th) = files
    BY <1>3, <2>9, Zenon DEF toLoad
  <2>11. /\ fileSet' = fileSet /\ baseFiles' = baseFiles /\ gatedFiles' = gatedFiles /\ files' = files
         /\ \A g : localFile(g)' = localFile(g)
    BY <2>7, SameRun, Zenon DEF localFile
  <2>12. toLoad(new)' = files
    BY <2>5, <2>10, <2>11, Zenon DEF toLoad
  <2>13. baseFiles \subseteq DOMAIN th.new /\ DOMAIN th.new \subseteq fileSet
    <3>1. DOMAIN th.new \subseteq fileSet
      BY <1>1, <1>3, ThreadFiles, Zenon
    <3>2. LoadsInOrder(th)
      <4>1. ~(th.i = Len(files) + 1)
        BY <1>3, <2>1, <2>3, <2>10 DEF ThreadShape
      <4> QED BY <1>1, <1>3, <2>1, <2>10, <4>1, Zenon DEF ThreadOK, WithoutGated
    <3>3. DOMAIN th.new = {files[j] : j \in 1..(th.i - 1)}
      BY <2>10, <3>2, Zenon DEF LoadsInOrder, LoadedFiles
    <3>4. \A j \in 1..Len(st.run.base) : j \in 1..(th.i - 1)
      BY <1>3, <2>1, <2>3 DEF ThreadShape
    <3>5. \A b \in baseFiles : \E j \in 1..Len(st.run.base) : b = files[j]
      BY <2>1, BaseFirst, Zenon
    <3> QED BY <3>1, <3>3, <3>4, <3>5, Zenon
  <2>14. WithoutGated(new)'
    BY <2>5, <2>10, <2>11, <2>12, <2>13, Zenon DEF WithoutGated
  <2>15. new.i \in 1..(Len(files) + 1)
    BY <2>3, <2>5
  <2>16. ThreadOK(t)'
    <3>1. /\ baseFiles \subseteq DOMAIN th.sums
          /\ \A g \in fileSet : Lookup(th.sums, g, Nil) = localFile(g) \/ g \in th.stale
          /\ \A g \in DOMAIN th.new : th.new[g] = localFile(g) \/ g \in th.stale
          /\ \A g \in DOMAIN th.sums : g \in fileSet /\ localFile(g) # Nil
      BY <1>1, <1>3, <2>1, Zenon DEF ThreadOK
    <3> QED BY <2>5, <2>7, <2>11, <2>12, <2>14, <2>15, <3>1, Zenon DEF ThreadOK
  <2>17. \A g \in fileSet : Notices(t, g)'
    BY <2>5, <2>7, Zenon DEF Notices
  <2> QED BY <2>7, <2>8, <2>16, <2>17, ThreadKeeps, Zenon
<1> QED BY <1>1, <1>2, <1>3, Zenon DEF LoadFails

\* load_models swaps the models.
SwapsTo(t, th, P, T, F) ==
  st' = [returns(t) EXCEPT !.loaded[t[1]] = th.new, !.sums[t[1]] = th.sums, !.passed[t[1]] = P, !.torn[t[1]] = T,
                         !.failed[t[1]] = F]
SwapFrame(t, th, P, T, F) ==
  /\ OneThread(t) /\ st'.threads[t].pc = "idle" /\ ThreadShape(st'.threads[t])
  /\ st'.loaded[t[1]] = th.new /\ st'.sums[t[1]] = th.sums /\ st'.passed[t[1]] = P /\ st'.torn[t[1]] = T
  /\ st'.failed[t[1]] = F
  /\ st'.run = st.run /\ st'.local = st.local

\* The swap leaves the other threads and workers alone.
LEMMA SwapMoves ==
  ASSUME SyncInv, NEW t \in SyncThreads, NEW th, NEW P, NEW T, NEW F, SwapsTo(t, th, P, T, F)
  PROVE  SwapFrame(t, th, P, T, F)
<1>1. SyncShape
  BY Zenon DEF SyncInv
<1>2. PICK s : s = returns(t)
  BY Zenon
<1>3. /\ DOMAIN s = SyncFields
      /\ s.run = st.run /\ s.server = st.server /\ s.newer = st.newer /\ s.local = st.local
      /\ s.lost = st.lost /\ s.saving = st.saving /\ s.loaded = st.loaded /\ s.sums = st.sums
      /\ s.torn = st.torn /\ s.failed = st.failed /\ s.passed = st.passed /\ s.lock = st.lock
      /\ DOMAIN s.started = st.run.workers /\ DOMAIN s.threads = SyncThreads
      /\ \A u \in SyncThreads : u # t => s.threads[u] = st.threads[u]
      /\ ThreadShape(s.threads[t]) /\ s.threads[t].pc = "idle"
  BY <1>2, ReturnsFields, Zenon
<1>4. PICK w \in st.run.workers : w = t[1]
  BY ThreadFacts, Zenon
<1>5. PICK L, S : L = th.new /\ S = th.sums
  BY Zenon
<1>6. st' = [s EXCEPT !.loaded[w] = L, !.sums[w] = S, !.passed[w] = P, !.torn[w] = T, !.failed[w] = F]
  BY <1>2, <1>4, <1>5, Zenon DEF SwapsTo
<1>7. /\ DOMAIN st' = SyncFields
      /\ st'.run = s.run /\ st'.server = s.server /\ st'.newer = s.newer /\ st'.local = s.local
      /\ st'.lost = s.lost /\ st'.saving = s.saving /\ st'.lock = s.lock /\ st'.started = s.started
      /\ st'.threads = s.threads
      /\ st'.loaded = [s.loaded EXCEPT ![w] = L] /\ st'.sums = [s.sums EXCEPT ![w] = S]
      /\ st'.passed = [s.passed EXCEPT ![w] = P] /\ st'.torn = [s.torn EXCEPT ![w] = T]
      /\ st'.failed = [s.failed EXCEPT ![w] = F]
  <2>1. DOMAIN s = SyncFields
    BY <1>3, Zenon
  <2> QED BY <1>6, <2>1, Zenon DEF SyncFields
<1>8. /\ DOMAIN st.loaded = st.run.workers /\ DOMAIN st.sums = st.run.workers
      /\ DOMAIN st.passed = st.run.workers /\ DOMAIN st.torn = st.run.workers /\ DOMAIN st.failed = st.run.workers
      /\ DOMAIN st.lock = st.run.workers
  BY <1>1, Zenon DEF SyncShape
<1>9. /\ DOMAIN st'.loaded = st.run.workers /\ st'.loaded[w] = L
      /\ \A v \in st.run.workers : v # w => st'.loaded[v] = st.loaded[v]
  <2>1. st'.loaded = [st.loaded EXCEPT ![w] = L] /\ DOMAIN st.loaded = st.run.workers
    BY <1>3, <1>7, <1>8, Zenon
  <2> QED BY <2>1, Zenon
<1>10. /\ DOMAIN st'.sums = st.run.workers /\ st'.sums[w] = S
       /\ \A v \in st.run.workers : v # w => st'.sums[v] = st.sums[v]
  <2>1. st'.sums = [st.sums EXCEPT ![w] = S] /\ DOMAIN st.sums = st.run.workers
    BY <1>3, <1>7, <1>8, Zenon
  <2> QED BY <2>1, Zenon
<1>11. /\ DOMAIN st'.passed = st.run.workers /\ st'.passed[w] = P
       /\ \A v \in st.run.workers : v # w => st'.passed[v] = st.passed[v]
  <2>1. st'.passed = [st.passed EXCEPT ![w] = P] /\ DOMAIN st.passed = st.run.workers
    BY <1>3, <1>7, <1>8, Zenon
  <2> QED BY <2>1, Zenon
<1>12. /\ DOMAIN st'.torn = st.run.workers /\ st'.torn[w] = T
       /\ \A v \in st.run.workers : v # w => st'.torn[v] = st.torn[v]
  <2>1. st'.torn = [st.torn EXCEPT ![w] = T] /\ DOMAIN st.torn = st.run.workers
    BY <1>3, <1>7, <1>8, Zenon
  <2> QED BY <2>1, Zenon
<1>14. /\ DOMAIN st'.failed = st.run.workers /\ st'.failed[w] = F
       /\ \A v \in st.run.workers : v # w => st'.failed[v] = st.failed[v]
  <2>1. st'.failed = [st.failed EXCEPT ![w] = F] /\ DOMAIN st.failed = st.run.workers
    BY <1>3, <1>7, <1>8, Zenon
  <2> QED BY <2>1, Zenon
<1>13. OneThread(t)
  <2>1. /\ DOMAIN st' = SyncFields /\ st'.run = st.run /\ st'.server = st.server /\ st'.newer = st.newer
        /\ st'.local = st.local /\ st'.lost = st.lost /\ st'.saving = st.saving
        /\ DOMAIN st'.lock = st.run.workers /\ DOMAIN st'.started = st.run.workers
    BY <1>3, <1>7, <1>8, SMTT(30)
  <2>2. /\ DOMAIN st'.threads = SyncThreads /\ \A u \in SyncThreads : u # t => st'.threads[u] = st.threads[u]
        /\ ThreadShape(st'.threads[t])
    BY <1>3, <1>7
  <2>3. \A v \in st.run.workers : v # t[1] =>
          /\ st'.loaded[v] = st.loaded[v] /\ st'.sums[v] = st.sums[v]
          /\ st'.torn[v] = st.torn[v] /\ st'.failed[v] = st.failed[v] /\ st'.passed[v] = st.passed[v]
    BY <1>4, <1>9, <1>10, <1>11, <1>12, <1>14, Zenon
  <2> QED BY <1>9, <1>10, <1>11, <1>12, <1>14, <2>1, <2>2, <2>3, Zenon DEF OneThread
<1> QED BY <1>3, <1>4, <1>5, <1>7, <1>9, <1>10, <1>11, <1>12, <1>13, <1>14, Zenon DEF SwapFrame

\* The swap of the models keeps the invariant.
LEMMA SwapKeeps ==
  ASSUME SyncInv, part' = part, NEW t \in SyncThreads, SwapModels(t)
  PROVE  SyncInv'
<1>1. PICK th : th = st.threads[t]
  BY Zenon
<1>2. PICK w \in st.run.workers : w = t[1]
  BY ThreadFacts, Zenon
<1>3. PICK P : P = st.passed[w] \cup {f \in th.stale : Lookup(th.new, f, Nil) # localFile(f)}
  BY Zenon
<1>4. PICK T : T = {f \in DOMAIN th.new : th.new[f] # th.sums[f]}
  BY Zenon
<1>5. PICK all : all = IF gatedFiles \subseteq DOMAIN th.sums THEN fileSet ELSE baseFiles
  BY Zenon
<1>6. /\ th.pc = "load" /\ th.i > Len(toLoad(th))
  BY <1>1, Zenon DEF SwapModels
<1>17. PICK F : F = Range(toLoad(th)) \ DOMAIN th.new
  BY Zenon
<1>7. SwapsTo(t, th, P, T, F)
  <2>1. st' = [returns(t) EXCEPT !.loaded[w] = th.new, !.sums[w] = th.sums,
                 !.passed[w] = @ \cup {f \in th.stale : Lookup(th.new, f, Nil) # localFile(f)},
                 !.torn[w] = {f \in DOMAIN th.new : th.new[f] # th.sums[f]},
                 !.failed[w] = Range(toLoad(th)) \ DOMAIN th.new]
    BY <1>1, <1>2, Zenon DEF SwapModels
  <2>2. returns(t).passed = st.passed
    BY ReturnsFields, Zenon
  <2>3. st' = [returns(t) EXCEPT !.loaded[w] = th.new, !.sums[w] = th.sums, !.passed[w] = P, !.torn[w] = T,
                 !.failed[w] = F]
    BY <1>3, <1>4, <1>17, <2>1, <2>2, Zenon
  <2> QED BY <1>2, <2>3, Zenon DEF SwapsTo
<1>8. SwapFrame(t, th, P, T, F)
  BY <1>7, SwapMoves, Zenon
<1>9. /\ OneThread(t) /\ st'.threads[t].pc = "idle"
      /\ st'.loaded[w] = th.new /\ st'.sums[w] = th.sums /\ st'.passed[w] = P /\ st'.torn[w] = T
      /\ st'.failed[w] = F /\ st'.run = st.run /\ st'.local = st.local
  BY <1>2, <1>8, Zenon DEF SwapFrame
<1>10. /\ DOMAIN th.new \subseteq all /\ all \subseteq DOMAIN th.sums /\ DOMAIN th.sums \subseteq fileSet
       /\ baseFiles \subseteq DOMAIN th.new /\ F = all \ DOMAIN th.new
       /\ DOMAIN th.new = all \/ all = fileSet
  BY <1>1, <1>5, <1>6, <1>17, ThreadFiles, Zenon
<1>11. /\ baseFiles \subseteq fileSet /\ baseFiles \cup gatedFiles = fileSet
  BY FilesFacts, Zenon DEF SyncInv, SyncShape
<1>12. /\ \A f \in fileSet : Lookup(th.sums, f, Nil) = localFile(f) \/ f \in th.stale
       /\ \A f \in DOMAIN th.sums : f \in fileSet /\ localFile(f) # Nil
       /\ baseFiles \subseteq DOMAIN th.sums
  <2>1. ThreadOK(t)
    BY Zenon DEF SyncInv
  <2> QED BY <1>1, <1>6, <2>1, Zenon DEF ThreadOK
<1>13. /\ fileSet' = fileSet /\ baseFiles' = baseFiles /\ gatedFiles' = gatedFiles
       /\ \A f : localFile(f)' = localFile(f)
  BY <1>9, SameRun, Zenon DEF localFile
<1>14. ThreadOK(t)'
  BY <1>9, Zenon DEF ThreadOK
<1>15. LoadedBySums(w)'
  <2>1. ASSUME NEW f \in fileSet
        PROVE  \/ Lookup(th.new, f, Nil) = Lookup(th.sums, f, Nil)
               \/ f \in T
               \/ /\ f \in gatedFiles /\ f \notin DOMAIN th.new
                  /\ \E g \in gatedFiles : g \notin DOMAIN th.new /\ g \notin DOMAIN th.sums
               \/ f \in gatedFiles /\ f \in F
    <3>1. CASE f \in DOMAIN th.new
      BY <1>4, <1>10, <3>1, Zenon DEF Lookup
    <3>2. CASE f \notin DOMAIN th.new /\ f \in all
      BY <1>10, <1>11, <3>2, Zenon
    <3>3. CASE f \notin all
      BY <1>5, <1>10, <1>11, <3>3, Zenon
    <3> QED BY <3>1, <3>2, <3>3, Zenon
  <2> QED BY <1>9, <1>10, <1>12, <1>13, <2>1, Zenon DEF LoadedBySums
<1>18. FailuresKnown(w)'
  BY <1>9, <1>10, <1>12, <1>13, Zenon DEF FailuresKnown
<1>16. FollowsFiles(w)'
  <2>1. ASSUME NEW f \in fileSet PROVE FollowsFile(w, f)'
    <3>1. \/ Lookup(th.sums, f, Nil) = localFile(f)
          \/ Lookup(th.new, f, Nil) = localFile(f) \/ f \in P
      BY <1>3, <1>12, Zenon
    <3> QED BY <1>9, <1>13, <3>1, Zenon DEF FollowsFile
  <2> QED BY <1>13, <2>1, Zenon DEF FollowsFiles
<1> QED BY <1>2, <1>9, <1>14, <1>15, <1>16, <1>18, WorkerKeeps, Zenon

\* The step from one state to the next.
LEMMA SyncInvStep ==
  ASSUME SyncInv, [UNCHANGED part /\ ModelSyncNext]_<<part, st>>
  PROVE  SyncInv'
<1>1. CASE UNCHANGED <<part, st>>
  <2>1. part' = part /\ st' = st
    BY <1>1, Zenon
  <2>2. SyncShape' /\ LocalFilesFollow' /\ st'.run = st.run
    BY <2>1, SameRun, Zenon DEF SyncInv, SyncShape, LocalFilesFollow, localFile
  <2>3. \A t \in SyncThreads : ThreadOK(t)'
    <3> TAKE t \in SyncThreads
    <3>1. ThreadOK(t)
      BY Zenon DEF SyncInv
    <3>2. PICK th : th = st.threads[t]
      BY Zenon
    <3>3. st'.threads[t] = th /\ st'.local = st.local
      BY <2>1, <3>2, Zenon
    <3>4. ReadFiles(th)' = ReadFiles(th) /\ toLoad(th)' = toLoad(th) /\ LoadedFiles(th)' = LoadedFiles(th)
      BY <2>2, SameRun, Zenon DEF ReadFiles, FirstFiles, toLoad, LoadedFiles
    <3> QED BY <2>2, <3>1, <3>2, <3>3, <3>4, SameRun, Zenon DEF ThreadOK, LoadsInOrder, WithoutGated, localFile
  <2>4. \A w \in st.run.workers, f \in fileSet : FollowsFile(w, f) => FollowsFile(w, f)'
    <3>1. \A t, f : Notices(t, f) => Notices(t, f)'
      BY <2>1, <2>2, SameRun, Zenon DEF Notices, localFile, ReadFiles, FirstFiles
    <3> QED BY <2>1, <3>1, Zenon DEF FollowsFile, localFile
  <2>5. \A f \in fileSet : localFile(f) # Nil => localFile(f)' # Nil
    BY <2>1, Zenon DEF localFile
  <2> QED BY <2>1, <2>2, <2>3, <2>4, <2>5, InformedKeeps, Zenon
<1>2. CASE UNCHANGED part /\ ModelSyncNext
  <2>1. part' = part
    BY <1>2, Zenon
  <2>2. CASE SaveBegins \/ DumpStep
    BY <2>1, <2>2, SavesKeep, Zenon
  <2>3. ASSUME NEW t \in SyncThreads,
               \/ SyncBegins(t) \/ CheckNewer(t) \/ DownloadEnds(t)
               \/ ReadChecksum(t) \/ LoadFile(t) \/ LoadFails(t) \/ SwapModels(t)
        PROVE  SyncInv'
    <3>1. CASE SyncBegins(t)
      BY <2>1, <3>1, SyncBeginsKeeps, Zenon
    <3>2. CASE CheckNewer(t)
      BY <2>1, <3>2, CheckNewerKeeps, Zenon
    <3>3. CASE DownloadEnds(t)
      BY <2>1, <3>3, DownloadEndsKeeps, Zenon
    <3>4. CASE ReadChecksum(t)
      BY <2>1, <3>4, ReadChecksumKeeps, Zenon
    <3>5. CASE LoadFile(t)
      BY <2>1, <3>5, LoadFileKeeps, Zenon
    <3>6. CASE SwapModels(t)
      BY <2>1, <3>6, SwapKeeps, Zenon
    <3>7. CASE LoadFails(t)
      BY <2>1, <3>7, LoadFailsKeeps, Zenon
    <3> QED BY <2>3, <3>1, <3>2, <3>3, <3>4, <3>5, <3>6, <3>7, Zenon
  <2> QED BY <1>2, <2>2, <2>3, Zenon DEF ModelSyncNext
<1> QED BY <1>1, <1>2, Zenon

\* Models reach the workers: in every interleaving of the training server's saves with the sync
\* threads and the /reload handlers, for any files, workers and number of saves, a local file
\* that is not the server's is going to be found newer (or was rewritten under the download),
\* and an idle worker has the local files loaded but for the races and the failed loads that
\* LoadedFollows names.  Any load may fail, of a base file or of a gated one, at any time.
THEOREM ModelsAlwaysReach == ModelSyncSpec => []ModelsReachWorkers
<1>1. part = "modelsync" /\ ModelSyncInit => SyncInv
  BY SyncInvInit, Zenon
<1>2. SyncInv /\ [UNCHANGED part /\ ModelSyncNext]_<<part, st>> => SyncInv'
  BY SyncInvStep, Zenon
<1>3. SyncInv => ModelsReachWorkers
  BY FollowsWhenIdle, Zenon
<1> QED BY <1>1, <1>2, <1>3, PTL DEF ModelSyncSpec
=============================================================================
