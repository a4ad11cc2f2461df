------------------------------ MODULE Training ------------------------------
(***************************************************************************)
(* The models of the backend (app/ml): how train_all reads the payments    *)
(* and trains one model after the other, at a start and for requests, how  *)
(* dump_all_models writes them to files, and how a request has its         *)
(* payments judged in a thread meanwhile.  A training waits for its        *)
(* queries, and the event loop runs others then; while it fits or writes,  *)
(* only threads run.  What a model learns is left out: it is of a version  *)
(* of the table of payments.                                               *)
(***************************************************************************)
EXTENDS Integers, FiniteSets, FiniteSetsExt

CONSTANTS Request,        \* requests for a training
          Tables,         \* what the table may hold: users, payments, months
          Chosen,         \* the numbers of clusters that the silhouette may prefer
          TrainBatches,   \* bound: the runs that take place; the others have failed at once
          MaxVersions, MaxBoots  \* bounds

Table == [users : Nat, payments : Nat, months : Nat]

ASSUME TrainingConstants ==
    /\ 2 \in Chosen /\ Chosen \subseteq 2..6 /\ "boot" \notin Request
    /\ TrainBatches \subseteq SUBSET (Request \cup {"boot"})
    /\ Tables \subseteq Table /\ MaxVersions \in Nat \ {0} /\ MaxBoots \in Nat

Order == <<"cluster", "anomaly", "classifier", "forecaster">>
ModelKind  == {"cluster", "anomaly", "classifier", "forecaster"}
Run   == Request \cup {"boot"}
SeqLength == 6   \* of the forecaster, in months

Untrained == [is |-> "untrained", of |-> 0]
Trained(v) == [is |-> "trained", of |-> v]
NoFileYet   == [is |-> "none", of |-> 0]
Unread    == [rows |-> [users |-> 0, payments |-> 0, months |-> 0], of |-> 0]

VARIABLES
    torch,     \* whether torch is installed
    table,     \* the payments
    version,   \* how often they have changed
    models,    \* [ModelKind -> the model of the process]
    clusters,  \* n_clusters of the clusters' model
    fitting,   \* the run that is fitting the anomaly detector, or that writes, or "none"
    bundle,    \* [ModelKind -> its file, which may be torn]
    kept,      \* history: models of which a trained one has been written
    at,        \* [Run -> where it is]
    place,     \* [Run -> the model that it is at, and the first that it has not written]
    found,      \* [Run -> what its query has found, and of which version; the oldest
               \* one, where a model takes several]
    told,      \* [Run -> [ModelKind -> the status that it reports]]
    judging,   \* the thread that judges payments: by what it is about to
    met,       \* history: runs that another was under way with
    restarted  \* how often the process was started again

trainVars == <<torch, table, version, models, clusters, fitting, bundle, kept, at, place, found,
               told, judging, met, restarted>>

\* The first start, or one before which nothing has been trained.
TrainInit ==
    /\ torch \in BOOLEAN /\ table \in Tables /\ version = 1
    /\ models = [m \in ModelKind |-> Untrained] /\ clusters = 4 /\ fitting = "none"
    /\ bundle = [m \in ModelKind |-> NoFileYet] /\ kept = {}
    /\ \E batch \in TrainBatches :
          at = [r \in Run |-> IF r \notin batch THEN "failed" ELSE IF r = "boot" THEN "ask" ELSE "new"]
    /\ place = [r \in Run |-> 1]
    /\ found = [r \in Run |-> Unread]
    /\ told = [r \in Run |-> [m \in ModelKind |-> "none"]]
    /\ judging = "idle" /\ met = {} /\ restarted \in 0..MaxBoots

UnderWay == {r \in Run : at[r] \notin {"new", "done", "failed"}}
\* The event loop is free, and the server has started.
Loop == fitting = "none"
Served == at["boot"] \in {"done", "failed"}

DatabaseKept == UNCHANGED <<torch, table, version>>
ThreadKept   == UNCHANGED judging
To(r, stage) == at' = [at EXCEPT ![r] = stage]
-----------------------------------------------------------------------------
\* Payments come in, or their user is deleted.
PaymentsChange(t) ==
    /\ Loop /\ version < MaxVersions /\ t # table /\ table' = t /\ version' = version + 1
    /\ UNCHANGED <<torch, models, clusters, fitting, bundle, kept, at, place, found, told, met, restarted>>
    /\ ThreadKept

\* trigger_training
TriggerTraining(r) ==
    /\ Loop /\ Served /\ at[r] = "new" /\ To(r, "ask")
    /\ met' = IF UnderWay = {} THEN met ELSE met \cup UnderWay \cup {r}
    /\ DatabaseKept /\ ThreadKept
    /\ UNCHANGED <<models, clusters, fitting, bundle, kept, place, found, told, restarted>>

\* The select of the model's rows is answered; _train_classifier's first one is
\* that of the averages, and without any it looks no further.
AnswerQuery(r) ==
    /\ Loop /\ at[r] = "ask"
    /\ To(r, IF Order[place[r]] = "classifier" /\ table.payments > 0 THEN "shares" ELSE "fit")
    /\ found' = [found EXCEPT ![r] = [rows |-> table, of |-> version]]
    /\ DatabaseKept /\ ThreadKept
    /\ UNCHANGED <<models, clusters, fitting, bundle, kept, place, told, met, restarted>>

\* Its second, of the categories' shares.
AnswerShares(r) ==
    /\ Loop /\ at[r] = "shares" /\ To(r, "sample")
    /\ DatabaseKept /\ ThreadKept
    /\ UNCHANGED <<models, clusters, fitting, bundle, kept, place, found, told, met, restarted>>

\* And its third, of the payments, where those of users without an average are
\* left out, which may be all if they have changed since.
AnswerSample(r) ==
    /\ Loop /\ at[r] = "sample" /\ To(r, "fit")
    /\ \E n \in {0, table.payments} :
          /\ n = table.payments \/ found[r].of # version
          /\ found' = [found EXCEPT ![r].rows = [table EXCEPT !.payments = n]]
    /\ DatabaseKept /\ ThreadKept
    /\ UNCHANGED <<models, clusters, fitting, bundle, kept, place, told, met, restarted>>

\* A select fails; or the start has had its training stopped for its time.
TrainingFails(r) ==
    /\ Loop /\ at[r] \in {"ask", "shares", "sample"} /\ To(r, "failed")
    /\ DatabaseKept /\ ThreadKept
    /\ UNCHANGED <<models, clusters, fitting, bundle, kept, place, found, told, met, restarted>>

Mut_AnyUsers(m, t) ==
    \/ m = "cluster" /\ t.users > 0
    \/ m \in {"anomaly", "classifier"} /\ t.payments >= 10
    \/ m = "forecaster" /\ torch /\ t.months >= SeqLength + 1

\* What a model takes to be trained; where there is less, it stays as it is.
Enough(m, t) ==
    \/ m = "cluster" /\ t.users > 0 /\ t.users >= clusters
    \/ m \in {"anomaly", "classifier"} /\ t.payments >= 10
    \/ m = "forecaster" /\ torch /\ t.months >= SeqLength + 1

\* fit: the clusters' model unlearns where there are fewer users than clusters.
Learn(m, r) ==
    models' = [models EXCEPT ![m] =
        IF m = "cluster" /\ found[r].rows.users < Max({clusters, 2}) THEN Untrained
        ELSE Trained(found[r].of)]

\* _select_k_by_silhouette, of n users.
Silhouette(n) == {k \in Chosen : k = 2 \/ k < n}

\* With four users or more, it goes on with the number of clusters that fits
\* them best.
Recluster(m, r) ==
    IF m = "cluster" /\ found[r].rows.users >= 4
    THEN clusters' \in Silhouette(found[r].rows.users)
    ELSE UNCHANGED clusters

Tell(r, m, status) == told' = [told EXCEPT ![r][m] = status]

\* The next model, or the files; nothing is awaited before those.
Onward(r) ==
    /\ place' = [place EXCEPT ![r] = IF @ = 4 THEN 1 ELSE @ + 1]
    /\ To(r, IF place[r] = 4 THEN "dump" ELSE "ask")
    /\ fitting' = IF place[r] = 4 THEN r ELSE "none"

Forgotten(r) == found' = [found EXCEPT ![r] = Unread]

\* _train_clustering, _train_classifier, _train_forecaster, and _train_anomaly
\* where there is too little.
Fit(r) ==
    /\ Loop /\ at[r] = "fit" /\ Onward(r)
    /\ LET m == Order[place[r]]
       IN  \/ /\ Enough(m, found[r].rows) /\ m # "anomaly" /\ Tell(r, m, "trained")
              /\ Learn(m, r) /\ Recluster(m, r)
           \/ /\ ~Enough(m, found[r].rows) /\ Tell(r, m, "skipped") /\ UNCHANGED <<models, clusters>>
    /\ Forgotten(r) /\ DatabaseKept /\ ThreadKept /\ UNCHANGED <<bundle, kept, met, restarted>>

\* _train_anomaly: the detector is fitted in place, and marked thereafter.
FitBegins(r) ==
    /\ Loop /\ at[r] = "fit" /\ Order[place[r]] = "anomaly" /\ Enough("anomaly", found[r].rows)
    /\ fitting' = r /\ To(r, "learning")
    /\ judging' = IF judging = "model" THEN "torn" ELSE judging
    /\ DatabaseKept /\ UNCHANGED <<models, clusters, bundle, kept, place, found, told, met, restarted>>

FitEnds(r) ==
    /\ at[r] = "learning" /\ Onward(r) /\ Learn("anomaly", r) /\ Tell(r, "anomaly", "trained")
    /\ DatabaseKept /\ ThreadKept /\ UNCHANGED <<clusters, bundle, kept, met, restarted>>
    /\ Forgotten(r)

\* The forecaster is written once it has been trained, the others as they are.
Writes(m) == m # "forecaster" \/ (torch /\ models[m].is = "trained")

\* dump_all_models, file by file, and over what is there.
OpenFile(r) ==
    /\ at[r] = "dump" /\ Writes(Order[place[r]]) /\ To(r, "write")
    /\ bundle' = [bundle EXCEPT ![Order[place[r]]] = [is |-> "torn", of |-> 0]]
    /\ DatabaseKept /\ ThreadKept
    /\ UNCHANGED <<models, clusters, fitting, kept, place, found, told, met, restarted>>

\* The file is complete, or the disk has failed; or it is left alone.
NextFile(r) ==
    /\ place' = [place EXCEPT ![r] = @ + 1]
    /\ To(r, IF place[r] = 4 THEN "done" ELSE "dump")
    /\ fitting' = IF place[r] = 4 THEN "none" ELSE r

CloseFile(r) ==
    /\ at[r] = "write" /\ NextFile(r)
    /\ LET m == Order[place[r]]
       IN  \/ bundle' = [bundle EXCEPT ![m] = models[m]]
              /\ kept' = kept \cup {n \in {m} : models[m].is = "trained"}
           \/ UNCHANGED <<bundle, kept>>
    /\ DatabaseKept /\ ThreadKept /\ UNCHANGED <<models, clusters, found, told, met, restarted>>

LeaveFile(r) ==
    /\ at[r] = "dump" /\ ~Writes(Order[place[r]]) /\ NextFile(r)
    /\ DatabaseKept /\ ThreadKept /\ UNCHANGED <<models, clusters, bundle, kept, found, told, met, restarted>>
-----------------------------------------------------------------------------
\* detect_anomaly's thread: predict reads whether the model is fitted, and uses
\* it thereafter; where it is not, rules answer, and nothing is shared.
Judge ==
    /\ Served /\ judging = "idle" /\ models["anomaly"].is = "trained"
    /\ judging' = IF \E r \in Run : at[r] = "learning" THEN "torn" ELSE "model"
    /\ DatabaseKept
    /\ UNCHANGED <<models, clusters, fitting, bundle, kept, at, place, found, told, met, restarted>>

JudgeEnds ==
    /\ judging # "idle" /\ judging' = "idle"
    /\ DatabaseKept
    /\ UNCHANGED <<models, clusters, fitting, bundle, kept, at, place, found, told, met, restarted>>

\* The process ends at any moment and starts again; load_all_models is called
\* by nothing.
RestartBackend ==
    /\ restarted < MaxBoots /\ restarted' = restarted + 1
    /\ models' = [m \in ModelKind |-> Untrained] /\ clusters' = 4 /\ fitting' = "none"
    /\ at' = [r \in Run |-> IF r = "boot" THEN "ask" ELSE IF r \in UnderWay THEN "failed" ELSE at[r]]
    /\ place' = [r \in Run |-> 1] /\ told' = [r \in Run |-> [m \in ModelKind |-> "none"]]
    /\ judging' = "idle" /\ met' = {}
    /\ found' = [r \in Run |-> Unread] /\ DatabaseKept /\ UNCHANGED <<bundle, kept>>

TrainNext ==
    \/ \E t \in Tables : PaymentsChange(t)
    \/ \E r \in Request : TriggerTraining(r)
    \/ \E r \in Run : AnswerQuery(r) \/ AnswerShares(r) \/ AnswerSample(r) \/ TrainingFails(r) \/ Fit(r) \/ FitBegins(r) \/ FitEnds(r)
                          \/ OpenFile(r) \/ CloseFile(r) \/ LeaveFile(r)
    \/ Judge \/ JudgeEnds \/ RestartBackend

TrainSpec == TrainInit /\ [][TrainNext]_trainVars
-----------------------------------------------------------------------------
\* _classify_status, of a run that has a result for each model.
Status(results) ==
    IF \A m \in ModelKind : results[m] = "trained" THEN "success"
    ELSE IF \E m \in ModelKind : results[m] = "trained" THEN "partial" ELSE "failed"

Model == [is : {"untrained", "trained"}, of : Nat]
File  == [is : {"none", "torn", "untrained", "trained"}, of : Nat]

TrainTypeOK ==
    /\ torch \in BOOLEAN /\ table \in Tables /\ version \in 1..MaxVersions
    /\ models \in [ModelKind -> Model] /\ bundle \in [ModelKind -> File]
    /\ clusters \in 2..6 /\ fitting \in Run \cup {"none"} /\ kept \subseteq ModelKind
    /\ at \in [Run -> {"new", "ask", "shares", "sample", "fit", "learning", "dump", "write", "done", "failed"}]
    /\ place \in [Run -> 1..5] /\ \A r \in Run : place[r] = 5 => at[r] = "done"
    /\ found \in [Run -> [rows : Table, of : Nat]]
    /\ told \in [Run -> [ModelKind -> {"none", "skipped", "trained"}]]
    /\ judging \in {"idle", "model", "torn"}
    /\ met \subseteq Run /\ restarted \in 0..MaxBoots

\* A run that is a success has trained them all; only a model that was trained
\* before is ever used half trained; and a trained model's file gives way to an
\* untrained one only where the process was started again, the forecaster's
\* never.
Coherent ==
    /\ \A r \in Run : at[r] = "done" /\ Status(told[r]) = "success"
                        => \A m \in ModelKind : models[m].is = "trained"
    /\ judging = "torn" => models["anomaly"].is = "trained"
    /\ \A m \in kept : bundle[m].is = "untrained" => restarted > 0 /\ m # "forecaster"

\* Whatever trainings overlap, and however the payments change between their
\* queries, a model that is trained stays so until the process ends, and falls
\* behind to older payments only by a training that another was under way with
\* (train_all and the fit of each model).
TrainedStays ==
    /\ []Coherent
    /\ [][\A m \in ModelKind :
             restarted' = restarted /\ models[m].is = "trained"
                => /\ models'[m].is = "trained"
                   /\ models'[m].of < models[m].of => \E r \in met : at[r] # at'[r] /\ found[r].of = models'[m].of
         ]_trainVars
=============================================================================
