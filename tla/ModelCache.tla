----------------------------- MODULE ModelCache -----------------------------
(***************************************************************************)
(* The model of fraud-service's scores (app/scoring/model_loader.py): a    *)
(* file that trainers replace, read through functools.lru_cache(maxsize=1) *)
(* by the threads of requests.  The cache keeps the outcome of a call      *)
(* whatever it was, also that there is no valid model, and does not lock   *)
(* while the file is read, so that a read that began before                *)
(* clear_model_cache may fill it afterwards.                               *)
(***************************************************************************)
EXTENDS Integers, FiniteSets

CONSTANTS Scorer,      \* threads that ask for the model
          MinAuc,      \* MODEL_BUNDLE_MIN_AUC, in hundredths
          Bundles,     \* what trainers may write
          NoBundle,    \* the None of Python; in the file: nothing that joblib can read
          Missing,     \* there is no file
          MaxReplaced  \* bound

Shape == [domain : {"open", "paysim", "other"}, keys : SUBSET {"model", "if_model", "rf_model",
          "raw_feature_names"}, predicts : BOOLEAN, ranges : BOOLEAN, auc : 0..100 \cup {NoBundle}]

ASSUME CacheConstants ==
    /\ MinAuc \in 0..100 /\ Bundles \subseteq Shape
    /\ NoBundle \notin Shape \cup 0..100 /\ Missing \notin Shape \cup {NoBundle}
    /\ MaxReplaced \in Nat

VARIABLES
    strict,      \* MODEL_BUNDLE_STRICT
    bundleFile,  \* the file: a version and what it holds
    cached,      \* the entry of the cache: a set with at most one outcome
    scoring,     \* [Scorer -> "idle", "reading", "has"]
    result,      \* [Scorer -> the outcome it holds]
    cleared,     \* history: the version at the last clear
    early,       \* history: scorers that began to read before the last clear
    overtaken    \* history: whether one of them has filled the cache since

cacheVars == <<strict, bundleFile, cached, scoring, result, cleared, early, overtaken>>

Files == Bundles \cup {NoBundle, Missing}

Outcome == [version : 0..MaxReplaced, bundle : Bundles \cup {NoBundle}]

Required(domain) ==
    IF domain = "paysim" THEN {"if_model", "rf_model", "raw_feature_names"} ELSE {"model"}

\* validate_bundle: the keys of the domain, the interfaces of what they hold,
\* and the bounds that may come with them.
Sound(b) ==
    /\ Required(b.domain) \subseteq b.keys /\ b.ranges
    /\ b.domain \in {"open", "paysim"} => b.predicts

\* validate_metadata_auc: without a threshold all pass, without a figure none.
GoodEnough(b) == MinAuc = 0 \/ (b.auc # NoBundle /\ b.auc >= MinAuc)

CacheInit ==
    /\ strict \in BOOLEAN
    /\ bundleFile = [version |-> 0, bundle |-> Missing]
    /\ cached = {} /\ cleared = 0 /\ early = {} /\ overtaken = FALSE
    /\ scoring = [s \in Scorer |-> "idle"]
    /\ result = [s \in Scorer |-> [version |-> 0, bundle |-> NoBundle]]

\* load_model_bundle, without a file; the cache is not asked.
NoFile(s) ==
    /\ scoring[s] = "idle" /\ bundleFile.bundle = Missing
    /\ scoring' = [scoring EXCEPT ![s] = "has"]
    /\ result' = [result EXCEPT ![s] = [version |-> bundleFile.version, bundle |-> NoBundle]]
    /\ UNCHANGED <<strict, bundleFile, cached, cleared, early, overtaken>>

\* _load_bundle_cached, when the cache has an outcome
Hit(s) ==
    /\ scoring[s] = "idle" /\ bundleFile.bundle # Missing /\ cached # {}
    /\ scoring' = [scoring EXCEPT ![s] = "has"]
    /\ result' = [result EXCEPT ![s] = CHOOSE o \in cached : TRUE]
    /\ UNCHANGED <<strict, bundleFile, cached, cleared, early, overtaken>>

\* joblib.load
ReadFiles(s) ==
    /\ scoring[s] = "idle" /\ bundleFile.bundle # Missing /\ cached = {}
    /\ scoring' = [scoring EXCEPT ![s] = "reading"]
    /\ result' = [result EXCEPT ![s] = bundleFile] /\ early' = early \ {s}
    /\ UNCHANGED <<strict, bundleFile, cached, cleared, overtaken>>

Valid(o) == o.bundle # NoBundle /\ Sound(o.bundle) /\ GoodEnough(o.bundle)
Rejects(o) == strict /\ o.bundle # NoBundle /\ ~Valid(o)

\* The first outcome stays; what raised is not kept.
FirstKept(s) ==
    IF cached # {} THEN cached
    ELSE {[version |-> result[s].version,
           bundle |-> IF Valid(result[s]) THEN result[s].bundle ELSE NoBundle]}

Checked(s) ==
    /\ scoring[s] = "reading"
    /\ \/ /\ Rejects(result[s])   \* BundleSchemaError: the request fails
          /\ scoring' = [scoring EXCEPT ![s] = "idle"]
          /\ UNCHANGED <<cached, result, overtaken>>
       \/ /\ ~Rejects(result[s])
          /\ cached' = FirstKept(s)
          /\ overtaken' = (overtaken \/ s \in early)
          /\ scoring' = [scoring EXCEPT ![s] = "has"]
          /\ result' = [result EXCEPT ![s].bundle = IF Valid(result[s]) THEN @ ELSE NoBundle]
    /\ early' = early \ {s}
    /\ UNCHANGED <<strict, bundleFile, cleared>>

ScoreWith(s) ==
    /\ scoring[s] = "has" /\ scoring' = [scoring EXCEPT ![s] = "idle"]
    /\ UNCHANGED <<strict, bundleFile, cached, result, cleared, early, overtaken>>

\* A trainer writes the file, or has begun to.
Replace(b) ==
    /\ bundleFile.version < MaxReplaced
    /\ bundleFile' = [version |-> bundleFile.version + 1, bundle |-> b]
    /\ UNCHANGED <<strict, cached, scoring, result, cleared, early, overtaken>>

\* clear_model_cache
Clear ==
    /\ cached' = {} /\ cleared' = bundleFile.version
    /\ early' = {s \in Scorer : scoring[s] = "reading"} /\ overtaken' = FALSE
    /\ UNCHANGED <<strict, bundleFile, scoring, result>>

CacheNext ==
    \/ \E s \in Scorer : NoFile(s) \/ Hit(s) \/ ReadFiles(s) \/ Checked(s) \/ ScoreWith(s)
    \/ \E b \in Bundles \cup {NoBundle} : Replace(b)
    \/ Clear

CacheSpec == CacheInit /\ [][CacheNext]_cacheVars
-----------------------------------------------------------------------------
CacheTypeOK ==
    /\ strict \in BOOLEAN /\ bundleFile \in [version : 0..MaxReplaced, bundle : Files]
    /\ cached \subseteq Outcome /\ Cardinality(cached) <= 1
    /\ scoring \in [Scorer -> {"idle", "reading", "has"}]
    /\ result \in [Scorer -> [version : 0..MaxReplaced, bundle : Files]]
    /\ cleared \in 0..MaxReplaced /\ early \subseteq Scorer /\ overtaken \in BOOLEAN

\* A score comes from a model that has what its domain needs and is as good
\* as asked for, and after clear_model_cache from one no older than the file
\* was then (model_loader.py:5), unless a read that had begun before has
\* filled the cache since.
ScoresAreFresh ==
    /\ \A s \in Scorer : scoring[s] = "has" /\ result[s].bundle # NoBundle =>
          LET b == result[s].bundle
          IN  /\ b.domain = "paysim" => {"if_model", "rf_model"} \subseteq b.keys /\ b.predicts
              /\ b.domain = "open" => "model" \in b.keys /\ b.predicts
              /\ MinAuc > 0 => b.auc \in MinAuc..100
    /\ ~overtaken => \A o \in cached : o.version >= cleared
=============================================================================
