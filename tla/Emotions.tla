------------------------------ MODULE Emotions ------------------------------
(***************************************************************************)
(* Tags that one user puts on payments, and what is concluded from them    *)
(* (app/services/emotion_engine.py, app/api/routes_emotion.py): requests   *)
(* that tag a payment and then look whether the user is to be warned, the  *)
(* log of warnings that failed, the means per tag and category.  Shares    *)
(* of one are counted in 6000ths, in which every risk that tags of up to   *)
(* four payments give is whole; multiples of the mean in hundredths.  The  *)
(* file emotion_rules.json and the values that stand in for it agree.      *)
(***************************************************************************)
EXTENDS Integers, Sequences, FiniteSets, FiniteSetsExt

CONSTANTS Tagging,     \* requests POST /v1/emotion/tag
          Bodies,      \* what they may send: {[of, emotion, intensity]}
          Payments,    \* transactions of the user: {[id, at, category, amount]}
          Hours,       \* bound: the hours, since a Monday, at which something happens
          FailuresKept \* _NOTIFY_FAILURE_MAX

\* EmotionTagCreate takes six emotions and one to five; an amount may be nothing.
ASSUME MoodConstants ==
    /\ IsFiniteSet(Payments) /\ \A p, q \in Payments : p.id = q.id => p = q
    /\ \A p \in Payments : p.amount \in Nat /\ p.at \in Int
    /\ \A b \in Bodies : b.emotion # "none" /\ b.intensity \in 1..5
    /\ Hours \subseteq Nat /\ Hours # {} /\ FailuresKept \in Nat

VARIABLES
    hour,      \* the clock, one of Hours
    tags,      \* emotion_tags: [id of a payment -> its row]
    tagStage,  \* [Tagging -> stage of the request]
    body,      \* [Tagging -> what it has sent]
    found,     \* [Tagging -> the row it has loaded]
    failures,  \* _NOTIFY_FAILURE_LOG: <<request, ...>>
    warned,    \* history: the warnings that were pushed, with the risk at that hour
    kept,      \* history: <<request, ...>> in the order of their commits
    crossed    \* history: payments whose requests overlapped

moodVars == <<hour, tags, tagStage, body, found, failures, warned, kept, crossed>>

Ids == {p.id : p \in Payments}
Untagged == [emotion |-> "none", intensity |-> 0]
NoBody == [of |-> "none", emotion |-> "none", intensity |-> 0]

MoodInit ==
    /\ hour = Min(Hours) /\ tags = [i \in Ids |-> Untagged]
    /\ tagStage = [t \in Tagging |-> "new"] /\ found = [t \in Tagging |-> Untagged]
    /\ body = [t \in Tagging |-> NoBody]
    /\ failures = <<>> /\ warned = {} /\ kept = <<>> /\ crossed = {}
-----------------------------------------------------------------------------
\* HOUR_RISK and WEEKEND_BONUS: the bands of emotion_rules.json, by the hour at
\* which each begins.
HourWeight(h) ==
    LET bands == {<<0, 1800>>, <<6, 1200>>, <<11, 600>>, <<17, 1800>>, <<21, 2400>>}
        begun == {b \in bands : b[1] <= h % 24}
    IN  (CHOOSE b \in begun : \A c \in begun : c[1] <= b[1])[2]
Weekend(h) == (h \div 24) % 7 >= 5

\* Tags of the last 24 hours, by the time of the payment, that tell of stress.
Stressed(of, h) ==
    {p \in Payments : p.at >= h - 24 /\ of[p.id].emotion \in {"stressed", "impulse"}}

Smaller(a, b) == IF a < b THEN a ELSE b

Intensity(of, on) == MapThenSumSet(LAMBDA p : of[p.id].intensity, on)

\* Eight hundredths for each tag, three tenths at most, times the mean
\* intensity of one to five.
StressWeight(of, h) ==
    LET on == Stressed(of, h)
        n  == Cardinality(on)
    IN  IF on = {} THEN 0
        ELSE (Smaller(30, 8 * n) * Intensity(of, on) * 12) \div n

\* predict_impulse_risk
Risk(of, h) ==
    Smaller(6000, HourWeight(h) + StressWeight(of, h) + (IF Weekend(h) THEN 600 ELSE 0)
                  + (IF h % 24 >= 18 /\ Stressed(of, h) # {} THEN 900 ELSE 0))
RiskLevel(risk) ==
    IF risk >= 4500 THEN "danger" ELSE IF risk >= 3300 THEN "warning"
    ELSE IF risk >= 2100 THEN "caution" ELSE "safe"
Threshold == 3600   \* EMOTION_RISK_THRESHOLD
-----------------------------------------------------------------------------
\* upsert_emotion_tag: the row of the payment is loaded, if there is one.
FindTag(t, b) ==
    /\ tagStage[t] = "new" /\ tagStage' = [tagStage EXCEPT ![t] = "found"]
    /\ body' = [body EXCEPT ![t] = b]
    /\ found' = [found EXCEPT ![t] = IF b.of \in Ids THEN tags[b.of] ELSE Untagged]
    /\ crossed' = crossed \cup
           IF \E s \in Tagging : tagStage[s] = "found" /\ body[s].of = b.of THEN {b.of} ELSE {}
    /\ UNCHANGED <<hour, tags, failures, warned, kept>>

\* An UPDATE names the columns that differ from what was loaded.
Changed(row, loaded, sent) ==
    [emotion   |-> IF sent.emotion = loaded.emotion THEN row.emotion ELSE sent.emotion,
     intensity |-> IF sent.intensity = loaded.intensity THEN row.intensity ELSE sent.intensity]

\* flush and commit.  Of two requests that found no row the second runs into
\* the unique index, and a payment that is not there into the foreign key.
StoreTag(t) ==
    LET id   == body[t].of
        sent == [emotion |-> body[t].emotion, intensity |-> body[t].intensity]
    IN  /\ tagStage[t] = "found"
        /\ IF id \notin Ids \/ (found[t] = Untagged /\ tags[id] # Untagged)
           THEN tagStage' = [tagStage EXCEPT ![t] = "failed"] /\ UNCHANGED <<tags, kept>>
           ELSE /\ tagStage' = [tagStage EXCEPT ![t] = "stored"]
                /\ tags' = [tags EXCEPT ![id] = IF found[t] = Untagged THEN sent
                                                ELSE Changed(tags[id], found[t], sent)]
                /\ kept' = Append(kept, t)
        /\ UNCHANGED <<hour, body, found, failures, warned, crossed>>

\* check_and_notify: a failure is logged and the request answered all the same.
CheckAndNotify(t, works) ==
    LET risk == Risk(tags, hour)
        log  == Append(failures, t)
    IN  /\ tagStage[t] = "stored" /\ tagStage' = [tagStage EXCEPT ![t] = "answered"]
        /\ warned' = IF works /\ risk >= Threshold THEN warned \cup {<<t, RiskLevel(risk), hour>>} ELSE warned
        /\ failures' = IF works THEN failures
                       ELSE IF Len(log) > FailuresKept THEN Tail(log) ELSE log
        /\ UNCHANGED <<hour, tags, body, found, kept, crossed>>

\* reset_emotion_notify_audit, or a restart of the process.
ForgetFailures ==
    /\ failures # <<>> /\ failures' = <<>>
    /\ UNCHANGED <<hour, tags, tagStage, body, found, warned, kept, crossed>>

LaterOn ==
    /\ \E h \in Hours : h > hour /\ hour' = h
    /\ UNCHANGED <<tags, tagStage, body, found, failures, warned, kept, crossed>>

MoodNext ==
    \/ \E t \in Tagging : (\E b \in Bodies : FindTag(t, b)) \/ StoreTag(t) \/ (\E works \in BOOLEAN : CheckAndNotify(t, works))
    \/ ForgetFailures \/ LaterOn

MoodSpec == MoodInit /\ [][MoodNext]_moodVars
-----------------------------------------------------------------------------
Tagged == {p \in Payments : tags[p.id] # Untagged}
PaidFor(ps) == MapThenSumSet(LAMBDA p : p.amount, ps)

\* compute_correlation: what goes with each emotion and category.
Groups == {{q \in Tagged : tags[q.id].emotion = tags[p.id].emotion /\ q.category = p.category} : p \in Tagged}

\* The mean of the group over that of all payments, to the nearest hundredth; a
\* mean of nothing counts as one.
Multiplier(g) ==
    IF PaidFor(Payments) = 0 THEN (200 * PaidFor(g) + Cardinality(g)) \div (2 * Cardinality(g))
    ELSE (200 * PaidFor(g) * Cardinality(Payments) + Cardinality(g) * PaidFor(Payments))
             \div (2 * Cardinality(g) * PaidFor(Payments))

\* compute_heatmap, to the nearest ten thousandth: the largest mean is one.
Whole == 10000
MeanOf(g) == (200 * PaidFor(g) + Cardinality(g)) \div (2 * Cardinality(g))
HeatOf(g) ==
    LET most == Max({MeanOf(s) : s \in Groups})
    IN  IF most > 0 THEN (2 * Whole * MeanOf(g) + most) \div (2 * most) ELSE 0

\* get_insights: the first six.
Striking == {g \in Groups : Multiplier(g) >= 150}
Insights == {g \in Striking : Cardinality({s \in Striking : Multiplier(s) > Multiplier(g)}) < 6}
Severity(g) == IF Multiplier(g) >= 250 THEN "danger" ELSE IF Multiplier(g) >= 200 THEN "warning" ELSE "info"
-----------------------------------------------------------------------------
MoodTypeOK ==
    /\ hour \in Hours /\ body \in [Tagging -> Bodies \cup {NoBody}]
    /\ tagStage \in [Tagging -> {"new", "found", "failed", "stored", "answered"}]
    /\ Len(failures) <= FailuresKept /\ crossed \subseteq {b.of : b \in Bodies}

LastStored(id) ==
    LET on == {i \in DOMAIN kept : body[kept[i]].of = id} IN body[kept[Max(on)]]

\* A payment has the tag that the last request for it sent, unless requests for
\* it overlapped: then each half of it was sent by one of them.
TagsAgree ==
    \A p \in Tagged : LET on == {body[kept[i]] : i \in DOMAIN kept} IN
       /\ p.id \notin crossed => /\ tags[p.id].emotion = LastStored(p.id).emotion
                                 /\ tags[p.id].intensity = LastStored(p.id).intensity
       /\ \E b \in on : b.of = p.id /\ b.emotion = tags[p.id].emotion
       /\ \E b \in on : b.of = p.id /\ b.intensity = tags[p.id].intensity

\* Who is warned is in a band that says so, though the threshold and the bands
\* are set in two places.
WarningsAreMeant == \A w \in warned : w[2] \in {"warning", "danger"} /\ w[3] <= hour

\* Telling of more stress never lowers the risk, as long as no more than four
\* payments tell of some.
MoreStressNoLessRisk ==
    \A p \in Payments, b \in Bodies :
       LET then == [tags EXCEPT ![p.id] = [emotion |-> b.emotion, intensity |-> b.intensity]]
       IN  (/\ p.id = b.of /\ b.emotion = "stressed" /\ b.intensity >= tags[p.id].intensity
            /\ Cardinality(Stressed(then, hour)) <= 4) => Risk(then, hour) >= Risk(tags, hour)

\* What an insight is about is dearer than the rest, so it is never all that was
\* paid, and less than half of it where it is a danger.
InsightsAreDearer ==
    \A g \in Insights :
       Cardinality(Payments) > (IF Severity(g) = "danger" THEN 2 ELSE 1) * Cardinality(g)

\* The heat goes up to one, and reaches it.
HeatIsScaled ==
    /\ \A g \in Groups : HeatOf(g) \in 0..Whole
    /\ (\E g \in Groups : HeatOf(g) > 0) => \E g \in Groups : HeatOf(g) = Whole

MoodsHold ==
    TagsAgree /\ WarningsAreMeant /\ MoreStressNoLessRisk /\ InsightsAreDearer /\ HeatIsScaled
=============================================================================
