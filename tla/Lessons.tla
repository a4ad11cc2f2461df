------------------------------- MODULE Lessons --------------------------------
(***************************************************************************)
(* What the backend's education programme teaches and measures. First,     *)
(* from the tables of app/services/education_store.py and the rules of     *)
(* app/api/routes_education.py, what a user is told of the spending, the   *)
(* level and its courses, the two quizzes and how they are marked, and the *)
(* simulator of a fraudulent payment, beside the rules that fraud-service  *)
(* really decides by (module Policy); amounts are there in units of 10,000 *)
(* won, rounded down, risks and shares in hundredths. Then, from the       *)
(* constant Waits on, how a challenge is measured: what                    *)
(* sync_challenge_progress computes from a user's payments and quizzes     *)
(* (app/services/education_store_db.py) as time passes and payments, of    *)
(* now or of before, come in; time is in half days, and amounts are in     *)
(* units of 20,000 won, of which a hundred are the reference of the        *)
(* budget. Module Education has the rows, the badges and the races of      *)
(* requests.                                                               *)
(***************************************************************************)
EXTENDS Integers, Sequences, FiniteSets, FiniteSetsExt

CONSTANTS TriedAmount, TriedHour,  \* payments that are tried in the simulator
          RiskOf,                  \* what the classifier says
          Spent,                   \* what is spent in a month
          Asked,                   \* questions of the quizzes that are answered
          MaxAnswers, MaxFinished  \* bounds

ASSUME LessonConstants ==
    /\ TriedAmount \subseteq Nat /\ TriedHour \subseteq 0..23 /\ Asked \subseteq Nat
    /\ RiskOf \subseteq Nat /\ Spent \subseteq Nat /\ 0 \in RiskOf \cap Spent
    /\ MaxAnswers \in Nat

Engine == INSTANCE Policy

Level == <<"beginner", "intermediate", "advanced">>

\* COURSES, four of each level and each of four steps.
CourseOf(level) == [level : {level}, number : 1..4, steps : {4}]
Beginner     == CourseOf("beginner")
Intermediate == CourseOf("intermediate")
Advanced     == CourseOf("advanced")
Courses      == Beginner \cup Intermediate \cup Advanced

\* SPENDING_QUIZ_BANK: which of the four options is right.
SpendingQuiz == <<3, 3, 2, 3, 2, 2, 4, 2, 3, 3>>

\* _FRAUD_SCENARIOS; rules: what the explanation says is noticed.
Scenario(amount, hour, foreign, rules) ==
    [amount |-> amount, hour |-> hour, foreign |-> foreign, merchant |-> "NEW_MERCHANT" \in rules,
     fraud |-> rules # {}, rules |-> rules]

FraudScenarios ==
    <<Scenario(0, 14, FALSE, {}),
      Scenario(150, 3, TRUE, {"TIME_RISK", "FOREIGN_IP", "AMOUNT_REVIEW"}),
      Scenario(1, 12, FALSE, {}),
      Scenario(0, 15, FALSE, {"SPLIT_TXN", "VELOCITY_FREQ"}),
      Scenario(50, 9, FALSE, {}),
      Scenario(300, 1, TRUE, {"TIME_RISK", "FOREIGN_IP", "AMOUNT_REVIEW", "NEW_MERCHANT"}),
      Scenario(1, 16, FALSE, {}),
      Scenario(400, 22, FALSE, {"AMOUNT_REVIEW", "AMOUNT_SPIKE", "NEW_MERCHANT"}),
      Scenario(0, 8, FALSE, {}),
      Scenario(25, 14, FALSE, {"VELOCITY_FREQ"})>>

VARIABLES
    subject,   \* what a behaviour is about; the subjects share nothing
    tried,     \* the payment in the simulator
    asked,     \* the questions of the answers that are sent, in order
    answers,   \* the answers
    spending,  \* the user's risk, cluster, last two months, and what stands out
    finished   \* courses the user has completed

lessonVars == <<subject, tried, asked, answers, spending, finished>>

Cluster == {"saver", "balanced", "spender", "investor"}

SpendingOfUser == [risk : RiskOf, cluster : Cluster, before : Spent, now : Spent,
             high : SUBSET {"food", "housing"},   \* categories of more than 30%
             odd : 0..1]                          \* payments that stand out

LessonInit ==
    /\ subject \in {"simulator", "quiz", "diagnosis"}
    /\ tried = [amount |-> 0, hour |-> 12, foreign |-> FALSE, merchant |-> FALSE]
    /\ asked = <<>> /\ answers = <<>> /\ finished = {}
    /\ spending = [risk |-> 0, cluster |-> "saver", before |-> 0, now |-> 0, high |-> {}, odd |-> 0]
-----------------------------------------------------------------------------
\* _risk_grade
Grade(r) ==
    IF r < 20 THEN "safe" ELSE IF r < 40 THEN "caution" ELSE IF r < 60 THEN "warning"
    ELSE IF r < 80 THEN "danger" ELSE "critical"

\* _assign_level, as an index of Level
Assigned(r, type) ==
    IF r >= 60 \/ type = "spender" THEN 1 ELSE IF r >= 30 \/ type = "balanced" THEN 2 ELSE 3

\* monthly_insight; a month without spending is no base.
Insight(before, now) ==
    IF before = 0 \/ (now <= before /\ 10 * now > 9 * before) THEN "similar"
    ELSE IF 5 * now > 6 * before THEN "much more" ELSE IF now > before THEN "more" ELSE "less"

\* improvement_points
ImprovementPoints(s) ==
    (s.high \ {"housing", "utilities"})
        \cup (IF s.risk > 50 THEN {"overspending"} ELSE {}) \cup (IF s.odd > 0 THEN {"odd payments"} ELSE {})

Diagnosis(s) ==
    [grade |-> Grade(s.risk), insight |-> Insight(s.before, s.now), advice |-> ImprovementPoints(s),
     level |-> Level[Assigned(s.risk, s.cluster)]]

\* get_curriculum: the completed courses of the level.
CompletedOf(done, level) == Cardinality({c \in done : c.level = level})

\* simulate_fraud: the rules that it reports, and the strongest action.
Reported(p) ==
    {r \in {"AMOUNT_BLOCK", "AMOUNT_REVIEW", "TIME_RISK", "FOREIGN_IP", "NEW_MERCHANT"} :
        \/ r = "AMOUNT_BLOCK" /\ p.amount >= 500
        \/ r = "AMOUNT_REVIEW" /\ p.amount \in 100..499
        \/ r = "TIME_RISK" /\ p.hour \in 2..5 /\ p.amount >= 50
        \/ r = "FOREIGN_IP" /\ p.foreign /\ p.amount >= 30
        \/ r = "NEW_MERCHANT" /\ p.merchant /\ p.amount >= 20}

Mut_LastRule(p) ==
    IF "NEW_MERCHANT" \in Reported(p) THEN "SOFT_REVIEW"
    ELSE IF Reported(p) = {} THEN "PASS" ELSE IF "AMOUNT_BLOCK" \in Reported(p) THEN "BLOCK" ELSE "REVIEW"

SimulatedAction(p) ==
    IF "AMOUNT_BLOCK" \in Reported(p) THEN "BLOCK"
    ELSE IF Reported(p) \ {"NEW_MERCHANT"} # {} THEN "REVIEW"
    ELSE IF Reported(p) # {} THEN "SOFT_REVIEW" ELSE "PASS"

\* submit_fraud_quiz: the answers and the questions by their place, as far as
\* both go; a question that it does not know is wrong.
FraudCorrect ==
    Cardinality({i \in DOMAIN answers \cap DOMAIN asked :
        asked[i] \in DOMAIN FraudScenarios /\ answers[i] = (IF FraudScenarios[asked[i]].fraud THEN 2 ELSE 1)})

\* submit_spending_quiz: each answer with its question; no answer, 0, to a
\* question that it does not know is right.
SpendingRight(question, answer) ==
    IF question \in DOMAIN SpendingQuiz THEN answer = SpendingQuiz[question] ELSE answer = 0

SpendingCorrect == Cardinality({i \in DOMAIN answers : SpendingRight(asked[i], answers[i])})

Marks(correct) == IF answers = <<>> THEN 0 ELSE (100 * correct) \div Len(answers)
-----------------------------------------------------------------------------
\* Another payment in the simulator, of any parts.
Try(p) ==
    /\ subject = "simulator" /\ tried' = p
    /\ UNCHANGED <<subject, asked, answers, spending, finished>>

AskQuestion(q) ==
    /\ subject = "quiz" /\ Len(asked) < MaxAnswers /\ asked' = Append(asked, q)
    /\ UNCHANGED <<subject, tried, answers, spending, finished>>

Reply(a) ==
    /\ subject = "quiz" /\ Len(answers) < MaxAnswers /\ answers' = Append(answers, a)
    /\ UNCHANGED <<subject, tried, asked, spending, finished>>

\* The models are trained again.
Retrain(r, type) ==
    /\ subject = "diagnosis" /\ finished = {} /\ spending' = [spending EXCEPT !.risk = r, !.cluster = type]
    /\ UNCHANGED <<subject, tried, asked, answers, finished>>

\* Another month.
Spend(amount, high, odd) ==
    /\ subject = "diagnosis" /\ finished = {}
    /\ spending' = [spending EXCEPT !.before = spending.now, !.now = amount, !.high = high, !.odd = odd]
    /\ UNCHANGED <<subject, tried, asked, answers, finished>>

Finish(c) ==
    /\ subject = "diagnosis" /\ Cardinality(finished) < MaxFinished /\ finished' = finished \cup {c}
    /\ UNCHANGED <<subject, tried, asked, answers, spending>>

LessonNext ==
    \/ \E p \in [amount : TriedAmount, hour : TriedHour, foreign : BOOLEAN, merchant : BOOLEAN] : Try(p)
    \/ \E q \in Asked : AskQuestion(q)
    \/ \E a \in 0..4 : Reply(a)
    \/ \E r \in RiskOf, type \in Cluster : Retrain(r, type)
    \/ \E amount \in Spent, high \in SUBSET {"food", "housing"}, odd \in 0..1 : Spend(amount, high, odd)
    \/ \E c \in Courses : Finish(c)

LessonSpec == LessonInit /\ [][LessonNext]_lessonVars
-----------------------------------------------------------------------------
LessonTypeOK ==
    /\ subject \in {"simulator", "quiz", "diagnosis"}
    /\ tried \in [amount : Nat, hour : 0..23, foreign : BOOLEAN, merchant : BOOLEAN]
    /\ asked \in Seq(Nat) /\ Len(asked) <= MaxAnswers
    /\ answers \in Seq(0..4) /\ Len(answers) <= MaxAnswers
    /\ spending \in SpendingOfUser /\ finished \subseteq Courses

\* The engine's view of the payment that is tried: a user's first one, with no
\* transfers, on a device of the user's own.
AsPaid ==
    [amount |-> tried.amount, score |-> 0, foreign |-> tried.foreign, merchant |-> tried.merchant,
     hour |-> IF tried.hour \in 2..4 THEN "night" ELSE "day",
     drains |-> FALSE]
FirstPayment ==
    [whitelisted |-> FALSE, blacklisted |-> FALSE, deviceUsers |-> 1, fanIn |-> 0, passThrough |-> 0,
     inboundAgo |-> Engine!Never, count |-> 1, total |-> tried.amount, v1 |-> 1, v5 |-> 1,
     atHour |-> 1, withHour |-> 1, enabled |-> Engine!RuleId]

\* Outside of the hour after five, the simulator reports the rules that
\* fraud-service would find on a first payment, but for the review of an amount
\* that is blocked, and names the same strongest action.
TaughtAsDecided ==
    tried.hour # 5 =>
        LET decided == Engine!RuleAction(AsPaid, FirstPayment)
        IN  /\ SimulatedAction(tried) = decided.action
            /\ decided.ids \ Reported(tried) \subseteq {"AMOUNT_REVIEW"} /\ Reported(tried) \subseteq decided.ids

\* The simulator finds each rule that it knows and a scenario of the quiz says
\* is noticed, but the one that calls one in the morning late at night, and
\* none in the others.
ScenariosTaught ==
    \A i \in DOMAIN FraudScenarios :
        LET known == FraudScenarios[i].rules \cap {"AMOUNT_REVIEW", "TIME_RISK", "FOREIGN_IP", "NEW_MERCHANT"}
        IN  known \ Reported(FraudScenarios[i]) \subseteq (IF i = 6 THEN {"TIME_RISK"} ELSE {})
            /\ Reported(FraudScenarios[i]) \subseteq known

\* A quiz gives no more than full marks, and full marks for nothing but right
\* answers, of which those to questions that were not asked are none.
MarksFair ==
    \A correct \in {FraudCorrect} \cup (IF Len(asked) < Len(answers) THEN {} ELSE {SpendingCorrect}) :
        /\ Marks(correct) \in 0..100
        /\ (Marks(correct) = 100 => correct = Len(answers) /\ (correct > 0 => Len(asked) >= Len(answers)))

\* A user who is told that all is well is not in danger, one in danger begins
\* with the basics, and no level has more courses completed than it has.
DiagnosisAgrees ==
    LET told == Diagnosis(spending)
    IN  /\ told.advice = {} => told.grade \in {"safe", "caution", "warning"}
        /\ told.grade \in {"danger", "critical"} => told.level = "beginner"
        /\ told.level = "advanced" => told.grade \in {"safe", "caution"}
        /\ CompletedOf(finished, told.level) <= Cardinality(CourseOf(told.level))

\* What the programme teaches agrees with what it marks, and with what
\* fraud-service decides.
LessonsHold ==
    /\ subject = "simulator" => TaughtAsDecided /\ ScenariosTaught
    /\ subject = "quiz" => MarksFair
    /\ subject = "diagnosis" => DiagnosisAgrees
-----------------------------------------------------------------------------
CONSTANTS Waits,        \* how long nothing happens
          Ages,         \* how long ago a payment was made when it comes in
          Amounts,      \* of payments
          MaxTime, MaxPayments, MaxQuizzes, MaxOverlap  \* bounds

ASSUME ChallengeConstants ==
    /\ Waits \subseteq Nat /\ Ages \subseteq Nat /\ Amounts \subseteq Nat
    /\ MaxTime \in Nat /\ MaxPayments \in Nat /\ MaxQuizzes \in Nat /\ MaxOverlap \in Nat

\* CHALLENGES: the metric's target, and the half days that a challenge lasts.
Target   == [coffee_save |-> 50, budget_keeper |-> 100, zero_spend |-> 2,
             fraud_quiz_master |-> 10, type_change |-> 1]
Duration == [coffee_save |-> 28, budget_keeper |-> 60, zero_spend |-> 14,
             fraud_quiz_master |-> 60, type_change |-> 180]

Window == 60   \* the thirty days whose payments are read

VARIABLES
    clock,
    payments,   \* transactions: when, how much, and whether for food or a cafe
    scores,     \* quiz_scores, in the order of created_at: whether of 60 or more
    joined,     \* the enrolment: the challenge, its start and its status
    measured    \* its current_value

challengeVars == <<clock, payments, scores, joined, measured>>

\* A behaviour is about one challenge, and about what that one is measured by.
ChallengeInit ==
    /\ clock = 0 /\ payments = {} /\ scores = <<>> /\ measured = 0
    /\ joined \in [challenge : DOMAIN Target, start : {0}, status : {"none"}]
-----------------------------------------------------------------------------
Day(t)   == t \div 2
Month(t) == t \div 60

\* tx_rows: the payments of the last thirty days.
Recent == {p \in payments : p.at >= clock - Window}

Total(ps) == MapThenSumSet(LAMBDA p : p.amount, ps)

\* food_cafe_reduction, in percent: of what the thirty days before it were
\* spent on food, by which the time since is less.
Reduction(start) ==
    LET food   == {p \in Recent : p.food}
        before == Total({p \in food : start - Window <= p.at /\ p.at < start})
        after  == Total({p \in food : p.at >= start})
    IN  IF before = 0 THEN 0 ELSE Max({(100 * (before - after)) \div before, 0})

\* zero_spend_days: of the days from the start to the end, or to today, both
\* counted in full.
ZeroDays(start) ==
    LET end  == Min({start + Duration["zero_spend"], clock})
        paid == {Day(p.at) : p \in {q \in Recent : start <= q.at /\ q.at <= end}}
    IN  Max({Day(end) - Day(start) + 1 - Cardinality(paid), 0})

\* budget_compliance, in percent of the reference, in the calendar month.
Compliance == Max({100 - Total({p \in Recent : Month(p.at) = Month(clock)}), 0})

Mut_LastStreak ==
    LET run[i \in 0..Len(scores)] == IF i = 0 \/ ~scores[i] THEN 0 ELSE run[i - 1] + 1
    IN  run[Len(scores)]

\* fraud_quiz_streak: the longest run of quizzes of 60 or more.
Streak ==
    LET run[i \in 0..Len(scores)] == IF i = 0 \/ ~scores[i] THEN 0 ELSE run[i - 1] + 1
    IN  Max({run[i] : i \in 0..Len(scores)})

\* _compute_metric; the change of the user's cluster is not computed.
Metric(challenge, start) ==
    IF challenge = "coffee_save" THEN Reduction(start)
    ELSE IF challenge = "zero_spend" THEN ZeroDays(start)
    ELSE IF challenge = "budget_keeper" THEN Compliance ELSE Streak
-----------------------------------------------------------------------------
\* Time passes; a streak does not depend on it.
Wait(d) ==
    /\ joined.challenge # "fraud_quiz_master" /\ clock + d <= MaxTime /\ clock' = clock + d
    /\ UNCHANGED <<payments, scores, joined, measured>>

\* A payment is entered, of now or of before.
Pay(age, amount, food) ==
    /\ joined.challenge \in {"coffee_save", "budget_keeper", "zero_spend"}
    /\ food => joined.challenge = "coffee_save"
    /\ Cardinality(payments) < MaxPayments /\ age <= clock
    /\ LET paid == [at |-> clock - age, amount |-> amount, food |-> food]
       IN  paid \notin payments /\ payments' = payments \cup {paid}
    /\ UNCHANGED <<clock, scores, joined, measured>>

\* A quiz is marked, or a row of them.  A row of the table has the time at which
\* its transaction began, so those that began later and are there come after.
Mark(well, often, later) ==
    /\ joined.challenge = "fraud_quiz_master" /\ Len(scores) + often <= MaxQuizzes /\ later <= Len(scores)
    /\ LET place == Len(scores) - later
       IN  scores' = SubSeq(scores, 1, place) \o [i \in 1..often |-> well]
                         \o SubSeq(scores, place + 1, Len(scores))
    /\ UNCHANGED <<clock, payments, joined, measured>>

\* enroll_challenge
Join ==
    /\ joined.status = "none" /\ joined' = [joined EXCEPT !.start = clock, !.status = "active"]
    /\ UNCHANGED <<clock, payments, scores, measured>>

Reached(value) ==
    /\ measured' = value
    /\ joined' = IF value >= Target[joined.challenge] THEN [joined EXCEPT !.status = "completed"] ELSE joined
    /\ UNCHANGED <<clock, payments, scores>>

\* sync_challenge_progress
Sync ==
    /\ joined.status = "active" /\ joined.challenge # "type_change"
    /\ Reached(Metric(joined.challenge, joined.start))

\* update_challenge_progress, with what the client says.
ReportProgress(value) == joined.status = "active" /\ Reached(value)

ChallengeNext ==
    \/ \E d \in Waits : Wait(d)
    \/ \E age \in Ages, amount \in Amounts, food \in BOOLEAN : Pay(age, amount, food)
    \/ \E well \in BOOLEAN, often \in {1, 5}, later \in 0..MaxOverlap : Mark(well, often, later)
    \/ Join \/ Sync
    \/ ReportProgress(1)

ChallengeSpec == ChallengeInit /\ [][ChallengeNext]_challengeVars
-----------------------------------------------------------------------------
ChallengeTypeOK ==
    /\ clock \in 0..MaxTime
    /\ payments \subseteq [at : 0..MaxTime, amount : Amounts, food : BOOLEAN]
    /\ scores \in Seq(BOOLEAN) /\ Len(scores) <= MaxQuizzes
    /\ joined.status \in {"none", "active", "completed"} /\ measured \in 0..100

\* What a challenge measures moves one way.  A streak never breaks unless
\* a quiz comes in before one that began later.  The saving
\* on coffee never grows again unless a payment from before the start comes in,
\* so it is reached with the first payment or not at all.  A budget that has
\* been spent is whole again only in another month.  A day without spending
\* is lost only to a payment on it, and won only by the next day, within the
\* thirty days that are read (_compute_metric and its cutoff).
MovesOneWay ==
    joined.status # "none" =>
        LET now == Metric(joined.challenge, joined.start)
            new == Metric(joined.challenge, joined.start)'
            inOrder == \A i \in DOMAIN scores : scores'[i] = scores[i]
            late == \E p \in payments' \ payments : p.at < joined.start
        IN  /\ joined.challenge = "fraud_quiz_master" /\ inOrder => new >= now
            /\ joined.challenge = "coffee_save" /\ ~late => new <= now
            /\ joined.challenge = "budget_keeper" /\ Month(clock') = Month(clock) => new <= now
            /\ joined.challenge = "zero_spend" /\ payments' # payments => new \in {now - 1, now}
            /\ joined.challenge = "zero_spend" /\ clock' <= joined.start + Window
                    => new - now <= Day(clock') - Day(clock)

\* At every step of a challenge.
MetricMoves == [][MovesOneWay]_challengeVars
=============================================================================
