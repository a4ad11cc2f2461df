-------------------------------- MODULE Advice --------------------------------
(***************************************************************************)
(* What one user pays, the category it is filed under                      *)
(* (app/services/category_engine.py), the advice on it                     *)
(* (app/api/routes_strategy.py), which looks at the profile that the       *)
(* process read when it began and at a budget that it keeps in memory, and *)
(* what the pages say of it as long as the models are not trained          *)
(* (app/api/routes_analysis.py, app/services/xai_engine.py and the rules   *)
(* that stand in for the models in app/ml): the analyses look at the       *)
(* profile in memory, the explanations at the table. Amounts are whole;    *)
(* confidence, probabilities and what can be saved are in hundredths, a    *)
(* ratio is a pair, and a month has thirty days.                           *)
(***************************************************************************)
EXTENDS Integers, Sequences, FiniteSets, FiniteSetsExt

CONSTANTS Sent,      \* payments that are sent: {[category, text, amount, at]}
          BudgetSets,   \* budgets that are set: {[total, items: <<<<category, amount>>, ...>>]}
          AskedOn,   \* the day of everything that is asked
          AdviceRows   \* bound: payments

\* TransactionIngest and BudgetItem take no amount below nothing.
ASSUME AdviceConstants ==
    /\ AskedOn \in Int /\ AdviceRows \in Nat
    /\ \A s \in Sent : s.amount \in Nat /\ s.at \in Int /\ s.text.length \in Nat
    /\ \A b \in BudgetSets :
          /\ Len(b.items) \in Nat /\ DOMAIN b.items = 1..Len(b.items)
          /\ \A i \in DOMAIN b.items : b.items[i][2] \in Nat

VARIABLES
    ledger,    \* table transactions: <<[category, amount, at], ...>>, in the order of their commits
    profile,   \* profile_store: what of the ledger it has
    budget,    \* _budgets[user_id]: the budgets that are set, none or one
    misfiled   \* history: payments in the ledger that no text was looked at for

adviceVars == <<ledger, profile, budget, misfiled>>

AdviceInit == ledger = <<>> /\ profile = <<>> /\ budget = {} /\ misfiled = {}
-----------------------------------------------------------------------------
\* _MCC_MAP: the first range that has the code; and _KEYWORD_MAP, with the length of the word.
MccRanges ==
    << <<5811, 5815, "food">>, <<5411, 5500, "food">>, <<5200, 5400, "shopping">>,
       <<5600, 5700, "shopping">>, <<5900, 6000, "shopping">>, <<4011, 4800, "transport">>,
       <<7800, 7999, "entertainment">>, <<7911, 7942, "entertainment">>, <<8200, 8300, "education">>,
       <<8000, 8100, "healthcare">>, <<6000, 6200, "finance">>, <<3000, 3500, "travel">>,
       <<7000, 7300, "travel">>, <<4900, 5000, "utilities">> >>
Keywords ==
    << <<"starbucks", 4, "food">>, <<"ediya", 3, "food">>, <<"baemin", 5, "food">>,
       <<"coupang", 2, "shopping">>, <<"naver", 5, "shopping">>, <<"kakaotaxi", 5, "transport">>,
       <<"netflix", 4, "entertainment">>, <<"hospital", 2, "healthcare">>, <<"pharmacy", 2, "healthcare">>,
       <<"kyobo", 4, "education">>, <<"academy", 2, "education">>, <<"power", 3, "utilities">>,
       <<"KT", 2, "utilities">>, <<"SKT", 3, "utilities">> >>

\* The category that the first of them leads to.
FirstOf(table, matching) == IF matching = {} THEN "other" ELSE table[Min(matching)][3]

ClassifyByMcc(mcc) ==
    FirstOf(MccRanges, {i \in DOMAIN MccRanges : MccRanges[i][1] <= mcc /\ mcc < MccRanges[i][2]})

\* A text is the words that it holds and its length.
Words(text) == {i \in DOMAIN Keywords : Keywords[i][1] \in text.says}

NoCode == -1

\* classify
Classify(mcc, text) ==
    IF mcc # NoCode /\ ClassifyByMcc(mcc) # "other" THEN ClassifyByMcc(mcc)
    ELSE FirstOf(Keywords, Words(text))

Fewer(a, b) == IF a < b THEN a ELSE b
More(a, b)  == IF a < b THEN b ELSE a

\* classify_with_confidence
ClassifyWithConfidence(mcc, text) ==
    LET byCode == IF mcc = NoCode THEN "other" ELSE ClassifyByMcc(mcc)
        words  == Words(text)
        base   == Fewer(95, More(50, (100 * Keywords[Min(words)][2]) \div More(1, text.length)))
    IN  IF byCode # "other" THEN [category |-> byCode, confidence |-> 95, source |-> "mcc"]
        ELSE IF words = {} THEN [category |-> "other", confidence |-> 0, source |-> "fallback"]
        ELSE [category |-> Keywords[Min(words)][3], source |-> "keyword",
              confidence |-> base + Fewer(95 - base, 5 * (Cardinality(words) - 1))]
-----------------------------------------------------------------------------
\* POST /v1/profile/ingest files a payment whose category is not said; a batch
\* leaves it where it is.
Ingest(sent, alone) ==
    LET filed == IF alone /\ sent.category = "other" THEN Classify(NoCode, sent.text) ELSE sent.category
    IN  /\ Len(ledger) < AdviceRows
        /\ ledger' = Append(ledger, [category |-> filed, amount |-> sent.amount, at |-> sent.at])
        /\ misfiled' = misfiled \cup
               IF filed # Classify(NoCode, sent.text) /\ sent.category = "other" THEN {Len(ledger) + 1} ELSE {}
        /\ UNCHANGED <<profile, budget>>

SetBudget(b) ==
    /\ budget' = {b} /\ UNCHANGED <<ledger, profile, misfiled>>

\* Of the first n payments, those of half a year.
HalfYear(n) ==
    LET of[i \in 0..n] == IF i = 0 THEN <<>>
                          ELSE IF ledger[i].at >= AskedOn - 180 THEN Append(of[i - 1], ledger[i]) ELSE of[i - 1]
    IN  of[n]

\* The process begins again: rehydrate_from_db.
Reboot ==
    /\ profile' = HalfYear(Len(ledger)) /\ budget' = {} /\ UNCHANGED <<ledger, misfiled>>

AdviceNext ==
    \/ \E sent \in Sent, alone \in BOOLEAN : Ingest(sent, alone)
    \/ \E b \in BudgetSets : SetBudget(b)
    \/ Reboot

AdviceSpec == AdviceInit /\ [][AdviceNext]_adviceVars
-----------------------------------------------------------------------------
Summed(f) == MapThenSumSet(LAMBDA x : f[x], DOMAIN f)

\* get_profile
Of(category)   == {i \in DOMAIN profile : profile[i].category = category}
Paid(rows)     == Summed([i \in rows |-> profile[i].amount])
PaidOn(c)      == Paid(Of(c))
PaidInAll      == Paid(DOMAIN profile)
Breakdown      == {profile[i].category : i \in DOMAIN profile}

\* recommend_strategy, in its order: what can be saved on a category, and why.
Savings(c) ==
    (IF 100 * PaidOn(c) > 30 * PaidInAll /\ c \notin {"housing", "utilities"} THEN {<<"concentrated", 10>>} ELSE {})
    \cup (IF c = "food" /\ 100 * PaidOn(c) > 15 * PaidInAll THEN {<<"food", 15>>} ELSE {})
    \cup (IF c = "shopping" /\ 10 * PaidOn(c) * Len(profile) > 12 * PaidInAll * Cardinality(Of(c))
          THEN {<<"impulse", 20>>} ELSE {})
    \cup (IF c = "entertainment" /\ 100 * PaidOn(c) > 5 * PaidInAll THEN {<<"leisure", 30>>} ELSE {})
PotentialSaving(c) == Summed([s \in Savings(c) |-> s[2] * PaidOn(c)])

\* Warned of the budget as a whole; and get_savings, by category, where the
\* first item counts and one of nothing counts for none.
OverInAll == \E b \in budget : PaidInAll > b.total
ItemFor(b, c) == LET on == {i \in DOMAIN b.items : b.items[i][1] = c}
                 IN  IF on = {} THEN 0 ELSE b.items[Min(on)][2]
OverOn(c) == \E b \in budget : ItemFor(b, c) # 0 /\ PaidOn(c) > ItemFor(b, c)
-----------------------------------------------------------------------------
AdviceTypeOK ==
    /\ Len(ledger) <= AdviceRows /\ budget \subseteq BudgetSets /\ Cardinality(budget) <= 1
    /\ misfiled \subseteq DOMAIN ledger

SentTexts == {s.text : s \in Sent}
Codes == {NoCode, 2999, 3000, 4899, 5400, 5499, 5811, 5999, 6000, 7998, 7999}

\* Both classifications lead to the same category, and confidence is nothing
\* exactly where there is no category.
ClassifiersAgree ==
    \A mcc \in Codes, text \in SentTexts :
       LET sure == ClassifyWithConfidence(mcc, text)
       IN  /\ sure.category = Classify(mcc, text)
           /\ (sure.confidence = 0) = (sure.category = "other")
           /\ sure.confidence = 0 \/ sure.confidence \in 50..95

\* What is advised is about payments that were made, though not about those
\* since the process began; only a batch leaves a payment under no category
\* that its text names; nobody is told to save more than four tenths of what a
\* category costs or of all; and who is over a budget whose items add up to its
\* total is told a category that is, unless one of them has no item or one of
\* nothing.
AdviceHolds ==
    /\ ClassifiersAgree
    /\ \E n \in 0..Len(ledger) : profile = HalfYear(n)
    /\ \A i \in misfiled : ledger[i].category = "other"
    /\ \A c \in Breakdown : PotentialSaving(c) <= 40 * PaidOn(c)
    /\ Summed([c \in Breakdown |-> PotentialSaving(c)]) <= 40 * PaidInAll
    /\ \A b \in budget :
          (/\ OverInAll /\ b.total = Summed([i \in DOMAIN b.items |-> b.items[i][2]])
           /\ \A c \in Breakdown : ItemFor(b, c) # 0) => \E c \in Breakdown : OverOn(c)
-----------------------------------------------------------------------------
\* get_trend: the months in which something was paid, and what.
MonthOf(p) == p.at \div 30
Periods    == {MonthOf(profile[i]) : i \in DOMAIN profile}
InMonth(m) == {i \in DOMAIN profile : MonthOf(profile[i]) = m}
LastMonth  == Max(Periods)

\* A ratio is more than so many tenths; to nothing, all are none.
Exceeds(ratio, tenths) == ratio[2] > 0 /\ 10 * ratio[1] > tenths * ratio[2]

\* OverspendClassifier.predict, where it is not fitted.
RuleScore(amount, month, top) ==
    (IF Exceeds(amount, 30) THEN 40 ELSE IF Exceeds(amount, 20) THEN 20 ELSE 0)
    + (IF Exceeds(month, 12) THEN 30 ELSE IF Exceeds(month, 10) THEN 10 ELSE 0)
    + (IF Exceeds(top, 4) THEN 20 ELSE 0)
IsOverspend(score) == score >= 70

TopPaid == Max({PaidOn(c) : c \in Breakdown})

\* predict_overspend: the last month to the mean of those before, and the mean
\* payment to itself; recommend_strategy, where the months are the same too.
OverspendPage ==
    LET earlier == DOMAIN profile \ InMonth(LastMonth)
    IN  RuleScore(<<PaidInAll, PaidInAll>>,
                  <<Paid(InMonth(LastMonth)) * (Cardinality(Periods) - 1), Paid(earlier)>>,
                  <<TopPaid, PaidInAll>>)
StrategyPage == RuleScore(<<PaidInAll, PaidInAll>>, <<PaidInAll, PaidInAll>>, <<TopPaid, PaidInAll>>)

\* What the explanations find in the table: ninety days, the latest first.
Ninety        == {i \in DOMAIN ledger : ledger[i].at >= AskedOn - 90}
Booked(rows)  == Summed([i \in rows |-> ledger[i].amount])
Latest        == {i \in Ninety : \A j \in Ninety : ledger[j].at <= ledger[i].at}
TopOfTable    == Max({Booked({j \in Ninety : ledger[j].category = ledger[i].category}) : i \in Ninety})

\* explain_overspend: the latest payment to the mean, all three months to a third of them.
ExplainPage(recent) ==
    RuleScore(<<ledger[recent].amount * Cardinality(Ninety), Booked(Ninety)>>,
              <<3 * Booked(Ninety), Booked(Ninety)>>, <<TopOfTable, Booked(Ninety)>>)

\* SpendAnomalyDetector.predict: three standard deviations off the mean.
Unusual(amounts) ==
    LET n == Cardinality(DOMAIN amounts)
        s == Summed(amounts)
        q == Summed([i \in DOMAIN amounts |-> amounts[i] * amounts[i]])
    IN  {i \in DOMAIN amounts : (n * amounts[i] - s) * (n * amounts[i] - s) > 9 * (n * q - s * s)}

\* detect_anomaly and explain_anomalies
AnomalyPage   == Unusual([i \in DOMAIN profile |-> profile[i].amount])
AnomaliesTold == Unusual([i \in Ninety |-> ledger[i].amount])

\* SpendClusterModel.predict by the sum of the shares, which is one or nothing.
ClusterBy(share) == IF share < 30 THEN "saver" ELSE IF share < 60 THEN "balanced" ELSE "spender"
PatternPage  == ClusterBy(IF PaidInAll > 0 THEN 100 ELSE 0)
ClusterTold  == ClusterBy(IF Booked(Ninety) > 0 THEN 100 ELSE 0)

\* forecast_spending: months without a payment are left out, later ones weigh
\* more; the categories have the shares of the last three.
Rank(m)      == Cardinality({k \in Periods : k <= m})
Weights      == Summed([m \in Periods |-> Rank(m)])
Forecast     == Summed([m \in Periods |-> Rank(m) * Paid(InMonth(m))])   \* times Weights
Confidence   == Fewer(60, 30 + 10 * Cardinality(Periods))
LastThree    == UNION {InMonth(m) : m \in {k \in Periods : Rank(k) > Cardinality(Periods) - 3}}
ForecastOn(c) == IF Paid(LastThree) = 0 THEN 0
                 ELSE Forecast * Paid({i \in LastThree : profile[i].category = c}) \* times Weights, Paid(LastThree)

\* compare_periods, of any two of the months.
DiffOn(c, cur, prev) == Paid(InMonth(cur) \cap Of(c)) - Paid(InMonth(prev) \cap Of(c))
Compares(cur, prev) ==
    LET now == Paid(InMonth(cur))
        was == Paid(InMonth(prev))
    IN  IF was > 0 /\ 100 * (now - was) > 20 * was THEN "more"
        ELSE IF was > 0 /\ 100 * (now - was) < -10 * was THEN "less" ELSE "similar"
-----------------------------------------------------------------------------
\* One payment of fifty among payments of one.
OneLarge == \A n \in 2..12 : (Unusual([i \in 1..n |-> IF i = 1 THEN 50 ELSE 1]) = {1}) = (n >= 11)

\* The pages agree in what they cannot agree by construction.  The page of
\* overspending and the strategy never reach the threshold, whatever is paid;
\* the explanation does, since it takes three months for one: exactly if the
\* latest payment is more than three times the mean, or twice where a category
\* has four tenths; and it never finds less than the strategy.  Up to ten payments none
\* is unusual.  Nobody is balanced.  A forecast lies between the months, and is
\* shared out whole; and months are compared by all that differs, where a month
\* and another are never both more, nor both less.
PagesAgree ==
    /\ profile # <<>> =>
          /\ OverspendPage \in 0..50 /\ StrategyPage \in {0, 20}
          /\ Len(profile) <= 10 => AnomalyPage = {}
          /\ PatternPage # "balanced"
          /\ \E m \in Periods : Weights * Paid(InMonth(m)) <= Forecast
          /\ \E m \in Periods : Weights * Paid(InMonth(m)) >= Forecast
          /\ Confidence \in 40..60
          /\ Summed([c \in Breakdown |-> ForecastOn(c)]) = Forecast * Paid(LastThree)
          /\ \A cur, prev \in Periods :
                /\ Summed([c \in Breakdown |-> DiffOn(c, cur, prev)])
                       = Paid(InMonth(cur)) - Paid(InMonth(prev))
                /\ Compares(cur, prev) = "more" => Compares(prev, cur) # "more"
                /\ Compares(cur, prev) = "less" => Compares(prev, cur) # "less"
    /\ Ninety # {} =>
          /\ Cardinality(Ninety) <= 10 => AnomaliesTold = {}
          /\ ClusterTold # "balanced"
          /\ \A i \in Latest :
                /\ IsOverspend(ExplainPage(i)) = (
                       \/ ledger[i].amount * Cardinality(Ninety) > 3 * Booked(Ninety)
                       \/ /\ ledger[i].amount * Cardinality(Ninety) > 2 * Booked(Ninety)
                          /\ 10 * TopOfTable > 4 * Booked(Ninety))
                /\ (profile = ledger /\ Ninety = DOMAIN ledger) => ExplainPage(i) >= StrategyPage
    /\ OneLarge
=============================================================================
