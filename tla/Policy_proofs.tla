---------------------------- MODULE Policy_proofs -----------------------------
(***************************************************************************)
(* Proofs, for every transaction and every context, of what module         *)
(* MCPolicy checks of the policy on a grid, with the lemmas about what its *)
(* operators return.                                                       *)
(***************************************************************************)
EXTENDS Policy, MCPolicy, TLAPS

(***************************************************************************)
(* What the operators of the policy return                                 *)
(***************************************************************************)

\* Scores and amounts are numbers.
LEMMA ScoreFields ==
    ASSUME NEW t \in Transaction
    PROVE  /\ t.amount \in Nat /\ t.score \in Score /\ t.score \in Nat
           /\ \A n \in Score : n \in Nat
<1>1. t.amount \in Nat /\ t.score \in Score BY DEF Transaction
<1>2. \A n \in Score : n \in Nat BY SMT DEF Score
<1> QED BY <1>1, <1>2

\* merge_actions returns one of its arguments, the stronger.
LEMMA MergeIsMax ==
    ASSUME NEW a \in Action, NEW b \in Action
    PROVE  /\ Merge(a, b) \in Action
           /\ Rank(Merge(a, b)) >= Rank(a)
           /\ Rank(Merge(a, b)) >= Rank(b)
           /\ Rank(Merge(a, b)) = Rank(a) \/ Rank(Merge(a, b)) = Rank(b)
BY DEF Merge, Rank, Action

\* Nothing is stronger than BLOCK.
LEMMA BlockIsTop ==
    ASSUME NEW a \in Action
    PROVE  /\ Rank("BLOCK") >= Rank(a) /\ "BLOCK" \in Action
           /\ Merge("BLOCK", a) = "BLOCK" /\ Merge(a, "BLOCK") = "BLOCK"
           /\ Merge("PASS", a) = a
BY DEF Rank, Action, Merge

\* get_strongest returns an action at least as strong as each it is given.
LEMMA StrongestIsMax ==
    ASSUME NEW S \in SUBSET Action
    PROVE  /\ Strongest(S) \in Action
           /\ \A a \in S : Rank(Strongest(S)) >= Rank(a)
BY DEF Strongest, Rank, Action

LEMMA AsksActions ==
    ASSUME NEW ctx0 \in Context, NEW fired \in SUBSET RuleId
    PROVE  {Asks(ctx0)[id] : id \in fired} \in SUBSET Action
BY DEF Asks, Action

LEMMA FiredIsRules ==
    ASSUME NEW tx0, NEW ctx0 \in Context
    PROVE  Fired(tx0, ctx0) \in SUBSET RuleId
BY DEF Fired, Context

LEMMA ClassifyType ==
    ASSUME NEW fired PROVE ClassifyFraudType(fired) \in FraudType
BY DEF ClassifyFraudType, FraudType

LEMMA RuleActionType ==
    ASSUME NEW tx0, NEW ctx0 \in Context
    PROVE  RuleAction(tx0, ctx0).action \in Action
<1>1. CASE ctx0.whitelisted
  BY <1>1 DEF RuleAction, Action
<1>2. CASE ~ctx0.whitelisted
  <2>1. {Asks(ctx0)[id] : id \in Fired(tx0, ctx0)} \in SUBSET Action
    BY AsksActions, FiredIsRules
  <2> QED BY <1>2, <2>1, StrongestIsMax DEF RuleAction
<1> QED BY <1>1, <1>2

LEMMA ModelActionType ==
    ASSUME NEW tx0 PROVE ModelAction(tx0) \in Action
<1>1. ScoreBand(tx0) \in Action BY DEF ScoreBand, Action
<1>2. CostBand(tx0) \in Action BY SMT DEF CostBand, Action
<1> QED BY <1>1, <1>2, MergeIsMax DEF ModelAction

LEMMA ManagerActionMax ==
    ASSUME NEW tx0, NEW ctx0 \in Context
    PROVE  /\ ManagerAction(tx0, ctx0) \in Action
           /\ Rank(ManagerAction(tx0, ctx0)) >= Rank(RuleAction(tx0, ctx0).action)
           /\ Rank(ManagerAction(tx0, ctx0)) >= Rank(ModelAction(tx0))
BY RuleActionType, ModelActionType, MergeIsMax DEF ManagerAction

\* A fraud type's threshold can only strengthen.
LEMMA ThresholdStrengthens ==
    ASSUME NEW a \in Action, NEW n \in Nat, NEW type
    PROVE  /\ ApplyThreshold(a, n, type) \in Action
           /\ Rank(ApplyThreshold(a, n, type)) >= Rank(a)
<1>1. CASE n >= BlockThreshold[type] BY <1>1, BlockIsTop DEF ApplyThreshold
<1>2. CASE ~(n >= BlockThreshold[type]) BY <1>2 DEF ApplyThreshold, Rank
<1> QED BY <1>1, <1>2

\* The decision is an action, never weaker than either side.
LEMMA FinalIsStrongest ==
    ASSUME NEW tx0 \in Transaction, NEW ctx0 \in Context
    PROVE  /\ FinalAction(tx0, ctx0) \in Action
           /\ Rank(FinalAction(tx0, ctx0)) >= Rank(RuleAction(tx0, ctx0).action)
           /\ Rank(FinalAction(tx0, ctx0)) >= Rank(ModelAction(tx0))
<1> DEFINE m == ManagerAction(tx0, ctx0)
<1>1. tx0.score \in Nat BY ScoreFields
<1>2. m \in Action BY ManagerActionMax
<1>3. /\ FinalAction(tx0, ctx0) \in Action
      /\ Rank(FinalAction(tx0, ctx0)) >= Rank(m)
  BY <1>1, <1>2, ThresholdStrengthens DEF FinalAction
<1>4. \A a \in Action : Rank(a) \in Nat BY DEF Rank
<1> QED BY <1>2, <1>3, <1>4, ManagerActionMax, RuleActionType, ModelActionType

-----------------------------------------------------------------------------
(***************************************************************************)
(* The policy, for every transaction and every context                     *)
(***************************************************************************)

(***************************************************************************)
(* The grid's transactions and contexts                                    *)
(***************************************************************************)
LEMMA GridInitType == PolicyInit => tx \in Transaction /\ ctx \in Context
<1>1. Never \in Nat BY SMT DEF Never
<1>2. Quiet \in Context BY SMT, <1>1 DEF Context, Quiet
<1>3. ASSUME PolicyInit PROVE tx \in Transaction
  <2>1. /\ tx = [amount |-> tx.amount, score |-> tx.score, hour |-> tx.hour,
                 foreign |-> tx.foreign, merchant |-> tx.merchant, drains |-> tx.drains]
        /\ tx.amount \in Amounts /\ tx.score \in Scores
        /\ tx.hour \in {"none", "night", "day"}
    BY <1>3 DEF PolicyInit
  <2>2. tx.foreign \in BOOLEAN /\ tx.merchant \in BOOLEAN /\ tx.drains \in BOOLEAN
    BY <1>3 DEF PolicyInit
  <2>3. tx.amount \in Nat /\ tx.score \in Score BY <2>1, GridIsNumbers
  <2> QED BY Zenon, <2>1, <2>2, <2>3 DEF Transaction
<1> QED BY <1>2, <1>3 DEF PolicyInit

LEMMA GridNextType ==
    ASSUME tx \in Transaction, ctx \in Context, [PolicyNext]_policyVars
    PROVE  tx' \in Transaction /\ ctx' \in Context
<1>1. CASE RaiseScore BY <1>1, GridIsNumbers DEF RaiseScore, Transaction
<1>2. CASE RaiseAmount
  <2>1. PICK a \in Amounts : tx' = [tx EXCEPT !.amount = a]
    BY <1>2 DEF RaiseAmount
  <2>2. a \in Nat BY GridIsNumbers
  <2> QED BY <1>2, <2>1, <2>2 DEF RaiseAmount, Transaction
<1>3. CASE ShareDevice BY <1>3 DEF ShareDevice, Context
<1>4. CASE BlacklistUser BY <1>4 DEF BlacklistUser, Context
<1>5. CASE WhitelistUser BY <1>5 DEF WhitelistUser, Context
<1>6. CASE \E id \in {"BLACKLIST", "VELOCITY_FREQ"} : SwitchOff(id)
  BY <1>6 DEF SwitchOff, Context
<1>7. CASE \E p \in Profiles : Spend(p)
  <2>1. PICK p \in Profiles : Spend(p) BY <1>7
  <2>2. p.count \in Nat /\ p.total \in Nat /\ p.v1 \in Nat /\ p.v5 \in Nat
        /\ p.atHour \in Nat /\ p.withHour \in Nat
    BY DEF Profiles
  <2> QED BY <2>1, <2>2 DEF Spend, Context
<1>8. CASE \E g \in Graphs : Transfer(g)
  <2>1. PICK g \in Graphs : Transfer(g) BY <1>8
  <2>2. g.fanIn \in Nat /\ g.passThrough \in Nat /\ g.inboundAgo \in Nat
    BY DEF Graphs
  <2> QED BY <2>1, <2>2 DEF Transfer, Context
<1>9. CASE UNCHANGED policyVars BY <1>9 DEF policyVars
<1> QED BY <1>1, <1>2, <1>3, <1>4, <1>5, <1>6, <1>7, <1>8, <1>9 DEF PolicyNext

\* A property of all transactions and contexts holds of the grid's.
LEMMA GridTyped == PolicySpec => [](tx \in Transaction /\ ctx \in Context)
<1>1. (tx \in Transaction /\ ctx \in Context) /\ [PolicyNext]_policyVars
        => (tx \in Transaction /\ ctx \in Context)'
  BY GridNextType
<1> QED BY GridInitType, <1>1, PTL DEF PolicySpec

\* Every decision is one of the four actions.
THEOREM PolicyTypeCorrect == PolicySpec => []PolicyTypeOK
<1>1. tx \in Transaction /\ ctx \in Context => PolicyTypeOK
  BY FinalIsStrongest DEF PolicyTypeOK
<1> QED BY <1>1, GridTyped, PTL

\* The stronger side wins, for every transaction and context.
THEOREM StrongerSideWins == PolicySpec => []NeverBelowEither
<1>1. tx \in Transaction /\ ctx \in Context => NeverBelowEither
  BY FinalIsStrongest DEF NeverBelowEither
<1> QED BY <1>1, GridTyped, PTL

\* No fraud type is read off the rule id WHITELIST, so no threshold applies.
THEOREM WhitelistSkipsRules == PolicySpec => []WhitelistedByModelAlone
<1>1. ASSUME tx \in Transaction, ctx \in Context, ctx.whitelisted
      PROVE  FinalAction(tx, ctx) = ModelAction(tx)
  <2>1. RuleAction(tx, ctx).action = "PASS" /\ RuleAction(tx, ctx).ids = {"WHITELIST"}
    BY <1>1 DEF RuleAction
  <2>2. ManagerAction(tx, ctx) = ModelAction(tx)
    BY <1>1, <2>1, BlockIsTop, ModelActionType DEF ManagerAction
  <2>3. ClassifyFraudType({"WHITELIST"}) = "NORMAL"
    BY DEF ClassifyFraudType, AmountRules, AnomalyRules
  <2>4. tx.score \in Score /\ ~(tx.score >= 1010)
    BY SMT, <1>1 DEF Transaction, Score
  <2> QED BY <2>1, <2>2, <2>3, <2>4 DEF FinalAction, ApplyThreshold, BlockThreshold
<1>2. tx \in Transaction /\ ctx \in Context => WhitelistedByModelAlone
  BY <1>1 DEF WhitelistedByModelAlone
<1> QED BY <1>2, GridTyped, PTL

\* The rule asks for BLOCK, and nothing downstream weakens it.
THEOREM BlacklistBlocks == PolicySpec => []BlacklistedBlocked
<1>1. ASSUME tx \in Transaction, ctx \in Context,
             ctx.blacklisted, ~ctx.whitelisted, "BLACKLIST" \in ctx.enabled
      PROVE  FinalAction(tx, ctx) = "BLOCK"
  <2>1. "BLACKLIST" \in Fired(tx, ctx)
    BY <1>1 DEF Fired, Fires, FiresOnLookup, RuleId
  <2>2. Asks(ctx)["BLACKLIST"] = "BLOCK"
    BY DEF Asks, RuleId
  <2>3. "BLOCK" \in {Asks(ctx)[id] : id \in Fired(tx, ctx)}
    BY <2>1, <2>2
  <2>4. RuleAction(tx, ctx).action = "BLOCK"
    BY <1>1, <2>3 DEF RuleAction, Strongest
  <2>5. ManagerAction(tx, ctx) = "BLOCK"
    BY <1>1, <2>4, BlockIsTop, ModelActionType DEF ManagerAction
  <2> QED BY <2>5 DEF FinalAction, ApplyThreshold
<1>2. tx \in Transaction /\ ctx \in Context => BlacklistedBlocked
  BY <1>1 DEF BlacklistedBlocked
<1> QED BY <1>2, GridTyped, PTL
-----------------------------------------------------------------------------
(***************************************************************************)
(* A higher score                                                          *)
(***************************************************************************)
LEMMA ProductMonotone ==
    ASSUME NEW m \in Nat, NEW n \in Nat, NEW k \in Nat, m <= n
    PROVE  m * k <= n * k /\ m * k \in Nat /\ n * k \in Nat
<1>1. PICK d \in Nat : n = m + d
  <2>1. n - m \in Nat /\ n = m + (n - m) OBVIOUS
  <2> QED BY <2>1
<1>2. (m + d) * k = m * k + d * k /\ m * k \in Nat /\ d * k \in Nat
  BY SMT
<1> QED BY <1>1, <1>2

LEMMA MergeMonotone ==
    ASSUME NEW a \in Action, NEW b \in Action, NEW c \in Action, NEW d \in Action,
           Rank(a) <= Rank(b), Rank(c) <= Rank(d)
    PROVE  Rank(Merge(a, c)) <= Rank(Merge(b, d))
BY DEF Merge, Rank, Action

\* The bands of the model rise with the score.
LEMMA ModelMonotone ==
    ASSUME NEW t \in Transaction, NEW u \in Transaction,
           u.amount = t.amount, t.score <= u.score
    PROVE  Rank(ModelAction(t)) <= Rank(ModelAction(u))
<1>1. /\ t.amount \in Nat /\ t.score \in Nat /\ u.score \in Nat
  BY ScoreFields
<1>2. Rank(ScoreBand(t)) <= Rank(ScoreBand(u))
  BY SMT, <1>1 DEF ScoreBand, Rank
<1>3. /\ ExpectedLoss(t) <= ExpectedLoss(u)
      /\ ExpectedLoss(t) \in Nat /\ ExpectedLoss(u) \in Nat
  BY <1>1, ProductMonotone DEF ExpectedLoss
<1>4. Rank(CostBand(t)) <= Rank(CostBand(u))
  BY SMT, <1>3 DEF CostBand, Rank
<1>5. /\ ScoreBand(t) \in Action /\ CostBand(t) \in Action
      /\ ScoreBand(u) \in Action /\ CostBand(u) \in Action
  BY SMT DEF ScoreBand, CostBand, Action
<1> QED BY <1>2, <1>4, <1>5, MergeMonotone DEF ModelAction

LEMMA ThresholdMonotone ==
    ASSUME NEW a \in Action, NEW b \in Action, Rank(a) <= Rank(b),
           NEW m \in Nat, NEW n \in Nat, m <= n, NEW type \in FraudType
    PROVE  Rank(ApplyThreshold(a, m, type)) <= Rank(ApplyThreshold(b, n, type))
<1>1. BlockThreshold[type] \in Nat BY SMT DEF BlockThreshold, FraudType
<1>2. CASE n >= BlockThreshold[type]
  <2>1. ApplyThreshold(b, n, type) = "BLOCK" BY <1>2 DEF ApplyThreshold
  <2>2. ApplyThreshold(a, m, type) \in Action BY ThresholdStrengthens
  <2> QED BY <2>1, <2>2, BlockIsTop DEF Rank
<1>3. CASE ~(n >= BlockThreshold[type])
  <2>1. ~(m >= BlockThreshold[type]) BY <1>1, <1>3
  <2> QED BY <1>3, <2>1 DEF ApplyThreshold
<1> QED BY <1>2, <1>3

\* The rules do not read the score, and everything else rises with it.
THEOREM ScoreMonotone == PolicySpec => []HigherScoreNeverWeaker
<1>1. ASSUME NEW t \in Transaction, NEW c \in Context, NEW n \in Score, n > t.score
      PROVE  Rank(FinalAction([t EXCEPT !.score = n], c)) >= Rank(FinalAction(t, c))
  <2> DEFINE u == [t EXCEPT !.score = n]
  <2>1. u \in Transaction /\ u.score = n /\ t.score \in Nat /\ n \in Nat
    <3>1. t.score \in Nat /\ n \in Nat BY ScoreFields
    <3>2. u \in Transaction BY DEF Transaction
    <3>3. u.score = n BY DEF Transaction
    <3> QED BY <3>1, <3>2, <3>3
  <2>2. /\ u.amount = t.amount /\ u.hour = t.hour /\ u.foreign = t.foreign
        /\ u.merchant = t.merchant /\ u.drains = t.drains
    BY Zenon DEF Transaction
  <2> HIDE DEF u
  <2>3. \A id : Fires(id, u, c) <=> Fires(id, t, c)
    BY <2>2 DEF Fires, FiresOnRequest, FiresOnBalance, FiresOnProfile,
                  FiresOnHours
  <2>4. RuleAction(u, c) = RuleAction(t, c) BY <2>3 DEF RuleAction, Fired
  <2>5. Rank(ModelAction(t)) <= Rank(ModelAction(u))
    BY <1>1, <2>1, <2>2, ModelMonotone
  <2>6. Rank(ManagerAction(t, c)) <= Rank(ManagerAction(u, c))
    <3>1. Rank(RuleAction(t, c).action) <= Rank(RuleAction(t, c).action)
      BY DEF Rank
    <3> QED BY <2>1, <2>4, <2>5, <3>1, MergeMonotone, RuleActionType, ModelActionType
            DEF ManagerAction
  <2>7. ClassifyFraudType(RuleAction(t, c).ids) \in FraudType BY ClassifyType
  <2>8. Rank(FinalAction(t, c)) <= Rank(FinalAction(u, c))
    BY <1>1, <2>1, <2>4, <2>6, <2>7, ManagerActionMax, ThresholdMonotone DEF FinalAction
  <2>9. Rank(FinalAction(t, c)) \in Nat /\ Rank(FinalAction(u, c)) \in Nat BY DEF Rank
  <2> QED BY <2>8, <2>9 DEF u
<1>2. \A n \in Scores : n \in Score BY GridIsNumbers
<1>3. tx \in Transaction /\ ctx \in Context => HigherScoreNeverWeaker
  <2>1. ASSUME tx \in Transaction, ctx \in Context, NEW n \in Scores, n > tx.score
        PROVE  Rank(FinalAction([tx EXCEPT !.score = n], ctx)) >= Rank(FinalAction(tx, ctx))
    <3>1. n \in Score BY <1>2
    <3> QED BY <1>1, <2>1, <3>1
  <2> QED BY <2>1 DEF HigherScoreNeverWeaker
<1> QED BY <1>3, GridTyped, PTL

\* A rule that is switched on and fires.
Found(id, t, c) == id \in c.enabled /\ Fires(id, t, c)

\* Where two contexts find the same, switched off or not: of the rules that are
\* on, the same fire and ask for the same.
SameFindings(t, c, d) ==
    /\ d.whitelisted = c.whitelisted
    /\ \A id \in RuleId : /\ Found(id, t, d) <=> Found(id, t, c)
                          /\ Found(id, t, c) => Asks(d)[id] = Asks(c)[id]

LEMMA SameDecision ==
    ASSUME NEW t \in Transaction, NEW c \in Context, NEW d \in Context, SameFindings(t, c, d)
    PROVE  FinalAction(t, d) = FinalAction(t, c)
<1>1. c.enabled \subseteq RuleId /\ d.enabled \subseteq RuleId
  BY DEF Context
<1>2. Fired(t, d) = Fired(t, c)
  BY <1>1 DEF Fired, SameFindings, Found
<1>3. \A id \in Fired(t, c) : Asks(d)[id] = Asks(c)[id]
  BY <1>1 DEF Fired, SameFindings, Found
<1>4. {Asks(d)[id] : id \in Fired(t, d)} = {Asks(c)[id] : id \in Fired(t, c)}
  BY <1>2, <1>3
<1>5. d.whitelisted = c.whitelisted
  BY DEF SameFindings
<1>6. RuleAction(t, d) = RuleAction(t, c)
  BY <1>2, <1>4, <1>5 DEF RuleAction
<1> QED BY <1>6 DEF FinalAction, ManagerAction

\* A rule that an administrator has switched off (rule_engine.py, W2-#4) has no
\* influence, on the fraud type and its threshold neither: whatever it would find
\* the decision is the same, and the same as if it were on and did not fire.
THEOREM SwitchSilences ==
    ASSUME NEW t \in Transaction, NEW c \in Context, NEW id \in RuleId
    PROVE  /\ \A d \in Context :
                 /\ id \notin c.enabled /\ d.enabled = c.enabled /\ d.whitelisted = c.whitelisted
                 /\ \A other \in RuleId \ {id} : /\ Fires(other, t, d) <=> Fires(other, t, c)
                                                 /\ Asks(d)[other] = Asks(c)[other]
                 => FinalAction(t, d) = FinalAction(t, c)
           /\ ~Fires(id, t, c) =>
                 FinalAction(t, [c EXCEPT !.enabled = @ \ {id}]) = FinalAction(t, c)
<1>1. ASSUME NEW d \in Context, id \notin c.enabled, d.enabled = c.enabled, d.whitelisted = c.whitelisted,
             \A other \in RuleId \ {id} : /\ Fires(other, t, d) <=> Fires(other, t, c)
                                          /\ Asks(d)[other] = Asks(c)[other]
      PROVE  FinalAction(t, d) = FinalAction(t, c)
  <2>1. SameFindings(t, c, d)
    BY <1>1 DEF SameFindings, Found
  <2> QED BY <2>1, SameDecision
<1>2. ASSUME ~Fires(id, t, c)
      PROVE  FinalAction(t, [c EXCEPT !.enabled = @ \ {id}]) = FinalAction(t, c)
  <2> DEFINE d == [c EXCEPT !.enabled = c.enabled \ {id}]
  <2>1. /\ d \in Context /\ d.enabled = c.enabled \ {id} /\ d.whitelisted = c.whitelisted
        /\ d.blacklisted = c.blacklisted
        /\ d.deviceUsers = c.deviceUsers /\ d.fanIn = c.fanIn
        /\ d.passThrough = c.passThrough /\ d.inboundAgo = c.inboundAgo
        /\ d.count = c.count /\ d.total = c.total /\ d.v1 = c.v1 /\ d.v5 = c.v5
        /\ d.atHour = c.atHour /\ d.withHour = c.withHour
    BY DEF Context
  <2> HIDE DEF d
  <2>2. RecentInbound(d) = RecentInbound(c) BY <2>1 DEF RecentInbound
  <2>3. \A other \in RuleId : Fires(other, t, d) <=> Fires(other, t, c)
    BY <2>1, <2>2 DEF Fires, FiresOnLookup, FiresOnGraph, FiresOnProfile, FiresOnHours
  <2>4. Asks(d) = Asks(c) BY <2>1 DEF Asks
  <2>5. SameFindings(t, c, d)
    BY <1>2, <2>1, <2>3, <2>4 DEF SameFindings, Found
  <2>6. FinalAction(t, d) = FinalAction(t, c)
    BY <2>1, <2>5, SameDecision
  <2> QED BY <2>6 DEF d
<1> QED BY <1>1, <1>2

=============================================================================
