------------------------------- MODULE Policy -------------------------------
(***************************************************************************)
(* How fraud-service turns a transaction into a decision: the fourteen     *)
(* rules of app/services/rule_engine.py, the model's bands of              *)
(* app/services/fraud_service.py, and the merge, the fraud type and the    *)
(* per-type thresholds of app/services/policy_merge.py.                    *)
(*                                                                         *)
(* Amounts are in units of 10,000 won, scores in thousandths, ratios in    *)
(* percent, and the age of the last inbound transfer in hundredths of a    *)
(* minute, to which the code rounds it.                                    *)
(*                                                                         *)
(* A transaction is what the request says of it.  A context is what the    *)
(* stores say of its user when a rule reads them.  Definitions named       *)
(* Mut_... are slips; no specification uses them.                          *)
(***************************************************************************)
EXTENDS Naturals

Action == {"PASS", "SOFT_REVIEW", "REVIEW", "BLOCK"}

RuleId == {"BLACKLIST", "DEVICE_FINGERPRINT", "MONEY_MULE_HUB", "LAYERING_CHAIN",
           "BALANCE_DRAIN", "OFF_HOURS_CLUSTER", "AMOUNT_BLOCK", "AMOUNT_REVIEW",
           "TIME_RISK", "VELOCITY_FREQ", "SPLIT_TXN", "FOREIGN_IP",
           "AMOUNT_SPIKE", "NEW_MERCHANT"}

FraudType == {"VOICE_PHISHING", "MONEY_MULE", "ACCOUNT_TAKEOVER", "CARD_TESTING",
              "AMOUNT_ANOMALY", "BALANCE_DRAIN", "BLACKLIST", "NORMAL"}

Never == 999900   \* the 9999.0 minutes that stand for "no inbound transfer"

Score == 0..1000

Transaction ==
    [amount : Nat, score : Score,
     hour : {"none", "night", "day"},     \* -1; 2 to 4; any other hour
     foreign : BOOLEAN, merchant : BOOLEAN,
     drains : BOOLEAN]                    \* 90% or more of an old balance of 100,000 won or more

Context ==
    [whitelisted : BOOLEAN, blacklisted : BOOLEAN,
     deviceUsers : Nat,                   \* accounts on the device within the hour
     fanIn : Nat, passThrough : Nat, inboundAgo : Nat,
     count : Nat, total : Nat,            \* the profile; count = 0: there is none
     v1 : Nat, v5 : Nat,                  \* of its transactions, within 1 and 5 minutes
     atHour : Nat, withHour : Nat,        \* at the transaction's hour; at any known hour
     enabled : SUBSET RuleId]

\* ACTION_RANK.get(a, 0)
Rank(a) == IF a = "BLOCK" THEN 3 ELSE IF a = "REVIEW" THEN 2
           ELSE IF a = "SOFT_REVIEW" THEN 1 ELSE 0

\* merge_actions
Merge(a, b) == IF Rank(a) >= Rank(b) THEN a ELSE b
-----------------------------------------------------------------------------
(***************************************************************************)
(* The rules                                                               *)
(***************************************************************************)
\* int(x or 9999.0): a transfer that arrived within the last 0.3 seconds is
\* 0.0 minutes ago, which counts as none.
RecentInbound(ctx) == IF ctx.inboundAgo = 0 THEN Never ELSE ctx.inboundAgo

\* evaluate of the rules that look a user, an address or a device up.
FiresOnLookup(id, ctx) ==
    \/ id = "BLACKLIST" /\ ctx.blacklisted
    \/ id = "DEVICE_FINGERPRINT" /\ ctx.deviceUsers >= 2

\* evaluate of the rules that read the transfer graph.
FiresOnGraph(id, ctx) ==
    \/ id = "MONEY_MULE_HUB" /\ ctx.fanIn >= 3 /\ ctx.passThrough >= 80
    \/ id = "LAYERING_CHAIN" /\ ctx.passThrough >= 90 /\ ctx.fanIn < 3
                              /\ RecentInbound(ctx) <= 1000

\* evaluate of the rules that read the transaction alone.
FiresOnRequest(id, tx) ==
    \/ id = "AMOUNT_BLOCK" /\ tx.amount >= 500
    \/ id = "AMOUNT_REVIEW" /\ tx.amount >= 100
    \/ id = "TIME_RISK" /\ tx.hour = "night" /\ tx.amount >= 50
    \/ id = "FOREIGN_IP" /\ tx.foreign /\ tx.amount >= 30

FiresOnBalance(id, tx) == id = "BALANCE_DRAIN" /\ tx.drains /\ tx.amount >= 50

\* evaluate of the rules that read the user's profile, if there is one.
FiresOnProfile(id, tx, ctx) ==
    /\ ctx.count > 0
    /\ \/ id = "VELOCITY_FREQ" /\ ctx.v5 >= 3
       \/ id = "SPLIT_TXN" /\ tx.amount <= 10 /\ ctx.v1 >= 5
       \/ id = "AMOUNT_SPIKE" /\ ctx.total >= ctx.count
                               /\ tx.amount * ctx.count > 5 * ctx.total
       \/ id = "NEW_MERCHANT" /\ tx.merchant /\ ctx.count = 1 /\ tx.amount >= 20
\* At an hour of no more than 5% of a long enough history.
FiresOnHours(id, tx, ctx) ==
    /\ id = "OFF_HOURS_CLUSTER"
    /\ ctx.count >= 20 /\ ctx.withHour > 0 /\ tx.amount >= 10
    /\ tx.hour # "none" /\ 20 * ctx.atHour <= ctx.withHour

Fires(id, tx, ctx) ==
    \/ FiresOnLookup(id, ctx) \/ FiresOnGraph(id, ctx)
    \/ FiresOnRequest(id, tx) \/ FiresOnBalance(id, tx)
    \/ FiresOnProfile(id, tx, ctx) \/ FiresOnHours(id, tx, ctx)

\* What it asks for when it does.
Asks(ctx) ==
    [id \in RuleId |->
        IF id \in {"BLACKLIST", "MONEY_MULE_HUB", "BALANCE_DRAIN", "AMOUNT_BLOCK",
                   "VELOCITY_FREQ"} THEN "BLOCK"
        ELSE IF \/ id \in {"AMOUNT_SPIKE", "NEW_MERCHANT"}
                \/ (id = "OFF_HOURS_CLUSTER" /\ ctx.atHour > 0) THEN "SOFT_REVIEW"
        ELSE "REVIEW"]

\* evaluate_all: the rules that fired, of those that are switched on.
Fired(tx, ctx) == {id \in ctx.enabled : Fires(id, tx, ctx)}

\* get_strongest
Strongest(actions) ==
    IF "BLOCK" \in actions THEN "BLOCK" ELSE IF "REVIEW" \in actions THEN "REVIEW"
    ELSE IF "SOFT_REVIEW" \in actions THEN "SOFT_REVIEW" ELSE "PASS"

Mut_RulesForAll(tx, ctx) ==
    LET ids == Fired(tx, ctx)
    IN  [action |-> Strongest({Asks(ctx)[id] : id \in ids}), ids |-> ids]

\* get_rule_action: no rules for a whitelisted user.
RuleAction(tx, ctx) ==
    IF ctx.whitelisted THEN [action |-> "PASS", ids |-> {"WHITELIST"}]
    ELSE LET ids == Fired(tx, ctx)
         IN  [action |-> Strongest({Asks(ctx)[id] : id \in ids}), ids |-> ids]
-----------------------------------------------------------------------------
(***************************************************************************)
(* The model's action and the final one                                    *)
(***************************************************************************)
ScoreBand(tx) ==
    IF tx.score >= 950 THEN "BLOCK" ELSE IF tx.score >= 350 THEN "REVIEW"
    ELSE IF tx.score >= 5 THEN "SOFT_REVIEW" ELSE "PASS"

ExpectedLoss(tx) == tx.score * tx.amount   \* in units of 10 won

CostBand(tx) ==
    IF ExpectedLoss(tx) >= 300000 THEN "BLOCK"
    ELSE IF ExpectedLoss(tx) >= 50000 THEN "REVIEW" ELSE "PASS"

\* get_model_action
ModelAction(tx) == Merge(ScoreBand(tx), CostBand(tx))

\* get_final_action
ManagerAction(tx, ctx) == Merge(RuleAction(tx, ctx).action, ModelAction(tx))

AmountRules  == {"AMOUNT_BLOCK", "AMOUNT_REVIEW"}
AnomalyRules == AmountRules \cup {"AMOUNT_SPIKE", "NEW_MERCHANT"}

\* classify_fraud_type: the first line that applies.
ClassifyFraudType(ids) ==
    IF "BLACKLIST" \in ids THEN "BLACKLIST"
    ELSE IF ids \cap {"MONEY_MULE_HUB", "LAYERING_CHAIN"} # {} THEN "MONEY_MULE"
    ELSE IF "BALANCE_DRAIN" \in ids THEN "BALANCE_DRAIN"
    ELSE IF "SPLIT_TXN" \in ids THEN "CARD_TESTING"
    ELSE IF "VELOCITY_FREQ" \in ids /\ ids \cap AmountRules = {} THEN "CARD_TESTING"
    ELSE IF ids \cap {"FOREIGN_IP", "DEVICE_FINGERPRINT", "OFF_HOURS_CLUSTER"} # {}
         THEN "ACCOUNT_TAKEOVER"
    ELSE IF "VELOCITY_FREQ" \in ids THEN "MONEY_MULE"
    ELSE IF "TIME_RISK" \in ids /\ ids \cap AmountRules # {} THEN "VOICE_PHISHING"
    ELSE IF ids \cap AnomalyRules # {} THEN "AMOUNT_ANOMALY"
    ELSE "NORMAL"

BlockThreshold ==
    [BLACKLIST |-> 0, MONEY_MULE |-> 500, CARD_TESTING |-> 700, VOICE_PHISHING |-> 600,
     ACCOUNT_TAKEOVER |-> 650, AMOUNT_ANOMALY |-> 850, BALANCE_DRAIN |-> 550,
     NORMAL |-> 1010]

Mut_LowScoresBlocked(a, score, type) ==
    IF score <= BlockThreshold[type] THEN "BLOCK" ELSE a

\* apply_fraud_type_threshold
ApplyThreshold(a, score, type) ==
    IF score >= BlockThreshold[type] THEN "BLOCK" ELSE a

\* _evaluate_one when nothing changes under it.
FinalAction(tx, ctx) ==
    ApplyThreshold(ManagerAction(tx, ctx), tx.score,
                   ClassifyFraudType(RuleAction(tx, ctx).ids))
=============================================================================
