------------------------------ MODULE MCPolicy ------------------------------
(***************************************************************************)
(* The decision of module Policy over a grid of transactions and contexts  *)
(* that has every boundary of the rules, bands and thresholds.  A step     *)
(* makes one thing about the transaction or its user worse, or changes a   *)
(* list or a switch.                                                       *)
(***************************************************************************)
EXTENDS Policy

CONSTANTS Amounts, Scores  \* the grid

ASSUME GridIsNumbers == Amounts \subseteq Nat /\ Scores \subseteq Score

VARIABLES tx, ctx
policyVars == <<tx, ctx>>

Quiet ==
    [whitelisted |-> FALSE, blacklisted |-> FALSE, deviceUsers |-> 1,
     fanIn |-> 0, passThrough |-> 0, inboundAgo |-> Never,
     count |-> 0, total |-> 0, v1 |-> 0, v5 |-> 0, atHour |-> 0, withHour |-> 0,
     enabled |-> RuleId]

Profiles ==
    {[count |-> 1, total |-> 5, v1 |-> 1, v5 |-> 1, atHour |-> 1, withHour |-> 1],
     [count |-> 20, total |-> 300, v1 |-> 0, v5 |-> 0, atHour |-> 1, withHour |-> 20],
     [count |-> 21, total |-> 300, v1 |-> 5, v5 |-> 6, atHour |-> 0, withHour |-> 21]}

Graphs ==
    {[fanIn |-> 3, passThrough |-> 80, inboundAgo |-> 300],
     [fanIn |-> 1, passThrough |-> 95, inboundAgo |-> 0],
     [fanIn |-> 1, passThrough |-> 95, inboundAgo |-> 1000]}

PolicyInit ==
    /\ tx \in [amount : Amounts, score : Scores, hour : {"none", "night", "day"},
               foreign : BOOLEAN, merchant : BOOLEAN, drains : BOOLEAN]
    /\ ctx = Quiet

RaiseScore ==
    /\ \E s \in Scores : s > tx.score /\ tx' = [tx EXCEPT !.score = s]
    /\ UNCHANGED ctx
RaiseAmount ==
    /\ \E a \in Amounts : a > tx.amount /\ tx' = [tx EXCEPT !.amount = a]
    /\ UNCHANGED ctx
ShareDevice == ctx.deviceUsers = 1 /\ ctx' = [ctx EXCEPT !.deviceUsers = 2] /\ UNCHANGED tx
BlacklistUser == ~ctx.blacklisted /\ ctx' = [ctx EXCEPT !.blacklisted = TRUE] /\ UNCHANGED tx
WhitelistUser == ~ctx.whitelisted /\ ctx' = [ctx EXCEPT !.whitelisted = TRUE] /\ UNCHANGED tx
SwitchOff(id) == ctx.enabled = RuleId /\ ctx' = [ctx EXCEPT !.enabled = RuleId \ {id}] /\ UNCHANGED tx
Spend(p) ==
    /\ ctx.count < p.count
    /\ ctx' = [ctx EXCEPT !.count = p.count, !.total = p.total, !.v1 = p.v1,
                          !.v5 = p.v5, !.atHour = p.atHour, !.withHour = p.withHour]
    /\ UNCHANGED tx
Transfer(g) ==
    /\ ctx.fanIn = 0
    /\ ctx' = [ctx EXCEPT !.fanIn = g.fanIn, !.passThrough = g.passThrough,
                          !.inboundAgo = g.inboundAgo]
    /\ UNCHANGED tx

PolicyNext ==
    \/ RaiseScore \/ RaiseAmount \/ ShareDevice
    \/ BlacklistUser \/ WhitelistUser
    \/ \E id \in {"BLACKLIST", "VELOCITY_FREQ"} : SwitchOff(id)
    \/ \E p \in Profiles : Spend(p)
    \/ \E g \in Graphs : Transfer(g)

PolicySpec == PolicyInit /\ [][PolicyNext]_policyVars

\* The operators are total: every grid point is a transaction and a context,
\* and its decision an action.
PolicyTypeOK ==
    /\ tx \in Transaction /\ ctx \in Context
    /\ FinalAction(tx, ctx) \in Action

\* "The stronger side wins" (policy_merge.py): the decision is never weaker
\* than what the rules ask for, nor than what the model asks for.
NeverBelowEither ==
    /\ Rank(FinalAction(tx, ctx)) >= Rank(RuleAction(tx, ctx).action)
    /\ Rank(FinalAction(tx, ctx)) >= Rank(ModelAction(tx))

\* access_list.py: a whitelisted user is decided by the model score alone,
\* whatever the rules and the per-type thresholds would say.
WhitelistedByModelAlone ==
    ctx.whitelisted => FinalAction(tx, ctx) = ModelAction(tx)

\* access_list.py: a blacklisted user is blocked, at any score and amount,
\* unless whitelisted or the rule is switched off.
BlacklistedBlocked ==
    ctx.blacklisted /\ ~ctx.whitelisted /\ "BLACKLIST" \in ctx.enabled
        => FinalAction(tx, ctx) = "BLOCK"

\* A higher model score never weakens the decision.
HigherScoreNeverWeaker ==
    \A s \in Scores : s > tx.score =>
        Rank(FinalAction([tx EXCEPT !.score = s], ctx)) >= Rank(FinalAction(tx, ctx))

\* LayeringRule's docstring: money sent on right after it came in, in nearly
\* the same amount and by a node that is not a hub, is caught.
PassThroughCaught ==
    ctx.passThrough >= 90 /\ ctx.fanIn < 3 /\ ctx.inboundAgo <= 1000
        => Fires("LAYERING_CHAIN", tx, ctx)
=============================================================================
