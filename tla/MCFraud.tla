------------------------------- MODULE MCFraud -------------------------------
(***************************************************************************)
(* FraudService for TLC, and beside its components the texts of policies,  *)
(* as two more that a behaviour may be about.                              *)
(***************************************************************************)
EXTENDS FraudService, PolicyTexts, TLC

vars == <<serviceVars, treeVars, consortiumVars>>

\* Step-up: two answers on one node, the second against the first, and a third
\* on another node.
SaysOf == [a \in Answer |-> [node |-> IF a = 3 THEN "n2" ELSE "n1", tx |-> "t", approved |-> a # 2]]

\* Windows: a payment with an hour and one without.
HoursOf == "p" :> 3 @@ "q" :> -1

\* Graph: three accounts pay one, which passes the money on.
TransfersOf == {<<"a", "m", 1>>, <<"b", "m", 1>>, <<"c", "m", 1>>, <<"m", "a", 3>>}

\* Monitoring: a payment that is evaluated twice, the second time outside of the
\* test, and another one.
AboutOf == "r1" :> [tx |-> "t1", action |-> "BLOCK", variant |-> "a", value |-> 1]
        @@ "r2" :> [tx |-> "t1", action |-> "SOFT_REVIEW", variant |-> "none", value |-> 2]
        @@ "r3" :> [tx |-> "t2", action |-> "PASS", variant |-> "b", value |-> 4]
ReferencesOf == {<<0, 2, 3>>, <<1, 1, 5, 0>>}

\* Intelligence: two publications reach one process, the third another.
AtOf == "p1" :> "s1" @@ "p2" :> "s1" @@ "p3" :> "s2"

\* Models: a good bundle, one of another layout, and one below the bar.
BundlesOf ==
    {[domain |-> "open", keys |-> {"model"}, predicts |-> TRUE, ranges |-> TRUE, auc |-> 90],
     [domain |-> "paysim", keys |-> {"if_model"}, predicts |-> TRUE, ranges |-> TRUE, auc |-> 90],
     [domain |-> "open", keys |-> {"model"}, predicts |-> TRUE, ranges |-> TRUE, auc |-> 60]}

\* Signals: at no hour, at midnight and later; older and newer than allowed.
HoursOfDay == {-1, 0, 3}
AgesOf == {-3, -2, 2, 3}

\* Settings: flips of one switch; a PATCH of both weights and one of a part,
\* beyond the clip.
TurnsOf == [f \in Flip |-> "AMOUNT_BLOCK"]
BodiesOf == [p \in Patch |->
    IF p = "p1" THEN [given |-> Part, value |-> [c \in Part |-> IF c = "alpha" THEN 6 ELSE 4]]
                ELSE [given |-> {"beta"}, value |-> [c \in Part |-> 20]]]
DefaultOf == [c \in Part |-> IF c = "alpha" THEN 7 ELSE 3]
\* Access: people with a location, a device or a department, one not verified;
\* tokens that are not good; three policies, two of which hide fields.
PeopleOf ==
    {[role |-> "analyst", clearance |-> "high", mfa_verified |-> "true", location |-> "external"],
     [role |-> "admin", clearance |-> "high", mfa_verified |-> "true", device_type |-> "mobile"],
     [role |-> "auditor", clearance |-> "critical", mfa_verified |-> "true", dept |-> "fraud_team"],
     [role |-> "analyst", clearance |-> "high", mfa_verified |-> "false", dept |-> "fraud_team"]}
TokenOf ==
    {[given |-> TRUE, expired |-> FALSE, signature |-> "right", attributes |-> a] : a \in PeopleOf}
    \cup {[given |-> g, expired |-> x, signature |-> "wrong", attributes |-> [role |-> "admin"]] :
             g, x \in BOOLEAN}
    \cup {[given |-> TRUE, expired |-> FALSE, signature |-> "none", attributes |-> [role |-> "viewer"]]}
Path(method, area, below) == [method |-> method, area |-> area, below |-> below]
PathsOf == {Path("GET", "audit", TRUE), Path("GET", "audit", FALSE), Path("GET", "profile", TRUE),
            Path("POST", "score", FALSE), Path("GET", "health", FALSE)}
Rule3(path, structure, fields) == path @@ [structure |-> structure, fields |-> fields]
PoliciesOf ==
    <<Rule3(Path("GET", "audit", TRUE),
            {{<<"role", "admin">>}, {<<"role", "auditor">>},
             {<<"role", "analyst">>, <<"clearance", "high">>}}, {"user_id", "amount", "score"}),
      Rule3(Path("GET", "profile", TRUE), {{<<"role", "analyst">>}, {<<"role", "admin">>}}, {}),
      Rule3(Path("POST", "score", FALSE),
            {{<<"role", r>>, <<"dept", "fraud_team">>} : r \in {"analyst", "admin", "system"}},
            {"score", "rule_ids"})>>
AttributeOf == {<<"role", "admin">>, <<"role", "analyst">>, <<"dept", "fraud">>}

\* Edge: two nodes of a region, which the load puts in another order, and one of
\* another; payments at the limits of each tier.
NodesOf == "seoul-1" :> [region |-> "seoul", base |-> 5, load |-> 3, step |-> 4, place |-> 1]
        @@ "seoul-2" :> [region |-> "seoul", base |-> 6, load |-> 5, step |-> 2, place |-> 2]
        @@ "busan-1" :> [region |-> "busan", base |-> 7, load |-> 2, step |-> 2, place |-> 3]
Paid(user, tier, amount, risk, region) ==
    [user |-> user, tier |-> tier, amount |-> amount, risk |-> risk, region |-> region]
PaymentsOf ==
    {Paid("u", "basic", 5, 20, "seoul"), Paid("u", "basic", 29, 30, "seoul"),
     Paid("u", "standard", 90, 69, "seoul"), Paid("u", "standard", 99, 70, "daegu"),
     Paid("u", "premium", 600, 0, "busan"), Paid("v", "vip", 1900, 0, "daegu"),
     Paid("u", "vip", 180, 29, "daegu")}

\* Federated learning: more fraudulent rows than normal ones, and fewer; masks of which
\* two are beyond the assertion's bound together.
RowNumbers  == {[fraud |-> 4, normal |-> 2], [fraud |-> 2, normal |-> 4]}
DrawsOf     == {-3, 3}
PredictedOf == <<20, 90, 50>>
Coalitions  == {{1} :> 60 @@ {2} :> 70 @@ {3} :> 40 @@ {1, 2} :> 80 @@ {1, 3} :> 55 @@ {2, 3} :> 75
                    @@ {1, 2, 3} :> 90}

\* Sharing: one attribute's text is inside of two others, of which one has
\* another value of its key.
PositionsOf == "bank:A" :> {0, 1} @@ "bank:AB" :> {1, 2} @@ "subbank:A" :> {2, 3}
InsideOf    == {<<"bank:A", "bank:AB">>, <<"bank:A", "subbank:A">>}
SameKeyOf   == {{"bank:A", "bank:AB"}}
-----------------------------------------------------------------------------
Init ==
    /\ ServiceInit
    /\ TreeInit /\ (focus = "tree" \/ (spare /\ meant = Leaf(<<"role", "admin">>)))
    /\ ConsortiumInit

Next ==
    \/ ServiceNext /\ UNCHANGED <<treeVars, consortiumVars>>
    \/ focus = "tree" /\ TreeNext /\ UNCHANGED <<serviceVars, consortiumVars>>
    \/ focus = "consortium" /\ ConsortiumNext /\ UNCHANGED <<serviceVars, treeVars>>

Spec == Init /\ [][Next]_vars
=============================================================================
