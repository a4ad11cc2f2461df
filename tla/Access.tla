------------------------------- MODULE Access -------------------------------
(***************************************************************************)
(* The attribute-based access layer of fraud-service, one request at a     *)
(* time: app/middleware/abe_auth.py with its two engines,                  *)
(* app/services/abe_engine.py (an access structure per resource) and       *)
(* app/services/abac_engine.py (eight rules, which refuse or mask), while  *)
(* an administrator revokes attributes (app/api/routes_admin.py) and the   *)
(* process restarts, which forgets what was revoked. An access structure   *)
(* is the set of the attribute sets that satisfy it; how its text is read  *)
(* is in module PolicyTexts. A response shows each of its fields plain,    *)
(* masked, or replaced by the marker of what needs other attributes.       *)
(***************************************************************************)
EXTENDS Integers, Sequences, FiniteSets, Functions

CONSTANTS Token,             \* [given, expired, signature, attributes: a function on some of the keys]
          Policies,          \* load_policies: a sequence of records, in the file's order
          RequestPath,       \* paths: [method, area, below]
          Clock,             \* hours of the day
          RequireSignature,  \* ABE_REQUIRE_SIGNATURE, or production
          MaxRevoked         \* bound

Secret == {"user_id", "account_number", "phone", "email", "ip", "amount", "score", "rule_ids"}
Exempt == {"health", "docs"}
DefaultAttributes == [role |-> "viewer", dept |-> "none", clearance |-> "low"]

VARIABLES
    revoked,  \* AttributeRevocationManager._revoked: <<user, key, value>>
    abePhase,    \* "idle", "running" in the handler, "answered" or "refused"
    holder,   \* the user of the token
    attrs,    \* the token's attributes, as the request came in with
    policy,   \* its policy: a set of at most one record
    decision, \* ABACEngine.evaluate: what is masked
    shown     \* the answer: what became of each field

accessVars == <<revoked, abePhase, holder, attrs, policy, decision, shown>>

AccessInit ==
    /\ revoked = {} /\ abePhase = "idle" /\ holder = "anonymous" /\ attrs = DefaultAttributes
    /\ policy = {} /\ decision = {} /\ shown = [f \in Secret |-> "plain"]
-----------------------------------------------------------------------------
\* attr_set, and what is left of it when the revoked ones are filtered out.
Pairs(given) == {<<k, given[k]>> : k \in DOMAIN given}

Mut_NobodysRevoked(user, given) == given

Left(user, given) ==
    Restrict(given, {k \in DOMAIN given : <<user, k, given[k]>> \notin revoked})

\* evaluate_access_structure: an alternative all of whose attributes are there.
Satisfied(structure, given) == \E alternative \in structure : alternative \subseteq Pairs(given)

\* find_policy: the first whose resource is the request's, or a prefix of it.
FindPolicy(path) ==
    LET matching == SelectSeq(Policies, LAMBDA p : /\ p.method = path.method /\ p.area = path.area
                                                   /\ p.below = path.below)
    IN  IF matching = <<>> THEN {} ELSE {Head(matching)}

\* What the token does not say has a default.
Unsaid(k) ==
    CASE k = "role" -> "viewer" [] k = "dept" -> "none" [] k = "clearance" -> "low"
      [] k = "location" -> "internal" [] k = "device_type" -> "desktop" [] k = "mfa_verified" -> "false"

\* _attrs_to_subject
Subject(given) ==
    LET Get(k) == IF k \in DOMAIN given THEN given[k] ELSE Unsaid(k)
    IN  [role |-> Get("role"), dept |-> Get("dept"), location |-> Get("location"),
         device |-> Get("device_type"), mfa |-> Get("mfa_verified") = "true",
         clearance |-> CASE Get("clearance") = "medium" -> 2 [] Get("clearance") = "high" -> 3
                         [] Get("clearance") \in {"top_secret", "critical"} -> 4 [] OTHER -> 1]

\* _path_to_resource: it names no owner.
Resource(path) ==
    [owner |-> "",
     level |-> IF path.area \in {"audit", "fraud", "score"} THEN 3
               ELSE IF path.area \in {"profile", "users"} THEN 2 ELSE 1]

Environment(hour) == [business |-> 9 <= hour /\ hour < 18, threat |-> "normal"]

Deny == {"DENY"}

ClearanceLevelRule(s, r, env) == IF s.clearance < r.level THEN Deny ELSE {}

BusinessHoursRule(s, r, env) ==
    IF env.business \/ r.level < 3 \/ s.role = "admin" THEN {}
    ELSE IF r.level >= 4 THEN Deny ELSE {"amount", "user_id", "score", "account_number"}

LocationRestrictionRule(s, r, env) ==
    IF s.location # "external" \/ r.level < 3 THEN {}
    ELSE IF r.level >= 4 THEN Deny ELSE {"user_id", "account_number", "phone", "email"}

DeviceTypeRule(s, r, env) ==
    IF s.device \in {"mobile", "tablet"} /\ r.level >= 3 THEN {"amount", "score"} ELSE {}

MFARequirementRule(s, r, env) == IF ~s.mfa /\ r.level >= 3 THEN Deny ELSE {}

DepartmentSeparationRule(s, r, env) ==
    IF r.owner \notin {"", s.dept} /\ s.role # "admin" /\ r.level >= 2
    THEN {"user_id", "account_number", "phone", "score"} ELSE {}

ThreatLevelRule(s, r, env) ==
    IF env.threat \in {"high", "critical"} /\ s.role \notin {"admin", "auditor"} /\ r.level >= 2
    THEN {"amount", "user_id", "score", "rule_ids"} ELSE {}

SensitiveFieldMaskRule(s, r, env) ==
    IF s.role = "viewer" THEN {"user_id", "account_number", "phone", "email", "ip"} ELSE {}

\* ABACEngine.evaluate: the first refusal ends it, and leaves nothing masked.
Evaluate(s, r, env) ==
    LET said == UNION {ClearanceLevelRule(s, r, env), BusinessHoursRule(s, r, env),
                       LocationRestrictionRule(s, r, env), DeviceTypeRule(s, r, env),
                       MFARequirementRule(s, r, env), DepartmentSeparationRule(s, r, env),
                       ThreatLevelRule(s, r, env), SensitiveFieldMaskRule(s, r, env)}
    IN  [allowed |-> said \cap Deny = {}, masks |-> IF said \cap Deny = {} THEN said ELSE {}]

\* The policy's structure first, then the rules.
Enter(given, path, hour) ==
    LET decided == Evaluate(Subject(given), Resource(path), Environment(hour))
    IN  [allowed |-> /\ \A p \in FindPolicy(path) : Satisfied(p.structure, given)
                     /\ decided.allowed,
         masks |-> decided.masks]
-----------------------------------------------------------------------------
\* AbeAuthMiddleware.dispatch until the handler.  A token is refused when it has
\* expired, or has a signature that is wrong, or has to have one; a request
\* without a token has the attributes of a viewer, from which nothing is revoked.
Dispatch(path, token, hour) ==
    /\ abePhase = "idle"
    /\ LET bad == IF token.given
                  THEN token.expired \/ (IF token.signature = "none" THEN RequireSignature
                                         ELSE token.signature = "wrong")
                  ELSE RequireSignature
           user == IF token.given THEN "u" ELSE "anonymous"
           kept == IF token.given THEN Left(user, token.attributes) ELSE DefaultAttributes
           entry == Enter(kept, path, hour)
           exempt == path.area \in Exempt
       IN  /\ holder' = user /\ attrs' = kept
           /\ policy' = IF exempt THEN {} ELSE FindPolicy(path)
           /\ decision' = IF exempt THEN {} ELSE entry.masks
           /\ abePhase' = IF exempt \/ (~bad /\ entry.allowed) THEN "running" ELSE "refused"
    /\ UNCHANGED <<revoked, shown>>

\* The rest of it, over a body that is an object, a list, or no JSON, or an
\* error.  filter_response, which takes the attributes that are left now, gets
\* objects only.
FilterAnswer(body) ==
    /\ abePhase = "running" /\ abePhase' = "answered"
    /\ shown' = [f \in Secret |->
           IF body = "other" THEN "plain"
           ELSE IF body = "object"
                   /\ \E p \in policy : f \in p.fields /\ ~Satisfied(p.structure, Left(holder, attrs))
           THEN "marker"
           ELSE IF f \in decision THEN "masked" ELSE "plain"]
    /\ UNCHANGED <<revoked, holder, attrs, policy, decision>>

\* POST /admin/abe/revoke: any attribute of any user, and for good.
Revoke(user, k, v) ==
    /\ abePhase # "answered" /\ Cardinality(revoked) < MaxRevoked
    /\ revoked' = revoked \cup {<<user, k, v>>}
    /\ UNCHANGED <<abePhase, holder, attrs, policy, decision, shown>>

\* Nothing of it is kept anywhere else.
RestartAccess ==
    /\ abePhase # "idle" /\ abePhase' = "idle" /\ revoked' = {} /\ holder' = "anonymous"
    /\ attrs' = DefaultAttributes /\ policy' = {} /\ decision' = {}
    /\ shown' = [f \in Secret |-> "plain"]

AccessNext ==
    \/ \E path \in RequestPath, token \in Token, hour \in Clock : Dispatch(path, token, hour)
    \/ \E body \in {"object", "list", "other"} : FilterAnswer(body)
    \/ \E user \in {"u", "anonymous"}, token \in Token : \E k \in DOMAIN token.attributes :
          Revoke(user, k, token.attributes[k])
    \/ RestartAccess

AccessSpec == AccessInit /\ [][AccessNext]_accessVars
-----------------------------------------------------------------------------
AccessTypeOK ==
    /\ \A r \in revoked : r[1] \in {"u", "anonymous"}
    /\ abePhase \in {"idle", "running", "answered", "refused"} /\ holder \in {"u", "anonymous"}
    /\ Cardinality(policy) <= 1 /\ decision \subseteq Secret
    /\ shown \in [Secret -> {"plain", "masked", "marker"}]

\* A field that a policy hides is in an answer only if the attributes that are
\* left when the answer is made satisfy the policy, also when some were revoked
\* while the handler ran (abe_auth.py:302 says so); the answer is an object.
\* And what the rules mask when the request comes in is not shown either.
HiddenNeedsAttributes ==
    [][\A body \in {"object", "list"} : FilterAnswer(body) =>
          /\ body = "object" => \A p \in policy, f \in Secret :
                 (f \in p.fields /\ shown'[f] # "marker")
                     => \E alternative \in p.structure : \A pair \in alternative :
                            /\ pair \in Pairs(attrs)
                            /\ <<holder, pair[1], pair[2]>> \notin revoked
          /\ \A f \in decision : shown'[f] # "plain"]_accessVars

\* One attribute less never lets a request in that was refused, nor shows a
\* field that was masked, at any hour; except for a location and a device, whose
\* defaults are the ones that nothing is masked for (abe_auth.py:96).
FewerShowNoMore ==
    abePhase \in {"running", "refused"} =>
        \A path \in RequestPath, hour \in Clock, k \in DOMAIN attrs \ {"location", "device_type"} :
            LET all == Enter(attrs, path, hour)
                fewer == Enter(Restrict(attrs, DOMAIN attrs \ {k}), path, hour)
            IN  fewer.allowed => all.allowed /\ all.masks \subseteq fewer.masks

\* Neither the loss of an attribute nor its revocation shows anything more.
LessShowsNoMore == HiddenNeedsAttributes /\ []FewerShowNoMore
=============================================================================
