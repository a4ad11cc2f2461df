----------------------------- MODULE Evaluation -----------------------------
(***************************************************************************)
(* POST /v1/fraud/evaluate of fraud-service: _evaluate_one of              *)
(* app/api/routes_fraud.py.  FastAPI runs it in a thread per request, so   *)
(* requests interleave; each reads the stores several times, because every *)
(* call of get_final_action evaluates the rules anew, and its own          *)
(* transaction enters the stores in the middle.                            *)
(*                                                                         *)
(* One evaluation of the rules reads the lists, the profile and the device *)
(* at one instant here.  Requests carry no receiver and no hour, the       *)
(* defaults of the API, so that the transfer graph and the hour histogram  *)
(* stay empty.  A transaction leaves the five-minute window of its user at *)
(* any time after it has left the one-minute window.                       *)
(***************************************************************************)
EXTENDS Policy, FiniteSets

CONSTANTS Request,      \* requests: the transactions to evaluate
          Tx,           \* what each of them says
          User, Device, \* accounts, devices
          Threads,      \* bound: requests served at a time
          Changes,      \* what administrators may change: lists, and rules they switch
          MaxChanges    \* bound: how often they do

NoUser   == "no user"
NoDevice == "no device"

Say == [amount : Nat, score : Score, hour : {"none"}, foreign : BOOLEAN,
        merchant : BOOLEAN, drains : {FALSE}, user : User \cup {NoUser},
        device : Device \cup {NoDevice}, token : BOOLEAN]

ASSUME EvaluationConstants ==
    /\ IsFiniteSet(Request) /\ IsFiniteSet(User) /\ Tx \in [Request -> Say]
    /\ NoUser \notin User /\ NoDevice \notin Device
    /\ Threads \in Nat /\ MaxChanges \in Nat
    /\ Changes \subseteq {"blacklist", "whitelist"} \cup RuleId

VARIABLES
    pc,        \* [Request -> Stage]: the next thing its thread does
    ids,       \* the rules that fired at the first evaluation
    final,     \* final_action
    push,      \* what the push asked the user: "none", "prompt" or "alert"
    routed,    \* admin_routing of the response
    told,      \* user_message of the response
    blacklist, whitelist, enabled,      \* the lists; the rules switched on
    devices,   \* [Device -> accounts seen on it within the hour]
    history,   \* [User -> its transactions]: the profile store
    spent,     \* [User -> their amount]
    last5, last1,                       \* those of the last 5 minutes, the last minute
    audited,   \* [Request -> action in the audit chain, the audit log and the statistics]
    pending,   \* [Request -> pre_action of its step-up entry]
    changes,   \* changes made so far
    steady     \* history: requests in flight since the last change

local  == <<pc, ids, final, push, routed, told>>
lists  == <<blacklist, whitelist, enabled, changes>>
past   == <<history, spent, last5, last1>>
vars   == <<local, lists, devices, past, audited, pending, steady>>

Stage == {"new", "rules", "decide", "push", "ingest", "record", "register",
          "route", "tell", "summary", "done"}
Nothing == "none"

InFlight == {r \in Request : pc[r] \notin {"new", "done"}}
Known(r) == Tx[r].user # NoUser

\* device_store.record and unique_users_in_window, which the device rule
\* calls on every evaluation.
Seen(r) ==
    IF Known(r) /\ Tx[r].device # NoDevice
    THEN devices[Tx[r].device] \cup {Tx[r].user} ELSE {}

Evaluated(r) == ~(Known(r) /\ Tx[r].user \in whitelist)

\* What the stores say of the request's user, but for the velocity.
Stored(r, minute, five) ==
    LET u == Tx[r].user
    IN [whitelisted |-> ~Evaluated(r),
        blacklisted |-> u \in blacklist,
        deviceUsers |-> Cardinality(Seen(r)),
        fanIn |-> 0, passThrough |-> 0, inboundAgo |-> Never,
        count |-> IF Known(r) THEN Cardinality(history[u]) ELSE 0,
        total |-> IF Known(r) THEN spent[u] ELSE 0,
        v1 |-> IF Known(r) THEN Cardinality(minute[u]) ELSE 0,
        v5 |-> IF Known(r) THEN Cardinality(five[u]) ELSE 0,
        atHour |-> 0, withHour |-> 0, enabled |-> enabled]

Mut_WrongWindow(r) == Stored(r, last1, last1)

\* What a rule reads now.
Ctx(r) == Stored(r, last1, last5)

\* The device rule, when it runs, leaves its mark.
Mark(r) ==
    IF Evaluated(r) /\ "DEVICE_FINGERPRINT" \in enabled /\ Seen(r) # {}
    THEN devices' = [devices EXCEPT ![Tx[r].device] = Seen(r)]
    ELSE UNCHANGED devices

Goto(r, stage) == pc' = [pc EXCEPT ![r] = stage]
-----------------------------------------------------------------------------
Init ==
    /\ pc = [r \in Request |-> "new"]
    /\ ids = [r \in Request |-> {}]
    /\ final = [r \in Request |-> Nothing] /\ push = [r \in Request |-> Nothing]
    /\ routed = [r \in Request |-> Nothing] /\ told = [r \in Request |-> Nothing]
    /\ blacklist = {} /\ whitelist = {} /\ enabled = RuleId
    /\ devices = [d \in Device |-> {}]
    /\ history = [u \in User |-> {}] /\ spent = [u \in User |-> 0]
    /\ last5 = [u \in User |-> {}] /\ last1 = [u \in User |-> {}]
    /\ audited = [r \in Request |-> Nothing] /\ pending = [r \in Request |-> Nothing]
    /\ changes = 0 /\ steady = {}

Start(r) ==
    /\ pc[r] = "new" /\ Cardinality(InFlight) < Threads
    /\ Goto(r, "rules") /\ steady' = steady \cup {r}
    /\ UNCHANGED <<ids, final, push, routed, told, lists, devices, past, audited, pending>>

\* rule_action, rule_id = manager.get_rule_action()
Rules(r) ==
    /\ pc[r] = "rules"
    /\ ids' = [ids EXCEPT ![r] = RuleAction(Tx[r], Ctx(r)).ids]
    /\ Mark(r) /\ Goto(r, "decide")
    /\ UNCHANGED <<final, push, routed, told, lists, past, audited, pending, steady>>

\* final_action = manager.get_final_action(), and the threshold of the fraud
\* type, which the first evaluation gave.
Decide(r) ==
    /\ pc[r] = "decide"
    /\ final' = [final EXCEPT ![r] =
                    ApplyThreshold(ManagerAction(Tx[r], Ctx(r)), Tx[r].score,
                                   ClassifyFraudType(ids[r]))]
    /\ Mark(r) /\ Goto(r, "push")
    /\ UNCHANGED <<ids, push, routed, told, lists, past, audited, pending, steady>>

PushFor(action) ==
    IF action = "BLOCK" THEN "alert" ELSE IF action = "PASS" THEN Nothing ELSE "prompt"

\* manager.trigger_step_up_auth()
Push(r) ==
    /\ pc[r] = "push"
    /\ push' = [push EXCEPT ![r] =
                   IF Tx[r].token THEN PushFor(ManagerAction(Tx[r], Ctx(r))) ELSE Nothing]
    /\ Mark(r) /\ Goto(r, "ingest")
    /\ UNCHANGED <<ids, final, routed, told, lists, past, audited, pending, steady>>

Remember(r) ==
    LET u == Tx[r].user
    IN  /\ history' = [history EXCEPT ![u] = @ \cup {r}]
        /\ spent' = [spent EXCEPT ![u] = @ + Tx[r].amount]
        /\ last5' = [last5 EXCEPT ![u] = @ \cup {r}]
        /\ last1' = [last1 EXCEPT ![u] = @ \cup {r}]

\* profile_store.ingest
Ingest(r) ==
    /\ pc[r] = "ingest"
    /\ IF Known(r) THEN Remember(r) ELSE UNCHANGED past
    /\ Goto(r, "record")
    /\ UNCHANGED <<ids, final, push, routed, told, lists, devices, audited, pending, steady>>

Mut_RecordAfresh(r) ==
    /\ pc[r] = "record"
    /\ audited' = [audited EXCEPT ![r] = ManagerAction(Tx[r], Ctx(r))]
    /\ Goto(r, "register")
    /\ UNCHANGED <<ids, final, push, routed, told, lists, devices, past, pending, steady>>

\* stats_collector.record, audit_logger.write, audit_chain.append
Record(r) ==
    /\ pc[r] = "record"
    /\ audited' = [audited EXCEPT ![r] = final[r]]
    /\ Goto(r, "register")
    /\ UNCHANGED <<ids, final, push, routed, told, lists, devices, past, pending, steady>>

\* stepup_store.set_pending
Register(r) ==
    /\ pc[r] = "register"
    /\ pending' = IF push[r] # Nothing /\ final[r] \in {"REVIEW", "SOFT_REVIEW"}
                  THEN [pending EXCEPT ![r] = final[r]] ELSE pending
    /\ Goto(r, "route")
    /\ UNCHANGED <<ids, final, push, routed, told, lists, devices, past, audited, steady>>

\* manager.get_admin_routing(), which decides once more
Route(r) ==
    /\ pc[r] = "route"
    /\ routed' = [routed EXCEPT ![r] = ManagerAction(Tx[r], Ctx(r))]
    /\ Mark(r) /\ Goto(r, "tell")
    /\ UNCHANGED <<ids, final, push, told, lists, past, audited, pending, steady>>

\* manager.get_user_trust_message(), and once more
Tell(r) ==
    /\ pc[r] = "tell"
    /\ told' = [told EXCEPT ![r] = ManagerAction(Tx[r], Ctx(r))]
    /\ Mark(r) /\ Goto(r, "summary")
    /\ UNCHANGED <<ids, final, push, routed, lists, past, audited, pending, steady>>

\* manager.get_audit(), which evaluates the rules once more for their names.
Summarise(r) ==
    /\ pc[r] = "summary" /\ Mark(r) /\ Goto(r, "done")
    /\ UNCHANGED <<ids, final, push, routed, told, lists, past, audited, pending, steady>>
-----------------------------------------------------------------------------
(***************************************************************************)
(* Administrators and time                                                 *)
(***************************************************************************)
Flip(x, S) == IF x \in S THEN S \ {x} ELSE S \cup {x}

\* An entry of a list is added or removed, or a rule is switched.
Change(what) ==
    /\ what \in Changes /\ changes < MaxChanges
    /\ changes' = changes + 1
    /\ steady' = {}
    /\ UNCHANGED <<local, devices, past, audited, pending>>

Blacklist(u) ==
    /\ Change("blacklist")
    /\ blacklist' = Flip(u, blacklist)
    /\ UNCHANGED <<whitelist, enabled>>

Whitelist(u) ==
    /\ Change("whitelist")
    /\ whitelist' = Flip(u, whitelist)
    /\ UNCHANGED <<blacklist, enabled>>

Toggle(id) ==
    /\ Change(id)
    /\ enabled' = Flip(id, enabled)
    /\ UNCHANGED <<blacklist, whitelist>>

LeaveMinute(u, r) ==
    /\ r \in last1[u]
    /\ last1' = [last1 EXCEPT ![u] = @ \ {r}]
    /\ UNCHANGED <<local, lists, devices, history, spent, last5, audited, pending, steady>>

LeaveFive(u, r) ==
    /\ r \in last5[u] \ last1[u]
    /\ last5' = [last5 EXCEPT ![u] = @ \ {r}]
    /\ UNCHANGED <<local, lists, devices, history, spent, last1, audited, pending, steady>>

\* An account's last use of a device leaves the hour.
Forget(d, u) ==
    /\ u \in devices[d]
    /\ devices' = [devices EXCEPT ![d] = @ \ {u}]
    /\ UNCHANGED <<local, lists, past, audited, pending, steady>>

Next ==
    \/ \E r \in Request :
        \/ Start(r) \/ Rules(r) \/ Decide(r) \/ Push(r) \/ Ingest(r)
        \/ Record(r) \/ Register(r) \/ Route(r) \/ Tell(r) \/ Summarise(r)
    \/ \E u \in User : Blacklist(u) \/ Whitelist(u)
    \/ \E id \in RuleId : Toggle(id)
    \/ \E u \in User, r \in Request : LeaveMinute(u, r) \/ LeaveFive(u, r)
    \/ \E d \in Device, u \in User : Forget(d, u)

Spec == Init /\ [][Next]_vars
-----------------------------------------------------------------------------
TypeOK ==
    /\ pc \in [Request -> Stage]
    /\ ids \in [Request -> SUBSET (RuleId \cup {"WHITELIST"})]
    /\ final \in [Request -> Action \cup {Nothing}]
    /\ push \in [Request -> {Nothing, "prompt", "alert"}]
    /\ routed \in [Request -> Action \cup {Nothing}]
    /\ told \in [Request -> Action \cup {Nothing}]
    /\ blacklist \subseteq User /\ whitelist \subseteq User /\ enabled \subseteq RuleId
    /\ devices \in [Device -> SUBSET User]
    /\ history \in [User -> SUBSET Request] /\ spent \in [User -> Nat]
    /\ last5 \in [User -> SUBSET Request] /\ last1 \in [User -> SUBSET Request]
    /\ \A u \in User : last1[u] \subseteq last5[u] /\ last5[u] \subseteq history[u]
    /\ audited \in [Request -> Action \cup {Nothing}]
    /\ pending \in [Request -> {Nothing, "REVIEW", "SOFT_REVIEW"}]
    /\ changes \in 0..MaxChanges /\ steady \subseteq Request

\* The velocity rule admits three transactions in five minutes (a fourth sees
\* three).  Requests of one user that are decided before any of them is in
\* the profile see too few, but never more than the threads that serve them:
\* the overshoot is bounded.  For a deployment that changes no list or rule.
Passed(u) == {r \in last5[u] : final[r] # "BLOCK"}
VelocityOvershoot ==
    Changes = {} => \A u \in User : Cardinality(Passed(u)) <= 2 + Threads

\* Once a list says so and until it changes, a user on the whitelist is
\* decided by the model alone and one on the blacklist is blocked
\* (access_list.py), in whatever order the reads of the stores fall.
ListsObeyed ==
    \A r \in steady :
        pc[r] \notin {"new", "rules", "decide"} /\ Known(r) =>
            /\ Tx[r].user \in whitelist => final[r] = ModelAction(Tx[r])
            /\ Tx[r].user \in blacklist \ whitelist /\ "BLACKLIST" \in enabled
                => final[r] = "BLOCK"

\* There is one verdict: what is audited is what the response says, a step-up
\* entry is opened only for a verdict that awaits an answer, and only after
\* the verdict is in the audit trail.
OneVerdict ==
    \A r \in Request :
        /\ audited[r] \in {Nothing, final[r]}
        /\ pc[r] = "done" => audited[r] = final[r]
        /\ pending[r] # Nothing =>
              pending[r] = audited[r] /\ audited[r] \in {"REVIEW", "SOFT_REVIEW"}

\* No decision forgets the model (fraud_service.py, policy_merge.py): the
\* verdict is never weaker than the model's action for the transaction.
ModelNotWeakened ==
    \A r \in Request : final[r] # Nothing => Rank(final[r]) >= Rank(ModelAction(Tx[r]))
=============================================================================
