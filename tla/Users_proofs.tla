----------------------------- MODULE Users_proofs -----------------------------
(***************************************************************************)
(* Proofs of what module MCUsers checks on a few values, for every value   *)
(* of their constants: the accounts and the passkeys of the backend, the   *)
(* session that the web client keeps, the audit rows with their retention, *)
(* the consents with the pseudonyms, the policy file, the tags that a user *)
(* puts on payments, the advice and what the pages say; and of all of      *)
(* these together, of what is kept of users.                               *)
(***************************************************************************)
EXTENDS Accounts, Passkeys, ClientSession, Dashboard, Sums, PolicyFile,
        Emotions, Advice, MCUsers, FiniteSetTheorems, WellFoundedInduction,
        TLAPS

(***************************************************************************)
(* Accounts, for any requests of one person                                *)
(***************************************************************************)

LEMMA AccMoves ==
    ASSUME accStage \in [AccRequest -> AccStages], NEW r \in AccRequest, NEW s \in AccStages, AccTo(r, s)
    PROVE  /\ accStage' \in [AccRequest -> AccStages] /\ accStage'[r] = s
           /\ \A q \in AccRequest \ {r} : accStage'[q] = accStage[q]
BY DEF AccTo

LEMMA ChangedPerson ==
    ASSUME person \in Person, NEW r \in AccRequest
    PROVE  /\ Changes(r) \in Person
           /\ AccKind[r] = "setup" => Changes(r).secret # {} /\ Changes(r).enabled = person.enabled
           /\ AccKind[r] = "verify" => Changes(r).enabled /\ Changes(r).secret = person.secret
           /\ AccKind[r] = "disable" => ~Changes(r).enabled /\ Changes(r).secret = {}
           /\ AccKind[r] \notin {"setup", "verify", "disable"}
                => Changes(r).secret = person.secret /\ Changes(r).enabled = person.enabled
           /\ AccKind[r] = "regenerate" => Changes(r).codes = CodesOf(r)
           /\ AccKind[r] # "regenerate" => Changes(r).codes = person.codes
BY DEF Changes, Person, CodesOf, Code

LEMMA SavedPerson ==
    ASSUME person \in Person, NEW r \in AccRequest,
           accOwn[r].changed \in Person, accOwn[r].loaded \in Person
    PROVE  /\ Saved(r) \in Person
           /\ Saved(r).enabled = IF accOwn[r].changed.enabled # accOwn[r].loaded.enabled
                                 THEN accOwn[r].changed.enabled ELSE person.enabled
           /\ Saved(r).secret = IF accOwn[r].changed.secret # accOwn[r].loaded.secret
                                 THEN accOwn[r].changed.secret ELSE person.secret
           /\ Saved(r).codes = IF accOwn[r].changed.codes # accOwn[r].loaded.codes
                                 THEN accOwn[r].changed.codes ELSE person.codes
BY DEF Saved, Person
-----------------------------------------------------------------------------
\* What kinds of requests reach a stage.
PlacedAt(r) ==
    /\ accStage[r] = "load" => AccKind[r] \in BearerKind \cup {"refresh"}
    /\ accStage[r] = "rotate" => AccKind[r] = "refresh"
    /\ accStage[r] = "logout" => AccKind[r] = "logout"
    /\ accStage[r] = "save" => AccKind[r] \in SettingKind \cup {"backup", "answer"}

\* A request shows what its kind asks for.
ShowsAt(r) == \A t \in accOwn[r].shows :
    /\ t[1] = "refresh" => AccKind[r] \in {"refresh", "logout"}
    /\ t[1] = "access" => AccKind[r] \in BearerKind \cup {"logout"}
    /\ t[1] = "code" => AccKind[r] = "backup" /\ \E p \in Over : AccKind[p] = "regenerate" /\ t \in CodesOf(p)
    /\ t[1] \in {"totp", "fido"} => AccKind[r] = "answer" /\ t \in sessions.made

\* Nothing is before a request that has not begun, and only what is over is
\* before one that has.
OrderAt(r) ==
    /\ before[r] \subseteq {q \in Over : AccKind[q] \in Spending}
    /\ accStage[r] = "new" => before[r] = {} /\ accOwn[r].shows = {}

\* Where that which a request has used is noted.
NotedAt(r) ==
    /\ r \in Over /\ AccKind[r] \in {"refresh", "logout"} /\ r \notin blind => accOwn[r].shows \subseteq blacklist
    /\ accStage[r] = "logout" /\ r \notin blind => {t \in accOwn[r].shows : t[1] = "access"} \subseteq blacklist
    /\ r \in Over /\ AccKind[r] = "answer" => accOwn[r].shows \cap Session \subseteq sessions.verified
    /\ r \in Over /\ AccKind[r] = "backup" /\ (\A p \in stale : AccKind[p] # "backup")
            => accOwn[r].shows \cap person.codes = {}

\* What a request is about to save of the second factor and of the codes.
PendingAt(r) == accStage[r] = "save" =>
    /\ AccKind[r] = "setup" => accOwn[r].changed.secret # {} /\ accOwn[r].changed.enabled = accOwn[r].loaded.enabled
    /\ AccKind[r] = "verify" => /\ accOwn[r].changed.enabled
                                /\ accOwn[r].changed.secret = accOwn[r].loaded.secret
                                /\ accOwn[r].loaded.secret # {}
    /\ AccKind[r] = "disable" => ~accOwn[r].changed.enabled /\ accOwn[r].loaded.enabled
    /\ AccKind[r] \notin {"setup", "verify", "disable"}
            => /\ accOwn[r].changed.secret = accOwn[r].loaded.secret
               /\ accOwn[r].changed.enabled = accOwn[r].loaded.enabled
    /\ AccKind[r] = "regenerate" => accOwn[r].changed.codes = CodesOf(r)
    /\ AccKind[r] = "backup" => accOwn[r].changed.codes = accOwn[r].loaded.codes \ accOwn[r].shows
    /\ AccKind[r] \notin {"regenerate", "backup"} => accOwn[r].changed.codes = accOwn[r].loaded.codes

\* SpentStaysSpent, of one request.
SpentAt(r) ==
    \A q \in before[r] : \A t \in accOwn[r].shows \cap accOwn[q].shows :
        \/ accStage[r] = "failed"
        \/ t[1] = "access" /\ (AccKind[q] = "logout" => AccKind[r] = "logout" \/ {r, q} \cap blind # {})
        \/ t[1] = "refresh" /\ (AccKind[r] = "logout" \/ {r, q} \cap blind # {})
        \/ t[1] = "code" /\ \E p \in stale : AccKind[p] = "backup"

AllAt(r) == PlacedAt(r) /\ ShowsAt(r) /\ OrderAt(r) /\ NotedAt(r) /\ PendingAt(r) /\ SpentAt(r)

AccInv == AccTypeOK /\ EnabledHasSecret /\ \A r \in AccRequest : AllAt(r)

LEMMA AccBegins == AccInit => AccInv
<1> SUFFICES ASSUME AccInit PROVE AccInv OBVIOUS
<1>1. AccTypeOK
  <2>1. person \in Person /\ Absent \in Person BY DEF AccInit, Absent, Person
  <2>2. accStage \in [AccRequest -> AccStages] BY DEF AccInit, AccStages
  <2>3. accOutages \in 0..AccMaxOutages BY AccountConstants DEF AccInit
  <2>4. accOwn \in [AccRequest -> Holding]
    <3>1. Fresh \in Holding BY <2>1 DEF Fresh, Holding
    <3> QED BY <3>1 DEF AccInit
  <2>5. /\ sessions \in [made : SUBSET Session, verified : SUBSET Session]
        /\ sessions.verified \subseteq sessions.made
    BY DEF AccInit
  <2> QED BY <2>1, <2>2, <2>3, <2>4, <2>5 DEF AccInit, AccTypeOK
<1>2. /\ \A r \in AccRequest : accStage[r] \in {"new", "failed"} /\ accOwn[r].shows = {} /\ before[r] = {}
      /\ ~person.enabled
  BY DEF AccInit, Fresh, Absent
<1>3. \A r \in AccRequest : AllAt(r)
  BY <1>2 DEF AllAt, PlacedAt, ShowsAt, OrderAt, NotedAt, PendingAt, SpentAt, Over
<1>4. EnabledHasSecret BY <1>2 DEF EnabledHasSecret
<1> QED BY <1>1, <1>3, <1>4 DEF AccInv
-----------------------------------------------------------------------------
\* What a request presents, has loaded and has changed stays of its type.
LEMMA AccHolds ==
    ASSUME AccTypeOK, NEW r \in AccRequest, NEW given \in SUBSET (Token \cup Code \cup Session),
           NEW changed \in Person
    PROVE  /\ Loads(r, changed, given) =>
                /\ accOwn' \in [AccRequest -> Holding]
                /\ accOwn'[r] = [shows |-> given, loaded |-> person, changed |-> changed]
           /\ accOwn' = [accOwn EXCEPT ![r].shows = given] =>
                /\ accOwn' \in [AccRequest -> Holding]
                /\ accOwn'[r].shows = given
BY SMTT(20) DEF Loads, Holding, AccTypeOK

LEMMA AccTypeKept == ASSUME AccInv, [AccNext]_accVars PROVE AccTypeOK'
<1> USE DEF AccTypeOK, AccInv
<1>b. ASSUME NEW r \in AccRequest, Began(r) PROVE before' \in [AccRequest -> SUBSET AccRequest]
  BY <1>b DEF Began, Over
<1>1. ASSUME NEW r \in AccRequest, RegisterLook(r) PROVE AccTypeOK'
  <2>1. accStage' \in [AccRequest -> AccStages] BY <1>1, AccMoves DEF RegisterLook, AccStages
  <2> QED BY <1>1, <2>1, <1>b DEF RegisterLook
<1>2. ASSUME NEW r \in AccRequest, Register(r) PROVE AccTypeOK'
  <2>1. accStage' \in [AccRequest -> AccStages] BY <1>2, AccMoves DEF Register, AccStages
  <2>2. person' \in Person
    <3>1. CASE UNCHANGED person BY <3>1
    <3>2. CASE person' = [person EXCEPT !.there = TRUE, !.password = {r}]
      <4>1. person' = [there |-> TRUE, secret |-> person.secret, enabled |-> person.enabled,
                       codes |-> person.codes, password |-> {r}]
        BY <3>2 DEF Person
      <4> QED BY <4>1 DEF Person
    <3> QED BY <1>2, <3>1, <3>2 DEF Register
  <2> QED BY <1>2, <2>1, <2>2 DEF Register
<1>3. ASSUME NEW r \in AccRequest, Login(r) PROVE AccTypeOK'
  <2>1. accStage' \in [AccRequest -> AccStages] BY <1>3, AccMoves DEF Login, AccStages
  <2> QED BY <1>3, <2>1, <1>b DEF Login
<1>4. ASSUME NEW r \in AccRequest, LoginTotp(r) PROVE AccTypeOK'
  <2>1. accStage' \in [AccRequest -> AccStages] BY <1>4, AccMoves DEF LoginTotp, AccStages
  <2> QED BY <1>4, <2>1, <1>b DEF LoginTotp
<1>5. ASSUME NEW r \in AccRequest, LoadCodes(r) PROVE AccTypeOK'
  <2>1. accStage' \in [AccRequest -> AccStages] BY <1>5, AccMoves DEF LoadCodes, AccStages
  <2>2. accOwn' \in [AccRequest -> Holding]
    <3>1. CASE UNCHANGED accOwn BY <3>1
    <3>2. CASE \E q \in Over : \E c \in CodesOf(q) : Loads(r, [person EXCEPT !.codes = @ \ {c}], {c})
      <4>1. PICK q \in Over : \E c \in CodesOf(q) : Loads(r, [person EXCEPT !.codes = @ \ {c}], {c}) BY <3>2
      <4>2. PICK c \in CodesOf(q) : Loads(r, [person EXCEPT !.codes = @ \ {c}], {c}) BY <4>1
      <4>4. c \in Code BY DEF CodesOf, Over, Code
      <4>3. [person EXCEPT !.codes = @ \ {c}] \in Person BY DEF Person
      <4> QED BY <4>2, <4>4, <4>3, AccHolds
    <3> QED BY <1>5, <3>1, <3>2 DEF LoadCodes
  <2> QED BY <1>5, <2>1, <2>2, <1>b DEF LoadCodes
<1>6. ASSUME NEW r \in AccRequest, CheckToken(r) PROVE AccTypeOK'
  <2>1. PICK q \in Issuers :
        /\ Refused(r, <<IF AccKind[r] = "refresh" THEN "refresh" ELSE "access", q, 0>>)
        /\ accOwn' = [accOwn EXCEPT ![r].shows = {<<IF AccKind[r] = "refresh" THEN "refresh" ELSE "access", q, 0>>}]
    BY <1>6 DEF CheckToken
  <2> DEFINE t == <<IF AccKind[r] = "refresh" THEN "refresh" ELSE "access", q, 0>>
  <2>2. t \in Token BY DEF Issuers, Over, Token
  <2>3. accOwn' \in [AccRequest -> Holding] BY <2>1, <2>2, AccHolds, Absent \in Person DEF Absent, Person
  <2>4. accStage' \in [AccRequest -> AccStages] BY <2>1 DEF Refused, AccStages
  <2>5. blind' \subseteq AccRequest BY <2>1 DEF Refused
  <2> QED BY <1>6, <2>3, <2>4, <2>5, <1>b DEF CheckToken
<1>7. ASSUME NEW r \in AccRequest, LoadRefresh(r) PROVE AccTypeOK'
  <2>1. accStage' \in [AccRequest -> AccStages] BY <1>7, AccMoves DEF LoadRefresh, AccStages
  <2> QED BY <1>7, <2>1 DEF LoadRefresh
<1>8. ASSUME NEW r \in AccRequest, Rotate(r) PROVE AccTypeOK'
  <2>1. accStage' \in [AccRequest -> AccStages] BY <1>8, AccMoves DEF Rotate, AccStages
  <2>2. \A t \in accOwn[r].shows : t \in Token
    <3>1. \A t \in accOwn[r].shows : t \in Token \cup Code \cup Session BY DEF Holding
    <3>2. AccKind[r] = "refresh" BY <1>8 DEF Rotate, AccAt
    <3> QED BY <3>1, <3>2 DEF AllAt, ShowsAt, Code, Session
  <2>3. blacklist' \subseteq Token /\ blind' \subseteq AccRequest BY <1>8, <2>2 DEF Rotate, Blacklist
  <2> QED BY <1>8, <2>1, <2>3 DEF Rotate
<1>9. ASSUME NEW r \in AccRequest, LogoutAccess(r) PROVE AccTypeOK'
  <2>1. accStage' \in [AccRequest -> AccStages] BY <1>9, AccMoves DEF LogoutAccess, AccStages
  <2>2. PICK q \in Issuers :
        /\ Blacklist(r, {<<"access", q, 0>>})
        /\ \/ accOwn' = [accOwn EXCEPT ![r].shows = {<<"access", q, 0>>}]
           \/ accOwn' = [accOwn EXCEPT ![r].shows = {<<"access", q, 0>>, <<"refresh", q, 0>>}]
    BY <1>9 DEF LogoutAccess
  <2>3. <<"access", q, 0>> \in Token /\ <<"refresh", q, 0>> \in Token BY DEF Issuers, Over, Token
  <2>a. Absent \in Person BY DEF Absent, Person
  <2>4. accOwn' \in [AccRequest -> Holding]
    <3>1. CASE accOwn' = [accOwn EXCEPT ![r].shows = {<<"access", q, 0>>}]
      BY <3>1, <2>3, <2>a, AccHolds
    <3>2. CASE accOwn' = [accOwn EXCEPT ![r].shows = {<<"access", q, 0>>, <<"refresh", q, 0>>}]
      <4> DEFINE given == {<<"access", q, 0>>, <<"refresh", q, 0>>}
      <4>1. given \in SUBSET (Token \cup Code \cup Session) BY <2>3
      <4>2. accOwn' = [accOwn EXCEPT ![r].shows = given] BY <3>2
      <4> HIDE DEF given
      <4> QED BY <4>1, <4>2, <2>a, AccHolds
    <3> QED BY <2>2, <3>1, <3>2
  <2>5. blacklist' \subseteq Token /\ blind' \subseteq AccRequest BY <2>2, <2>3 DEF Blacklist
  <2> QED BY <1>9, <2>1, <2>4, <2>5, <1>b DEF LogoutAccess
<1>10. ASSUME NEW r \in AccRequest, LogoutRefresh(r) PROVE AccTypeOK'
  <2>1. accStage' \in [AccRequest -> AccStages] BY <1>10, AccMoves DEF LogoutRefresh, AccStages
  <2>2. \A t \in accOwn[r].shows : t[1] = "refresh" => t \in Token
    <3>1. \A t \in accOwn[r].shows : t \in Token \cup Code \cup Session BY DEF Holding
    <3> QED BY <3>1 DEF Code, Session
  <2>3. blacklist' \subseteq Token /\ blind' \subseteq AccRequest BY <1>10, <2>2 DEF LogoutRefresh, Blacklist
  <2> QED BY <1>10, <2>1, <2>3 DEF LogoutRefresh
<1>11. ASSUME NEW r \in AccRequest, LoadUser(r) PROVE AccTypeOK'
  <2>1. accStage' \in [AccRequest -> AccStages] BY <1>11, AccMoves DEF LoadUser, AccStages
  <2>2. accOwn' \in [AccRequest -> Holding]
    <3>1. CASE UNCHANGED accOwn BY <3>1
    <3>2. CASE Loads(r, Changes(r), accOwn[r].shows)
      <4> DEFINE given == accOwn[r].shows
                 changed == Changes(r)
      <4>1. given \in SUBSET (Token \cup Code \cup Session) BY DEF Holding
      <4>2. changed \in Person BY ChangedPerson
      <4>3. Loads(r, changed, given) BY <3>2
      <4> HIDE DEF given, changed
      <4> QED BY <4>1, <4>2, <4>3, AccHolds
    <3> QED BY <1>11, <3>1, <3>2 DEF LoadUser
  <2> QED BY <1>11, <2>1, <2>2 DEF LoadUser
<1>12. ASSUME NEW r \in AccRequest, SaveUser(r) PROVE AccTypeOK'
  <2>1. accStage' \in [AccRequest -> AccStages] BY <1>12, AccMoves DEF SaveUser, AccStages
  <2>2. accOwn[r].changed \in Person /\ accOwn[r].loaded \in Person BY DEF Holding
  <2>3. person' \in Person BY <1>12, <2>2, SavedPerson DEF SaveUser
  <2>4. stale' \subseteq AccRequest BY <1>12 DEF SaveUser
  <2> QED BY <1>12, <2>1, <2>3, <2>4 DEF SaveUser
<1>13. ASSUME NEW r \in AccRequest, RequestChallenge(r) PROVE AccTypeOK'
  <2>1. accStage' \in [AccRequest -> AccStages] BY <1>13, AccMoves DEF RequestChallenge, AccStages
  <2>2. <<"totp", r, 0>> \in Session /\ <<"fido", r, 0>> \in Session BY DEF Session
  <2>3. /\ sessions' \in [made : SUBSET Session, verified : SUBSET Session]
        /\ sessions'.verified \subseteq sessions'.made
    BY <1>13, <2>2 DEF RequestChallenge
  <2> QED BY <1>13, <2>1, <2>3 DEF RequestChallenge
<1>14. ASSUME NEW r \in AccRequest, LoadSession(r) PROVE AccTypeOK'
  <2>1. accStage' \in [AccRequest -> AccStages] BY <1>14, AccMoves DEF LoadSession, AccStages
  <2>2. accOwn' \in [AccRequest -> Holding]
    <3>1. CASE UNCHANGED accOwn BY <3>1
    <3>2. CASE \E c \in sessions.made : Loads(r, person, accOwn[r].shows \cup {c})
      <4>1. PICK c \in sessions.made : Loads(r, person, accOwn[r].shows \cup {c}) BY <3>2
      <4> DEFINE given == accOwn[r].shows \cup {c}
      <4>2. given \in SUBSET (Token \cup Code \cup Session) BY DEF Holding
      <4>3. Loads(r, person, given) BY <4>1
      <4> HIDE DEF given
      <4> QED BY <4>2, <4>3, AccHolds
    <3> QED BY <1>14, <3>1, <3>2 DEF LoadSession
  <2> QED BY <1>14, <2>1, <2>2 DEF LoadSession
<1>15. ASSUME NEW r \in AccRequest, Answer(r) PROVE AccTypeOK'
  <2>1. accStage' \in [AccRequest -> AccStages] BY <1>15, AccMoves DEF Answer, AccStages
  <2>2. \A t \in accOwn[r].shows \cap Session : t \in sessions.made BY DEF AllAt, ShowsAt, Session
  <2>3. /\ sessions' \in [made : SUBSET Session, verified : SUBSET Session]
        /\ sessions'.verified \subseteq sessions'.made
    BY <1>15, <2>2 DEF Answer
  <2> QED BY <1>15, <2>1, <2>3 DEF Answer
<1>16. CASE RedisFlips
  <2>1. accOutages' \in 0..AccMaxOutages BY <1>16, AccountConstants DEF RedisFlips
  <2> QED BY <1>16, <2>1 DEF RedisFlips
<1>17. CASE UNCHANGED accVars BY <1>17 DEF accVars
<1> QED BY <1>1, <1>2, <1>3, <1>4, <1>5, <1>6, <1>7, <1>8, <1>9, <1>10, <1>11, <1>12, <1>13,
           <1>14, <1>15, <1>16, <1>17 DEF AccNext
-----------------------------------------------------------------------------
\* What every request leaves to the others.
Alone(r) == \A q \in AccRequest \ {r} :
    accStage'[q] = accStage[q] /\ accOwn'[q] = accOwn[q] /\ before'[q] = before[q]

Grown == /\ blacklist \subseteq blacklist' /\ blind \subseteq blind' /\ stale \subseteq stale'
         /\ sessions.made \subseteq sessions'.made /\ sessions.verified \subseteq sessions'.verified

LEMMA OthersKept ==
    ASSUME AccInv, NEW r \in AccRequest, Alone(r), Grown, r \notin Over,
           (\E p \in stale' : AccKind[p] = "backup") \/ person'.codes \subseteq person.codes \cup CodesOf(r),
           AllAt(r)'
    PROVE  \A q \in AccRequest : AllAt(q)'
<1> SUFFICES ASSUME NEW q \in AccRequest \ {r} PROVE AllAt(q)' OBVIOUS
<1>1. AllAt(q) /\ AccTypeOK BY DEF AccInv
<1>2. accStage'[q] = accStage[q] /\ accOwn'[q] = accOwn[q] /\ before'[q] = before[q] BY DEF Alone
<1>3. Over \subseteq Over' /\ (q \in Over' => q \in Over) BY <1>2 DEF Over, Alone
<1>4. PlacedAt(q)' BY <1>1, <1>2 DEF AllAt, PlacedAt
<1>5. ShowsAt(q)' BY <1>1, <1>2, <1>3 DEF AllAt, ShowsAt, Grown, CodesOf
<1>6. OrderAt(q)' BY <1>1, <1>2, <1>3 DEF AllAt, OrderAt
<1>7. NotedAt(q)'
  <2>1. q \in Over' /\ AccKind[q] = "backup" /\ (\A p \in stale' : AccKind[p] # "backup")
            => accOwn'[q].shows \cap person'.codes = {}
    <3> SUFFICES ASSUME q \in Over', AccKind[q] = "backup", \A p \in stale' : AccKind[p] # "backup",
                        NEW t \in accOwn'[q].shows \cap person'.codes
                 PROVE FALSE
      OBVIOUS
    <3>1. accOwn[q].shows \cap person.codes = {} BY <1>1, <1>3 DEF AllAt, NotedAt, Grown
    <3>2. t \in CodesOf(r) BY <3>1, <1>2
    <3>3. PICK p \in Over : t \in CodesOf(p) BY <1>1, <1>2, <3>2 DEF AllAt, ShowsAt, CodesOf
    <3> QED BY <3>2, <3>3 DEF CodesOf, Over
  <2> QED BY <1>1, <1>2, <1>3, <2>1 DEF AllAt, NotedAt, Grown
<1>8. PendingAt(q)' BY <1>1, <1>2 DEF AllAt, PendingAt, CodesOf
<1>9. SpentAt(q)'
  <2>1. \A p \in before[q] : accOwn'[p] = accOwn[p]
    BY <1>1, <1>2 DEF AllAt, OrderAt, Over, Alone
  <2> QED BY <1>1, <1>2, <2>1 DEF AllAt, SpentAt, Grown
<1> QED BY <1>4, <1>5, <1>6, <1>7, <1>8, <1>9 DEF AllAt

\* A request that goes on and shows nothing new.
LEMMA GoesOn ==
    ASSUME AccInv, NEW r \in AccRequest, Alone(r), Grown, r \notin Over, accStage[r] \notin {"new", "failed"},
           accStage'[r] # "new", accOwn'[r].shows = accOwn[r].shows, before'[r] = before[r]
    PROVE  ShowsAt(r)' /\ OrderAt(r)' /\ SpentAt(r)'
<1>1. AllAt(r) /\ AccTypeOK BY DEF AccInv
<1>2. Over \subseteq Over' BY DEF Over, Alone
<1>3. \A q \in before[r] : accOwn'[q] = accOwn[q] BY <1>1 DEF AllAt, OrderAt, Over, Alone
<1>4. ShowsAt(r)' BY <1>1, <1>2 DEF AllAt, ShowsAt, Grown, CodesOf
<1>5. OrderAt(r)' BY <1>1, <1>2 DEF AllAt, OrderAt
<1>6. SpentAt(r)' BY <1>1, <1>3 DEF AllAt, SpentAt, Grown
<1> QED BY <1>4, <1>5, <1>6

\* A request that begins with nothing to show.
LEMMA BeginsBare ==
    ASSUME AccInv, NEW r \in AccRequest, Alone(r), Began(r), accStage[r] = "new", accStage'[r] # "new",
           UNCHANGED accOwn
    PROVE  ShowsAt(r)' /\ OrderAt(r)' /\ SpentAt(r)'
<1>1. accOwn'[r].shows = {} BY DEF AccInv, AllAt, OrderAt
<1>2. Over \subseteq Over' BY DEF Over, Alone
<1>3. before'[r] = {q \in Over : AccKind[q] \in Spending} BY DEF Began, AccInv, AccTypeOK
<1>4. OrderAt(r)' BY <1>2, <1>3 DEF OrderAt
<1> QED BY <1>1, <1>4 DEF ShowsAt, SpentAt

\* What a request that begins finds noted of those that are over.
LEMMA FoundNoted ==
    ASSUME AccInv, NEW r \in AccRequest, Alone(r), Began(r), accStage[r] = "new", accStage'[r] # "new"
    PROVE  /\ OrderAt(r)'
           /\ \A q \in before'[r] : q \in Over /\ q # r /\ accOwn'[q] = accOwn[q] /\ AllAt(q)
<1>2. Over \subseteq Over' /\ r \notin Over BY DEF Over, Alone
<1>3. before'[r] = {q \in Over : AccKind[q] \in Spending} BY DEF Began, AccInv, AccTypeOK
<1>4. OrderAt(r)' BY <1>2, <1>3 DEF OrderAt
<1>5. \A q \in before'[r] : q \in Over /\ q # r /\ accOwn'[q] = accOwn[q] /\ AllAt(q)
  BY <1>2, <1>3 DEF Alone, AccInv, Over
<1> QED BY <1>4, <1>5
-----------------------------------------------------------------------------
\* One step of a request keeps what holds of it and of the account.
LEMMA StepKeeps ==
    ASSUME AccInv, [AccNext]_accVars, NEW r \in AccRequest, Alone(r), Grown, r \notin Over,
           (\E p \in stale' : AccKind[p] = "backup") \/ person'.codes \subseteq person.codes \cup CodesOf(r),
           AllAt(r)', EnabledHasSecret'
    PROVE  AccInv'
BY OthersKept, AccTypeKept DEF AccInv

LEMMA AccKept == ASSUME AccInv, [AccNext]_accVars PROVE AccInv'
<1> USE DEF AccAt
<1>t. AccTypeOK /\ EnabledHasSecret /\ \A r \in AccRequest : AllAt(r) BY DEF AccInv
<1>a. /\ \A r \in AccRequest, s \in AccStages : AccTo(r, s) =>
            accStage'[r] = s /\ \A q \in AccRequest \ {r} : accStage'[q] = accStage[q]
      /\ \A r \in AccRequest : Began(r) => \A q \in AccRequest \ {r} : before'[q] = before[q]
  BY <1>t DEF AccTypeOK, AccTo, Began
<1>1. ASSUME NEW r \in AccRequest, RegisterLook(r) PROVE AccInv'
  <2>1. /\ accStage'[r] \in {"failed", "look"} /\ accStage[r] = "new" /\ AccKind[r] = "register"
        /\ Alone(r) /\ Grown /\ Began(r) /\ UNCHANGED <<person, stale, accOwn>>
    BY <1>1, <1>a DEF RegisterLook, AccStages, Alone, Grown
  <2>2. ShowsAt(r)' /\ OrderAt(r)' /\ SpentAt(r)' BY <2>1, BeginsBare
  <2>3. PlacedAt(r)' /\ NotedAt(r)' /\ PendingAt(r)' BY <2>1 DEF PlacedAt, NotedAt, PendingAt, Over
  <2>4. EnabledHasSecret' BY <2>1, <1>t DEF EnabledHasSecret
  <2>5. r \notin Over BY <2>1 DEF Over
  <2>6. AllAt(r)' BY <2>2, <2>3 DEF AllAt
  <2>7. person'.codes \subseteq person.codes \cup CodesOf(r) BY <2>1
  <2> QED BY <2>1, <2>4, <2>5, <2>6, <2>7, StepKeeps
<1>2. ASSUME NEW r \in AccRequest, Register(r) PROVE AccInv'
  <2>1. /\ accStage'[r] \in {"failed", "done"} /\ accStage[r] = "look" /\ AccKind[r] = "register"
        /\ Alone(r) /\ Grown /\ UNCHANGED <<stale, accOwn, before>>
    BY <1>2, <1>a DEF Register, AccStages, Alone, Grown
  <2>2. ShowsAt(r)' /\ OrderAt(r)' /\ SpentAt(r)' BY <2>1, GoesOn DEF Over
  <2>3. PlacedAt(r)' /\ NotedAt(r)' /\ PendingAt(r)' BY <2>1 DEF PlacedAt, NotedAt, PendingAt, Over
  <2>7. person'.codes = person.codes /\ person'.secret = person.secret /\ person'.enabled = person.enabled
    BY <1>2, <1>t DEF Register, AccTypeOK, Person
  <2>4. EnabledHasSecret' BY <2>1, <2>7, <1>t DEF EnabledHasSecret
  <2>5. r \notin Over BY <2>1 DEF Over
  <2>6. AllAt(r)' BY <2>2, <2>3 DEF AllAt
  <2> QED BY <2>1, <2>4, <2>5, <2>6, <2>7, StepKeeps
<1>3. ASSUME NEW r \in AccRequest, Login(r) PROVE AccInv'
  <2>1. /\ accStage'[r] \in {"failed", "half", "done"} /\ accStage[r] = "new" /\ AccKind[r] = "login"
        /\ Alone(r) /\ Grown /\ Began(r) /\ UNCHANGED <<person, stale, accOwn>>
    BY <1>3, <1>a DEF Login, AccStages, Alone, Grown
  <2>2. ShowsAt(r)' /\ OrderAt(r)' /\ SpentAt(r)' BY <2>1, BeginsBare
  <2>3. PlacedAt(r)' /\ NotedAt(r)' /\ PendingAt(r)' BY <2>1 DEF PlacedAt, NotedAt, PendingAt, Over
  <2>4. EnabledHasSecret' BY <2>1, <1>t DEF EnabledHasSecret
  <2>5. r \notin Over BY <2>1 DEF Over
  <2>6. AllAt(r)' BY <2>2, <2>3 DEF AllAt
  <2>7. person'.codes \subseteq person.codes \cup CodesOf(r) BY <2>1
  <2> QED BY <2>1, <2>4, <2>5, <2>6, <2>7, StepKeeps
<1>4. ASSUME NEW r \in AccRequest, LoginTotp(r) PROVE AccInv'
  <2>1. /\ accStage'[r] \in {"failed", "done"} /\ accStage[r] = "new" /\ AccKind[r] = "totp"
        /\ Alone(r) /\ Grown /\ Began(r) /\ UNCHANGED <<person, stale, accOwn>>
    BY <1>4, <1>a DEF LoginTotp, AccStages, Alone, Grown
  <2>2. ShowsAt(r)' /\ OrderAt(r)' /\ SpentAt(r)' BY <2>1, BeginsBare
  <2>3. PlacedAt(r)' /\ NotedAt(r)' /\ PendingAt(r)' BY <2>1 DEF PlacedAt, NotedAt, PendingAt, Over
  <2>4. EnabledHasSecret' BY <2>1, <1>t DEF EnabledHasSecret
  <2>5. r \notin Over BY <2>1 DEF Over
  <2>6. AllAt(r)' BY <2>2, <2>3 DEF AllAt
  <2>7. person'.codes \subseteq person.codes \cup CodesOf(r) BY <2>1
  <2> QED BY <2>1, <2>4, <2>5, <2>6, <2>7, StepKeeps
<1>5. ASSUME NEW r \in AccRequest, LoadCodes(r) PROVE AccInv'
  <2>1. /\ accStage'[r] \in {"failed", "save"} /\ accStage[r] = "new" /\ AccKind[r] = "backup"
        /\ Alone(r) /\ Grown /\ Began(r) /\ UNCHANGED <<person, stale>>
    <3>1. /\ accStage'[r] \in {"failed", "save"} /\ accStage[r] = "new" /\ AccKind[r] = "backup"
          /\ \A q \in AccRequest \ {r} : accStage'[q] = accStage[q] /\ before'[q] = before[q]
          /\ Grown /\ Began(r) /\ UNCHANGED <<person, stale>>
      BY <1>5, <1>a DEF LoadCodes, AccStages, Grown
    <3>2. \A q \in AccRequest \ {r} : accOwn'[q] = accOwn[q] BY <1>5, <1>t DEF LoadCodes, Loads, AccTypeOK
    <3> QED BY <3>1, <3>2 DEF Alone
  <2>2. OrderAt(r)' /\ \A q \in before'[r] : q \in Over /\ q # r /\ accOwn'[q] = accOwn[q] /\ AllAt(q)
    BY <2>1, FoundNoted
  <2>3. ShowsAt(r)' /\ PendingAt(r)' /\ SpentAt(r)'
    <3>1. CASE UNCHANGED accOwn /\ accStage'[r] = "failed"
      <4>1. accOwn'[r].shows = {} BY <3>1, <2>1, <1>t DEF AllAt, OrderAt
      <4> QED BY <3>1, <4>1 DEF ShowsAt, PendingAt, SpentAt
    <3>2. CASE \E q \in Over : \E c \in CodesOf(q) :
                 /\ AccKind[q] = "regenerate" /\ c \in person.codes /\ accStage'[r] = "save"
                 /\ Loads(r, [person EXCEPT !.codes = @ \ {c}], {c})
      <4>1. PICK q \in Over : \E c \in CodesOf(q) :
                 /\ AccKind[q] = "regenerate" /\ c \in person.codes /\ accStage'[r] = "save"
                 /\ Loads(r, [person EXCEPT !.codes = @ \ {c}], {c})
        BY <3>2
      <4>2. PICK c \in CodesOf(q) :
                 /\ AccKind[q] = "regenerate" /\ c \in person.codes /\ accStage'[r] = "save"
                 /\ Loads(r, [person EXCEPT !.codes = @ \ {c}], {c})
        BY <4>1
      <4> DEFINE new == [person EXCEPT !.codes = @ \ {c}]
      <4>3. c[1] = "code" /\ c \in Code /\ q \in Over' BY <2>1 DEF CodesOf, Over, Alone, Code
      <4>4. new \in Person /\ new.codes = person.codes \ {c} /\ new.secret = person.secret /\ new.enabled = person.enabled
        BY <1>t DEF AccTypeOK, Person
      <4>5. accOwn'[r] = [shows |-> {c}, loaded |-> person, changed |-> new]
        <5> DEFINE given == {c}
        <5>1. Loads(r, new, given) /\ given \in SUBSET (Token \cup Code \cup Session) BY <4>2, <4>3
        <5> HIDE DEF new, given
        <5>2. accOwn'[r] = [shows |-> given, loaded |-> person, changed |-> new]
          BY <5>1, <4>4, <1>t, AccHolds
        <5> QED BY <5>2 DEF given
      <4> HIDE DEF new
      <4>6. ShowsAt(r)' BY <4>2, <4>3, <4>5, <2>1 DEF ShowsAt
      <4>7. PendingAt(r)' BY <4>4, <4>5, <2>1 DEF PendingAt
      <4>8. SpentAt(r)'
        <5> SUFFICES ASSUME NEW p \in before'[r], c \in accOwn'[p].shows, \A s \in stale : AccKind[s] # "backup"
                     PROVE FALSE
          BY <4>3, <4>5, <2>1 DEF SpentAt
        <5>1. p \in Over /\ AllAt(p) /\ c \in accOwn[p].shows BY <2>2
        <5>2. AccKind[p] = "backup" BY <5>1, <4>3 DEF AllAt, ShowsAt
        <5> QED BY <5>1, <5>2, <4>2 DEF AllAt, NotedAt
      <4> QED BY <4>6, <4>7, <4>8
    <3>3. \/ UNCHANGED accOwn /\ accStage'[r] = "failed"
          \/ \E q \in Over : \E c \in CodesOf(q) :
                 /\ AccKind[q] = "regenerate" /\ c \in person.codes /\ accStage'[r] = "save"
                 /\ Loads(r, [person EXCEPT !.codes = @ \ {c}], {c})
      BY <1>5, <1>a DEF LoadCodes, AccStages
    <3> QED BY <3>1, <3>2, <3>3
  <2>4. PlacedAt(r)' /\ NotedAt(r)' BY <2>1 DEF PlacedAt, NotedAt, Over
  <2>5. EnabledHasSecret' BY <2>1, <1>t DEF EnabledHasSecret
  <2>6. r \notin Over /\ person'.codes \subseteq person.codes \cup CodesOf(r) BY <2>1 DEF Over
  <2>7. AllAt(r)' BY <2>2, <2>3, <2>4 DEF AllAt
  <2> QED BY <2>1, <2>5, <2>6, <2>7, StepKeeps
<1>6. ASSUME NEW r \in AccRequest, CheckToken(r) PROVE AccInv'
  <2> DEFINE name == IF AccKind[r] = "refresh" THEN "refresh" ELSE "access"
  <2>1. /\ accStage[r] = "new" /\ AccKind[r] \in BearerKind \cup {"refresh"} /\ Began(r)
        /\ UNCHANGED <<person, sessions, blacklist, stale>>
        /\ \E q \in Issuers : Refused(r, <<name, q, 0>>) /\ accOwn' = [accOwn EXCEPT ![r].shows = {<<name, q, 0>>}]
    BY <1>6 DEF CheckToken
  <2>2. PICK q \in Issuers : Refused(r, <<name, q, 0>>) /\ accOwn' = [accOwn EXCEPT ![r].shows = {<<name, q, 0>>}]
    BY <2>1
  <2>3. accOwn'[r].shows = {<<name, q, 0>>} /\ \A p \in AccRequest \ {r} : accOwn'[p] = accOwn[p]
    BY <2>2, <1>t DEF AccTypeOK, Holding
  <2>4. name \in {"refresh", "access"} /\ (name = "refresh" <=> AccKind[r] = "refresh") OBVIOUS
  <2> HIDE DEF name
  <2>5. /\ accStage'[r] \in {"failed", "load"} /\ \A p \in AccRequest \ {r} : accStage'[p] = accStage[p]
        /\ blind \subseteq blind'
        /\ accStage'[r] = "failed" \/ r \in blind' \/ <<name, q, 0>> \notin blacklist
    BY <2>2, <1>t DEF Refused, AccTypeOK
  <2>6. Alone(r) /\ Grown BY <2>1, <2>3, <2>5, <1>a DEF Alone, Grown
  <2>7. OrderAt(r)' /\ \A p \in before'[r] : p \in Over /\ p # r /\ accOwn'[p] = accOwn[p] /\ AllAt(p)
    BY <2>1, <2>5, <2>6, FoundNoted
  <2>8. ShowsAt(r)' BY <2>1, <2>3, <2>4 DEF ShowsAt
  <2>9. SpentAt(r)'
    <3> DEFINE t == <<name, q, 0>>
    <3>1. t[1] = name OBVIOUS
    <3> SUFFICES ASSUME NEW p \in before'[r], t \in accOwn'[p].shows, accStage'[r] # "failed",
                        name = "access" => AccKind[p] = "logout", r \notin blind', p \notin blind'
                 PROVE FALSE
      <4>1. ASSUME NEW p \in before'[r], t \in accOwn'[p].shows
            PROVE  \/ accStage'[r] = "failed"
                   \/ name = "access" /\ (AccKind[p] = "logout" => {r, p} \cap blind' # {})
                   \/ name = "refresh" /\ {r, p} \cap blind' # {}
        BY <4>1, <2>4
      <4> HIDE DEF t
      <4> QED BY <4>1, <3>1, <2>3 DEF SpentAt, t
    <3>2. p \in Over /\ AllAt(p) /\ t \in accOwn[p].shows /\ p \notin blind BY <2>7, <2>5
    <3>3. AccKind[p] \in {"refresh", "logout"} BY <3>1, <3>2, <2>4 DEF AllAt, ShowsAt
    <3> QED BY <3>2, <3>3, <2>5 DEF AllAt, NotedAt
  <2>10. PlacedAt(r)' /\ NotedAt(r)' /\ PendingAt(r)' BY <2>1, <2>5 DEF PlacedAt, NotedAt, PendingAt, Over
  <2>11. EnabledHasSecret' BY <2>1, <1>t DEF EnabledHasSecret
  <2>12. r \notin Over /\ person'.codes \subseteq person.codes \cup CodesOf(r) BY <2>1 DEF Over
  <2>13. AllAt(r)' BY <2>7, <2>8, <2>9, <2>10 DEF AllAt
  <2> QED BY <2>6, <2>11, <2>12, <2>13, StepKeeps
<1>7. ASSUME NEW r \in AccRequest, LoadRefresh(r) PROVE AccInv'
  <2>1. /\ accStage'[r] \in {"failed", "rotate"} /\ accStage[r] = "load" /\ AccKind[r] = "refresh"
        /\ Alone(r) /\ Grown /\ UNCHANGED <<person, stale, accOwn, before>>
    BY <1>7, <1>a DEF LoadRefresh, AccStages, Alone, Grown
  <2>2. ShowsAt(r)' /\ OrderAt(r)' /\ SpentAt(r)' BY <2>1, GoesOn DEF Over
  <2>3. PlacedAt(r)' /\ NotedAt(r)' /\ PendingAt(r)' BY <2>1 DEF PlacedAt, NotedAt, PendingAt, Over
  <2>4. EnabledHasSecret' BY <2>1, <1>t DEF EnabledHasSecret
  <2>5. r \notin Over /\ person'.codes \subseteq person.codes \cup CodesOf(r) BY <2>1 DEF Over
  <2>6. AllAt(r)' BY <2>2, <2>3 DEF AllAt
  <2> QED BY <2>1, <2>4, <2>5, <2>6, StepKeeps
<1>8. ASSUME NEW r \in AccRequest, Rotate(r) PROVE AccInv'
  <2>1. /\ accStage'[r] = "done" /\ accStage[r] = "rotate" /\ AccKind[r] = "refresh"
        /\ Alone(r) /\ Grown /\ UNCHANGED <<person, stale, accOwn, before>>
        /\ r \in blind' \/ accOwn[r].shows \subseteq blacklist'
    BY <1>8, <1>a DEF Rotate, AccStages, Alone, Grown, Blacklist
  <2>2. ShowsAt(r)' /\ OrderAt(r)' /\ SpentAt(r)' BY <2>1, GoesOn DEF Over
  <2>3. PlacedAt(r)' /\ NotedAt(r)' /\ PendingAt(r)' BY <2>1 DEF PlacedAt, NotedAt, PendingAt, Over
  <2>4. EnabledHasSecret' BY <2>1, <1>t DEF EnabledHasSecret
  <2>5. r \notin Over /\ person'.codes \subseteq person.codes \cup CodesOf(r) BY <2>1 DEF Over
  <2>6. AllAt(r)' BY <2>2, <2>3 DEF AllAt
  <2> QED BY <2>1, <2>4, <2>5, <2>6, StepKeeps
<1>9. ASSUME NEW r \in AccRequest, LogoutAccess(r) PROVE AccInv'
  <2>1. /\ accStage[r] = "new" /\ AccKind[r] = "logout" /\ Began(r)
        /\ UNCHANGED <<person, sessions, stale>>
        /\ \E q \in Issuers :
            /\ Blacklist(r, {<<"access", q, 0>>})
            /\ \/ accStage'[r] = "done" /\ accOwn' = [accOwn EXCEPT ![r].shows = {<<"access", q, 0>>}]
               \/ /\ accStage'[r] = "logout"
                  /\ accOwn' = [accOwn EXCEPT ![r].shows = {<<"access", q, 0>>, <<"refresh", q, 0>>}]
        /\ \A q \in AccRequest \ {r} : accStage'[q] = accStage[q]
    BY <1>9, <1>a DEF LogoutAccess, AccStages
  <2>2. PICK q \in Issuers :
            /\ Blacklist(r, {<<"access", q, 0>>})
            /\ \/ accStage'[r] = "done" /\ accOwn' = [accOwn EXCEPT ![r].shows = {<<"access", q, 0>>}]
               \/ /\ accStage'[r] = "logout"
                  /\ accOwn' = [accOwn EXCEPT ![r].shows = {<<"access", q, 0>>, <<"refresh", q, 0>>}]
    BY <2>1
  <2> DEFINE a == <<"access", q, 0>>
             f == <<"refresh", q, 0>>
  <2>3. /\ \A p \in AccRequest \ {r} : accOwn'[p] = accOwn[p]
        /\ \/ accStage'[r] = "done" /\ accOwn'[r].shows = {a}
           \/ accStage'[r] = "logout" /\ accOwn'[r].shows = {a, f}
    BY <2>2, <1>t DEF AccTypeOK, Holding
  <2>4. a[1] = "access" /\ f[1] = "refresh" OBVIOUS
  <2>5. blind \subseteq blind' /\ blacklist \subseteq blacklist' /\ (r \in blind' \/ a \in blacklist')
    BY <2>2 DEF Blacklist
  <2> HIDE DEF a, f
  <2>6. Alone(r) /\ Grown BY <2>1, <2>3, <2>5, <1>a DEF Alone, Grown
  <2>7. OrderAt(r)' BY <2>1, <2>3, <2>6, FoundNoted
  <2>8. ShowsAt(r)' BY <2>1, <2>3, <2>4 DEF ShowsAt
  <2>9. SpentAt(r)' BY <2>1, <2>3, <2>4 DEF SpentAt
  <2>10. NotedAt(r)' BY <2>1, <2>3, <2>4, <2>5 DEF NotedAt, Over
  <2>11. PlacedAt(r)' /\ PendingAt(r)' BY <2>1, <2>3 DEF PlacedAt, PendingAt
  <2>12. EnabledHasSecret' BY <2>1, <1>t DEF EnabledHasSecret
  <2>13. r \notin Over /\ person'.codes \subseteq person.codes \cup CodesOf(r) BY <2>1 DEF Over
  <2>14. AllAt(r)' BY <2>7, <2>8, <2>9, <2>10, <2>11 DEF AllAt
  <2> QED BY <2>6, <2>12, <2>13, <2>14, StepKeeps
<1>10. ASSUME NEW r \in AccRequest, LogoutRefresh(r) PROVE AccInv'
  <2>1. /\ accStage'[r] = "done" /\ accStage[r] = "logout" /\ AccKind[r] = "logout"
        /\ Alone(r) /\ Grown /\ UNCHANGED <<person, stale, accOwn, before>>
        /\ r \in blind' \/ {t \in accOwn[r].shows : t[1] = "refresh"} \subseteq blacklist'
    BY <1>10, <1>a DEF LogoutRefresh, AccStages, Alone, Grown, Blacklist
  <2>2. ShowsAt(r)' /\ OrderAt(r)' /\ SpentAt(r)' BY <2>1, GoesOn DEF Over
  <2>3. NotedAt(r)'
    <3>1. r \notin blind' => \A t \in accOwn[r].shows : t[1] = "access" => t \in blacklist'
      BY <2>1, <1>t DEF AllAt, NotedAt, Grown
    <3>2. \A t \in accOwn[r].shows : t[1] \in {"access", "refresh"}
      <4>1. \A t \in accOwn[r].shows : t \in Token \cup Code \cup Session BY <1>t DEF AccTypeOK, Holding
      <4> QED BY <4>1, <2>1, <1>t DEF AllAt, ShowsAt, Token, Code, Session
    <3> QED BY <2>1, <3>1, <3>2 DEF NotedAt
  <2>a. PlacedAt(r)' /\ PendingAt(r)' BY <2>1 DEF PlacedAt, PendingAt
  <2>4. EnabledHasSecret' BY <2>1, <1>t DEF EnabledHasSecret
  <2>5. r \notin Over /\ person'.codes \subseteq person.codes \cup CodesOf(r) BY <2>1 DEF Over
  <2>6. AllAt(r)' BY <2>2, <2>3, <2>a DEF AllAt
  <2> QED BY <2>1, <2>4, <2>5, <2>6, StepKeeps
<1>11. ASSUME NEW r \in AccRequest, LoadUser(r) PROVE AccInv'
  <2>1. /\ accStage'[r] \in {"failed", "save"} /\ accStage[r] = "load" /\ AccKind[r] \in SettingKind
        /\ \A q \in AccRequest \ {r} : accStage'[q] = accStage[q]
        /\ Grown /\ UNCHANGED <<person, stale, before>>
        /\ \/ UNCHANGED accOwn /\ accStage'[r] = "failed"
           \/ Guarded(r) /\ Loads(r, Changes(r), accOwn[r].shows)
    BY <1>11, <1>a DEF LoadUser, AccStages, Grown
  <2>2. accOwn[r].shows \in SUBSET (Token \cup Code \cup Session) /\ person \in Person
    BY <1>t DEF AccTypeOK, Holding
  <2> DEFINE given == accOwn[r].shows
             changed == Changes(r)
  <2>3. Loads(r, changed, given) => accOwn'[r] = [shows |-> given, loaded |-> person, changed |-> changed]
    <3>1. changed \in Person BY <2>2, ChangedPerson
    <3>2. given \in SUBSET (Token \cup Code \cup Session) BY <2>2
    <3> HIDE DEF changed, given
    <3> QED BY <3>1, <3>2, <1>t, AccHolds
  <2>4. accOwn'[r].shows = accOwn[r].shows /\ \A q \in AccRequest \ {r} : accOwn'[q] = accOwn[q]
    BY <2>1, <2>3, <1>t DEF Loads, AccTypeOK
  <2>5. Alone(r) BY <2>1, <2>4 DEF Alone
  <2>6. ShowsAt(r)' /\ OrderAt(r)' /\ SpentAt(r)' BY <2>1, <2>4, <2>5, GoesOn DEF Over
  <2>7. PendingAt(r)'
    <3>1. CASE accStage'[r] = "failed" BY <3>1 DEF PendingAt
    <3>2. CASE Guarded(r) /\ Loads(r, changed, given)
      <4>1. /\ AccKind[r] = "setup" => changed.secret # {} /\ changed.enabled = person.enabled
            /\ AccKind[r] = "verify" => changed.enabled /\ changed.secret = person.secret
            /\ AccKind[r] = "disable" => ~changed.enabled
            /\ AccKind[r] \notin {"setup", "verify", "disable"}
                => changed.secret = person.secret /\ changed.enabled = person.enabled
            /\ AccKind[r] = "regenerate" => changed.codes = CodesOf(r)
            /\ AccKind[r] # "regenerate" => changed.codes = person.codes
        BY <2>2, ChangedPerson
      <4>2. AccKind[r] = "verify" => person.secret # {} BY <3>2 DEF Guarded
      <4>3. AccKind[r] = "disable" => person.enabled BY <3>2 DEF Guarded
      <4>4. accOwn'[r] = [shows |-> given, loaded |-> person, changed |-> changed] BY <2>3, <3>2
      <4>5. CodesOf(r)' = CodesOf(r) BY DEF CodesOf
      <4>6. AccKind[r] # "backup" BY <2>1 DEF SettingKind
      <4> HIDE DEF changed, given
      <4> QED BY <4>1, <4>2, <4>3, <4>4, <4>5, <4>6 DEF PendingAt
    <3> QED BY <2>1, <3>1, <3>2
  <2>8. PlacedAt(r)' /\ NotedAt(r)' BY <2>1 DEF PlacedAt, NotedAt, Over
  <2>9. EnabledHasSecret' BY <2>1, <1>t DEF EnabledHasSecret
  <2>10. r \notin Over /\ person'.codes \subseteq person.codes \cup CodesOf(r) BY <2>1 DEF Over
  <2>11. AllAt(r)' BY <2>6, <2>7, <2>8 DEF AllAt
  <2> QED BY <2>1, <2>5, <2>9, <2>10, <2>11, StepKeeps
<1>12. ASSUME NEW r \in AccRequest, SaveUser(r) PROVE AccInv'
  <2>1. /\ accStage'[r] = "done" /\ accStage[r] = "save" /\ AccKind[r] \in SettingKind \cup {"backup"}
        /\ Alone(r) /\ Grown /\ UNCHANGED <<accOwn, before>> /\ person' = Saved(r)
        /\ r \in stale' \/ person = accOwn[r].loaded
    BY <1>12, <1>a DEF SaveUser, AccStages, Alone, Grown
  <2>2. ShowsAt(r)' /\ OrderAt(r)' /\ SpentAt(r)' BY <2>1, GoesOn DEF Over
  <2>3. /\ person'.enabled = IF accOwn[r].changed.enabled # accOwn[r].loaded.enabled
                             THEN accOwn[r].changed.enabled ELSE person.enabled
        /\ person'.secret = IF accOwn[r].changed.secret # accOwn[r].loaded.secret
                             THEN accOwn[r].changed.secret ELSE person.secret
        /\ person'.codes = IF accOwn[r].changed.codes # accOwn[r].loaded.codes
                             THEN accOwn[r].changed.codes ELSE person.codes
    BY <2>1, <1>t, SavedPerson DEF AccTypeOK, Holding
  <2>4. PendingAt(r) BY <1>t DEF AllAt
  <2>5. NotedAt(r)'
    <3>1. AccKind[r] = "backup" /\ r \notin stale' => accOwn[r].shows \cap person'.codes = {}
      BY <2>1, <2>3, <2>4 DEF PendingAt
    <3> QED BY <2>1, <3>1 DEF NotedAt, SettingKind
  <2>6. PlacedAt(r)' /\ PendingAt(r)' BY <2>1 DEF PlacedAt, PendingAt
  <2>7. r \notin Over BY <2>1 DEF Over
  <2>8. (\E p \in stale' : AccKind[p] = "backup") \/ person'.codes \subseteq person.codes \cup CodesOf(r)
    <3>1. CASE r \in stale' /\ AccKind[r] = "backup" BY <3>1
    <3>2. CASE AccKind[r] # "backup" BY <3>2, <2>1, <2>3, <2>4 DEF PendingAt
    <3>3. CASE person = accOwn[r].loaded /\ AccKind[r] = "backup" BY <3>3, <2>1, <2>3, <2>4 DEF PendingAt
    <3> QED BY <2>1, <3>1, <3>2, <3>3
  <2>9. EnabledHasSecret'
    <3> SUFFICES ASSUME person'.enabled, person'.secret = {}, \A q \in stale' : AccKind[q] # "verify"
                 PROVE FALSE
      BY DEF EnabledHasSecret
    <3>1. ~(person.enabled /\ person.secret = {}) BY <1>t, <2>1 DEF EnabledHasSecret, Grown
    <3>2. CASE AccKind[r] = "setup" BY <3>1, <3>2, <2>1, <2>3, <2>4 DEF PendingAt
    <3>3. CASE AccKind[r] = "verify" BY <3>3, <2>1, <2>3, <2>4 DEF PendingAt
    <3>4. CASE AccKind[r] = "disable" BY <3>1, <3>4, <2>1, <2>3, <2>4 DEF PendingAt
    <3>5. CASE AccKind[r] \notin {"setup", "verify", "disable"}
      BY <3>1, <3>5, <2>1, <2>3, <2>4 DEF PendingAt
    <3> QED BY <3>2, <3>3, <3>4, <3>5
  <2>10. AllAt(r)' BY <2>2, <2>5, <2>6 DEF AllAt
  <2> QED BY <2>1, <2>7, <2>8, <2>9, <2>10, StepKeeps
<1>13. ASSUME NEW r \in AccRequest, RequestChallenge(r) PROVE AccInv'
  <2>1. /\ accStage'[r] = "done" /\ accStage[r] = "load" /\ AccKind[r] = "challenge"
        /\ Alone(r) /\ UNCHANGED <<person, stale, accOwn, before>>
    BY <1>13, <1>a DEF RequestChallenge, AccStages, Alone
  <2>a. Grown BY <1>13, <1>t DEF RequestChallenge, AccTypeOK, Grown
  <2>2. ShowsAt(r)' /\ OrderAt(r)' /\ SpentAt(r)' BY <2>1, <2>a, GoesOn DEF Over
  <2>3. PlacedAt(r)' /\ NotedAt(r)' /\ PendingAt(r)' BY <2>1 DEF PlacedAt, NotedAt, PendingAt, Over
  <2>4. EnabledHasSecret' BY <2>1, <1>t DEF EnabledHasSecret
  <2>5. r \notin Over /\ person'.codes \subseteq person.codes \cup CodesOf(r) BY <2>1 DEF Over
  <2>6. AllAt(r)' BY <2>2, <2>3 DEF AllAt
  <2> QED BY <2>1, <2>a, <2>4, <2>5, <2>6, StepKeeps
<1>14. ASSUME NEW r \in AccRequest, LoadSession(r) PROVE AccInv'
  <2>1. /\ accStage'[r] \in {"failed", "save"} /\ accStage[r] = "load" /\ AccKind[r] = "answer"
        /\ \A q \in AccRequest \ {r} : accStage'[q] = accStage[q]
        /\ Grown /\ UNCHANGED <<person, sessions, stale, before, blind>>
        /\ \/ UNCHANGED accOwn /\ accStage'[r] = "failed"
           \/ \E c \in sessions.made : c \notin sessions.verified /\ Loads(r, person, accOwn[r].shows \cup {c})
    BY <1>14, <1>a DEF LoadSession, AccStages, Grown
  <2>2. CASE UNCHANGED accOwn /\ accStage'[r] = "failed"
    <3>1. Alone(r) BY <2>1, <2>2 DEF Alone
    <3>2. ShowsAt(r)' /\ OrderAt(r)' /\ SpentAt(r)' BY <2>1, <2>2, <3>1, GoesOn DEF Over
    <3>3. PlacedAt(r)' /\ NotedAt(r)' /\ PendingAt(r)' BY <2>2 DEF PlacedAt, NotedAt, PendingAt, Over
    <3>4. EnabledHasSecret' BY <2>1, <1>t DEF EnabledHasSecret
    <3>5. r \notin Over /\ person'.codes \subseteq person.codes \cup CodesOf(r) BY <2>1 DEF Over
    <3>6. AllAt(r)' BY <3>2, <3>3 DEF AllAt
    <3> QED BY <2>1, <3>1, <3>4, <3>5, <3>6, StepKeeps
  <2>3. CASE \E c \in sessions.made : c \notin sessions.verified /\ Loads(r, person, accOwn[r].shows \cup {c})
    <3>1. PICK c \in sessions.made : c \notin sessions.verified /\ Loads(r, person, accOwn[r].shows \cup {c})
      BY <2>3
    <3> DEFINE given == accOwn[r].shows \cup {c}
    <3>2. c \in Session /\ c[1] \in {"totp", "fido"} BY <1>t DEF AccTypeOK, Session
    <3>3. given \in SUBSET (Token \cup Code \cup Session) /\ person \in Person BY <3>2, <1>t DEF AccTypeOK, Holding
    <3>4. accOwn'[r] = [shows |-> given, loaded |-> person, changed |-> person]
      <4>1. Loads(r, person, given) BY <3>1
      <4> HIDE DEF given
      <4> QED BY <4>1, <3>3, <1>t, AccHolds
    <3>5. Alone(r)
      <4>1. \A q \in AccRequest \ {r} : accOwn'[q] = accOwn[q] BY <3>1, <1>t DEF Loads, AccTypeOK
      <4> QED BY <4>1, <2>1 DEF Alone
    <3>6. Over \subseteq Over' /\ r \notin Over BY <2>1, <3>5 DEF Over, Alone
    <3>7. AllAt(r) BY <1>t
    <3>8. ShowsAt(r)'
      <4>1. \A t \in accOwn[r].shows :
              /\ t[1] = "refresh" => AccKind[r] \in {"refresh", "logout"}
              /\ t[1] = "access" => AccKind[r] \in BearerKind \cup {"logout"}
              /\ t[1] = "code" => AccKind[r] = "backup" /\ \E p \in Over' : AccKind[p] = "regenerate" /\ t \in CodesOf(p)
              /\ t[1] \in {"totp", "fido"} => AccKind[r] = "answer" /\ t \in sessions'.made
        BY <3>6, <3>7, <2>1 DEF AllAt, ShowsAt
      <4>2. /\ c[1] \notin {"refresh", "access", "code"} /\ AccKind[r] = "answer" /\ c \in sessions'.made
        BY <3>2, <2>1
      <4>3. \A p : CodesOf(p)' = CodesOf(p) BY DEF CodesOf
      <4> QED BY <3>4, <4>1, <4>2, <4>3 DEF ShowsAt
    <3>9. OrderAt(r)' BY <3>6, <3>7, <2>1 DEF AllAt, OrderAt
    <3>10. SpentAt(r)'
      <4>1. \A q \in before[r] : q \in Over /\ q # r /\ accOwn'[q] = accOwn[q] /\ AllAt(q)
        BY <3>6, <3>7, <3>5, <1>t DEF AllAt, OrderAt, Alone, Over
      <4>2. \A q \in before[r] : c \notin accOwn[q].shows
        <5> SUFFICES ASSUME NEW q \in before[r], c \in accOwn[q].shows PROVE FALSE OBVIOUS
        <5>1. AccKind[q] = "answer" BY <4>1, <3>2 DEF AllAt, ShowsAt
        <5> QED BY <4>1, <5>1, <3>1, <3>2 DEF AllAt, NotedAt
      <4>3. \A q \in before[r] : accOwn'[r].shows \cap accOwn'[q].shows = accOwn[r].shows \cap accOwn[q].shows
        BY <4>1, <4>2, <3>4
      <4> QED BY <4>3, <3>7, <2>1 DEF AllAt, SpentAt
    <3>11. PendingAt(r)' BY <2>1, <3>4 DEF PendingAt
    <3>12. PlacedAt(r)' /\ NotedAt(r)' BY <2>1 DEF PlacedAt, NotedAt, Over
    <3>13. EnabledHasSecret' BY <2>1, <1>t DEF EnabledHasSecret
    <3>14. person'.codes \subseteq person.codes \cup CodesOf(r) BY <2>1
    <3>15. AllAt(r)' BY <3>8, <3>9, <3>10, <3>11, <3>12 DEF AllAt
    <3> QED BY <2>1, <3>5, <3>6, <3>13, <3>14, <3>15, StepKeeps
  <2> QED BY <2>1, <2>2, <2>3
<1>15. ASSUME NEW r \in AccRequest, Answer(r) PROVE AccInv'
  <2>1. /\ accStage'[r] = "done" /\ accStage[r] = "save" /\ AccKind[r] = "answer"
        /\ Alone(r) /\ UNCHANGED <<person, stale, accOwn, before>>
    BY <1>15, <1>a DEF Answer, AccStages, Alone
  <2>a. Grown /\ accOwn[r].shows \cap Session \subseteq sessions'.verified
    BY <1>15, <1>t DEF Answer, AccTypeOK, Grown
  <2>2. ShowsAt(r)' /\ OrderAt(r)' /\ SpentAt(r)' BY <2>1, <2>a, GoesOn DEF Over
  <2>b. Session' = Session BY DEF Session
  <2>3. PlacedAt(r)' /\ NotedAt(r)' /\ PendingAt(r)' BY <2>1, <2>a, <2>b DEF PlacedAt, NotedAt, PendingAt
  <2>4. EnabledHasSecret' BY <2>1, <1>t DEF EnabledHasSecret
  <2>5. r \notin Over /\ person'.codes \subseteq person.codes \cup CodesOf(r) BY <2>1 DEF Over
  <2>6. AllAt(r)' BY <2>2, <2>3 DEF AllAt
  <2> QED BY <2>1, <2>a, <2>4, <2>5, <2>6, StepKeeps
<1>16. CASE RedisFlips \/ UNCHANGED accVars
  <2>1. UNCHANGED <<person, sessions, blacklist, accStage, accOwn, before, blind, stale>>
    BY <1>16 DEF RedisFlips, accVars
  <2>2. EnabledHasSecret' BY <2>1, <1>t DEF EnabledHasSecret
  <2>3. ASSUME NEW r \in AccRequest PROVE AllAt(r)'
    BY <2>1, <1>t DEF AllAt, PlacedAt, ShowsAt, OrderAt, NotedAt, PendingAt, SpentAt, Over, CodesOf, Session
  <2> QED BY <2>2, <2>3, AccTypeKept DEF AccInv
<1> QED BY <1>1, <1>2, <1>3, <1>4, <1>5, <1>6, <1>7, <1>8, <1>9, <1>10, <1>11, <1>12, <1>13, <1>14,
           <1>15, <1>16 DEF AccNext

\* Every variable keeps its type.
THEOREM AccountTypeCorrect == AccSpec => []AccTypeOK
<1>1. AccInv => AccTypeOK BY DEF AccInv
<1> QED BY <1>1, AccBegins, AccKept, PTL DEF AccSpec

\* An account with its second factor on has a secret, and what is good for one
\* use is refused afterwards (totp_setup, totp_verify, totp_disable, refresh_token,
\* logout, login_with_backup_code, verify_challenge).
THEOREM CodesAreRight == AccSpec => []CodesHold
<1>1. AccInv => CodesHold BY DEF AccInv, AllAt, SpentAt, CodesHold, SpentStaysSpent
<1> QED BY <1>1, AccBegins, AccKept, PTL DEF AccSpec

-----------------------------------------------------------------------------
(***************************************************************************)
(* The passkeys, for any requests and devices                              *)
(***************************************************************************)

OnTheWay == {"signed", "popped", "save"}
Requests == Asking \cup Answering \cup Removing

LEMMA KeyMoves ==
    ASSUME keyStage \in [Requests -> KeyStages], NEW v \in Requests, NEW s \in KeyStages, KeyTo(v, s)
    PROVE  /\ keyStage' \in [Requests -> KeyStages] /\ keyStage'[v] = s
           /\ \A w \in Requests \ {v} : keyStage'[w] = keyStage[w]
BY DEF KeyTo

LEMMA Apart ==
    /\ \A a \in Asking, v \in Answering : a # v /\ a \in Requests /\ v \in Requests
    /\ \A a \in Asking, v \in Removing : a # v /\ v \in Requests
    /\ \A a \in Answering, v \in Removing : a # v
    /\ \A a \in Asking : Ceremony[a] \in Scope
BY PasskeyConstants DEF Requests, Scope

NoEntry == [is |-> {}, old |-> FALSE]

LEMMA Entries ==
    /\ NoEntry \in Entry
    /\ \A a \in Asking : [is |-> {a}, old |-> FALSE] \in Entry
    /\ \A e \in Entry : [e EXCEPT !.old = TRUE] \in Entry /\ [e EXCEPT !.old = TRUE].is = e.is
                        /\ e.is \subseteq Asking
BY DEF Entry, NoEntry

LEMMA Carries ==
    /\ NoAnswer \in Carried
    /\ \A a \in Asking, d \in Device, n \in Nat :
          LET c == [NoAnswer EXCEPT !.challenge = {a}, !.device = {d}, !.count = n]
          IN  /\ c \in Carried /\ c.challenge = {a} /\ c.device = {d} /\ c.count = n /\ c.popped = {}
BY DEF Carried, NoAnswer

-----------------------------------------------------------------------------
\* A challenge is in one of its places: shown and stored, in the hand of one
\* request that has popped it, or accepted from one.
Hand(v, a) == keyStage[v] \in {"popped", "save"} /\ a \in answer[v].popped
InRedis(a) == a \in remote[Ceremony[a]]
InProcess(a) == a \in local[Ceremony[a]].is

OnePlace(a) ==
    /\ keyStage[a] # "done" =>
          ~InRedis(a) /\ ~InProcess(a) /\ (\A v \in Answering : ~Hand(v, a) /\ v \notin accepted[a])
    /\ a \notin doubtful =>
          /\ ~(InRedis(a) /\ InProcess(a))
          /\ InRedis(a) \/ InProcess(a) => \A v \in Answering : ~Hand(v, a) /\ v \notin accepted[a]
          /\ \A v, w \in Answering : Hand(v, a) /\ Hand(w, a) => v = w
          /\ \A v, w \in Answering : Hand(v, a) => w \notin accepted[a]
          /\ \A v, w \in accepted[a] : v = w

\* An answer on its way is of one challenge and one device, its counter is not
\* ahead of the device's, and unless it is overtaken it is ahead of the credential.
ShapeAt(v) ==
    /\ keyStage[v] \in OnTheWay =>
          \E a \in Asking, d \in Device : answer[v].challenge = {a} /\ answer[v].device = {d}
    /\ keyStage[v] = "save" => answer[v].popped = answer[v].challenge
CountAt(v) ==
    /\ \A d \in answer[v].device :
          /\ answer[v].count <= counter[d]
          /\ d \in Counting /\ v \notin overtaken /\ keyStage[v] \in {"signed", "popped"} =>
                credential[d].count < answer[v].count
    /\ keyStage[v] = "new" => answer[v].device = {}
CloneAt(v) == keyStage[v] = "clone" => v \in overtaken
CounterOf(d) == credential[d].count <= counter[d] /\ (d \notin Counting => counter[d] = 0)
StoresOwn == \A s \in Scope : /\ \A a \in remote[s] : Ceremony[a] = s
                              /\ \A a \in local[s].is : Ceremony[a] = s

KeyInv ==
    /\ KeyTypeOK /\ StoresOwn
    /\ \A a \in Asking : OnePlace(a)
    /\ \A v \in Answering : ShapeAt(v) /\ CountAt(v) /\ CloneAt(v)
    /\ \A d \in Device : CounterOf(d)

-----------------------------------------------------------------------------
\* What each action does to the places of challenges.
LEMMA SetsChallenge ==
    ASSUME KeyTypeOK, NEW a \in Asking, Shows(a)
    PROVE  LET s == Ceremony[a]
           IN  /\ keyStage' = [keyStage EXCEPT ![a] = "done"] /\ shown' = shown \cup {a}
               /\ doubtful \subseteq doubtful' /\ doubtful' \subseteq Asking /\ keyFaults' \in 0..KeyMaxFaults
               /\ remote' = remote \/ remote' = [remote EXCEPT ![s] = {a}]
               /\ local' = local \/ local' = [local EXCEPT ![s] = [is |-> {a}, old |-> FALSE]]
               /\ a \in doubtful' \/ remote' = remote \/ local' = local
<1> DEFINE s == Ceremony[a]
<1>1. keyStage' = [keyStage EXCEPT ![a] = "done"] /\ shown' = shown \cup {a} /\ SetChallenge(a)
  BY DEF Shows, KeyTo
<1>2. CASE /\ remote' = [remote EXCEPT ![s] = {a}] /\ UNCHANGED <<local, keyFaults, doubtful>>
  BY <1>1, <1>2 DEF KeyTypeOK
<1>3. CASE /\ remote' = [remote EXCEPT ![s] = {a}] /\ local' = [local EXCEPT ![s] = [is |-> {a}, old |-> FALSE]]
           /\ Unsure({a})
  BY <1>1, <1>3, PasskeyConstants DEF KeyTypeOK, Unsure
<1>4. CASE /\ local' = [local EXCEPT ![s] = [is |-> {a}, old |-> FALSE]] /\ UNCHANGED <<remote, keyFaults, doubtful>>
  BY <1>1, <1>4 DEF KeyTypeOK
<1> QED BY <1>1, <1>2, <1>3, <1>4 DEF SetChallenge

LEMMA Pops ==
    ASSUME KeyTypeOK, NEW v \in Answering, ShapeAt(v), Pop(v)
    PROVE  \E s \in Scope, handed \in SUBSET Asking :
             /\ keyStage[v] = "signed"
             /\ KeyTo(v, IF handed = {} THEN "failed" ELSE "popped")
             /\ answer' = [answer EXCEPT ![v].popped = handed]
             /\ doubtful \subseteq doubtful' /\ doubtful' \subseteq Asking /\ keyFaults' \in 0..KeyMaxFaults
             /\ \/ /\ handed = remote[s] /\ remote' = [remote EXCEPT ![s] = {}] /\ local' = local
                \/ /\ handed \subseteq local[s].is /\ local' = [local EXCEPT ![s] = NoEntry]
                   /\ remote' = remote \/ remote' = [remote EXCEPT ![s] = {}]
<1> DEFINE s == ScopeOf(v)
           fallen == IF local[s].old THEN {} ELSE local[s].is
           To(handed) == /\ KeyTo(v, IF handed = {} THEN "failed" ELSE "popped")
                        /\ answer' = [answer EXCEPT ![v].popped = handed]
<1>0. keyStage[v] = "signed" BY DEF Pop
<1>1. s \in Scope
  <2>1. PICK a \in Asking : a \in answer[v].challenge BY <1>0 DEF ShapeAt, OnTheWay
  <2> QED BY <2>1, Apart DEF ScopeOf
<1>2. remote[s] \in SUBSET Asking /\ local[s].is \in SUBSET Asking /\ fallen \in SUBSET local[s].is
  BY <1>1, Entries DEF KeyTypeOK
<1>3. CASE keyRedis /\ remote[s] # {} /\ To(remote[s]) /\ remote' = [remote EXCEPT ![s] = {}]
           /\ UNCHANGED <<local, keyFaults, doubtful>>
  <2> HIDE DEF s
  <2> QED BY <1>0, <1>1, <1>2, <1>3 DEF KeyTypeOK
<1>4. CASE To(fallen) /\ local' = [local EXCEPT ![s] = NoEntry] /\ UNCHANGED <<remote, keyFaults, doubtful>>
  <2> HIDE DEF s, fallen
  <2> QED BY <1>0, <1>1, <1>2, <1>4 DEF KeyTypeOK
<1>5. CASE /\ To(fallen) /\ local' = [local EXCEPT ![s] = NoEntry] /\ Unsure({})
           /\ remote' = [remote EXCEPT ![s] = {}] \/ UNCHANGED remote
  <2>1. doubtful' = doubtful /\ keyFaults' \in 0..KeyMaxFaults
    BY <1>5, PasskeyConstants DEF Unsure, KeyTypeOK
  <2> HIDE DEF s, fallen
  <2> QED BY <1>0, <1>1, <1>2, <1>5, <2>1 DEF KeyTypeOK
<1> QED BY <1>3, <1>4, <1>5, Zenon DEF Pop, NoEntry

LEMMA VerifiesKey ==
    ASSUME NEW v \in Answering, VerifyRegistration(v) \/ VerifyAuthentication(v) \/ VerifyLogin(v)
    PROVE  \E s \in {"failed", "save", "clone"} :
             /\ keyStage[v] = "popped" /\ KeyTo(v, s)
             /\ answer' = [answer EXCEPT ![v].read = credential[DeviceOf(v)].count]
             /\ s # "failed" => answer[v].popped = answer[v].challenge
             /\ s = "clone" => ~CountGoesUp(credential[DeviceOf(v)].count, answer[v].count)
             /\ UNCHANGED <<remote, local, keyRedis, keyFaults, shown, counter, credential, accepted,
                            doubtful, overtaken>>
<1> DEFINE Done(s) == KeyTo(v, IF answer[v].popped # answer[v].challenge THEN "failed" ELSE s)
<1>1. CASE VerifyRegistration(v)
  <2> DEFINE s == IF DeviceOf(v) \in Registered THEN "failed" ELSE "save"
  <2>1. Verify(v, s) /\ s \in {"failed", "save"} BY <1>1 DEF VerifyRegistration
  <2> HIDE DEF s
  <2> QED BY <2>1 DEF Verify
<1>2. CASE VerifyAuthentication(v) \/ VerifyLogin(v)
  <2>1. /\ Verify(v, AssertionOutcome(v)) /\ AssertionOutcome(v) \in {"failed", "save", "clone"}
        /\ AssertionOutcome(v) = "clone" => ~CountGoesUp(credential[DeviceOf(v)].count, answer[v].count)
    BY <1>2 DEF VerifyAuthentication, VerifyLogin, AssertionOutcome
  <2> QED BY <2>1 DEF Verify
<1> QED BY <1>1, <1>2

\* The commit of v, with what is its challenge and its device.
CommitsTo(v, passes, count, a, d) ==
    /\ keyStage[v] = "save" /\ KeyTo(v, IF passes THEN "done" ELSE "failed")
    /\ answer[v].challenge = {a} /\ answer[v].device = {d} /\ answer[v].popped = {a}
    /\ count = answer[v].count \/ count = credential[d].count
    /\ credential' = IF passes THEN [credential EXCEPT ![d] = [there |-> TRUE, count |-> count]]
                     ELSE credential
    /\ accepted' = [b \in Asking |-> accepted[b] \cup IF passes /\ b = a THEN {v} ELSE {}]
    /\ passes => \A w \in Answering \ {v} :
          keyStage[w] \in OnTheWay /\ answer[w].device = {d} /\ answer[w].count <= answer[v].count
             => w \in overtaken'
    /\ overtaken \subseteq overtaken' /\ overtaken' \subseteq Answering
    /\ UNCHANGED <<remote, local, keyRedis, keyFaults, shown, counter, answer, doubtful>>

LEMMA Commits ==
    ASSUME KeyTypeOK, NEW v \in Answering, ShapeAt(v), SaveCredential(v) \/ SaveCount(v)
    PROVE  \E passes \in BOOLEAN, count \in Nat, a \in Asking, d \in Device : CommitsTo(v, passes, count, a, d)
<1>1. \E passes \in BOOLEAN, count \in {answer[v].count, credential[DeviceOf(v)].count} : Commit(v, passes, count)
  <2>1. CASE SaveCredential(v)
    <3> DEFINE p == DeviceOf(v) \notin Registered
    <3>1. Commit(v, p, answer[v].count) /\ p \in BOOLEAN BY <2>1 DEF SaveCredential
    <3> HIDE DEF p
    <3> QED BY <3>1
  <2>2. CASE SaveCount(v)
    <3> DEFINE p == DeviceOf(v) \in Registered
               n == IF answer[v].count # answer[v].read THEN answer[v].count ELSE credential[DeviceOf(v)].count
    <3>1. Commit(v, p, n) /\ p \in BOOLEAN /\ n \in {answer[v].count, credential[DeviceOf(v)].count}
      BY <2>2 DEF SaveCount
    <3> HIDE DEF p, n
    <3> QED BY <3>1
  <2> QED BY <2>1, <2>2
<1>1a. PICK passes \in BOOLEAN, count \in {answer[v].count, credential[DeviceOf(v)].count} :
            Commit(v, passes, count)
  BY <1>1
<1>2. keyStage[v] = "save" BY <1>1a DEF Commit
<1>3. PICK a \in Asking, d \in Device : /\ answer[v].challenge = {a} /\ answer[v].device = {d}
                                        /\ answer[v].popped = {a}
  BY <1>2 DEF ShapeAt, OnTheWay
<1>4. DeviceOf(v) = d BY <1>3 DEF DeviceOf
<1>5. count \in Nat BY <1>1a, <1>3, <1>4 DEF KeyTypeOK, Carried, Credential
<1>6. accepted' = [b \in Asking |-> accepted[b] \cup IF passes /\ b = a THEN {v} ELSE {}]
  BY <1>1a, <1>3 DEF Commit
<1> DEFINE rivals == {w \in Answering \ {v} : /\ answer[w].device = {d} /\ answer[w].count <= answer[v].count
                                               /\ keyStage[w] \in {"signed", "popped", "save"}}
<1>7. overtaken' = overtaken \cup IF passes THEN rivals ELSE {} BY <1>1a, <1>4 DEF Commit
<1>8. /\ KeyTo(v, IF passes THEN "done" ELSE "failed")
      /\ credential' = IF passes THEN [credential EXCEPT ![d] = [there |-> TRUE, count |-> count]]
                       ELSE credential
      /\ UNCHANGED <<remote, local, keyRedis, keyFaults, shown, counter, answer, doubtful>>
  BY <1>1a, <1>4 DEF Commit
<1>9. overtaken \subseteq overtaken' /\ overtaken' \subseteq Answering BY <1>7 DEF KeyTypeOK
<1>10. passes => \A w \in Answering \ {v} :
                   keyStage[w] \in OnTheWay /\ answer[w].device = {d} /\ answer[w].count <= answer[v].count
                      => w \in overtaken'
  <2> SUFFICES ASSUME passes, NEW w \in Answering \ {v}, keyStage[w] \in OnTheWay,
                      answer[w].device = {d}, answer[w].count <= answer[v].count
               PROVE  w \in overtaken'
    OBVIOUS
  <2>1. w \in rivals BY DEF OnTheWay
  <2>2. overtaken' = overtaken \cup rivals BY <1>7
  <2> QED BY <2>1, <2>2
<1>11. count = answer[v].count \/ count = credential[d].count BY <1>1a, <1>4
<1> HIDE DEF rivals
<1>12. CommitsTo(v, passes, count, a, d)
  BY <1>2, <1>3, <1>6, <1>8, <1>9, <1>10, <1>11 DEF CommitsTo
<1> QED BY <1>12, <1>5

-----------------------------------------------------------------------------
\* Where nothing is added to the places of a challenge, it stays in one.
LEMMA Shrinks ==
    ASSUME NEW a \in Asking, OnePlace(a), keyStage'[a] # "done" => keyStage[a] # "done",
           InRedis(a)' => InRedis(a), InProcess(a)' => InProcess(a),
           \A v \in Answering : Hand(v, a)' => Hand(v, a),
           accepted'[a] = accepted[a], doubtful \subseteq doubtful'
    PROVE  OnePlace(a)'
BY DEF OnePlace

\* What a step leaves of the facts about an answer that it does not touch.
LEMMA Answers ==
    ASSUME KeyTypeOK, KeyTypeOK', NEW v \in Answering, ShapeAt(v), CountAt(v), CloneAt(v),
           keyStage'[v] = keyStage[v], answer'[v] = answer[v], overtaken \subseteq overtaken',
           \A d \in Device : counter[d] <= counter'[d],
           \A d \in Device : \/ credential'[d].count <= credential[d].count
                             \/ keyStage[v] \in OnTheWay /\ answer[v].device = {d} =>
                                    credential'[d].count < answer[v].count \/ v \in overtaken'
    PROVE  ShapeAt(v)' /\ CountAt(v)' /\ CloneAt(v)'
<1>1. ShapeAt(v)' /\ CloneAt(v)' BY DEF ShapeAt, CloneAt
<1>2. CountAt(v)'
  <2>1. keyStage[v] = "new" => answer'[v].device = {} BY DEF CountAt
  <2>2. ASSUME NEW d \in answer[v].device
        PROVE  /\ answer'[v].count <= counter'[d]
               /\ d \in Counting /\ v \notin overtaken' /\ keyStage'[v] \in {"signed", "popped"} =>
                     credential'[d].count < answer'[v].count
    <3>1. d \in Device /\ answer[v].count \in Nat /\ counter[d] \in Nat /\ counter'[d] \in Nat
          /\ credential[d].count \in Nat /\ credential'[d].count \in Nat
      BY DEF KeyTypeOK, Carried, Credential
    <3>2. answer[v].count <= counter[d] BY DEF CountAt
    <3>3. keyStage[v] \in {"signed", "popped"} => answer[v].device = {d} BY DEF ShapeAt, OnTheWay
    <3>4. d \in Counting /\ v \notin overtaken /\ keyStage[v] \in {"signed", "popped"} =>
             credential[d].count < answer[v].count
      BY DEF CountAt
    <3>5. keyStage[v] \in {"signed", "popped"} => keyStage[v] \in OnTheWay BY DEF OnTheWay
    <3> QED BY <3>1, <3>2, <3>3, <3>4, <3>5
  <2> QED BY <2>1, <2>2 DEF CountAt
<1> QED BY <1>1, <1>2

-----------------------------------------------------------------------------
\* Each action keeps the invariant.
LEMMA AskKeeps ==
    ASSUME KeyInv, NEW a \in Asking,
           RegistrationOptions(a) \/ AuthenticationOptions(a) \/ FidoLoginOptions(a)
    PROVE  KeyInv'
<1> USE DEF KeyInv
<1>1. /\ keyStage[a] = "new" /\ UNCHANGED <<keyRedis, counter, credential, answer, accepted, overtaken>>
      /\ Shows(a) \/ (KeyTo(a, "failed") /\ UNCHANGED <<remote, local, keyFaults, doubtful, shown>>)
  <2>1. CASE RegistrationOptions(a) BY <2>1 DEF RegistrationOptions, Asks
  <2>2. CASE AuthenticationOptions(a) \/ FidoLoginOptions(a)
    BY <2>2 DEF AuthenticationOptions, FidoLoginOptions, FromDevices, Asks
  <2> QED BY <2>1, <2>2
<1> DEFINE s == Ceremony[a]
<1>2. s \in Scope /\ a \in Requests /\ \A v \in Answering : v # a /\ v \in Requests
  BY Apart DEF Requests
<1>3. PICK stage \in KeyStages : keyStage' = [keyStage EXCEPT ![a] = stage]
  BY <1>1, SetsChallenge DEF KeyTo, KeyStages
<1>4. /\ keyStage' \in [Requests -> KeyStages] /\ \A w \in Requests \ {a} : keyStage'[w] = keyStage[w]
  BY <1>2, <1>3 DEF KeyTypeOK, Requests
<1>5. /\ remote' = remote \/ remote' = [remote EXCEPT ![s] = {a}]
      /\ local' = local \/ local' = [local EXCEPT ![s] = [is |-> {a}, old |-> FALSE]]
      /\ a \in doubtful' \/ remote' = remote \/ local' = local
      /\ doubtful \subseteq doubtful' /\ doubtful' \subseteq Asking /\ keyFaults' \in 0..KeyMaxFaults
      /\ shown' \subseteq Asking
  <2>1. CASE Shows(a) BY <2>1, SetsChallenge DEF KeyTypeOK
  <2>2. CASE UNCHANGED <<remote, local, keyFaults, doubtful, shown>> BY <2>2 DEF KeyTypeOK
  <2> QED BY <1>1, <2>1, <2>2
<1>6. KeyTypeOK'
  <2>1. remote' \in [Scope -> SUBSET Asking] BY <1>5, <1>2 DEF KeyTypeOK
  <2>2. local' \in [Scope -> Entry]
    <3> DEFINE e == [is |-> {a}, old |-> FALSE]
    <3>1. e \in Entry BY Entries
    <3>2. local' = local \/ local' = [local EXCEPT ![s] = e] BY <1>5
    <3> HIDE DEF e, s
    <3> QED BY <3>1, <3>2, <1>2 DEF KeyTypeOK
  <2> QED BY <1>1, <1>4, <1>5, <2>1, <2>2 DEF KeyTypeOK, Requests
<1>7. ASSUME NEW b \in Asking
      PROVE  /\ InRedis(b)' => InRedis(b) \/ b = a
             /\ InProcess(b)' => InProcess(b) \/ b = a
             /\ \A v \in Answering : Hand(v, b)' <=> Hand(v, b)
  <2>1. InRedis(b)' => InRedis(b) \/ b = a
    BY <1>5, <1>2, Apart DEF KeyTypeOK, InRedis
  <2>2. InProcess(b)' => InProcess(b) \/ b = a
    BY <1>5, <1>2, Apart DEF KeyTypeOK, InProcess, Entry
  <2>3. \A v \in Answering : Hand(v, b)' <=> Hand(v, b) BY <1>1, <1>2, <1>4 DEF Hand
  <2> QED BY <2>1, <2>2, <2>3
<1>8. \A b \in Asking : OnePlace(b)'
  <2>1. ASSUME NEW b \in Asking, b # a PROVE OnePlace(b)'
    <3>1. keyStage'[b] = keyStage[b] BY <1>4, <2>1 DEF Requests
    <3> QED BY <3>1, <1>1, <1>5, <1>7, <2>1, Shrinks
  <2>2. OnePlace(a)'
    <3>1. /\ ~InRedis(a) /\ ~InProcess(a) /\ (\A v \in Answering : ~Hand(v, a) /\ v \notin accepted[a])
      BY <1>1 DEF OnePlace
    <3>2. /\ \A v \in Answering : ~Hand(v, a)' /\ v \notin accepted'[a]
          /\ accepted'[a] = {}
      BY <3>1, <1>1, <1>7 DEF KeyTypeOK
    <3>3. a \in doubtful' \/ ~(InRedis(a)' /\ InProcess(a)')
      BY <3>1, <1>5 DEF InRedis, InProcess
    <3>4. keyStage'[a] # "done" => ~InRedis(a)' /\ ~InProcess(a)'
      <4>1. CASE Shows(a)
        <5>1. keyStage'[a] = "done" BY <4>1, SetsChallenge, <1>2 DEF KeyTypeOK, Requests
        <5> QED BY <5>1
      <4>2. CASE UNCHANGED <<remote, local>> BY <4>2, <3>1 DEF InRedis, InProcess
      <4> QED BY <1>1, <4>1, <4>2
    <3> QED BY <3>2, <3>3, <3>4 DEF OnePlace
  <2> QED BY <2>1, <2>2
<1>9. StoresOwn'
  <2>1. ASSUME NEW t \in Scope, NEW b \in remote'[t] PROVE Ceremony[b] = t
    BY <1>5, <1>2 DEF KeyTypeOK, StoresOwn
  <2>2. ASSUME NEW t \in Scope, NEW b \in local'[t].is PROVE Ceremony[b] = t
    BY <1>5, <1>2 DEF KeyTypeOK, StoresOwn
  <2> QED BY <2>1, <2>2 DEF StoresOwn
<1>10. \A v \in Answering : ShapeAt(v)' /\ CountAt(v)' /\ CloneAt(v)'
  <2> TAKE v \in Answering
  <2>1. keyStage'[v] = keyStage[v] /\ answer'[v] = answer[v] /\ overtaken' = overtaken
        /\ \A d \in Device : counter[d] <= counter'[d] /\ credential'[d].count <= credential[d].count
    BY <1>1, <1>2, <1>4 DEF KeyTypeOK, Credential
  <2> QED BY <2>1, <1>6, Answers
<1>11. \A d \in Device : CounterOf(d)' BY <1>1 DEF CounterOf
<1> QED BY <1>6, <1>8, <1>9, <1>10, <1>11

LEMMA SignKeeps ==
    ASSUME KeyInv, NEW v \in Answering, Sign(v)
    PROVE  KeyInv'
<1> USE DEF KeyInv
<1>1. /\ keyStage[v] = "new" /\ KeyTo(v, "signed")
      /\ UNCHANGED <<remote, local, keyRedis, keyFaults, shown, credential, accepted, doubtful, overtaken>>
  BY DEF Sign
<1>2. PICK a \in shown, d \in Device :
         /\ counter' = [counter EXCEPT ![d] = IF d \in Counting THEN @ + 1 ELSE 0]
         /\ answer' = [answer EXCEPT ![v] = [NoAnswer EXCEPT !.challenge = {a}, !.device = {d},
                                                             !.count = counter'[d]]]
  BY DEF Sign
<1> DEFINE new == [NoAnswer EXCEPT !.challenge = {a}, !.device = {d}, !.count = counter'[d]]
<1>3. v \in Requests /\ a \in Asking BY Apart DEF KeyTypeOK, Requests
<1>4. /\ keyStage' \in [Requests -> KeyStages] /\ keyStage'[v] = "signed"
      /\ \A w \in Requests \ {v} : keyStage'[w] = keyStage[w]
  BY <1>1, <1>3, KeyMoves DEF KeyTypeOK, Requests, KeyStages
<1>5. /\ counter' \in [Device -> Nat] /\ \A x \in Device : counter[x] <= counter'[x]
      /\ \A x \in Device : x \notin Counting => counter'[x] = 0
      /\ d \in Counting => counter[d] < counter'[d]
  BY <1>2 DEF KeyTypeOK, CounterOf
<1>6. new \in Carried /\ new.challenge = {a} /\ new.device = {d} /\ new.count = counter'[d] /\ new.popped = {}
  BY <1>3, <1>5, Carries
<1>7. answer' = [answer EXCEPT ![v] = new] BY <1>2
<1> HIDE DEF new
<1>8. /\ answer' \in [Answering -> Carried] /\ answer'[v] = new
      /\ \A w \in Answering \ {v} : answer'[w] = answer[w]
  BY <1>6, <1>7 DEF KeyTypeOK
<1>9. KeyTypeOK' BY <1>1, <1>4, <1>5, <1>8 DEF KeyTypeOK, Requests
<1>10. ASSUME NEW b \in Asking PROVE OnePlace(b)'
  <2>1. \A w \in Answering : Hand(w, b)' => Hand(w, b)
    BY <1>3, <1>4, <1>8, Apart DEF Hand
  <2>2. keyStage'[b] = keyStage[b] BY <1>4, Apart
  <2> QED BY <2>1, <2>2, <1>1, Shrinks DEF InRedis, InProcess
<1>11. ASSUME NEW w \in Answering PROVE ShapeAt(w)' /\ CountAt(w)' /\ CloneAt(w)'
  <2>1. CASE w = v
    <3>1. ShapeAt(v)' BY <1>3, <1>4, <1>6, <1>8 DEF ShapeAt
    <3>2. CloneAt(v)' BY <1>4 DEF CloneAt
    <3>3. d \in Counting => credential'[d].count < counter'[d]
      BY <1>1, <1>5 DEF CounterOf, KeyTypeOK, Credential
    <3>4. counter'[d] \in Nat BY <1>5
    <3>5. CountAt(v)' BY <1>4, <1>6, <1>8, <3>3, <3>4 DEF CountAt
    <3> QED BY <2>1, <3>1, <3>2, <3>5
  <2>2. CASE w # v
    <3>1. /\ keyStage'[w] = keyStage[w] /\ answer'[w] = answer[w] /\ overtaken \subseteq overtaken'
          /\ \A x \in Device : credential'[x].count <= credential[x].count
      BY <2>2, <1>1, <1>4, <1>8, Apart DEF KeyTypeOK, Credential
    <3> QED BY <3>1, <1>5, <1>9, Answers
  <2> QED BY <2>1, <2>2
<1>12. \A x \in Device : CounterOf(x)'
  BY <1>1, <1>5 DEF CounterOf, KeyTypeOK, Credential
<1>13. StoresOwn' BY <1>1 DEF StoresOwn
<1> QED BY <1>9, <1>10, <1>11, <1>12, <1>13

LEMMA PopKeeps ==
    ASSUME KeyInv, NEW v \in Answering, Pop(v)
    PROVE  KeyInv'
<1> USE DEF KeyInv
<1>1. PICK s \in Scope, handed \in SUBSET Asking :
             /\ keyStage[v] = "signed"
             /\ KeyTo(v, IF handed = {} THEN "failed" ELSE "popped")
             /\ answer' = [answer EXCEPT ![v].popped = handed]
             /\ doubtful \subseteq doubtful' /\ doubtful' \subseteq Asking /\ keyFaults' \in 0..KeyMaxFaults
             /\ \/ /\ handed = remote[s] /\ remote' = [remote EXCEPT ![s] = {}] /\ local' = local
                \/ /\ handed \subseteq local[s].is /\ local' = [local EXCEPT ![s] = NoEntry]
                   /\ remote' = remote \/ remote' = [remote EXCEPT ![s] = {}]
  BY Pops
<1>2. UNCHANGED <<keyRedis, shown, counter, credential, accepted, overtaken>> BY DEF Pop
<1> DEFINE stage == IF handed = {} THEN "failed" ELSE "popped"
<1>3. v \in Requests /\ stage \in KeyStages /\ stage \in {"failed", "popped"}
  BY Apart DEF KeyStages, Requests
<1>4. /\ keyStage' \in [Requests -> KeyStages] /\ keyStage'[v] = stage
      /\ \A w \in Requests \ {v} : keyStage'[w] = keyStage[w]
  <2> HIDE DEF stage
  <2> QED BY <1>1, <1>3, KeyMoves DEF KeyTypeOK, Requests, stage
<1>5. /\ answer' \in [Answering -> Carried]
      /\ \A w \in Answering \ {v} : answer'[w] = answer[w]
      /\ answer'[v].popped = handed /\ answer'[v].challenge = answer[v].challenge
      /\ answer'[v].device = answer[v].device /\ answer'[v].count = answer[v].count
  <2> DEFINE c == [answer[v] EXCEPT !.popped = handed]
  <2>1. /\ c \in Carried /\ c.popped = handed /\ c.challenge = answer[v].challenge
        /\ c.device = answer[v].device /\ c.count = answer[v].count
    <3>1. answer[v] \in Carried BY DEF KeyTypeOK
    <3>2. PICK b \in Carried : b = answer[v] BY <3>1
    <3>3. c = [b EXCEPT !.popped = handed] BY <3>2
    <3> HIDE DEF c
    <3> QED BY <3>2, <3>3 DEF Carried
  <2>2. answer' = [answer EXCEPT ![v] = c] BY <1>1
  <2> HIDE DEF c
  <2> QED BY <2>1, <2>2 DEF KeyTypeOK
<1>6. /\ remote' \in [Scope -> SUBSET Asking] /\ local' \in [Scope -> Entry]
      /\ \A t \in Scope : remote'[t] \subseteq remote[t] /\ local'[t].is \subseteq local[t].is
  <2>1. remote' = remote \/ remote' = [remote EXCEPT ![s] = {}] BY <1>1
  <2>2. local' = local \/ local' = [local EXCEPT ![s] = NoEntry] BY <1>1
  <2>3. NoEntry \in Entry /\ NoEntry.is = {} BY Entries DEF NoEntry
  <2>4. remote \in [Scope -> SUBSET Asking] /\ local \in [Scope -> Entry] BY DEF KeyTypeOK
  <2>5. remote' \in [Scope -> SUBSET Asking] /\ \A t \in Scope : remote'[t] \subseteq remote[t]
    BY <2>1, <2>4
  <2>6. local' \in [Scope -> Entry] /\ \A t \in Scope : local'[t].is \subseteq local[t].is
    BY <2>2, <2>3, <2>4
  <2> QED BY <2>5, <2>6
<1>7. KeyTypeOK' BY <1>1, <1>2, <1>4, <1>5, <1>6 DEF KeyTypeOK, Requests
<1>8. StoresOwn' BY <1>6 DEF StoresOwn
<1>9. ASSUME NEW w \in Answering PROVE ShapeAt(w)' /\ CountAt(w)' /\ CloneAt(w)'
  <2>1. CASE w = v
    <3>1. ShapeAt(v)' BY <1>1, <1>3, <1>4, <1>5 DEF ShapeAt, OnTheWay
    <3>2. CloneAt(v)' BY <1>3, <1>4 DEF CloneAt
    <3>3. CountAt(v)' BY <1>1, <1>2, <1>3, <1>4, <1>5 DEF CountAt
    <3> QED BY <2>1, <3>1, <3>2, <3>3
  <2>2. CASE w # v
    <3>1. keyStage'[w] = keyStage[w] /\ answer'[w] = answer[w]
      BY <2>2, <1>4, <1>5 DEF Requests
    <3>2. \A x \in Device : counter[x] <= counter'[x] /\ credential'[x].count <= credential[x].count
      BY <1>2 DEF KeyTypeOK, Credential
    <3> QED BY <3>1, <3>2, <1>2, <1>7, Answers
  <2> QED BY <2>1, <2>2
<1>10. \A x \in Device : CounterOf(x)' BY <1>2 DEF CounterOf
<1>11. ASSUME NEW a \in Asking PROVE OnePlace(a)'
  <2>1. keyStage'[a] = keyStage[a] BY <1>4, Apart
  <2>2. /\ InRedis(a)' => InRedis(a)
        /\ InProcess(a)' => InProcess(a)
    BY <1>6, Apart DEF InRedis, InProcess
  <2>3. \A w \in Answering \ {v} : Hand(w, a)' <=> Hand(w, a)
    BY <1>4, <1>5, Apart DEF Hand
  <2>4. ~Hand(v, a) /\ (Hand(v, a)' => a \in handed) BY <1>1, <1>5 DEF Hand
  <2>5. CASE a \notin handed
    BY <2>1, <2>2, <2>3, <2>4, <2>5, <1>1, <1>2, Shrinks
  <2>6. CASE a \in handed
    <3>1. InRedis(a) \/ InProcess(a)
      BY <1>1, <2>6 DEF StoresOwn, InRedis, InProcess
    <3>2. a \notin doubtful => ~InRedis(a)' /\ ~InProcess(a)'
      <4>1. a \notin doubtful => ~(InRedis(a) /\ InProcess(a)) BY DEF OnePlace
      <4>2. CASE handed = remote[s] /\ remote' = [remote EXCEPT ![s] = {}] /\ local' = local
        <5>1. Ceremony[a] = s /\ InRedis(a) BY <4>2, <2>6 DEF StoresOwn, InRedis
        <5> QED BY <4>1, <4>2, <5>1 DEF InRedis, InProcess, KeyTypeOK
      <4>3. CASE handed \subseteq local[s].is /\ local' = [local EXCEPT ![s] = NoEntry]
        <5>1. Ceremony[a] = s /\ InProcess(a) BY <4>3, <2>6 DEF StoresOwn, InProcess
        <5> QED BY <4>1, <4>3, <5>1, <2>2 DEF InRedis, InProcess, KeyTypeOK, NoEntry
      <4> QED BY <1>1, <4>2, <4>3
    <3>3. keyStage[a] = "done" BY <3>1 DEF OnePlace
    <3>4. a \notin doubtful => \A w \in Answering : ~Hand(w, a) /\ w \notin accepted[a]
      BY <3>1 DEF OnePlace
    <3>5. accepted' = accepted /\ accepted[a] \subseteq Answering BY <1>2 DEF KeyTypeOK
    <3>6. a \notin doubtful => /\ \A w \in Answering : Hand(w, a)' => w = v
                               /\ \A w \in Answering : w \notin accepted'[a]
      BY <3>4, <3>5, <2>3
    <3> QED BY <3>2, <3>3, <3>5, <3>6, <2>1, <1>1 DEF OnePlace
  <2> QED BY <2>5, <2>6
<1> QED BY <1>7, <1>8, <1>9, <1>10, <1>11

LEMMA VerifyKeeps ==
    ASSUME KeyInv, NEW v \in Answering,
           VerifyRegistration(v) \/ VerifyAuthentication(v) \/ VerifyLogin(v)
    PROVE  KeyInv'
<1> USE DEF KeyInv
<1>1. PICK s \in {"failed", "save", "clone"} :
             /\ keyStage[v] = "popped" /\ KeyTo(v, s)
             /\ answer' = [answer EXCEPT ![v].read = credential[DeviceOf(v)].count]
             /\ s # "failed" => answer[v].popped = answer[v].challenge
             /\ s = "clone" => ~CountGoesUp(credential[DeviceOf(v)].count, answer[v].count)
             /\ UNCHANGED <<remote, local, keyRedis, keyFaults, shown, counter, credential, accepted,
                            doubtful, overtaken>>
  BY VerifiesKey
<1>2. PICK a \in Asking, d \in Device : answer[v].challenge = {a} /\ answer[v].device = {d}
  BY <1>1 DEF ShapeAt, OnTheWay
<1>3. DeviceOf(v) = d BY <1>2 DEF DeviceOf
<1>4. /\ keyStage' \in [Requests -> KeyStages] /\ keyStage'[v] = s
      /\ \A w \in Requests \ {v} : keyStage'[w] = keyStage[w]
  BY <1>1, KeyMoves DEF KeyTypeOK, Requests, KeyStages
<1>5. /\ answer' \in [Answering -> Carried]
      /\ \A w \in Answering \ {v} : answer'[w] = answer[w]
      /\ answer'[v].popped = answer[v].popped /\ answer'[v].challenge = answer[v].challenge
      /\ answer'[v].device = answer[v].device /\ answer'[v].count = answer[v].count
  <2> DEFINE n == credential[d].count
             c == [answer[v] EXCEPT !.read = n]
  <2>1. PICK b \in Carried : b = answer[v] BY DEF KeyTypeOK
  <2>2. n \in Nat BY DEF KeyTypeOK, Credential
  <2>3. answer' = [answer EXCEPT ![v] = c] BY <1>1, <1>3
  <2> HIDE DEF n
  <2>4. c = [b EXCEPT !.read = n] BY <2>1
  <2> HIDE DEF c
  <2>5. /\ c \in Carried /\ c.popped = b.popped /\ c.challenge = b.challenge
        /\ c.device = b.device /\ c.count = b.count
    BY <2>2, <2>4 DEF Carried
  <2> QED BY <2>1, <2>3, <2>5 DEF KeyTypeOK
<1>6. KeyTypeOK' BY <1>1, <1>4, <1>5 DEF KeyTypeOK, Requests
<1>7. ASSUME NEW b \in Asking PROVE OnePlace(b)'
  <2>1. \A w \in Answering : Hand(w, b)' => Hand(w, b)
    BY <1>1, <1>4, <1>5 DEF Hand, Requests
  <2>2. keyStage'[b] = keyStage[b] BY <1>4, Apart
  <2> QED BY <2>1, <2>2, <1>1, Shrinks DEF InRedis, InProcess
<1>8. ASSUME NEW w \in Answering PROVE ShapeAt(w)' /\ CountAt(w)' /\ CloneAt(w)'
  <2>1. CASE w = v
    <3>1. ShapeAt(v)'
      <4>1. answer'[v].challenge = {a} /\ answer'[v].device = {d} BY <1>2, <1>5
      <4>2. keyStage'[v] = "save" => answer'[v].popped = answer'[v].challenge BY <1>1, <1>4, <1>5
      <4> QED BY <4>1, <4>2 DEF ShapeAt
    <3>2. CountAt(v)' BY <1>1, <1>4, <1>5 DEF CountAt
    <3>3. CloneAt(v)'
      <4> SUFFICES ASSUME s = "clone", v \notin overtaken PROVE FALSE
        BY <1>1, <1>4 DEF CloneAt
      <4>1. credential[d].count \in Nat /\ answer[v].count \in Nat /\ counter[d] \in Nat
        BY DEF KeyTypeOK, Carried, Credential
      <4>2. ~CountGoesUp(credential[d].count, answer[v].count) BY <1>1, <1>3
      <4>3. answer[v].count <= counter[d] /\ (d \in Counting => credential[d].count < answer[v].count)
        BY <1>1, <1>2 DEF CountAt
      <4>4. credential[d].count <= counter[d] /\ (d \notin Counting => counter[d] = 0) BY DEF CounterOf
      <4> QED BY <4>1, <4>2, <4>3, <4>4 DEF CountGoesUp
    <3> QED BY <2>1, <3>1, <3>2, <3>3
  <2>2. CASE w # v
    <3>1. keyStage'[w] = keyStage[w] /\ answer'[w] = answer[w]
      BY <2>2, <1>4, <1>5 DEF Requests
    <3>2. \A x \in Device : counter[x] <= counter'[x] /\ credential'[x].count <= credential[x].count
      BY <1>1 DEF KeyTypeOK, Credential
    <3> QED BY <3>1, <3>2, <1>1, <1>6, Answers
  <2> QED BY <2>1, <2>2
<1>9. StoresOwn' /\ \A x \in Device : CounterOf(x)' BY <1>1 DEF StoresOwn, CounterOf
<1> QED BY <1>6, <1>7, <1>8, <1>9

LEMMA CommitKeeps ==
    ASSUME KeyInv, NEW v \in Answering, SaveCredential(v) \/ SaveCount(v)
    PROVE  KeyInv'
<1> USE DEF KeyInv
<1>1. PICK passes \in BOOLEAN, count \in Nat, a \in Asking, d \in Device : CommitsTo(v, passes, count, a, d)
  BY Commits
<1> DEFINE stage == IF passes THEN "done" ELSE "failed"
           row   == [there |-> TRUE, count |-> count]
<1>2. /\ keyStage[v] = "save" /\ KeyTo(v, stage)
      /\ answer[v].challenge = {a} /\ answer[v].device = {d} /\ answer[v].popped = {a}
      /\ count = answer[v].count \/ count = credential[d].count
      /\ overtaken \subseteq overtaken' /\ overtaken' \subseteq Answering
      /\ UNCHANGED <<remote, local, keyRedis, keyFaults, shown, counter, answer, doubtful>>
  BY <1>1 DEF CommitsTo
<1>3. credential' = IF passes THEN [credential EXCEPT ![d] = row] ELSE credential
  BY <1>1 DEF CommitsTo
<1>4. accepted' = [b \in Asking |-> accepted[b] \cup IF passes /\ b = a THEN {v} ELSE {}]
  BY <1>1 DEF CommitsTo
<1>5. passes => \A w \in Answering \ {v} :
                   keyStage[w] \in OnTheWay /\ answer[w].device = {d} /\ answer[w].count <= answer[v].count
                      => w \in overtaken'
  BY <1>1 DEF CommitsTo
<1>6. stage \in {"done", "failed"} /\ row \in Credential /\ row.count = count BY DEF Credential
<1> HIDE DEF stage, row
<1>7. /\ keyStage' \in [Requests -> KeyStages] /\ keyStage'[v] = stage
      /\ \A w \in Requests \ {v} : keyStage'[w] = keyStage[w]
  BY <1>2, <1>6, KeyMoves DEF KeyTypeOK, Requests, KeyStages
<1>8. /\ credential' \in [Device -> Credential]
      /\ \A x \in Device \ {d} : credential'[x] = credential[x]
      /\ credential'[d].count = credential[d].count \/ (passes /\ credential'[d].count = count)
  BY <1>3, <1>6 DEF KeyTypeOK
<1>9. accepted' \in [Asking -> SUBSET Answering] /\ \A b \in Asking \ {a} : accepted'[b] = accepted[b]
  BY <1>4 DEF KeyTypeOK
<1>10. KeyTypeOK' BY <1>2, <1>7, <1>8, <1>9 DEF KeyTypeOK, Requests
<1>11. ASSUME NEW b \in Asking PROVE OnePlace(b)'
  <2>1. \A w \in Answering : Hand(w, b)' => Hand(w, b) /\ w # v
    BY <1>2, <1>6, <1>7 DEF Hand, Requests
  <2>2. keyStage'[b] = keyStage[b] BY <1>7, Apart
  <2>3. CASE b # a
    <3>1. accepted'[b] = accepted[b] BY <1>9, <2>3
    <3> QED BY <2>1, <2>2, <3>1, <1>2, Shrinks DEF InRedis, InProcess
  <2>4. CASE b = a
    <3>1. Hand(v, a) BY <1>2 DEF Hand
    <3>2. keyStage[a] = "done" BY <3>1 DEF OnePlace
    <3>3. a \notin doubtful =>
             /\ ~InRedis(a) /\ ~InProcess(a)
             /\ \A w \in Answering : Hand(w, a) => w = v
             /\ \A w \in Answering : w \notin accepted[a]
      BY <3>1 DEF OnePlace
    <3>4. accepted'[a] \subseteq accepted[a] \cup {v} BY <1>4
    <3>5. a \notin doubtful =>
             /\ ~InRedis(a)' /\ ~InProcess(a)'
             /\ \A w \in Answering : ~Hand(w, a)'
             /\ accepted'[a] \subseteq {v}
      <4>1. accepted[a] \subseteq Answering BY DEF KeyTypeOK
      <4> QED BY <2>1, <2>4, <3>3, <3>4, <4>1, <1>2 DEF InRedis, InProcess
    <3> QED BY <2>2, <2>4, <3>2, <3>5, <1>2 DEF OnePlace
  <2> QED BY <2>3, <2>4
<1>12. answer[v].count \in Nat /\ answer[v].count <= counter[d] /\ counter[d] \in Nat
       /\ credential[d].count \in Nat
  BY <1>2 DEF KeyTypeOK, Carried, Credential, CountAt
<1>13. ASSUME NEW w \in Answering PROVE ShapeAt(w)' /\ CountAt(w)' /\ CloneAt(w)'
  <2>1. CASE w = v
    <3>1. ShapeAt(v)' /\ CloneAt(v)' BY <1>6, <1>7 DEF ShapeAt, CloneAt, OnTheWay
    <3>2. CountAt(v)' BY <1>2, <1>6, <1>7 DEF CountAt
    <3> QED BY <2>1, <3>1, <3>2
  <2>2. CASE w # v
    <3>1. keyStage'[w] = keyStage[w] /\ answer'[w] = answer[w] BY <2>2, <1>2, <1>7 DEF Requests
    <3>2. \A x \in Device : counter[x] <= counter'[x] BY <1>2 DEF KeyTypeOK
    <3>3. ASSUME NEW x \in Device
          PROVE  \/ credential'[x].count <= credential[x].count
                 \/ keyStage[w] \in OnTheWay /\ answer[w].device = {x} =>
                       credential'[x].count < answer[w].count \/ w \in overtaken'
      <4>1. credential[x].count \in Nat /\ answer[w].count \in Nat BY DEF KeyTypeOK, Carried, Credential
      <4>2. CASE credential'[x].count = credential[x].count BY <4>1, <4>2
      <4>3. CASE x = d /\ passes /\ credential'[d].count = count
        <5>1. CASE count = credential[d].count BY <4>1, <4>3, <5>1
        <5>2. CASE count = answer[v].count BY <1>5, <1>12, <4>1, <4>3, <5>2, <2>2
        <5> QED BY <1>2, <5>1, <5>2
      <4> QED BY <1>8, <4>2, <4>3
    <3> QED BY <3>1, <3>2, <3>3, <1>2, <1>10, Answers
  <2> QED BY <2>1, <2>2
<1>14. ASSUME NEW x \in Device PROVE CounterOf(x)'
  <2>1. credential[x].count <= counter[x] /\ (x \notin Counting => counter[x] = 0) BY DEF CounterOf
  <2>2. credential'[x].count <= counter[x]
    BY <2>1, <1>2, <1>8, <1>12
  <2> QED BY <2>1, <2>2, <1>2 DEF CounterOf
<1>15. StoresOwn' BY <1>2 DEF StoresOwn
<1> QED BY <1>10, <1>11, <1>13, <1>14, <1>15

LEMMA RemoveKeeps ==
    ASSUME KeyInv, NEW v \in Removing, RemoveCredential(v)
    PROVE  KeyInv'
<1> USE DEF KeyInv
<1>1. /\ KeyTo(v, "done")
      /\ UNCHANGED <<remote, local, keyRedis, keyFaults, shown, counter, answer, accepted, doubtful, overtaken>>
  BY DEF RemoveCredential
<1>2. PICK d \in Device : credential' = [credential EXCEPT ![d] = [there |-> FALSE, count |-> 0]]
  BY DEF RemoveCredential, Registered
<1>3. /\ keyStage' \in [Requests -> KeyStages]
      /\ \A w \in Asking \cup Answering : keyStage'[w] = keyStage[w]
  BY <1>1, KeyMoves, PasskeyConstants DEF KeyTypeOK, Requests, KeyStages
<1>4. /\ credential' \in [Device -> Credential]
      /\ \A x \in Device : credential'[x].count <= credential[x].count
  <2> DEFINE row == [there |-> FALSE, count |-> 0]
  <2>1. row \in Credential /\ row.count = 0 BY DEF Credential
  <2>2. credential' = [credential EXCEPT ![d] = row] BY <1>2
  <2> HIDE DEF row
  <2>3. credential' \in [Device -> Credential]
        /\ \A x \in Device : credential'[x].count = credential[x].count \/ credential'[x].count = 0
    BY <2>1, <2>2 DEF KeyTypeOK
  <2>4. \A x \in Device : credential[x].count \in Nat BY DEF KeyTypeOK, Credential
  <2> QED BY <2>3, <2>4
<1>5. KeyTypeOK' BY <1>1, <1>3, <1>4 DEF KeyTypeOK, Requests
<1>6. \A a \in Asking : OnePlace(a)'
  <2> TAKE a \in Asking
  <2>1. \A w \in Answering : Hand(w, a)' => Hand(w, a) BY <1>1, <1>3 DEF Hand
  <2> QED BY <2>1, <1>1, <1>3, Shrinks DEF InRedis, InProcess
<1>7. \A w \in Answering : ShapeAt(w)' /\ CountAt(w)' /\ CloneAt(w)'
  <2> TAKE w \in Answering
  <2>1. \A x \in Device : counter[x] <= counter'[x] BY <1>1 DEF KeyTypeOK
  <2> QED BY <2>1, <1>1, <1>3, <1>4, <1>5, Answers
<1>8. ASSUME NEW x \in Device PROVE CounterOf(x)'
  BY <1>1, <1>4, <1>5 DEF CounterOf, KeyTypeOK, Credential
<1>9. StoresOwn' BY <1>1 DEF StoresOwn
<1> QED BY <1>5, <1>6, <1>7, <1>8, <1>9

LEMMA ExpiryKeeps ==
    ASSUME KeyInv, NEW s \in Scope, ChallengeExpires(s)
    PROVE  KeyInv'
<1> USE DEF KeyInv
<1>1. UNCHANGED <<keyRedis, keyFaults, shown, counter, credential, keyStage, answer, accepted,
                  doubtful, overtaken>>
  BY DEF ChallengeExpires
<1>2. /\ remote' \in [Scope -> SUBSET Asking] /\ local' \in [Scope -> Entry]
      /\ \A t \in Scope : remote'[t] \subseteq remote[t] /\ local'[t].is \subseteq local[t].is
  <2> DEFINE aged == [local[s] EXCEPT !.old = TRUE]
  <2>1. remote' = remote \/ remote' = [remote EXCEPT ![s] = {}] BY DEF ChallengeExpires
  <2>2. local' = local \/ local' = [local EXCEPT ![s] = NoEntry] \/ local' = [local EXCEPT ![s] = aged]
    BY DEF ChallengeExpires, NoEntry
  <2>3. NoEntry \in Entry /\ NoEntry.is = {} BY Entries DEF NoEntry
  <2>4. remote \in [Scope -> SUBSET Asking] /\ local \in [Scope -> Entry] BY DEF KeyTypeOK
  <2>5. aged \in Entry /\ aged.is = local[s].is BY <2>4, Entries
  <2>6. remote' \in [Scope -> SUBSET Asking] /\ \A t \in Scope : remote'[t] \subseteq remote[t]
    BY <2>1, <2>4
  <2> HIDE DEF aged
  <2>7. local' \in [Scope -> Entry] /\ \A t \in Scope : local'[t].is \subseteq local[t].is
    BY <2>2, <2>3, <2>4, <2>5
  <2> QED BY <2>6, <2>7
<1>3. KeyTypeOK' BY <1>1, <1>2 DEF KeyTypeOK
<1>4. \A a \in Asking : OnePlace(a)'
  <2> TAKE a \in Asking
  <2>1. \A w \in Answering : Hand(w, a)' => Hand(w, a) BY <1>1 DEF Hand
  <2>2. (InRedis(a)' => InRedis(a)) /\ (InProcess(a)' => InProcess(a))
    BY <1>2, Apart DEF InRedis, InProcess
  <2> QED BY <2>1, <2>2, <1>1, Shrinks
<1>5. \A w \in Answering : ShapeAt(w)' /\ CountAt(w)' /\ CloneAt(w)'
  BY <1>1 DEF ShapeAt, CountAt, CloneAt
<1>6. StoresOwn' /\ \A x \in Device : CounterOf(x)' BY <1>1, <1>2 DEF StoresOwn, CounterOf
<1> QED BY <1>3, <1>4, <1>5, <1>6

LEMMA KeyStep == KeyInv /\ [KeyNext]_keyVars => KeyInv'
<1> SUFFICES ASSUME KeyInv, [KeyNext]_keyVars PROVE KeyInv'
  OBVIOUS
<1>1. ASSUME NEW a \in Asking, RegistrationOptions(a) \/ AuthenticationOptions(a) \/ FidoLoginOptions(a)
      PROVE  KeyInv'
  BY <1>1, AskKeeps
<1>2. ASSUME NEW v \in Answering,
             \/ Sign(v) \/ Pop(v)
             \/ VerifyRegistration(v) \/ SaveCredential(v)
             \/ VerifyAuthentication(v) \/ VerifyLogin(v) \/ SaveCount(v)
      PROVE  KeyInv'
  BY <1>2, SignKeeps, PopKeeps, VerifyKeeps, CommitKeeps
<1>3. ASSUME NEW v \in Removing, RemoveCredential(v) PROVE KeyInv'
  BY <1>3, RemoveKeeps
<1>4. ASSUME NEW s \in Scope, ChallengeExpires(s) PROVE KeyInv'
  BY <1>4, ExpiryKeeps
<1>5. CASE RedisTurns
  <2>1. /\ keyRedis' \in BOOLEAN /\ keyFaults' \in 0..KeyMaxFaults
        /\ UNCHANGED <<remote, local, shown, counter, credential, keyStage, answer, accepted, doubtful, overtaken>>
    BY <1>5, PasskeyConstants DEF RedisTurns, KeyInv, KeyTypeOK
  <2> QED BY <2>1 DEF KeyInv, KeyTypeOK, StoresOwn, OnePlace, ShapeAt, CountAt, CloneAt, CounterOf,
                      InRedis, InProcess, Hand
<1>6. CASE UNCHANGED keyVars
  BY <1>6 DEF keyVars, KeyInv, KeyTypeOK, StoresOwn, OnePlace, ShapeAt, CountAt, CloneAt, CounterOf,
              InRedis, InProcess, Hand
<1> QED BY <1>1, <1>2, <1>3, <1>4, <1>5, <1>6 DEF KeyNext

LEMMA KeyStart == KeyInit => KeyInv
<1> SUFFICES ASSUME KeyInit PROVE KeyInv
  OBVIOUS
<1> USE DEF KeyInit
<1>1. KeyTypeOK
  <2>1. credential \in [Device -> Credential] BY DEF Credential
  <2>2. keyStage \in [Asking \cup Answering \cup Removing -> KeyStages] BY DEF KeyStages
  <2>3. answer \in [Answering -> Carried] BY Carries
  <2>4. local \in [Scope -> Entry] BY DEF Entry
  <2>5. keyFaults \in 0..KeyMaxFaults BY PasskeyConstants
  <2> QED BY <2>1, <2>2, <2>3, <2>4, <2>5 DEF KeyTypeOK
<1>2. \A v \in Answering : keyStage[v] \in {"new", "failed"} /\ answer[v].device = {}
  BY DEF NoAnswer
<1>3. \A v \in Answering : ShapeAt(v) /\ CountAt(v) /\ CloneAt(v)
  BY <1>2 DEF ShapeAt, CountAt, CloneAt, OnTheWay
<1>4. \A d \in Device : CounterOf(d)
  <2>1. \A d \in Device : credential[d].count = 0 /\ counter[d] = 0 OBVIOUS
  <2> QED BY <2>1 DEF CounterOf
<1>5. StoresOwn BY DEF StoresOwn
<1>6. \A a \in Asking : OnePlace(a)
  <2> TAKE a \in Asking
  <2>1. ~InRedis(a) /\ ~InProcess(a) BY Apart DEF InRedis, InProcess
  <2>2. \A v \in Answering : ~Hand(v, a) BY <1>2 DEF Hand
  <2>3. accepted[a] = {} OBVIOUS
  <2> QED BY <2>1, <2>2, <2>3 DEF OnePlace
<1> QED BY <1>1, <1>3, <1>4, <1>5, <1>6 DEF KeyInv

\* Every variable of the passkeys keeps its type, for any requests, devices and faults.
THEOREM PasskeyTypeCorrect == KeySpec => []KeyTypeOK
<1>1. KeyInv => KeyTypeOK BY DEF KeyInv
<1> QED BY <1>1, KeyStart, KeyStep, PTL DEF KeySpec

\* A challenge serves one answer unless Redis took it and yet failed, and no
\* genuine device is taken for a clone unless a later answer of it came first
\* (pop_challenge, _check_sign_count), for any requests and devices.
THEOREM CeremoniesAreOnce == KeySpec => []CeremoniesHold
<1>1. KeyInv => CeremoniesHold
  <2> SUFFICES ASSUME KeyInv PROVE CeremoniesHold
    OBVIOUS
  <2>1. ASSUME NEW a \in Asking, a \notin doubtful PROVE ~(Cardinality(accepted[a]) > 1)
    <3>1. \A v, w \in accepted[a] : v = w BY <2>1 DEF KeyInv, OnePlace
    <3>2. CASE accepted[a] = {} BY <3>2, FS_EmptySet
    <3>3. CASE accepted[a] # {}
      <4>1. PICK v : accepted[a] = {v} BY <3>1, <3>3
      <4>2. Cardinality({v}) = 1 BY FS_Singleton
      <4> QED BY <4>1, <4>2
    <3> QED BY <3>2, <3>3
  <2>2. CloneOnlyIfOvertaken BY DEF KeyInv, CloneAt, CloneOnlyIfOvertaken
  <2> QED BY <2>1, <2>2 DEF CeremoniesHold, ChallengeServesOnce
<1> QED BY <1>1, KeyStart, KeyStep, PTL DEF KeySpec

-----------------------------------------------------------------------------
(***************************************************************************)
(* The web client, for any components that refresh at once                 *)
(***************************************************************************)

LEMMA WebMoves ==
    ASSUME webStage \in [Web -> WebStages], NEW w \in Web, NEW s \in WebStages, WebTo(w, s)
    PROVE  /\ webStage' \in [Web -> WebStages] /\ webStage'[w] = s
           /\ \A v \in Web \ {w} : webStage'[v] = webStage[v]
BY DEF WebTo

LEMMA OneIsFew == \A p : Cardinality({p}) <= 1 /\ Cardinality({}) <= 1
<1>1. \A p : Cardinality({p}) = 1 BY FS_Singleton
<1>2. Cardinality({}) = 0 BY FS_EmptySet
<1> QED BY <1>1, <1>2

\* Every variable keeps its type.
THEOREM WebTypeCorrect == WebSpec => []WebTypeOK
<1>1. WebInit => WebTypeOK
  <2> SUFFICES ASSUME WebInit PROVE WebTypeOK OBVIOUS
  <2>1. Cardinality(stored) <= 1 BY OneIsFew DEF WebInit
  <2>2. webStage \in [Web -> WebStages] BY DEF WebInit, WebStages
  <2>3. losses \in 0..MaxLosses BY ClientConstants DEF WebInit
  <2>4. carries \in [Web -> SUBSET Pair] BY DEF WebInit
  <2>5. expired \subseteq Pair /\ stored \subseteq Pair BY DEF WebInit, Pair
  <2> QED BY <2>1, <2>2, <2>3, <2>4, <2>5 DEF WebInit, WebTypeOK
<1>2. WebTypeOK /\ [WebNext]_webVars => WebTypeOK'
  <2> SUFFICES ASSUME WebTypeOK, [WebNext]_webVars PROVE WebTypeOK' OBVIOUS
  <2> USE DEF WebTypeOK, Histories, ServerKept
  <2>1. ASSUME NEW w \in Web, MountHook(w) PROVE WebTypeOK'
    <3>1. webStage' \in [Web -> WebStages]
      BY <2>1, WebMoves DEF MountHook, WebStages
    <3> QED BY <2>1, <3>1 DEF MountHook
  <2>2. ASSUME NEW w \in Web, SendCall(w) PROVE WebTypeOK'
    <3>1. webStage' \in [Web -> WebStages] BY <2>2, WebMoves DEF SendCall, WebStages
    <3> QED BY <2>2, <3>1 DEF SendCall
  <2>3. ASSUME NEW w \in Web, AnswerCall(w) PROVE WebTypeOK'
    <3>1. webStage' \in [Web -> WebStages] BY <2>3, WebMoves DEF AnswerCall, WebStages
    <3> QED BY <2>3, <3>1 DEF AnswerCall
  <2>f. ASSUME NEW w \in Web, Fails(w)
        PROVE  webStage' \in [Web -> WebStages] /\ stored' \subseteq Pair /\ Cardinality(stored') <= 1
    BY <2>f, OneIsFew, WebMoves DEF Fails, WebStages
  <2>4. ASSUME NEW w \in Web, BeginRefresh(w) PROVE WebTypeOK'
    <3>1. CASE stored = {} /\ Fails(w) /\ UNCHANGED <<carries, twice, raced>>
      BY <2>4, <3>1, <2>f DEF BeginRefresh
    <3>2. CASE stored # {} /\ WebTo(w, "check") /\ UNCHANGED stored
      <4>1. webStage' \in [Web -> WebStages] BY <3>2, WebMoves DEF WebStages
      <4>2. carries' \in [Web -> SUBSET Pair] /\ twice' \subseteq Pair /\ raced' \subseteq Web
        BY <2>4, <3>2 DEF BeginRefresh
      <4> QED BY <2>4, <3>2, <4>1, <4>2 DEF BeginRefresh
    <3> QED BY <2>4, <3>1, <3>2 DEF BeginRefresh
  <2>5. ASSUME NEW w \in Web, CheckRefresh(w) PROVE WebTypeOK'
    <3>1. CASE Fails(w) BY <2>5, <3>1, <2>f DEF CheckRefresh
    <3>2. CASE WebTo(w, "rotate") /\ UNCHANGED stored
      <4>1. webStage' \in [Web -> WebStages] BY <3>2, WebMoves DEF WebStages
      <4> QED BY <2>5, <3>2, <4>1 DEF CheckRefresh
    <3> QED BY <2>5, <3>1, <3>2 DEF CheckRefresh
  <2>6. ASSUME NEW w \in Web, RotateRefresh(w) PROVE WebTypeOK'
    <3>1. webStage' \in [Web -> WebStages] BY <2>6, WebMoves DEF RotateRefresh, WebStages
    <3> QED BY <2>6, <3>1 DEF RotateRefresh
  <2>7. ASSUME NEW w \in Web, StoreTokens(w) PROVE WebTypeOK'
    <3>1. webStage' \in [Web -> WebStages] BY <2>7, WebMoves DEF StoreTokens, WebStages
    <3>2. stored' \subseteq Pair /\ Cardinality(stored') <= 1 BY <2>7, OneIsFew DEF StoreTokens, Pair
    <3> QED BY <2>7, <3>1, <3>2 DEF StoreTokens
  <2>8. ASSUME NEW w \in Web, CallAgain(w) PROVE WebTypeOK'
    <3>1. webStage' \in [Web -> WebStages] BY <2>8, WebMoves DEF CallAgain, WebStages
    <3> QED BY <2>8, <3>1 DEF CallAgain
  <2>9. ASSUME NEW w \in Web, LoseRefresh(w) PROVE WebTypeOK'
    <3>1. losses' \in 0..MaxLosses /\ lost' \subseteq Pair BY <2>9, ClientConstants DEF LoseRefresh
    <3> QED BY <2>9, <2>f, <3>1 DEF LoseRefresh
  <2>10. ASSUME NEW w \in Web, TellServer(w) PROVE WebTypeOK'
    <3>1. webStage' \in [Web -> WebStages] BY <2>10, WebMoves DEF TellServer, WebStages
    <3> QED BY <2>10, <3>1 DEF TellServer
  <2>11. ASSUME NEW w \in Web, ClearStorage(w) PROVE WebTypeOK'
    <3>1. webStage' \in [Web -> WebStages] BY <2>11, WebMoves DEF ClearStorage, WebStages
    <3>2. raced' \subseteq Web BY <2>11 DEF ClearStorage, Refreshing
    <3> QED BY <2>11, <3>1, <3>2, OneIsFew DEF ClearStorage
  <2>12. CASE TokenExpires(FirstPair) BY <2>12 DEF TokenExpires, Pair
  <2>13. CASE UNCHANGED webVars BY <2>13 DEF webVars
  <2> QED BY <2>1, <2>2, <2>3, <2>4, <2>5, <2>6, <2>7, <2>8, <2>9, <2>10, <2>11, <2>12, <2>13 DEF WebNext
<1> QED BY <1>1, <1>2, PTL DEF WebSpec
-----------------------------------------------------------------------------
\* After a logout every refresh on its way counts as one that raced with it.
LateOnes == cleared => stored \cup Refreshing \subseteq raced

\* Tasks that have not stored a pair: nobody can hold theirs.
Pairless == {w \in Web : webStage[w] \in {"new", "sent", "refresh", "check", "rotate", "answer"}}

NotYetKnown ==
    \A w \in Pairless : w \notin stored \cup spent /\ \A v \in Web : w \notin carries[v]

Undisturbed == ~Ending /\ lost = {} /\ twice = {}

\* Each refresh on its way has a token of its own, which is good until the
\* server has rotated it; and the stored one is spent only by such a refresh.
OwnTokens ==
    /\ \A w \in Refreshing : carries[w] # {}
    /\ Undisturbed =>
        /\ stored # {} /\ \A w \in Web : webStage[w] \notin {"out", "redirected"}
        /\ \A v, w \in Refreshing : v # w => carries[v] \cap carries[w] = {}
        /\ \A p \in stored \cap spent : \E w \in Refreshing : p \in carries[w]
        /\ \A w \in Web : webStage[w] = "check" => carries[w] \cap spent = {}

SessionInv == LateOnes /\ NotYetKnown /\ OwnTokens

\* A task that moves between stages without a refresh on its way.
LEMMA Aside ==
    ASSUME WebTypeOK, SessionInv, NEW w \in Web, NEW s \in WebStages, WebTo(w, s),
           webStage[w] \notin {"check", "rotate", "answer", "clear"},
           s \notin {"check", "rotate", "answer", "clear", "out", "redirected"},
           webStage[w] \notin {"new", "sent", "refresh"} => s \notin {"new", "sent", "refresh"},
           UNCHANGED <<stored, spent, lost, twice, raced, cleared>>,
           \A v \in Web : carries'[v] = carries[v] \/ (v = w /\ carries'[v] = stored)
    PROVE  SessionInv'
<1>1. /\ webStage'[w] = s /\ \A v \in Web \ {w} : webStage'[v] = webStage[v]
  BY WebMoves DEF WebTypeOK
<1>2. Refreshing' = Refreshing /\ w \notin Refreshing BY <1>1 DEF Refreshing
<1>3. Pairless' \subseteq Pairless BY <1>1 DEF Pairless
<1>4. LateOnes' BY <1>2 DEF LateOnes, SessionInv
<1>5. NotYetKnown' BY <1>3 DEF NotYetKnown, SessionInv, Pairless
<1>6. Ending' <=> Ending BY <1>1 DEF Ending, Web
<1>7. \A v \in Refreshing : carries'[v] = carries[v] BY <1>2 DEF Refreshing
<1>8. OwnTokens'
  <2>1. \A v \in Refreshing' : carries'[v] # {} BY <1>2, <1>7 DEF SessionInv, OwnTokens
  <2> SUFFICES ASSUME Undisturbed'
               PROVE  /\ stored' # {} /\ \A v \in Web : webStage'[v] \notin {"out", "redirected"}
                      /\ \A u, v \in Refreshing' : u # v => carries'[u] \cap carries'[v] = {}
                      /\ \A p \in stored' \cap spent' : \E v \in Refreshing' : p \in carries'[v]
                      /\ \A v \in Web : webStage'[v] = "check" => carries'[v] \cap spent' = {}
    BY <2>1 DEF OwnTokens
  <2>2. Undisturbed BY <1>6 DEF Undisturbed
  <2>3. stored' # {} /\ \A v \in Web : webStage'[v] \notin {"out", "redirected"}
    BY <1>1, <2>2 DEF SessionInv, OwnTokens
  <2>4. \A u, v \in Refreshing' : u # v => carries'[u] \cap carries'[v] = {}
    BY <1>2, <1>7, <2>2 DEF SessionInv, OwnTokens
  <2>5. \A p \in stored' \cap spent' : \E v \in Refreshing' : p \in carries'[v]
    BY <1>2, <1>7, <2>2 DEF SessionInv, OwnTokens
  <2>6. \A v \in Web : webStage'[v] = "check" => carries'[v] \cap spent' = {}
    BY <1>1, <1>7, <2>2 DEF SessionInv, OwnTokens, Refreshing
  <2> QED BY <2>3, <2>4, <2>5, <2>6
<1> QED BY <1>4, <1>5, <1>8 DEF SessionInv

\* A refresh that has failed, with the others left as they are.
LEMMA Failing ==
    ASSUME WebTypeOK, SessionInv, NEW w \in Web, Fails(w), ~Undisturbed',
           UNCHANGED <<spent, carries, cleared, raced>>
    PROVE  SessionInv'
<1>1. /\ webStage'[w] \in {"out", "redirected"} /\ \A v \in Web \ {w} : webStage'[v] = webStage[v]
      /\ stored' \subseteq stored
  BY WebMoves DEF WebTypeOK, Fails, WebStages
<1>2. Refreshing' \subseteq Refreshing /\ Pairless' \subseteq Pairless
  BY <1>1 DEF Refreshing, Pairless
<1>3. LateOnes' BY <1>1, <1>2 DEF LateOnes, SessionInv
<1>4. NotYetKnown' BY <1>1, <1>2 DEF NotYetKnown, SessionInv
<1>5. OwnTokens' BY <1>2 DEF OwnTokens, SessionInv
<1> QED BY <1>3, <1>4, <1>5 DEF SessionInv

LEMMA NextSession == WebTypeOK /\ SessionInv /\ [WebNext]_webVars => SessionInv'
<1> SUFFICES ASSUME WebTypeOK, SessionInv, [WebNext]_webVars PROVE SessionInv' OBVIOUS
<1> USE DEF Histories, ServerKept
<1>i. LateOnes /\ NotYetKnown /\ OwnTokens BY DEF SessionInv
<1>t. webStage \in [Web -> WebStages] /\ carries \in [Web -> SUBSET Pair] BY DEF WebTypeOK
<1>1. ASSUME NEW w \in Web, MountHook(w) PROVE SessionInv'
  <2> DEFINE s == IF stored = {} THEN "out" ELSE IF stored \subseteq expired THEN "refresh" ELSE "in"
  <2>1. /\ webStage[w] = "new" /\ WebTo(w, s)
        /\ UNCHANGED <<stored, spent, lost, twice, raced, cleared, carries>>
    BY <1>1 DEF MountHook
  <2>2. CASE stored # {}
    <3>1. s \in {"refresh", "in"} BY <2>2
    <3> QED BY <2>1, <3>1, Aside DEF WebStages
  <2>3. CASE stored = {}
    <3>1. webStage'[w] = "out" /\ \A v \in Web \ {w} : webStage'[v] = webStage[v]
      BY <1>t, <2>1, <2>3, WebMoves DEF WebStages
    <3>2. Refreshing' = Refreshing /\ Pairless' \subseteq Pairless
      BY <2>1, <3>1 DEF Refreshing, Pairless
    <3>3. ~Undisturbed'
      <4>1. ~Undisturbed BY <1>i, <2>3 DEF OwnTokens
      <4>2. Ending => Ending' BY <2>1, <3>1 DEF Ending, Web
      <4> QED BY <2>1, <4>1, <4>2 DEF Undisturbed
    <3>4. LateOnes' /\ NotYetKnown' /\ OwnTokens'
      BY <1>i, <2>1, <3>2, <3>3 DEF LateOnes, NotYetKnown, OwnTokens
    <3> QED BY <3>4 DEF SessionInv
  <2> QED BY <2>2, <2>3
<1>2. ASSUME NEW w \in Web, SendCall(w) PROVE SessionInv'
  <2>1. /\ webStage[w] = "new" /\ WebTo(w, "sent") /\ "sent" \in WebStages
        /\ UNCHANGED <<stored, spent, lost, twice, raced, cleared>>
        /\ \A v \in Web : carries'[v] = carries[v] \/ (v = w /\ carries'[v] = stored)
    BY <1>2, <1>t DEF SendCall, WebStages
  <2> QED BY <2>1, Aside
<1>3. ASSUME NEW w \in Web, AnswerCall(w) PROVE SessionInv'
  <2>1. PICK s \in {"done", "refresh"} :
        /\ webStage[w] = "sent" /\ WebTo(w, s)
        /\ UNCHANGED <<stored, spent, lost, twice, raced, cleared, carries>>
    BY <1>3 DEF AnswerCall
  <2> QED BY <2>1, Aside DEF WebStages
<1>4. ASSUME NEW w \in Web, BeginRefresh(w) PROVE SessionInv'
  <2>1. CASE stored = {} /\ Fails(w) /\ UNCHANGED <<carries, twice, raced>>
    <3>1. UNCHANGED <<spent, cleared, lost>> BY <1>4 DEF BeginRefresh
    <3>2. webStage[w] = "refresh" BY <1>4 DEF BeginRefresh
    <3>3. \A v \in Web \ {w} : webStage'[v] = webStage[v]
      BY <1>t, <2>1, WebMoves DEF Fails, WebStages
    <3>4. ~Undisturbed'
      <4>1. ~Undisturbed BY <1>i, <2>1 DEF OwnTokens
      <4>2. Ending => Ending' BY <3>1, <3>2, <3>3 DEF Ending, Web
      <4> QED BY <2>1, <3>1, <4>1, <4>2 DEF Undisturbed
    <3> QED BY <2>1, <3>1, <3>4, Failing
  <2>2. CASE /\ stored # {} /\ WebTo(w, "check") /\ carries' = [carries EXCEPT ![w] = stored]
             /\ twice' = twice \cup (stored \cap UNION {carries[v] : v \in Refreshing})
             /\ raced' = IF stored \cap raced = {} THEN raced ELSE raced \cup {w}
             /\ UNCHANGED stored
    <3>0. webStage[w] = "refresh" /\ UNCHANGED <<spent, cleared, lost>> BY <1>4 DEF BeginRefresh
    <3>1. webStage'[w] = "check" /\ \A v \in Web \ {w} : webStage'[v] = webStage[v]
      BY <1>t, <2>2, WebMoves DEF WebStages
    <3>2. /\ Refreshing' = Refreshing \cup {w} /\ w \notin Refreshing /\ Refreshing \subseteq Web
          /\ Pairless' = Pairless /\ w \in Pairless
      BY <3>0, <3>1 DEF Refreshing, Pairless
    <3>3. carries'[w] = stored /\ \A v \in Web \ {w} : carries'[v] = carries[v] BY <1>t, <2>2
    <3>4. LateOnes' BY <1>i, <2>2, <3>0, <3>2 DEF LateOnes
    <3>5. NotYetKnown' BY <1>i, <2>2, <3>0, <3>2, <3>3 DEF NotYetKnown
    <3>6. ASSUME Undisturbed'
          PROVE  /\ \A v \in Web : webStage'[v] \notin {"out", "redirected"}
                 /\ \A u, v \in Refreshing' : u # v => carries'[u] \cap carries'[v] = {}
                 /\ \A p \in stored' \cap spent' : \E v \in Refreshing' : p \in carries'[v]
                 /\ \A v \in Web : webStage'[v] = "check" => carries'[v] \cap spent' = {}
      <4>1. Undisturbed
        <5>1. Ending => Ending' BY <3>0, <3>1 DEF Ending, Web
        <5> QED BY <2>2, <3>0, <3>6, <5>1 DEF Undisturbed
      <4>2. \A v \in Refreshing : stored \cap carries[v] = {} BY <2>2, <3>6 DEF Undisturbed
      <4>3. stored \cap spent = {} BY <1>i, <4>1, <4>2 DEF OwnTokens
      <4>4. \A v \in Web : webStage'[v] \notin {"out", "redirected"} BY <1>i, <3>1, <4>1 DEF OwnTokens
      <4>5. \A u, v \in Refreshing' : u # v => carries'[u] \cap carries'[v] = {}
        BY <1>i, <3>2, <3>3, <4>1, <4>2 DEF OwnTokens
      <4>6. \A v \in Web : webStage'[v] = "check" => carries'[v] \cap spent' = {}
        BY <1>i, <3>0, <3>1, <3>3, <4>1, <4>3 DEF OwnTokens
      <4> QED BY <2>2, <3>0, <4>3, <4>4, <4>5, <4>6
    <3>7. \A v \in Refreshing' : carries'[v] # {} BY <1>i, <2>2, <3>2, <3>3 DEF OwnTokens
    <3>8. OwnTokens' BY <2>2, <3>6, <3>7 DEF OwnTokens
    <3> QED BY <3>4, <3>5, <3>8 DEF SessionInv
  <2> QED BY <1>4, <2>1, <2>2 DEF BeginRefresh
<1>5. ASSUME NEW w \in Web, CheckRefresh(w) PROVE SessionInv'
  <2>0. webStage[w] = "check" /\ UNCHANGED <<spent, carries, lost, twice, raced, cleared>>
    BY <1>5 DEF CheckRefresh
  <2>1. CASE carries[w] \cap spent # {} /\ Fails(w)
    <3>1. \A v \in Web \ {w} : webStage'[v] = webStage[v]
      BY <1>t, <2>1, WebMoves DEF Fails, WebStages
    <3>2. ~Undisturbed'
      <4>1. ~Undisturbed BY <1>i, <2>0, <2>1 DEF OwnTokens
      <4>2. Ending => Ending' BY <2>0, <3>1 DEF Ending, Web
      <4> QED BY <2>0, <4>1, <4>2 DEF Undisturbed
    <3> QED BY <2>0, <2>1, <3>2, Failing
  <2>2. CASE WebTo(w, "rotate") /\ UNCHANGED stored
    <3>1. webStage'[w] = "rotate" /\ \A v \in Web \ {w} : webStage'[v] = webStage[v]
      BY <1>t, <2>2, WebMoves DEF WebStages
    <3>2. Refreshing' = Refreshing /\ Pairless' = Pairless BY <2>0, <3>1 DEF Refreshing, Pairless
    <3>3. Ending => Ending' BY <2>0, <3>1 DEF Ending, Web
    <3>4. LateOnes' /\ NotYetKnown' BY <1>i, <2>0, <2>2, <3>2 DEF LateOnes, NotYetKnown
    <3>5. OwnTokens'
      <4>1. Undisturbed' => Undisturbed BY <2>0, <3>3 DEF Undisturbed
      <4> QED BY <1>i, <2>0, <2>2, <3>1, <3>2, <4>1 DEF OwnTokens
    <3> QED BY <3>4, <3>5 DEF SessionInv
  <2> QED BY <1>5, <2>1, <2>2 DEF CheckRefresh
<1>6. ASSUME NEW w \in Web, RotateRefresh(w) PROVE SessionInv'
  <2>0. /\ webStage[w] = "rotate" /\ spent' = spent \cup carries[w]
        /\ UNCHANGED <<stored, carries, lost, twice, raced, cleared>>
    BY <1>6 DEF RotateRefresh
  <2>1. webStage'[w] = "answer" /\ \A v \in Web \ {w} : webStage'[v] = webStage[v]
    BY <1>6, <1>t, WebMoves DEF WebStages, RotateRefresh
  <2>2. Refreshing' = Refreshing /\ Pairless' = Pairless /\ w \in Refreshing
    BY <2>0, <2>1 DEF Refreshing, Pairless
  <2>3. LateOnes' BY <1>i, <2>0, <2>2 DEF LateOnes
  <2>4. NotYetKnown' BY <1>i, <2>0, <2>2 DEF NotYetKnown
  <2>5. Undisturbed' => Undisturbed
    <3>1. Ending => Ending' BY <2>0, <2>1 DEF Ending, Web
    <3> QED BY <2>0, <3>1 DEF Undisturbed
  <2>6. ASSUME Undisturbed, NEW v \in Web, webStage'[v] = "check" PROVE carries'[v] \cap spent' = {}
    <3>1. webStage[v] = "check" /\ v # w BY <2>1, <2>6
    <3>2. v \in Refreshing BY <3>1 DEF Refreshing
    <3>3. carries[v] \cap spent = {} /\ carries[v] \cap carries[w] = {}
      BY <1>i, <2>2, <2>6, <3>1, <3>2 DEF OwnTokens
    <3> QED BY <2>0, <3>3
  <2>7. ASSUME Undisturbed, NEW p \in stored' \cap spent' PROVE \E v \in Refreshing' : p \in carries'[v]
    BY <1>i, <2>0, <2>2, <2>7 DEF OwnTokens
  <2>8. Undisturbed => \A v \in Web : webStage'[v] \notin {"out", "redirected"}
    BY <1>i, <2>1 DEF OwnTokens
  <2>9. OwnTokens' BY <1>i, <2>0, <2>2, <2>5, <2>6, <2>7, <2>8 DEF OwnTokens
  <2> QED BY <2>3, <2>4, <2>9 DEF SessionInv
<1>7. ASSUME NEW w \in Web, StoreTokens(w) PROVE SessionInv'
  <2>0. /\ webStage[w] = "answer" /\ stored' = {w}
        /\ UNCHANGED <<spent, carries, lost, twice, raced, cleared>>
    BY <1>7 DEF StoreTokens
  <2>1. webStage'[w] \in {"in", "again"} /\ \A v \in Web \ {w} : webStage'[v] = webStage[v]
    BY <1>7, <1>t, WebMoves DEF WebStages, StoreTokens
  <2>2. /\ Refreshing' = Refreshing \ {w} /\ w \in Refreshing
        /\ Pairless' = Pairless \ {w} /\ w \in Pairless
    BY <2>0, <2>1 DEF Refreshing, Pairless
  <2>3. LateOnes' BY <1>i, <2>0, <2>2 DEF LateOnes
  <2>4. NotYetKnown' BY <1>i, <2>0, <2>2 DEF NotYetKnown
  <2>5. Undisturbed' => Undisturbed
    <3>1. Ending => Ending' BY <2>0, <2>1 DEF Ending, Web
    <3> QED BY <2>0, <3>1 DEF Undisturbed
  <2>6. stored' \cap spent' = {} BY <1>i, <2>0, <2>2 DEF NotYetKnown
  <2>7. Undisturbed => /\ \A v \in Web : webStage'[v] \notin {"out", "redirected"}
                       /\ \A v \in Web : webStage'[v] = "check" => carries'[v] \cap spent' = {}
    BY <1>i, <2>0, <2>1 DEF OwnTokens
  <2>8. OwnTokens' BY <1>i, <2>0, <2>2, <2>5, <2>6, <2>7 DEF OwnTokens
  <2> QED BY <2>3, <2>4, <2>8 DEF SessionInv
<1>8. ASSUME NEW w \in Web, CallAgain(w) PROVE SessionInv'
  <2>1. /\ webStage[w] = "again" /\ WebTo(w, "done") /\ "done" \in WebStages
        /\ UNCHANGED <<stored, spent, lost, twice, raced, cleared, carries>>
    BY <1>8 DEF CallAgain, WebStages
  <2> QED BY <2>1, Aside
<1>9. ASSUME NEW w \in Web, LoseRefresh(w) PROVE SessionInv'
  <2>1. /\ w \in Refreshing /\ Fails(w) /\ lost' = lost \cup carries[w]
        /\ UNCHANGED <<spent, carries, cleared, raced>>
    BY <1>9 DEF LoseRefresh
  <2>2. carries[w] # {} BY <1>i, <2>1 DEF OwnTokens
  <2>3. ~Undisturbed' BY <2>1, <2>2 DEF Undisturbed
  <2> QED BY <2>1, <2>3, Failing
<1>10. ASSUME NEW w \in Web, TellServer(w) PROVE SessionInv'
  <2>0. /\ webStage[w] = "new" /\ w \in Logout /\ WebTo(w, "clear") /\ spent' \subseteq spent \cup stored
        /\ UNCHANGED <<stored, carries, lost, twice, raced, cleared>>
    BY <1>10 DEF TellServer
  <2>1. webStage'[w] = "clear" /\ \A v \in Web \ {w} : webStage'[v] = webStage[v]
    BY <1>t, <2>0, WebMoves DEF WebStages
  <2>2. Refreshing' = Refreshing /\ Pairless' \subseteq Pairless
    BY <2>0, <2>1 DEF Refreshing, Pairless
  <2>3. ~Undisturbed' BY <2>0, <2>1 DEF Undisturbed, Ending
  <2>4. LateOnes' BY <1>i, <2>0, <2>2 DEF LateOnes
  <2>5. NotYetKnown' BY <1>i, <2>0, <2>2 DEF NotYetKnown
  <2>6. OwnTokens' BY <1>i, <2>0, <2>2, <2>3 DEF OwnTokens
  <2> QED BY <2>4, <2>5, <2>6 DEF SessionInv
<1>11. ASSUME NEW w \in Web, ClearStorage(w) PROVE SessionInv'
  <2>0. /\ webStage[w] = "clear" /\ stored' = {} /\ cleared' = TRUE /\ raced' = raced \cup Refreshing
        /\ WebTo(w, "done") /\ UNCHANGED <<carries, spent, lost, twice>>
    BY <1>11 DEF ClearStorage
  <2>1. webStage'[w] = "done" /\ \A v \in Web \ {w} : webStage'[v] = webStage[v]
    BY <1>t, <2>0, WebMoves DEF WebStages
  <2>2. Refreshing' = Refreshing /\ Pairless' = Pairless
    BY <2>0, <2>1 DEF Refreshing, Pairless
  <2>3. ~Undisturbed' BY <2>0 DEF Undisturbed, Ending
  <2>4. LateOnes' BY <2>0, <2>2 DEF LateOnes
  <2>5. NotYetKnown' BY <1>i, <2>0, <2>2 DEF NotYetKnown
  <2>6. OwnTokens' BY <1>i, <2>0, <2>2, <2>3 DEF OwnTokens
  <2> QED BY <2>4, <2>5, <2>6 DEF SessionInv
<1>12. ASSUME TokenExpires(FirstPair) \/ UNCHANGED webVars PROVE SessionInv'
  <2>1. UNCHANGED <<stored, spent, webStage, carries, lost, twice, raced, cleared>>
    BY <1>12 DEF TokenExpires, webVars
  <2>2. Refreshing' = Refreshing /\ Pairless' = Pairless /\ (Ending' <=> Ending)
    BY <2>1 DEF Refreshing, Pairless, Ending
  <2> QED BY <1>i, <2>1, <2>2 DEF SessionInv, LateOnes, NotYetKnown, OwnTokens, Undisturbed
<1> QED BY <1>1, <1>2, <1>3, <1>4, <1>5, <1>6, <1>7, <1>8, <1>9, <1>10, <1>11, <1>12 DEF WebNext

\* For any mounted hooks, calls and logouts, however they interleave: nothing but
\* a refresh that raced with it brings a session back after its logout, and
\* nothing but a lost answer or a token sent twice ends it before.
THEOREM SessionLasts == WebSpec => []SessionHolds
<1>1. WebInit => SessionInv
  <2> SUFFICES ASSUME WebInit PROVE SessionInv OBVIOUS
  <2>1. stored = {FirstPair} /\ spent = {} /\ cleared = FALSE /\ lost = {} /\ twice = {}
        /\ \A w \in Web : carries[w] = {} /\ webStage[w] \in {"new", "done"}
    BY DEF WebInit
  <2>2. Refreshing = {} BY <2>1 DEF Refreshing
  <2> QED BY <2>1, <2>2, ClientConstants
          DEF SessionInv, LateOnes, NotYetKnown, OwnTokens, Pairless
<1>2. SessionInv => SessionHolds
  BY DEF SessionInv, LateOnes, OwnTokens, Undisturbed, SessionHolds, LoggedOutStaysOut, SessionEndsOnlyIf
<1> QED BY <1>1, <1>2, WebTypeCorrect, NextSession, PTL DEF WebSpec

-----------------------------------------------------------------------------
(***************************************************************************)
(* The audit rows, for any requests that log and any purges                *)
(***************************************************************************)

LogStages == {"idle", "read", "failed", "mirroring", "logged", "mirrored"}
PurgeStages == {"idle", "nothing", "selecting", "deleting", "over", "stopped"}
Row  == [index : Nat, hash : Nat, prev : Nat, born : Nat]
Seen == [index : Int, hash : Nat, on : Nat]
PurgeState == [stage : PurgeStages, cutoff : Int, ids : SUBSET Row, deleted : Nat, upto : Nat]

RowTypes ==
    /\ day \in Nat /\ day <= MaxDays /\ hashes \in Nat
    /\ chain \in SUBSET Row /\ IsFiniteSet(chain)
    /\ logStage \in [Log -> LogStages] /\ lastSeen \in [Log -> Seen]
    /\ purge \in [Purge -> PurgeState]
    /\ removed \in SUBSET (Row \X Purge) /\ IsFiniteSet(removed) /\ IsFiniteSet(Gone)
    /\ mirror \in Seq(Log)

\* Numbers of blocks are unique, below those of the rows, and of the past.
RowsApart ==
    /\ \A r, s \in chain : r.index = s.index => r = s
    /\ \A r \in chain : r.index < r.hash /\ r.hash <= hashes /\ r.prev <= hashes /\ r.born <= day
    /\ \A r \in Gone : r.hash <= hashes
    /\ \A l \in Log : logStage[l] = "read" =>
          /\ -1 <= lastSeen[l].index /\ lastSeen[l].index < lastSeen[l].hash
          /\ lastSeen[l].hash <= hashes /\ lastSeen[l].on <= day

\* What a request has read is the last row, or another one has added to it.
SeenAt(l) ==
    logStage[l] = "read" =>
       /\ \/ lastSeen[l].index = -1
          \/ \E r \in chain : r.index = lastSeen[l].index /\ r.hash = lastSeen[l].hash
       /\ Taken(lastSeen[l].index + 1) \/ \A r \in chain : r.index <= lastSeen[l].index
       /\ \A r \in chain : r.index <= lastSeen[l].index => r.born <= lastSeen[l].on

\* A row names the one before it, is not older than it, and if that one is gone
\* all that come before will go.
RowsLinked ==
    \A r, s \in chain : s.index < r.index =>
       /\ s.index = r.index - 1 => r.prev = s.hash
       /\ s.born <= r.born
       /\ Taken(r.index - 1) \/ \E p \in Begun : s.born < purge[p].cutoff

RowsClean == ~emptied => RowsLinked /\ \A l \in Log : SeenAt(l)

PurgeAt(p) ==
    LET q == purge[p]
    IN  /\ q.stage \notin {"idle", "nothing"} => q.cutoff <= day - Keep
        /\ IsFiniteSet(q.ids) /\ q.upto <= hashes
        /\ q.stage = "deleting" =>
              /\ \A r \in q.ids : r.born < q.cutoff
              /\ Cardinality(q.ids) < Batch => \A r \in Expired(q.cutoff) : r.hash <= q.upto => r \in q.ids
        /\ q.stage = "over" => \A r \in Expired(q.cutoff) : r.hash > q.upto
        /\ Cardinality(GoneBy(p)) <= q.deleted

PurgesAt ==
    /\ \A p \in Purge : PurgeAt(p)
    /\ \A x \in removed : purge[x[2]].stage \notin {"idle", "nothing"} /\ x[1].born < purge[x[2]].cutoff

MirroredAt ==
    /\ \A i \in DOMAIN mirror : logStage[mirror[i]] \in {"logged", "mirrored"}
    /\ \A l \in Log : logStage[l] = "mirrored" => \E i \in DOMAIN mirror : {j \in DOMAIN mirror : mirror[j] = l} = {i}

RowInv ==
    /\ RowTypes /\ RowsApart /\ RowsClean /\ PurgesAt /\ RowsCounted /\ chain \cap Gone = {} /\ MirroredAt

LEMMA RowNumbers ==
    IsFiniteSet(Log) /\ MaxDays \in Nat /\ Keep \in Nat /\ 1 <= Keep /\ Batch \in Nat /\ 1 <= Batch
BY RowConstants

LEMMA RowFields ==
    /\ \A r \in Row : r.index \in Nat /\ r.hash \in Nat /\ r.prev \in Nat /\ r.born \in Nat
    /\ \A v \in Seen : v.index \in Int /\ v.hash \in Nat /\ v.on \in Nat
    /\ \A q \in PurgeState : /\ q.stage \in PurgeStages /\ q.cutoff \in Int /\ q.ids \in SUBSET Row
                             /\ q.deleted \in Nat /\ q.upto \in Nat
BY DEF Row, Seen, PurgeState

\* The row of the largest number, which log_audit_entry reads.
LEMMA LastRow ==
    ASSUME NEW rows \in SUBSET Row, rows # {}, NEW top \in Nat, \A r \in rows : r.index <= top
    PROVE  \E r \in rows : \A s \in rows : s.index <= r.index
<1> DEFINE S == {n \in Nat : \A r \in rows : r.index <= n}
<1>1. PICK m \in S : \A n \in S : m <= n
  BY LeastNumber
<1>2. \A r \in rows : r.index \in Nat /\ r.index <= m
  BY <1>1, RowFields
<1>3. ASSUME \A r \in rows : r.index # m PROVE FALSE
  <2>1. \A r \in rows : r.index <= m - 1
    BY <1>1, <1>2, <1>3
  <2>2. m - 1 \in Nat
    BY <1>1, <1>2, <2>1
  <2> QED BY <1>1, <2>1, <2>2
<1> QED BY <1>2, <1>3

LEMMA NoneOn ==
    ASSUME NEW d \in Nat
    PROVE  LET v == [None EXCEPT !.on = d] IN v \in Seen /\ v.on = d /\ v.index = -1 /\ v.hash = 0
<1> DEFINE v == [None EXCEPT !.on = d]
<1>1. v \in Seen
  BY DEF None, Seen
<1>2. v.on = d
  BY DEF None
<1>3. v.index = -1
  BY DEF None
<1>4. v.hash = 0
  BY DEF None
<1> QED BY <1>1, <1>2, <1>3, <1>4

\* What log_audit_entry has seen when it has read.
LEMMA ReadSees ==
    ASSUME RowTypes, RowsApart, NEW l \in Log, ReadLastBlock(l)
    PROVE  /\ logStage' = [logStage EXCEPT ![l] = "read"]
           /\ \E v \in Seen : /\ lastSeen' = [lastSeen EXCEPT ![l] = v] /\ v.on = day
                 /\ \/ chain = {} /\ v.index = -1 /\ v.hash = 0
                    \/ \E r \in chain : /\ v.index = r.index /\ v.hash = r.hash
                                         /\ \A s \in chain : s.index <= r.index
<1> DEFINE rows == {r \in chain : \A s \in chain : s.index <= r.index}
<1>1. CASE rows = {}
  <2>1. chain = {}
    <3>1. \A r \in chain : r.index <= hashes
      BY RowFields DEF RowTypes, RowsApart
    <3> QED BY <1>1, <3>1, LastRow DEF RowTypes
  <2> DEFINE v == [None EXCEPT !.on = day]
  <2>2. v \in Seen /\ v.on = day /\ v.index = -1 /\ v.hash = 0
    BY NoneOn DEF RowTypes
  <2>3. lastSeen' = [lastSeen EXCEPT ![l] = v]
    BY <1>1 DEF ReadLastBlock
  <2> QED BY <2>1, <2>2, <2>3 DEF ReadLastBlock
<1>2. CASE rows # {}
  <2> DEFINE r == CHOOSE r \in rows : TRUE
             v == [index |-> r.index, hash |-> r.hash, on |-> day]
  <2>1. r \in rows
    BY <1>2
  <2>2. lastSeen' = [lastSeen EXCEPT ![l] = v]
    BY <1>2 DEF ReadLastBlock
  <2> HIDE DEF r
  <2>3. r \in Row
    BY <2>1 DEF RowTypes
  <2>4. v \in Seen /\ v.on = day /\ v.index = r.index /\ v.hash = r.hash
    BY <2>3, RowFields DEF Seen, RowTypes
  <2>5. r \in chain /\ \A s \in chain : s.index <= r.index
    BY <2>1
  <2> QED BY <2>2, <2>4, <2>5 DEF ReadLastBlock
<1> QED BY <1>1, <1>2

\* What it commits: a row behind the one that it has seen.
LEMMA CommitAdds ==
    ASSUME RowTypes, RowsApart, NEW l \in Log, CommitBlock(l), ~Taken(lastSeen[l].index + 1)
    PROVE  \E r \in Row :
              /\ r.index = lastSeen[l].index + 1 /\ r.hash = hashes + 1
              /\ r.prev = lastSeen[l].hash /\ r.born = lastSeen[l].on
              /\ chain' = chain \cup {r} /\ r \notin chain /\ r \notin Gone
              /\ hashes' = hashes + 1 /\ logStage' = [logStage EXCEPT ![l] = "mirroring"]
<1> DEFINE r == [index |-> lastSeen[l].index + 1, hash |-> hashes + 1,
                 prev |-> lastSeen[l].hash, born |-> lastSeen[l].on]
<1>1. lastSeen[l] \in Seen /\ -1 <= lastSeen[l].index
  BY DEF RowTypes, RowsApart, CommitBlock
<1>2. lastSeen[l].index + 1 \in Nat
  BY <1>1, RowFields
<1>3. r \in Row
  BY <1>1, <1>2, RowFields DEF Row, RowTypes
<1>4. r \notin chain /\ r \notin Gone
  <2>1. r.hash = hashes + 1
    OBVIOUS
  <2>2. \A s \in chain \cup Gone : s.hash <= hashes
    BY DEF RowsApart
  <2> QED BY <2>1, <2>2 DEF RowTypes
<1>5. chain' = chain \cup {r} /\ hashes' = hashes + 1 /\ logStage' = [logStage EXCEPT ![l] = "mirroring"]
  BY DEF CommitBlock
<1> QED BY <1>3, <1>4, <1>5

LEMMA CommitFails ==
    ASSUME NEW l \in Log, CommitBlock(l), Taken(lastSeen[l].index + 1)
    PROVE  chain' = chain /\ hashes' = hashes /\ logStage' = [logStage EXCEPT ![l] = "failed"]
BY DEF CommitBlock

\* A step of purge_db, of one call.
PurgeMoves(p) ==
    /\ logStage' = logStage /\ lastSeen' = lastSeen /\ mirror' = mirror /\ day' = day /\ hashes' = hashes
    /\ \E q \in PurgeState : purge' = [purge EXCEPT ![p] = q]

LEMMA Starts ==
    ASSUME RowTypes, NEW p \in Purge, StartPurge(p)
    PROVE  /\ PurgeMoves(p) /\ chain' = chain /\ removed' = removed /\ emptied' = emptied
           /\ purge'[p].stage \in {"nothing", "selecting"} /\ purge'[p].cutoff = day - Keep
           /\ purge'[p].ids = purge[p].ids /\ purge'[p].deleted = purge[p].deleted
           /\ purge'[p].upto = purge[p].upto
<1> DEFINE stage == IF p \in DryRuns \/ Expired(Cutoff) = {} THEN "nothing" ELSE "selecting"
           q == [purge[p] EXCEPT !.cutoff = Cutoff, !.stage = stage]
<1>1. purge[p] \in PurgeState /\ Cutoff = day - Keep /\ Cutoff \in Int
  BY RowNumbers DEF RowTypes, Cutoff
<1>2. stage \in {"nothing", "selecting"}
  OBVIOUS
<1>3. purge' = [purge EXCEPT ![p] = q]
  BY DEF StartPurge, RowTypes
<1> HIDE DEF stage
<1>4. q \in PurgeState
  BY <1>1, <1>2 DEF PurgeState, PurgeStages
<1>5. q.stage = stage /\ q.cutoff = Cutoff /\ q.ids = purge[p].ids /\ q.deleted = purge[p].deleted
      /\ q.upto = purge[p].upto
  BY <1>1 DEF PurgeState
<1> HIDE DEF q
<1>6. purge'[p] = q
  BY <1>3 DEF RowTypes
<1> QED BY <1>1, <1>2, <1>3, <1>4, <1>5, <1>6 DEF StartPurge, PurgeMoves, LogsKept

LEMMA Selects ==
    ASSUME RowTypes, NEW p \in Purge, SelectBatch(p)
    PROVE  /\ PurgeMoves(p) /\ chain' = chain /\ removed' = removed /\ emptied' = emptied
           /\ purge[p].stage = "selecting"
           /\ purge'[p].cutoff = purge[p].cutoff /\ purge'[p].deleted = purge[p].deleted
           /\ purge'[p].upto = hashes
           /\ purge'[p].ids \subseteq Expired(purge[p].cutoff) /\ IsFiniteSet(purge'[p].ids)
           /\ Cardinality(purge'[p].ids) < Batch => purge'[p].ids = Expired(purge[p].cutoff)
           /\ \/ purge'[p].stage = "deleting"
              \/ purge'[p].stage = "over" /\ Expired(purge[p].cutoff) = {}
<1> DEFINE overdue == Expired(purge[p].cutoff)
<1>1. IsFiniteSet(overdue) /\ overdue \subseteq chain
  BY FS_Subset DEF Expired, RowTypes
<1>2. PICK ids \in SUBSET overdue : Cardinality(ids) = Lesser(Batch, Cardinality(overdue)) /\
         purge' = [purge EXCEPT ![p].ids = ids, ![p].upto = hashes,
                                ![p].stage = IF ids = {} THEN "over" ELSE "deleting"]
  BY DEF SelectBatch, kSubset
<1> DEFINE stage == IF ids = {} THEN "over" ELSE "deleting"
           q == [purge[p] EXCEPT !.ids = ids, !.upto = hashes, !.stage = stage]
<1>3. purge[p] \in PurgeState
  BY DEF RowTypes
<1>4. purge' = [purge EXCEPT ![p] = q]
  BY <1>2 DEF RowTypes
<1>5. stage \in {"over", "deleting"} /\ (stage = "over" => ids = {})
  OBVIOUS
<1> HIDE DEF stage
<1>6. q \in PurgeState
  BY <1>1, <1>3, <1>5 DEF PurgeState, PurgeStages, RowTypes
<1>7. q.stage = stage /\ q.cutoff = purge[p].cutoff /\ q.ids = ids /\ q.deleted = purge[p].deleted
      /\ q.upto = hashes
  BY <1>3 DEF PurgeState
<1> HIDE DEF q
<1>8. purge'[p] = q
  BY <1>4 DEF RowTypes
<1>9. IsFiniteSet(ids) /\ (Cardinality(ids) = Cardinality(overdue) => ids = overdue)
  BY <1>1, FS_Subset
<1>10. Cardinality(overdue) \in Nat
  BY <1>1, FS_CardinalityType
<1>11. Cardinality(ids) < Batch => ids = overdue
  BY <1>2, <1>9, <1>10, RowNumbers DEF Lesser
<1>12. ids = {} => overdue = {}
  BY <1>11, FS_EmptySet, RowNumbers
<1>13. purge[p].stage = "selecting" /\ LogsKept /\ UNCHANGED <<day, chain, hashes, emptied, removed>>
  BY DEF SelectBatch
<1>14. PurgeMoves(p)
  BY <1>4, <1>6, <1>13 DEF PurgeMoves, LogsKept
<1> QED BY <1>5, <1>7, <1>8, <1>9, <1>11, <1>12, <1>13, <1>14

LEMMA Deletes ==
    ASSUME RowTypes, NEW p \in Purge, DeleteBatch(p), IsFiniteSet(purge[p].ids)
    PROVE  /\ PurgeMoves(p) /\ purge[p].stage = "deleting" /\ chain' = chain \ purge[p].ids
           /\ removed' = removed \cup {<<r, p>> : r \in purge[p].ids \cap chain}
           /\ ~emptied' => /\ ~emptied
                           /\ \A l \in Log, r \in purge[p].ids \cap chain :
                                 logStage[l] = "read" => r.index - lastSeen[l].index \notin 0..1
           /\ purge'[p].cutoff = purge[p].cutoff
           /\ purge'[p].deleted = purge[p].deleted + Cardinality(purge[p].ids)
           /\ purge'[p].upto = purge[p].upto /\ purge'[p].ids = {}
           /\ \/ purge'[p].stage = "selecting"
              \/ purge'[p].stage = "over" /\ Cardinality(purge[p].ids) < Batch
<1> DEFINE ids == purge[p].ids
           stage == IF Cardinality(ids) < Batch THEN "over" ELSE "selecting"
           q == [purge[p] EXCEPT !.ids = {}, !.deleted = purge[p].deleted + Cardinality(ids), !.stage = stage]
<1>1. purge[p] \in PurgeState /\ Cardinality(ids) \in Nat
  BY FS_CardinalityType DEF RowTypes
<1>2. purge' = [purge EXCEPT ![p] = q]
  BY DEF DeleteBatch, RowTypes
<1>3. stage \in {"over", "selecting"} /\ (stage = "over" => Cardinality(ids) < Batch)
  OBVIOUS
<1> HIDE DEF stage
<1>4. q \in PurgeState
  <2>1. purge[p].deleted + Cardinality(ids) \in Nat
    BY <1>1, RowFields
  <2> QED BY <1>1, <1>3, <2>1 DEF PurgeState, PurgeStages
<1>5. q.stage = stage /\ q.cutoff = purge[p].cutoff /\ q.ids = {} /\ q.upto = purge[p].upto
      /\ q.deleted = purge[p].deleted + Cardinality(ids)
  BY <1>1 DEF PurgeState
<1> HIDE DEF q
<1>6. purge'[p] = q
  BY <1>2 DEF RowTypes
<1>7. PurgeMoves(p)
  BY <1>2, <1>4 DEF PurgeMoves, DeleteBatch, LogsKept
<1> QED BY <1>3, <1>5, <1>6, <1>7 DEF DeleteBatch

LEMMA Stops ==
    ASSUME RowTypes, NEW p \in Purge, StopPurge(p)
    PROVE  /\ PurgeMoves(p) /\ chain' = chain /\ removed' = removed /\ emptied' = emptied
           /\ purge[p].stage \in {"selecting", "deleting"} /\ purge'[p].stage = "stopped"
           /\ purge'[p].cutoff = purge[p].cutoff /\ purge'[p].ids = {}
           /\ purge'[p].deleted = purge[p].deleted /\ purge'[p].upto = purge[p].upto
<1> DEFINE q == [purge[p] EXCEPT !.ids = {}, !.stage = "stopped"]
<1>1. purge[p] \in PurgeState
  BY DEF RowTypes
<1>2. purge' = [purge EXCEPT ![p] = q]
  BY DEF StopPurge, RowTypes
<1>3. q \in PurgeState
  BY <1>1 DEF PurgeState, PurgeStages
<1>4. q.stage = "stopped" /\ q.cutoff = purge[p].cutoff /\ q.ids = {} /\ q.upto = purge[p].upto
      /\ q.deleted = purge[p].deleted
  BY <1>1 DEF PurgeState
<1> HIDE DEF q
<1>5. purge'[p] = q
  BY <1>2 DEF RowTypes
<1> QED BY <1>2, <1>3, <1>4, <1>5 DEF StopPurge, PurgeMoves, LogsKept

\* What is gone after a batch, and by whom.
LEMMA GoneGrows ==
    ASSUME NEW p \in Purge, NEW S, removed' = removed \cup {<<r, p>> : r \in S}
    PROVE  /\ Gone' = Gone \cup S
           /\ GoneBy(p)' = GoneBy(p) \cup {<<r, p>> : r \in S}
           /\ \A q \in Purge \ {p} : GoneBy(q)' = GoneBy(q)
<1> DEFINE T == {<<r, p>> : r \in S}
<1>1. \A x \in T : x[1] \in S /\ x[2] = p
  OBVIOUS
<1>2. \A r \in S : \E x \in T : x[1] = r
  <2> TAKE r \in S
  <2>1. <<r, p>> \in T /\ <<r, p>>[1] = r
    OBVIOUS
  <2> QED BY <2>1
<1>3. removed' = removed \cup T
  OBVIOUS
<1> HIDE DEF T
<1>4. Gone' = Gone \cup S
  BY <1>1, <1>2, <1>3 DEF Gone
<1>5. GoneBy(p)' = GoneBy(p) \cup T
  BY <1>1, <1>3 DEF GoneBy
<1>6. \A q \in Purge \ {p} : GoneBy(q)' = GoneBy(q)
  BY <1>1, <1>3 DEF GoneBy
<1> QED BY <1>4, <1>5, <1>6 DEF T

LEMMA PairsFinite ==
    ASSUME NEW p, NEW S, IsFiniteSet(S)
    PROVE  LET T == {<<r, p>> : r \in S} IN IsFiniteSet(T) /\ Cardinality(T) <= Cardinality(S)
<1> DEFINE T == {<<r, p>> : r \in S}
           f == [r \in S |-> <<r, p>>]
<1>1. f \in Surjection(S, T)
  BY DEF Surjection
<1> HIDE DEF f, T
<1> QED BY <1>1, FS_Surjection DEF T

LEMMA MovedPurge ==
    ASSUME RowTypes, NEW p \in Purge, PurgeMoves(p)
    PROVE  purge' \in [Purge -> PurgeState] /\ \A q \in Purge \ {p} : purge'[q] = purge[q]
BY DEF PurgeMoves, RowTypes

-----------------------------------------------------------------------------
LEMMA RowsStart == RowInit => RowInv
<1> SUFFICES ASSUME RowInit PROVE RowInv
  OBVIOUS
<1> USE RowNumbers DEF RowInit
<1>1. Gone = {} /\ \A p : GoneBy(p) = {}
  BY DEF Gone, GoneBy
<1>2. IsFiniteSet({}) /\ Cardinality({}) = 0
  BY FS_EmptySet
<1>3. None \in Seen
  <2>1. -1 \in Int
    OBVIOUS
  <2> QED BY <2>1 DEF None, Seen
<1>4. \A t \in PurgeStages : LET q == [NotBegun EXCEPT !.stage = t]
                           IN  q \in PurgeState /\ q.stage = t /\ q.ids = {} /\ q.deleted = 0 /\ q.upto = 0
  BY DEF NotBegun, PurgeState
<1>5. \A p \in Purge : /\ purge[p] \in PurgeState /\ purge[p].stage \in {"idle", "nothing"}
                       /\ purge[p].ids = {} /\ purge[p].deleted = 0 /\ purge[p].upto = 0
  <2> SUFFICES ASSUME NEW p \in Purge
               PROVE  /\ purge[p] \in PurgeState /\ purge[p].stage \in {"idle", "nothing"}
                      /\ purge[p].ids = {} /\ purge[p].deleted = 0 /\ purge[p].upto = 0
    OBVIOUS
  <2>1. PICK t \in {"idle", "nothing"} : purge[p] = [NotBegun EXCEPT !.stage = t]
    OBVIOUS
  <2>2. t \in PurgeStages
    BY DEF PurgeStages
  <2> QED BY <1>4, <2>1, <2>2
<1>9. logStage \in [Log -> {"idle", "failed"}] /\ DOMAIN purge = Purge /\ purge = [p \in Purge |-> purge[p]]
  OBVIOUS
<1>10. RowTypes
  BY <1>1, <1>2, <1>3, <1>5, <1>9 DEF RowTypes, LogStages
<1>6. RowsApart /\ RowsClean
  BY <1>1 DEF RowsApart, RowsClean, RowsLinked, SeenAt
<1>7. PurgesAt
  <2> SUFFICES ASSUME NEW p \in Purge PROVE PurgeAt(p)
    BY DEF PurgesAt
  <2>2. Cardinality(GoneBy(p)) = 0
    BY <1>1, <1>2
  <2>3. /\ purge[p].stage \in {"idle", "nothing"} /\ purge[p].ids = {}
        /\ purge[p].deleted = 0 /\ purge[p].upto = 0
    BY <1>5
  <2>4. hashes = 0
    OBVIOUS
  <2> HIDE DEF RowInit
  <2> QED BY <1>2, <2>2, <2>3, <2>4 DEF PurgeAt
<1>8. Stored = {}
  BY <1>9 DEF Stored
<1> QED BY <1>1, <1>2, <1>10, <1>6, <1>7, <1>8 DEF RowInv, RowsCounted, MirroredAt

LEMMA MirrorStays ==
    ASSUME RowTypes, MirroredAt, mirror' = mirror, NEW l \in Log, NEW s \in LogStages,
           logStage' = [logStage EXCEPT ![l] = s],
           logStage[l] \notin {"logged", "mirrored"}, s # "mirrored"
    PROVE  MirroredAt'
<1>1. \A i \in DOMAIN mirror : mirror[i] \in Log
  BY DEF RowTypes
<1>2. \A m \in Log : logStage'[m] = IF m = l THEN s ELSE logStage[m]
  BY DEF RowTypes
<1>3. \A i \in DOMAIN mirror : mirror[i] # l
  BY DEF MirroredAt
<1> QED BY <1>1, <1>2, <1>3 DEF MirroredAt

LEMMA ReadKeeps ==
    ASSUME RowInv, NEW l \in Log, ReadLastBlock(l)
    PROVE  RowInv'
<1> USE DEF RowInv
<1>1. /\ logStage' = [logStage EXCEPT ![l] = "read"] /\ logStage[l] = "idle"
      /\ day' = day /\ chain' = chain /\ hashes' = hashes /\ emptied' = emptied /\ mirror' = mirror
      /\ purge' = purge /\ removed' = removed
  BY ReadSees DEF ReadLastBlock, PurgeKept
<1>2. PICK v \in Seen : /\ lastSeen' = [lastSeen EXCEPT ![l] = v] /\ v.on = day
                 /\ \/ chain = {} /\ v.index = -1 /\ v.hash = 0
                    \/ \E r \in chain : /\ v.index = r.index /\ v.hash = r.hash
                                         /\ \A s \in chain : s.index <= r.index
  BY ReadSees
<1>3. Gone' = Gone /\ \A p : GoneBy(p)' = GoneBy(p)
  BY <1>1 DEF Gone, GoneBy
<1>4. RowTypes'
  BY <1>1, <1>2, <1>3 DEF RowTypes, LogStages
<1>5. -1 <= v.index /\ v.index < v.hash /\ v.hash <= hashes
  BY <1>2, RowFields DEF RowTypes, RowsApart
<1>6. RowsApart'
  BY <1>1, <1>2, <1>3, <1>5 DEF RowsApart, RowTypes
<1>7. RowsClean'
  <2> SUFFICES ASSUME ~emptied PROVE (RowsLinked /\ \A m \in Log : SeenAt(m))'
    BY <1>1 DEF RowsClean
  <2>1. RowsLinked'
    BY <1>1 DEF RowsClean, RowsLinked, Taken, Begun
  <2>2. ASSUME NEW m \in Log, m # l PROVE SeenAt(m)'
    BY <1>1, <1>2, <2>2 DEF RowsClean, SeenAt, Taken, RowTypes
  <2>3. SeenAt(l)'
    <3>1. lastSeen'[l] = v
      BY <1>2 DEF RowTypes
    <3>2. \A r \in chain : r.born <= day /\ (v.index # -1 => r.index <= v.index)
      BY <1>2 DEF RowsApart
    <3> QED BY <1>1, <1>2, <3>1, <3>2 DEF SeenAt, Taken
  <2> QED BY <2>1, <2>2, <2>3
<1>8. PurgesAt'
  BY <1>1, <1>3 DEF PurgesAt, PurgeAt, Expired
<1>9. Stored' = Stored
  BY <1>1 DEF Stored, RowTypes
<1>10. MirroredAt'
  BY <1>1, MirrorStays DEF LogStages
<1> QED BY <1>1, <1>3, <1>4, <1>6, <1>7, <1>8, <1>9, <1>10 DEF RowsCounted

LEMMA FailKeeps ==
    ASSUME RowInv, NEW l \in Log, CommitBlock(l), Taken(lastSeen[l].index + 1)
    PROVE  RowInv'
<1> USE DEF RowInv
<1>1. /\ logStage' = [logStage EXCEPT ![l] = "failed"] /\ logStage[l] = "read"
      /\ day' = day /\ chain' = chain /\ hashes' = hashes /\ emptied' = emptied /\ mirror' = mirror
      /\ purge' = purge /\ removed' = removed /\ lastSeen' = lastSeen
  BY CommitFails DEF CommitBlock, PurgeKept
<1>2. Gone' = Gone /\ \A p : GoneBy(p)' = GoneBy(p)
  BY <1>1 DEF Gone, GoneBy
<1>3. RowTypes'
  BY <1>1, <1>2 DEF RowTypes, LogStages
<1>4. RowsApart'
  BY <1>1, <1>2 DEF RowsApart, RowTypes
<1>5. RowsClean'
  BY <1>1 DEF RowsClean, RowsLinked, SeenAt, Taken, Begun, RowTypes
<1>6. PurgesAt'
  BY <1>1, <1>2 DEF PurgesAt, PurgeAt, Expired
<1>7. Stored' = Stored
  BY <1>1 DEF Stored, RowTypes
<1>8. MirroredAt'
  BY <1>1, MirrorStays DEF LogStages
<1> QED BY <1>1, <1>2, <1>3, <1>4, <1>5, <1>6, <1>7, <1>8 DEF RowsCounted

\* While nothing was deleted from where it adds, who adds a row adds it last.
LEMMA AddsLast ==
    ASSUME RowInv, NEW l \in Log, logStage[l] = "read", ~Taken(lastSeen[l].index + 1), ~emptied
    PROVE  /\ \A s \in chain : s.index <= lastSeen[l].index /\ s.born <= lastSeen[l].on
           /\ \A s \in chain : s.index = lastSeen[l].index => s.hash = lastSeen[l].hash
           /\ chain = {} \/ Taken(lastSeen[l].index)
           /\ \A m \in Log : logStage[m] = "read" =>
                 lastSeen[m].index <= lastSeen[l].index /\ (lastSeen[m].index < lastSeen[l].index => Taken(lastSeen[m].index + 1))
<1> USE DEF RowInv
<1>1. \A m \in Log : SeenAt(m)
  BY DEF RowsClean
<1>2. /\ \A r \in chain : r \in Row /\ r.index \in Nat
      /\ \A m \in Log : lastSeen[m] \in Seen /\ lastSeen[m].index \in Int
  BY RowFields DEF RowTypes
<1>3. \A s \in chain : s.index <= lastSeen[l].index /\ s.born <= lastSeen[l].on
  BY <1>1 DEF SeenAt
<1>4. chain = {} \/ \E r \in chain : r.index = lastSeen[l].index /\ r.hash = lastSeen[l].hash
  <2>1. CASE lastSeen[l].index = -1
    BY <1>2, <1>3, <2>1
  <2> QED BY <1>1, <2>1 DEF SeenAt
<1>5. chain = {} \/ Taken(lastSeen[l].index)
  BY <1>4 DEF Taken
<1>6. \A s \in chain : s.index = lastSeen[l].index => s.hash = lastSeen[l].hash
  BY <1>4 DEF RowsApart
<1>7. ASSUME NEW m \in Log, logStage[m] = "read"
      PROVE  lastSeen[m].index <= lastSeen[l].index /\ (lastSeen[m].index < lastSeen[l].index => Taken(lastSeen[m].index + 1))
  <2>1. -1 <= lastSeen[l].index
    BY DEF RowsApart
  <2>2. lastSeen[m].index <= lastSeen[l].index
    BY <1>1, <1>2, <1>3, <1>7, <2>1 DEF SeenAt
  <2>3. ASSUME lastSeen[m].index < lastSeen[l].index, ~Taken(lastSeen[m].index + 1) PROVE FALSE
    <3>1. \A r \in chain : r.index <= lastSeen[m].index
      BY <1>1, <1>7, <2>3 DEF SeenAt
    <3>2. -1 <= lastSeen[m].index
      BY <1>7 DEF RowsApart
    <3>3. lastSeen[l].index # -1
      BY <1>2, <2>3, <3>2
    <3>4. \E r \in chain : r.index = lastSeen[l].index
      BY <1>1, <3>3 DEF SeenAt
    <3> QED BY <1>2, <2>3, <3>1, <3>4
  <2> QED BY <2>2, <2>3
<1> QED BY <1>3, <1>5, <1>6, <1>7

LEMMA RowCommitKeeps ==
    ASSUME RowInv, NEW l \in Log, CommitBlock(l), ~Taken(lastSeen[l].index + 1)
    PROVE  RowInv'
<1> USE DEF RowInv
<1>1. /\ logStage' = [logStage EXCEPT ![l] = "mirroring"] /\ logStage[l] = "read"
      /\ day' = day /\ hashes' = hashes + 1 /\ emptied' = emptied /\ mirror' = mirror
      /\ purge' = purge /\ removed' = removed /\ lastSeen' = lastSeen
  BY CommitAdds DEF CommitBlock, PurgeKept
<1>2. PICK n \in Row :
         /\ n.index = lastSeen[l].index + 1 /\ n.hash = hashes + 1
         /\ n.prev = lastSeen[l].hash /\ n.born = lastSeen[l].on
         /\ chain' = chain \cup {n} /\ n \notin chain /\ n \notin Gone
  BY CommitAdds
<1>3. Gone' = Gone /\ \A p : GoneBy(p)' = GoneBy(p)
  BY <1>1 DEF Gone, GoneBy
<1>4. IsFiniteSet(chain') /\ Cardinality(chain') = Cardinality(chain) + 1
  BY <1>2, FS_AddElement DEF RowTypes
<1>5. RowTypes'
  BY <1>1, <1>2, <1>3, <1>4 DEF RowTypes, LogStages
<1>6. /\ lastSeen[l] \in Seen /\ hashes \in Nat /\ day \in Nat
      /\ -1 <= lastSeen[l].index /\ lastSeen[l].index < lastSeen[l].hash
      /\ lastSeen[l].hash <= hashes /\ lastSeen[l].on <= day
  BY <1>1 DEF RowTypes, RowsApart
<1>7. RowsApart'
  <2>1. \A r, s \in chain' : r.index = s.index => r = s
    BY <1>2 DEF RowsApart, Taken
  <2>2. n.index < n.hash /\ n.hash <= hashes' /\ n.prev <= hashes' /\ n.born <= day
    BY <1>1, <1>2, <1>6, RowFields
  <2>3. \A h \in Nat : h <= hashes => h <= hashes'
    BY <1>1, <1>6
  <2>4. \A r \in chain \cup Gone : r.hash \in Nat /\ r.prev \in Nat
    BY RowFields DEF RowTypes, Gone
  <2>5. \A r \in chain' : r.index < r.hash /\ r.hash <= hashes' /\ r.prev <= hashes' /\ r.born <= day
    BY <1>2, <2>2, <2>3, <2>4 DEF RowsApart
  <2>6. \A r \in Gone : r.hash <= hashes'
    BY <2>3, <2>4 DEF RowsApart
  <2>7. \A m \in Log : lastSeen[m].hash \in Nat
    BY RowFields DEF RowTypes
  <2>8. \A m \in Log : logStage'[m] = "read" => logStage[m] = "read"
    BY <1>1 DEF RowTypes
  <2> QED BY <1>1, <1>3, <2>1, <2>3, <2>5, <2>6, <2>7, <2>8 DEF RowsApart
<1>8. RowsClean'
  <2> SUFFICES ASSUME ~emptied PROVE (RowsLinked /\ \A m \in Log : SeenAt(m))'
    BY <1>1 DEF RowsClean
  <2>1. /\ \A s \in chain : s.index < n.index /\ s.born <= n.born
        /\ \A s \in chain : s.index = n.index - 1 => s.hash = n.prev
        /\ chain = {} \/ Taken(n.index - 1)
    <3>1. /\ \A s \in chain : s.index <= lastSeen[l].index /\ s.born <= lastSeen[l].on
          /\ \A s \in chain : s.index = lastSeen[l].index => s.hash = lastSeen[l].hash
          /\ chain = {} \/ Taken(lastSeen[l].index)
      BY <1>1, AddsLast
    <3>2. n.index - 1 = lastSeen[l].index /\ lastSeen[l].index \in Int /\ \A s \in chain : s.index \in Nat
      BY <1>2, <1>6, RowFields DEF RowTypes
    <3> QED BY <1>2, <3>1, <3>2
  <2>2. \A r \in chain' : r.index \in Nat
    BY <1>5, RowFields DEF RowTypes
  <2>3. RowsLinked /\ \A m \in Log : SeenAt(m)
    BY DEF RowsClean
  <2>4. \A i : Taken(i) => Taken(i)'
    BY <1>2 DEF Taken
  <2>5. RowsLinked'
    <3> SUFFICES ASSUME NEW r \in chain', NEW s \in chain', s.index < r.index
                 PROVE  /\ s.index = r.index - 1 => r.prev = s.hash
                        /\ s.born <= r.born
                        /\ Taken(r.index - 1)' \/ \E p \in Begun : s.born < purge[p].cutoff
      BY <1>1 DEF RowsLinked, Begun
    <3>1. CASE r = n
      BY <1>2, <2>1, <2>2, <2>4, <3>1
    <3>2. CASE r # n
      <4>1. r \in chain /\ s \in chain
        BY <1>2, <2>1, <2>2, <3>2
      <4> QED BY <2>3, <2>4, <4>1 DEF RowsLinked
    <3> QED BY <3>1, <3>2
  <2>6. ASSUME NEW m \in Log PROVE SeenAt(m)'
    <3> SUFFICES ASSUME logStage'[m] = "read" PROVE SeenAt(m)'
      BY DEF SeenAt
    <3>1. logStage[m] = "read" /\ m # l
      BY <1>1 DEF RowTypes
    <3>2. /\ lastSeen[m].index <= lastSeen[l].index
          /\ lastSeen[m].index < lastSeen[l].index => Taken(lastSeen[m].index + 1)
      BY <1>1, <3>1, AddsLast
    <3>3. lastSeen[m].index \in Int /\ lastSeen[l].index \in Int
      BY RowFields DEF RowTypes
    <3>4. lastSeen[m].index < n.index
      BY <1>2, <3>2, <3>3
    <3>5. Taken(lastSeen[m].index + 1)'
      <4>1. CASE lastSeen[m].index < lastSeen[l].index
        BY <1>1, <2>4, <3>2, <4>1
      <4>2. CASE lastSeen[m].index = lastSeen[l].index
        BY <1>1, <1>2, <4>2 DEF Taken
      <4> QED BY <3>2, <3>3, <4>1, <4>2
    <3>6. \A r \in chain' : r.index <= lastSeen[m].index => r \in chain
      BY <1>2, <2>2, <3>3, <3>4
    <3> QED BY <1>1, <1>2, <2>3, <3>1, <3>5, <3>6 DEF SeenAt
  <2> QED BY <2>5, <2>6
<1>9. PurgesAt'
  <2> SUFFICES ASSUME NEW p \in Purge PROVE PurgeAt(p)'
    BY <1>1 DEF PurgesAt
  <2>1. purge[p] \in PurgeState /\ purge[p].upto \in Nat
    BY RowFields DEF RowTypes
  <2>2. PurgeAt(p)
    BY DEF PurgesAt
  <2>3. purge[p].upto <= hashes' /\ n.hash > purge[p].upto /\ ~(n.hash <= purge[p].upto)
    BY <1>1, <1>2, <1>6, <2>1, <2>2 DEF PurgeAt
  <2>4. Expired(purge[p].cutoff)' \subseteq Expired(purge[p].cutoff) \cup {n}
    BY <1>1, <1>2 DEF Expired
  <2> HIDE DEF RowInv
  <2> QED BY <1>1, <1>3, <2>2, <2>3, <2>4 DEF PurgeAt
<1>10. RowsCounted'
  <2>1. Stored' = Stored \cup {l} /\ l \notin Stored
    BY <1>1 DEF Stored, RowTypes
  <2>2. IsFiniteSet(Stored)
    BY FS_Subset, RowNumbers DEF Stored
  <2>3. Cardinality(Stored') = Cardinality(Stored) + 1
    BY <2>1, <2>2, FS_AddElement
  <2>4. Cardinality(chain) \in Nat /\ Cardinality(Gone) \in Nat
    BY FS_CardinalityType DEF RowTypes
  <2>5. hashes = Cardinality(Stored) /\ hashes = Cardinality(chain) + Cardinality(Gone)
    BY DEF RowsCounted
  <2>6. hashes' = Cardinality(Stored')
    BY <1>1, <2>3, <2>5
  <2>7. hashes' = Cardinality(chain') + Cardinality(Gone')
    BY <1>1, <1>3, <1>4, <2>4, <2>5
  <2> QED BY <2>6, <2>7 DEF RowsCounted
<1>11. MirroredAt'
  BY <1>1, MirrorStays DEF LogStages
<1> QED BY <1>2, <1>3, <1>5, <1>7, <1>8, <1>9, <1>10, <1>11

LEMMA MirrorKeeps ==
    ASSUME RowInv, NEW l \in Log, NEW arrives \in BOOLEAN, NEW answered \in BOOLEAN,
           Mirror(l, arrives, answered)
    PROVE  RowInv'
<1> USE DEF RowInv
<1> DEFINE s == IF arrives /\ answered THEN "mirrored" ELSE "logged"
<1>1. /\ logStage' = [logStage EXCEPT ![l] = s] /\ logStage[l] = "mirroring"
      /\ day' = day /\ chain' = chain /\ hashes' = hashes /\ emptied' = emptied
      /\ purge' = purge /\ removed' = removed /\ lastSeen' = lastSeen
  BY DEF Mirror, PurgeKept
<1>2. s \in {"mirrored", "logged"} /\ (s = "mirrored" => arrives)
  OBVIOUS
<1>3. mirror' = IF arrives THEN Append(mirror, l) ELSE mirror
  BY DEF Mirror
<1> HIDE DEF s
<1>4. Gone' = Gone /\ \A p : GoneBy(p)' = GoneBy(p)
  BY <1>1 DEF Gone, GoneBy
<1>5. RowTypes'
  BY <1>1, <1>2, <1>3, <1>4 DEF RowTypes, LogStages
<1>6. \A m \in Log : logStage'[m] = IF m = l THEN s ELSE logStage[m]
  BY <1>1 DEF RowTypes
<1>7. RowsApart'
  BY <1>1, <1>2, <1>4, <1>6 DEF RowsApart
<1>8. RowsClean'
  BY <1>1, <1>2, <1>6 DEF RowsClean, RowsLinked, SeenAt, Taken, Begun
<1>9. PurgesAt'
  BY <1>1, <1>4 DEF PurgesAt, PurgeAt, Expired
<1>10. Stored' = Stored
  BY <1>1, <1>2, <1>6 DEF Stored
<1>11. MirroredAt'
  <2>1. \A i \in DOMAIN mirror : mirror[i] \in Log /\ mirror[i] # l
    BY <1>1 DEF RowTypes, MirroredAt
  <2>2. CASE ~arrives
    BY <1>2, <1>3, <1>6, <2>1, <2>2 DEF MirroredAt
  <2>3. CASE arrives
    <3>1. /\ DOMAIN mirror' = DOMAIN mirror \cup {Len(mirror) + 1} /\ Len(mirror) + 1 \notin DOMAIN mirror
          /\ mirror'[Len(mirror) + 1] = l /\ \A i \in DOMAIN mirror : mirror'[i] = mirror[i]
      BY <1>3, <2>3 DEF RowTypes
    <3>2. {j \in DOMAIN mirror' : mirror'[j] = l} = {Len(mirror) + 1}
      BY <2>1, <3>1
    <3>3. \A m \in Log \ {l} : {j \in DOMAIN mirror' : mirror'[j] = m} = {j \in DOMAIN mirror : mirror[j] = m}
      BY <3>1
    <3>4. \A i \in DOMAIN mirror' : logStage'[mirror'[i]] \in {"logged", "mirrored"}
      BY <1>2, <1>6, <2>1, <3>1 DEF MirroredAt
    <3>5. ASSUME NEW m \in Log, logStage'[m] = "mirrored"
          PROVE  \E i \in DOMAIN mirror' : {j \in DOMAIN mirror' : mirror'[j] = m} = {i}
      <4>1. CASE m = l
        BY <3>1, <3>2, <4>1
      <4>2. CASE m # l
        <5>1. PICK i \in DOMAIN mirror : {j \in DOMAIN mirror : mirror[j] = m} = {i}
          BY <1>6, <3>5, <4>2 DEF MirroredAt
        <5> QED BY <3>1, <3>3, <4>2, <5>1
      <4> QED BY <4>1, <4>2
    <3> QED BY <3>4, <3>5 DEF MirroredAt
  <2> QED BY <2>2, <2>3
<1> QED BY <1>1, <1>4, <1>5, <1>7, <1>8, <1>9, <1>10, <1>11 DEF RowsCounted

\* What a step of purge_db leaves as it is, if it deletes nothing.
LEMMA PurgeKeeps ==
    ASSUME RowInv, NEW p \in Purge, PurgeMoves(p), chain' = chain, removed' = removed, emptied' = emptied,
           PurgeAt(p)', p \in Begun => p \in Begun',
           purge[p].stage \notin {"idle", "nothing"} =>
              purge'[p].stage \notin {"idle", "nothing"} /\ purge'[p].cutoff = purge[p].cutoff
    PROVE  RowInv'
<1> USE DEF RowInv
<1>1. /\ logStage' = logStage /\ lastSeen' = lastSeen /\ mirror' = mirror /\ day' = day /\ hashes' = hashes
      /\ purge' \in [Purge -> PurgeState] /\ \A q \in Purge \ {p} : purge'[q] = purge[q]
  BY MovedPurge DEF PurgeMoves
<1>2. Gone' = Gone /\ \A q : GoneBy(q)' = GoneBy(q)
  BY DEF Gone, GoneBy
<1>3. RowTypes'
  BY <1>1, <1>2 DEF RowTypes
<1>4. RowsApart'
  BY <1>1, <1>2 DEF RowsApart
<1>5. RowsClean'
  <2> SUFFICES ASSUME ~emptied PROVE (RowsLinked /\ \A m \in Log : SeenAt(m))'
    BY DEF RowsClean
  <2>1. \A q \in Begun : q \in Begun' /\ purge'[q].cutoff = purge[q].cutoff
    BY <1>1 DEF Begun
  <2>2. RowsLinked'
    BY <2>1 DEF RowsClean, RowsLinked, Taken
  <2>3. \A m \in Log : SeenAt(m)'
    BY <1>1 DEF RowsClean, SeenAt, Taken
  <2> QED BY <2>2, <2>3
<1>6. PurgesAt'
  <2>1. ASSUME NEW q \in Purge \ {p} PROVE PurgeAt(q)'
    BY <1>1, <1>2 DEF PurgesAt, PurgeAt, Expired
  <2>2. \A x \in removed : x[2] \in Purge
    BY DEF RowTypes
  <2>3. \A x \in removed : purge'[x[2]].stage \notin {"idle", "nothing"} /\ x[1].born < purge'[x[2]].cutoff
    BY <1>1, <2>2 DEF PurgesAt
  <2> QED BY <2>1, <2>3 DEF PurgesAt
<1>7. Stored' = Stored
  BY <1>1 DEF Stored
<1>8. MirroredAt'
  BY <1>1 DEF MirroredAt
<1> QED BY <1>1, <1>2, <1>3, <1>4, <1>5, <1>6, <1>7, <1>8 DEF RowsCounted

LEMMA StartKeeps ==
    ASSUME RowInv, NEW p \in Purge, StartPurge(p)
    PROVE  RowInv'
<1> USE DEF RowInv
<1>1. purge[p].stage = "idle" /\ day' = day /\ hashes' = hashes
  BY Starts DEF StartPurge, PurgeMoves
<1>2. GoneBy(p)' = GoneBy(p)
  BY Starts DEF GoneBy
<1>3. PurgeAt(p)'
  <2>1. PurgeAt(p)
    BY DEF PurgesAt
  <2>2. day - Keep <= day - Keep
    BY RowNumbers DEF RowTypes
  <2> QED BY <1>1, <1>2, <2>1, <2>2, Starts DEF PurgeAt
<1>4. p \notin Begun
  BY <1>1, Starts DEF Begun
<1> QED BY <1>1, <1>3, <1>4, Starts, PurgeKeeps

LEMMA SelectKeeps ==
    ASSUME RowInv, NEW p \in Purge, SelectBatch(p)
    PROVE  RowInv'
<1> USE DEF RowInv
<1>1. day' = day /\ hashes' = hashes
  BY Selects DEF PurgeMoves
<1>2. GoneBy(p)' = GoneBy(p)
  BY Selects DEF GoneBy
<1>3. /\ purge[p].stage = "selecting" /\ purge'[p].stage \in {"deleting", "over"}
      /\ purge'[p].cutoff = purge[p].cutoff /\ purge'[p].deleted = purge[p].deleted
      /\ purge'[p].upto = hashes /\ IsFiniteSet(purge'[p].ids)
      /\ \A r \in purge'[p].ids : r \in Expired(purge[p].cutoff)
      /\ Cardinality(purge'[p].ids) < Batch => purge'[p].ids = Expired(purge[p].cutoff)
      /\ purge'[p].stage = "over" => Expired(purge[p].cutoff) = {}
  BY Selects
<1>4. PurgeAt(p)'
  <2>1. PurgeAt(p)
    BY DEF PurgesAt
  <2>2. \A r \in Expired(purge[p].cutoff) : r.born < purge[p].cutoff
    BY DEF Expired
  <2>3. hashes <= hashes
    BY DEF RowTypes
  <2>4. {r \in chain' : r.born < purge'[p].cutoff} = Expired(purge[p].cutoff)
    BY <1>3, Selects DEF Expired
  <2> QED BY <1>1, <1>2, <1>3, <2>1, <2>2, <2>3, <2>4 DEF PurgeAt, Expired
<1>5. p \in Begun' /\ purge'[p].stage \notin {"idle", "nothing"}
  BY <1>3 DEF Begun
<1> QED BY <1>3, <1>4, <1>5, Selects, PurgeKeeps

LEMMA StopKeeps ==
    ASSUME RowInv, NEW p \in Purge, StopPurge(p)
    PROVE  RowInv'
<1> USE DEF RowInv
<1>1. day' = day /\ hashes' = hashes
  BY Stops DEF PurgeMoves
<1>2. GoneBy(p)' = GoneBy(p)
  BY Stops DEF GoneBy
<1>3. PurgeAt(p)'
  <2>1. PurgeAt(p)
    BY DEF PurgesAt
  <2>2. purge[p].stage # "idle"
    BY Stops
  <2> QED BY <1>1, <1>2, <2>1, <2>2, Stops, FS_EmptySet DEF PurgeAt
<1>4. p \in Begun' /\ purge'[p].stage \notin {"idle", "nothing"}
  BY Stops DEF Begun
<1> QED BY <1>3, <1>4, Stops, PurgeKeeps

LEMMA DeleteKeeps ==
    ASSUME RowInv, NEW p \in Purge, DeleteBatch(p)
    PROVE  RowInv'
<1> USE DEF RowInv
<1> DEFINE ids == purge[p].ids
           dead == ids \cap chain
<1>1. PurgeAt(p) /\ IsFiniteSet(ids) /\ purge[p] \in PurgeState
  BY DEF PurgesAt, PurgeAt, RowTypes
<1>2. /\ purge[p].stage = "deleting" /\ chain' = chain \ dead
      /\ removed' = removed \cup {<<r, p>> : r \in dead}
      /\ purge'[p].cutoff = purge[p].cutoff /\ purge'[p].deleted = purge[p].deleted + Cardinality(ids)
      /\ purge'[p].upto = purge[p].upto /\ purge'[p].ids = {}
      /\ \/ purge'[p].stage = "selecting"
         \/ purge'[p].stage = "over" /\ Cardinality(ids) < Batch
  BY <1>1, Deletes
<1>3. ~emptied' => /\ ~emptied
                   /\ \A l \in Log, r \in dead : logStage[l] = "read" => r.index - lastSeen[l].index \notin 0..1
  BY <1>1, Deletes
<1>4. /\ logStage' = logStage /\ lastSeen' = lastSeen /\ mirror' = mirror /\ day' = day /\ hashes' = hashes
      /\ purge' \in [Purge -> PurgeState] /\ \A q \in Purge \ {p} : purge'[q] = purge[q]
  BY <1>1, Deletes, MovedPurge DEF PurgeMoves
<1>5. /\ Gone' = Gone \cup dead
      /\ GoneBy(p)' = GoneBy(p) \cup {<<r, p>> : r \in dead}
      /\ \A q \in Purge \ {p} : GoneBy(q)' = GoneBy(q)
  BY <1>2, GoneGrows
<1>6. /\ IsFiniteSet(dead) /\ Cardinality(dead) <= Cardinality(ids)
      /\ dead \subseteq chain /\ dead \in SUBSET Row /\ Cardinality(dead) \in Nat
  BY <1>1, FS_Intersection, FS_CardinalityType DEF RowTypes
<1> HIDE DEF dead
<1>7. IsFiniteSet({<<r, p>> : r \in dead}) /\ Cardinality({<<r, p>> : r \in dead}) <= Cardinality(dead)
  BY <1>6, PairsFinite
<1>8. IsFiniteSet(chain') /\ Cardinality(chain') = Cardinality(chain) - Cardinality(dead)
  <2>1. chain \cap dead = dead
    BY <1>6
  <2>2. /\ IsFiniteSet(chain \ dead)
        /\ Cardinality(chain \ dead) = Cardinality(chain) - Cardinality(chain \cap dead)
    BY FS_Difference DEF RowTypes
  <2>3. chain' = chain \ dead
    BY <1>2
  <2> QED BY <2>1, <2>2, <2>3
<1>9. IsFiniteSet(Gone') /\ Cardinality(Gone') = Cardinality(Gone) + Cardinality(dead)
  <2>1. Gone \cap dead = {} /\ Cardinality({}) = 0 /\ Cardinality(Gone) \in Nat /\ IsFiniteSet(Gone)
    BY <1>6, FS_EmptySet, FS_CardinalityType DEF RowTypes
  <2>2. /\ IsFiniteSet(Gone \cup dead)
        /\ Cardinality(Gone \cup dead) = Cardinality(Gone) + Cardinality(dead) - Cardinality(Gone \cap dead)
    BY <1>6, <2>1, FS_Union
  <2>3. Gone' = Gone \cup dead
    BY <1>5
  <2>4. Cardinality(Gone \cap dead) = 0
    BY <2>1
  <2>5. Cardinality(Gone) \in Nat
    BY <2>1
  <2> HIDE DEF RowInv
  <2> QED BY <1>6, <2>2, <2>3, <2>4, <2>5
<1>10. RowTypes'
  <2>1. removed' \in SUBSET (Row \X Purge)
    BY <1>2, <1>6 DEF RowTypes
  <2>2. IsFiniteSet(removed')
    BY <1>2, <1>7, FS_Union DEF RowTypes
  <2> QED BY <1>2, <1>4, <1>8, <1>9, <2>1, <2>2 DEF RowTypes
<1>11. RowsApart'
  BY <1>2, <1>4, <1>5, <1>6 DEF RowsApart
<1>12. RowsClean'
  <2> SUFFICES ASSUME ~emptied' PROVE (RowsLinked /\ \A m \in Log : SeenAt(m))'
    BY DEF RowsClean
  <2>1. RowsLinked /\ \A m \in Log : SeenAt(m)
    BY <1>3 DEF RowsClean
  <2>2. \A r \in chain : r \in Row /\ r.index \in Nat /\ r.born \in Nat
    BY RowFields DEF RowTypes
  <2>3. \A q \in Begun : q \in Begun' /\ purge'[q].cutoff = purge[q].cutoff
    BY <1>2, <1>4 DEF Begun
  <2>4. p \in Begun' /\ purge'[p].cutoff = purge[p].cutoff /\ purge[p].cutoff \in Int
    BY <1>1, <1>2, RowFields DEF Begun
  <2>5. \A t \in dead : t.born < purge[p].cutoff
    BY <1>1, <1>2 DEF PurgeAt, dead
  <2>6. RowsLinked'
    <3> SUFFICES ASSUME NEW r \in chain', NEW s \in chain', s.index < r.index
                 PROVE  /\ s.index = r.index - 1 => r.prev = s.hash
                        /\ s.born <= r.born
                        /\ Taken(r.index - 1)' \/ \E q \in Begun' : s.born < purge'[q].cutoff
      BY DEF RowsLinked
    <3>1. r \in chain /\ s \in chain
      BY <1>2
    <3>2. /\ s.index = r.index - 1 => r.prev = s.hash
          /\ s.born <= r.born
          /\ Taken(r.index - 1) \/ \E q \in Begun : s.born < purge[q].cutoff
      BY <2>1, <3>1 DEF RowsLinked
    <3>3. CASE Taken(r.index - 1) /\ ~Taken(r.index - 1)'
      <4>1. PICK t \in dead : t.index = r.index - 1
        BY <1>2, <3>3 DEF Taken
      <4>2. t \in chain /\ s # t
        BY <1>2, <1>6, <4>1
      <4>3. s.index < t.index
        <5>1. s.index # t.index
          BY <3>1, <4>2 DEF RowsApart
        <5> QED BY <2>2, <3>1, <4>1, <4>2, <5>1
      <4>4. s.born <= t.born
        BY <2>1, <3>1, <4>2, <4>3 DEF RowsLinked
      <4>5. s.born < purge'[p].cutoff
        BY <2>2, <2>4, <2>5, <3>1, <4>1, <4>2, <4>4
      <4> QED BY <2>4, <3>2, <4>5
    <3>4. CASE Taken(r.index - 1) => Taken(r.index - 1)'
      BY <2>3, <3>2, <3>4
    <3> QED BY <3>3, <3>4
  <2>7. ASSUME NEW l \in Log PROVE SeenAt(l)'
    <3> SUFFICES ASSUME logStage[l] = "read" PROVE SeenAt(l)'
      BY <1>4 DEF SeenAt
    <3>1. lastSeen[l].index \in Int
      BY RowFields DEF RowTypes
    <3>2. \A t \in dead : t.index # lastSeen[l].index /\ t.index # lastSeen[l].index + 1
      BY <1>3, <1>6, <2>2, <3>1
    <3>3. SeenAt(l)
      BY <2>1
    <3> QED BY <1>2, <1>4, <3>2, <3>3 DEF SeenAt, Taken
  <2> QED BY <2>6, <2>7
<1>13. PurgesAt'
  <2>1. ASSUME NEW q \in Purge \ {p} PROVE PurgeAt(q)'
    <3>1. PurgeAt(q) /\ purge'[q] = purge[q] /\ GoneBy(q)' = GoneBy(q)
      BY <1>4, <1>5 DEF PurgesAt
    <3>2. {r \in chain' : r.born < purge'[q].cutoff} \subseteq Expired(purge[q].cutoff)
      BY <1>2, <3>1 DEF Expired
    <3> QED BY <1>4, <3>1, <3>2 DEF PurgeAt, Expired
  <2>2. PurgeAt(p)'
    <3>1. purge[p].deleted \in Nat /\ Cardinality(ids) \in Nat
      BY <1>1, RowFields, FS_CardinalityType
    <3>2. Cardinality(GoneBy(p)') <= purge'[p].deleted
      <4> DEFINE T == {<<r, p>> : r \in dead}
      <4>1. IsFiniteSet(GoneBy(p))
        BY FS_Subset DEF GoneBy, RowTypes
      <4>2. IsFiniteSet(T) /\ Cardinality(T) <= Cardinality(dead)
        BY <1>7
      <4>3. /\ Cardinality(T) \in Nat /\ Cardinality(GoneBy(p)) \in Nat
            /\ IsFiniteSet(GoneBy(p) \cap T) /\ Cardinality(GoneBy(p) \cap T) \in Nat
        BY <4>1, <4>2, FS_CardinalityType, FS_Intersection
      <4>4. Cardinality(GoneBy(p) \cup T) = Cardinality(GoneBy(p)) + Cardinality(T) - Cardinality(GoneBy(p) \cap T)
        BY <4>1, <4>2, FS_Union
      <4>5. Cardinality(GoneBy(p)) <= purge[p].deleted
        BY <1>1 DEF PurgeAt
      <4>6. GoneBy(p)' = GoneBy(p) \cup T
        BY <1>5
      <4> HIDE DEF T
      <4> QED BY <1>2, <1>6, <3>1, <4>2, <4>3, <4>4, <4>5, <4>6
    <3>3. \A r \in chain' : r \notin ids /\ r \in chain
      BY <1>2 DEF dead
    <3>4. purge'[p].stage = "over" => \A r \in chain' : r.born < purge'[p].cutoff => r.hash > purge'[p].upto
      <4> SUFFICES ASSUME purge'[p].stage = "over", NEW r \in chain', r.born < purge'[p].cutoff
                   PROVE  r.hash > purge'[p].upto
        OBVIOUS
      <4>1. r \in Expired(purge[p].cutoff) /\ r \notin ids
        BY <1>2, <3>3 DEF Expired
      <4>2. ~(r.hash <= purge[p].upto)
        BY <1>1, <1>2, <4>1 DEF PurgeAt
      <4>3. r.hash \in Nat /\ purge[p].upto \in Nat
        BY <1>1, <3>3, RowFields DEF RowTypes
      <4> QED BY <1>2, <4>2, <4>3
    <3>5. purge'[p].cutoff <= day - Keep /\ purge'[p].upto <= hashes
      BY <1>1, <1>2 DEF PurgeAt
    <3>6. purge'[p].stage # "deleting" /\ purge'[p].ids = {} /\ IsFiniteSet({})
      BY <1>2, FS_EmptySet
    <3> QED BY <1>4, <3>2, <3>4, <3>5, <3>6 DEF PurgeAt, Expired
  <2>3. \A x \in removed' : x[2] \in Purge /\ (x \in removed \/ (x[2] = p /\ x[1] \in dead))
    BY <1>2 DEF RowTypes
  <2>4. \A x \in removed' : purge'[x[2]].stage \notin {"idle", "nothing"} /\ x[1].born < purge'[x[2]].cutoff
    <3>1. \A t \in dead : t.born < purge[p].cutoff
      BY <1>1, <1>2 DEF PurgeAt, dead
    <3> QED BY <1>2, <1>4, <2>3, <3>1 DEF PurgesAt
  <2> QED BY <2>1, <2>2, <2>4 DEF PurgesAt
<1>14. RowsCounted'
  <2>1. Stored' = Stored
    BY <1>4 DEF Stored
  <2>2. Cardinality(chain) \in Nat /\ Cardinality(Gone) \in Nat
    BY FS_CardinalityType DEF RowTypes
  <2>3. hashes' = Cardinality(chain') + Cardinality(Gone')
    BY <1>4, <1>6, <1>8, <1>9, <2>2 DEF RowsCounted
  <2> QED BY <1>4, <2>1, <2>3 DEF RowsCounted
<1>15. chain' \cap Gone' = {}
  BY <1>2, <1>5
<1>16. MirroredAt'
  BY <1>4 DEF MirroredAt
<1> QED BY <1>10, <1>11, <1>12, <1>13, <1>14, <1>15, <1>16

LEMMA DayKeeps ==
    ASSUME RowInv, NextDay
    PROVE  RowInv'
<1> USE DEF RowInv
<1>1. /\ day \in Nat /\ day < MaxDays /\ day' = day + 1 /\ chain' = chain /\ hashes' = hashes /\ emptied' = emptied
      /\ logStage' = logStage /\ lastSeen' = lastSeen /\ mirror' = mirror /\ purge' = purge /\ removed' = removed
  BY DEF NextDay, LogsKept, PurgeKept, RowTypes
<1>2. Gone' = Gone /\ \A p : GoneBy(p)' = GoneBy(p)
  BY <1>1 DEF Gone, GoneBy
<1>3. RowTypes'
  BY <1>1, <1>2, RowNumbers DEF RowTypes
<1>4. RowsApart'
  <2>1. \A n \in Nat : n <= day => n <= day'
    BY <1>1
  <2>2. (\A r \in chain : r.born \in Nat) /\ (\A l \in Log : lastSeen[l].on \in Nat)
    BY RowFields DEF RowTypes
  <2> QED BY <1>1, <1>2, <2>1, <2>2 DEF RowsApart
<1>5. RowsClean'
  BY <1>1 DEF RowsClean, RowsLinked, SeenAt, Taken, Begun
<1>6. PurgesAt'
  <2>1. \A c \in Int : c <= day - Keep => c <= day' - Keep
    BY <1>1, RowNumbers
  <2>2. \A p \in Purge : purge[p].cutoff \in Int
    BY RowFields DEF RowTypes
  <2> QED BY <1>1, <1>2, <2>1, <2>2 DEF PurgesAt, PurgeAt, Expired
<1>7. Stored' = Stored
  BY <1>1 DEF Stored
<1>8. MirroredAt'
  BY <1>1 DEF MirroredAt
<1> QED BY <1>1, <1>2, <1>3, <1>4, <1>5, <1>6, <1>7, <1>8 DEF RowsCounted

LEMMA RowsInvariant == RowSpec => []RowInv
<1>1. RowInv /\ RowNext => RowInv'
  BY ReadKeeps, FailKeeps, RowCommitKeeps, MirrorKeeps, StartKeeps, SelectKeeps, DeleteKeeps, StopKeeps,
     DayKeeps DEF RowNext
<1>2. RowInv /\ UNCHANGED rowVars => RowInv'
  <2> SUFFICES ASSUME RowInv, UNCHANGED rowVars PROVE RowInv'
    OBVIOUS
  <2> USE DEF RowInv, rowVars
  <2>1. Gone' = Gone /\ (\A p : GoneBy(p)' = GoneBy(p)) /\ Stored' = Stored
    BY DEF Gone, GoneBy, Stored
  <2>2. RowTypes' /\ RowsApart'
    BY <2>1 DEF RowTypes, RowsApart
  <2>3. RowsClean'
    BY DEF RowsClean, RowsLinked, SeenAt, Taken, Begun
  <2>4. PurgesAt'
    BY <2>1 DEF PurgesAt, PurgeAt, Expired
  <2>5. MirroredAt'
    BY DEF MirroredAt
  <2> QED BY <2>1, <2>2, <2>3, <2>4, <2>5 DEF RowsCounted
<1> QED BY <1>1, <1>2, RowsStart, PTL DEF RowSpec

\* The types of the rows, the requests and the calls of purge_db.
THEOREM RowTypeCorrect == RowSpec => []RowTypeOK
<1>1. RowInv => RowTypeOK
  <2> SUFFICES ASSUME RowInv PROVE RowTypeOK
    OBVIOUS
  <2> USE DEF RowInv
  <2>1. hashes \in 0..Cardinality(Log)
    <3>1. Cardinality(Stored) <= Cardinality(Log) /\ Cardinality(Log) \in Nat
      BY FS_Subset, FS_CardinalityType, RowNumbers DEF Stored
    <3> QED BY <3>1 DEF RowsCounted, RowTypes
  <2>2. \A r \in chain : r.hash \in 1..hashes /\ r.prev \in 0..hashes /\ r.born \in 0..MaxDays
    <3> TAKE r \in chain
    <3>1. r.hash \in Nat /\ r.prev \in Nat /\ r.born \in Nat /\ r.index \in Nat
      BY RowFields DEF RowTypes
    <3> QED BY <3>1, RowNumbers DEF RowTypes, RowsApart
  <2>3. \A p \in Purge : purge[p].stage \in PurgeStages
    BY RowFields DEF RowTypes
  <2> QED BY <2>1, <2>2, <2>3, RowNumbers DEF RowTypeOK, RowTypes, LogStages, PurgeStages
<1> QED BY <1>1, RowsInvariant, PTL

\* Whatever calls of purge_db overlap with requests that log an entry, and
\* wherever they stop: the chain verifies once their rows are gone and unless
\* one was deleted from where a request was about to add; entries are stored
\* or deleted, none but expired rows are, and a mirrored one is there once
\* (log_audit_entry, verify_audit_chain, purge_db).
THEOREM PurgesKeepTheChain == RowSpec => []ChainSurvivesPurges
<1>1. RowInv => ChainSurvivesPurges
  <2> SUFFICES ASSUME RowInv PROVE ChainSurvivesPurges
    OBVIOUS
  <2> USE DEF RowInv
  <2>1. \A r \in chain : r \in Row /\ r.index \in Nat /\ r.hash \in Nat /\ r.born \in Nat
    BY RowFields DEF RowTypes
  <2>2. ASSUME \A p \in Begun : Expired(purge[p].cutoff) = {}, ~emptied PROVE Verifies
    <3>1. RowsLinked
      BY <2>2 DEF RowsClean
    <3> SUFFICES ASSUME NEW r \in chain,
                        NEW s \in chain, s.index < r.index \/ (s.index = r.index /\ s.hash < r.hash)
                 PROVE  \E t \in chain : /\ t.index < r.index /\ t.hash = r.prev
                           /\ \A u \in chain : (u.index < r.index \/ (u.index = r.index /\ u.hash < r.hash)) =>
                                 u.index <= t.index /\ (u.index = t.index => u.hash <= t.hash)
      BY DEF Verifies
    <3>2. \A u \in chain : (u.index < r.index \/ (u.index = r.index /\ u.hash < r.hash)) => u.index < r.index
      BY <2>1 DEF RowsApart
    <3>3. s.index < r.index
      BY <3>2
    <3>4. ~\E p \in Begun : s.born < purge[p].cutoff
      BY <2>2 DEF Expired
    <3>5. PICK t \in chain : t.index = r.index - 1
      BY <3>1, <3>3, <3>4 DEF RowsLinked, Taken
    <3>6. t.index < r.index /\ t.hash = r.prev
      BY <2>1, <3>1, <3>5 DEF RowsLinked
    <3>7. ASSUME NEW u \in chain, u.index < r.index
          PROVE  u.index <= t.index /\ (u.index = t.index => u.hash <= t.hash)
      <4>1. u.index <= t.index
        BY <2>1, <3>5, <3>7
      <4>2. u.index = t.index => u = t
        BY DEF RowsApart
      <4> QED BY <2>1, <4>1, <4>2
    <3> QED BY <3>2, <3>6, <3>7
  <2>3. PurgesExact
    <3>1. \A p \in Purge : purge[p].stage = "over" => \A r \in Expired(purge[p].cutoff) : r.hash > purge[p].upto
      BY DEF PurgesAt, PurgeAt
    <3>2. \A x \in removed : x[1].born < purge[x[2]].cutoff /\ ClassifyAge(x[1]) = "expired"
      <4> TAKE x \in removed
      <4>1. x[1] \in Row /\ x[2] \in Purge
        BY DEF RowTypes
      <4>2. x[1].born \in Nat /\ purge[x[2]].cutoff \in Int /\ day \in Nat
        BY <4>1, RowFields DEF RowTypes
      <4>3. x[1].born < purge[x[2]].cutoff /\ purge[x[2]].cutoff <= day - Keep
        BY <4>1 DEF PurgesAt, PurgeAt
      <4>4. day - x[1].born > Keep
        BY <4>2, <4>3, RowNumbers
      <4> QED BY <4>3, <4>4 DEF ClassifyAge
    <3>3. \A p \in Purge : Cardinality(GoneBy(p)) <= purge[p].deleted
      BY DEF PurgesAt, PurgeAt
    <3> QED BY <3>1, <3>2, <3>3 DEF PurgesExact
  <2>4. \A l \in Log : logStage[l] = "mirrored" => Cardinality({i \in DOMAIN mirror : mirror[i] = l}) = 1
    BY FS_Singleton DEF MirroredAt
  <2> QED BY <2>2, <2>3, <2>4 DEF ChainSurvivesPurges
<1> QED BY <1>1, RowsInvariant, PTL

-----------------------------------------------------------------------------
(***************************************************************************)
(* The consents and the pseudonyms, for any owners                         *)
(***************************************************************************)

Consent == [owner : Owner, until : Int, status : {"active", "expired", "revoked"}]
PidState == [now : 0..MaxPids, version : Nat, old : Seq(1..MaxPids)]

ConsentTypes ==
    /\ today \in Nat /\ today <= LastDay
    /\ consents \in Seq(Consent) /\ Len(consents) <= MaxConsents
    /\ listed \in Seq(Int) /\ Len(listed) = Len(consents)
    /\ \A i \in DOMAIN consents : listed[i] <= today
    /\ withdrawn \subseteq DOMAIN consents

\* The pseudonyms of a user come in a row, and each of them once.
PidAt(o) ==
    /\ pids[o].now = 0 => pids[o].old = <<>> /\ pids[o].version = 0
    /\ pids[o].now # 0 => pids[o].version = Len(pids[o].old) + 1
    /\ Cardinality(Older(o)) = Len(pids[o].old) /\ pids[o].now \notin Older(o)

PidsInv ==
    /\ pids \in [Owner -> PidState]
    /\ \A o \in Owner : PidAt(o) /\ \A u \in Owner \ {o} : NamesOf(o) \cap NamesOf(u) = {}

PrivacyInv == ConsentTypes /\ ConsentsKept /\ PidsInv

LEMMA PrivacyNumbers == Durations \subseteq Int /\ MaxConsents \in Nat /\ MaxPids \in Nat /\ LastDay \in Nat
BY PrivacyConstants

LEMMA ConsentFields ==
    \A c \in Consent : c.owner \in Owner /\ c.until \in Int /\ c.status \in {"active", "expired", "revoked"}
BY DEF Consent

LEMMA NotListedYet == NotListed \in Int /\ \A n \in Nat : NotListed <= n
<1>1. -1 \in Int
  OBVIOUS
<1> QED BY <1>1 DEF NotListed

LEMMA PidFields ==
    \A q \in PidState : q.now \in 0..MaxPids /\ q.version \in Nat /\ q.old \in Seq(1..MaxPids)
BY DEF PidState

\* The pseudonyms are among the numbers that there are.
LEMMA FewNames ==
    ASSUME pids \in [Owner -> PidState], NEW o \in Owner
    PROVE  /\ Older(o) \subseteq 1..MaxPids /\ NamesOf(o) \subseteq 1..MaxPids
           /\ IsFiniteSet(1..MaxPids) /\ IsFiniteSet(Older(o)) /\ IsFiniteSet(NamesOf(o))
           /\ Cardinality(NamesOf(o)) \in Nat /\ Cardinality(NamesOf(o)) <= MaxPids
           /\ Cardinality(Older(o)) \in Nat
<1>1. pids[o].old \in Seq(1..MaxPids) /\ pids[o].now \in 0..MaxPids
  BY PidFields
<1>2. Older(o) \subseteq 1..MaxPids
  <2>1. \A i \in DOMAIN pids[o].old : pids[o].old[i] \in 1..MaxPids
    BY <1>1, SeqHas, Zenon
  <2> QED BY <2>1 DEF Older
<1>3. NamesOf(o) \subseteq 1..MaxPids
  BY <1>1, <1>2, PrivacyNumbers DEF NamesOf
<1>4. IsFiniteSet(1..MaxPids) /\ Cardinality(1..MaxPids) = MaxPids
  <2>1. 1 \in Int /\ MaxPids \in Int
    BY PrivacyNumbers
  <2>2. IsFiniteSet(1..MaxPids) /\ Cardinality(1..MaxPids) = IF 1 > MaxPids THEN 0 ELSE MaxPids - 1 + 1
    BY <2>1, FS_Interval
  <2> QED BY <2>2, PrivacyNumbers
<1>5. IsFiniteSet(Older(o)) /\ IsFiniteSet(NamesOf(o)) /\ Cardinality(NamesOf(o)) <= Cardinality(1..MaxPids)
  BY <1>2, <1>3, <1>4, FS_Subset
<1> QED BY <1>2, <1>3, <1>4, <1>5, FS_CardinalityType

\* generate_pid finds a number that nobody has had.
LEMMA FreshName ==
    ASSUME NEW used \in SUBSET (0..MaxPids), Cardinality(used \ {0}) < MaxPids
    PROVE  \E n \in 1..MaxPids : n \notin used
<1> SUFFICES ASSUME \A n \in 1..MaxPids : n \in used PROVE FALSE
  OBVIOUS
<1>1. used \ {0} = 1..MaxPids
  <2>1. \A n \in 0..MaxPids : n # 0 => n \in 1..MaxPids
    BY PrivacyNumbers
  <2>2. \A n \in 1..MaxPids : n # 0
    BY PrivacyNumbers
  <2> QED BY <2>1, <2>2
<1>2. Cardinality(1..MaxPids) = MaxPids
  <2>1. 1 \in Int /\ MaxPids \in Int
    BY PrivacyNumbers
  <2>2. Cardinality(1..MaxPids) = IF 1 > MaxPids THEN 0 ELSE MaxPids - 1 + 1
    BY <2>1, FS_Interval
  <2> QED BY <2>2, PrivacyNumbers
<1>3. Cardinality(used \ {0}) = MaxPids
  BY <1>1, <1>2
<1> QED BY <1>3, PrivacyNumbers
-----------------------------------------------------------------------------
LEMMA PrivacyStarts == PrivacyInit => PrivacyInv
<1> SUFFICES ASSUME PrivacyInit PROVE PrivacyInv
  OBVIOUS
<1>1. ConsentTypes /\ ConsentsKept
  BY PrivacyNumbers DEF PrivacyInit, ConsentTypes, ConsentsKept
<1>2. NoPid \in PidState /\ NoPid.now = 0 /\ NoPid.version = 0 /\ NoPid.old = <<>>
  BY PrivacyNumbers DEF NoPid, PidState
<1>3. \A o \in Owner : pids[o] = NoPid
  BY DEF PrivacyInit
<1>4. \A o \in Owner : Older(o) = {} /\ NamesOf(o) = {}
  BY <1>2, <1>3 DEF Older, NamesOf
<1>5. \A o \in Owner : PidAt(o)
  <2>1. Cardinality({}) = 0 /\ Len(<<>>) = 0
    BY FS_EmptySet
  <2> QED BY <1>2, <1>3, <1>4, <2>1 DEF PidAt
<1>6. pids \in [Owner -> PidState]
  BY <1>2 DEF PrivacyInit
<1> QED BY <1>1, <1>4, <1>5, <1>6 DEF PrivacyInv, PidsInv

LEMMA PidsStay ==
    ASSUME PidsInv, pids' = pids PROVE PidsInv'
<1>1. \A o \in Owner : Older(o)' = Older(o) /\ NamesOf(o)' = NamesOf(o)
  BY DEF Older, NamesOf
<1>2. \A o \in Owner : PidAt(o) => PidAt(o)'
  BY <1>1 DEF PidAt
<1> QED BY <1>1, <1>2 DEF PidsInv

LEMMA GrantKeeps ==
    ASSUME PrivacyInv, NEW o \in Owner, NEW days \in Durations, GrantConsent(o, days)
    PROVE  PrivacyInv'
<1> DEFINE c == [owner |-> o, until |-> today + days, status |-> "active"]
<1>1. /\ Len(consents) < MaxConsents /\ consents' = Append(consents, c) /\ listed' = Append(listed, NotListed)
      /\ today' = today /\ withdrawn' = withdrawn /\ pids' = pids
  BY DEF GrantConsent
<1>2. c \in Consent /\ c.status = "active"
  BY PrivacyNumbers DEF Consent, PrivacyInv, ConsentTypes
<1> HIDE DEF c
<1>3. /\ DOMAIN consents' = DOMAIN consents \cup {Len(consents) + 1} /\ Len(consents) + 1 \notin DOMAIN consents
      /\ Len(consents') = Len(consents) + 1 /\ Len(listed') = Len(consents) + 1 /\ Len(consents) \in Nat
      /\ consents' \in Seq(Consent) /\ listed' \in Seq(Int)
      /\ \A i \in DOMAIN consents : consents'[i] = consents[i] /\ listed'[i] = listed[i]
      /\ consents'[Len(consents) + 1] = c /\ listed'[Len(consents) + 1] = NotListed
  BY <1>1, <1>2, NotListedYet DEF PrivacyInv, ConsentTypes
<1>4. ConsentTypes'
  <2>1. today \in Nat /\ Len(consents') <= MaxConsents
    BY <1>1, <1>3, PrivacyNumbers DEF PrivacyInv, ConsentTypes
  <2>2. \A i \in DOMAIN consents' : listed'[i] <= today
    BY <1>3, <2>1, NotListedYet DEF PrivacyInv, ConsentTypes
  <2> QED BY <1>1, <1>3, <2>1, <2>2 DEF PrivacyInv, ConsentTypes
<1>5. ConsentsKept'
  <2>1. Len(consents) + 1 \notin withdrawn
    BY <1>3 DEF PrivacyInv, ConsentTypes
  <2> QED BY <1>1, <1>2, <1>3, <2>1 DEF PrivacyInv, ConsentsKept
<1> QED BY <1>1, <1>4, <1>5, PidsStay DEF PrivacyInv

LEMMA ListKeeps ==
    ASSUME PrivacyInv, NEW o \in Owner, ListConsents(o)
    PROVE  PrivacyInv'
<1>1. /\ today' = today /\ withdrawn' = withdrawn /\ pids' = pids
      /\ consents' = [i \in DOMAIN consents |->
           IF consents[i].owner = o /\ Ends(consents[i])
           THEN [consents[i] EXCEPT !.status = "expired"] ELSE consents[i]]
      /\ listed' = [i \in DOMAIN consents |-> IF consents[i].owner = o THEN today ELSE listed[i]]
  BY DEF ListConsents
<1>2. /\ consents \in Seq(Consent) /\ Len(consents) \in Nat /\ DOMAIN consents = 1..Len(consents)
      /\ listed \in Seq(Int) /\ DOMAIN listed = DOMAIN consents /\ today \in Nat
      /\ \A i \in DOMAIN consents : consents[i] \in Consent /\ listed[i] \in Int
  BY DEF PrivacyInv, ConsentTypes
<1>3. \A c \in Consent : [c EXCEPT !.status = "expired"] \in Consent
  BY DEF Consent
<1>4. \A i \in DOMAIN consents :
         /\ consents'[i] \in Consent /\ consents'[i].owner = consents[i].owner /\ consents'[i].until = consents[i].until
         /\ consents'[i].status = IF consents[i].owner = o /\ Ends(consents[i]) THEN "expired" ELSE consents[i].status
         /\ listed'[i] = IF consents[i].owner = o THEN today ELSE listed[i]
  <2> TAKE i \in DOMAIN consents
  <2>1. CASE consents[i].owner = o /\ Ends(consents[i])
    <3>1. consents'[i] = [consents[i] EXCEPT !.status = "expired"]
      BY <1>1, <2>1
    <3>2. [consents[i] EXCEPT !.status = "expired"] \in Consent
      BY <1>2, <1>3
    <3> QED BY <1>1, <1>2, <2>1, <3>1, <3>2 DEF Consent
  <2>2. CASE ~(consents[i].owner = o /\ Ends(consents[i]))
    <3>1. consents'[i] = consents[i]
      BY <1>1, <2>2
    <3> QED BY <1>1, <1>2, <2>2, <3>1
  <2> QED BY <2>1, <2>2
<1>5. /\ consents' \in Seq(Consent) /\ listed' \in Seq(Int)
      /\ Len(consents') = Len(consents) /\ Len(listed') = Len(consents)
      /\ DOMAIN consents' = DOMAIN consents
  <2>1. DOMAIN consents' = 1..Len(consents) /\ DOMAIN listed' = 1..Len(consents)
    BY <1>1, <1>2
  <2>2. consents' \in [1..Len(consents) -> Consent] /\ listed' \in [1..Len(consents) -> Int]
    BY <1>1, <1>2, <1>4, <2>1
  <2>3. consents' \in Seq(Consent) /\ listed' \in Seq(Int)
    BY <1>2, <2>2, SeqMade, Zenon
  <2>4. Len(consents') = Len(consents) /\ Len(listed') = Len(consents)
    BY <1>2, <2>1, <2>3
  <2> QED BY <1>2, <2>1, <2>3, <2>4
<1>6. ConsentTypes'
  <2>0. \A i \in DOMAIN consents : listed[i] <= today
    BY DEF PrivacyInv, ConsentTypes
  <2>1. \A i \in DOMAIN consents' : listed'[i] <= today
    <3>1. SUFFICES ASSUME NEW i \in DOMAIN consents PROVE listed'[i] <= today
      BY <1>5
    <3>2. listed'[i] = today \/ listed'[i] = listed[i]
      BY <1>4
    <3>3. today <= today
      BY <1>2
    <3> QED BY <2>0, <3>2, <3>3
  <2> QED BY <1>1, <1>5, <2>1 DEF PrivacyInv, ConsentTypes
<1>7. ConsentsKept'
  <2> SUFFICES ASSUME NEW i \in DOMAIN consents
               PROVE  LET c == consents'[i] IN
                      /\ (c.status = "revoked") = (i \in withdrawn)
                      /\ c.status = "expired" => c.until < listed'[i]
                      /\ c.status = "active" => listed'[i] = NotListed \/ listed'[i] <= c.until
    BY <1>1, <1>5 DEF ConsentsKept
  <2>1. /\ (consents[i].status = "revoked") = (i \in withdrawn)
        /\ consents[i].status = "expired" => consents[i].until < listed[i]
        /\ consents[i].status = "active" => listed[i] = NotListed \/ listed[i] <= consents[i].until
        /\ listed[i] <= today
    BY DEF PrivacyInv, ConsentsKept, ConsentTypes
  <2>2. consents[i].until \in Int /\ listed[i] \in Int /\ today \in Int
    BY <1>2, ConsentFields
  <2>3. CASE consents[i].owner # o
    BY <1>4, <2>1, <2>3
  <2>4. CASE consents[i].owner = o /\ Ends(consents[i])
    BY <1>4, <2>1, <2>2, <2>4 DEF Ends
  <2>5. CASE consents[i].owner = o /\ ~Ends(consents[i])
    <3>1. consents'[i].status = consents[i].status /\ consents'[i].until = consents[i].until /\ listed'[i] = today
      BY <1>4, <2>5
    <3>2. consents[i].status = "active" => today <= consents[i].until
      BY <2>2, <2>5 DEF Ends
    <3>3. consents[i].status = "expired" => consents[i].until < today
      BY <2>1, <2>2
    <3> QED BY <2>1, <3>1, <3>2, <3>3
  <2> QED BY <2>3, <2>4, <2>5
<1> QED BY <1>1, <1>6, <1>7, PidsStay DEF PrivacyInv

LEMMA RevokeKeeps ==
    ASSUME PrivacyInv, NEW o \in Owner, NEW k \in DOMAIN consents, RevokeConsent(o, k)
    PROVE  PrivacyInv'
<1> DEFINE n == [consents[k] EXCEPT !.status = "revoked"]
<1>1. /\ today' = today /\ listed' = listed /\ pids' = pids /\ withdrawn' = withdrawn \cup {k}
      /\ consents' = [consents EXCEPT ![k] = n]
  BY DEF RevokeConsent
<1>2. consents \in Seq(Consent) /\ consents[k] \in Consent
  BY DEF PrivacyInv, ConsentTypes
<1>3. n \in Consent /\ n.status = "revoked"
  BY <1>2 DEF Consent
<1> HIDE DEF n
<1>4. /\ consents' \in Seq(Consent) /\ Len(consents') = Len(consents) /\ DOMAIN consents' = DOMAIN consents
      /\ consents'[k] = n /\ \A i \in DOMAIN consents : i # k => consents'[i] = consents[i]
  BY <1>1, <1>2, <1>3
<1>5. ConsentTypes'
  BY <1>1, <1>4 DEF PrivacyInv, ConsentTypes
<1>6. ConsentsKept'
  BY <1>1, <1>3, <1>4 DEF PrivacyInv, ConsentsKept
<1> QED BY <1>1, <1>5, <1>6, PidsStay DEF PrivacyInv

LEMMA PidKeeps ==
    ASSUME PrivacyInv, NEW o \in Owner, GeneratePid(o)
    PROVE  PrivacyInv'
<1> USE DEF PrivacyInv
<1> DEFINE used  == UNION {{pids[u].now} \cup {pids[u].old[i] : i \in DOMAIN pids[u].old} : u \in Owner}
           fresh == CHOOSE n \in 1..MaxPids : n \notin used
           old   == IF pids[o].now = 0 THEN pids[o].old ELSE Append(pids[o].old, pids[o].now)
           q == [now |-> fresh, version |-> Len(old) + 1, old |-> old]
<1>1. /\ Cardinality(used \ {0}) < MaxPids /\ pids' = [pids EXCEPT ![o] = q]
      /\ today' = today /\ consents' = consents /\ listed' = listed /\ withdrawn' = withdrawn
  BY DEF GeneratePid
<1>2. /\ pids \in [Owner -> PidState] /\ \A u \in Owner : PidAt(u)
      /\ \A u \in Owner : \A v \in Owner \ {u} : NamesOf(u) \cap NamesOf(v) = {}
  BY DEF PidsInv
<1>3. \A u \in Owner : Older(u) \subseteq used /\ pids[u].now \in used /\ NamesOf(u) \subseteq used
  BY DEF Older, NamesOf
<1>4. \A x \in used : \E u \in Owner : x = pids[u].now \/ x \in Older(u)
  BY DEF Older
<1>5. used \in SUBSET (0..MaxPids)
  <2>1. \A u \in Owner : pids[u].now \in 0..MaxPids /\ Older(u) \subseteq 1..MaxPids
    BY <1>2, FewNames, PidFields
  <2>2. 1..MaxPids \subseteq 0..MaxPids
    BY PrivacyNumbers
  <2> HIDE DEF used
  <2> QED BY <1>4, <2>1, <2>2
<1> HIDE DEF used
<1>6. fresh \in 1..MaxPids /\ fresh \notin used
  BY <1>1, <1>5, FreshName
<1> HIDE DEF fresh
<1>7. pids[o].old \in Seq(1..MaxPids) /\ pids[o].now \in 0..MaxPids /\ Len(pids[o].old) \in Nat
  BY <1>2, PidFields
<1>8. old \in Seq(1..MaxPids) /\ Len(old) \in Nat /\ \A x : (\E i \in DOMAIN old : old[i] = x) <=> x \in NamesOf(o)
  <2>1. CASE pids[o].now = 0
    BY <1>7, <2>1 DEF NamesOf, Older
  <2>2. CASE pids[o].now # 0
    <3>1. pids[o].now \in 1..MaxPids
      BY <1>7, <2>2, PrivacyNumbers
    <3>2. old = Append(pids[o].old, pids[o].now)
      BY <2>2
    <3>3. /\ old \in Seq(1..MaxPids) /\ Len(old) = Len(pids[o].old) + 1
          /\ DOMAIN old = DOMAIN pids[o].old \cup {Len(pids[o].old) + 1}
          /\ old[Len(pids[o].old) + 1] = pids[o].now
          /\ \A i \in DOMAIN pids[o].old : old[i] = pids[o].old[i]
      <4>1. /\ Append(pids[o].old, pids[o].now) \in Seq(1..MaxPids)
            /\ Len(Append(pids[o].old, pids[o].now)) = Len(pids[o].old) + 1
            /\ DOMAIN Append(pids[o].old, pids[o].now) = DOMAIN pids[o].old \cup {Len(pids[o].old) + 1}
            /\ Append(pids[o].old, pids[o].now)[Len(pids[o].old) + 1] = pids[o].now
            /\ \A i \in DOMAIN pids[o].old : Append(pids[o].old, pids[o].now)[i] = pids[o].old[i]
        <5> DEFINE S == 1..MaxPids
                   s == pids[o].old
                   x == pids[o].now
        <5>1. s \in Seq(S) /\ x \in S
          BY <1>7, <3>1
        <5> HIDE DEF S, s, x
        <5>2. /\ Append(s, x) \in Seq(S) /\ Len(Append(s, x)) = Len(s) + 1
              /\ DOMAIN Append(s, x) = DOMAIN s \cup {Len(s) + 1}
              /\ Append(s, x)[Len(s) + 1] = x /\ \A i \in DOMAIN s : Append(s, x)[i] = s[i]
          BY <5>1, AppendHas
        <5> QED BY <5>2 DEF S, s, x
      <4> QED BY <4>1, <3>2, Zenon
    <3> HIDE DEF old
    <3> QED BY <1>7, <2>2, <3>3 DEF NamesOf, Older
  <2> QED BY <2>1, <2>2
<1>9. Len(old) = Cardinality(NamesOf(o))
  <2>1. PidAt(o) /\ IsFiniteSet(Older(o))
    BY <1>2, FewNames
  <2>2. CASE pids[o].now = 0
    BY <2>1, <2>2 DEF PidAt, NamesOf
  <2>3. CASE pids[o].now # 0
    <3>1. NamesOf(o) = Older(o) \cup {pids[o].now} /\ pids[o].now \notin Older(o)
      BY <2>1, <2>3 DEF PidAt, NamesOf
    <3>2. Cardinality(NamesOf(o)) = Cardinality(Older(o)) + 1
      BY <2>1, <3>1, FS_AddElement
    <3>3. Len(old) = Len(pids[o].old) + 1
      BY <1>7, <2>3
    <3> QED BY <2>1, <3>2, <3>3 DEF PidAt
  <2> QED BY <2>2, <2>3
<1> HIDE DEF old
<1>10. q \in PidState /\ q.now = fresh /\ q.version = Len(old) + 1 /\ q.old = old
  <2>1. fresh \in 0..MaxPids /\ Len(old) + 1 \in Nat
    BY <1>6, <1>8, PrivacyNumbers
  <2> QED BY <1>8, <2>1 DEF PidState
<1> HIDE DEF q
<1>11. pids' \in [Owner -> PidState] /\ pids'[o] = q /\ \A u \in Owner \ {o} : pids'[u] = pids[u]
  BY <1>1, <1>2, <1>10
<1>12. Older(o)' = NamesOf(o) /\ \A u \in Owner \ {o} : Older(u)' = Older(u) /\ NamesOf(u)' = NamesOf(u)
  <2>1. Older(o)' = NamesOf(o)
    BY <1>8, <1>10, <1>11 DEF Older
  <2> QED BY <1>11, <2>1 DEF Older, NamesOf
<1>13. NamesOf(o)' = NamesOf(o) \cup {fresh} /\ fresh # 0
  BY <1>6, <1>10, <1>11, <1>12, PrivacyNumbers DEF NamesOf
<1>14. \A u \in Owner : PidAt(u)'
  <2>1. PidAt(o)'
    <3>1. fresh \notin NamesOf(o)
      BY <1>3, <1>6
    <3> QED BY <1>9, <1>10, <1>11, <1>12, <1>13, <3>1 DEF PidAt
  <2>2. ASSUME NEW u \in Owner \ {o} PROVE PidAt(u)'
    BY <1>2, <1>11, <1>12 DEF PidAt
  <2> QED BY <2>1, <2>2
<1>15. \A u \in Owner : \A v \in Owner \ {u} : NamesOf(u)' \cap NamesOf(v)' = {}
  BY <1>2, <1>3, <1>6, <1>12, <1>13
<1>16. PidsInv'
  BY <1>11, <1>14, <1>15 DEF PidsInv
<1>17. ConsentTypes' /\ ConsentsKept'
  BY <1>1 DEF ConsentTypes, ConsentsKept
<1> QED BY <1>16, <1>17

LEMMA DashboardElse ==
    ASSUME PrivacyInv, DayEnds \/ RestartDashboard \/ UNCHANGED privacyVars
    PROVE  PrivacyInv'
<1>1. CASE DayEnds
  <2>1. /\ today \in Nat /\ today < LastDay /\ today' = today + 1 /\ consents' = consents /\ listed' = listed
        /\ withdrawn' = withdrawn /\ pids' = pids
    BY <1>1 DEF DayEnds, PrivacyInv, ConsentTypes
  <2>2. \A i \in DOMAIN consents : listed[i] \in Int
    BY DEF PrivacyInv, ConsentTypes
  <2>3. ConsentTypes'
    BY <2>1, <2>2, PrivacyNumbers DEF PrivacyInv, ConsentTypes
  <2> QED BY <2>1, <2>3, PidsStay DEF PrivacyInv, ConsentsKept
<1>2. CASE RestartDashboard
  <2>1. /\ today' = today /\ consents' = <<>> /\ listed' = <<>> /\ withdrawn' = {}
        /\ pids' = [o \in Owner |-> NoPid]
    BY <1>2 DEF RestartDashboard
  <2>2. ConsentTypes' /\ ConsentsKept'
    BY <2>1, PrivacyNumbers DEF PrivacyInv, ConsentTypes, ConsentsKept
  <2>3. NoPid \in PidState /\ NoPid.now = 0 /\ NoPid.version = 0 /\ NoPid.old = <<>>
    BY PrivacyNumbers DEF NoPid, PidState
  <2>4. \A o \in Owner : pids'[o] = NoPid
    BY <2>1
  <2>5. \A o \in Owner : Older(o)' = {} /\ NamesOf(o)' = {}
    BY <2>3, <2>4 DEF Older, NamesOf
  <2>6. \A o \in Owner : PidAt(o)'
    <3>1. Cardinality({}) = 0 /\ Len(<<>>) = 0
      BY FS_EmptySet
    <3> QED BY <2>3, <2>4, <2>5, <3>1 DEF PidAt
  <2>7. pids' \in [Owner -> PidState]
    BY <2>1, <2>3
  <2> QED BY <2>2, <2>5, <2>6, <2>7 DEF PrivacyInv, PidsInv
<1>3. CASE UNCHANGED privacyVars
  BY <1>3, PidsStay DEF privacyVars, PrivacyInv, ConsentTypes, ConsentsKept
<1> QED BY <1>1, <1>2, <1>3

LEMMA PrivacyInvariant == PrivacySpec => []PrivacyInv
<1>1. PrivacyInv /\ [PrivacyNext]_privacyVars => PrivacyInv'
  BY GrantKeeps, ListKeeps, RevokeKeeps, PidKeeps, DashboardElse DEF PrivacyNext
<1> QED BY <1>1, PrivacyStarts, PTL DEF PrivacySpec

\* The page that tries accesses (evaluate_abac, evaluate_data_masking): what it
\* hides grows with what stands against the access.
LEMMA Stricter1 ==
    ASSUME NEW q \in Tried, NEW r \in Tried, Stricter(q, r), AllowedTo(r)
    PROVE  AllowedTo(q)
<1>1. q.clearance \in 1..4 /\ r.clearance \in 1..4 /\ q.sensitivity \in 1..4 /\ r.sensitivity \in 1..4
  BY DEF Tried
<1>2. q.clearance >= q.sensitivity
  BY <1>1 DEF Stricter, AllowedTo
<1>3. q.sensitivity >= 3 => r.sensitivity >= 3
  BY <1>1 DEF Stricter
<1>4. q.sensitivity >= 4 => r.sensitivity >= 4
  BY <1>1 DEF Stricter
<1> QED BY <1>2, <1>3, <1>4 DEF Stricter, AllowedTo

LEMMA Stricter2 ==
    ASSUME NEW q \in Tried, NEW r \in Tried, Stricter(q, r), AllowedTo(r)
    PROVE  MaskedFor(q) \subseteq MaskedFor(r)
<1>1. q.sensitivity \in 1..4 /\ r.sensitivity \in 1..4
  BY DEF Tried
<1>2. AllowedTo(q)
  BY Stricter1
<1>3. q.sensitivity >= 3 => r.sensitivity >= 3
  BY <1>1 DEF Stricter
<1>4. q.outside /\ q.sensitivity >= 3 => r.outside /\ r.sensitivity >= 3
  BY <1>3 DEF Stricter
<1>5. q.role = "viewer" => r.role = "viewer"
  BY DEF Stricter
<1>6. q.mobile /\ q.sensitivity >= 3 => r.mobile /\ r.sensitivity >= 3
  BY <1>3 DEF Stricter
<1> QED BY <1>2, <1>4, <1>5, <1>6 DEF MaskedFor

LEMMA StricterHides == StricterSeesLess
BY Stricter1, Stricter2 DEF StricterSeesLess, SeenBy

\* The types of the consents and the pseudonyms.
THEOREM PrivacyTypeCorrect == PrivacySpec => []PrivacyTypeOK
<1>1. PrivacyInv => PrivacyTypeOK
  <2> SUFFICES ASSUME PrivacyInv PROVE PrivacyTypeOK
    OBVIOUS
  <2>1. today \in 0..LastDay /\ Len(consents) <= MaxConsents
    BY PrivacyNumbers DEF PrivacyInv, ConsentTypes
  <2>2. \A i \in DOMAIN consents : consents[i].owner \in Owner /\ consents[i].status \in {"active", "expired", "revoked"}
    BY ConsentFields DEF PrivacyInv, ConsentTypes
  <2>3. ASSUME NEW o \in Owner PROVE pids[o].now \in 0..MaxPids /\ pids[o].version \in 0..MaxPids
    <3>1. pids \in [Owner -> PidState] /\ PidAt(o) /\ pids[o].now \in 0..MaxPids /\ pids[o].old \in Seq(1..MaxPids)
      BY PidFields DEF PrivacyInv, PidsInv
    <3>2. Cardinality(NamesOf(o)) \in Nat /\ Cardinality(NamesOf(o)) <= MaxPids /\ IsFiniteSet(Older(o))
      BY <3>1, FewNames
    <3>3. pids[o].now # 0 => Cardinality(NamesOf(o)) = Cardinality(Older(o)) + 1
      <4> SUFFICES ASSUME pids[o].now # 0 PROVE Cardinality(NamesOf(o)) = Cardinality(Older(o)) + 1
        OBVIOUS
      <4>1. NamesOf(o) = Older(o) \cup {pids[o].now} /\ pids[o].now \notin Older(o)
        BY <3>1 DEF PidAt, NamesOf
      <4> QED BY <3>2, <4>1, FS_AddElement
    <3> QED BY <3>1, <3>2, <3>3, PrivacyNumbers DEF PidAt
  <2> QED BY <2>1, <2>2, <2>3 DEF PrivacyTypeOK
<1> QED BY <1>1, PrivacyInvariant, PTL

\* A revoked consent stays revoked, an expired one had ended when it was last
\* listed and an active one had not; every pseudonym is of one user, once, and
\* versions count them; and who has less to show for an access sees no more
\* (grant_mydata_consent to generate_pid, evaluate_abac).
THEOREM PrivacyIsKept == PrivacySpec => []PrivacyHolds
<1>1. PrivacyInv => PrivacyHolds
  <2> SUFFICES ASSUME PrivacyInv PROVE PrivacyHolds
    OBVIOUS
  <2>1. ASSUME NEW o \in Owner PROVE pids[o].version = Cardinality(NamesOf(o))
    <3>1. PidAt(o) /\ IsFiniteSet(Older(o))
      BY FewNames DEF PrivacyInv, PidsInv
    <3>2. CASE pids[o].now = 0
      <4>1. NamesOf(o) = {}
        BY <3>1, <3>2 DEF PidAt, NamesOf, Older
      <4> QED BY <3>1, <3>2, <4>1, FS_EmptySet DEF PidAt
    <3>3. CASE pids[o].now # 0
      <4>1. NamesOf(o) = Older(o) \cup {pids[o].now} /\ pids[o].now \notin Older(o)
        BY <3>1, <3>3 DEF PidAt, NamesOf
      <4>2. Cardinality(NamesOf(o)) = Cardinality(Older(o)) + 1
        BY <3>1, <4>1, FS_AddElement
      <4> QED BY <3>1, <3>3, <4>2 DEF PidAt
    <3> QED BY <3>2, <3>3
  <2>2. PidsApart
    BY <2>1 DEF PidsApart, PrivacyInv, PidsInv
  <2> QED BY <2>2, StricterHides DEF PrivacyHolds, PrivacyInv
<1> QED BY <1>1, PrivacyInvariant, PTL

-----------------------------------------------------------------------------
(***************************************************************************)
(* The policy file, for any texts                                          *)
(***************************************************************************)

FileState == [there : BOOLEAN, text : Texts \cup {"bad", "empty"}, mtime : Nat]
PolicyState == [cached : Texts \cup {"none"}, mtime : Nat, error : BOOLEAN]
CallState == [kind : {"none", "get", "force"}, mtime : Nat]
ToldState == [what : Texts \cup {"none"}, still : BOOLEAN]

FileTypes ==
    /\ tick \in Nat /\ 1 <= tick /\ tick <= MaxTicks /\ file \in FileState /\ policy \in PolicyState
    /\ call \in CallState /\ told \in ToldState
    /\ lastGood \in Texts \cup {"none"}

\* Times only grow; what is kept with a time was read at it or later.
FileTimes ==
    /\ 1 <= file.mtime /\ file.mtime <= tick /\ policy.mtime <= file.mtime /\ call.mtime <= file.mtime
    /\ call # NoCall => call.kind # "none" /\ call.mtime > 0
    /\ policy.mtime > 0 => policy.cached # "none"

\* What is told of a file that has stood still since.
FileTold ==
    /\ (~blurred /\ told.still /\ file.there /\ file.text \in Texts) => told.what = file.text
    /\ (told.still /\ file.there /\ told.what = "none") => file.text \notin Texts /\ policy.cached = "none"

FileInv ==
    /\ FileTypes /\ FileTimes /\ FileTold
    /\ policy.cached = lastGood
    /\ (~blurred /\ file.mtime = policy.mtime) => policy.cached = file.text

LEMMA FileConstants ==
    /\ "bad" \notin Texts /\ "empty" \notin Texts /\ "none" \notin Texts
    /\ MaxTicks \in Nat /\ 1 <= MaxTicks
BY PolicyFileConstants

LEMMA FileStarts == FileInit => FileInv
BY FileConstants
   DEF FileInit, FileInv, FileTypes, FileTimes, FileTold, FileState, PolicyState, CallState,
       ToldState, NoCall, Unread

\* Stat without a file, of one that was read, and of one that is to be read.
LEMMA FileLooks ==
    ASSUME FileInv, NEW kind \in {"get", "force"}, Stat(kind)
    PROVE  FileInv'
<1> USE FileConstants DEF FileInv, FileTypes, FileTimes, FileTold, FileState, PolicyState,
        CallState, ToldState, NoCall, Stat, Returned
<1>1. CASE ~file.there
  <2>1. file' = file /\ tick' = tick /\ blurred' = blurred /\ lastGood' = lastGood /\ call' = call
    BY <1>1
  <2>2. policy' \in PolicyState /\ policy'.cached = policy.cached /\ policy'.mtime = policy.mtime
    BY <1>1
  <2>3. told' \in ToldState
    <3>1. CASE kind = "get"
      <4>1. told' = [what |-> "none", still |-> TRUE]
        BY <1>1, <3>1
      <4> QED BY <4>1
    <3>2. CASE kind # "get"
      BY <1>1, <3>2
    <3> QED BY <3>1, <3>2
  <2>4. (FileTypes /\ FileTimes)'
    BY <2>1, <2>2, <2>3
  <2>5. FileTold'
    BY <1>1, <2>1, <2>2
  <2> QED BY <2>1, <2>2, <2>4, <2>5
<1>2. CASE file.there /\ kind = "get" /\ file.mtime = policy.mtime
  <2>1. file' = file /\ tick' = tick /\ blurred' = blurred /\ lastGood' = lastGood /\ call' = call
        /\ policy' = policy /\ told' = [what |-> policy.cached, still |-> TRUE]
    BY <1>2
  <2>2. told' \in ToldState /\ told'.what = policy.cached /\ told'.still = TRUE
    BY <2>1
  <2>3. (FileTypes /\ FileTimes)'
    BY <2>1, <2>2
  <2>4. FileTold'
    BY <1>2, <2>1, <2>2
  <2> QED BY <2>1, <2>3, <2>4
<1>3. CASE file.there /\ ~(kind = "get" /\ file.mtime = policy.mtime)
  <2>1. file' = file /\ tick' = tick /\ blurred' = blurred /\ lastGood' = lastGood
        /\ policy' = policy /\ told' = told /\ call' = [kind |-> kind, mtime |-> file.mtime]
    BY <1>3
  <2> QED BY <2>1
<1> QED BY <1>1, <1>2, <1>3

LEMMA FileReads ==
    ASSUME FileInv, ReadFile
    PROVE  FileInv'
<1> USE FileConstants DEF FileInv, FileTypes, FileTimes, FileTold, FileState, PolicyState,
        CallState, ToldState, NoCall, Returned
<1> DEFINE read == IF file.there THEN file.text ELSE "bad"
<1>1. /\ file' = file /\ tick' = tick /\ blurred' = blurred /\ call' = NoCall
      /\ policy' = Took(read) /\ lastGood' = IF read \in Texts THEN read ELSE lastGood
  BY DEF ReadFile
<1>2. told' = [what |-> policy'.cached, still |-> file.there /\ file.mtime = call.mtime] \/ told' = told
  BY DEF ReadFile
<1>3. call.kind # "none" /\ call.mtime > 0
  BY DEF ReadFile
<1>4. /\ policy' \in PolicyState /\ policy'.cached = lastGood' /\ policy'.mtime <= file.mtime
      /\ lastGood' \in Texts \cup {"none"} /\ (policy'.mtime > 0 => policy'.cached # "none")
  <2>1. CASE read \in Texts
    BY <1>1, <1>3, <2>1 DEF Took
  <2>2. CASE read \notin Texts
    BY <1>1, <2>2 DEF Took
  <2> QED BY <2>1, <2>2
<1>5. told' \in ToldState
  <2>1. policy'.cached \in Texts \cup {"none"}
    BY <1>4
  <2>2. (file.there /\ file.mtime = call.mtime) \in BOOLEAN
    OBVIOUS
  <2>3. CASE told' = [what |-> policy'.cached, still |-> file.there /\ file.mtime = call.mtime]
    BY <2>1, <2>2, <2>3, Zenon
  <2> QED BY <1>2, <2>3
<1>6. (FileTypes /\ FileTimes)'
  BY <1>1, <1>4, <1>5
<1>7. (~blurred /\ file.mtime = policy'.mtime) => policy'.cached = file.text
  BY <1>1, <1>3 DEF Took
<1>8. /\ file.there /\ file.text \in Texts => policy'.cached = file.text
      /\ file.there /\ policy'.cached = "none" => file.text \notin Texts
      /\ policy.cached = "none" /\ (~file.there \/ file.text \notin Texts) => policy'.cached = "none"
  BY <1>1 DEF Took
<1>9. FileTold'
  <2>1. CASE told' = told
    BY <1>1, <1>8, <2>1
  <2>2. CASE told' = [what |-> policy'.cached, still |-> file.there /\ file.mtime = call.mtime]
    <3>1. told'.what = policy'.cached
      BY <2>2
    <3> QED BY <1>1, <1>8, <3>1
  <2> QED BY <1>2, <2>1, <2>2
<1> QED BY <1>1, <1>4, <1>6, <1>7, <1>9

LEMMA FileEdited ==
    ASSUME FileInv, NEW text \in Texts \cup {"bad", "empty"}, Edit(text)
    PROVE  FileInv'
<1> USE FileConstants DEF FileInv, FileTypes, FileTimes, FileTold, FileState, PolicyState,
        CallState, ToldState, NoCall
<1>1. /\ file' = [there |-> TRUE, text |-> text, mtime |-> tick] /\ tick' = tick
      /\ policy' = policy /\ call' = call /\ lastGood' = lastGood
      /\ told' = [told EXCEPT !.still = FALSE]
  BY DEF Edit
<1>2. file' \in FileState /\ file'.mtime = tick /\ file'.text = text
  BY <1>1
<1>3. told' \in ToldState /\ told'.still = FALSE
  BY <1>1
<1>4. (FileTypes /\ FileTimes)'
  BY <1>1, <1>2, <1>3
<1>5. ~blurred' => ~blurred /\ (file.mtime = tick => text = file.text)
  BY DEF Edit
<1>6. (~blurred' /\ file'.mtime = policy'.mtime) => policy'.cached = file'.text
  BY <1>1, <1>2, <1>5
<1> QED BY <1>1, <1>3, <1>4, <1>6

LEMMA FileElse ==
    ASSUME FileInv, RemoveFile \/ Tick \/ Remade \/ UNCHANGED fileVars
    PROVE  FileInv'
<1> USE FileConstants DEF FileInv, FileTypes, FileTimes, FileTold, FileState, PolicyState,
        CallState, ToldState, NoCall
<1>1. CASE RemoveFile
  BY <1>1 DEF RemoveFile
<1>2. CASE Tick
  BY <1>2 DEF Tick
<1>3. CASE Remade
  <2>1. /\ policy' = Unread /\ call' = NoCall /\ lastGood' = "none" /\ file' = file
        /\ tick' = tick /\ told' = [told EXCEPT !.still = FALSE]
    BY <1>3 DEF Remade
  <2>2. told' \in ToldState /\ told'.still = FALSE
    BY <2>1
  <2>3. policy' \in PolicyState /\ policy'.mtime = 0 /\ policy'.cached = "none"
    BY <2>1 DEF Unread
  <2> QED BY <2>1, <2>2, <2>3
<1>4. CASE UNCHANGED fileVars
  BY <1>4 DEF fileVars
<1> QED BY <1>1, <1>2, <1>3, <1>4

LEMMA FileInvariant == FileSpec => []FileInv
<1>1. FileInv /\ [FileNext]_fileVars => FileInv'
  BY FileLooks, FileReads, FileEdited, FileElse DEF FileNext
<1> QED BY <1>1, FileStarts, PTL DEF FileSpec

\* The types of the file, the object and the call, for any texts and times
\* (policy_loader.py).
THEOREM FileTypeCorrect == FileSpec => []FileTypeOK
<1>1. FileInv => FileTypeOK
  BY DEF FileInv, FileTypes, FileTimes, FileTypeOK, FileState, PolicyState, CallState
<1> QED BY <1>1, FileInvariant, PTL

\* The policy that is cached is the last that could be read, and is what the
\* file says wherever the times are the same, although the file may be edited
\* between the look at its time and the read (PolicyLoader.get, force_reload).
THEOREM PolicyIsTheFile == FileSpec => []ReloadsHold
<1>1. FileInv => ReloadsHold
  BY FileConstants
     DEF FileInv, FileTypes, FileTimes, FileTold, ReloadsHold, FileState, PolicyState, ToldState
<1> QED BY <1>1, FileInvariant, PTL

-----------------------------------------------------------------------------
(***************************************************************************)
(* The tags and what is concluded, for any requests and payments           *)
(***************************************************************************)

Tag == [emotion : {b.emotion : b \in Bodies}, intensity : 1..5]
MoodStages == {"new", "found", "failed", "stored", "answered"}

MoodTypes ==
    /\ hour \in Hours /\ tags \in [Ids -> Tag \cup {Untagged}]
    /\ body \in [Tagging -> Bodies \cup {NoBody}]
    /\ tagStage \in [Tagging -> MoodStages] /\ found \in [Tagging -> Tag \cup {Untagged}]
    /\ failures \in Seq(Tagging) /\ Len(failures) <= FailuresKept
    /\ crossed \subseteq {b.of : b \in Bodies}
    /\ kept \in Seq(Tagging) /\ \A w \in warned : w[3] \in Nat

\* What a request has found, once its body is read.
FoundAt(t) ==
    /\ tagStage[t] \in {"found", "failed", "stored", "answered"} => body[t] \in Bodies
    /\ (tagStage[t] = "found" /\ body[t].of \in Ids) =>
          /\ found[t] # Untagged => tags[body[t].of] # Untagged
          /\ body[t].of \notin crossed =>
                /\ found[t] = tags[body[t].of]
                /\ \A s \in Tagging \ {t} : tagStage[s] = "found" => body[s].of # body[t].of

KeptAt == \A i \in DOMAIN kept : tagStage[kept[i]] \in {"stored", "answered"}

MoodInv ==
    /\ MoodTypes /\ \A t \in Tagging : FoundAt(t)
    /\ KeptAt /\ TagsAgree /\ WarningsAreMeant

LEMMA MoodNumbers ==
    /\ IsFiniteSet(Payments) /\ Hours \subseteq Nat /\ Hours # {} /\ FailuresKept \in Nat
    /\ \A b \in Bodies : b.emotion # "none" /\ b.intensity \in Nat /\ 1 <= b.intensity /\ b.intensity <= 5
BY MoodConstants

LEMMA TagFields ==
    /\ Untagged \notin Tag /\ Untagged.emotion = "none" /\ Untagged.intensity = 0
    /\ \A r \in Tag : /\ r.emotion # "none" /\ r.emotion \in {b.emotion : b \in Bodies}
                      /\ r.intensity \in Nat /\ 1 <= r.intensity /\ r.intensity <= 5
<1>1. \A r \in Tag : /\ r.emotion # "none" /\ r.emotion \in {b.emotion : b \in Bodies}
                     /\ r.intensity \in Nat /\ 1 <= r.intensity /\ r.intensity <= 5
  BY MoodNumbers DEF Tag
<1>2. Untagged.emotion = "none" /\ Untagged.intensity = 0
  BY DEF Untagged
<1> QED BY <1>1, <1>2

LEMMA SentTag == \A b \in Bodies : [emotion |-> b.emotion, intensity |-> b.intensity] \in Tag
BY MoodConstants DEF Tag

\* The risk is a number.
LEMMA StressedFinite ==
    ASSUME NEW of, NEW h
    PROVE  Stressed(of, h) \subseteq Payments /\ IsFiniteSet(Stressed(of, h))
<1>1. Stressed(of, h) \subseteq Payments
  BY DEF Stressed
<1> QED BY <1>1, MoodNumbers, FS_Subset

LEMMA IntensityIsSum ==
    ASSUME NEW of \in [Ids -> Tag \cup {Untagged}], NEW on \in SUBSET Payments
    PROVE  LET f == [p \in Payments |-> of[p.id].intensity]
           IN  f \in [Payments -> Int] /\ Intensity(of, on) = SumOf(f, on)
<1> DEFINE f == [p \in Payments |-> of[p.id].intensity]
           IsIt(g) == g = [s \in SUBSET on |-> IF s = {} THEN 0 ELSE of[AnyOf(s).id].intensity + g[s \ {AnyOf(s)}]]
<1>1. f \in [Payments -> Int]
  <2>1. ASSUME NEW p \in Payments PROVE of[p.id].intensity \in Int
    <3>1. p.id \in Ids
      BY DEF Ids
    <3> QED BY <3>1, TagFields
  <2> QED BY <2>1
<1>2. IsFiniteSet(on)
  BY MoodNumbers, FS_Subset
<1>3. ASSUME NEW g PROVE IsSum(g, f, on) <=> IsIt(g)
  <2>1. \A s \in SUBSET on : s # {} => f[AnyOf(s)] = of[AnyOf(s).id].intensity
    BY FirstIn
  <2> HIDE DEF f
  <2> QED BY <2>1 DEF IsSum
<1>4. PICK g : IsSum(g, f, on)
  <2> HIDE DEF f, IsIt
  <2> QED BY <1>1, <1>2, SumExists
<1>5. \E h : IsIt(h)
  BY <1>3, <1>4
<1>6. \E h : IsIt(h) /\ Intensity(of, on) = h[on]
  BY <1>5, ZenonT(30) DEF Intensity, MapThenSumSet, MapThenFoldSet, AnyOf
<1> HIDE DEF f, IsIt
<1>7. PICK h : IsIt(h) /\ Intensity(of, on) = h[on]
  BY <1>6
<1>8. IsSum(h, f, on)
  BY <1>3, <1>7
<1>9. SumOf(f, on) = h[on]
  BY <1>1, <1>2, <1>8, SumUnfolds
<1> QED BY <1>1, <1>7, <1>9 DEF f

LEMMA HourWeightIs == \A h \in Nat : HourWeight(h) \in Nat
<1> SUFFICES ASSUME NEW h \in Nat PROVE HourWeight(h) \in Nat
  OBVIOUS
<1> DEFINE bands == {<<0, 1800>>, <<6, 1200>>, <<11, 600>>, <<17, 1800>>, <<21, 2400>>}
           begun == {b \in bands : b[1] <= h % 24}
<1>1. <<0, 1800>> \in begun
  <2>1. h % 24 \in Nat
    OBVIOUS
  <2> QED BY <2>1
<1>2. \A b \in begun : b[1] \in Nat /\ b[2] \in Nat
  OBVIOUS
<1>3. \E b \in begun : \A c \in begun : c[1] <= b[1]
  <2>1. \A x, y \in begun : x[1] <= y[1] \/ y[1] <= x[1]
    BY <1>2
  <2>2. CASE <<21, 2400>> \in begun
    BY <2>2
  <2>3. CASE <<21, 2400>> \notin begun /\ <<17, 1800>> \in begun
    BY <2>3
  <2>4. CASE <<21, 2400>> \notin begun /\ <<17, 1800>> \notin begun /\ <<11, 600>> \in begun
    BY <2>4
  <2>5. CASE <<21, 2400>> \notin begun /\ <<17, 1800>> \notin begun /\ <<11, 600>> \notin begun /\ <<6, 1200>> \in begun
    BY <2>5
  <2>6. CASE <<21, 2400>> \notin begun /\ <<17, 1800>> \notin begun /\ <<11, 600>> \notin begun /\ <<6, 1200>> \notin begun
    BY <1>1, <2>6
  <2> QED BY <2>2, <2>3, <2>4, <2>5, <2>6
<1> HIDE DEF begun
<1>4. (CHOOSE b \in begun : \A c \in begun : c[1] <= b[1]) \in begun
  BY <1>3
<1>5. (CHOOSE b \in begun : \A c \in begun : c[1] <= b[1])[2] \in Nat
  BY <1>2, <1>4
<1> QED BY <1>5 DEF HourWeight, begun

LEMMA IntensityBounds ==
    ASSUME NEW of \in [Ids -> Tag \cup {Untagged}], NEW h
    PROVE  LET on == Stressed(of, h)
           IN  /\ Cardinality(on) \in Nat /\ Intensity(of, on) \in Int /\ (Cardinality(on) = 0 <=> on = {})
               /\ Cardinality(on) <= Intensity(of, on) /\ Intensity(of, on) <= 5 * Cardinality(on)
<1> DEFINE on == Stressed(of, h)
           f == [p \in Payments |-> of[p.id].intensity]
<1>1. on \in SUBSET Payments /\ IsFiniteSet(on)
  BY StressedFinite
<1>2. f \in [Payments -> Int] /\ Intensity(of, on) = SumOf(f, on)
  BY <1>1, IntensityIsSum
<1>3. \A p \in on : 1 <= f[p] /\ f[p] <= 5
  <2>1. ASSUME NEW p \in on PROVE 1 <= f[p] /\ f[p] <= 5
    <3>1. p \in Payments /\ p.id \in Ids /\ of[p.id].emotion \in {"stressed", "impulse"}
      BY DEF Stressed, Ids
    <3>2. of[p.id] \in Tag
      BY <3>1, TagFields
    <3>3. f[p] = of[p.id].intensity
      BY <3>1
    <3> QED BY <3>2, <3>3, TagFields
  <2> QED BY <2>1
<1> HIDE DEF on, f
<1>4. Cardinality(on) \in Nat /\ (Cardinality(on) = 0 <=> on = {})
  BY <1>1, FS_CardinalityType, FS_EmptySet
<1>5. SumOf(f, on) \in Int
  BY <1>1, <1>2, SumInt
<1>6. 1 * Cardinality(on) <= SumOf(f, on)
  BY <1>1, <1>2, <1>3, SumAtLeast
<1>7. SumOf(f, on) <= 5 * Cardinality(on)
  BY <1>1, <1>2, <1>3, SumAtMost
<1>8. Cardinality(on) <= SumOf(f, on)
  BY <1>4, <1>5, <1>6
<1> QED BY <1>2, <1>4, <1>5, <1>7, <1>8 DEF on

LEMMA StressIs ==
    ASSUME NEW of \in [Ids -> Tag \cup {Untagged}], NEW h
    PROVE  LET on == Stressed(of, h)
           IN  /\ StressWeight(of, h) \in Int /\ (on = {} => StressWeight(of, h) = 0)
               /\ Cardinality(on) \in 1..3 => StressWeight(of, h) = 96 * Intensity(of, on)
               /\ Cardinality(on) = 4 => StressWeight(of, h) = 90 * Intensity(of, on)
<1> DEFINE on == Stressed(of, h)
           n == Cardinality(on)
           s == Intensity(of, on)
<1>1. n \in Nat /\ s \in Int /\ (n = 0 <=> on = {})
  BY IntensityBounds
<1>2. StressWeight(of, h) = IF on = {} THEN 0 ELSE (Smaller(30, 8 * n) * s * 12) \div n
  BY DEF StressWeight
<1> HIDE DEF n, s, on
<1>3. CASE n = 0
  BY <1>1, <1>2, <1>3 DEF n, s, on
<1>4. CASE n = 1
  <2>1. StressWeight(of, h) = (8 * s * 12) \div 1
    BY <1>1, <1>2, <1>4 DEF Smaller
  <2>2. StressWeight(of, h) = 96 * s
    BY <1>1, <2>1
  <2> QED BY <1>1, <1>4, <2>2 DEF n, s, on
<1>5. CASE n = 2
  <2>1. StressWeight(of, h) = (16 * s * 12) \div 2
    BY <1>1, <1>2, <1>5 DEF Smaller
  <2>2. StressWeight(of, h) = 96 * s
    BY <1>1, <2>1
  <2> QED BY <1>1, <1>5, <2>2 DEF n, s, on
<1>6. CASE n = 3
  <2>1. StressWeight(of, h) = (24 * s * 12) \div 3
    BY <1>1, <1>2, <1>6 DEF Smaller
  <2>2. StressWeight(of, h) = 96 * s
    BY <1>1, <2>1
  <2> QED BY <1>1, <1>6, <2>2 DEF n, s, on
<1>7. CASE n = 4
  <2>1. StressWeight(of, h) = (30 * s * 12) \div 4
    BY <1>1, <1>2, <1>7 DEF Smaller
  <2>2. StressWeight(of, h) = 90 * s
    BY <1>1, <2>1
  <2> QED BY <1>1, <1>7, <2>2 DEF n, s, on
<1>8. CASE n > 4
  <2>1. StressWeight(of, h) = (30 * s * 12) \div n
    BY <1>1, <1>2, <1>8 DEF Smaller
  <2>2. StressWeight(of, h) \in Int
    BY <1>1, <1>8, <2>1
  <2> QED BY <1>1, <1>8, <2>2 DEF n, s, on
<1> QED BY <1>1, <1>3, <1>4, <1>5, <1>6, <1>7, <1>8

LEMMA RiskIs ==
    ASSUME NEW of \in [Ids -> Tag \cup {Untagged}], NEW h \in Nat
    PROVE  Risk(of, h) \in Int
<1>1. HourWeight(h) \in Int /\ StressWeight(of, h) \in Int
  BY HourWeightIs, StressIs
<1> QED BY <1>1 DEF Risk, Smaller

\* One more tag that tells of stress, or a stronger one.
LEMMA MoreStress ==
    ASSUME NEW of \in [Ids -> Tag \cup {Untagged}], NEW h \in Nat, NEW p \in Payments, NEW r \in Tag,
           r.emotion = "stressed", r.intensity >= of[p.id].intensity,
           Cardinality(Stressed([of EXCEPT ![p.id] = r], h)) <= 4
    PROVE  Risk([of EXCEPT ![p.id] = r], h) >= Risk(of, h)
<1> DEFINE more == [of EXCEPT ![p.id] = r]
           on == Stressed(of, h)
           then == Stressed(more, h)
           f == [q \in Payments |-> of[q.id].intensity]
           g == [q \in Payments |-> more[q.id].intensity]
<1>1. p.id \in Ids
  BY DEF Ids
<1>2. /\ more \in [Ids -> Tag \cup {Untagged}] /\ more[p.id] = r
      /\ \A q \in Payments \ {p} : q.id # p.id /\ more[q.id] = of[q.id]
  <2>1. \A q \in Payments \ {p} : q.id # p.id
    BY MoodConstants
  <2> QED BY <1>1, <2>1 DEF Ids
<1> HIDE DEF more
<1>3. on \subseteq then /\ then \subseteq on \cup {p} /\ then \subseteq Payments
  <2>1. \A q \in Payments : q # p => (q \in on <=> q \in then)
    BY <1>2 DEF Stressed
  <2>2. p \in on => p \in then
    BY <1>2 DEF Stressed
  <2> QED BY <2>1, <2>2 DEF Stressed
<1>4. /\ f \in [Payments -> Int] /\ Intensity(of, on) = SumOf(f, on)
      /\ g \in [Payments -> Int] /\ Intensity(more, then) = SumOf(g, then)
  <2>1. on \in SUBSET Payments /\ then \in SUBSET Payments
    BY <1>3
  <2> QED BY <1>2, <2>1, IntensityIsSum
<1>5. \A q \in Payments \ {p} : f[q] = g[q]
  BY <1>2
<1>6. f[p] <= g[p] /\ 1 <= g[p] /\ f[p] \in Int /\ g[p] \in Int
  BY <1>2, <1>4, TagFields
<1>7. IsFiniteSet(on) /\ IsFiniteSet(then)
  BY StressedFinite
<1>8. CASE then = on
  <2>1. SumOf(f, on) <= SumOf(g, on)
    <3>1. on \in SUBSET (Payments \cap Payments) /\ \A q \in on : f[q] <= g[q]
      <4>1. \A q \in Payments : f[q] \in Int /\ g[q] \in Int
        BY <1>4
      <4> QED BY <1>3, <1>5, <1>6, <4>1
    <3> HIDE DEF f, g, on
    <3> QED BY <1>4, <1>7, <3>1, SumMonotone
  <2>2. SumOf(f, on) \in Int /\ SumOf(g, on) \in Int
    <3> HIDE DEF f, g, on
    <3> QED BY <1>3, <1>4, <1>7, SumInt
  <2>3. Intensity(of, on) <= Intensity(more, on)
    BY <1>4, <1>8, <2>1
  <2>4. StressWeight(of, h) <= StressWeight(more, h)
    <3>1. Cardinality(on) \in Nat /\ Cardinality(on) <= 4 /\ (Cardinality(on) = 0 <=> on = {})
      BY <1>8, IntensityBounds DEF more
    <3>2. CASE on = {}
      BY <1>2, <1>8, <3>2, StressIs
    <3>3. CASE Cardinality(on) \in 1..3
      BY <1>2, <1>4, <1>8, <2>2, <2>3, <3>3, StressIs
    <3>4. CASE Cardinality(on) = 4
      BY <1>2, <1>4, <1>8, <2>2, <2>3, <3>4, StressIs
    <3> QED BY <3>1, <3>2, <3>3, <3>4
  <2>5. HourWeight(h) \in Int /\ StressWeight(of, h) \in Int /\ StressWeight(more, h) \in Int
    BY <1>2, HourWeightIs, StressIs
  <2>6. CASE on = {}
    <3>1. Stressed(of, h) = {} /\ Stressed(more, h) = {}
      BY <1>8, <2>6
    <3> HIDE DEF on, then
    <3> QED BY <2>4, <2>5, <3>1 DEF Risk, Smaller, more
  <2>7. CASE on # {}
    <3>1. Stressed(of, h) # {} /\ Stressed(more, h) # {}
      BY <1>8, <2>7
    <3> HIDE DEF on, then
    <3> QED BY <2>4, <2>5, <3>1 DEF Risk, Smaller, more
  <2> QED BY <2>6, <2>7
<1>9. CASE then # on
  <2>1. p \notin on /\ then = on \cup {p}
    BY <1>3, <1>9
  <2>2. Cardinality(then) = Cardinality(on) + 1 /\ Cardinality(on) \in Nat
    BY <1>7, <2>1, FS_AddElement, FS_CardinalityType
  <2>3. SumOf(g, then) = g[p] + SumOf(g, on)
    <3>1. p \in Payments \ on /\ on \in SUBSET Payments
      BY <1>3, <2>1
    <3> HIDE DEF f, g, on, then
    <3> QED BY <1>4, <1>7, <2>1, <3>1, SumAdd
  <2>4. SumOf(g, on) = SumOf(f, on)
    <3>1. on \in SUBSET (Payments \cap Payments) /\ \A q \in on : g[q] = f[q]
      BY <1>3, <1>5, <2>1
    <3> HIDE DEF f, g, on
    <3> QED BY <1>4, <1>7, <3>1, SumSame
  <2>5. Intensity(of, on) \in Int /\ Intensity(of, on) <= 5 * Cardinality(on) /\ Cardinality(on) <= Intensity(of, on)
    BY IntensityBounds
  <2>6. Intensity(more, then) = g[p] + Intensity(of, on)
    BY <1>4, <2>3, <2>4
  <2>7. StressWeight(of, h) <= StressWeight(more, h)
    <3>1. Cardinality(on) + 1 <= 4 /\ (Cardinality(on) = 0 <=> on = {})
      BY <2>2, IntensityBounds DEF more
    <3>2. CASE on = {}
      <4>1. Cardinality(then) = 1 /\ Cardinality(on) = 0
        BY <2>2, <3>1, <3>2
      <4>2. StressWeight(more, h) = 96 * Intensity(more, then) /\ StressWeight(of, h) = 0
        BY <1>2, <3>2, <4>1, StressIs
      <4> QED BY <1>6, <2>5, <2>6, <4>1, <4>2
    <3>3. CASE Cardinality(on) \in 1..2
      <4>1. Cardinality(then) \in 1..3 /\ Cardinality(on) \in 1..3
        BY <2>2, <3>3
      <4>2. StressWeight(more, h) = 96 * Intensity(more, then) /\ StressWeight(of, h) = 96 * Intensity(of, on)
        BY <1>2, <4>1, StressIs
      <4> QED BY <1>6, <2>5, <2>6, <4>2
    <3>4. CASE Cardinality(on) = 3
      <4>1. Cardinality(then) = 4 /\ Cardinality(on) \in 1..3
        BY <2>2, <3>4
      <4>2. StressWeight(more, h) = 90 * Intensity(more, then) /\ StressWeight(of, h) = 96 * Intensity(of, on)
        BY <1>2, <4>1, StressIs
      <4> QED BY <1>6, <2>5, <2>6, <3>4, <4>2
    <3> QED BY <2>2, <3>1, <3>2, <3>3, <3>4
  <2>8. HourWeight(h) \in Int /\ StressWeight(of, h) \in Int /\ StressWeight(more, h) \in Int
    BY <1>2, HourWeightIs, StressIs
  <2>9. then # {}
    BY <2>1
  <2> HIDE DEF on, then
  <2> QED BY <2>7, <2>8, <2>9 DEF Risk, Smaller, more, on, then
<1> QED BY <1>8, <1>9

LEMMA NoLessRisk == MoodTypes => MoreStressNoLessRisk
<1> SUFFICES ASSUME MoodTypes, NEW p \in Payments, NEW b \in Bodies,
                    b.emotion = "stressed", b.intensity >= tags[p.id].intensity,
                    Cardinality(Stressed([tags EXCEPT ![p.id] = [emotion |-> b.emotion, intensity |-> b.intensity]], hour)) <= 4
             PROVE  Risk([tags EXCEPT ![p.id] = [emotion |-> b.emotion, intensity |-> b.intensity]], hour) >= Risk(tags, hour)
  BY DEF MoreStressNoLessRisk
<1> DEFINE r == [emotion |-> b.emotion, intensity |-> b.intensity]
<1>1. r \in Tag /\ r.emotion = "stressed" /\ r.intensity >= tags[p.id].intensity
  BY SentTag
<1>2. tags \in [Ids -> Tag \cup {Untagged}] /\ hour \in Nat
  BY MoodNumbers DEF MoodTypes
<1>3. Cardinality(Stressed([tags EXCEPT ![p.id] = r], hour)) <= 4
  OBVIOUS
<1> HIDE DEF r
<1>4. Risk([tags EXCEPT ![p.id] = r], hour) >= Risk(tags, hour)
  BY <1>1, <1>2, <1>3, MoreStress
<1> QED BY <1>4 DEF r

\* What is paid for a part is no more than what is paid for all.
LEMMA PaidIsSum ==
    ASSUME NEW ps \in SUBSET Payments
    PROVE  LET f == [p \in Payments |-> p.amount]
           IN  f \in [Payments -> Int] /\ IsFiniteSet(ps) /\ PaidFor(ps) = SumOf(f, ps)
<1> DEFINE f == [p \in Payments |-> p.amount]
           IsIt(g) == g = [s \in SUBSET ps |-> IF s = {} THEN 0 ELSE AnyOf(s).amount + g[s \ {AnyOf(s)}]]
<1>1. f \in [Payments -> Int]
  BY MoodConstants
<1>2. IsFiniteSet(ps)
  BY MoodNumbers, FS_Subset
<1>3. ASSUME NEW g PROVE IsSum(g, f, ps) <=> IsIt(g)
  <2>1. \A s \in SUBSET ps : s # {} => f[AnyOf(s)] = AnyOf(s).amount
    BY FirstIn
  <2> HIDE DEF f
  <2> QED BY <2>1 DEF IsSum
<1>4. PICK g : IsSum(g, f, ps)
  <2> HIDE DEF f, IsIt
  <2> QED BY <1>1, <1>2, SumExists
<1>5. \E h : IsIt(h)
  BY <1>3, <1>4
<1>6. \E h : IsIt(h) /\ PaidFor(ps) = h[ps]
  BY <1>5, ZenonT(30) DEF PaidFor, MapThenSumSet, MapThenFoldSet, AnyOf
<1> HIDE DEF f, IsIt
<1>7. PICK h : IsIt(h) /\ PaidFor(ps) = h[ps]
  BY <1>6
<1>8. IsSum(h, f, ps)
  BY <1>3, <1>7
<1>9. SumOf(f, ps) = h[ps]
  BY <1>1, <1>2, <1>8, SumUnfolds
<1> QED BY <1>1, <1>2, <1>7, <1>9 DEF f

LEMMA PaidBounds ==
    ASSUME NEW ps \in SUBSET Payments
    PROVE  PaidFor(ps) \in Nat /\ PaidFor(Payments) \in Nat /\ PaidFor(ps) <= PaidFor(Payments)
<1> DEFINE f == [p \in Payments |-> p.amount]
<1>1. /\ f \in [Payments -> Int] /\ IsFiniteSet(ps) /\ IsFiniteSet(Payments)
      /\ PaidFor(ps) = SumOf(f, ps) /\ PaidFor(Payments) = SumOf(f, Payments)
  BY PaidIsSum
<1>2. \A p \in Payments : 0 <= f[p]
  BY MoodConstants
<1> HIDE DEF f
<1>3. 0 <= SumOf(f, ps) /\ SumOf(f, ps) \in Int /\ SumOf(f, Payments) \in Int
  BY <1>1, <1>2, SumNonneg, SumInt
<1>4. SumOf(f, ps) <= SumOf(f, Payments)
  BY <1>1, <1>2, SumGrows
<1> QED BY <1>1, <1>3, <1>4

LEMMA GroupIs ==
    ASSUME NEW g \in Groups
    PROVE  g \in SUBSET Payments /\ Cardinality(g) \in Nat /\ Cardinality(g) >= 1
<1>1. g \in SUBSET Payments /\ g # {}
  BY DEF Groups, Tagged
<1>2. IsFiniteSet(g)
  BY <1>1, MoodNumbers, FS_Subset
<1> QED BY <1>1, <1>2, FS_CardinalityType, FS_EmptySet

LEMMA Dearer ==
    ASSUME NEW paid \in Nat, NEW all \in Nat \ {0}, paid <= all, NEW n \in Nat \ {0}, NEW many \in Nat,
           NEW k \in Nat, 200 * (paid * many) >= k * (n * all)
    PROVE  200 * many >= k * n
<1>1. paid * many <= all * many
  BY Times
<1>2. 200 * (all * many) >= k * (n * all)
  <2> DEFINE x == paid * many
             y == all * many
             z == n * all
             kz == k * z
  <2>1. x \in Int /\ y \in Int /\ z \in Int /\ kz \in Int /\ x <= y /\ 200 * x >= kz
    BY <1>1
  <2> HIDE DEF x, y, z, kz
  <2>2. 200 * y >= kz
    BY <2>1
  <2> QED BY <2>2 DEF x, y, z, kz
<1>3. 200 * (all * many) = (200 * many) * all /\ k * (n * all) = (k * n) * all
  OBVIOUS
<1>4. (200 * many) * all - (k * n) * all = (200 * many - k * n) * all
  OBVIOUS
<1>5. (200 * many - k * n) * all >= 0
  <2> DEFINE y == (200 * many) * all
             z == (k * n) * all
  <2>1. y \in Int /\ z \in Int /\ y >= z /\ (200 * many - k * n) * all = y - z
    BY <1>2, <1>3, <1>4
  <2> HIDE DEF y, z
  <2> QED BY <2>1
<1>6. 200 * many - k * n >= 0
  <2> DEFINE d == 200 * many - k * n
  <2>1. d \in Int /\ d * all >= 0
    BY <1>5
  <2> HIDE DEF d
  <2>2. d >= 0
    BY <2>1, Cancel
  <2> QED BY <2>2 DEF d
<1> QED BY <1>6

LEMMA GroupDearer ==
    ASSUME NEW g \in Groups, NEW m \in Nat, 150 <= m, Multiplier(g) >= m
    PROVE  200 * Cardinality(Payments) >= (2 * m - 1) * Cardinality(g) /\ Cardinality(Payments) \in Nat
<1> DEFINE paid == PaidFor(g)
           all == PaidFor(Payments)
           n == Cardinality(g)
           many == Cardinality(Payments)
<1>1. paid \in Nat /\ all \in Nat /\ paid <= all /\ n \in Nat \ {0} /\ many \in Nat
  BY GroupIs, PaidBounds, MoodNumbers, FS_CardinalityType
<1>2. Multiplier(g) = IF all = 0 THEN (200 * paid + n) \div (2 * n)
                      ELSE (200 * paid * many + n * all) \div (2 * n * all)
  BY DEF Multiplier
<1> HIDE DEF paid, all, n, many
<1>3. CASE all = 0
  <2>1. Multiplier(g) = n \div (2 * n)
    BY <1>1, <1>2, <1>3
  <2>2. n \div (2 * n) >= m <=> n >= m * (2 * n)
    BY <1>1, Quotient
  <2>3. n >= m * (2 * n)
    BY <2>1, <2>2
  <2>4. m * (2 * n) >= 150 * (2 * n)
    BY <1>1
  <2> QED BY <1>1, <2>3, <2>4
<1>4. CASE all # 0
  <2> DEFINE x == 200 * (paid * many)
             y == n * all
  <2>1. x \in Int /\ y \in Nat \ {0} /\ 200 * paid * many + n * all = x + y /\ 2 * n * all = 2 * y
    BY <1>1, <1>4
  <2> HIDE DEF x, y
  <2>2. Multiplier(g) = (x + y) \div (2 * y)
    BY <1>2, <1>4, <2>1
  <2>3. (x + y) \div (2 * y) >= m <=> x + y >= m * (2 * y)
    BY <2>1, Quotient
  <2>4. x + y >= m * (2 * y)
    BY <2>2, <2>3
  <2>5. x >= (2 * m - 1) * y
    BY <2>1, <2>4
  <2>6. 200 * (paid * many) >= (2 * m - 1) * (n * all)
    BY <2>5 DEF x, y
  <2>7. all \in Nat \ {0} /\ 2 * m - 1 \in Nat
    BY <1>1, <1>4
  <2>8. 200 * many >= (2 * m - 1) * n
    BY <1>1, <2>6, <2>7, Dearer
  <2> QED BY <1>1, <2>8 DEF n, many
<1> QED BY <1>3, <1>4

LEMMA InsightsDear == InsightsAreDearer
<1> SUFFICES ASSUME NEW g \in Insights
             PROVE  Cardinality(Payments) > (IF Severity(g) = "danger" THEN 2 ELSE 1) * Cardinality(g)
  BY DEF InsightsAreDearer
<1>1. g \in Groups /\ Multiplier(g) >= 150
  BY DEF Insights, Striking
<1>2. Cardinality(g) \in Nat /\ Cardinality(g) >= 1
  BY <1>1, GroupIs
<1>3. CASE Severity(g) = "danger"
  <2>1. Multiplier(g) >= 250
    BY <1>3 DEF Severity
  <2>2. 200 * Cardinality(Payments) >= (2 * 250 - 1) * Cardinality(g) /\ Cardinality(Payments) \in Nat
    BY <1>1, <2>1, GroupDearer
  <2> QED BY <1>2, <1>3, <2>2
<1>4. CASE Severity(g) # "danger"
  <2>1. 200 * Cardinality(Payments) >= (2 * 150 - 1) * Cardinality(g) /\ Cardinality(Payments) \in Nat
    BY <1>1, GroupDearer
  <2> QED BY <1>2, <1>4, <2>1
<1> QED BY <1>3, <1>4

\* A mean as a share of the largest one, to the nearest part.
LEMMA ShareOf ==
    ASSUME NEW w \in Nat, NEW a \in Int, NEW m \in Nat \ {0}, a >= 0, a <= m
    PROVE  \E q \in 0..w : q = (2 * w * a + m) \div (2 * m) /\ (a = m => q = w)
<1> DEFINE b == 2 * w * a + m
           d == 2 * m
           q == b \div d
<1>1. w * a \in Int /\ w * m \in Int /\ w * a >= 0 /\ w * a <= w * m
  OBVIOUS
<1>2. b = 2 * (w * a) + m /\ d = 2 * m /\ w * d = 2 * (w * m) /\ (w + 1) * d = 2 * (w * m) + 2 * m
  OBVIOUS
<1>3. b \in Int /\ d \in Nat \ {0} /\ b >= 0 * d /\ ~(b >= (w + 1) * d) /\ (a = m => b >= w * d)
  BY <1>1, <1>2
<1>4. q \in Int /\ (q >= 0 <=> b >= 0 * d) /\ (q >= w + 1 <=> b >= (w + 1) * d) /\ (q >= w <=> b >= w * d)
  <2> HIDE DEF b, d
  <2> QED BY <1>3, Quotient
<1>5. q = (2 * w * a + m) \div (2 * m)
  OBVIOUS
<1> HIDE DEF q, b, d
<1>6. q >= 0 /\ q <= w /\ (a = m => q = w)
  BY <1>3, <1>4
<1> QED BY <1>4, <1>5, <1>6

LEMMA HeatScaled == HeatIsScaled
<1> DEFINE most == Max({MeanOf(s) : s \in Groups})
<1>1. \A g \in Groups : MeanOf(g) \in Int /\ MeanOf(g) >= 0
  <2> SUFFICES ASSUME NEW g \in Groups PROVE MeanOf(g) \in Int /\ MeanOf(g) >= 0
    OBVIOUS
  <2>1. PaidFor(g) \in Nat /\ Cardinality(g) \in Nat \ {0}
    BY GroupIs, PaidBounds
  <2> DEFINE x == 200 * PaidFor(g) + Cardinality(g)
             m == 2 * Cardinality(g)
  <2>2. x \in Int /\ m \in Nat \ {0} /\ x >= 0 * m
    BY <2>1
  <2>3. x \div m \in Int /\ (x \div m >= 0 <=> x >= 0 * m)
    <3> HIDE DEF x, m
    <3> QED BY <2>2, Quotient
  <2> QED BY <2>2, <2>3 DEF MeanOf
<1>2. IsFiniteSet(Groups)
  <2>1. Groups \subseteq SUBSET Payments
    BY DEF Groups, Tagged
  <2>2. IsFiniteSet(SUBSET Payments)
    BY MoodNumbers, FS_SUBSET
  <2> QED BY <2>1, <2>2, FS_Subset
<1>3. CASE Groups = {}
  BY <1>3 DEF HeatIsScaled
<1>4. CASE Groups # {}
  <2> DEFINE f == [g \in Groups |-> MeanOf(g)]
  <2>1. PICK top \in Groups : \A g \in Groups : MeanOf(g) <= MeanOf(top)
    <3>1. f \in [Groups -> Int]
      BY <1>1
    <3>2. \A g \in Groups : f[g] = MeanOf(g)
      OBVIOUS
    <3> HIDE DEF f
    <3>3. \E x \in Groups : \A y \in Groups : f[y] <= f[x]
      BY <1>2, <1>4, <3>1, GreatestOf
    <3> QED BY <3>2, <3>3
  <2>2. most = MeanOf(top)
    <3> DEFINE S == {MeanOf(s) : s \in Groups}
    <3>1. S \in SUBSET Nat /\ MeanOf(top) \in S /\ \A n \in S : MeanOf(top) >= n
      BY <1>1, <2>1
    <3> HIDE DEF S
    <3>2. Max(S) = MeanOf(top)
      BY <3>1, MaxIs
    <3> QED BY <3>2 DEF S
  <2>3. \A g \in Groups : HeatOf(g) = IF most > 0 THEN (2 * Whole * MeanOf(g) + most) \div (2 * most) ELSE 0
    BY DEF HeatOf
  <2> HIDE DEF most
  <2>4. most \in Int /\ most >= 0
    BY <1>1, <2>2
  <2>0. Whole \in Nat
    BY DEF Whole
  <2>5. CASE most = 0
    <3>1. \A g \in Groups : HeatOf(g) = 0
      BY <2>3, <2>5
    <3> QED BY <2>0, <3>1 DEF HeatIsScaled
  <2>6. CASE most # 0
    <3>1. most \in Nat \ {0} /\ most > 0
      BY <2>4, <2>6
    <3>2. ASSUME NEW g \in Groups PROVE HeatOf(g) \in 0..Whole /\ (MeanOf(g) = most => HeatOf(g) = Whole)
      <4>1. MeanOf(g) \in Int /\ MeanOf(g) >= 0 /\ MeanOf(g) <= most
        BY <1>1, <2>1, <2>2
      <4>2. HeatOf(g) = (2 * Whole * MeanOf(g) + most) \div (2 * most)
        BY <2>3, <3>1
      <4>3. PICK q \in 0..Whole : q = (2 * Whole * MeanOf(g) + most) \div (2 * most) /\ (MeanOf(g) = most => q = Whole)
        BY <2>0, <3>1, <4>1, ShareOf
      <4> QED BY <4>2, <4>3
    <3>3. HeatOf(top) = Whole
      BY <2>2, <3>2
    <3> QED BY <3>2, <3>3 DEF HeatIsScaled
  <2> QED BY <2>5, <2>6
<1> QED BY <1>3, <1>4
-----------------------------------------------------------------------------
LEMMA MoodStarts == MoodInit => MoodInv
<1> SUFFICES ASSUME MoodInit PROVE MoodInv
  OBVIOUS
<1>1. hour \in Hours
  <2>1. hour = Min(Hours) /\ Hours \in SUBSET Nat
    BY MoodNumbers DEF MoodInit
  <2> QED BY <2>1, MoodNumbers, MinIn
<1>2. MoodTypes
  BY <1>1, MoodNumbers DEF MoodInit, MoodTypes, MoodStages
<1>3. Tagged = {}
  BY DEF MoodInit, Tagged, Ids
<1> QED BY <1>2, <1>3 DEF MoodInit, MoodInv, FoundAt, KeptAt, TagsAgree, WarningsAreMeant

\* Where a request for a payment is among those that were kept, and the last.
PlacesOf(k, bs, id) == {i \in DOMAIN k : bs[k[i]].of = id}

LEMMA LastIs ==
    ASSUME NEW k \in Seq(Tagging), NEW bs, NEW id, NEW m \in DOMAIN k, bs[k[m]].of = id,
           \A j \in DOMAIN k : bs[k[j]].of = id => j <= m
    PROVE  Max(PlacesOf(k, bs, id)) = m
<1> DEFINE on == PlacesOf(k, bs, id)
<1>1. on \in SUBSET Nat /\ m \in on /\ \A n \in on : n <= m
  BY DEF PlacesOf
<1>2. m \in Nat /\ \A n \in on : n \in Nat
  BY <1>1
<1> HIDE DEF on
<1>3. \A n \in on : m >= n
  BY <1>1, <1>2
<1>4. Max(on) = m
  BY <1>1, <1>3, MaxIs
<1> QED BY <1>4 DEF on

LEMMA LastIsThere ==
    ASSUME NEW k \in Seq(Tagging), NEW bs, NEW id, NEW n \in DOMAIN k, bs[k[n]].of = id
    PROVE  \E m \in DOMAIN k : bs[k[m]].of = id /\ \A j \in DOMAIN k : bs[k[j]].of = id => j <= m
<1> DEFINE on == {i \in DOMAIN k : bs[k[i]].of = id}
           self == [i \in on |-> i]
<1>1. IsFiniteSet(on)
  <2>1. Len(k) \in Int /\ on \subseteq 1..Len(k) /\ 1 \in Int
    OBVIOUS
  <2>2. IsFiniteSet(1..Len(k))
    BY <2>1, FS_Interval
  <2> QED BY <2>1, <2>2, FS_Subset
<1>2. on # {} /\ self \in [on -> Int] /\ \A i \in on : self[i] = i
  OBVIOUS
<1>3. \A i \in on : i \in DOMAIN k /\ bs[k[i]].of = id
  OBVIOUS
<1>4. \A i \in DOMAIN k : bs[k[i]].of = id => i \in on
  OBVIOUS
<1> HIDE DEF on, self
<1>5. \E x \in on : \A y \in on : self[y] <= self[x]
  BY <1>1, <1>2, GreatestOf
<1> QED BY <1>2, <1>3, <1>4, <1>5

\* The tags agree for as long as they, and the bodies of what was kept, stay.
LEMMA TagsStay ==
    ASSUME TagsAgree, kept \in Seq(Tagging), tags' = tags, kept' = kept, crossed \subseteq crossed',
           \A i \in DOMAIN kept : body'[kept[i]] = body[kept[i]]
    PROVE  TagsAgree'
<1>1. Tagged' = Tagged
  BY DEF Tagged
<1>2. \A p \in Tagged : \E i \in DOMAIN kept : body[kept[i]].of = p.id
  BY DEF TagsAgree
<1>3. ASSUME NEW p \in Tagged PROVE LastStored(p.id)' = LastStored(p.id)
  <2>1. PICK m \in DOMAIN kept : body[kept[m]].of = p.id /\ \A j \in DOMAIN kept : body[kept[j]].of = p.id => j <= m
    BY <1>2, LastIsThere
  <2>2. Max(PlacesOf(kept, body, p.id)) = m
    BY <2>1, LastIs
  <2>3. \A j \in DOMAIN kept : body'[kept[j]].of = p.id => j <= m
    BY <2>1
  <2>4. Max(PlacesOf(kept, body', p.id)) = m
    BY <2>1, <2>3, LastIs
  <2>5. LastStored(p.id) = body[kept[m]]
    BY <2>2 DEF LastStored, PlacesOf
  <2>6. LastStored(p.id)' = body'[kept[m]]
    BY <2>4 DEF LastStored, PlacesOf
  <2> QED BY <2>1, <2>5, <2>6
<1>4. {body'[kept[i]] : i \in DOMAIN kept} = {body[kept[i]] : i \in DOMAIN kept}
  OBVIOUS
<1> QED BY <1>1, <1>3, <1>4 DEF TagsAgree

LEMMA FindKeeps ==
    ASSUME MoodInv, NEW t \in Tagging, NEW b \in Bodies, FindTag(t, b)
    PROVE  MoodInv'
<1> USE DEF MoodInv
<1> DEFINE same == \E s \in Tagging : tagStage[s] = "found" /\ body[s].of = b.of
<1>1. /\ tagStage[t] = "new" /\ tagStage' = [tagStage EXCEPT ![t] = "found"]
      /\ body' = [body EXCEPT ![t] = b]
      /\ found' = [found EXCEPT ![t] = IF b.of \in Ids THEN tags[b.of] ELSE Untagged]
      /\ (same => crossed' = crossed \cup {b.of}) /\ (~same => crossed' = crossed)
      /\ hour' = hour /\ tags' = tags /\ failures' = failures /\ warned' = warned /\ kept' = kept
  BY DEF FindTag
<1>2. MoodTypes'
  <2>1. found' \in [Tagging -> Tag \cup {Untagged}] /\ body' \in [Tagging -> Bodies \cup {NoBody}]
    BY <1>1 DEF MoodTypes
  <2>2. tagStage' \in [Tagging -> MoodStages]
    BY <1>1 DEF MoodTypes, MoodStages
  <2>3. crossed' \subseteq {c.of : c \in Bodies}
    BY <1>1 DEF MoodTypes
  <2> QED BY <1>1, <2>1, <2>2, <2>3 DEF MoodTypes
<1>3. /\ tagStage'[t] = "found" /\ body'[t] = b /\ found'[t] = IF b.of \in Ids THEN tags[b.of] ELSE Untagged
      /\ \A s \in Tagging \ {t} : tagStage'[s] = tagStage[s] /\ body'[s] = body[s] /\ found'[s] = found[s]
  BY <1>1 DEF MoodTypes
<1>4. crossed \subseteq crossed' /\ (b.of \notin crossed' => ~same)
  BY <1>1
<1> HIDE DEF same
<1>5. FoundAt(t)'
  <2>1. b.of \notin crossed' => \A s \in Tagging \ {t} : tagStage'[s] = "found" => body'[s].of # b.of
    BY <1>3, <1>4 DEF same
  <2> QED BY <1>1, <1>3, <2>1 DEF FoundAt
<1>6. ASSUME NEW s \in Tagging \ {t} PROVE FoundAt(s)'
  <2>1. FoundAt(s)
    OBVIOUS
  <2>2. tagStage[s] = "found" /\ body[s].of \notin crossed' => body[s].of # b.of
    BY <1>4 DEF same
  <2>3. \A u \in Tagging \ {s} : (tagStage'[u] = "found" /\ u # t) => tagStage[u] = "found" /\ body'[u] = body[u]
    BY <1>3
  <2> QED BY <1>1, <1>3, <1>4, <2>1, <2>2, <2>3 DEF FoundAt
<1>7. \A i \in DOMAIN kept : kept[i] \in Tagging \ {t}
  BY <1>1 DEF KeptAt, MoodTypes
<1>8. KeptAt'
  BY <1>1, <1>3, <1>7 DEF KeptAt
<1>9. \A i \in DOMAIN kept : body'[kept[i]] = body[kept[i]]
  BY <1>3, <1>7
<1>10. TagsAgree'
  BY <1>1, <1>4, <1>9, TagsStay DEF MoodTypes
<1>11. WarningsAreMeant'
  BY <1>1 DEF WarningsAreMeant
<1> QED BY <1>2, <1>5, <1>6, <1>8, <1>10, <1>11

\* What a flush leaves in the row: each half from what was sent, or as it was.
LEMMA RowStored ==
    ASSUME MoodInv, NEW t \in Tagging, tagStage[t] = "found", body[t].of \in Ids,
           found[t] # Untagged \/ tags[body[t].of] = Untagged,
           NEW row, row = (IF found[t] = Untagged
                           THEN [emotion |-> body[t].emotion, intensity |-> body[t].intensity]
                           ELSE Changed(tags[body[t].of], found[t],
                                        [emotion |-> body[t].emotion, intensity |-> body[t].intensity]))
    PROVE  /\ row \in Tag
           /\ \/ row.emotion = body[t].emotion
              \/ tags[body[t].of] # Untagged /\ row.emotion = tags[body[t].of].emotion
           /\ \/ row.intensity = body[t].intensity
              \/ tags[body[t].of] # Untagged /\ row.intensity = tags[body[t].of].intensity
           /\ found[t] = tags[body[t].of] => row.emotion = body[t].emotion /\ row.intensity = body[t].intensity
<1> DEFINE sent == [emotion |-> body[t].emotion, intensity |-> body[t].intensity]
           was == tags[body[t].of]
<1>1. body[t] \in Bodies /\ (found[t] # Untagged => was # Untagged)
  BY DEF MoodInv, FoundAt
<1>2. sent \in Tag /\ sent.emotion = body[t].emotion /\ sent.intensity = body[t].intensity
  BY <1>1, SentTag
<1>3. was \in Tag \cup {Untagged} /\ found[t] \in Tag \cup {Untagged}
  BY DEF MoodInv, MoodTypes
<1> HIDE DEF sent
<1>4. CASE found[t] = Untagged
  BY <1>2, <1>4 DEF sent
<1>5. CASE found[t] # Untagged
  <2>1. row = Changed(was, found[t], sent) /\ was \in Tag /\ was # Untagged
    BY <1>1, <1>3, <1>5 DEF sent
  <2> HIDE DEF was
  <2>2. /\ row.emotion = (IF sent.emotion = found[t].emotion THEN was.emotion ELSE sent.emotion)
        /\ row.intensity = (IF sent.intensity = found[t].intensity THEN was.intensity ELSE sent.intensity)
        /\ row = [emotion |-> row.emotion, intensity |-> row.intensity]
    BY <2>1 DEF Changed
  <2>3. row \in Tag
    <3>1. was.emotion \in {b.emotion : b \in Bodies} /\ sent.emotion \in {b.emotion : b \in Bodies}
          /\ was.intensity \in 1..5 /\ sent.intensity \in 1..5
      BY <1>2, <2>1 DEF Tag
    <3>2. row.emotion \in {b.emotion : b \in Bodies} /\ row.intensity \in 1..5
      BY <2>2, <3>1
    <3> QED BY <2>2, <3>2 DEF Tag
  <2> QED BY <1>2, <2>1, <2>2, <2>3 DEF was
<1> QED BY <1>4, <1>5

LEMMA StoreKeeps ==
    ASSUME MoodInv, NEW t \in Tagging, StoreTag(t)
    PROVE  MoodInv'
<1> DEFINE id == body[t].of
           row == IF found[t] = Untagged THEN [emotion |-> body[t].emotion, intensity |-> body[t].intensity]
                  ELSE Changed(tags[id], found[t], [emotion |-> body[t].emotion, intensity |-> body[t].intensity])
           bad == id \notin Ids \/ (found[t] = Untagged /\ tags[id] # Untagged)
<1>1. /\ tagStage[t] = "found" /\ hour' = hour /\ body' = body /\ found' = found
      /\ failures' = failures /\ warned' = warned /\ crossed' = crossed
  BY DEF StoreTag
<1>2. MoodTypes /\ (\A s \in Tagging : FoundAt(s)) /\ KeptAt /\ TagsAgree /\ WarningsAreMeant
  BY DEF MoodInv
<1>3. body[t] \in Bodies
  BY <1>1, <1>2 DEF FoundAt
<1>4. WarningsAreMeant'
  BY <1>1, <1>2 DEF WarningsAreMeant
<1>5. CASE bad
  <2>1. tagStage' = [tagStage EXCEPT ![t] = "failed"] /\ tags' = tags /\ kept' = kept
    BY <1>5 DEF StoreTag
  <2>2. MoodTypes'
    BY <1>1, <1>2, <2>1 DEF MoodTypes, MoodStages
  <2>3. tagStage'[t] = "failed" /\ \A s \in Tagging \ {t} : tagStage'[s] = tagStage[s]
    BY <1>2, <2>1 DEF MoodTypes
  <2>4. ASSUME NEW s \in Tagging PROVE FoundAt(s)'
    <3>1. \A u \in Tagging : tagStage'[u] = "found" => tagStage[u] = "found"
      BY <2>3
    <3>2. FoundAt(s)
      BY <1>2
    <3> QED BY <1>1, <1>3, <2>1, <2>3, <3>1, <3>2 DEF FoundAt
  <2>5. KeptAt'
    <3>1. \A i \in DOMAIN kept : kept[i] \in Tagging
      BY <1>2, SeqHas DEF MoodTypes
    <3> QED BY <1>1, <1>2, <2>1, <2>3, <3>1 DEF KeptAt
  <2>6. TagsAgree'
    BY <1>1, <1>2, <2>1, TagsStay DEF MoodTypes
  <2> QED BY <1>4, <2>2, <2>4, <2>5, <2>6 DEF MoodInv
<1>6. CASE ~bad
  <2>1. /\ tagStage' = [tagStage EXCEPT ![t] = "stored"] /\ tags' = [tags EXCEPT ![id] = row]
        /\ kept' = Append(kept, t) /\ id \in Ids /\ (found[t] # Untagged \/ tags[id] = Untagged)
    BY <1>6 DEF StoreTag
  <2>2. /\ row \in Tag
        /\ row.emotion = body[t].emotion \/ (tags[id] # Untagged /\ row.emotion = tags[id].emotion)
        /\ row.intensity = body[t].intensity \/ (tags[id] # Untagged /\ row.intensity = tags[id].intensity)
        /\ found[t] = tags[id] => row.emotion = body[t].emotion /\ row.intensity = body[t].intensity
    BY <1>1, <2>1, RowStored
  <2> HIDE DEF row, bad
  <2>3. tags'[id] = row /\ \A i \in Ids \ {id} : tags'[i] = tags[i]
    BY <1>2, <2>1 DEF MoodTypes
  <2>4. tagStage'[t] = "stored" /\ \A s \in Tagging \ {t} : tagStage'[s] = tagStage[s]
    BY <1>2, <2>1 DEF MoodTypes
  <2>5. /\ kept' \in Seq(Tagging) /\ DOMAIN kept' = DOMAIN kept \cup {Len(kept) + 1}
        /\ kept'[Len(kept) + 1] = t /\ \A i \in DOMAIN kept : kept'[i] = kept[i]
    BY <1>2, <2>1, AppendHas DEF MoodTypes
  <2>6. MoodTypes'
    <3>1. tags' \in [Ids -> Tag \cup {Untagged}]
      BY <1>2, <2>1, <2>2 DEF MoodTypes
    <3>2. tagStage' \in [Tagging -> MoodStages]
      BY <1>2, <2>1 DEF MoodTypes, MoodStages
    <3> QED BY <1>1, <1>2, <2>5, <3>1, <3>2 DEF MoodTypes
  <2>7. ASSUME NEW s \in Tagging PROVE FoundAt(s)'
    <3>1. CASE s = t
      BY <1>1, <1>3, <2>4, <3>1 DEF FoundAt
    <3>2. CASE s # t
      <4>1. FoundAt(s) /\ tagStage'[s] = tagStage[s]
        BY <1>2, <2>4, <3>2
      <4>2. \A u \in Tagging : tagStage'[u] = "found" => tagStage[u] = "found"
        BY <2>4
      <4>3. tagStage[s] = "found" /\ body[s].of \in Ids /\ body[s].of \notin crossed => body[s].of # id
        BY <1>1, <3>2, <4>1 DEF FoundAt
      <4>4. body[s].of \in Ids => tags'[body[s].of] = tags[body[s].of] \/ (body[s].of = id /\ tags'[body[s].of] = row)
        BY <2>3
      <4>5. row # Untagged
        BY <2>2, TagFields
      <4> QED BY <1>1, <4>1, <4>2, <4>3, <4>4, <4>5 DEF FoundAt
    <3> QED BY <3>1, <3>2
  <2>8. KeptAt'
    <3>1. \A i \in DOMAIN kept : kept[i] \in Tagging
      BY <1>2, SeqHas DEF MoodTypes
    <3>2. \A i \in DOMAIN kept : tagStage'[kept[i]] \in {"stored", "answered"}
      BY <1>2, <2>4, <3>1 DEF KeptAt
    <3> QED BY <2>4, <2>5, <3>2 DEF KeptAt
  <2> DEFINE on == {body[kept[i]] : i \in DOMAIN kept}
  <2>9. {body'[kept'[i]] : i \in DOMAIN kept'} = on \cup {body[t]}
    BY <1>1, <2>5
  <2>10. \A p \in Tagged : /\ p \in Payments /\ p.id \in Ids
                           /\ \E b \in on : b.of = p.id /\ b.emotion = tags[p.id].emotion
                           /\ \E b \in on : b.of = p.id /\ b.intensity = tags[p.id].intensity
    BY <1>2 DEF TagsAgree, Tagged, Ids
  <2>11. ASSUME NEW p \in Tagged', p.id = id
         PROVE  /\ p.id \notin crossed' => /\ tags'[p.id].emotion = LastStored(p.id)'.emotion
                                           /\ tags'[p.id].intensity = LastStored(p.id)'.intensity
                /\ \E b \in on \cup {body[t]} : b.of = p.id /\ b.emotion = tags'[p.id].emotion
                /\ \E b \in on \cup {body[t]} : b.of = p.id /\ b.intensity = tags'[p.id].intensity
    <3>1. tags[id] # Untagged => p \in Tagged
      BY <2>11 DEF Tagged
    <3>2. /\ \E b \in on \cup {body[t]} : b.of = p.id /\ b.emotion = tags'[p.id].emotion
          /\ \E b \in on \cup {body[t]} : b.of = p.id /\ b.intensity = tags'[p.id].intensity
      <4> HIDE DEF on
      <4> QED BY <2>2, <2>3, <2>10, <2>11, <3>1
    <3>3. LastStored(p.id)' = body[t]
      <4>1. Len(kept) + 1 \in DOMAIN kept' /\ body[kept'[Len(kept) + 1]].of = p.id
        BY <2>5, <2>11
      <4>2. \A j \in DOMAIN kept' : body[kept'[j]].of = p.id => j <= Len(kept) + 1
        BY <1>2, <2>5 DEF MoodTypes
      <4>3. Max(PlacesOf(kept', body, p.id)) = Len(kept) + 1
        BY <2>5, <4>1, <4>2, LastIs
      <4> QED BY <1>1, <2>5, <4>3 DEF LastStored, PlacesOf
    <3>4. p.id \notin crossed => found[t] = tags[id]
      BY <1>1, <1>2, <2>1, <2>11 DEF FoundAt
    <3> QED BY <1>1, <2>2, <2>3, <2>11, <3>2, <3>3, <3>4
  <2>12. ASSUME NEW p \in Tagged', p.id # id
         PROVE  /\ p.id \notin crossed' => /\ tags'[p.id].emotion = LastStored(p.id)'.emotion
                                           /\ tags'[p.id].intensity = LastStored(p.id)'.intensity
                /\ \E b \in on \cup {body[t]} : b.of = p.id /\ b.emotion = tags'[p.id].emotion
                /\ \E b \in on \cup {body[t]} : b.of = p.id /\ b.intensity = tags'[p.id].intensity
    <3>1. p.id \in Ids
      BY DEF Tagged, Ids
    <3>2. tags'[p.id] = tags[p.id] /\ p \in Tagged
      BY <2>3, <2>12, <3>1 DEF Tagged
    <3>3. PICK n \in DOMAIN kept : body[kept[n]].of = p.id
      BY <2>10, <3>2
    <3>0. kept \in Seq(Tagging)
      BY <1>2 DEF MoodTypes
    <3>4. PICK m \in DOMAIN kept : body[kept[m]].of = p.id /\ \A j \in DOMAIN kept : body[kept[j]].of = p.id => j <= m
      BY <3>0, <3>3, LastIsThere
    <3>5. Max(PlacesOf(kept, body, p.id)) = m
      BY <3>0, <3>4, LastIs
    <3>6. \A j \in DOMAIN kept' : body[kept'[j]].of = p.id => j <= m
      BY <2>5, <2>12, <3>4
    <3>7. m \in DOMAIN kept' /\ body[kept'[m]].of = p.id
      BY <2>5, <3>4
    <3>8. Max(PlacesOf(kept', body, p.id)) = m
      BY <2>5, <3>6, <3>7, LastIs
    <3>9. LastStored(p.id) = body[kept[m]]
      BY <3>5 DEF LastStored, PlacesOf
    <3>10. LastStored(p.id)' = body[kept'[m]]
      BY <1>1, <3>8 DEF LastStored, PlacesOf
    <3>11. LastStored(p.id)' = LastStored(p.id)
      BY <2>5, <3>4, <3>9, <3>10
    <3>12. p.id \notin crossed => /\ tags[p.id].emotion = LastStored(p.id).emotion
                                  /\ tags[p.id].intensity = LastStored(p.id).intensity
      BY <1>2, <3>2 DEF TagsAgree
    <3> HIDE DEF on
    <3> QED BY <1>1, <2>10, <3>2, <3>11, <3>12
  <2> HIDE DEF on, id
  <2>13. TagsAgree'
    BY <2>9, <2>11, <2>12 DEF TagsAgree
  <2> QED BY <1>4, <2>6, <2>7, <2>8, <2>13 DEF MoodInv
<1> QED BY <1>5, <1>6

LEMMA CheckKeeps ==
    ASSUME MoodInv, NEW t \in Tagging, NEW works \in BOOLEAN, CheckAndNotify(t, works)
    PROVE  MoodInv'
<1> DEFINE risk == Risk(tags, hour)
           log == Append(failures, t)
<1>1. /\ tagStage[t] = "stored" /\ tagStage' = [tagStage EXCEPT ![t] = "answered"]
      /\ hour' = hour /\ tags' = tags /\ body' = body /\ found' = found /\ kept' = kept /\ crossed' = crossed
      /\ warned' = warned \/ (risk >= Threshold /\ warned' = warned \cup {<<t, RiskLevel(risk), hour>>})
      /\ failures' = failures \/ failures' = IF Len(log) > FailuresKept THEN Tail(log) ELSE log
  BY DEF CheckAndNotify
<1>2. MoodTypes /\ (\A s \in Tagging : FoundAt(s)) /\ KeptAt /\ TagsAgree /\ WarningsAreMeant
  BY DEF MoodInv
<1>3. tagStage'[t] = "answered" /\ \A s \in Tagging \ {t} : tagStage'[s] = tagStage[s]
  BY <1>1, <1>2 DEF MoodTypes
<1>4. failures' \in Seq(Tagging) /\ Len(failures') <= FailuresKept
  <2>1. failures \in Seq(Tagging) /\ Len(failures) <= FailuresKept /\ FailuresKept \in Nat /\ Len(failures) \in Nat
    BY <1>2, MoodNumbers DEF MoodTypes
  <2>2. log \in Seq(Tagging) /\ Len(log) = Len(failures) + 1 /\ Len(log) > 0
    BY <2>1
  <2> HIDE DEF log
  <2>3. Tail(log) \in Seq(Tagging) /\ Len(Tail(log)) = Len(failures)
    BY <2>1, <2>2
  <2> QED BY <1>1, <2>1, <2>2, <2>3
<1>5. MoodTypes'
  <2>1. tagStage' \in [Tagging -> MoodStages]
    BY <1>1, <1>2 DEF MoodTypes, MoodStages
  <2>2. hour \in Nat /\ \A w \in warned : w[3] \in Nat
    BY <1>2, MoodNumbers DEF MoodTypes
  <2> HIDE DEF risk
  <2>3. \A w \in warned' : w[3] \in Nat
    BY <1>1, <2>2
  <2> QED BY <1>1, <1>2, <1>4, <2>1, <2>3 DEF MoodTypes
<1>6. ASSUME NEW s \in Tagging PROVE FoundAt(s)'
  <2>1. FoundAt(s) /\ FoundAt(t)
    BY <1>2
  <2>2. \A u \in Tagging : tagStage'[u] = "found" => tagStage[u] = "found"
    BY <1>3
  <2>3. tagStage'[s] \in {"found", "failed", "stored", "answered"} => tagStage[s] \in {"found", "failed", "stored", "answered"}
    BY <1>1, <1>3
  <2> QED BY <1>1, <2>1, <2>2, <2>3 DEF FoundAt
<1>7. KeptAt'
  <2>1. \A i \in DOMAIN kept : kept[i] \in Tagging
    BY <1>2, SeqHas DEF MoodTypes
  <2> QED BY <1>1, <1>2, <1>3, <2>1 DEF KeptAt
<1>8. TagsAgree'
  <2>1. kept \in Seq(Tagging)
    BY <1>2 DEF MoodTypes
  <2> QED BY <1>1, <1>2, <2>1, TagsStay
<1>9. WarningsAreMeant'
  <2>1. hour \in Nat /\ risk \in Int
    BY <1>2, MoodNumbers, RiskIs DEF MoodTypes
  <2> HIDE DEF risk
  <2>2. risk >= Threshold => RiskLevel(risk) \in {"warning", "danger"}
    BY <2>1 DEF RiskLevel, Threshold
  <2>3. ASSUME NEW w \in warned' PROVE w[2] \in {"warning", "danger"} /\ w[3] <= hour
    <3>1. CASE w \in warned
      BY <1>2, <3>1 DEF WarningsAreMeant
    <3>2. CASE w \notin warned
      <4>1. risk >= Threshold /\ w = <<t, RiskLevel(risk), hour>>
        BY <1>1, <2>3, <3>2
      <4>2. w[2] = RiskLevel(risk) /\ w[3] = hour
        BY <4>1
      <4> QED BY <2>1, <2>2, <4>1, <4>2
    <3> QED BY <3>1, <3>2
  <2> QED BY <1>1, <2>3 DEF WarningsAreMeant
<1> QED BY <1>5, <1>6, <1>7, <1>8, <1>9 DEF MoodInv

\* What neither a row nor a request is touched by.
LEMMA QuietKeeps ==
    ASSUME MoodInv, tags' = tags, tagStage' = tagStage, body' = body, found' = found,
           warned' = warned, kept' = kept, crossed' = crossed,
           hour' \in Hours, hour' >= hour,
           failures' = failures \/ failures' = <<>>
    PROVE  MoodInv'
<1>1. MoodTypes /\ (\A s \in Tagging : FoundAt(s)) /\ KeptAt /\ TagsAgree /\ WarningsAreMeant
  BY DEF MoodInv
<1>2. MoodTypes'
  <2>1. failures' \in Seq(Tagging) /\ Len(failures') <= FailuresKept
    <3>1. <<>> \in Seq(Tagging) /\ Len(<<>>) = 0 /\ 0 <= FailuresKept
      BY MoodNumbers
    <3> QED BY <1>1, <3>1 DEF MoodTypes
  <2> QED BY <1>1, <2>1 DEF MoodTypes
<1>3. \A s \in Tagging : FoundAt(s)'
  BY <1>1 DEF FoundAt
<1>4. TagsAgree'
  <2>1. kept \in Seq(Tagging)
    BY <1>1 DEF MoodTypes
  <2> QED BY <1>1, <2>1, TagsStay
<1>5. WarningsAreMeant'
  <2>1. \A w \in warned : w[2] \in {"warning", "danger"} /\ w[3] <= hour
    BY <1>1 DEF WarningsAreMeant
  <2>2. hour \in Nat /\ hour' \in Nat /\ \A w \in warned : w[3] \in Nat
    BY <1>1, MoodNumbers DEF MoodTypes
  <2>3. \A w \in warned : w[3] <= hour'
    BY <2>1, <2>2
  <2> QED BY <2>1, <2>3 DEF WarningsAreMeant
<1> QED BY <1>1, <1>2, <1>3, <1>4, <1>5 DEF MoodInv, KeptAt

LEMMA MoodInvariant == MoodSpec => []MoodInv
<1>1. ASSUME MoodInv, [MoodNext]_moodVars PROVE MoodInv'
  <2>0. hour \in Hours /\ hour \in Nat
    BY <1>1, MoodNumbers DEF MoodInv, MoodTypes
  <2>1. CASE \E t \in Tagging, b \in Bodies : FindTag(t, b)
    BY <1>1, <2>1, FindKeeps
  <2>2. CASE \E t \in Tagging : StoreTag(t)
    BY <1>1, <2>2, StoreKeeps
  <2>3. CASE \E t \in Tagging, works \in BOOLEAN : CheckAndNotify(t, works)
    BY <1>1, <2>3, CheckKeeps
  <2>4. CASE ForgetFailures
    <3>1. hour' = hour /\ failures' = <<>> /\ UNCHANGED <<tags, tagStage, body, found, warned, kept, crossed>>
      BY <2>4 DEF ForgetFailures
    <3> QED BY <1>1, <2>0, <3>1, QuietKeeps
  <2>5. CASE LaterOn
    <3>1. hour' \in Hours /\ hour' >= hour /\ UNCHANGED <<tags, tagStage, body, found, failures, warned, kept, crossed>>
      BY <2>0, <2>5, MoodNumbers DEF LaterOn
    <3> QED BY <1>1, <3>1, QuietKeeps
  <2>6. CASE UNCHANGED moodVars
    BY <1>1, <2>0, <2>6, QuietKeeps DEF moodVars
  <2> QED BY <1>1, <2>1, <2>2, <2>3, <2>4, <2>5, <2>6 DEF MoodNext
<1> QED BY <1>1, MoodStarts, PTL DEF MoodSpec

\* Every request that tags is at one of its stages, what was sent is known, and
\* the log of warnings that failed never outgrows _NOTIFY_FAILURE_MAX.
THEOREM MoodTypeCorrect == MoodSpec => []MoodTypeOK
<1>1. MoodInv => MoodTypeOK
  BY DEF MoodInv, MoodTypes, MoodTypeOK, MoodStages
<1> QED BY <1>1, MoodInvariant, PTL

\* A payment has the tag that the last request for it sent unless requests for
\* it overlapped, a warning is in a band that says so, more stress is no less
\* risk, what an insight is about is dearer than the rest, and the heat is scaled.
THEOREM MoodsAreTrue == MoodSpec => []MoodsHold
<1>1. MoodInv => MoodsHold
  BY NoLessRisk, InsightsDear, HeatScaled DEF MoodInv, MoodsHold
<1> QED BY <1>1, MoodInvariant, PTL

-----------------------------------------------------------------------------
(***************************************************************************)
(* Advice and the pages, for any payments and budgets                      *)
(***************************************************************************)

-----------------------------------------------------------------------------
\* The categories that there are, and what a payment is filed as.
Kinds == {s.category : s \in Sent} \cup {"other"} \cup {Keywords[i][3] : i \in DOMAIN Keywords}
Filed == [category : Kinds, amount : Nat, at : Int]

\* h is the function that HalfYear finds in the payments of rows.
IsHalf(h, rows, n) ==
    h = [i \in 0..n |-> IF i = 0 THEN <<>>
                        ELSE IF rows[i].at >= AskedOn - 180 THEN Append(h[i - 1], rows[i]) ELSE h[i - 1]]

LEMMA HalfExists ==
    ASSUME NEW rows \in Seq(Filed), NEW n \in 0..Len(rows)
    PROVE  \E h : IsHalf(h, rows, n) /\ \A i \in 0..n : h[i] \in Seq(Filed)
<1> DEFINE Has(k) == \E h : IsHalf(h, rows, k) /\ \A i \in 0..k : h[i] \in Seq(Filed)
           B == {k \in 0..n : ~Has(k)}
<1>0. \A i \in 1..Len(rows) : rows[i] \in Filed
  OBVIOUS
<1>1. Has(0)
  <2> DEFINE h == [i \in 0..0 |-> <<>>]
  <2>1. h[0] = <<>> /\ h = [i \in 0..0 |-> h[i]]
    OBVIOUS
  <2> HIDE DEF h
  <2>0. 0..0 = {0}
    OBVIOUS
  <2>4. \A i \in 0..0 : h[i] = IF i = 0 THEN <<>>
                        ELSE IF rows[i].at >= AskedOn - 180 THEN Append(h[i - 1], rows[i]) ELSE h[i - 1]
    BY <2>0, <2>1
  <2>2. h = [i \in 0..0 |-> IF i = 0 THEN <<>>
                        ELSE IF rows[i].at >= AskedOn - 180 THEN Append(h[i - 1], rows[i]) ELSE h[i - 1]]
    BY <2>1, <2>4
  <2>3. \A i \in 0..0 : h[i] \in Seq(Filed)
    <3>1. <<>> \in Seq(Filed)
      OBVIOUS
    <3> QED BY <2>0, <2>1, <3>1
  <2> QED BY <2>2, <2>3 DEF IsHalf
<1>2. ASSUME NEW k \in 1..n, Has(k - 1) PROVE Has(k)
  <2>1. PICK g : IsHalf(g, rows, k - 1) /\ \A i \in 0..k - 1 : g[i] \in Seq(Filed)
    BY <1>2
  <2> DEFINE last == IF rows[k].at >= AskedOn - 180 THEN Append(g[k - 1], rows[k]) ELSE g[k - 1]
             h == [i \in 0..k |-> IF i = k THEN last ELSE g[i]]
  <2>2. last \in Seq(Filed)
    <3>1. g[k - 1] \in Seq(Filed) /\ rows[k] \in Filed
      BY <1>0, <2>1
    <3> QED BY <3>1, AppendHas
  <2>3. /\ DOMAIN h = 0..k /\ h[k] = last /\ \A i \in 0..k - 1 : h[i] = g[i]
        /\ h = [i \in 0..k |-> h[i]]
    OBVIOUS
  <2>4. \A i \in 0..k - 1 : g[i] = IF i = 0 THEN <<>>
                        ELSE IF rows[i].at >= AskedOn - 180 THEN Append(g[i - 1], rows[i]) ELSE g[i - 1]
    BY <2>1 DEF IsHalf
  <2> HIDE DEF h
  <2>5. \A i \in 0..k : h[i] = IF i = 0 THEN <<>>
                        ELSE IF rows[i].at >= AskedOn - 180 THEN Append(h[i - 1], rows[i]) ELSE h[i - 1]
    <3> SUFFICES ASSUME NEW i \in 0..k
                 PROVE  h[i] = IF i = 0 THEN <<>>
                        ELSE IF rows[i].at >= AskedOn - 180 THEN Append(h[i - 1], rows[i]) ELSE h[i - 1]
      OBVIOUS
    <3>1. CASE i = k
      <4>1. k - 1 \in 0..k - 1 /\ k # 0
        OBVIOUS
      <4>2. h[k - 1] = g[k - 1]
        BY <2>3, <4>1
      <4> QED BY <2>3, <3>1, <4>1, <4>2
    <3>2. CASE i # k
      <4>1. i \in 0..k - 1 /\ (i # 0 => i - 1 \in 0..k - 1)
        BY <3>2
      <4>2. h[i] = g[i] /\ (i # 0 => h[i - 1] = g[i - 1])
        BY <2>3, <4>1
      <4> QED BY <2>4, <4>1, <4>2
    <3> QED BY <3>1, <3>2
  <2> HIDE DEF last
  <2>6. IsHalf(h, rows, k)
    BY <2>3, <2>5 DEF IsHalf
  <2>7. \A i \in 0..k : h[i] \in Seq(Filed)
    <3>1. \A i \in 0..k : i = k \/ i \in 0..k - 1
      OBVIOUS
    <3> QED BY <2>1, <2>2, <2>3, <3>1
  <2> QED BY <2>6, <2>7
<1> HIDE DEF Has
<1>3. B = {}
  <2> SUFFICES ASSUME B # {} PROVE FALSE
    OBVIOUS
  <2>0. B \in SUBSET Nat
    OBVIOUS
  <2>1. PICK k \in B : \A j \in B : k <= j
    BY <2>0, LeastNumber
  <2>2. k # 0 /\ k \in 0..n /\ ~Has(k)
    BY <1>1
  <2>3. Has(k - 1)
    BY <2>1, <2>2
  <2> QED BY <1>2, <2>2, <2>3
<1>4. Has(n)
  BY <1>3
<1> QED BY <1>4 DEF Has

\* Only the payments that are looked at are of any matter.
LEMMA HalvesAgree ==
    ASSUME NEW rows, NEW more, NEW n \in Nat, \A i \in 1..n : more[i] = rows[i],
           NEW h, IsHalf(h, rows, n), NEW g, IsHalf(g, more, n)
    PROVE  \A i \in 0..n : g[i] = h[i]
<1> DEFINE B == {i \in 0..n : g[i] # h[i]}
<1> SUFFICES ASSUME B # {} PROVE FALSE
  OBVIOUS
<1>0. B \in SUBSET Nat
  OBVIOUS
<1>1. PICK i \in B : \A j \in B : i <= j
  BY <1>0, LeastNumber
<1>2. /\ h[i] = IF i = 0 THEN <<>>
                ELSE IF rows[i].at >= AskedOn - 180 THEN Append(h[i - 1], rows[i]) ELSE h[i - 1]
      /\ g[i] = IF i = 0 THEN <<>>
                ELSE IF more[i].at >= AskedOn - 180 THEN Append(g[i - 1], more[i]) ELSE g[i - 1]
  BY DEF IsHalf
<1>3. i # 0 /\ i \in 0..n /\ g[i] # h[i]
  BY <1>2
<1>4. g[i - 1] = h[i - 1] /\ more[i] = rows[i]
  BY <1>1, <1>3
<1> QED BY <1>2, <1>3, <1>4

LEMMA HalfYearIs ==
    ASSUME ledger \in Seq(Filed), NEW n \in 0..Len(ledger)
    PROVE  HalfYear(n) \in Seq(Filed) /\ \E h : IsHalf(h, ledger, n) /\ HalfYear(n) = h[n]
<1> DEFINE of == CHOOSE h : IsHalf(h, ledger, n)
<1>1. PICK h : IsHalf(h, ledger, n) /\ \A i \in 0..n : h[i] \in Seq(Filed)
  BY HalfExists
<1>2. IsHalf(of, ledger, n)
  BY <1>1
<1>3. HalfYear(n) = of[n]
  BY DEF HalfYear, IsHalf
<1> HIDE DEF of
<1>4. n \in Nat /\ \A i \in 1..n : ledger[i] = ledger[i]
  OBVIOUS
<1>5. \A i \in 0..n : of[i] = h[i]
  BY <1>1, <1>2, <1>4, HalvesAgree
<1> QED BY <1>1, <1>2, <1>3, <1>5

-----------------------------------------------------------------------------
AdviceInv ==
    /\ ledger \in Seq(Filed) /\ misfiled \subseteq DOMAIN ledger
    /\ budget \subseteq BudgetSets /\ \A a, b \in budget : a = b
    /\ \A i \in misfiled : ledger[i].category = "other"
    /\ \E n \in 0..Len(ledger) : profile = HalfYear(n)

LEMMA Wording == DOMAIN Keywords = 1..14 /\ \A i \in 1..14 : Keywords[i][3] # "other" /\ Keywords[i][2] \in 2..5
BY DEF Keywords

LEMMA FirstIs ==
    ASSUME NEW text
    PROVE  \/ Words(text) = {} /\ FirstOf(Keywords, Words(text)) = "other"
           \/ /\ Words(text) # {} /\ Min(Words(text)) \in DOMAIN Keywords
              /\ FirstOf(Keywords, Words(text)) = Keywords[Min(Words(text))][3]
              /\ FirstOf(Keywords, Words(text)) # "other"
<1>1. Words(text) \in SUBSET (1..14) /\ Words(text) \in SUBSET Nat
  BY Wording DEF Words
<1>2. CASE Words(text) = {}
  BY <1>2 DEF FirstOf
<1>3. CASE Words(text) # {}
  <2>1. Min(Words(text)) \in Words(text)
    BY <1>1, <1>3, MinIn
  <2>2. FirstOf(Keywords, Words(text)) = Keywords[Min(Words(text))][3]
    BY <1>3 DEF FirstOf
  <2> QED BY <1>1, <1>3, <2>1, <2>2, Wording
<1> QED BY <1>2, <1>3

LEMMA ClassifyIs == ASSUME NEW text PROVE Classify(NoCode, text) = FirstOf(Keywords, Words(text))
BY DEF Classify

LEMMA FiledIs ==
    ASSUME NEW sent \in Sent, NEW alone \in BOOLEAN
    PROVE  (IF alone /\ sent.category = "other" THEN Classify(NoCode, sent.text) ELSE sent.category) \in Kinds
<1>1. Classify(NoCode, sent.text) \in Kinds
  BY FirstIs, ClassifyIs DEF Kinds
<1> QED BY <1>1 DEF Kinds

LEMMA AdviceInitially == AdviceInit => AdviceInv
<1> SUFFICES ASSUME AdviceInit PROVE AdviceInv
  OBVIOUS
<1>1. ledger \in Seq(Filed) /\ Len(ledger) = 0 /\ 0 \in 0..Len(ledger)
  BY DEF AdviceInit
<1>2. PICK h : IsHalf(h, ledger, 0) /\ HalfYear(0) = h[0]
  BY <1>1, HalfYearIs
<1>3. HalfYear(0) = profile
  BY <1>2 DEF IsHalf, AdviceInit
<1> QED BY <1>1, <1>3 DEF AdviceInit, AdviceInv

\* What is read of payments that stay stays.
LEMMA HalfOf ==
    ASSUME NEW rows \in Seq(Filed), NEW n \in 0..Len(rows), NEW h, IsHalf(h, rows, n)
    PROVE  (CHOOSE g : IsHalf(g, rows, n))[n] = h[n]
<1> DEFINE of == CHOOSE g : IsHalf(g, rows, n)
<1>1. IsHalf(of, rows, n)
  OBVIOUS
<1>2. n \in Nat /\ \A i \in 1..n : rows[i] = rows[i]
  OBVIOUS
<1> HIDE DEF of
<1>3. \A i \in 0..n : of[i] = h[i]
  BY <1>1, <1>2, HalvesAgree
<1> QED BY <1>2, <1>3 DEF of

LEMMA HalfSame ==
    ASSUME NEW rows \in Seq(Filed), NEW more \in Seq(Filed), NEW n \in 0..Len(rows),
           \A i \in 1..n : more[i] = rows[i], NEW h, IsHalf(h, rows, n)
    PROVE  IsHalf(h, more, n)
<1>1. \A i \in 0..n : i = 0 \/ more[i] = rows[i]
  OBVIOUS
<1>2. \A i \in 0..n : h[i] = IF i = 0 THEN <<>>
                ELSE IF rows[i].at >= AskedOn - 180 THEN Append(h[i - 1], rows[i]) ELSE h[i - 1]
  BY DEF IsHalf
<1>3. \A i \in 0..n : h[i] = IF i = 0 THEN <<>>
                ELSE IF more[i].at >= AskedOn - 180 THEN Append(h[i - 1], more[i]) ELSE h[i - 1]
  BY <1>1, <1>2
<1>4. h = [i \in 0..n |-> h[i]]
  BY DEF IsHalf
<1> QED BY <1>3, <1>4 DEF IsHalf

LEMMA HalfStays ==
    ASSUME ledger \in Seq(Filed), ledger' \in Seq(Filed), Len(ledger') >= Len(ledger),
           \A i \in DOMAIN ledger : ledger'[i] = ledger[i], NEW m \in 0..Len(ledger)
    PROVE  HalfYear(m)' = HalfYear(m)
<1>1. PICK h : IsHalf(h, ledger, m) /\ HalfYear(m) = h[m]
  BY HalfYearIs
<1>2. m \in 0..Len(ledger') /\ \A i \in 1..m : ledger'[i] = ledger[i]
  OBVIOUS
<1>3. IsHalf(h, ledger', m)
  BY <1>1, <1>2, HalfSame
<1>4. HalfYear(m)' = (CHOOSE g : IsHalf(g, ledger', m))[m]
  BY DEF HalfYear, IsHalf
<1>5. (CHOOSE g : IsHalf(g, ledger', m))[m] = h[m]
  BY <1>2, <1>3, HalfOf
<1> QED BY <1>1, <1>4, <1>5

LEMMA AdviceKept == AdviceInv /\ [AdviceNext]_adviceVars => AdviceInv'
<1> SUFFICES ASSUME AdviceInv, [AdviceNext]_adviceVars PROVE AdviceInv'
  OBVIOUS
<1> USE AdviceConstants
<1>0. /\ ledger \in Seq(Filed) /\ misfiled \subseteq DOMAIN ledger
      /\ budget \subseteq BudgetSets /\ \A a, b \in budget : a = b
      /\ \A i \in misfiled : ledger[i].category = "other"
  BY DEF AdviceInv
<1>1. PICK n \in 0..Len(ledger) : profile = HalfYear(n)
  BY DEF AdviceInv
<1>2. ASSUME NEW m \in 0..Len(ledger), ledger' \in Seq(Filed), Len(ledger') >= Len(ledger),
             \A i \in DOMAIN ledger : ledger'[i] = ledger[i]
      PROVE  HalfYear(m)' = HalfYear(m)
  BY <1>0, <1>2, HalfStays
<1>3. ASSUME NEW sent \in Sent, NEW alone \in BOOLEAN, Ingest(sent, alone) PROVE AdviceInv'
  <2> DEFINE filed == IF alone /\ sent.category = "other" THEN Classify(NoCode, sent.text) ELSE sent.category
             row == [category |-> filed, amount |-> sent.amount, at |-> sent.at]
  <2>1. row \in Filed
    BY FiledIs DEF Filed
  <2>2. /\ ledger' = Append(ledger, row) /\ UNCHANGED <<profile, budget>>
        /\ misfiled' = misfiled \cup
               IF filed # Classify(NoCode, sent.text) /\ sent.category = "other" THEN {Len(ledger) + 1} ELSE {}
    BY <1>3 DEF Ingest
  <2>3. misfiled' = misfiled \/ (misfiled' = misfiled \cup {Len(ledger) + 1} /\ row.category = "other")
    BY <2>2
  <2> HIDE DEF row
  <2>4. /\ ledger' \in Seq(Filed) /\ Len(ledger') = Len(ledger) + 1
        /\ DOMAIN ledger' = DOMAIN ledger \cup {Len(ledger) + 1}
        /\ ledger'[Len(ledger) + 1] = row /\ \A i \in DOMAIN ledger : ledger'[i] = ledger[i]
    BY <1>0, <2>1, <2>2, AppendHas
  <2>5. misfiled' \subseteq DOMAIN ledger' /\ \A i \in misfiled' : ledger'[i].category = "other"
    BY <1>0, <2>3, <2>4
  <2>6. Len(ledger) \in Nat /\ Len(ledger') \in Nat /\ Len(ledger') >= Len(ledger) /\ n \in 0..Len(ledger')
    BY <1>0, <2>4
  <2>7. HalfYear(n)' = HalfYear(n)
    BY <1>2, <2>4, <2>6
  <2>8. profile' = HalfYear(n)'
    BY <1>1, <2>2, <2>7
  <2>9. \E m \in 0..Len(ledger') : profile' = HalfYear(m)'
    BY <2>6, <2>8
  <2> QED BY <1>0, <2>2, <2>4, <2>5, <2>9 DEF AdviceInv
<1>4. ASSUME UNCHANGED <<ledger, misfiled>>, NEW m \in 0..Len(ledger), profile' = HalfYear(m),
             budget' \subseteq BudgetSets, \A a, b \in budget' : a = b
      PROVE  AdviceInv'
  <2>1. Len(ledger) \in Nat
    BY <1>0
  <2>2. HalfYear(m)' = HalfYear(m)
    BY <1>0, <1>2, <1>4, <2>1
  <2>3. profile' = HalfYear(m)' /\ m \in 0..Len(ledger')
    BY <1>4, <2>2
  <2>4. \E k \in 0..Len(ledger') : profile' = HalfYear(k)'
    BY <2>3
  <2> QED BY <1>0, <1>4, <2>4 DEF AdviceInv
<1>5. ASSUME NEW b \in BudgetSets, SetBudget(b) PROVE AdviceInv'
  <2>1. UNCHANGED <<ledger, misfiled>> /\ profile' = HalfYear(n) /\ budget' = {b}
    BY <1>1, <1>5 DEF SetBudget
  <2> QED BY <1>4, <2>1
<1>6. CASE Reboot
  <2>1. UNCHANGED <<ledger, misfiled>> /\ profile' = HalfYear(Len(ledger)) /\ budget' = {} /\ Len(ledger) \in 0..Len(ledger)
    BY <1>0, <1>6 DEF Reboot
  <2> QED BY <1>4, <2>1
<1>7. CASE UNCHANGED adviceVars
  <2>1. UNCHANGED <<ledger, misfiled>> /\ profile' = HalfYear(n) /\ budget' = budget
    BY <1>1, <1>7 DEF adviceVars
  <2> QED BY <1>0, <1>4, <2>1
<1> QED BY <1>3, <1>5, <1>6, <1>7 DEF AdviceNext

THEOREM AdviceStays == AdviceSpec => []AdviceInv
BY AdviceInitially, AdviceKept, PTL DEF AdviceSpec

-----------------------------------------------------------------------------
\* Sums of what was paid, and of what the table has.
OfEach == [i \in DOMAIN profile |-> profile[i].amount]

LEMMA SummedIs == ASSUME NEW f PROVE Summed(f) = SumOf(f, DOMAIN f)
BY DEF Summed, SumOf

LEMMA PaidIs ==
    ASSUME profile \in Seq(Filed), NEW rows \in SUBSET DOMAIN profile
    PROVE  /\ OfEach \in [DOMAIN profile -> Nat] /\ OfEach \in [DOMAIN profile -> Int] /\ IsFiniteSet(rows)
           /\ Paid(rows) = SumOf(OfEach, rows) /\ Paid(rows) \in Nat
<1>1. /\ OfEach \in [DOMAIN profile -> Nat] /\ OfEach \in [DOMAIN profile -> Int]
      /\ \A i \in DOMAIN profile : OfEach[i] = profile[i].amount
  <2>0. \A i \in DOMAIN profile : profile[i] \in Filed
    BY SeqHas
  <2>1. \A i \in DOMAIN profile : profile[i].amount \in Nat
    BY <2>0 DEF Filed
  <2> QED BY <2>1 DEF OfEach
<1>2. IsFiniteSet(rows)
  <2>1. Len(profile) \in Nat /\ DOMAIN profile = 1..Len(profile)
    OBVIOUS
  <2>2. IsFiniteSet(1..Len(profile))
    BY <2>1, FS_Interval
  <2> QED BY <2>1, <2>2, FS_Subset
<1> DEFINE h == [i \in rows |-> profile[i].amount]
<1>3. DOMAIN h = rows /\ h = [x \in rows |-> h[x]] /\ \A x \in rows : h[x] = OfEach[x]
  BY <1>1
<1>4. Paid(rows) = SumOf(h, DOMAIN h)
  BY SummedIs DEF Paid
<1> HIDE DEF h
<1>5. SumOf(h, DOMAIN h) = SumOf(OfEach, rows) /\ SumOf(OfEach, rows) \in Int
  <2>1. OfEach \in [DOMAIN profile -> Int]
    BY <1>1
  <2>2. DOMAIN h = rows /\ h = [x \in rows |-> h[x]]
    BY <1>3
  <2>3. \A x \in rows : h[x] = OfEach[x]
    BY <1>3
  <2> QED BY <1>2, <2>1, <2>2, <2>3, SumRestrict
<1>6. \A x \in rows : 0 <= OfEach[x]
  BY <1>1
<1>7. 0 <= SumOf(OfEach, rows)
  BY <1>1, <1>2, <1>6, SumNonneg
<1> QED BY <1>1, <1>2, <1>4, <1>5, <1>7

LEMMA BreakdownFinite == ASSUME profile \in Seq(Filed) PROVE IsFiniteSet(Breakdown)
<1> DEFINE f == [i \in DOMAIN profile |-> profile[i].category]
<1>1. IsFiniteSet(DOMAIN profile)
  <2>1. DOMAIN profile \in SUBSET DOMAIN profile
    OBVIOUS
  <2> QED BY <2>1, PaidIs
<1>2. f \in Surjection(DOMAIN profile, Breakdown)
  BY DEF Surjection, Breakdown
<1> HIDE DEF f
<1>3. IsFiniteSet(Breakdown)
  BY <1>1, <1>2, FS_Surjection
<1> QED BY <1>3

LEMMA PaidByKind ==
    ASSUME profile \in Seq(Filed), NEW rows \in SUBSET DOMAIN profile,
           NEW h \in [Breakdown -> Int], \A c \in Breakdown : h[c] = Paid({i \in rows : profile[i].category = c})
    PROVE  SumOf(h, Breakdown) = Paid(rows)
<1>1. /\ OfEach \in [DOMAIN profile -> Int] /\ IsFiniteSet(rows) /\ Paid(rows) = SumOf(OfEach, rows)
  BY PaidIs
<1>2. IsFiniteSet(Breakdown)
  BY BreakdownFinite
<1> DEFINE T == [c \in Breakdown |-> {i \in rows : profile[i].category = c}]
<1>4. Classes(T, Breakdown, rows)
  BY DEF Breakdown, Classes
<1>6. \A c \in Breakdown : h[c] = Paid(T[c])
  OBVIOUS
<1> HIDE DEF T
<1>7. \A c \in Breakdown : h[c] = SumOf(OfEach, T[c])
  <2> SUFFICES ASSUME NEW c \in Breakdown PROVE h[c] = SumOf(OfEach, T[c])
    OBVIOUS
  <2>1. T[c] \in SUBSET DOMAIN profile
    BY <1>4 DEF Classes
  <2>2. Paid(T[c]) = SumOf(OfEach, T[c])
    BY <2>1, PaidIs
  <2> QED BY <1>6, <2>2
<1>5. SumOf(h, Breakdown) = SumOf(OfEach, rows)
  BY <1>1, <1>2, <1>4, <1>7, SumByClass
<1> QED BY <1>1, <1>5

LEMMA PaidOnIs ==
    ASSUME profile \in Seq(Filed)
    PROVE  /\ PaidInAll \in Nat /\ \A c : PaidOn(c) \in Nat
           /\ \A h \in [Breakdown -> Int] : (\A c \in Breakdown : h[c] = PaidOn(c)) => SumOf(h, Breakdown) = PaidInAll
<1>1. PaidInAll \in Nat
  BY PaidIs DEF PaidInAll
<1>2. ASSUME NEW c PROVE PaidOn(c) \in Nat
  <2>1. Of(c) \in SUBSET DOMAIN profile
    BY DEF Of
  <2> QED BY <2>1, PaidIs DEF PaidOn
<1>3. ASSUME NEW h \in [Breakdown -> Int], \A c \in Breakdown : h[c] = PaidOn(c)
      PROVE  SumOf(h, Breakdown) = PaidInAll
  <2> DEFINE rows == DOMAIN profile
  <2>1. rows \in SUBSET DOMAIN profile
    OBVIOUS
  <2>2. \A c \in Breakdown : h[c] = Paid({i \in rows : profile[i].category = c})
    BY <1>3 DEF PaidOn, Of
  <2>3. PaidInAll = Paid(rows)
    BY DEF PaidInAll
  <2> HIDE DEF rows
  <2>4. SumOf(h, Breakdown) = Paid(rows)
    BY <2>1, <2>2, PaidByKind
  <2> QED BY <2>3, <2>4
<1> QED BY <1>1, <1>2, <1>3

-----------------------------------------------------------------------------
\* What can be saved on a category, and in all.
LEMMA SavesOn ==
    ASSUME profile \in Seq(Filed), NEW c
    PROVE  PotentialSaving(c) \in Int /\ PotentialSaving(c) <= 40 * PaidOn(c)
<1> DEFINE P == PaidOn(c)
           all == <<"concentrated", 10>>
           U == {all, <<"food", 15>>, <<"impulse", 20>>, <<"leisure", 30>>}
           f == [s \in Savings(c) |-> s[2] * P]
           g == [s \in U |-> s[2] * P]
<1>1. P \in Nat
  BY PaidOnIs
<1>2. Savings(c) \in SUBSET U /\ \E a \in U \ {all} : Savings(c) \in SUBSET {all, a}
  <2>1. CASE c = "food"
    <3>2. <<"food", 15>> \in U \ {all} /\ {all, <<"food", 15>>} \in SUBSET U
      OBVIOUS
    <3>1. Savings(c) \in SUBSET {all, <<"food", 15>>}
      BY <2>1 DEF Savings
    <3> HIDE DEF all, U
    <3> QED BY <3>1, <3>2
  <2>2. CASE c = "shopping"
    <3>2. <<"impulse", 20>> \in U \ {all} /\ {all, <<"impulse", 20>>} \in SUBSET U
      OBVIOUS
    <3>1. Savings(c) \in SUBSET {all, <<"impulse", 20>>}
      BY <2>2 DEF Savings
    <3> HIDE DEF all, U
    <3> QED BY <3>1, <3>2
  <2>3. CASE c # "food" /\ c # "shopping"
    <3>2. <<"leisure", 30>> \in U \ {all} /\ {all, <<"leisure", 30>>} \in SUBSET U
      OBVIOUS
    <3>1. Savings(c) \in SUBSET {all, <<"leisure", 30>>}
      BY <2>3 DEF Savings
    <3> HIDE DEF all, U
    <3> QED BY <3>1, <3>2
  <2> QED BY <2>1, <2>2, <2>3
<1>3. PICK a \in U \ {all} : Savings(c) \in SUBSET {all, a}
  BY <1>2
<1>4. a[2] \in 15..30 /\ all[2] = 10 /\ all \in U /\ a \in U /\ a # all
  OBVIOUS
<1>5. \A s \in U : g[s] = s[2] * P /\ g[s] \in Nat
  <2>1. \A s \in U : s[2] \in Nat
    OBVIOUS
  <2>2. \A i, j \in Nat : i * j \in Nat
    OBVIOUS
  <2> HIDE DEF P, U
  <2> QED BY <1>1, <2>1, <2>2
<1>6. DOMAIN f = Savings(c) /\ f = [s \in Savings(c) |-> f[s]] /\ \A s \in Savings(c) : f[s] = g[s]
  BY <1>2
<1>7. PotentialSaving(c) = SumOf(f, DOMAIN f)
  BY SummedIs DEF PotentialSaving
<1>8. DOMAIN g = U /\ g = [s \in U |-> g[s]]
  OBVIOUS
<1> HIDE DEF f, g, U, all, P
<1>9. g \in [U -> Int]
  BY <1>5, <1>8
<1>10. SumOf(g, {all, a}) = g[all] + g[a] /\ IsFiniteSet({all, a})
  BY <1>4, <1>9, SumPair
<1>11. {all, a} \in SUBSET U /\ IsFiniteSet(Savings(c))
  BY <1>3, <1>4, <1>10, FS_Subset
<1>12. SumOf(f, DOMAIN f) = SumOf(g, Savings(c)) /\ SumOf(g, Savings(c)) \in Int
  BY <1>2, <1>6, <1>9, <1>11, SumRestrict
<1>13. SumOf(g, Savings(c)) <= SumOf(g, {all, a})
  <2>1. \A s \in {all, a} \ Savings(c) : 0 <= g[s]
    BY <1>4, <1>5
  <2> QED BY <1>3, <1>9, <1>10, <1>11, <2>1, SumGrows
<1>14. g[all] = 10 * P /\ g[a] = a[2] * P
  BY <1>4, <1>5
<1>15. \A i \in 15..30 : 10 * P + i * P <= 40 * P
  BY <1>1
<1>16. g[all] + g[a] <= 40 * P
  BY <1>4, <1>14, <1>15
<1>17. g[all] \in Int /\ g[a] \in Int /\ 40 * P \in Int
  BY <1>1, <1>4, <1>9
<1>18. SumOf(g, Savings(c)) <= 40 * P
  BY <1>10, <1>12, <1>13, <1>16, <1>17
<1> QED BY <1>7, <1>12, <1>18 DEF P

LEMMA SavesInAll ==
    ASSUME profile \in Seq(Filed)
    PROVE  Summed([c \in Breakdown |-> PotentialSaving(c)]) <= 40 * PaidInAll
<1> DEFINE f == [c \in Breakdown |-> PotentialSaving(c)]
           p == [c \in Breakdown |-> PaidOn(c)]
           h == [c \in Breakdown |-> 40 * PaidOn(c)]
<1>1. IsFiniteSet(Breakdown)
  BY BreakdownFinite
<1>2. \A c \in Breakdown : /\ f[c] = PotentialSaving(c) /\ f[c] \in Int
                           /\ p[c] = PaidOn(c) /\ p[c] \in Int /\ h[c] = 40 * p[c] /\ h[c] \in Int /\ f[c] <= h[c]
  BY SavesOn, PaidOnIs
<1>3. /\ f = [c \in Breakdown |-> f[c]] /\ p = [c \in Breakdown |-> p[c]] /\ h = [c \in Breakdown |-> h[c]]
      /\ DOMAIN f = Breakdown
  OBVIOUS
<1>4. Summed(f) = SumOf(f, Breakdown)
  BY SummedIs
<1> HIDE DEF f, p, h
<1>5. f \in [Breakdown -> Int] /\ p \in [Breakdown -> Int] /\ h \in [Breakdown -> Int]
  BY <1>2, <1>3
<1>6. SumOf(p, Breakdown) = PaidInAll
  BY <1>2, <1>5, PaidOnIs
<1>7. SumOf(h, Breakdown) = 40 * SumOf(p, Breakdown)
  <2>1. Breakdown \in SUBSET Breakdown /\ 40 \in Int
    OBVIOUS
  <2>2. Scaled(h, 40, p, Breakdown)
    BY <1>2 DEF Scaled
  <2> QED BY <1>1, <1>5, <2>1, <2>2, SumScale
<1>8. SumOf(f, Breakdown) <= SumOf(h, Breakdown)
  <2>1. Breakdown \in SUBSET (Breakdown \cap Breakdown) /\ \A c \in Breakdown : f[c] <= h[c]
    BY <1>2
  <2> QED BY <1>1, <1>5, <2>1, SumMonotone
<1> QED BY <1>4, <1>6, <1>7, <1>8 DEF f

-----------------------------------------------------------------------------
\* Who keeps to every item keeps to the sum of the items.
LEMMA ItemsCover ==
    ASSUME profile \in Seq(Filed), NEW b \in BudgetSets, \A c \in Breakdown : PaidOn(c) <= ItemFor(b, c)
    PROVE  PaidInAll <= Summed([i \in DOMAIN b.items |-> b.items[i][2]])
<1> DEFINE I == DOMAIN b.items
           vals == [i \in I |-> b.items[i][2]]
           p == [c \in Breakdown |-> PaidOn(c)]
           T == [c \in Breakdown |-> {i \in I : b.items[i][1] = c}]
           S == {i \in I : b.items[i][1] \in Breakdown}
           h == [c \in Breakdown |-> SumOf(vals, T[c])]
<1>1. I = 1..Len(b.items) /\ Len(b.items) \in Nat /\ \A i \in I : b.items[i][2] \in Nat
  BY AdviceConstants
<1>2. IsFiniteSet(I) /\ I \in SUBSET Nat
  BY <1>1, FS_Interval
<1>3. vals \in [I -> Nat] /\ vals \in [I -> Int] /\ DOMAIN vals = I /\ \A i \in I : vals[i] = b.items[i][2] /\ 0 <= vals[i]
  BY <1>1
<1>4. Summed(vals) = SumOf(vals, I)
  BY SummedIs
<1>5. S \in SUBSET I /\ IsFiniteSet(S) /\ IsFiniteSet(Breakdown)
  BY <1>2, FS_Subset, BreakdownFinite
<1>6. Classes(T, Breakdown, S) /\ \A c \in Breakdown : T[c] = {i \in I : b.items[i][1] = c}
  BY DEF Classes
<1> HIDE DEF S, T, I, vals
<1>7. ASSUME NEW c \in Breakdown PROVE IsFiniteSet(T[c]) /\ T[c] \in SUBSET I /\ SumOf(vals, T[c]) \in Int
  <2>1. T[c] \in SUBSET I
    BY <1>6
  <2>2. IsFiniteSet(T[c])
    BY <1>2, <2>1, FS_Subset
  <2>3. SumOf(vals, T[c]) \in Int
    BY <1>3, <2>1, <2>2, SumInt
  <2> QED BY <2>1, <2>2, <2>3
<1>8. h \in [Breakdown -> Int] /\ \A c \in Breakdown : h[c] = SumOf(vals, T[c])
  BY <1>7
<1>9. p \in [Breakdown -> Int] /\ \A c \in Breakdown : p[c] = PaidOn(c)
  BY PaidOnIs
<1> HIDE DEF h, p
<1>10. ASSUME NEW c \in Breakdown PROVE p[c] <= h[c]
  <2>0. PaidOn(c) <= ItemFor(b, c) /\ PaidOn(c) \in Nat
    BY PaidOnIs
  <2>1. ItemFor(b, c) = IF T[c] = {} THEN 0 ELSE b.items[Min(T[c])][2]
    BY <1>6 DEF ItemFor, I
  <2>2. CASE T[c] = {}
    <3>1. SumOf(vals, {}) = 0
      BY <1>3, SumEmpty
    <3> QED BY <1>8, <1>9, <2>0, <2>1, <2>2, <3>1
  <2>3. CASE T[c] # {}
    <3>1. T[c] \in SUBSET Nat /\ T[c] \in SUBSET I
      BY <1>2, <1>7
    <3>2. Min(T[c]) \in T[c]
      BY <2>3, <3>1, MinIn
    <3> DEFINE i == Min(T[c])
    <3>3. i \in I /\ i \in T[c] /\ ItemFor(b, c) = vals[i]
      BY <1>3, <2>1, <2>3, <3>1, <3>2
    <3> HIDE DEF i
    <3>4. SumOf(vals, {i}) = vals[i]
      BY <1>3, <3>3, SumOne
    <3>5. SumOf(vals, {i}) <= SumOf(vals, T[c])
      <4>1. {i} \in SUBSET T[c] /\ \A x \in T[c] \ {i} : 0 <= vals[x]
        BY <1>3, <3>1, <3>3
      <4> QED BY <1>3, <1>7, <4>1, SumGrows
    <3>6. vals[i] \in Int
      BY <1>3, <3>3
    <3>7. PaidOn(c) <= SumOf(vals, T[c])
      BY <1>7, <2>0, <3>3, <3>4, <3>5, <3>6
    <3> QED BY <1>8, <1>9, <3>7
  <2> QED BY <2>2, <2>3
<1>11. SumOf(p, Breakdown) <= SumOf(h, Breakdown)
  <2>1. Breakdown \in SUBSET (Breakdown \cap Breakdown) /\ \A c \in Breakdown : p[c] <= h[c]
    BY <1>10
  <2> QED BY <1>5, <1>8, <1>9, <2>1, SumMonotone
<1>12. SumOf(h, Breakdown) = SumOf(vals, S)
  <2>1. S \in SUBSET I /\ IsFiniteSet(S) /\ IsFiniteSet(Breakdown) /\ vals \in [I -> Int] /\ Classes(T, Breakdown, S)
    BY <1>3, <1>5, <1>6
  <2> QED BY <1>8, <2>1, SumByClass
<1>13. SumOf(vals, S) <= SumOf(vals, I) /\ SumOf(vals, S) \in Int /\ SumOf(vals, I) \in Int
  <2>1. S \in SUBSET I /\ I \in SUBSET I /\ \A i \in I \ S : 0 <= vals[i]
    BY <1>3, <1>5
  <2>2. vals \in [I -> Int] /\ IsFiniteSet(S) /\ IsFiniteSet(I)
    BY <1>2, <1>3, <1>5
  <2>3. SumOf(vals, S) <= SumOf(vals, I)
    BY <2>1, <2>2, SumGrows
  <2>4. SumOf(vals, S) \in Int
    BY <2>1, <2>2, SumInt
  <2>5. SumOf(vals, I) \in Int
    BY <2>1, <2>2, SumInt
  <2> QED BY <2>3, <2>4, <2>5
<1>14. SumOf(p, Breakdown) = PaidInAll /\ PaidInAll \in Nat
  BY <1>9, PaidOnIs
<1>15. PaidInAll <= SumOf(vals, I)
  BY <1>11, <1>12, <1>13, <1>14
<1> QED BY <1>4, <1>15 DEF vals, I

LEMMA ItemIs ==
    ASSUME NEW b \in BudgetSets
    PROVE  (\A c : ItemFor(b, c) \in Int) /\ Summed([i \in DOMAIN b.items |-> b.items[i][2]]) \in Int
<1> DEFINE I == DOMAIN b.items
           vals == [i \in I |-> b.items[i][2]]
<1>1. I = 1..Len(b.items) /\ Len(b.items) \in Nat /\ \A i \in I : b.items[i][2] \in Nat
  BY AdviceConstants
<1>2. ASSUME NEW c PROVE ItemFor(b, c) \in Int
  <2> DEFINE on == {i \in I : b.items[i][1] = c}
  <2>1. on \in SUBSET Nat /\ on \in SUBSET I /\ ItemFor(b, c) = IF on = {} THEN 0 ELSE b.items[Min(on)][2]
    BY <1>1 DEF ItemFor
  <2> HIDE DEF on, I
  <2>2. on # {} => Min(on) \in on
    BY <2>1, MinIn
  <2>3. on # {} => b.items[Min(on)][2] \in Nat
    BY <1>1, <2>1, <2>2
  <2> QED BY <2>1, <2>3
<1>3. IsFiniteSet(I) /\ I \in SUBSET I /\ vals \in [I -> Int] /\ DOMAIN vals = I
  <2>1. IsFiniteSet(I)
    BY <1>1, FS_Interval
  <2>2. \A i \in I : b.items[i][2] \in Int
    BY <1>1
  <2> QED BY <2>1, <2>2
<1>4. Summed(vals) = SumOf(vals, DOMAIN vals)
  BY SummedIs
<1> HIDE DEF I, vals
<1>5. SumOf(vals, I) \in Int
  BY <1>3, SumInt
<1> QED BY <1>2, <1>3, <1>4, <1>5 DEF vals, I

LEMMA Surely ==
    ASSUME NEW mcc \in Codes, NEW text \in SentTexts
    PROVE  LET sure == ClassifyWithConfidence(mcc, text)
           IN  /\ sure.category = Classify(mcc, text)
               /\ (sure.confidence = 0) = (sure.category = "other")
               /\ sure.confidence = 0 \/ sure.confidence \in 50..95
<1> DEFINE sure == ClassifyWithConfidence(mcc, text)
           byCode == IF mcc = NoCode THEN "other" ELSE ClassifyByMcc(mcc)
           words == Words(text)
           base == Fewer(95, More(50, (100 * Keywords[Min(words)][2]) \div More(1, text.length)))
           most == base + Fewer(95 - base, 5 * (Cardinality(words) - 1))
<1>1. sure = IF byCode # "other" THEN [category |-> byCode, confidence |-> 95, source |-> "mcc"]
             ELSE IF words = {} THEN [category |-> "other", confidence |-> 0, source |-> "fallback"]
             ELSE [category |-> Keywords[Min(words)][3], source |-> "keyword", confidence |-> most]
  BY DEF ClassifyWithConfidence
<1>2. Classify(mcc, text) = IF byCode # "other" THEN byCode ELSE FirstOf(Keywords, words)
  BY DEF Classify
<1>3. words # {} => most \in 50..95
  <2> SUFFICES ASSUME words # {} PROVE most \in 50..95
    OBVIOUS
  <2>1. Min(words) \in 1..14
    BY FirstIs, Wording
  <2>2. Keywords[Min(words)][2] \in 2..5
    BY <2>1, Wording
  <2>3. text.length \in Nat
    BY AdviceConstants DEF SentTexts
  <2>4. Cardinality(words) \in Nat /\ Cardinality(words) # 0
    <3>1. words \in SUBSET (1..14)
      BY Wording DEF Words
    <3>3. IsFiniteSet(1..14)
      <4>1. PICK m \in Nat : m = 14
        OBVIOUS
      <4>2. IsFiniteSet(1..m)
        BY FS_Interval
      <4> QED BY <4>1, <4>2
    <3>2. IsFiniteSet(words)
      BY <3>1, <3>3, FS_Subset
    <3> QED BY <3>2, FS_EmptySet, FS_CardinalityType
  <2> DEFINE q == Keywords[Min(words)][2]
             d == More(1, text.length)
             n == Cardinality(words)
             r == (100 * q) \div d
  <2>5. d \in Nat \ {0} /\ q \in Nat /\ n \in Nat \ {0}
    BY <2>2, <2>3, <2>4 DEF More
  <2> HIDE DEF q, d, n
  <2>6. r \in Int
    BY <2>5
  <2> HIDE DEF r
  <2>7. base = Fewer(95, More(50, r))
    BY DEF r, q, d
  <2>8. base \in 50..95
    BY <2>6, <2>7 DEF Fewer, More
  <2>9. most = base + Fewer(95 - base, 5 * (n - 1))
    BY DEF n
  <2> HIDE DEF most, base
  <2> QED BY <2>5, <2>8, <2>9 DEF Fewer
<1>4. words # {} => FirstOf(Keywords, words) = Keywords[Min(words)][3] /\ FirstOf(Keywords, words) # "other"
  BY FirstIs
<1>5. words = {} => FirstOf(Keywords, words) = "other"
  BY FirstIs
<1> HIDE DEF byCode, words, most
<1>6. /\ sure.category = Classify(mcc, text)
      /\ (sure.confidence = 0) = (sure.category = "other")
      /\ sure.confidence = 0 \/ sure.confidence \in 50..95
  <2> HIDE DEF sure
  <2>1. CASE byCode # "other"
    BY <1>1, <1>2, <2>1
  <2>2. CASE byCode = "other" /\ words = {}
    BY <1>1, <1>2, <1>5, <2>2
  <2>3. CASE byCode = "other" /\ words # {}
    BY <1>1, <1>2, <1>3, <1>4, <2>3
  <2> QED BY <2>1, <2>2, <2>3
<1> QED BY <1>6

LEMMA ProfileIs == AdviceInv => profile \in Seq(Filed) /\ ledger \in Seq(Filed)
BY HalfYearIs DEF AdviceInv

LEMMA AdviceFollows == AdviceInv => AdviceHolds
<1> SUFFICES ASSUME AdviceInv PROVE AdviceHolds
  OBVIOUS
<1>1. profile \in Seq(Filed)
  BY ProfileIs
<1>2. ClassifiersAgree
  BY Surely DEF ClassifiersAgree
<1>3. \A c \in Breakdown : PotentialSaving(c) <= 40 * PaidOn(c)
  BY <1>1, SavesOn
<1>4. Summed([c \in Breakdown |-> PotentialSaving(c)]) <= 40 * PaidInAll
  BY <1>1, SavesInAll
<1>5. ASSUME NEW b \in budget, OverInAll, b.total = Summed([i \in DOMAIN b.items |-> b.items[i][2]]),
             \A c \in Breakdown : ItemFor(b, c) # 0, ~\E c \in Breakdown : OverOn(c)
      PROVE  FALSE
  <2>1. b \in BudgetSets /\ PaidInAll > b.total
    BY <1>5 DEF AdviceInv, OverInAll
  <2>2. ASSUME NEW c \in Breakdown PROVE PaidOn(c) <= ItemFor(b, c)
    <3>1. ~(PaidOn(c) > ItemFor(b, c))
      BY <1>5 DEF OverOn
    <3>2. PaidOn(c) \in Int
      BY <1>1, PaidOnIs
    <3>3. ItemFor(b, c) \in Int
      BY <2>1, ItemIs
    <3> QED BY <3>1, <3>2, <3>3
  <2>3. PaidInAll <= b.total
    BY <1>1, <1>5, <2>1, <2>2, ItemsCover
  <2>5. b.total \in Int
    BY <1>5, <2>1, ItemIs
  <2>4. PaidInAll \in Int /\ b.total \in Int
    BY <1>1, <2>5, PaidOnIs
  <2> QED BY <2>1, <2>3, <2>4
<1>6. /\ \E n \in 0..Len(ledger) : profile = HalfYear(n)
      /\ \A i \in misfiled : ledger[i].category = "other"
  BY DEF AdviceInv
<1> QED BY <1>2, <1>3, <1>4, <1>5, <1>6 DEF AdviceHolds

THEOREM AdviceIsSound == AdviceSpec => []AdviceHolds
<1>1. AdviceInv => AdviceHolds
  BY AdviceFollows
<1> QED BY <1>1, AdviceStays, PTL

-----------------------------------------------------------------------------
\* The pages.  What is less than three standard deviations off.
LEMMA NotUnusual ==
    ASSUME NEW S, IsFiniteSet(S), Cardinality(S) <= 10, NEW f \in [S -> Int] PROVE Unusual(f) = {}
<1> DEFINE q == [i \in DOMAIN f |-> f[i] * f[i]]
           n == Cardinality(S)
           a == SumOf(f, S)
           b == SumOf(q, S)
<1>1. \A i, j \in Int : i * j \in Int
  OBVIOUS
<1>2. DOMAIN f = S /\ q \in [S -> Int] /\ DOMAIN q = S /\ \A x \in S : q[x] = f[x] * f[x]
  BY <1>1
<1>3. Summed(f) = a /\ Summed(q) = b
  BY <1>2, SummedIs
<1>4. Unusual(f) = {i \in S : (n * f[i] - a) * (n * f[i] - a) > 9 * (n * b - a * a)}
  BY <1>2, <1>3 DEF Unusual
<1> HIDE DEF q
<1>5. ASSUME NEW i \in S PROVE ~((n * f[i] - a) * (n * f[i] - a) > 9 * (n * b - a * a))
  <2> DEFINE d == n * f[i] - a
             e == n * b - a * a
  <2>1. d \in Int /\ e \in Int /\ 0 <= e /\ d * d <= (n - 1) * e
    <3>1. S \in SUBSET S /\ q \in [S -> Int] /\ \A x \in S : q[x] = f[x] * f[x]
      BY <1>2
    <3> QED BY <3>1, NoneIsFar
  <2>2. n \in Nat /\ n <= 10
    BY FS_CardinalityType
  <2> HIDE DEF d, e, n
  <2>3. \A k \in 0..9 : \A j \in Nat : k * j <= 9 * j /\ k * j \in Int
    OBVIOUS
  <2>4. \A j \in Nat : (-1) * j <= 9 * j /\ (-1) * j \in Int
    OBVIOUS
  <2>5. (n - 1) * e <= 9 * e /\ (n - 1) * e \in Int
    <3>1. e \in Nat
      BY <2>1
    <3>2. n - 1 \in 0..9 \/ n - 1 = -1
      BY <2>2
    <3> QED BY <2>3, <2>4, <3>1, <3>2
  <2>6. d * d \in Int /\ 9 * e \in Int
    BY <2>1
  <2>7. d * d <= 9 * e
    BY <2>1, <2>5, <2>6
  <2>8. ~(d * d > 9 * e)
    BY <2>6, <2>7
  <2> QED BY <2>8 DEF d, e
<1> QED BY <1>4, <1>5

LEMMA NoneOfTen ==
    ASSUME NEW list \in Seq(Filed), NEW rows \in SUBSET DOMAIN list, Cardinality(rows) <= 10
    PROVE  Unusual([i \in rows |-> list[i].amount]) = {} /\ IsFiniteSet(rows)
<1>1. IsFiniteSet(rows)
  <2>1. Len(list) \in Nat /\ DOMAIN list = 1..Len(list)
    OBVIOUS
  <2>2. IsFiniteSet(1..Len(list))
    BY <2>1, FS_Interval
  <2> QED BY <2>1, <2>2, FS_Subset
<1>2. \A i \in DOMAIN list : list[i] \in Filed
  BY SeqHas
<1> DEFINE f == [i \in rows |-> list[i].amount]
<1>3. f \in [rows -> Int]
  BY <1>2 DEF Filed
<1> HIDE DEF f
<1>4. Unusual(f) = {}
  BY <1>1, <1>3, NotUnusual
<1> QED BY <1>1, <1>4 DEF f

LEMMA LargeIs == OneLarge
<1> SUFFICES ASSUME NEW n \in 2..12
             PROVE  (Unusual([i \in 1..n |-> IF i = 1 THEN 50 ELSE 1]) = {1}) = (n >= 11)
  BY DEF OneLarge
<1> DEFINE S == 1..n
           f == [i \in 1..n |-> IF i = 1 THEN 50 ELSE 1]
           q == [i \in DOMAIN f |-> f[i] * f[i]]
           one == [i \in S |-> 1]
<1>1. /\ f \in [S -> Int] /\ q \in [S -> Int] /\ DOMAIN f = S /\ DOMAIN q = S /\ 1 \in S
      /\ f[1] = 50 /\ q[1] = 2500 /\ \A x \in S \ {1} : f[x] = 1 /\ q[x] = 1
  OBVIOUS
<1>2. IsFiniteSet(S) /\ Cardinality(S) = n
  <2>1. IsFiniteSet(1..n) /\ Cardinality(1..n) = IF 1 > n THEN 0 ELSE n - 1 + 1
    <3>1. 1 \in Int /\ n \in Int
      OBVIOUS
    <3> QED BY <3>1, FS_Interval, Zenon
  <2>2. ~(1 > n) /\ n - 1 + 1 = n
    OBVIOUS
  <2> QED BY <2>1, <2>2
<1>3. IsFiniteSet(S \ {1}) /\ Cardinality(S \ {1}) = n - 1 /\ S \ {1} \in SUBSET (S \cap S)
  <2>1. 1 \in S /\ S \ {1} \in SUBSET (S \cap S)
    OBVIOUS
  <2> HIDE DEF S
  <2> QED BY <1>2, <2>1, FS_RemoveElement
<1>4. one \in [S -> Int] /\ \A x \in S : one[x] = 1
  OBVIOUS
<1>5. SumOf(one, S \ {1}) = n - 1
  <2>1. S \ {1} \in SUBSET S /\ 1 \in Int
    OBVIOUS
  <2>2. SumOf(one, S \ {1}) = 1 * Cardinality(S \ {1})
    BY <1>3, <2>1, SumConstant
  <2> QED BY <1>3, <2>2
<1>6. Summed(f) = SumOf(f, S) /\ Summed(q) = SumOf(q, S)
  BY <1>1, SummedIs
<1>7. Unusual(f) = {i \in S : (n * f[i] - SumOf(f, S)) * (n * f[i] - SumOf(f, S))
                                 > 9 * (n * SumOf(q, S) - SumOf(f, S) * SumOf(f, S))}
  BY <1>1, <1>2, <1>6 DEF Unusual
<1> HIDE DEF f, q, one
<1>8. SumOf(f, S \ {1}) = n - 1
  <2>1. \A x \in S \ {1} : f[x] = one[x]
    BY <1>1, <1>4
  <2>2. f \in [S -> Int] /\ one \in [S -> Int]
    BY <1>1, <1>4
  <2> HIDE DEF S
  <2>3. SumOf(f, S \ {1}) = SumOf(one, S \ {1})
    BY <1>3, <2>1, <2>2, SumSame
  <2> QED BY <1>5, <2>3
<1>9. SumOf(q, S \ {1}) = n - 1
  <2>1. \A x \in S \ {1} : q[x] = one[x]
    BY <1>1, <1>4
  <2>2. q \in [S -> Int] /\ one \in [S -> Int]
    BY <1>1, <1>4
  <2> HIDE DEF S
  <2>3. SumOf(q, S \ {1}) = SumOf(one, S \ {1})
    BY <1>3, <2>1, <2>2, SumSame
  <2> QED BY <1>5, <2>3
<1>10. SumOf(f, S) = f[1] + SumOf(f, S \ {1})
  <2>1. S \in SUBSET S /\ 1 \in S
    BY <1>1
  <2> QED BY <1>1, <1>2, <2>1, SumRemove
<1>11. SumOf(q, S) = q[1] + SumOf(q, S \ {1})
  <2>1. S \in SUBSET S /\ 1 \in S
    BY <1>1
  <2> QED BY <1>1, <1>2, <2>1, SumRemove
<1>12. SumOf(f, S) = 49 + n /\ SumOf(q, S) = 2499 + n
  BY <1>1, <1>8, <1>9, <1>10, <1>11
<1>13. 9 * (n * (2499 + n) - (49 + n) * (49 + n)) = 21609 * (n - 1)
  OBVIOUS
<1>14. (n * 50 - (49 + n)) * (n * 50 - (49 + n)) = 2401 * ((n - 1) * (n - 1))
  OBVIOUS
<1>15. (n * 1 - (49 + n)) * (n * 1 - (49 + n)) = 2401
  OBVIOUS
<1>16. (2401 * ((n - 1) * (n - 1)) > 21609 * (n - 1)) = (n >= 11)
  OBVIOUS
<1>17. ~(2401 > 21609 * (n - 1))
  OBVIOUS
<1>18. 1 \in Unusual(f) <=> n >= 11
  BY <1>1, <1>7, <1>12, <1>13, <1>14, <1>16
<1>19. ASSUME NEW x \in S \ {1} PROVE x \notin Unusual(f)
  <2>1. f[x] = 1
    BY <1>1
  <2> QED BY <1>7, <1>12, <1>13, <1>15, <1>17, <2>1
<1>20. Unusual(f) \subseteq S
  BY <1>7
<1>21. (Unusual(f) = {1}) = (n >= 11)
  BY <1>18, <1>19, <1>20
<1> QED BY <1>21 DEF f

\* The months in which something was paid.
LEMMA PeriodsAre ==
    ASSUME profile \in Seq(Filed)
    PROVE  /\ IsFiniteSet(Periods) /\ Periods \in SUBSET Int /\ (profile # <<>> => Periods # {})
           /\ \A m : InMonth(m) \in SUBSET DOMAIN profile /\ Paid(InMonth(m)) \in Nat /\ Rank(m) \in Nat
<1> DEFINE f == [i \in DOMAIN profile |-> MonthOf(profile[i])]
<1>1. IsFiniteSet(DOMAIN profile)
  <2>1. DOMAIN profile \in SUBSET DOMAIN profile
    OBVIOUS
  <2> QED BY <2>1, PaidIs
<1>2. f \in Surjection(DOMAIN profile, Periods)
  BY DEF Surjection, Periods
<1> HIDE DEF f
<1>3. IsFiniteSet(Periods)
  BY <1>1, <1>2, FS_Surjection
<1>4. \A i \in DOMAIN profile : profile[i] \in Filed
  BY SeqHas
<1>5. Periods \in SUBSET Int
  <2>1. \A i \in DOMAIN profile : MonthOf(profile[i]) \in Int
    BY <1>4 DEF Filed, MonthOf
  <2> QED BY <2>1 DEF Periods
<1>6. profile # <<>> => Periods # {}
  <2> SUFFICES ASSUME profile # <<>> PROVE Periods # {}
    OBVIOUS
  <2>1. 1 \in DOMAIN profile
    OBVIOUS
  <2>2. MonthOf(profile[1]) \in Periods
    BY <2>1 DEF Periods
  <2> QED BY <2>2
<1>7. ASSUME NEW m PROVE InMonth(m) \in SUBSET DOMAIN profile /\ Paid(InMonth(m)) \in Nat /\ Rank(m) \in Nat
  <2>1. InMonth(m) \in SUBSET DOMAIN profile
    BY DEF InMonth
  <2>2. Paid(InMonth(m)) \in Nat
    BY <2>1, PaidIs
  <2> DEFINE S == {k \in Periods : k <= m}
  <2>3. S \in SUBSET Periods /\ Rank(m) = Cardinality(S)
    BY DEF Rank
  <2> HIDE DEF S
  <2>4. IsFiniteSet(S)
    BY <1>3, <2>3, FS_Subset
  <2>5. Cardinality(S) \in Nat
    BY <2>4, FS_CardinalityType
  <2> QED BY <2>1, <2>2, <2>3, <2>5
<1> QED BY <1>3, <1>5, <1>6, <1>7

\* A mean that is weighted lies between the values.
LEMMA ForecastIs ==
    ASSUME profile \in Seq(Filed), profile # <<>>
    PROVE  /\ \E m \in Periods : Weights * Paid(InMonth(m)) <= Forecast
           /\ \E m \in Periods : Weights * Paid(InMonth(m)) >= Forecast
           /\ Forecast \in Int
<1> DEFINE paid == [m \in Periods |-> Paid(InMonth(m))]
           minus == [m \in Periods |-> 0 - Paid(InMonth(m))]
           r == [m \in Periods |-> Rank(m)]
           g == [m \in Periods |-> Rank(m) * Paid(InMonth(m))]
<1>1. IsFiniteSet(Periods) /\ Periods # {} /\ Periods \in SUBSET Periods
  BY PeriodsAre
<1>2. \A m \in Periods : Paid(InMonth(m)) \in Nat /\ Rank(m) \in Nat
  BY PeriodsAre
<1>3. \A i, j \in Nat : i * j \in Nat
  OBVIOUS
<1>4. /\ paid \in [Periods -> Int] /\ minus \in [Periods -> Int] /\ r \in [Periods -> Nat] /\ g \in [Periods -> Int]
      /\ DOMAIN r = Periods /\ DOMAIN g = Periods
  BY <1>2, <1>3
<1>5. \A m \in Periods : /\ paid[m] = Paid(InMonth(m)) /\ minus[m] = 0 - paid[m] /\ g[m] = r[m] * paid[m]
                         /\ r[m] \in Nat /\ paid[m] \in Int
  BY <1>2
<1>6. Weights = SumOf(r, Periods) /\ Forecast = SumOf(g, Periods)
  BY <1>4, SummedIs DEF Weights, Forecast
<1> HIDE DEF paid, minus, r, g
<1>7. r \in [Periods -> Int]
  BY <1>4
<1>8. SumOf(r, Periods) \in Int
  BY <1>1, <1>7, SumInt
<1>9. SumOf(g, Periods) \in Int
  BY <1>1, <1>4, SumInt
<1>10. ASSUME NEW m \in Periods
       PROVE  \E h : /\ h \in [Periods -> Int] /\ SumOf(h, Periods) = paid[m] * SumOf(r, Periods)
                     /\ \A k \in Periods : h[k] = paid[m] * r[k]
  <2>0. paid[m] \in Int
    BY <1>4
  <2>1. PICK c \in Int : c = paid[m]
    BY <2>0
  <2> DEFINE h == [k \in Periods |-> c * r[k]]
  <2>2. h \in [Periods -> Int] /\ \A k \in Periods : h[k] = c * r[k]
    BY <1>5, <2>1
  <2> HIDE DEF h
  <2>4. h \in [Periods -> Int]
    BY <2>2
  <2>5. Scaled(h, c, r, Periods)
    BY <2>2 DEF Scaled
  <2>6. IsFiniteSet(Periods) /\ Periods \in SUBSET Periods
    BY <1>1
  <2>3. SumOf(h, Periods) = c * SumOf(r, Periods)
    BY <1>7, <2>4, <2>5, <2>6, SumScale
  <2> QED BY <2>1, <2>2, <2>3
<1>11. \E m \in Periods : Weights * Paid(InMonth(m)) >= Forecast
  <2>1. PICK m \in Periods : \A k \in Periods : paid[k] <= paid[m]
    BY <1>1, <1>4, GreatestOf
  <2>2. PICK h : /\ h \in [Periods -> Int] /\ SumOf(h, Periods) = paid[m] * SumOf(r, Periods)
                 /\ \A k \in Periods : h[k] = paid[m] * r[k]
    BY <1>10
  <2>3. ASSUME NEW k \in Periods PROVE g[k] <= h[k]
    <3>1. g[k] = r[k] * paid[k] /\ h[k] = paid[m] * r[k] /\ paid[k] <= paid[m]
      BY <1>5, <2>1, <2>2
    <3>2. r[k] \in Nat /\ paid[k] \in Int /\ paid[m] \in Int
      BY <1>5
    <3>3. \A i \in Nat, x, y \in Int : x <= y => i * x <= y * i
      OBVIOUS
    <3> QED BY <3>1, <3>2, <3>3
  <2>4. Periods \in SUBSET (Periods \cap Periods) /\ \A k \in Periods : g[k] <= h[k]
    BY <2>3
  <2>5. SumOf(g, Periods) <= SumOf(h, Periods)
    BY <1>1, <1>4, <2>2, <2>4, SumMonotone
  <2>6. paid[m] \in Int /\ paid[m] = Paid(InMonth(m))
    BY <1>5
  <2>7. \A i, j \in Int : i * j = j * i /\ i * j \in Int
    OBVIOUS
  <2>8. Weights * Paid(InMonth(m)) >= Forecast
    BY <1>6, <1>8, <1>9, <2>2, <2>5, <2>6, <2>7
  <2> QED BY <2>8
<1>12. \E m \in Periods : Weights * Paid(InMonth(m)) <= Forecast
  <2>0. PICK m \in Periods : \A k \in Periods : minus[k] <= minus[m]
    BY <1>1, <1>4, GreatestOf
  <2>1. \A k \in Periods : paid[m] <= paid[k]
    BY <1>5, <2>0
  <2>2. PICK h : /\ h \in [Periods -> Int] /\ SumOf(h, Periods) = paid[m] * SumOf(r, Periods)
                 /\ \A k \in Periods : h[k] = paid[m] * r[k]
    BY <1>10
  <2>3. ASSUME NEW k \in Periods PROVE h[k] <= g[k]
    <3>1. g[k] = r[k] * paid[k] /\ h[k] = paid[m] * r[k] /\ paid[m] <= paid[k]
      BY <1>5, <2>1, <2>2
    <3>2. r[k] \in Nat /\ paid[k] \in Int /\ paid[m] \in Int
      BY <1>5
    <3>3. \A i \in Nat, x, y \in Int : x <= y => x * i <= i * y
      OBVIOUS
    <3> QED BY <3>1, <3>2, <3>3
  <2>4. Periods \in SUBSET (Periods \cap Periods) /\ \A k \in Periods : h[k] <= g[k]
    BY <2>3
  <2>5. SumOf(h, Periods) <= SumOf(g, Periods)
    BY <1>1, <1>4, <2>2, <2>4, SumMonotone
  <2>6. paid[m] \in Int /\ paid[m] = Paid(InMonth(m))
    BY <1>5
  <2>7. \A i, j \in Int : i * j = j * i /\ i * j \in Int
    OBVIOUS
  <2>8. Weights * Paid(InMonth(m)) <= Forecast
    BY <1>6, <1>8, <1>9, <2>2, <2>5, <2>6, <2>7
  <2> QED BY <2>8
<1> QED BY <1>6, <1>9, <1>11, <1>12

LEMMA SharedOut ==
    ASSUME profile \in Seq(Filed), profile # <<>>
    PROVE  Summed([c \in Breakdown |-> ForecastOn(c)]) = Forecast * Paid(LastThree)
<1> DEFINE h == [c \in Breakdown |-> ForecastOn(c)]
           part == [c \in Breakdown |-> Paid({i \in LastThree : profile[i].category = c})]
<1>0. IsFiniteSet(Breakdown) /\ Breakdown \in SUBSET Breakdown /\ Forecast \in Int
  BY BreakdownFinite, ForecastIs
<1>1. LastThree \in SUBSET DOMAIN profile
  BY PeriodsAre DEF LastThree
<1>2. \A c \in Breakdown : Paid({i \in LastThree : profile[i].category = c}) \in Nat
  <2> SUFFICES ASSUME NEW c \in Breakdown PROVE Paid({i \in LastThree : profile[i].category = c}) \in Nat
    OBVIOUS
  <2> DEFINE S == {i \in LastThree : profile[i].category = c}
  <2>1. S \in SUBSET DOMAIN profile
    BY <1>1
  <2> HIDE DEF S
  <2>2. Paid(S) \in Nat
    BY <2>1, PaidIs
  <2> QED BY <2>2 DEF S
<1>3. part \in [Breakdown -> Int] /\ \A c \in Breakdown : part[c] = Paid({i \in LastThree : profile[i].category = c})
  BY <1>2
<1>4. \A c \in Breakdown : h[c] = IF Paid(LastThree) = 0 THEN 0 ELSE Forecast * part[c]
  BY DEF ForecastOn
<1>5. Summed(h) = SumOf(h, Breakdown) /\ h = [c \in Breakdown |-> h[c]]
  BY SummedIs
<1>6. Paid(LastThree) \in Nat
  BY <1>1, PaidIs
<1> HIDE DEF h, part
<1>7. SumOf(part, Breakdown) = Paid(LastThree)
  BY <1>1, <1>3, PaidByKind
<1>8. CASE Paid(LastThree) = 0
  <2> DEFINE none == [c \in Breakdown |-> 0]
  <2>1. h = none
    BY <1>4, <1>5, <1>8
  <2>2. SumOf(none, Breakdown) = 0 * Cardinality(Breakdown)
    <3>1. 0 \in Int
      OBVIOUS
    <3> QED BY <1>0, <3>1, SumConstant
  <2>3. Cardinality(Breakdown) \in Nat
    BY <1>0, FS_CardinalityType
  <2>4. \A x \in Int : 0 * x = 0 /\ x * 0 = 0
    OBVIOUS
  <2>5. SumOf(none, Breakdown) = 0
    BY <2>2, <2>3, <2>4
  <2>6. Forecast * Paid(LastThree) = 0
    BY <1>0, <1>8, <2>4
  <2> QED BY <1>5, <2>1, <2>5, <2>6 DEF h
<1>9. CASE Paid(LastThree) # 0
  <2>1. \A c \in Breakdown : h[c] = Forecast * part[c]
    BY <1>4, <1>9
  <2>2. \A i, j \in Int : i * j \in Int
    OBVIOUS
  <2>3. h \in [Breakdown -> Int]
    BY <1>0, <1>3, <1>5, <2>1, <2>2
  <2>5. part \in [Breakdown -> Int]
    BY <1>3
  <2>4. SumOf(h, Breakdown) = Forecast * SumOf(part, Breakdown)
    <3>1. Scaled(h, Forecast, part, Breakdown)
      BY <2>1 DEF Scaled
    <3> QED BY <1>0, <2>3, <2>5, <3>1, SumScale
  <2> QED BY <1>5, <1>7, <2>4 DEF h
<1> QED BY <1>8, <1>9

LEMMA ComparedByAll ==
    ASSUME profile \in Seq(Filed), NEW cur \in Periods, NEW prev \in Periods
    PROVE  Summed([c \in Breakdown |-> DiffOn(c, cur, prev)]) = Paid(InMonth(cur)) - Paid(InMonth(prev))
<1> DEFINE h == [c \in Breakdown |-> DiffOn(c, cur, prev)]
           a == [c \in Breakdown |-> Paid(InMonth(cur) \cap Of(c))]
           b == [c \in Breakdown |-> Paid(InMonth(prev) \cap Of(c))]
<1>0. IsFiniteSet(Breakdown) /\ Breakdown \in SUBSET Breakdown
  BY BreakdownFinite
<1>1. ASSUME NEW m, NEW c PROVE Paid(InMonth(m) \cap Of(c)) \in Nat
  <2>1. InMonth(m) \cap Of(c) \in SUBSET DOMAIN profile
    BY DEF InMonth
  <2> QED BY <2>1, PaidIs
<1>13. \A c \in Breakdown : Paid(InMonth(cur) \cap Of(c)) \in Nat
  BY <1>1
<1>14. \A c \in Breakdown : Paid(InMonth(prev) \cap Of(c)) \in Nat
  BY <1>1
<1>2. a \in [Breakdown -> Int] /\ b \in [Breakdown -> Int]
  <2>1. \A c \in Breakdown : a[c] \in Int /\ b[c] \in Int
    BY <1>13, <1>14
  <2>2. a = [c \in Breakdown |-> a[c]] /\ b = [c \in Breakdown |-> b[c]]
    OBVIOUS
  <2> HIDE DEF a, b
  <2> QED BY <2>1, <2>2
<1>3. \A c \in Breakdown : h[c] = a[c] - b[c] /\ h[c] \in Int
  BY <1>13, <1>14 DEF DiffOn
<1>4. Summed(h) = SumOf(h, Breakdown) /\ h = [c \in Breakdown |-> h[c]]
  BY SummedIs
<1>5. ASSUME NEW m, NEW c PROVE InMonth(m) \cap Of(c) = {i \in InMonth(m) : profile[i].category = c}
  BY DEF InMonth, Of
<1>6. \A c \in Breakdown : a[c] = Paid({i \in InMonth(cur) : profile[i].category = c})
  BY <1>5
<1>7. \A c \in Breakdown : b[c] = Paid({i \in InMonth(prev) : profile[i].category = c})
  BY <1>5
<1> HIDE DEF h, a, b
<1>8. h \in [Breakdown -> Int]
  BY <1>3, <1>4
<1>9. SumOf(h, Breakdown) = SumOf(a, Breakdown) - SumOf(b, Breakdown)
  <2>1. DiffersBy(h, a, b, Breakdown)
    BY <1>2, <1>3, <1>8 DEF DiffersBy
  <2> QED BY <1>0, <2>1, SumLess
<1>10. InMonth(cur) \in SUBSET DOMAIN profile /\ InMonth(prev) \in SUBSET DOMAIN profile
  BY DEF InMonth
<1>11. SumOf(a, Breakdown) = Paid(InMonth(cur))
  BY <1>2, <1>6, <1>10, PaidByKind
<1>12. SumOf(b, Breakdown) = Paid(InMonth(prev))
  BY <1>2, <1>7, <1>10, PaidByKind
<1> QED BY <1>4, <1>9, <1>11, <1>12 DEF h

LEMMA NotBothMore ==
    ASSUME profile \in Seq(Filed), NEW cur \in Periods, NEW prev \in Periods
    PROVE  /\ Compares(cur, prev) = "more" => Compares(prev, cur) # "more"
           /\ Compares(cur, prev) = "less" => Compares(prev, cur) # "less"
<1> DEFINE a == Paid(InMonth(cur))
           b == Paid(InMonth(prev))
<1>1. a \in Nat /\ b \in Nat
  BY PeriodsAre
<1>2. Compares(cur, prev) = IF b > 0 /\ 100 * (a - b) > 20 * b THEN "more"
                            ELSE IF b > 0 /\ 100 * (a - b) < -10 * b THEN "less" ELSE "similar"
  BY DEF Compares
<1>3. Compares(prev, cur) = IF a > 0 /\ 100 * (b - a) > 20 * a THEN "more"
                            ELSE IF a > 0 /\ 100 * (b - a) < -10 * a THEN "less" ELSE "similar"
  BY DEF Compares
<1> HIDE DEF a, b
<1>4. Compares(cur, prev) = "more" => a > b
  BY <1>1, <1>2
<1>5. Compares(prev, cur) = "more" => b > a
  BY <1>1, <1>3
<1>6. Compares(cur, prev) = "less" => a < b
  BY <1>1, <1>2
<1>7. Compares(prev, cur) = "less" => b < a
  BY <1>1, <1>3
<1> QED BY <1>1, <1>4, <1>5, <1>6, <1>7

\* The page of overspending and the strategy stay below the threshold.
LEMMA NeverOver ==
    ASSUME profile \in Seq(Filed)
    PROVE  OverspendPage \in 0..50 /\ StrategyPage \in {0, 20} /\ (PaidInAll = 0 => StrategyPage = 0)
<1>1. PaidInAll \in Nat
  BY PaidOnIs
<1>2. ~Exceeds(<<PaidInAll, PaidInAll>>, 30) /\ ~Exceeds(<<PaidInAll, PaidInAll>>, 20)
  BY <1>1 DEF Exceeds
<1>3. ~Exceeds(<<PaidInAll, PaidInAll>>, 12) /\ ~Exceeds(<<PaidInAll, PaidInAll>>, 10)
  BY <1>1 DEF Exceeds
<1> DEFINE all == <<PaidInAll, PaidInAll>>
           month == <<Paid(InMonth(LastMonth)) * (Cardinality(Periods) - 1), Paid(DOMAIN profile \ InMonth(LastMonth))>>
           top == <<TopPaid, PaidInAll>>
<1>4. OverspendPage = RuleScore(all, month, top) /\ StrategyPage = RuleScore(all, all, top)
  BY DEF OverspendPage, StrategyPage
<1>5. PaidInAll = 0 => ~Exceeds(top, 4)
  BY DEF Exceeds
<1> HIDE DEF all, month, top
<1>6. OverspendPage \in 0..50
  <2>1. OverspendPage = 0 + (IF Exceeds(month, 12) THEN 30 ELSE IF Exceeds(month, 10) THEN 10 ELSE 0)
                          + (IF Exceeds(top, 4) THEN 20 ELSE 0)
    BY <1>2, <1>4 DEF RuleScore, all
  <2> QED BY <2>1
<1>7. StrategyPage = 0 + 0 + (IF Exceeds(top, 4) THEN 20 ELSE 0)
  BY <1>2, <1>3, <1>4 DEF RuleScore, all
<1> QED BY <1>5, <1>6, <1>7

LEMMA BookedIs ==
    ASSUME ledger \in Seq(Filed)
    PROVE  Booked(Ninety) \in Nat /\ \A i \in Ninety : ledger[i].amount \in Nat /\ ledger[i].amount <= Booked(Ninety)
<1> DEFINE f == [i \in Ninety |-> ledger[i].amount]
<1>1. Ninety \in SUBSET DOMAIN ledger
  BY DEF Ninety
<1>2. IsFiniteSet(Ninety)
  <2>1. Len(ledger) \in Nat /\ DOMAIN ledger = 1..Len(ledger)
    OBVIOUS
  <2>2. IsFiniteSet(1..Len(ledger))
    BY <2>1, FS_Interval
  <2> QED BY <1>1, <2>1, <2>2, FS_Subset
<1>3. \A i \in DOMAIN ledger : ledger[i] \in Filed
  BY SeqHas
<1>4. f \in [Ninety -> Int] /\ DOMAIN f = Ninety /\ \A i \in Ninety : f[i] = ledger[i].amount /\ f[i] \in Nat
  BY <1>1, <1>3 DEF Filed
<1>5. Booked(Ninety) = SumOf(f, DOMAIN f)
  BY SummedIs DEF Booked
<1> HIDE DEF f
<1>6. Ninety \in SUBSET Ninety /\ \A i \in Ninety : 0 <= f[i]
  BY <1>4
<1>7. SumOf(f, Ninety) \in Int
  BY <1>2, <1>4, <1>6, SumInt
<1>8. 0 <= SumOf(f, Ninety)
  BY <1>2, <1>4, <1>6, SumNonneg
<1>9. ASSUME NEW i \in Ninety PROVE f[i] <= SumOf(f, Ninety)
  <2>1. SumOf(f, {i}) = f[i]
    BY <1>4, SumOne
  <2>2. {i} \in SUBSET Ninety /\ \A x \in Ninety \ {i} : 0 <= f[x]
    BY <1>6
  <2>3. SumOf(f, {i}) <= SumOf(f, Ninety)
    BY <1>2, <1>4, <1>6, <2>2, SumGrows
  <2> QED BY <2>1, <2>3
<1> QED BY <1>4, <1>5, <1>7, <1>8, <1>9

\* The explanation takes three months for one.
LEMMA ExplainedAs ==
    ASSUME ledger \in Seq(Filed), profile \in Seq(Filed), NEW i \in Ninety
    PROVE  /\ IsOverspend(ExplainPage(i)) = (
                 \/ ledger[i].amount * Cardinality(Ninety) > 3 * Booked(Ninety)
                 \/ /\ ledger[i].amount * Cardinality(Ninety) > 2 * Booked(Ninety)
                    /\ 10 * TopOfTable > 4 * Booked(Ninety))
           /\ (profile = ledger /\ Ninety = DOMAIN ledger) => ExplainPage(i) >= StrategyPage
<1> DEFINE a == ledger[i].amount
           n == Cardinality(Ninety)
           b == a * n
           s == Booked(Ninety)
           t == TopOfTable
           big == 10 * t > 4 * s
<1>1. s \in Nat /\ a \in Nat /\ a <= s
  BY BookedIs
<1>2. n \in Nat
  <2>1. Len(ledger) \in Nat /\ DOMAIN ledger = 1..Len(ledger)
    OBVIOUS
  <2>2. IsFiniteSet(1..Len(ledger))
    BY <2>1, FS_Interval
  <2>3. IsFiniteSet(Ninety)
    BY <2>1, <2>2, FS_Subset DEF Ninety
  <2> QED BY <2>3, FS_CardinalityType
<1>3. b \in Nat /\ (s = 0 => b = 0)
  BY <1>1, <1>2
<1>4. ExplainPage(i) = RuleScore(<<b, s>>, <<3 * s, s>>, <<t, s>>)
  BY DEF ExplainPage
<1>11. /\ (ledger[i].amount * Cardinality(Ninety) > 3 * Booked(Ninety)) = (b > 3 * s)
       /\ (ledger[i].amount * Cardinality(Ninety) > 2 * Booked(Ninety)) = (b > 2 * s)
       /\ (10 * TopOfTable > 4 * Booked(Ninety)) = big
  OBVIOUS
<1> HIDE DEF a, n, b, s, t
<1>5. /\ Exceeds(<<b, s>>, 30) <=> b > 3 * s
      /\ Exceeds(<<b, s>>, 20) <=> b > 2 * s
      /\ Exceeds(<<3 * s, s>>, 12) <=> s > 0
      /\ Exceeds(<<t, s>>, 4) <=> s > 0 /\ big
  BY <1>1, <1>3 DEF Exceeds
<1>6. s > 0 => /\ Exceeds(<<3 * s, s>>, 12) /\ (Exceeds(<<t, s>>, 4) <=> big)
  BY <1>5
<1>7. s = 0 => ~Exceeds(<<b, s>>, 30) /\ ~Exceeds(<<b, s>>, 20) /\ ~Exceeds(<<3 * s, s>>, 12) /\ ~Exceeds(<<t, s>>, 4)
                 /\ ~Exceeds(<<3 * s, s>>, 10)
  BY <1>1 DEF Exceeds
<1> DEFINE score == (IF Exceeds(<<b, s>>, 30) THEN 40 ELSE IF Exceeds(<<b, s>>, 20) THEN 20 ELSE 0)
    + (IF Exceeds(<<3 * s, s>>, 12) THEN 30 ELSE IF Exceeds(<<3 * s, s>>, 10) THEN 10 ELSE 0)
    + (IF Exceeds(<<t, s>>, 4) THEN 20 ELSE 0)
<1>8. ExplainPage(i) = score
  BY <1>4 DEF RuleScore
<1>9. CASE s = 0
  <2>1. score = 0
    BY <1>7, <1>9
  <2>2. b = 0 /\ ~(b > 3 * s) /\ ~(b > 2 * s)
    BY <1>3, <1>9
  <2>3. IsOverspend(ExplainPage(i)) = FALSE
    BY <1>8, <2>1 DEF IsOverspend
  <2>4. (profile = ledger /\ Ninety = DOMAIN ledger) => StrategyPage = 0
    <3>1. (profile = ledger /\ Ninety = DOMAIN ledger) => PaidInAll = s
      BY DEF PaidInAll, Paid, Booked, s
    <3> QED BY <1>9, <3>1, NeverOver
  <2>5. IsOverspend(ExplainPage(i)) = (b > 3 * s \/ (b > 2 * s /\ big))
    BY <2>2, <2>3
  <2>6. (profile = ledger /\ Ninety = DOMAIN ledger) => ExplainPage(i) >= StrategyPage
    BY <1>8, <2>1, <2>4
  <2> HIDE DEF big
  <2> QED BY <1>11, <2>5, <2>6
<1>10. CASE s # 0
  <2>1. s > 0 /\ Exceeds(<<3 * s, s>>, 12)
    BY <1>1, <1>5, <1>10
  <2>2. score = (IF Exceeds(<<b, s>>, 30) THEN 40 ELSE IF Exceeds(<<b, s>>, 20) THEN 20 ELSE 0) + 30
                + (IF Exceeds(<<t, s>>, 4) THEN 20 ELSE 0)
    BY <2>1
  <2>3. Exceeds(<<t, s>>, 4) <=> big
    BY <1>6, <2>1
  <2>4. (score >= 70) <=> (b > 3 * s \/ (b > 2 * s /\ big))
    <3> HIDE DEF score, big
    <3>1. CASE Exceeds(<<b, s>>, 30)
      BY <1>5, <2>2, <3>1
    <3>2. CASE ~Exceeds(<<b, s>>, 30) /\ Exceeds(<<b, s>>, 20)
      BY <1>5, <2>2, <2>3, <3>2
    <3>3. CASE ~Exceeds(<<b, s>>, 30) /\ ~Exceeds(<<b, s>>, 20)
      BY <1>5, <2>2, <2>3, <3>3
    <3> QED BY <3>1, <3>2, <3>3
  <2>5. score \in Int /\ score >= 30
    BY <2>2
  <2> HIDE DEF score
  <2>6. IsOverspend(ExplainPage(i)) = (b > 3 * s \/ (b > 2 * s /\ big))
    BY <1>8, <2>4, <2>5 DEF IsOverspend
  <2>7. StrategyPage \in {0, 20}
    BY NeverOver
  <2>8. ExplainPage(i) >= StrategyPage
    BY <1>8, <2>5, <2>7
  <2> HIDE DEF big
  <2> QED BY <1>11, <2>6, <2>8
<1> QED BY <1>1, <1>9, <1>10

LEMMA PagesFollow == AdviceInv => PagesAgree
<1> SUFFICES ASSUME AdviceInv PROVE PagesAgree
  OBVIOUS
<1>1. profile \in Seq(Filed) /\ ledger \in Seq(Filed)
  BY ProfileIs
<1>2. ASSUME profile # <<>>
      PROVE  /\ OverspendPage \in 0..50 /\ StrategyPage \in {0, 20}
             /\ Len(profile) <= 10 => AnomalyPage = {}
             /\ PatternPage # "balanced"
             /\ Confidence \in 40..60
  <2>1. OverspendPage \in 0..50 /\ StrategyPage \in {0, 20}
    BY <1>1, NeverOver
  <2>2. Len(profile) <= 10 => AnomalyPage = {}
    <3> SUFFICES ASSUME Len(profile) <= 10 PROVE AnomalyPage = {}
      OBVIOUS
    <3> DEFINE rows == DOMAIN profile
    <3>1. Len(profile) \in Nat /\ rows = 1..Len(profile) /\ rows \in SUBSET DOMAIN profile
      BY <1>1
    <3>2. Cardinality(1..Len(profile)) = Len(profile)
      <4>1. PICK k \in Nat : k = Len(profile)
        BY <3>1
      <4>2. Cardinality(1..k) = IF 1 > k THEN 0 ELSE k - 1 + 1
        <5>1. 1 \in Int /\ k \in Int
          OBVIOUS
        <5> QED BY <5>1, FS_Interval, Zenon
      <4>3. (IF 1 > k THEN 0 ELSE k - 1 + 1) = k
        OBVIOUS
      <4> QED BY <4>1, <4>2, <4>3
    <3>3. Cardinality(rows) <= 10
      BY <3>1, <3>2
    <3>4. AnomalyPage = Unusual([i \in rows |-> profile[i].amount])
      BY DEF AnomalyPage
    <3> HIDE DEF rows
    <3> QED BY <1>1, <3>1, <3>3, <3>4, NoneOfTen
  <2>3. PatternPage # "balanced"
    BY DEF PatternPage, ClusterBy
  <2>4. Confidence \in 40..60
    <3>1. IsFiniteSet(Periods) /\ Periods # {}
      BY <1>1, <1>2, PeriodsAre
    <3>2. Cardinality(Periods) \in Nat /\ Cardinality(Periods) # 0
      BY <3>1, FS_EmptySet, FS_CardinalityType
    <3> DEFINE n == Cardinality(Periods)
    <3>3. n \in Nat /\ n # 0 /\ Confidence = Fewer(60, 30 + 10 * n)
      BY <3>2 DEF Confidence
    <3> HIDE DEF n
    <3> QED BY <3>3 DEF Fewer
  <2> QED BY <2>1, <2>2, <2>3, <2>4
<1>3. ASSUME profile # <<>>
      PROVE  /\ \E m \in Periods : Weights * Paid(InMonth(m)) <= Forecast
             /\ \E m \in Periods : Weights * Paid(InMonth(m)) >= Forecast
             /\ Summed([c \in Breakdown |-> ForecastOn(c)]) = Forecast * Paid(LastThree)
  BY <1>1, <1>3, ForecastIs, SharedOut
<1>4. ASSUME NEW cur \in Periods, NEW prev \in Periods
      PROVE  /\ Summed([c \in Breakdown |-> DiffOn(c, cur, prev)]) = Paid(InMonth(cur)) - Paid(InMonth(prev))
             /\ Compares(cur, prev) = "more" => Compares(prev, cur) # "more"
             /\ Compares(cur, prev) = "less" => Compares(prev, cur) # "less"
  <2>1. Summed([c \in Breakdown |-> DiffOn(c, cur, prev)]) = Paid(InMonth(cur)) - Paid(InMonth(prev))
    BY <1>1, ComparedByAll
  <2> QED BY <1>1, <2>1, NotBothMore
<1>5. Cardinality(Ninety) <= 10 => AnomaliesTold = {}
  <2> SUFFICES ASSUME Cardinality(Ninety) <= 10 PROVE AnomaliesTold = {}
    OBVIOUS
  <2>1. Ninety \in SUBSET DOMAIN ledger
    BY DEF Ninety
  <2>2. Unusual([i \in Ninety |-> ledger[i].amount]) = {}
    BY <1>1, <2>1, NoneOfTen
  <2> QED BY <2>2 DEF AnomaliesTold
<1>6. ClusterTold # "balanced"
  BY DEF ClusterTold, ClusterBy
<1>7. ASSUME NEW i \in Latest
      PROVE  /\ IsOverspend(ExplainPage(i)) = (
                   \/ ledger[i].amount * Cardinality(Ninety) > 3 * Booked(Ninety)
                   \/ /\ ledger[i].amount * Cardinality(Ninety) > 2 * Booked(Ninety)
                      /\ 10 * TopOfTable > 4 * Booked(Ninety))
             /\ (profile = ledger /\ Ninety = DOMAIN ledger) => ExplainPage(i) >= StrategyPage
  <2>1. i \in Ninety
    BY DEF Latest
  <2> QED BY <1>1, <2>1, ExplainedAs
<1> QED BY <1>2, <1>3, <1>4, <1>5, <1>6, <1>7, LargeIs DEF PagesAgree

THEOREM PagesAreSound == AdviceSpec => []PagesAgree
<1>1. AdviceInv => PagesAgree
  BY PagesFollow
<1> QED BY <1>1, AdviceStays, PTL

-----------------------------------------------------------------------------
(***************************************************************************)
(* All that is kept of users                                               *)
(***************************************************************************)

-----------------------------------------------------------------------------
\* A step of a behaviour is, to each component, one of its own or none, so that
\* what holds of each by itself holds of all.
LEMMA UsersStep ==
    [Next]_vars => /\ [AccNext]_accVars /\ [KeyNext]_keyVars /\ [WebNext]_webVars /\ [LessonNext]_lessonVars
                   /\ [ChallengeNext]_challengeVars /\ [RowNext]_rowVars /\ [MoodNext]_moodVars
                   /\ [AdviceNext]_adviceVars /\ [FileNext]_fileVars /\ [PrivacyNext]_privacyVars
<1> SUFFICES ASSUME [Next]_vars
             PROVE  /\ [AccNext]_accVars /\ [KeyNext]_keyVars /\ [WebNext]_webVars /\ [LessonNext]_lessonVars
                    /\ [ChallengeNext]_challengeVars /\ [RowNext]_rowVars /\ [MoodNext]_moodVars
                    /\ [AdviceNext]_adviceVars /\ [FileNext]_fileVars /\ [PrivacyNext]_privacyVars
  OBVIOUS
<1>1. CASE UNCHANGED vars
  BY <1>1 DEF vars
<1>2. CASE Next
  <2>1. Elsewhere
    BY <1>2 DEF Next
  <2>2. /\ focus = "accounts" \/ UNCHANGED accVars
        /\ focus = "passkeys" \/ UNCHANGED keyVars
        /\ focus = "client" \/ UNCHANGED webVars
        /\ focus = "lessons" \/ UNCHANGED lessonVars
        /\ focus = "challenges" \/ UNCHANGED challengeVars
        /\ focus = "rows" \/ UNCHANGED rowVars
        /\ focus = "moods" \/ UNCHANGED moodVars
        /\ focus = "advice" \/ UNCHANGED adviceVars
        /\ focus = "file" \/ UNCHANGED fileVars
        /\ focus = "privacy" \/ UNCHANGED privacyVars
    BY <2>1 DEF Elsewhere, Others
  <2>3. /\ focus = "accounts" => AccNext
        /\ focus = "passkeys" => KeyNext
        /\ focus = "client" => WebNext
        /\ focus = "lessons" => LessonNext
        /\ focus = "challenges" => ChallengeNext
        /\ focus = "rows" => RowNext
        /\ focus = "moods" => MoodNext
        /\ focus = "advice" => AdviceNext
        /\ focus = "file" => FileNext
        /\ focus = "privacy" => PrivacyNext
    BY <1>2 DEF Next
  <2> QED BY <2>2, <2>3
<1> QED BY <1>1, <1>2

LEMMA UsersParts == Spec => /\ AccSpec /\ KeySpec /\ WebSpec /\ LessonSpec /\ ChallengeSpec /\ RowSpec /\ MoodSpec
                            /\ AdviceSpec /\ FileSpec /\ PrivacySpec
<1>1. Init => /\ AccInit /\ KeyInit /\ WebInit /\ LessonInit /\ ChallengeInit /\ RowInit /\ MoodInit
              /\ AdviceInit /\ FileInit /\ PrivacyInit
  BY DEF Init
<1> QED BY <1>1, UsersStep, PTL DEF Spec, AccSpec, KeySpec, WebSpec, LessonSpec, ChallengeSpec, RowSpec,
           MoodSpec, AdviceSpec, FileSpec, PrivacySpec

\* What is kept of users, in the behaviours in which module MCUsers checks it and
\* for every value of its constants: each part is an invariant of its component.
THEOREM RecordsAreKept == Spec => []RecordsHold
<1>1. (/\ ChainSurvivesPurges /\ MoodsHold /\ AdviceHolds /\ PagesAgree /\ ReloadsHold
       /\ PrivacyHolds) => RecordsHold
  BY DEF RecordsHold, Is
<1> QED
  BY <1>1, UsersParts, PurgesKeepTheChain, MoodsAreTrue, AdviceIsSound, PagesAreSound,
     PolicyIsTheFile, PrivacyIsKept, PTL

=============================================================================
