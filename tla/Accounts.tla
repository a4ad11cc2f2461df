------------------------------ MODULE Accounts ------------------------------
(***************************************************************************)
(* One account of the backend and its sessions (app/api/routes_auth.py,    *)
(* app/auth/jwt.py, app/auth/deps.py): registration, login in one step or  *)
(* two, refresh and logout over the blacklist that Redis holds, the        *)
(* settings of the second factor, the backup codes, and the step-up        *)
(* sessions of app/api/routes_stepup.py.                                   *)
(*                                                                         *)
(* A request loads the user once, decides by what it has loaded, and its   *)
(* commit writes the columns that it has changed.  A token is named by the *)
(* request that issued it; a call of Redis that fails is taken for "not    *)
(* blacklisted".  Expiry is left out: an entry of the blacklist lives as   *)
(* long as its token.                                                      *)
(***************************************************************************)
EXTENDS Naturals

CONSTANTS AccRequest,       \* requests
          AccKind,          \* [AccRequest -> what it asks for]
          AccBatches,       \* sets of requests: a behaviour makes those of one, each once
          AccMaxOutages     \* bound: times that Redis is away

SettingKind == {"setup", "verify", "disable", "regenerate", "password", "profile"}
BearerKind  == SettingKind \cup {"challenge", "answer"}

ASSUME AccountConstants ==
    /\ AccKind \in [AccRequest -> BearerKind \cup
                        {"register", "login", "totp", "backup", "refresh", "logout"}]
    /\ AccBatches \subseteq SUBSET AccRequest /\ AccMaxOutages \in Nat

VARIABLES
    person,     \* the row of table users
    sessions,   \* step_up_sessions: those made, and those verified
    blacklist,  \* keys jwt:bl:{jti}
    accRedis, accOutages,
    accStage,   \* [AccRequest -> AccStages]
    accOwn,     \* [AccRequest -> what it presents, what it has loaded and changed]
    before,     \* history: [AccRequest -> requests that had spent something when it began]
    blind,      \* history: requests that found Redis away
    stale       \* history: requests whose commit found the row changed since they loaded it

accVars == <<person, sessions, blacklist, accRedis, accOutages, accStage, accOwn, before, blind, stale>>

\* half: the password was right, and a second factor is asked for.
AccStages == {"new", "look", "load", "save", "rotate", "logout", "half", "done", "failed"}
Token     == {"access", "refresh"} \X AccRequest \X {0}
Code      == {"code"} \X AccRequest \X {1, 2}
Session   == {"totp", "fido"} \X AccRequest \X {0}
Person    == [there : BOOLEAN, secret : SUBSET AccRequest, enabled : BOOLEAN,
              codes : SUBSET Code, password : SUBSET AccRequest]
Absent    == [there |-> FALSE, secret |-> {}, enabled |-> FALSE, codes |-> {}, password |-> {}]

\* shows: the token, the code or the step-up session that the request presents.
Holding == [shows : SUBSET (Token \cup Code \cup Session), loaded : Person, changed : Person]
Fresh == [shows |-> {}, loaded |-> Absent, changed |-> Absent]

Spending == {"refresh", "logout", "backup", "answer"}

Over    == {r \in AccRequest : accStage[r] = "done"}
Issuers == {r \in Over : AccKind[r] \in {"register", "login", "totp", "backup", "refresh"}}
CodesOf(r) == {"code"} \X {r} \X {1, 2}
-----------------------------------------------------------------------------
AccInit ==
    /\ person = Absent /\ sessions = [made |-> {}, verified |-> {}]
    /\ blacklist = {} /\ accRedis = TRUE /\ accOutages = 0
    /\ \E made \in AccBatches :
            accStage = [r \in AccRequest |-> IF r \in made THEN "new" ELSE "failed"]
    /\ accOwn = [r \in AccRequest |-> Fresh]
    /\ before = [r \in AccRequest |-> {}] /\ blind = {} /\ stale = {}

AccAt(r, s, kinds) == accStage[r] = s /\ AccKind[r] \in kinds
AccTo(r, s)        == accStage' = [accStage EXCEPT ![r] = s]
Began(r)           == before' = [before EXCEPT ![r] = {q \in Over : AccKind[q] \in Spending}]
Loads(r, changed, shown) ==
    accOwn' = [accOwn EXCEPT ![r] = [shows |-> shown, loaded |-> person, changed |-> changed]]

\* is_jti_blacklisted: FALSE where Redis is away.
Refused(r, t) ==
    /\ blind' = IF accRedis THEN blind ELSE blind \cup {r}
    /\ accStage' = [accStage EXCEPT ![r] = IF accRedis /\ t \in blacklist THEN "failed" ELSE "load"]

\* blacklist_jti
Blacklist(r, ts) ==
    /\ blacklist' = IF accRedis THEN blacklist \cup ts ELSE blacklist
    /\ blind' = IF accRedis THEN blind ELSE blind \cup {r}
-----------------------------------------------------------------------------
\* register: the select of the email, and the insertion, which the unique index
\* fails where another registration has been faster.
RegisterLook(r) ==
    /\ AccAt(r, "new", {"register"}) /\ Began(r)
    /\ AccTo(r, IF person.there THEN "failed" ELSE "look")
    /\ UNCHANGED <<person, sessions, blacklist, accRedis, accOutages, accOwn, blind, stale>>

Register(r) ==
    /\ AccAt(r, "look", {"register"})
    /\ \/ person.there /\ AccTo(r, "failed") /\ UNCHANGED person
       \/ /\ ~person.there /\ AccTo(r, "done")
          /\ person' = [person EXCEPT !.there = TRUE, !.password = {r}]
    /\ UNCHANGED <<sessions, blacklist, accRedis, accOutages, accOwn, before, blind, stale>>

\* login: a password that is wrong, a second factor to come (TOTP, or a passkey,
\* which Passkeys keeps), or the tokens.
Login(r) ==
    /\ AccAt(r, "new", {"login"}) /\ person.there /\ Began(r)
    /\ \/ AccTo(r, "failed") \/ AccTo(r, "half")
       \/ ~person.enabled /\ AccTo(r, "done")
    /\ UNCHANGED <<person, sessions, blacklist, accRedis, accOutages, accOwn, blind, stale>>

\* login_totp: the code is one of the loaded secret, or it is wrong.
LoginTotp(r) ==
    /\ AccAt(r, "new", {"totp"}) /\ Began(r)
    /\ \E q \in AccRequest : accStage[q] = "half"
    /\ AccTo(r, "failed") \/ (person.enabled /\ person.secret # {} /\ AccTo(r, "done"))
    /\ UNCHANGED <<person, sessions, blacklist, accRedis, accOutages, accOwn, blind, stale>>

\* login_with_backup_code up to its commit; Save ends it.
LoadCodes(r) ==
    /\ AccAt(r, "new", {"backup"}) /\ Began(r)
    /\ \E q \in AccRequest : accStage[q] = "half"
    /\ \E q \in Over : \E c \in CodesOf(q) :
        /\ AccKind[q] = "regenerate"
        /\ \/ c \notin person.codes /\ AccTo(r, "failed") /\ UNCHANGED accOwn
           \/ /\ c \in person.codes /\ AccTo(r, "save")
              /\ Loads(r, [person EXCEPT !.codes = @ \ {c}], {c})
    /\ UNCHANGED <<person, sessions, blacklist, accRedis, accOutages, blind, stale>>
-----------------------------------------------------------------------------
\* The blacklist is asked for the token of a refresh, and for the bearer's of
\* get_current_user.
CheckToken(r) ==
    /\ AccAt(r, "new", BearerKind \cup {"refresh"}) /\ Began(r)
    /\ \E q \in Issuers :
        LET t == <<IF AccKind[r] = "refresh" THEN "refresh" ELSE "access", q, 0>> IN
        /\ Refused(r, t) /\ accOwn' = [accOwn EXCEPT ![r].shows = {t}]
    /\ UNCHANGED <<person, sessions, blacklist, accRedis, accOutages, stale>>

\* refresh_token finds the user.
LoadRefresh(r) ==
    /\ AccAt(r, "load", {"refresh"}) /\ AccTo(r, IF person.there THEN "rotate" ELSE "failed")
    /\ UNCHANGED <<person, sessions, blacklist, accRedis, accOutages, accOwn, before, blind, stale>>

Mut_RotatesItsOwn(r) ==
    /\ AccAt(r, "rotate", {"refresh"}) /\ AccTo(r, "done")
    /\ Blacklist(r, {<<"refresh", r, 0>>})
    /\ UNCHANGED <<person, sessions, accRedis, accOutages, accOwn, before, stale>>

\* The used token goes to the blacklist, and new ones are issued.
Rotate(r) ==
    /\ AccAt(r, "rotate", {"refresh"}) /\ AccTo(r, "done")
    /\ Blacklist(r, accOwn[r].shows)
    /\ UNCHANGED <<person, sessions, accRedis, accOutages, accOwn, before, stale>>

\* logout: the access token and then, if it is given, the refresh token.
LogoutAccess(r) ==
    /\ AccAt(r, "new", {"logout"}) /\ Began(r)
    /\ \E q \in Issuers :
        /\ Blacklist(r, {<<"access", q, 0>>})
        /\ \/ AccTo(r, "done") /\ accOwn' = [accOwn EXCEPT ![r].shows = {<<"access", q, 0>>}]
           \/ AccTo(r, "logout") /\ accOwn' = [accOwn EXCEPT ![r].shows = {<<"access", q, 0>>, <<"refresh", q, 0>>}]
    /\ UNCHANGED <<person, sessions, accRedis, accOutages, stale>>

LogoutRefresh(r) ==
    /\ AccAt(r, "logout", {"logout"}) /\ AccTo(r, "done")
    /\ Blacklist(r, {t \in accOwn[r].shows : t[1] = "refresh"})
    /\ UNCHANGED <<person, sessions, accRedis, accOutages, accOwn, before, stale>>
-----------------------------------------------------------------------------
\* What the handlers of the settings make of the user they have loaded.
Changes(r) ==
    CASE AccKind[r] = "setup"      -> [person EXCEPT !.secret = {r}]
      [] AccKind[r] = "verify"     -> [person EXCEPT !.enabled = TRUE]
      [] AccKind[r] = "disable"    -> [person EXCEPT !.enabled = FALSE, !.secret = {}]
      [] AccKind[r] = "regenerate" -> [person EXCEPT !.codes = CodesOf(r)]
      [] AccKind[r] = "password"   -> [person EXCEPT !.password = {r}]
      [] OTHER                     -> person

\* A code or a password that is asked for may be wrong.
Guarded(r) ==
    /\ AccKind[r] = "verify" => person.secret # {}
    /\ AccKind[r] = "disable" => person.enabled /\ person.secret # {}

LoadUser(r) ==
    /\ AccAt(r, "load", SettingKind)
    /\ \/ /\ AccKind[r] \in {"verify", "disable", "password"}
          /\ AccTo(r, "failed") /\ UNCHANGED accOwn
       \/ Guarded(r) /\ AccTo(r, "save") /\ Loads(r, Changes(r), accOwn[r].shows)
    /\ UNCHANGED <<person, sessions, blacklist, accRedis, accOutages, before, blind, stale>>

\* What the commit of r makes of the row: the columns it has changed.
Saved(r) == [f \in DOMAIN person |->
    IF accOwn[r].changed[f] # accOwn[r].loaded[f] THEN accOwn[r].changed[f] ELSE person[f]]

SaveUser(r) ==
    /\ AccAt(r, "save", SettingKind \cup {"backup"}) /\ AccTo(r, "done")
    /\ person' = Saved(r)
    /\ stale' = IF person # accOwn[r].loaded THEN stale \cup {r} ELSE stale
    /\ UNCHANGED <<sessions, blacklist, accRedis, accOutages, accOwn, before, blind>>
-----------------------------------------------------------------------------
\* request_challenge: the risk of the user, which fraud-service tells or not,
\* decides whether there is a step-up session, by TOTP if that is on, and else
\* by a passkey if there is one.
RequestChallenge(r) ==
    /\ AccAt(r, "load", {"challenge"}) /\ AccTo(r, "done")
    /\ \/ UNCHANGED sessions
       \/ sessions' = [sessions EXCEPT !.made = @ \cup
                          {<<IF person.enabled THEN "totp" ELSE "fido", r, 0>>}]
    /\ UNCHANGED <<person, blacklist, accRedis, accOutages, accOwn, before, blind, stale>>

\* verify_challenge up to its commit: a session that is not verified yet, and a
\* code of the loaded secret, or a session whose method is fido.
LoadSession(r) ==
    /\ AccAt(r, "load", {"answer"})
    /\ \E c \in sessions.made :
        \/ AccTo(r, "failed") /\ UNCHANGED accOwn
        \/ /\ c \notin sessions.verified
           /\ c[1] = "fido" \/ (person.enabled /\ person.secret # {})
           /\ AccTo(r, "save") /\ Loads(r, person, accOwn[r].shows \cup {c})
    /\ UNCHANGED <<person, sessions, blacklist, accRedis, accOutages, before, blind, stale>>

Answer(r) ==
    /\ AccAt(r, "save", {"answer"}) /\ AccTo(r, "done")
    /\ sessions' = [sessions EXCEPT !.verified = @ \cup (accOwn[r].shows \cap Session)]
    /\ UNCHANGED <<person, blacklist, accRedis, accOutages, accOwn, before, blind, stale>>

RedisFlips ==
    /\ accRedis' = ~accRedis
    /\ accOutages' = IF accRedis THEN accOutages + 1 ELSE accOutages
    /\ accOutages' <= AccMaxOutages
    /\ UNCHANGED <<person, sessions, blacklist, accStage, accOwn, before, blind, stale>>

AccNext ==
    \/ \E r \in AccRequest :
        \/ RegisterLook(r) \/ Register(r) \/ Login(r) \/ LoginTotp(r) \/ LoadCodes(r)
        \/ CheckToken(r) \/ LoadRefresh(r) \/ Rotate(r) \/ LogoutAccess(r) \/ LogoutRefresh(r)
        \/ LoadUser(r) \/ SaveUser(r) \/ RequestChallenge(r) \/ LoadSession(r) \/ Answer(r)
    \/ RedisFlips

AccSpec == AccInit /\ [][AccNext]_accVars
-----------------------------------------------------------------------------
AccTypeOK ==
    /\ person \in Person
    /\ sessions \in [made : SUBSET Session, verified : SUBSET Session]
    /\ sessions.verified \subseteq sessions.made
    /\ blacklist \subseteq Token
    /\ accRedis \in BOOLEAN /\ accOutages \in 0..AccMaxOutages
    /\ accStage \in [AccRequest -> AccStages]
    /\ accOwn \in [AccRequest -> Holding]
    /\ before \in [AccRequest -> SUBSET AccRequest]
    /\ blind \subseteq AccRequest /\ stale \subseteq AccRequest

\* An account whose second factor is on has a secret, without which no code is
\* right and nobody logs in: unless a verification committed over a row that had
\* changed since it was loaded (totp_setup, totp_verify, totp_disable).
EnabledHasSecret ==
    (person.enabled /\ person.secret = {}) => \E r \in stale : AccKind[r] = "verify"

\* What is good for one use is refused to a request that begins after its use is
\* over: a refresh token unless Redis was away from one of the two, a backup code
\* unless an overlapping login wrote the list back, a step-up session always.  So
\* are the tokens of a logout, except to another logout, which asks nobody
\* (refresh_token, login_with_backup_code, verify_challenge, logout).
SpentStaysSpent ==
    \A r \in AccRequest : \A q \in before[r] : \A t \in accOwn[r].shows \cap accOwn[q].shows :
        \/ accStage[r] = "failed"
        \/ t[1] = "access" /\ (AccKind[q] = "logout" => AccKind[r] = "logout" \/ {r, q} \cap blind # {})
        \/ t[1] = "refresh" /\ (AccKind[r] = "logout" \/ {r, q} \cap blind # {})
        \/ t[1] = "code" /\ \E p \in stale : AccKind[p] = "backup"

\* What opens an account is there while it is needed, and gone when it is used.
CodesHold == EnabledHasSecret /\ SpentStaysSpent
=============================================================================
