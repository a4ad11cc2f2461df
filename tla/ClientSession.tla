--------------------------- MODULE ClientSession ---------------------------
(***************************************************************************)
(* The session of the web client (frontend/src/hooks/useAuth.ts,           *)
(* lib/fetchWithAuth.ts, components/AuthGuard.tsx): the tokens in          *)
(* localStorage, which every mounted hook, every call and every logout     *)
(* reads and writes on its own, against the rotation of POST               *)
(* /v1/auth/refresh (backend/app/api/routes_auth.py).                      *)
(*                                                                         *)
(* Between two awaits a task runs alone.  A token is named by the task     *)
(* whose refresh brought it; FirstPair is the pair that the login stored.  *)
(***************************************************************************)
EXTENDS Naturals, FiniteSets

CONSTANTS Mount, Call, Logout,  \* mounted useAuth hooks, calls of fetchWithAuth, logouts
          FirstPair,
          WebBatches,           \* sets of tasks: a behaviour runs those of one, each once
          MaxLosses             \* bound: requests and responses that the network loses

Web == Mount \cup Call \cup Logout

ASSUME ClientConstants ==
    /\ FirstPair \notin Web /\ WebBatches \subseteq SUBSET Web /\ MaxLosses \in Nat

VARIABLES
    stored,     \* localStorage: the pair of tokens, if there is one
    expired,    \* pairs whose access token is over
    spent,      \* pairs whose refresh token the server has blacklisted
    revoked,    \* pairs whose access token it has blacklisted
    webStage,   \* [Web -> WebStages]
    carries,    \* [Web -> the pair that the task has read]
    losses,
    twice,      \* history: pairs that two refreshes have sent
    lost,       \* history: pairs whose refresh was lost on the way
    raced,      \* history: refreshes on their way when a logout cleared the storage, and those
                \* that go on with their tokens
    cleared     \* history: whether a logout has cleared the storage

webVars == <<stored, expired, spent, revoked, webStage, carries, losses, twice, lost, raced, cleared>>

WebStages == {"new", "sent", "refresh", "check", "rotate", "answer", "again", "clear",
              "in", "out", "done", "redirected"}
Pair == Web \cup {FirstPair}

\* Tasks with a refresh on its way.
Refreshing == {w \in Web : webStage[w] \in {"check", "rotate", "answer"}}

WebInit ==
    /\ stored = {FirstPair} /\ expired \in {{}, {FirstPair}} /\ spent = {} /\ revoked = {}
    /\ \E run \in WebBatches : webStage = [w \in Web |-> IF w \in run THEN "new" ELSE "done"]
    /\ carries = [w \in Web |-> {}] /\ losses = 0
    /\ twice = {} /\ lost = {} /\ raced = {} /\ cleared = FALSE

WebTo(w, s) == webStage' = [webStage EXCEPT ![w] = s]
Histories   == UNCHANGED <<twice, lost, raced, cleared>>
ServerKept  == UNCHANGED <<expired, spent, revoked>>
-----------------------------------------------------------------------------
\* init of useAuth: no tokens, tokens that are not expired, or a refresh.
MountHook(m) ==
    /\ webStage[m] = "new" /\ m \in Mount
    /\ WebTo(m, IF stored = {} THEN "out" ELSE IF stored \subseteq expired THEN "refresh" ELSE "in")
    /\ UNCHANGED <<stored, carries, losses>> /\ ServerKept /\ Histories

\* fetchWithAuth sends the access token it finds; 401 makes it refresh.
SendCall(c) ==
    /\ webStage[c] = "new" /\ c \in Call
    /\ carries' = [carries EXCEPT ![c] = stored] /\ WebTo(c, "sent")
    /\ UNCHANGED <<stored, losses>> /\ ServerKept /\ Histories

AnswerCall(c) ==
    /\ webStage[c] = "sent"
    /\ WebTo(c, IF carries[c] # {} /\ carries[c] \cap (expired \cup revoked) = {} THEN "done" ELSE "refresh")
    /\ UNCHANGED <<stored, carries, losses>> /\ ServerKept /\ Histories

\* What a refresh that has failed leads to: the hook removes the tokens, a call
\* goes to the login page.
Fails(w) ==
    IF w \in Mount THEN WebTo(w, "out") /\ stored' = {} ELSE WebTo(w, "redirected") /\ UNCHANGED stored

\* refresh and refreshTokens read the refresh token, and send it.
BeginRefresh(w) ==
    /\ webStage[w] = "refresh"
    /\ \/ stored = {} /\ Fails(w) /\ UNCHANGED <<carries, twice, raced>>
       \/ /\ stored # {} /\ WebTo(w, "check") /\ carries' = [carries EXCEPT ![w] = stored]
          /\ twice' = twice \cup (stored \cap UNION {carries[v] : v \in Refreshing})
          /\ raced' = IF stored \cap raced = {} THEN raced ELSE raced \cup {w}
          /\ UNCHANGED stored
    /\ UNCHANGED <<losses, lost, cleared>> /\ ServerKept

\* The server: a blacklisted token is refused, and then the token is blacklisted.
CheckRefresh(w) ==
    /\ webStage[w] = "check"
    /\ \/ carries[w] \cap spent # {} /\ Fails(w)
       \/ carries[w] \cap spent = {} /\ WebTo(w, "rotate") /\ UNCHANGED stored
    /\ UNCHANGED <<carries, losses>> /\ ServerKept /\ Histories

RotateRefresh(w) ==
    /\ webStage[w] = "rotate" /\ WebTo(w, "answer") /\ spent' = spent \cup carries[w]
    /\ UNCHANGED <<stored, expired, revoked, carries, losses>> /\ Histories

\* The answer: the new pair is stored; a call is made again with it.
StoreTokens(w) ==
    /\ webStage[w] = "answer"
    /\ stored' = {w} /\ WebTo(w, IF w \in Mount THEN "in" ELSE "again")
    /\ UNCHANGED <<carries, losses>> /\ ServerKept /\ Histories

CallAgain(c) ==
    /\ webStage[c] = "again" /\ WebTo(c, "done")
    /\ UNCHANGED <<stored, carries, losses>> /\ ServerKept /\ Histories

\* The network loses a refresh or its answer.
LoseRefresh(w) ==
    /\ w \in Refreshing /\ losses < MaxLosses /\ losses' = losses + 1
    /\ Fails(w) /\ lost' = lost \cup carries[w]
    /\ UNCHANGED <<carries, twice, raced, cleared>> /\ ServerKept
-----------------------------------------------------------------------------
\* logout: the server is told, which may fail, and the storage is cleared.
TellServer(l) ==
    /\ webStage[l] = "new" /\ l \in Logout /\ WebTo(l, "clear")
    /\ \/ UNCHANGED <<spent, revoked>>
       \/ spent' = spent \cup stored /\ revoked' = revoked \cup stored
    /\ UNCHANGED <<stored, expired, carries, losses>> /\ Histories

Mut_OnlyAccess(l) ==
    /\ webStage[l] = "clear" /\ WebTo(l, "done") /\ cleared' = TRUE /\ raced' = Refreshing
    /\ UNCHANGED <<stored, carries, losses, twice, lost>> /\ ServerKept

ClearStorage(l) ==
    /\ webStage[l] = "clear" /\ WebTo(l, "done")
    /\ stored' = {} /\ cleared' = TRUE /\ raced' = raced \cup Refreshing
    /\ UNCHANGED <<carries, losses, twice, lost>> /\ ServerKept

\* The access token of a pair is over.
TokenExpires(p) ==
    /\ p \in stored \ expired /\ p = FirstPair /\ expired' = expired \cup {p}
    /\ UNCHANGED <<stored, spent, revoked, webStage, carries, losses>> /\ Histories

WebNext ==
    \/ \E w \in Web :
        \/ MountHook(w) \/ SendCall(w) \/ AnswerCall(w) \/ BeginRefresh(w) \/ CheckRefresh(w)
        \/ RotateRefresh(w) \/ StoreTokens(w) \/ CallAgain(w) \/ LoseRefresh(w)
        \/ TellServer(w) \/ ClearStorage(w)
    \/ TokenExpires(FirstPair)

WebSpec == WebInit /\ [][WebNext]_webVars
-----------------------------------------------------------------------------
WebTypeOK ==
    /\ stored \subseteq Pair /\ Cardinality(stored) <= 1
    /\ expired \subseteq Pair /\ spent \subseteq Pair /\ revoked \subseteq Pair
    /\ webStage \in [Web -> WebStages] /\ carries \in [Web -> SUBSET Pair]
    /\ losses \in 0..MaxLosses
    /\ twice \subseteq Pair /\ lost \subseteq Pair /\ raced \subseteq Web /\ cleared \in BOOLEAN

\* Once a logout has cleared the storage there are no tokens in it but those of a
\* refresh that was on its way (logout, refresh, refreshTokens).
LoggedOutStaysOut == cleared => stored \subseteq raced

Ending == cleared \/ \E l \in Logout : webStage[l] = "clear"

\* A session that nobody ends loses its tokens, or a call goes to the login page,
\* only if the network lost a refresh or its answer, after which the client is
\* left with a token that is spent, or two tasks refreshed with one token.
SessionEndsOnlyIf ==
    (~Ending /\ lost = {} /\ twice = {}) =>
        stored # {} /\ \A w \in Web : webStage[w] \notin {"out", "redirected"}

\* A session that nobody ends and whose refreshes the network does not lose keeps
\* its tokens: the ones that are over are renewed.
SessionSurvives == (~Ending /\ lost = {}) => stored # {}

\* A session lasts until it is ended, and no longer.
SessionHolds == LoggedOutStaysOut /\ SessionEndsOnlyIf
=============================================================================
