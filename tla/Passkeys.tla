------------------------------ MODULE Passkeys ------------------------------
(***************************************************************************)
(* Passkeys of one account of the backend (app/api/routes_fido.py): the    *)
(* challenge of a ceremony, kept in Redis or, where a call fails, in the   *)
(* process (app/services/fido_challenge_store.py), the table of            *)
(* credentials with the counter of each, and the devices.                  *)
(*                                                                         *)
(* A challenge is named by the request that made it; a key of the store is *)
(* a ceremony, the user or the pre-auth token being one.  A device answers *)
(* a challenge that it was shown, with a counter that has gone up, or with *)
(* 0 if it has none; the answer travels, and requests overtake each other. *)
(* webauthn itself is external: it compares the challenge, and refuses a   *)
(* counter as _check_sign_count does.                                      *)
(***************************************************************************)
EXTENDS Naturals, FiniteSets

CONSTANTS Asking,       \* requests for the options of a ceremony
          Answering,    \* requests that answer one
          Removing,     \* requests that delete a credential
          Ceremony,     \* [Asking -> "register", "auth" or "login"]
          KeyBatches,   \* sets of requests: a behaviour makes those of one, each once
          Device, Counting,   \* devices, and those that count
          KeyMaxFaults  \* bound: times that Redis goes away or fails to reply

ASSUME PasskeyConstants ==
    /\ Ceremony \in [Asking -> {"register", "auth", "login"}]
    /\ Asking \cap Answering = {} /\ Removing \cap (Asking \cup Answering) = {}
    /\ Counting \subseteq Device /\ KeyMaxFaults \in Nat

VARIABLES
    remote,     \* [Scope -> the challenge in Redis, if there is one]
    local,      \* [Scope -> the challenge in _local_store, and whether its time is up]
    keyRedis, keyFaults,
    shown,      \* challenges that the client has got
    counter,    \* [Device -> its own counter]
    credential, \* [Device -> its row, and the counter in it]
    keyStage,   \* [request -> KeyStages]
    answer,     \* [Answering -> the answer that it carries, and what it has read]
    accepted,   \* history: [Asking -> requests that passed with its challenge]
    doubtful,   \* history: challenges that a failed call of Redis may have left behind
    overtaken   \* history: answers on their way when a later one of their device was committed

keyVars == <<remote, local, keyRedis, keyFaults, shown, counter, credential, keyStage, answer,
             accepted, doubtful, overtaken>>

Scope     == {"register", "auth", "login"}
KeyStages == {"new", "signed", "popped", "save", "done", "failed", "clone"}
Entry     == [is : SUBSET Asking, old : BOOLEAN]
Credential == [there : BOOLEAN, count : Nat]
Carried    == [challenge : SUBSET Asking, device : SUBSET Device, count : Nat,
               popped : SUBSET Asking, read : Nat]

\* challenge: what the device answered; popped: what the store returned.
NoAnswer == [challenge |-> {}, device |-> {}, count |-> 0, popped |-> {}, read |-> 0]
DeviceOf(v) == CHOOSE d \in Device : d \in answer[v].device

\* Some devices may have been registered before.
KeyInit ==
    /\ remote = [s \in Scope |-> {}] /\ local = [s \in Scope |-> [is |-> {}, old |-> FALSE]]
    /\ keyRedis = TRUE /\ keyFaults = 0
    /\ shown = {} /\ counter = [d \in Device |-> 0]
    /\ \E known \in SUBSET Device : credential = [d \in Device |-> [there |-> d \in known, count |-> 0]]
    /\ \E made \in KeyBatches :
            keyStage = [v \in Asking \cup Answering \cup Removing |-> IF v \in made THEN "new" ELSE "failed"]
    /\ answer = [v \in Answering |-> NoAnswer]
    /\ accepted = [a \in Asking |-> {}] /\ doubtful = {} /\ overtaken = {}

KeyTo(v, s) == keyStage' = [keyStage EXCEPT ![v] = s]
Registered  == {d \in Device : credential[d].there}
Unsure(a)   == keyFaults < KeyMaxFaults /\ keyFaults' = keyFaults + 1 /\ doubtful' = doubtful \cup a
-----------------------------------------------------------------------------
\* set_challenge: Redis, or the process where the call fails, after it has taken
\* effect or before.
SetChallenge(a) ==
    LET s == Ceremony[a]
        stored == remote' = [remote EXCEPT ![s] = {a}]
        kept   == local' = [local EXCEPT ![s] = [is |-> {a}, old |-> FALSE]]
    IN  \/ keyRedis /\ stored /\ UNCHANGED <<local, keyFaults, doubtful>>
        \/ keyRedis /\ stored /\ kept /\ Unsure({a})
        \/ ~keyRedis /\ kept /\ UNCHANGED <<remote, keyFaults, doubtful>>

Asks(a, ceremony) ==
    /\ keyStage[a] = "new" /\ Ceremony[a] = ceremony
    /\ UNCHANGED <<keyRedis, counter, credential, answer, accepted, overtaken>>
Shows(a) == KeyTo(a, "done") /\ shown' = shown \cup {a} /\ SetChallenge(a)

\* The options of an assertion name the devices that there are.
FromDevices(a) ==
    \/ Registered # {} /\ Shows(a)
    \/ /\ Registered = {} /\ KeyTo(a, "failed")
       /\ UNCHANGED <<remote, local, keyFaults, doubtful, shown>>

RegistrationOptions(a)   == Asks(a, "register") /\ Shows(a)
AuthenticationOptions(a) == Asks(a, "auth") /\ FromDevices(a)
FidoLoginOptions(a)      == Asks(a, "login") /\ FromDevices(a)

\* A device answers a challenge.
Sign(v) ==
    /\ keyStage[v] = "new" /\ KeyTo(v, "signed")
    /\ \E a \in shown, d \in Device :
        /\ Ceremony[a] # "register" => d \in Registered
        /\ counter' = [counter EXCEPT ![d] = IF d \in Counting THEN @ + 1 ELSE 0]
        /\ answer' = [answer EXCEPT ![v] = [NoAnswer EXCEPT !.challenge = {a}, !.device = {d},
                                                            !.count = counter'[d]]]
    /\ UNCHANGED <<remote, local, keyRedis, keyFaults, shown, credential, accepted, doubtful, overtaken>>

For(v, ceremony) == \E a \in answer[v].challenge : Ceremony[a] = ceremony
ScopeOf(v) == Ceremony[CHOOSE a \in Asking : a \in answer[v].challenge]

\* pop_challenge with a Redis that answers: GETDEL takes the challenge, and where
\* it finds none the process is asked.
Mut_ReadNotTaken(v) ==
    /\ keyStage[v] = "signed"
    /\ LET s == ScopeOf(v)
           found == IF keyRedis /\ remote[s] # {} THEN remote[s]
                    ELSE IF local[s].old THEN {} ELSE local[s].is
       IN  /\ KeyTo(v, IF found = {} THEN "failed" ELSE "popped")
           /\ answer' = [answer EXCEPT ![v].popped = found]
    /\ UNCHANGED <<remote, local, keyRedis, keyFaults, shown, counter, credential, accepted, doubtful, overtaken>>

\* A GETDEL that fails, after it has taken effect or before, counts as none found.
Pop(v) ==
    /\ keyStage[v] = "signed"
    /\ LET s == ScopeOf(v)
           take(found) == /\ KeyTo(v, IF found = {} THEN "failed" ELSE "popped")
                          /\ answer' = [answer EXCEPT ![v].popped = found]
           fallBack    == /\ take(IF local[s].old THEN {} ELSE local[s].is)
                          /\ local' = [local EXCEPT ![s] = [is |-> {}, old |-> FALSE]]
           gone        == remote' = [remote EXCEPT ![s] = {}]
       IN  \/ /\ keyRedis /\ remote[s] # {} /\ take(remote[s]) /\ gone
              /\ UNCHANGED <<local, keyFaults, doubtful>>
           \/ /\ ~keyRedis \/ remote[s] = {}
              /\ fallBack
              /\ UNCHANGED <<remote, keyFaults, doubtful>>
           \/ /\ keyRedis /\ fallBack /\ Unsure({})
              /\ gone \/ UNCHANGED remote
    /\ UNCHANGED <<keyRedis, shown, counter, credential, accepted, overtaken>>

\* _check_sign_count, and the like test of webauthn
CountGoesUp(stored, new) == new > stored \/ (new = 0 /\ stored = 0)

\* What is verified is the challenge that the store returned; the counter of the
\* credential, as it is read, goes with the request.
Verify(v, outcome) ==
    /\ keyStage[v] = "popped"
    /\ KeyTo(v, IF answer[v].popped # answer[v].challenge THEN "failed" ELSE outcome)
    /\ answer' = [answer EXCEPT ![v].read = credential[DeviceOf(v)].count]
    /\ UNCHANGED <<remote, local, keyRedis, keyFaults, shown, counter, credential, accepted,
                   doubtful, overtaken>>

VerifyRegistration(v) ==
    /\ For(v, "register")
    /\ Verify(v, IF DeviceOf(v) \in Registered THEN "failed" ELSE "save")

AssertionOutcome(v) ==
    IF DeviceOf(v) \notin Registered THEN "failed"
    ELSE IF CountGoesUp(credential[DeviceOf(v)].count, answer[v].count) THEN "save" ELSE "clone"
VerifyAuthentication(v) == For(v, "auth") /\ Verify(v, AssertionOutcome(v))
VerifyLogin(v)          == For(v, "login") /\ Verify(v, AssertionOutcome(v))

\* The commit, which fails or leaves a counter; answers of the device that are
\* still on their way are overtaken.
Commit(v, passes, count) ==
    LET d == DeviceOf(v)
        rivals == {w \in Answering \ {v} : /\ answer[w].device = {d} /\ answer[w].count <= answer[v].count
                                           /\ keyStage[w] \in {"signed", "popped", "save"}}
    IN  /\ keyStage[v] = "save"
        /\ KeyTo(v, IF passes THEN "done" ELSE "failed")
        /\ credential' = IF passes THEN [credential EXCEPT ![d] = [there |-> TRUE, count |-> count]]
                         ELSE credential
        /\ accepted' = [a \in Asking |-> accepted[a] \cup
                                           IF passes /\ a \in answer[v].challenge THEN {v} ELSE {}]
        /\ overtaken' = overtaken \cup IF passes THEN rivals ELSE {}
        /\ UNCHANGED <<remote, local, keyRedis, keyFaults, shown, counter, answer, doubtful>>

\* A new row, which the unique index may refuse.
SaveCredential(v) ==
    For(v, "register") /\ Commit(v, DeviceOf(v) \notin Registered, answer[v].count)

\* The counter, if it differs from what was read; a row that is gone fails it.
SaveCount(v) ==
    LET stored == credential[DeviceOf(v)].count
    IN  /\ ~For(v, "register")
        /\ Commit(v, DeviceOf(v) \in Registered,
                  IF answer[v].count # answer[v].read THEN answer[v].count ELSE stored)

\* delete_credential
RemoveCredential(v) ==
    /\ keyStage[v] = "new" /\ KeyTo(v, "done")
    /\ \E d \in Registered : credential' = [credential EXCEPT ![d] = [there |-> FALSE, count |-> 0]]
    /\ UNCHANGED <<remote, local, keyRedis, keyFaults, shown, counter, answer, accepted, doubtful, overtaken>>
-----------------------------------------------------------------------------
\* The time of a challenge is up: Redis drops it, the process keeps it until it
\* is popped or clear_expired_local finds it.
ChallengeExpires(s) ==
    /\ \/ remote[s] # {} /\ remote' = [remote EXCEPT ![s] = {}] /\ UNCHANGED local
       \/ local[s].is # {} /\ local' = [local EXCEPT ![s].old = TRUE] /\ UNCHANGED remote
       \/ /\ local[s].old /\ local' = [local EXCEPT ![s] = [is |-> {}, old |-> FALSE]]
          /\ UNCHANGED remote
    /\ UNCHANGED <<keyRedis, keyFaults, shown, counter, credential, keyStage, answer, accepted,
                   doubtful, overtaken>>

RedisTurns ==
    /\ keyRedis' = ~keyRedis
    /\ keyFaults' = IF keyRedis THEN keyFaults + 1 ELSE keyFaults
    /\ keyFaults' <= KeyMaxFaults
    /\ UNCHANGED <<remote, local, shown, counter, credential, keyStage, answer, accepted, doubtful, overtaken>>

KeyNext ==
    \/ \E a \in Asking : RegistrationOptions(a) \/ AuthenticationOptions(a) \/ FidoLoginOptions(a)
    \/ \E v \in Answering : \/ Sign(v) \/ Pop(v)
                            \/ VerifyRegistration(v) \/ SaveCredential(v)
                            \/ VerifyAuthentication(v) \/ VerifyLogin(v) \/ SaveCount(v)
    \/ \E v \in Removing : RemoveCredential(v)
    \/ \E s \in Scope : ChallengeExpires(s)
    \/ RedisTurns

KeySpec == KeyInit /\ [][KeyNext]_keyVars
-----------------------------------------------------------------------------
KeyTypeOK ==
    /\ remote \in [Scope -> SUBSET Asking] /\ local \in [Scope -> Entry]
    /\ keyRedis \in BOOLEAN /\ keyFaults \in 0..KeyMaxFaults
    /\ shown \subseteq Asking /\ counter \in [Device -> Nat]
    /\ credential \in [Device -> Credential]
    /\ keyStage \in [Asking \cup Answering \cup Removing -> KeyStages]
    /\ answer \in [Answering -> Carried]
    /\ accepted \in [Asking -> SUBSET Answering]
    /\ doubtful \subseteq Asking /\ overtaken \subseteq Answering

\* A challenge serves one answer, however requests, stores and outages mix,
\* unless Redis took it and yet failed, so that both stores have it (set_challenge,
\* pop_challenge).
ChallengeServesOnce ==
    \A a \in Asking : Cardinality(accepted[a]) > 1 => a \in doubtful

\* A genuine device is taken for a clone only when a later answer of it was
\* committed before this one was verified, though overlapping commits may set the
\* counter back (authentication_verify, fido_login_verify).
CloneOnlyIfOvertaken ==
    \A v \in Answering : keyStage[v] = "clone" => v \in overtaken

\* A ceremony is done once, and by the device that has done it.
CeremoniesHold == ChallengeServesOnce /\ CloneOnlyIfOvertaken
=============================================================================
