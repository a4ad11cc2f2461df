------------------------------ MODULE MCUsers ------------------------------
(***************************************************************************)
(* A user of the backend, one component at a time: the account and its     *)
(* tokens, its passkeys, the session of the web client, what the education *)
(* programme teaches, how its challenges are measured, and what is kept of *)
(* users: audit rows, tags, advice, consents, and the policy file.         *)
(***************************************************************************)
EXTENDS Accounts, Passkeys, ClientSession, Lessons,
        Emotions, Advice, PolicyFile, Dashboard

CONSTANT Focus  \* the components that a behaviour may be about

VARIABLE focus

vars == <<focus, accVars, keyVars, webVars, lessonVars, challengeVars,
          rowVars, moodVars, adviceVars, fileVars, privacyVars>>

\* Accounts: each kind of request against those whose state it shares.
AccKindOf == [r \in AccRequest |->
    CASE r \in {"g", "g2"} -> "register" [] r = "l" -> "login" [] r = "t" -> "totp"
      [] r \in {"v1", "v2"} -> "verify" [] r = "s" -> "setup" [] r = "d" -> "disable"
      [] r = "x" -> "regenerate" [] r \in {"b1", "b2", "b3"} -> "backup" [] r = "p" -> "password"
      [] r \in {"f1", "f2"} -> "refresh" [] r \in {"o", "o2"} -> "logout" [] r = "c" -> "challenge"
      [] OTHER -> "answer"]
AccBatchesOf == {{}, {"g", "l", "x", "b1", "b2", "b3"}, {"g", "s", "v1", "v2", "d"},
                 {"g", "f1", "f2", "o"}, {"g", "f1", "o", "o2", "p"}, {"g", "s", "v1", "c", "a1"},
                 {"g", "c", "a1", "a2"}, {"g", "g2", "s", "v1", "l", "t"}}

\* Passkeys: a registration and an authentication, or two of these, that are
\* answered twice, or once while a credential is removed; a device that counts
\* and one that does not.
CeremonyOf   == [a \in Asking |-> IF a = "o1" THEN "register" ELSE IF a = "o4" THEN "login" ELSE "auth"]
KeyBatchesOf == {{}, {"o1", "o2", "k1", "k2"}, {"o2", "o3", "k1", "k2"}, {"o2", "o4", "k1", "k2"},
                 {"o1", "o2", "k1", "kx"}, {"o1", "k1", "k2", "kx"}, {"o4", "k1", "k2", "kx"}}

\* The client: mounted hooks, calls and a logout.
WebBatchesOf == {{}, {"m1", "m2", "w1"}, {"m1", "w1", "out"}, {"w1", "w2", "out"}}

\* Emotions: three payments, two of them within a day of both hours, and one
\* that is not there.
BodiesOf == {[of |-> "a", emotion |-> "stressed", intensity |-> 5], [of |-> "a", emotion |-> "stressed", intensity |-> 1],
             [of |-> "a", emotion |-> "happy", intensity |-> 5], [of |-> "b", emotion |-> "impulse", intensity |-> 5],
             [of |-> "gone", emotion |-> "happy", intensity |-> 3]}
PaymentsOf == {[id |-> "a", at |-> 118, category |-> "food", amount |-> 30],
               [id |-> "b", at |-> 119, category |-> "shopping", amount |-> 2],
               [id |-> "c", at |-> 105, category |-> "food", amount |-> 1]}

\* Advice: payments whose category is said and some whose text names one or two;
\* budgets that add up, one with an item of nothing and one that does not.
Text(words, length) == [says |-> words, length |-> length]
SentOf == {[category |-> "food", text |-> Text({}, 0), amount |-> 3, at |-> 215],
           [category |-> "shopping", text |-> Text({"coupang"}, 6), amount |-> 9, at |-> 189],
           [category |-> "entertainment", text |-> Text({"netflix"}, 4), amount |-> 4, at |-> 130],
           [category |-> "other", text |-> Text({"KT", "SKT"}, 3), amount |-> 1, at |-> 160],
           [category |-> "other", text |-> Text({"netflix", "coupang"}, 5), amount |-> 2, at |-> 20]}
BudgetsOf == {[total |-> 5, items |-> << <<"food", 5>> >>],
              [total |-> 8, items |-> << <<"food", 4>>, <<"shopping", 4>> >>],
              [total |-> 4, items |-> << <<"food", 4>>, <<"shopping", 0>> >>]}

\* Audit rows: three entries and a purge, which may take the one in the middle;
\* two entries and two purges.
RowBatchesOf == {{}, {"e1", "e2", "e3", "p1"}, {"e1", "e2", "p1", "p2"}}

\* Dashboard: a user whose user_id is the number of another's row.
NumberOf == [o \in Owner |-> IF o = "ann" THEN "1" ELSE "2"]

\* Consents that end before they begin, on the day and after it.
DurationsOf == {-1, 0, 1}
-----------------------------------------------------------------------------
Idles(stages, component, over) == focus = component \/ \A r \in DOMAIN stages : stages[r] = over

Init ==
    /\ focus \in Focus
    /\ AccInit /\ Idles(accStage, "accounts", "failed")
    /\ KeyInit /\ Idles(keyStage, "passkeys", "failed")
    /\ (focus = "passkeys" \/ Registered = {})
    /\ WebInit /\ Idles(webStage, "client", "done")
    /\ (focus = "client" \/ expired = {})
    /\ LessonInit /\ (focus = "lessons" \/ subject = "quiz")
    /\ ChallengeInit /\ (focus = "challenges" \/ joined.challenge = "type_change")
    /\ RowInit /\ Idles(logStage, "rows", "failed") /\ MoodInit /\ AdviceInit /\ PrivacyInit
    /\ FileInit /\ (focus = "file" \/ file.text = "v1")

Others(component, state) == IF focus = component THEN TRUE ELSE UNCHANGED state

Elsewhere ==
    /\ UNCHANGED focus
    /\ Others("accounts", accVars) /\ Others("passkeys", keyVars) /\ Others("client", webVars)
    /\ Others("lessons", lessonVars) /\ Others("challenges", challengeVars)
    /\ Others("rows", rowVars) /\ Others("moods", moodVars) /\ Others("advice", adviceVars)
    /\ Others("file", fileVars) /\ Others("privacy", privacyVars)

Next ==
    \/ focus = "accounts" /\ AccNext /\ Elsewhere
    \/ focus = "passkeys" /\ KeyNext /\ Elsewhere
    \/ focus = "client" /\ WebNext /\ Elsewhere
    \/ focus = "lessons" /\ LessonNext /\ Elsewhere
    \/ focus = "challenges" /\ ChallengeNext /\ Elsewhere
    \/ focus = "rows" /\ RowNext /\ Elsewhere
    \/ focus = "moods" /\ MoodNext /\ Elsewhere
    \/ focus = "advice" /\ AdviceNext /\ Elsewhere
    \/ focus = "file" /\ FileNext /\ Elsewhere
    \/ focus = "privacy" /\ PrivacyNext /\ Elsewhere

Spec == Init /\ [][Next]_vars
-----------------------------------------------------------------------------
TypeOK ==
    /\ focus \in Focus /\ AccTypeOK /\ KeyTypeOK /\ WebTypeOK /\ LessonTypeOK /\ ChallengeTypeOK
    /\ RowTypeOK /\ MoodTypeOK /\ AdviceTypeOK /\ FileTypeOK /\ PrivacyTypeOK

\* What is kept of users: the audit rows that requests add while others are
\* purged, the tags and the warnings they lead to, what is advised and the pages say, the policy
\* file that is read while it is edited, and consents and pseudonyms.  Each
\* part is stated, with the code it is about, in its own module, and looked at
\* in the behaviours about it: the others never change it.
Is(component, invariant) == focus = component => invariant

RecordsHold ==
    /\ Is("rows", ChainSurvivesPurges) /\ Is("moods", MoodsHold)
    /\ Is("advice", AdviceHolds) /\ Is("advice", PagesAgree)
    /\ Is("file", ReloadsHold) /\ Is("privacy", PrivacyHolds)
=============================================================================
