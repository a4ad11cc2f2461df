------------------------------ MODULE MCStores ------------------------------
(***************************************************************************)
(* What the backend keeps of its users, one component at a time: spend     *)
(* profiles, notifications, education, the models it trains.  A behaviour  *)
(* is about one of them, and brings no requests to the others, with which  *)
(* it shares nothing but the names of the users.                           *)
(***************************************************************************)
EXTENDS SpendProfiles, Notifications, Education, Training, TLC

CONSTANT Focus  \* the components that a behaviour may be about

VARIABLE focus

vars == <<focus, profileVars, noteVars, eduVars, trainVars>>

\* Spend profiles: an ingest, a seed, a reset and a deletion against readers.
ProfileKind == "i" :> "ingest" @@ "p" :> "profile" @@ "t" :> "trend" @@ "d" :> "delete"
                @@ "s" :> "seed" @@ "r" :> "reset"
ProfileAsksOf == [r \in ProfileRequest |->
    [kind |-> ProfileKind[r], user |-> "u", txs |-> IF r = "i" THEN {"ti"} ELSE {}]]
ProfileBatchesOf == {{}, {"i", "p", "r"}, {"i", "t"}, {"p", "s"}, {"p", "d"}}
OwnerOf  == [t \in Tx |-> "u"]
SeededOf == [u \in User |-> {"ts"}]

\* Education: a course of two steps, a challenge and a quiz.
EduAsksOf == [r \in EduRequest |->
    [kind |-> CASE r \in {"a1", "a2", "a3"} -> "advance" [] r \in {"e1", "e2"} -> "enroll"
                [] r = "u" -> "update" [] r = "s" -> "sync" [] OTHER -> "quiz",
     course |-> "c", score |-> 60]]
EduBatchesOf == {{}, {"a1", "a2", "a3"}, {"e1", "e2", "s", "u"}, {"a1", "a2", "e1", "s"},
                 {"a1", "a2", "q"}, {"e1", "u", "q", "a1"}}
StepsOf == [c \in Course |-> 2]

\* Training: users and months enough for all models, or too few; two requests
\* at once, which begin with enough; or one, or none, about a start and a restart.
TablesOf == {[users |-> 7, payments |-> 10, months |-> 7], [users |-> 4, payments |-> 9, months |-> 6]}
TrainBatchesOf == {{}, {"boot"}, {"m1"}, {"m1", "m2"}}
-----------------------------------------------------------------------------
Idles(stages, component, over) == focus = component \/ \A r \in DOMAIN stages : stages[r] = over

Init ==
    /\ focus \in Focus
    /\ ProfileInit /\ Idles(stage, "profiles", "failed")
    /\ NoteInit
    /\ EduInit /\ Idles(eduPhase, "education", "failed")
    /\ TrainInit /\ Idles(at, "training", "failed")
    /\ torch = (table.users = 7) /\ (focus = "training" \/ torch)
    /\ LET two == Cardinality({r \in Run : at[r] # "failed"}) = 2
       IN  (two => torch) /\ restarted = IF two THEN MaxBoots ELSE 0

Others(component, state) == IF focus = component THEN TRUE ELSE UNCHANGED state

Elsewhere ==
    /\ UNCHANGED focus
    /\ Others("profiles", profileVars) /\ Others("notifications", noteVars)
    /\ Others("education", eduVars) /\ Others("training", trainVars)

\* While two requests train, the disk does not fail them: a torn file is one that
\* is being written.
DiskHolds ==
    (\A r \in Request : at[r] # "failed") =>
        \A m \in ModelKind : bundle'[m].is = "torn" => \E r \in Request : at'[r] = "write"

Notifying(A) == focus = "notifications" /\ A /\ Elsewhere

Next ==
    \/ Notifying(NoteNext)
    \/ focus = "profiles" /\ ProfileNext /\ Elsewhere
    \/ focus = "education" /\ EduNext /\ Elsewhere
    \/ focus = "training" /\ TrainNext /\ DiskHolds /\ Elsewhere

\* The task of the subscriber goes on: the event loop runs each task that is
\* ready, and a send ends, with an error if need be.
Spec == Init /\ [][Next]_vars /\ WF_vars(Notifying(SubscriberStep))
-----------------------------------------------------------------------------
TypeOK == focus \in Focus /\ ProfileTypeOK /\ NoteTypeOK /\ EduTypeOK /\ TrainTypeOK
=============================================================================
