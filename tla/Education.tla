----------------------------- MODULE Education -----------------------------
(***************************************************************************)
(* The education programme of one user of the backend                      *)
(* (app/services/education_store_db.py): steps of a course, challenges,    *)
(* badges, quizzes and the row of the leaderboard that is computed from    *)
(* them.  A request is one transaction of PostgreSQL: each statement sees  *)
(* what is committed when it runs and what its own transaction has         *)
(* written; a write waits while another transaction holds its row, and a   *)
(* unique index fails the transaction that comes second.  The session      *)
(* writes an object's pending changes before its next statement, and only  *)
(* the columns that differ from what it loaded.                            *)
(***************************************************************************)
EXTENDS Integers, FiniteSets, FiniteSetsExt

CONSTANTS Course, Steps,    \* courses and their total_steps
          EduRequest, EduAsks,  \* requests, and their kind, course and score
          EduBatches,           \* sets of requests: a behaviour makes those of one, each once
          ChallengeBadge,       \* the badge of the one challenge of the model
          None

ASSUME EducationConstants ==
    /\ Steps \in [Course -> Nat \ {0}]
    /\ \A r \in EduRequest : EduAsks[r].kind \in {"advance", "enroll", "update", "sync", "quiz"}
    /\ \A r \in EduRequest : EduAsks[r].kind = "advance" => EduAsks[r].course \in Course
    /\ \A r \in EduRequest : EduAsks[r].kind = "quiz" => EduAsks[r].score \in 0..100
    /\ EduBatches \subseteq SUBSET EduRequest
    /\ ChallengeBadge \notin Course /\ None \notin EduRequest

VARIABLES
    progress,   \* [Course -> its row of course_progress; step 0 where there is none]
    enrolled,   \* [Request -> the row of challenge_enrollments that it has made]
    badges,     \* user_badges
    quizzes,    \* quiz_scores, by the request that took the quiz
    board,      \* the user's row of leaderboard_points
    held,       \* [Row -> the transaction that has written it, or None]
    eduPhase,      \* [Request -> Phase]
    own,        \* [Request -> what its transaction has read and written]
    entwined,   \* history: requests that read and wrote around another's commit
    repeated    \* history: whether a challenge was completed whose badge was there

eduVars == <<progress, enrolled, badges, quizzes, board, held, eduPhase, own, entwined, repeated>>

EduRow    == Course \cup EduRequest
EduPhase  == {"new", "write", "badge", "count", "challenges", "average", "load", "commit", "done", "failed"}
Points == [there : BOOLEAN, badges : Nat, completed : Nat, quiz : Nat, total : Nat]

NoPoints == [there |-> FALSE, badges |-> 0, completed |-> 0, quiz |-> 0, total |-> 0]

\* step: the course's step as it was read; rows: the rows to be written as
\* completed; badge: the badge to be inserted; points: the row of the
\* leaderboard to be written, over the one that was loaded.
NothingOwn == [step |-> 0, rows |-> {}, badge |-> {}, points |-> NoPoints, loaded |-> NoPoints]

Active    == {r \in EduRequest : enrolled[r] = "active"}
Completed == {r \in EduRequest : enrolled[r] = "completed"}
-----------------------------------------------------------------------------
EduInit ==
    /\ progress = [c \in Course |-> [step |-> 0, completed |-> FALSE]]
    /\ enrolled = [r \in EduRequest |-> "none"]
    /\ badges = {} /\ quizzes = {} /\ board = NoPoints
    /\ held = [w \in EduRow |-> None]
    /\ \E made \in EduBatches :
            eduPhase = [r \in EduRequest |-> IF r \in made THEN "new" ELSE "failed"]
    /\ own = [r \in EduRequest |-> NothingOwn]
    /\ entwined = {} /\ repeated = FALSE

EduAt(r, p)     == eduPhase[r] = p
EduTo(r, p)   == eduPhase' = [eduPhase EXCEPT ![r] = p]
TablesKept   == UNCHANGED <<progress, enrolled, badges, quizzes, board, entwined, repeated>>
Free(r, ws)  == \A w \in ws : held[w] \in {None, r}
Holding(r, ws) == held' = [w \in EduRow |-> IF w \in ws THEN r ELSE held[w]]
Kind(r)      == EduAsks[r].kind

\* The rows of course_progress and challenge_enrollments that r writes.
Rows(r) == IF Kind(r) = "advance" THEN {EduAsks[r].course}
           ELSE IF Kind(r) \in {"update", "sync"} THEN own[r].rows ELSE {}
-----------------------------------------------------------------------------
\* advance_course_step: the select of the row.
ReadProgress(r) ==
    /\ EduAt(r, "new") /\ Kind(r) = "advance"
    /\ LET c == EduAsks[r].course
           next == Min({progress[c].step + 1, Steps[c]})
       IN  /\ own' = [own EXCEPT ![r].step = IF progress[c].completed THEN 0 ELSE next]
           /\ EduTo(r, IF progress[c].completed THEN "done"
                      ELSE IF progress[c].step > 0 /\ next = Steps[c] THEN "badge" ELSE "write")
    /\ UNCHANGED held /\ TablesKept

\* enroll_challenge: the select of an active row, and the new row with its
\* commit; scalar_one_or_none fails on two.
ReadActive(r) ==
    /\ EduAt(r, "new") /\ Kind(r) = "enroll"
    /\ EduTo(r, IF Active = {} THEN "write" ELSE IF Cardinality(Active) = 1 THEN "done" ELSE "failed")
    /\ UNCHANGED <<held, own>> /\ TablesKept

Enroll(r) ==
    /\ EduAt(r, "write") /\ Kind(r) = "enroll" /\ EduTo(r, "done")
    /\ enrolled' = [enrolled EXCEPT ![r] = "active"]
    /\ UNCHANGED <<progress, badges, quizzes, board, held, own, entwined, repeated>>

\* update_challenge_progress and sync_challenge_progress: the select of the
\* active rows, one or any; those whose value reaches its target complete.
ReadChallenge(r) ==
    /\ EduAt(r, "new") /\ Kind(r) \in {"update", "sync"}
    /\ \/ /\ Kind(r) = "update" /\ Cardinality(Active) # 1
          /\ EduTo(r, "failed") /\ UNCHANGED own
       \/ /\ Kind(r) = "sync" \/ Cardinality(Active) = 1
          /\ \E full \in SUBSET Active :
                /\ own' = [own EXCEPT ![r].rows = full]
                /\ EduTo(r, IF full = {} THEN "done" ELSE "badge")
    /\ UNCHANGED held /\ TablesKept

\* save_quiz_score adds its row, and goes on to the leaderboard.
AddScore(r) ==
    /\ EduAt(r, "new") /\ Kind(r) = "quiz" /\ EduTo(r, "count")
    /\ UNCHANGED <<held, own>> /\ TablesKept

BadgeOf(r) == IF Kind(r) = "advance" THEN EduAsks[r].course ELSE ChallengeBadge

Mut_BadgeForgotten(r) ==
    /\ EduAt(r, "badge") /\ Free(r, Rows(r)) /\ Holding(r, Rows(r))
    /\ EduTo(r, IF BadgeOf(r) \in badges THEN "commit" ELSE "count") /\ UNCHANGED own
    /\ TablesKept

\* _award_badge: the select writes the pending rows first, and waits for them;
\* where the badge is there, the leaderboard is left as it is.
Award(r) ==
    /\ EduAt(r, "badge") /\ Free(r, Rows(r)) /\ Holding(r, Rows(r))
    /\ \/ BadgeOf(r) \in badges /\ EduTo(r, "commit") /\ UNCHANGED own
       \/ /\ BadgeOf(r) \notin badges /\ EduTo(r, "count")
          /\ own' = [own EXCEPT ![r].badge = {BadgeOf(r)}]
    /\ TablesKept

Average(qs) == IF qs = {} THEN 0
               ELSE MapThenSumSet(LAMBDA q : EduAsks[q].score, qs) \div Cardinality(qs)

\* The points of _update_leaderboard for what it has counted, and for the rows.
PointsOf(bs, done, average) ==
    [there |-> TRUE, badges |-> bs, completed |-> done, quiz |-> average,
     total |-> 50 * bs + 100 * done + 10 * average]

Score(bs, done, qs) == PointsOf(Cardinality(bs), Cardinality(done), Average(qs))

\* sync_challenge_progress completes one row after another, and its badge, which
\* is counted but once, comes with the first.
First(rows) == IF rows = {} THEN {} ELSE {CHOOSE q \in rows : TRUE}

\* Its three selects, between which others commit: the badges, the completed
\* challenges, and the average of the quizzes.
Count(r) ==
    /\ EduAt(r, "count") /\ EduTo(r, "challenges")
    /\ own' = [own EXCEPT ![r].points.badges = Cardinality(badges \cup own[r].badge)]
    /\ UNCHANGED held /\ TablesKept

CountChallenges(r) ==
    /\ EduAt(r, "challenges") /\ EduTo(r, "average")
    /\ own' = [own EXCEPT ![r].points.completed = Cardinality(Completed \cup First(own[r].rows))]
    /\ UNCHANGED held /\ TablesKept

AverageScores(r) ==
    /\ EduAt(r, "average") /\ EduTo(r, "load")
    /\ own' = [own EXCEPT ![r].points =
            PointsOf(own[r].points.badges, own[r].points.completed,
                     Average(IF Kind(r) = "quiz" THEN quizzes \cup {r} ELSE quizzes))]
    /\ UNCHANGED held /\ TablesKept

\* The select of the leaderboard's row.
Load(r) ==
    /\ EduAt(r, "load") /\ EduTo(r, "commit")
    /\ own' = [own EXCEPT ![r].loaded = board]
    /\ UNCHANGED held /\ TablesKept

\* What the leaderboard's row becomes: the columns that differ from the loaded.
Written(r) ==
    IF ~own[r].points.there THEN board
    ELSE [f \in DOMAIN board |-> IF own[r].points[f] # own[r].loaded[f] THEN own[r].points[f] ELSE board[f]]

\* Requests that have begun to count and not committed when another commits.
HasCounted ==
    {r \in EduRequest : \/ eduPhase[r] \in {"challenges", "average", "load"}
                        \/ eduPhase[r] = "commit" /\ own[r].points.there}

\* The commit: a badge, a course or a leaderboard row that another transaction
\* has inserted since takes everything back.
Commit(r) ==
    /\ EduAt(r, "commit") \/ (EduAt(r, "write") /\ Kind(r) = "advance")
    /\ Free(r, Rows(r))
    /\ held' = [w \in EduRow |-> IF held[w] = r THEN None ELSE held[w]]
    /\ LET c == EduAsks[r].course
           clash == \/ own[r].badge \cap badges # {}
                    \/ own[r].points.there /\ ~own[r].loaded.there /\ board.there
                    \/ Kind(r) = "advance" /\ own[r].step = 1 /\ EduAt(r, "write") /\ progress[c].step > 0
       IN  \/ clash /\ EduTo(r, "failed")
              /\ UNCHANGED <<progress, enrolled, badges, quizzes, board, own, entwined, repeated>>
           \/ /\ ~clash /\ EduTo(r, "done")
              /\ progress' = IF Kind(r) # "advance" THEN progress
                             ELSE [progress EXCEPT ![c] = [step |-> own[r].step,
                                                           completed |-> @.completed \/ EduAt(r, "commit")]]
              /\ enrolled' = [q \in EduRequest |-> IF Kind(r) # "advance" /\ q \in own[r].rows
                                                THEN "completed" ELSE enrolled[q]]
              /\ badges' = badges \cup own[r].badge
              /\ quizzes' = IF Kind(r) = "quiz" THEN quizzes \cup {r} ELSE quizzes
              /\ board' = Written(r)
              /\ entwined' = entwined \cup (IF HasCounted \ {r} = {} THEN {} ELSE HasCounted)
              /\ repeated' = (repeated \/ Cardinality(own[r].rows) > Cardinality(own[r].badge))
              /\ UNCHANGED own

EduNext == \E r \in EduRequest :
    \/ ReadProgress(r) \/ ReadActive(r) \/ Enroll(r) \/ ReadChallenge(r) \/ AddScore(r)
    \/ Award(r) \/ Count(r) \/ CountChallenges(r) \/ AverageScores(r) \/ Load(r) \/ Commit(r)

EduSpec == EduInit /\ [][EduNext]_eduVars
-----------------------------------------------------------------------------
EduTypeOK ==
    /\ progress \in [Course -> [step : Nat, completed : BOOLEAN]]
    /\ \A c \in Course : progress[c].step <= Steps[c]
    /\ enrolled \in [EduRequest -> {"none", "active", "completed"}]
    /\ badges \subseteq Course \cup {ChallengeBadge} /\ quizzes \subseteq EduRequest
    /\ board \in Points /\ held \in [EduRow -> EduRequest \cup {None}]
    /\ eduPhase \in [EduRequest -> EduPhase]
    /\ \A r \in EduRequest : own[r].points \in Points /\ own[r].loaded \in Points
    /\ entwined \subseteq EduRequest /\ repeated \in BOOLEAN

\* A course or challenge that is completed has its badge, whatever requests
\* complete it at once (advance_course_step, _award_badge).
CompletedHasBadge ==
    /\ \A c \in Course : progress[c].completed => c \in badges
    /\ Completed # {} => ChallengeBadge \in badges

\* The leaderboard never counts a badge or a challenge that is not there; and it
\* is what the rows make until two requests count around each other's commit, or
\* a challenge is completed again (_update_leaderboard).
BoardFollowsRows ==
    board.there =>
        /\ board.badges <= Cardinality(badges) /\ board.completed <= Cardinality(Completed)
        /\ (entwined = {} /\ ~repeated) => board = Score(badges, Completed, quizzes)

\* What a user has earned is there, and is what the leaderboard shows.
EarnedIsShown == CompletedHasBadge /\ BoardFollowsRows
=============================================================================
