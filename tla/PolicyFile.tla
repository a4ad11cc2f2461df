----------------------------- MODULE PolicyFile -----------------------------
(***************************************************************************)
(* A policy that is read again when its file has changed                   *)
(* (app/services/policy_loader.py).  Calls hold the lock of the object, so *)
(* that at most one of them is between the stat of the file and its read;  *)
(* whoever edits the file does not hold it.  A file whose text is empty or *)
(* bad gives nothing when it is parsed, and only the latter is an error.   *)
(***************************************************************************)
EXTENDS Naturals, FiniteSets

CONSTANTS Texts,      \* texts of the file that parse to something
          MaxTicks    \* bound: the finest time that the file system tells apart

ASSUME PolicyFileConstants == Texts # {} /\ MaxTicks \in Nat \ {0} /\ Texts \cap {"bad", "empty", "none"} = {}

VARIABLES
    tick,      \* the clock of the file system
    file,      \* [there, text, mtime]
    policy,    \* [cached, mtime, error], of the object
    call,      \* [kind, mtime], of the call that is between stat and read
    told,      \* history: what the last call of get returned, and whether the file stood still
    blurred,   \* history: two texts were given the same time
    lastGood   \* history: the last text that was read and parsed, since the object was made

fileVars == <<tick, file, policy, call, told, blurred, lastGood>>

NoCall == [kind |-> "none", mtime |-> 0]
Unread == [cached |-> "none", mtime |-> 0, error |-> FALSE]

FileInit ==
    /\ tick = 1 /\ blurred = FALSE
    /\ \E text \in Texts : file = [there |-> TRUE, text |-> text, mtime |-> 1]
    /\ policy = Unread /\ call = NoCall /\ lastGood = "none"
    /\ told = [what |-> "none", still |-> FALSE]

Returned(what, still) == told' = [what |-> what, still |-> still]
-----------------------------------------------------------------------------
\* get and force_reload, until the file is read: "none" is the default.
Stat(kind) ==
    /\ call = NoCall
    /\ IF ~file.there
       THEN /\ policy' = [policy EXCEPT !.error = IF kind = "get" THEN TRUE ELSE @]
            /\ UNCHANGED call
            /\ IF kind = "get" THEN Returned("none", TRUE) ELSE UNCHANGED told
       ELSE IF kind = "get" /\ file.mtime = policy.mtime
       THEN Returned(policy.cached, TRUE) /\ UNCHANGED <<policy, call>>
       ELSE call' = [kind |-> kind, mtime |-> file.mtime] /\ UNCHANGED <<policy, told>>
    /\ UNCHANGED <<tick, file, blurred, lastGood>>

\* _read, and what it leaves.
Took(read) ==
    IF read \in Texts THEN [cached |-> read, mtime |-> call.mtime, error |-> FALSE]
    ELSE [policy EXCEPT !.error = (read # "empty")]

ReadFile ==
    LET read == IF file.there THEN file.text ELSE "bad"
    IN  /\ call # NoCall /\ call' = NoCall
        /\ policy' = Took(read) /\ lastGood' = IF read \in Texts THEN read ELSE lastGood
        /\ IF call.kind = "get" THEN Returned(policy'.cached, file.there /\ file.mtime = call.mtime) ELSE UNCHANGED told
        /\ UNCHANGED <<tick, file, blurred>>

\* Somebody writes the file, or removes it; a part of a text is a text of its own.
Edit(text) ==
    /\ file' = [there |-> TRUE, text |-> text, mtime |-> tick]
    /\ blurred' = (blurred \/ (file.mtime = tick /\ text # file.text))
    /\ told' = [told EXCEPT !.still = FALSE]
    /\ UNCHANGED <<tick, policy, call, lastGood>>

RemoveFile ==
    /\ file.there /\ file' = [file EXCEPT !.there = FALSE] /\ told' = [told EXCEPT !.still = FALSE]
    /\ UNCHANGED <<tick, policy, call, blurred, lastGood>>

Tick ==
    /\ tick < MaxTicks /\ tick' = tick + 1
    /\ UNCHANGED <<file, policy, call, told, blurred, lastGood>>

\* The process begins again.
Remade ==
    /\ policy' = Unread /\ call' = NoCall /\ lastGood' = "none" /\ told' = [told EXCEPT !.still = FALSE]
    /\ UNCHANGED <<tick, file, blurred>>

FileNext ==
    \/ \E kind \in {"get", "force"} : Stat(kind)
    \/ ReadFile
    \/ \E text \in Texts \cup {"bad", "empty"} : Edit(text)
    \/ RemoveFile \/ Tick \/ Remade

FileSpec == FileInit /\ [][FileNext]_fileVars
-----------------------------------------------------------------------------
FileTypeOK ==
    /\ tick \in 1..MaxTicks /\ file.mtime \in 1..tick
    /\ policy.cached \in Texts \cup {"none"} /\ policy.mtime \in 0..tick /\ call.mtime \in 0..tick

\* The file may change between the look at its time and the read.  What is
\* cached is the last text that could be read, never a bad one; while no two
\* texts have the same time, the time that is kept with it is never that of
\* another text that the file has now; and who asks gets what the file says,
\* if it says something and nobody wrote it meanwhile.
ReloadsHold ==
    /\ policy.cached = lastGood
    /\ (~blurred /\ call = NoCall /\ file.there /\ file.mtime = policy.mtime) => policy.cached = file.text
    /\ (~blurred /\ told.still /\ file.there /\ file.text \in Texts) => told.what = file.text
    /\ (policy.cached # "none" /\ told.still /\ file.there) => told.what # "none"
=============================================================================
