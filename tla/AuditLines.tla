----------------------------- MODULE AuditLines -----------------------------
(***************************************************************************)
(* The audit log of fraud-service (app/services/audit_logger.py): a line   *)
(* for each evaluation, under a lock, in a file that is rolled over when   *)
(* it is long enough.  The rollover renames one file after the other; when *)
(* one cannot be renamed the error is swallowed, with the file closed, and *)
(* from then on every write raises, until the process starts again.        *)
(***************************************************************************)
EXTENDS Integers, Sequences

CONSTANTS Backups,    \* _BACKUP_COUNT
          LinesPerFile,  \* _MAX_BYTES, in lines
          MaxLines, MaxRollFaults  \* bounds

ASSUME LinesConstants ==
    /\ Backups \in Nat \ {0} /\ LinesPerFile \in Nat \ {0}
    /\ MaxLines \in Nat /\ MaxRollFaults \in Nat

VARIABLES
    logs,       \* [0..Backups -> the lines of audit.jsonl and of its backups]
    opened,     \* whether the handler has a stream
    lines,      \* history: how many lines were written
    raised,     \* history: how many writes raised
    rollFaults

linesVars == <<logs, opened, lines, raised, rollFaults>>

LinesInit ==
    /\ logs = [i \in 0..Backups |-> <<>>] /\ opened = TRUE
    /\ lines = 0 /\ raised = 0 /\ rollFaults = 0

Mut_BackupKept(files, downto) ==
    [i \in 0..Backups |-> IF i = 1 /\ downto = 0 THEN files[0]
                          ELSE IF i = downto THEN <<>> ELSE files[i]]

\* The renames of doRollover, from the last backup, which goes, down to one.
Renamed(files, downto) ==
    [i \in 0..Backups |-> IF i > downto THEN files[i - 1]
                          ELSE IF i = downto THEN <<>> ELSE files[i]]

Rollover(files) ==
    \/ logs' = Renamed(files, 0) /\ opened' = TRUE /\ UNCHANGED rollFaults
    \/ /\ rollFaults < MaxRollFaults /\ rollFaults' = rollFaults + 1
       /\ \E downto \in 1..Backups : logs' = Renamed(files, downto)
       /\ opened' = FALSE

\* write
WriteLine ==
    LET files == [logs EXCEPT ![0] = Append(@, lines + 1)]
    IN  /\ lines < MaxLines /\ opened
        /\ lines' = lines + 1
        /\ \/ /\ Len(files[0]) < LinesPerFile /\ logs' = files
              /\ UNCHANGED <<opened, rollFaults>>
           \/ Len(files[0]) >= LinesPerFile /\ Rollover(files)
        /\ UNCHANGED raised

\* h.stream is None: the evaluation fails, after its stores were changed.
WriteRaises ==
    /\ ~opened /\ raised < MaxLines /\ raised' = raised + 1
    /\ UNCHANGED <<logs, opened, lines, rollFaults>>

\* The next process opens the log to append to it.
Reopen == ~opened /\ opened' = TRUE /\ UNCHANGED <<logs, lines, raised, rollFaults>>

LinesNext == WriteLine \/ WriteRaises \/ Reopen

LinesSpec == LinesInit /\ [][LinesNext]_linesVars
-----------------------------------------------------------------------------
\* tail: the last n lines of the log, the latest first; not those of backups.
LastLines(n) ==
    LET m == IF Len(logs[0]) > n THEN n ELSE Len(logs[0])
    IN  [i \in 1..m |-> logs[0][Len(logs[0]) + 1 - i]]

Together ==
    LET from[i \in 0..Backups] == IF i = 0 THEN logs[0] ELSE logs[i] \o from[i - 1]
    IN  from[Backups]
-----------------------------------------------------------------------------
LinesTypeOK ==
    /\ logs \in [0..Backups -> Seq(1..MaxLines)] /\ opened \in BOOLEAN
    /\ lines \in 0..MaxLines /\ raised \in 0..MaxLines

\* From the oldest backup to the log, the files hold the latest lines, every
\* one once and in order, also when a rollover stopped half way; at least as
\* many as fill the backups, but for those of the rollovers that did; and
\* the dashboard's tail begins with the line written last, unless the log has
\* just been rolled over.
LinesAreTheLatest ==
    LET s == Together
    IN  /\ \A i \in 1..Len(s) : s[i] = lines - Len(s) + i
        /\ Len(s) >= (Backups - rollFaults) * LinesPerFile \/ Len(s) = lines
        /\ logs[0] # <<>> => LastLines(1) = <<lines>>
=============================================================================
