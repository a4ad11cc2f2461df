------------------------------ MODULE AuditLog ------------------------------
(***************************************************************************)
(* What the audit trail of fraud-service promises its callers, with no     *)
(* threads, files or hashes: a log that only grows, of which a leading     *)
(* part is durable.  A stop of the process forgets the part that is not    *)
(* durable and nothing else.  AuditChain implements it as long as the disk *)
(* does what it is asked (see RefinesAuditLog there).                      *)
(***************************************************************************)
EXTENDS Naturals, Sequences

CONSTANT Entries

VARIABLES log,      \* the recorded decisions, oldest first
          durable   \* how many of them survive a stop of the process

logVars == <<log, durable>>

LogTypeOK == /\ log \in Seq(Entries)
             /\ durable \in 0..Len(log)

LogInit == log = <<>> /\ durable = 0

\* The first start ever installs a first non-empty log, durably.
Found ==
    /\ log = <<>> /\ log' \in Seq(Entries) \ {<<>>}
    /\ durable' = Len(log')

\* One decision joins the log; it may be made durable at once when all
\* before it are.
Record ==
    /\ log # <<>>
    /\ Len(log') = Len(log) + 1 /\ log' \in Seq(Entries)
    /\ SubSeq(log', 1, Len(log)) = log
    /\ \/ durable' = durable
       \/ durable = Len(log) /\ durable' = durable + 1

Flush ==
    /\ durable < Len(log)
    /\ durable' = durable + 1
    /\ UNCHANGED log

Stop ==
    /\ log' = SubSeq(log, 1, durable)
    /\ UNCHANGED durable

LogNext ==
    \/ Found
    \/ Record
    \/ Flush
    \/ Stop

LogSpec == LogInit /\ [][LogNext]_logVars
=============================================================================
