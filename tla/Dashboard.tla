------------------------------ MODULE Dashboard -------------------------------
(***************************************************************************)
(* The backend's security dashboard                                        *)
(* (app/api/routes_security_dashboard.py). Its own chain of audit rows:    *)
(* requests that log an entry and mirror it, the verification of what is   *)
(* stored, and the deletion of rows that are older than they must be kept  *)
(* (app/services/audit_retention.py); a row's hash is the number of the    *)
(* row, in the order in which they were stored. Then, from the constant    *)
(* Owner on, what it keeps in memory of users' consents and pseudonyms,    *)
(* and the page on which a decision on an access can be tried; there no    *)
(* handler awaits anything, so each is one step, and a restart forgets     *)
(* everything.                                                             *)
(***************************************************************************)
EXTENDS Integers, Sequences, FiniteSets, FiniteSetsExt

CONSTANTS Log,        \* requests that log an entry
          Purge,      \* calls of purge_db
          Keep,       \* retention_days
          Batch,      \* AUDIT_RETENTION_BATCH
          DryRuns,    \* the calls that only count
          RowBatches, \* bound: the requests and calls that take place together
          Mirroring,  \* bound: the requests of which the mirroring goes on
          MaxDays     \* bound

\* retention_days and purge_db take one where the environment says less.
ASSUME RowConstants ==
    /\ IsFiniteSet(Log) /\ MaxDays \in Nat
    /\ RowBatches \subseteq SUBSET (Log \cup Purge) /\ Mirroring \subseteq Log
    /\ Keep \in Nat \ {0} /\ Batch \in Nat \ {0}

VARIABLES
    day,       \* the clock
    chain,     \* audit_chain_entries: {[index, hash, prev, born]}
    hashes,    \* how many rows have ever been stored
    logStage,  \* [Log -> stage of the request]
    lastSeen,  \* [Log -> the last row it has read, and on which day]
    emptied,   \* history: rows were deleted from where a request was about to add
    mirror,    \* fraud-service's own chain: <<request, ...>>
    purge,     \* [Purge -> [stage, cutoff, ids, deleted, upto]], upto a history: the
               \* rows stored when it last selected
    removed    \* history: rows that were deleted, and by which call

rowVars == <<day, chain, hashes, logStage, lastSeen, emptied, mirror, purge, removed>>

None == [index |-> -1, hash |-> 0, on |-> 0]
NotBegun == [stage |-> "idle", cutoff |-> 0, ids |-> {}, deleted |-> 0, upto |-> 0]

RowInit ==
    /\ day = 0 /\ chain = {} /\ hashes = 0
    /\ \E batch \in RowBatches :
          /\ logStage = [l \in Log |-> IF l \in batch THEN "idle" ELSE "failed"]
          /\ purge = [p \in Purge |-> [NotBegun EXCEPT !.stage = IF p \in batch THEN "idle" ELSE "nothing"]]
    /\ lastSeen = [l \in Log |-> None] /\ emptied = FALSE /\ mirror = <<>>
    /\ removed = {}

LogsKept  == UNCHANGED <<logStage, lastSeen, mirror>>
PurgeKept == UNCHANGED <<purge, removed>>
-----------------------------------------------------------------------------
\* log_audit_entry, until its rows are read; the transaction begins here, and
\* created_at is when it does.
ReadLastBlock(l) ==
    LET rows == {r \in chain : \A s \in chain : s.index <= r.index}
    IN  /\ logStage[l] = "idle" /\ logStage' = [logStage EXCEPT ![l] = "read"]
        /\ lastSeen' = [lastSeen EXCEPT ![l] =
               IF rows = {} THEN [None EXCEPT !.on = day]
               ELSE LET r == CHOOSE r \in rows : TRUE IN [index |-> r.index, hash |-> r.hash, on |-> day]]
        /\ UNCHANGED <<day, chain, hashes, emptied, mirror>> /\ PurgeKept

Mut_AnyIndex(index) == FALSE

\* block_index is unique.
Taken(index) == \E r \in chain : r.index = index

\* log_audit_entry: the row is committed, or the request fails.
CommitBlock(l) ==
    LET index == lastSeen[l].index + 1
    IN  /\ logStage[l] = "read"
        /\ IF Taken(index)
           THEN /\ logStage' = [logStage EXCEPT ![l] = "failed"] /\ UNCHANGED <<chain, hashes>>
           ELSE /\ logStage' = [logStage EXCEPT ![l] = "mirroring"] /\ hashes' = hashes + 1
                /\ chain' = chain \cup {[index |-> index, hash |-> hashes + 1,
                                         prev |-> lastSeen[l].hash, born |-> lastSeen[l].on]}
        /\ UNCHANGED <<day, lastSeen, emptied, mirror>> /\ PurgeKept

\* mirror_audit_to_fraud: fraud-service adds the entry to its own chain, or is
\* not reached, or its answer comes too late; the caller is told what it knows
\* and nothing is tried again.
Mirror(l, arrives, answered) ==
    /\ logStage[l] = "mirroring" /\ l \in Mirroring
    /\ mirror' = IF arrives THEN Append(mirror, l) ELSE mirror
    /\ logStage' = [logStage EXCEPT ![l] = IF arrives /\ answered THEN "mirrored" ELSE "logged"]
    /\ UNCHANGED <<day, chain, hashes, lastSeen, emptied>> /\ PurgeKept

\* verify_audit_chain: the rows in the order of their index.
Verifies ==
    \A r \in chain :
       LET before == {s \in chain : s.index < r.index \/ (s.index = r.index /\ s.hash < r.hash)}
       IN  before # {} => \E s \in before : s.hash = r.prev /\ \A t \in before : t.index <= s.index /\ (t.index = s.index => t.hash <= s.hash)
-----------------------------------------------------------------------------
\* cutoff_datetime, and the rows before it.
Cutoff == day - Keep
Expired(cutoff) == {r \in chain : r.born < cutoff}

\* classify_age: the warning begins a day before.
ClassifyAge(r) ==
    IF day - r.born > Keep THEN "expired" ELSE IF day - r.born > Keep - 1 THEN "warning" ELSE "active"

\* purge_db, the count.
StartPurge(p) ==
    /\ purge[p].stage = "idle"
    /\ purge' = [purge EXCEPT ![p].cutoff = Cutoff, ![p].stage =
                    IF p \in DryRuns \/ Expired(Cutoff) = {} THEN "nothing" ELSE "selecting"]
    /\ UNCHANGED <<day, chain, hashes, emptied, removed>> /\ LogsKept

Lesser(a, b) == IF a < b THEN a ELSE b

\* purge_db, a batch in any order.
SelectBatch(p) ==
    LET expired == Expired(purge[p].cutoff)
    IN  /\ purge[p].stage = "selecting"
        /\ \E ids \in kSubset(Lesser(Batch, Cardinality(expired)), expired) :
              purge' = [purge EXCEPT ![p].ids = ids, ![p].upto = hashes,
                                        ![p].stage = IF ids = {} THEN "over" ELSE "deleting"]
        /\ UNCHANGED <<day, chain, hashes, emptied, removed>> /\ LogsKept

\* Rows that another call has deleted meanwhile are counted once more.
DeleteBatch(p) ==
    LET ids == purge[p].ids
    IN  /\ purge[p].stage = "deleting" /\ chain' = chain \ ids
        /\ removed' = removed \cup {<<r, p>> : r \in ids \cap chain}
        /\ emptied' = (emptied \/ \E l \in Log, r \in ids \cap chain :
                                      logStage[l] = "read" /\ r.index - lastSeen[l].index \in 0..1)
        /\ purge' = [purge EXCEPT ![p].ids = {}, ![p].deleted = @ + Cardinality(ids),
                                  ![p].stage = IF Cardinality(ids) < Batch THEN "over" ELSE "selecting"]
        /\ UNCHANGED <<day, hashes>> /\ LogsKept

\* The process stops before a commit.
StopPurge(p) ==
    /\ purge[p].stage \in {"selecting", "deleting"}
    /\ purge' = [purge EXCEPT ![p].ids = {}, ![p].stage = "stopped"]
    /\ UNCHANGED <<day, chain, hashes, emptied, removed>> /\ LogsKept

NextDay ==
    /\ day < MaxDays /\ day' = day + 1
    /\ UNCHANGED <<chain, hashes, emptied>> /\ LogsKept /\ PurgeKept

RowNext ==
    \/ \E l \in Log : ReadLastBlock(l) \/ CommitBlock(l) \/ (\E arrives, answered \in BOOLEAN : Mirror(l, arrives, answered))
    \/ \E p \in Purge : StartPurge(p) \/ SelectBatch(p) \/ DeleteBatch(p) \/ StopPurge(p)
    \/ NextDay

RowSpec == RowInit /\ [][RowNext]_rowVars
-----------------------------------------------------------------------------
RowTypeOK ==
    /\ day \in 0..MaxDays /\ hashes \in 0..Cardinality(Log)
    /\ \A r \in chain : r.hash \in 1..hashes /\ r.prev \in 0..hashes /\ r.born \in 0..MaxDays
    /\ logStage \in [Log -> {"idle", "read", "failed", "mirroring", "logged", "mirrored"}]
    /\ \A p \in Purge : purge[p].stage \in {"idle", "nothing", "selecting", "deleting", "over", "stopped"}

Begun == {p \in Purge : purge[p].stage \in {"selecting", "deleting", "over", "stopped"}}

Stored == {l \in Log : logStage[l] \in {"mirroring", "logged", "mirrored"}}

Gone == {x[1] : x \in removed}
GoneBy(p) == {x \in removed : x[2] = p}

\* What an entry was told is stored, in the chain or among what was deleted.
RowsCounted ==
    /\ hashes = Cardinality(Stored)
    /\ hashes = Cardinality(chain) + Cardinality(Gone)

\* A call that came to its end has left none of its rows, none has deleted a
\* row that it had to keep (classify_age), and none counts less than it has
\* deleted.
PurgesExact ==
    /\ \A p \in Purge : purge[p].stage = "over" =>
          \A r \in Expired(purge[p].cutoff) : r.hash > purge[p].upto
    /\ \A x \in removed : x[1].born < purge[x[2]].cutoff /\ ClassifyAge(x[1]) = "expired"
    /\ \A p \in Purge : Cardinality(GoneBy(p)) <= purge[p].deleted

\* Requests may read the same last row, and calls of purge_db may overlap and
\* stop between batches, which take rows in any order.  The chain verifies
\* nevertheless, unless rows remain that such a call has yet to delete, or a
\* row was deleted to which, or in whose place, a request was about to add.
\* Who is told that the entry is mirrored finds it there, once.
ChainSurvivesPurges ==
    /\ ((\A p \in Begun : Expired(purge[p].cutoff) = {}) /\ ~emptied) => Verifies
    /\ RowsCounted /\ PurgesExact
    /\ \A l \in Log : logStage[l] = "mirrored" => Cardinality({i \in DOMAIN mirror : mirror[i] = l}) = 1
-----------------------------------------------------------------------------
CONSTANTS Owner,        \* user_id of users
          IdOf,         \* [Owner -> the number of the row, as text]
          Durations,    \* duration_days, which nothing keeps from being negative
          MaxConsents, MaxPids, LastDay  \* bounds

ASSUME PrivacyConstants ==
    /\ Durations \subseteq Int
    /\ MaxConsents \in Nat /\ MaxPids \in Nat /\ LastDay \in Nat

VARIABLES
    today,     \* the clock
    consents,  \* _MYDATA_CONSENTS: <<[owner, until, status], ...>>, in the order of their ids
    listed,    \* history: <<the day on which the consent was last listed, ...>>
    withdrawn, \* history: consents that were revoked
    pids       \* _PID_REGISTRY: [Owner -> [now, version, old]], each pseudonym a number

privacyVars == <<today, consents, listed, withdrawn, pids>>

NotListed == -1
NoPid == [now |-> 0, version |-> 0, old |-> <<>>]

PrivacyInit ==
    /\ today = 0 /\ consents = <<>> /\ listed = <<>> /\ withdrawn = {}
    /\ pids = [o \in Owner |-> NoPid]
-----------------------------------------------------------------------------
GrantConsent(o, days) ==
    /\ Len(consents) < MaxConsents
    /\ consents' = Append(consents, [owner |-> o, until |-> today + days, status |-> "active"])
    /\ listed' = Append(listed, NotListed)
    /\ UNCHANGED <<today, withdrawn, pids>>

Ends(c) == c.status = "active" /\ c.until < today

\* list_mydata_consents is what marks a consent as expired.
ListConsents(o) ==
    /\ consents' = [i \in DOMAIN consents |->
           IF consents[i].owner = o /\ Ends(consents[i])
           THEN [consents[i] EXCEPT !.status = "expired"] ELSE consents[i]]
    /\ listed' = [i \in DOMAIN consents |-> IF consents[i].owner = o THEN today ELSE listed[i]]
    /\ UNCHANGED <<today, withdrawn, pids>>

\* revoke_mydata_consent compares the owner's user_id with the number of the
\* caller's row; no user has a role.
MayRevoke(caller, i) == consents[i].owner = IdOf[caller]
RevokeConsent(caller, i) ==
    /\ MayRevoke(caller, i)
    /\ consents' = [consents EXCEPT ![i].status = "revoked"]
    /\ withdrawn' = withdrawn \cup {i}
    /\ UNCHANGED <<today, listed, pids>>

\* generate_pid: what was there before becomes history; every pseudonym is new,
\* and its time to be replaced is only shown.
GeneratePid(o) ==
    LET used  == UNION {{pids[u].now} \cup {pids[u].old[i] : i \in DOMAIN pids[u].old} : u \in Owner}
        fresh == CHOOSE n \in 1..MaxPids : n \notin used
        old   == IF pids[o].now = 0 THEN pids[o].old ELSE Append(pids[o].old, pids[o].now)
    IN  /\ Cardinality(used \ {0}) < MaxPids
        /\ pids' = [pids EXCEPT ![o] = [now |-> fresh, version |-> Len(old) + 1, old |-> old]]
        /\ UNCHANGED <<today, consents, listed, withdrawn>>

DayEnds ==
    /\ today < LastDay /\ today' = today + 1 /\ UNCHANGED <<consents, listed, withdrawn, pids>>

RestartDashboard ==
    /\ consents' = <<>> /\ withdrawn' = {} /\ listed' = <<>>
    /\ pids' = [o \in Owner |-> NoPid] /\ UNCHANGED today

PrivacyNext ==
    \/ \E o \in Owner, days \in Durations : GrantConsent(o, days)
    \/ \E o \in Owner : ListConsents(o) \/ GeneratePid(o)
    \/ \E o \in Owner, i \in DOMAIN consents : RevokeConsent(o, i)
    \/ DayEnds \/ RestartDashboard

PrivacySpec == PrivacyInit /\ [][PrivacyNext]_privacyVars
-----------------------------------------------------------------------------
\* evaluate_abac: clearance and sensitivity are 1 to 4, for all that is not said 1.
Tried == [role : {"viewer", "other"}, clearance : 1..4, outside : BOOLEAN, mobile : BOOLEAN,
          mfa : BOOLEAN, sensitivity : 1..4]

AllowedTo(q) ==
    /\ q.clearance >= q.sensitivity
    /\ q.sensitivity >= 3 => q.mfa
    /\ q.sensitivity >= 4 => ~q.outside
MaskedFor(q) ==
    IF ~AllowedTo(q) THEN {}
    ELSE (IF q.outside /\ q.sensitivity >= 3 THEN {"user_id", "account_number", "phone"} ELSE {})
         \cup (IF q.role = "viewer" THEN {"user_id", "email", "phone", "ip"} ELSE {})
         \cup (IF q.mobile /\ q.sensitivity >= 3 THEN {"amount", "score"} ELSE {})
Fields == {"user_id", "account_number", "phone", "email", "ip", "amount", "score"}
SeenBy(q) == IF AllowedTo(q) THEN Fields \ MaskedFor(q) ELSE {}

\* More of what stands against an access, and less of what speaks for it.
Stricter(q, r) ==
    /\ q.clearance >= r.clearance /\ q.sensitivity <= r.sensitivity
    /\ (q.outside => r.outside) /\ (q.mobile => r.mobile) /\ (r.mfa => q.mfa)
    /\ q.role = "viewer" => r.role = "viewer"
-----------------------------------------------------------------------------
PrivacyTypeOK ==
    /\ today \in 0..LastDay /\ Len(consents) <= MaxConsents
    /\ \A i \in DOMAIN consents : consents[i].owner \in Owner /\ consents[i].status \in {"active", "expired", "revoked"}
    /\ \A o \in Owner : pids[o].now \in 0..MaxPids /\ pids[o].version \in 0..MaxPids

StricterSeesLess == \A q, r \in Tried : Stricter(q, r) => SeenBy(r) \subseteq SeenBy(q)

Older(o) == {pids[o].old[i] : i \in DOMAIN pids[o].old}

NamesOf(o) == Older(o) \cup ({pids[o].now} \ {0})

\* A revoked consent stays revoked however it is listed, and one that was listed
\* on its last day or before it is not yet expired, after it not active.
ConsentsKept ==
    \A i \in DOMAIN consents : LET c == consents[i] IN
       /\ (c.status = "revoked") = (i \in withdrawn)
       /\ c.status = "expired" => c.until < listed[i]
       /\ c.status = "active" => listed[i] = NotListed \/ listed[i] <= c.until

\* Versions count all pseudonyms of a user, none comes twice and none has two
\* users.
PidsApart ==
    \A o \in Owner :
       /\ pids[o].version = Cardinality(NamesOf(o))
       /\ \A u \in Owner \ {o} : NamesOf(o) \cap NamesOf(u) = {}

\* With that, the page that tries accesses never shows more to who has less to
\* show for it.
PrivacyHolds == ConsentsKept /\ PidsApart /\ StricterSeesLess
=============================================================================
