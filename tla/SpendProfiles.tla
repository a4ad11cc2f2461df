--------------------------- MODULE SpendProfiles ---------------------------
(***************************************************************************)
(* Spend profiles of the backend.  The rows of table transactions are the  *)
(* record; app/services/spend_profile_db.py aggregates them and keeps the  *)
(* results in Redis (app/db/redis.py), and app/services/spend_profile.py   *)
(* keeps a second copy of the transactions in the memory of the process,   *)
(* which the seed routes fill and the start of the process restores        *)
(* (app/api/routes_seed.py, app/main.py).                                  *)
(*                                                                         *)
(* Each request of the event loop runs up to its next await: a statement   *)
(* sees what is committed when it runs, and a call of Redis that fails is  *)
(* swallowed.  A row stands for its transaction: sums, hours and periods   *)
(* are functions of the set of rows that the statement saw.                *)
(***************************************************************************)
EXTENDS Naturals

CONSTANTS User, Tx, Owner,
          Seeded,       \* [User -> the transactions that a seed makes]
          Old,          \* transactions older than the 180 days of a restore
          DemoUser,     \* demo_user_001
          ProfileRequest, ProfileBatches,   \* requests; a behaviour makes those of one batch
          ProfileAsks,         \* [Request -> its kind, its user, and the transactions it brings]
          Shaky,        \* whether the database may fail while the process starts
          MaxOutages,   \* bound: times that Redis is away
          MaxRestarts   \* bound: starts of the process after the first

ASSUME SpendConstants ==
    /\ Owner \in [Tx -> User] /\ Old \subseteq Tx /\ DemoUser \in User
    /\ Seeded \in [User -> SUBSET Tx]
    /\ ProfileAsks \in [ProfileRequest -> [kind : {"ingest", "profile", "trend", "delete", "reset", "seed"},
                             user : User, txs : SUBSET Tx]]
    /\ \A u \in User : \A t \in Seeded[u] : Owner[t] = u
    /\ \A r \in ProfileRequest : \A t \in ProfileAsks[r].txs : Owner[t] = ProfileAsks[r].user
    /\ ProfileBatches \subseteq SUBSET ProfileRequest
    /\ Shaky \in BOOLEAN /\ MaxOutages \in Nat /\ MaxRestarts \in Nat

VARIABLES
    users,      \* table users
    rows,       \* table transactions
    memory,     \* [Tx -> its copies in profile_store, by the zone of their time]
    cache,      \* [User -> [Key -> Value]]: keys profile:{user_id}:{key}
    redisUp,
    server,     \* the lifespan of the process
    stage,      \* [Request -> Stage]
    seen,       \* [Request -> what its statements and calls have returned]
    outages, starts,
    overlapped, \* history: readers during which a commit changed their user's rows
    right,      \* history: cached values whose reader no commit overlapped
    missed      \* history: cached values that a commit has passed by

profileVars == <<users, rows, memory, cache, redisUp, server, stage, seen, outages, starts,
                 overlapped, right, missed>>

Key    == {"summary", "trend"}
Stage  == {"new", "insert", "keys", "del", "tags", "remove", "sums", "hours", "period", "fill",
           "erase", "generate", "done", "failed", "lost"}
Server == {"down", "demo", "seed", "restore", "ready", "up"}

\* The rows behind each part of a cached value, if it is there.
Value   == [there : BOOLEAN, sums : SUBSET Tx, hours : SUBSET Tx, period : SUBSET Tx]
Nothing == [there |-> FALSE, sums |-> {}, hours |-> {}, period |-> {}]
Of(s)   == [there |-> TRUE, sums |-> s, hours |-> s, period |-> s]
Seen    == [known : SUBSET User, value : Value, keys : SUBSET Key]
NothingSeen   == [known |-> {}, value |-> Nothing, keys |-> {}]

RowsOf(u)  == {t \in rows : Owner[t] = u}
KeyOf(r)   == IF ProfileAsks[r].kind = "trend" THEN "trend" ELSE "summary"
Brings(r)  == IF ProfileAsks[r].kind = "seed" THEN Seeded[ProfileAsks[r].user] ELSE ProfileAsks[r].txs
Present(u) == {k \in Key : cache[u][k].there}
-----------------------------------------------------------------------------
ProfileInit ==
    /\ users = {} /\ rows = {}
    /\ memory = [t \in Tx |-> [naive |-> 0, aware |-> 0]]
    /\ cache = [u \in User |-> [k \in Key |-> Nothing]]
    /\ redisUp = TRUE /\ server = "down"
    /\ \E made \in ProfileBatches :
            stage = [r \in ProfileRequest |-> IF r \in made THEN "new" ELSE "failed"]
    /\ seen = [r \in ProfileRequest |-> NothingSeen]
    /\ outages = 0 /\ starts = 0
    /\ overlapped = {} /\ right = {} /\ missed = {}

ProfileAt(r, s)   == server = "up" /\ stage[r] = s
ProfileTo(r, s) == stage' = [stage EXCEPT ![r] = s]
Running    == UNCHANGED <<redisUp, server, outages, starts>>
NoCommit   == UNCHANGED <<users, rows, overlapped>>
CacheKept  == UNCHANGED <<cache, right, missed>>

\* A commit has changed the rows of u.
Overlaps(u) ==
    overlapped' = overlapped \cup
        {r \in ProfileRequest : ProfileAsks[r].user = u /\ stage[r] \in {"sums", "hours", "period", "fill"}}

\* The transactions of a seed enter the memory, with times that have no zone.
Remember(ts) == memory' = [t \in Tx |-> IF t \in ts THEN [memory[t] EXCEPT !.naive = @ + 1] ELSE memory[t]]

Forget(u) == memory' = [t \in Tx |-> IF Owner[t] = u THEN [naive |-> 0, aware |-> 0] ELSE memory[t]]
-----------------------------------------------------------------------------
\* The select of the user with which an ingest begins; an empty batch returns.
BeginIngest(r) ==
    /\ ProfileAt(r, "new") /\ ProfileAsks[r].kind = "ingest"
    /\ \/ Brings(r) = {} /\ ProfileTo(r, "done") /\ UNCHANGED seen
       \/ Brings(r) # {} /\ ProfileTo(r, "insert") /\ seen' = [seen EXCEPT ![r].known = users]
    /\ UNCHANGED memory /\ NoCommit /\ CacheKept /\ Running

Mut_NoInvalidation(r) ==
    /\ ProfileAt(r, "insert")
    /\ users' = users \cup {ProfileAsks[r].user} /\ rows' = rows \cup Brings(r)
    /\ Overlaps(ProfileAsks[r].user) /\ ProfileTo(r, "done")
    /\ UNCHANGED <<memory, seen>> /\ CacheKept /\ Running

\* The missing user, the rows and the commit: a user or a transaction that is
\* there by now breaks a unique index, and nothing of it stays.
Insert(r) ==
    /\ ProfileAt(r, "insert")
    /\ LET u == ProfileAsks[r].user
           clash == Brings(r) \cap rows # {} \/ (u \in users /\ u \notin seen[r].known)
       IN  \/ clash /\ ProfileTo(r, "failed") /\ NoCommit
           \/ /\ ~clash
              /\ users' = users \cup {u} /\ rows' = rows \cup Brings(r)
              /\ Overlaps(u) /\ ProfileTo(r, "keys")
    /\ UNCHANGED <<memory, seen>> /\ CacheKept /\ Running

\* The KEYS of cache_delete_pattern, and its DEL of the keys found: nothing is
\* deleted while Redis is away.
Keys(r) ==
    /\ ProfileAt(r, "keys")
    /\ \/ /\ redisUp
          /\ seen' = [seen EXCEPT ![r].keys = Present(ProfileAsks[r].user)] /\ UNCHANGED missed
       \/ /\ ~redisUp
          /\ missed' = missed \cup ({ProfileAsks[r].user} \X Key)
          /\ seen' = [seen EXCEPT ![r].keys = {}]
    /\ ProfileTo(r, "del")
    /\ UNCHANGED <<memory, cache, right>> /\ NoCommit /\ Running

Del(r) ==
    /\ ProfileAt(r, "del")
    /\ LET u == ProfileAsks[r].user  gone == seen[r].keys IN
       \/ /\ redisUp
          /\ cache' = [cache EXCEPT ![u] = [k \in Key |-> IF k \in gone THEN Nothing ELSE @[k]]]
          /\ missed' = missed \ ({u} \X gone) /\ right' = right \ ({u} \X gone)
       \/ /\ ~redisUp
          /\ missed' = missed \cup ({u} \X gone) /\ UNCHANGED <<cache, right>>
    /\ ProfileTo(r, IF ProfileAsks[r].kind = "seed" THEN "tags" ELSE "done")
    /\ UNCHANGED <<memory, seen>> /\ NoCommit /\ Running

\* The emotion tags of a seed: they refer to its rows.
Tags(r) ==
    /\ ProfileAt(r, "tags")
    /\ ProfileTo(r, IF Brings(r) \subseteq rows THEN "done" ELSE "failed")
    /\ UNCHANGED <<memory, seen>> /\ NoCommit /\ CacheKept /\ Running
-----------------------------------------------------------------------------
\* cache_get of get_profile and get_trend
Look(r) ==
    /\ ProfileAt(r, "new") /\ ProfileAsks[r].kind \in {"profile", "trend"}
    /\ ProfileTo(r, IF redisUp /\ cache[ProfileAsks[r].user][KeyOf(r)].there THEN "done" ELSE "sums")
    /\ UNCHANGED <<memory, seen>> /\ NoCommit /\ CacheKept /\ Running

\* The first statement: the sums of the categories, or every row for the trend.
Sums(r) ==
    /\ ProfileAt(r, "sums")
    /\ LET s == RowsOf(ProfileAsks[r].user) IN
       \/ s = {} /\ ProfileTo(r, "done") /\ UNCHANGED seen
       \/ /\ s # {} /\ seen' = [seen EXCEPT ![r].value = Of(s)]
          /\ ProfileTo(r, IF ProfileAsks[r].kind = "trend" THEN "fill" ELSE "hours")
    /\ UNCHANGED memory /\ NoCommit /\ CacheKept /\ Running

Hours(r) ==
    /\ ProfileAt(r, "hours") /\ ProfileTo(r, "period")
    /\ seen' = [seen EXCEPT ![r].value.hours = RowsOf(ProfileAsks[r].user)]
    /\ UNCHANGED memory /\ NoCommit /\ CacheKept /\ Running

Period(r) ==
    /\ ProfileAt(r, "period") /\ ProfileTo(r, "fill")
    /\ seen' = [seen EXCEPT ![r].value.period = RowsOf(ProfileAsks[r].user)]
    /\ UNCHANGED memory /\ NoCommit /\ CacheKept /\ Running

\* cache_set
Fill(r) ==
    /\ ProfileAt(r, "fill") /\ ProfileTo(r, "done")
    /\ LET u == ProfileAsks[r].user  entry == <<u, KeyOf(r)>> IN
       \/ /\ redisUp
          /\ cache' = [cache EXCEPT ![u][KeyOf(r)] = seen[r].value]
          /\ right' = IF r \in overlapped THEN right \ {entry} ELSE right \cup {entry}
          /\ missed' = missed \ {entry}
       \/ ~redisUp /\ CacheKept
    /\ UNCHANGED <<memory, seen>> /\ NoCommit /\ Running
-----------------------------------------------------------------------------
\* delete_user_data: a select, and the deletion with its commit.
BeginDelete(r) ==
    /\ ProfileAt(r, "new") /\ ProfileAsks[r].kind = "delete"
    /\ ProfileTo(r, IF RowsOf(ProfileAsks[r].user) = {} THEN "done" ELSE "remove")
    /\ UNCHANGED <<memory, seen>> /\ NoCommit /\ CacheKept /\ Running

RemoveRows(r) ==
    /\ ProfileAt(r, "remove") /\ ProfileTo(r, "keys")
    /\ rows' = rows \ RowsOf(ProfileAsks[r].user) /\ Overlaps(ProfileAsks[r].user)
    /\ UNCHANGED <<users, memory, seen>> /\ CacheKept /\ Running

\* reset_user and seed_demo_data forget the user's memory, and then delete the
\* rows; neither deletes a key.
BeginErase(r) ==
    /\ ProfileAt(r, "new") /\ ProfileAsks[r].kind \in {"reset", "seed"}
    /\ Forget(ProfileAsks[r].user) /\ ProfileTo(r, "erase")
    /\ UNCHANGED seen /\ NoCommit /\ CacheKept /\ Running

Erase(r) ==
    /\ ProfileAt(r, "erase") /\ ProfileTo(r, IF ProfileAsks[r].kind = "seed" THEN "generate" ELSE "done")
    /\ rows' = rows \ RowsOf(ProfileAsks[r].user) /\ Overlaps(ProfileAsks[r].user)
    /\ missed' = missed \cup ({ProfileAsks[r].user} \X Key)
    /\ UNCHANGED <<users, memory, seen, cache, right>> /\ Running

\* seed_user_data: the memory first, and then ingest_batch.
Generate(r) ==
    /\ ProfileAt(r, "generate") /\ ProfileTo(r, "insert")
    /\ Remember(Brings(r)) /\ seen' = [seen EXCEPT ![r].known = users]
    /\ NoCommit /\ CacheKept /\ Running
-----------------------------------------------------------------------------
Starting(s, t) ==
    /\ server = s /\ server' = t
    /\ UNCHANGED <<redisUp, stage, seen, outages, overlapped>>

Start == /\ Starting("down", "demo") /\ starts' = starts + 1
         /\ UNCHANGED <<users, rows, memory>> /\ CacheKept

\* _ensure_demo_account: an account and its seed, where there are no users.
DemoAccount ==
    /\ UNCHANGED <<rows, memory, starts>> /\ CacheKept
    /\ \/ users # {} /\ Starting("demo", "restore") /\ UNCHANGED users
       \/ users = {} /\ Starting("demo", "seed") /\ users' = {DemoUser}
       \/ Shaky /\ Starting("demo", "restore") /\ UNCHANGED users

DemoSeed ==
    /\ Starting("seed", "restore")
    /\ Remember(Seeded[DemoUser])
    /\ \/ /\ rows' = rows \cup Seeded[DemoUser]
          /\ \/ /\ redisUp /\ cache' = [cache EXCEPT ![DemoUser] = [k \in Key |-> Nothing]]
                /\ missed' = missed \ ({DemoUser} \X Key) /\ right' = right \ ({DemoUser} \X Key)
             \/ /\ ~redisUp /\ missed' = missed \cup ({DemoUser} \X Key)
                /\ UNCHANGED <<cache, right>>
       \/ Shaky /\ UNCHANGED rows /\ CacheKept
    /\ UNCHANGED <<users, starts>>

\* rehydrate_from_db adds a copy of every recent row, whose time has a zone.
Restore ==
    /\ Starting("restore", "ready")
    /\ \/ memory' = [t \in Tx |-> IF t \in rows \ Old THEN [memory[t] EXCEPT !.aware = @ + 1]
                                                      ELSE memory[t]]
       \/ Shaky /\ UNCHANGED memory
    /\ UNCHANGED <<users, rows, starts>> /\ CacheKept

Serve == /\ Starting("ready", "up")
         /\ UNCHANGED <<users, rows, memory, starts>> /\ CacheKept

\* The process ends, with its memory and its requests; deletions it owed are missed.
Restart ==
    /\ server # "down" /\ starts <= MaxRestarts
    /\ server' = "down"
    /\ memory' = [t \in Tx |-> [naive |-> 0, aware |-> 0]]
    /\ missed' = missed \cup UNION {{ProfileAsks[r].user} \X Key : r \in {q \in ProfileRequest : stage[q] \in {"keys", "del"}}}
    /\ stage' = [r \in ProfileRequest |-> IF stage[r] \in {"new", "done", "failed"} THEN stage[r] ELSE "lost"]
    /\ UNCHANGED <<users, rows, cache, redisUp, seen, outages, starts, overlapped, right>>
-----------------------------------------------------------------------------
\* Redis is away, or back with what it held; a key's time is up.
Outage ==
    /\ redisUp' = ~redisUp
    /\ outages' = IF redisUp THEN outages + 1 ELSE outages
    /\ outages' <= MaxOutages
    /\ UNCHANGED <<users, rows, memory, cache, server, stage, seen, starts, overlapped, right, missed>>

KeyExpires(u, k) ==
    /\ cache[u][k].there
    /\ cache' = [cache EXCEPT ![u][k] = Nothing]
    /\ right' = right \ {<<u, k>>} /\ missed' = missed \ {<<u, k>>}
    /\ UNCHANGED <<users, rows, memory, redisUp, server, stage, seen, outages, starts, overlapped>>

ProfileNext ==
    \/ \E r \in ProfileRequest :
        \/ BeginIngest(r) \/ Insert(r) \/ Keys(r) \/ Del(r) \/ Tags(r)
        \/ Look(r) \/ Sums(r) \/ Hours(r) \/ Period(r) \/ Fill(r)
        \/ BeginDelete(r) \/ RemoveRows(r) \/ BeginErase(r) \/ Erase(r) \/ Generate(r)
    \/ Start \/ DemoAccount \/ DemoSeed \/ Restore \/ Serve \/ Restart \/ Outage
    \/ \E u \in User, k \in Key : KeyExpires(u, k)

ProfileSpec == ProfileInit /\ [][ProfileNext]_profileVars
-----------------------------------------------------------------------------
ProfileTypeOK ==
    /\ users \subseteq User /\ rows \subseteq Tx
    /\ memory \in [Tx -> [naive : Nat, aware : Nat]]
    /\ cache \in [User -> [Key -> Value]]
    /\ redisUp \in BOOLEAN /\ server \in Server
    /\ stage \in [ProfileRequest -> Stage] /\ seen \in [ProfileRequest -> Seen]
    /\ outages \in 0..MaxOutages /\ starts \in 0..(MaxRestarts + 1)
    /\ overlapped \subseteq ProfileRequest
    /\ right \subseteq User \X Key /\ missed \subseteq User \X Key

\* Some request has committed and is about to delete the keys of u.
Pending(u) == \E r \in ProfileRequest : ProfileAsks[r].user = u /\ stage[r] \in {"keys", "del"}

\* A cached profile or trend whose reader no commit overlapped differs from the
\* rows only while the request that changed them has yet to delete it, or once
\* its deletion was lost: to a Redis that was away, to a restart, or to a reset,
\* which makes none (_invalidate_cache and its callers).
StaleOnlyIfMissed ==
    \A u \in User, k \in Key :
        (cache[u][k].there /\ <<u, k>> \in right /\ cache[u][k] # Of(RowsOf(u)))
            => (<<u, k>> \in missed \/ Pending(u))

=============================================================================
