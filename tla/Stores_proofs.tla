---------------------------- MODULE Stores_proofs -----------------------------
(***************************************************************************)
(* Proofs of what module MCStores checks of the stores of the backend on a *)
(* few values, for every value of their constants: the spend profiles and  *)
(* their cache, the notifications, the education programme and the         *)
(* training of the models; and of what module MCUsers checks of that       *)
(* programme, what it teaches and how its challenges are measured.         *)
(***************************************************************************)
EXTENDS SpendProfiles, Notifications, Education, Training, Lessons, Sums,
        FiniteSetTheorems, TLAPS

(***************************************************************************)
(* The spend profiles, for any requests and transactions                   *)
(***************************************************************************)

\* The process has been started at most once more than it was restarted.
ProfileTypes == ProfileTypeOK /\ (server = "down" => starts <= MaxRestarts)

LEMMA ProfileMoves ==
    ASSUME stage \in [ProfileRequest -> Stage], NEW r \in ProfileRequest, NEW s \in Stage, ProfileTo(r, s)
    PROVE  /\ stage' \in [ProfileRequest -> Stage] /\ stage'[r] = s
           /\ \A q \in ProfileRequest \ {r} : stage'[q] = stage[q]
BY DEF ProfileTo

LEMMA ValueOf == \A s \in SUBSET Tx : Of(s) \in Value
BY DEF Of, Value

LEMMA NothingIsValue == Nothing \in Value /\ ~Nothing.there /\ NothingSeen \in Seen
BY DEF Nothing, Value, NothingSeen, Seen

\* A request reads one thing after the other, and keeps the rest.
LEMMA SeenUsers ==
    ASSUME NEW old \in [ProfileRequest -> Seen], NEW r \in ProfileRequest, NEW us \in SUBSET User
    PROVE  [old EXCEPT ![r].known = us] \in [ProfileRequest -> Seen]
<1> DEFINE e == [old[r] EXCEPT !.known = us]
<1>1. e \in Seen BY DEF Seen
<1> HIDE DEF e
<1>2. [old EXCEPT ![r] = e] \in [ProfileRequest -> Seen] BY <1>1
<1> QED BY <1>2 DEF e

LEMMA SeenKeys ==
    ASSUME NEW old \in [ProfileRequest -> Seen], NEW r \in ProfileRequest, NEW ks \in SUBSET Key
    PROVE  /\ [old EXCEPT ![r].keys = ks] \in [ProfileRequest -> Seen]
           /\ [old EXCEPT ![r].keys = ks][r].keys = ks
           /\ \A q \in ProfileRequest \ {r} : [old EXCEPT ![r].keys = ks][q] = old[q]
<1> DEFINE e == [old[r] EXCEPT !.keys = ks]
<1>1. e \in Seen /\ e.keys = ks BY DEF Seen
<1> HIDE DEF e
<1>2. /\ [old EXCEPT ![r] = e] \in [ProfileRequest -> Seen] /\ [old EXCEPT ![r] = e][r].keys = ks
      /\ \A q \in ProfileRequest \ {r} : [old EXCEPT ![r] = e][q] = old[q]
  BY <1>1
<1> QED BY <1>2 DEF e

LEMMA SeenValue ==
    ASSUME NEW old \in [ProfileRequest -> Seen], NEW r \in ProfileRequest, NEW v \in Value
    PROVE  /\ [old EXCEPT ![r].value = v] \in [ProfileRequest -> Seen]
           /\ [old EXCEPT ![r].value = v][r].value = v
           /\ \A q \in ProfileRequest \ {r} : [old EXCEPT ![r].value = v][q] = old[q]
<1> DEFINE e == [old[r] EXCEPT !.value = v]
<1>1. e \in Seen /\ e.value = v BY DEF Seen
<1> HIDE DEF e
<1>2. /\ [old EXCEPT ![r] = e] \in [ProfileRequest -> Seen] /\ [old EXCEPT ![r] = e][r].value = v
      /\ \A q \in ProfileRequest \ {r} : [old EXCEPT ![r] = e][q] = old[q]
  BY <1>1
<1> QED BY <1>2 DEF e

LEMMA SeenPart ==
    ASSUME NEW old \in [ProfileRequest -> Seen], NEW r \in ProfileRequest, NEW ts \in SUBSET Tx
    PROVE  LET hours  == [old EXCEPT ![r].value.hours = ts]
               period == [old EXCEPT ![r].value.period = ts]
           IN  /\ hours \in [ProfileRequest -> Seen] /\ period \in [ProfileRequest -> Seen]
               /\ hours[r].value = [old[r].value EXCEPT !.hours = ts]
               /\ period[r].value = [old[r].value EXCEPT !.period = ts]
               /\ \A q \in ProfileRequest \ {r} : hours[q] = old[q] /\ period[q] = old[q]
<1> DEFINE v == [old[r].value EXCEPT !.hours = ts]
           w == [old[r].value EXCEPT !.period = ts]
<1>1. v \in Value /\ w \in Value BY DEF Seen, Value
<1> HIDE DEF v, w
<1>2. /\ [old EXCEPT ![r].value = v] \in [ProfileRequest -> Seen]
      /\ [old EXCEPT ![r].value = v][r].value = v
      /\ \A q \in ProfileRequest \ {r} : [old EXCEPT ![r].value = v][q] = old[q]
  BY <1>1, SeenValue
<1>3. /\ [old EXCEPT ![r].value = w] \in [ProfileRequest -> Seen]
      /\ [old EXCEPT ![r].value = w][r].value = w
      /\ \A q \in ProfileRequest \ {r} : [old EXCEPT ![r].value = w][q] = old[q]
  BY <1>1, SeenValue
<1> QED BY <1>2, <1>3 DEF v, w

\* A copy more of a transaction.
LEMMA Copies ==
    ASSUME NEW m \in [naive : Nat, aware : Nat]
    PROVE  /\ [m EXCEPT !.naive = @ + 1] \in [naive : Nat, aware : Nat]
           /\ [m EXCEPT !.aware = @ + 1] \in [naive : Nat, aware : Nat]
OBVIOUS

\* One entry of the cache, and all of a user's.
LEMMA CacheParts ==
    ASSUME NEW old \in [User -> [Key -> Value]], NEW u \in User, NEW k \in Key, NEW v \in Value,
           NEW line \in [Key -> Value]
    PROVE  /\ [old EXCEPT ![u][k] = v] \in [User -> [Key -> Value]]
           /\ [old EXCEPT ![u][k] = v][u][k] = v
           /\ \A w \in User, j \in Key : (w # u \/ j # k) => [old EXCEPT ![u][k] = v][w][j] = old[w][j]
           /\ [old EXCEPT ![u] = line] \in [User -> [Key -> Value]]
           /\ [old EXCEPT ![u] = line][u] = line
           /\ \A w \in User \ {u} : [old EXCEPT ![u] = line][w] = old[w]
<1> DEFINE e == [old[u] EXCEPT ![k] = v]
<1>1. e \in [Key -> Value] /\ e[k] = v /\ \A j \in Key \ {k} : e[j] = old[u][j] OBVIOUS
<1> HIDE DEF e
<1>2. /\ [old EXCEPT ![u] = e] \in [User -> [Key -> Value]]
      /\ [old EXCEPT ![u] = e][u] = e /\ \A w \in User \ {u} : [old EXCEPT ![u] = e][w] = old[w]
  BY <1>1
<1>3. /\ [old EXCEPT ![u] = e][u][k] = v
      /\ \A w \in User, j \in Key : (w # u \/ j # k) => [old EXCEPT ![u] = e][w][j] = old[w][j]
  BY <1>1, <1>2
<1> QED BY <1>2, <1>3 DEF e

LEMMA ProfileTyped == ProfileTypes /\ [ProfileNext]_profileVars => ProfileTypes'
<1> SUFFICES ASSUME ProfileTypes, [ProfileNext]_profileVars PROVE ProfileTypes' OBVIOUS
<1> USE SpendConstants
<1>t. ProfileTypeOK BY DEF ProfileTypes
<1>s. /\ stage \in [ProfileRequest -> Stage] /\ seen \in [ProfileRequest -> Seen]
      /\ memory \in [Tx -> [naive : Nat, aware : Nat]] /\ cache \in [User -> [Key -> Value]]
      /\ users \in SUBSET User /\ rows \in SUBSET Tx
  BY DEF ProfileTypes, ProfileTypeOK
<1>r. ASSUME NEW r \in ProfileRequest
      PROVE  /\ ProfileAsks[r].user \in User /\ KeyOf(r) \in Key /\ Brings(r) \in SUBSET Tx
             /\ RowsOf(ProfileAsks[r].user) \in SUBSET Tx /\ Present(ProfileAsks[r].user) \in SUBSET Key
  BY <1>s DEF KeyOf, Key, Brings, RowsOf, Present
<1>v. ASSUME NEW r \in ProfileRequest PROVE seen[r].value \in Value /\ seen[r].keys \in SUBSET Key
  BY <1>s DEF Seen
<1> USE DEF Running, NoCommit, CacheKept, ProfileAt
<1>o. ASSUME NEW u, Overlaps(u) PROVE overlapped' \subseteq ProfileRequest
  BY <1>t, <1>o DEF Overlaps, ProfileTypeOK
<1>m. ASSUME NEW ts \in SUBSET Tx, Remember(ts) PROVE memory' \in [Tx -> [naive : Nat, aware : Nat]]
  <2>1. ASSUME NEW t \in Tx PROVE [memory[t] EXCEPT !.naive = @ + 1] \in [naive : Nat, aware : Nat]
    BY <1>s, Copies
  <2> QED BY <1>s, <1>m, <2>1 DEF Remember
<1>f. ASSUME NEW u, Forget(u) PROVE memory' \in [Tx -> [naive : Nat, aware : Nat]]
  BY <1>s, <1>f DEF Forget
\* Every stage but one of a request leaves the starts alone.
<1>1. ASSUME NEW r \in ProfileRequest, BeginIngest(r) PROVE ProfileTypes'
  <2>1. stage' \in [ProfileRequest -> Stage] BY <1>1, <1>s, ProfileMoves DEF BeginIngest, Stage
  <2>2. seen' \in [ProfileRequest -> Seen]
    <3>1. [seen EXCEPT ![r].known = users] \in [ProfileRequest -> Seen] BY <1>s, SeenUsers
    <3> QED BY <1>1, <1>s, <3>1 DEF BeginIngest
  <2> QED BY <1>1, <1>t, <2>1, <2>2 DEF BeginIngest, ProfileTypeOK, ProfileTypes
<1>2. ASSUME NEW r \in ProfileRequest, Insert(r) PROVE ProfileTypes'
  <2>1. stage' \in [ProfileRequest -> Stage] BY <1>2, <1>s, ProfileMoves DEF Insert, Stage
  <2>2. /\ users' \subseteq User /\ rows' \subseteq Tx /\ overlapped' \subseteq ProfileRequest
    BY <1>2, <1>t, <1>r, <1>o DEF Insert, ProfileTypeOK
  <2> QED BY <1>2, <1>t, <2>1, <2>2 DEF Insert, ProfileTypeOK, ProfileTypes
<1>3. ASSUME NEW r \in ProfileRequest, Keys(r) PROVE ProfileTypes'
  <2>1. stage' \in [ProfileRequest -> Stage] BY <1>3, <1>s, ProfileMoves DEF Keys, Stage
  <2>2. seen' \in [ProfileRequest -> Seen]
    <3>1. /\ [seen EXCEPT ![r].keys = {}] \in [ProfileRequest -> Seen]
          /\ [seen EXCEPT ![r].keys = Present(ProfileAsks[r].user)] \in [ProfileRequest -> Seen]
      <4> DEFINE ks == Present(ProfileAsks[r].user)
      <4>1. ks \in SUBSET Key /\ {} \in SUBSET Key BY <1>r
      <4> HIDE DEF ks
      <4>2. [seen EXCEPT ![r].keys = ks] \in [ProfileRequest -> Seen] BY <1>s, <4>1, SeenKeys
      <4>3. [seen EXCEPT ![r].keys = {}] \in [ProfileRequest -> Seen] BY <1>s, <4>1, SeenKeys
      <4> QED BY <4>2, <4>3 DEF ks
    <3> QED BY <1>3, <3>1 DEF Keys
  <2>3. missed' \subseteq User \X Key BY <1>3, <1>t, <1>r DEF Keys, ProfileTypeOK
  <2> QED BY <1>3, <1>t, <2>1, <2>2, <2>3 DEF Keys, ProfileTypeOK, ProfileTypes
<1>4. ASSUME NEW r \in ProfileRequest, Del(r) PROVE ProfileTypes'
  <2>1. stage' \in [ProfileRequest -> Stage] BY <1>4, <1>s, ProfileMoves DEF Del, Stage
  <2> DEFINE u == ProfileAsks[r].user
             line == [k \in Key |-> IF k \in seen[r].keys THEN Nothing ELSE cache[u][k]]
  <2>2. cache' \in [User -> [Key -> Value]]
    <3>1. line \in [Key -> Value] BY <1>s, <1>r, NothingIsValue
    <3>2. cache' = [cache EXCEPT ![u] = line] \/ cache' = cache BY <1>4 DEF Del
    <3> HIDE DEF line
    <3> QED BY <1>s, <1>r, <3>1, <3>2
  <2>3. missed' \subseteq User \X Key /\ right' \subseteq User \X Key
    BY <1>4, <1>t, <1>r, <1>v DEF Del, ProfileTypeOK
  <2> QED BY <1>4, <1>t, <2>1, <2>2, <2>3 DEF Del, ProfileTypeOK, ProfileTypes
<1>5. ASSUME NEW r \in ProfileRequest, Tags(r) PROVE ProfileTypes'
  <2>1. stage' \in [ProfileRequest -> Stage] BY <1>5, <1>s, ProfileMoves DEF Tags, Stage
  <2> QED BY <1>5, <1>t, <2>1 DEF Tags, ProfileTypeOK, ProfileTypes
<1>6. ASSUME NEW r \in ProfileRequest, Look(r) PROVE ProfileTypes'
  <2>1. stage' \in [ProfileRequest -> Stage] BY <1>6, <1>s, ProfileMoves DEF Look, Stage
  <2> QED BY <1>6, <1>t, <2>1 DEF Look, ProfileTypeOK, ProfileTypes
<1>7. ASSUME NEW r \in ProfileRequest, Sums(r) PROVE ProfileTypes'
  <2>1. stage' \in [ProfileRequest -> Stage] BY <1>7, <1>s, ProfileMoves DEF Sums, Stage
  <2>2. seen' \in [ProfileRequest -> Seen]
    <3>1. [seen EXCEPT ![r].value = Of(RowsOf(ProfileAsks[r].user))] \in [ProfileRequest -> Seen]
      <4> DEFINE v == Of(RowsOf(ProfileAsks[r].user))
      <4>1. v \in Value BY <1>r, ValueOf
      <4> HIDE DEF v
      <4>2. [seen EXCEPT ![r].value = v] \in [ProfileRequest -> Seen] BY <1>s, <4>1, SeenValue
      <4> QED BY <4>2 DEF v
    <3> QED BY <1>7, <1>s, <3>1 DEF Sums
  <2> QED BY <1>7, <1>t, <2>1, <2>2 DEF Sums, ProfileTypeOK, ProfileTypes
<1>8. ASSUME NEW r \in ProfileRequest, Hours(r) PROVE ProfileTypes'
  <2>1. stage' \in [ProfileRequest -> Stage] BY <1>8, <1>s, ProfileMoves DEF Hours, Stage
  <2>2. seen' \in [ProfileRequest -> Seen]
    <3>1. [seen EXCEPT ![r].value.hours = RowsOf(ProfileAsks[r].user)] \in [ProfileRequest -> Seen]
      <4> DEFINE ts == RowsOf(ProfileAsks[r].user)
      <4>1. ts \in SUBSET Tx BY <1>r
      <4> HIDE DEF ts
      <4>2. [seen EXCEPT ![r].value.hours = ts] \in [ProfileRequest -> Seen] BY <1>s, <4>1, SeenPart
      <4> QED BY <4>2 DEF ts
    <3> QED BY <1>8, <3>1 DEF Hours
  <2> QED BY <1>8, <1>t, <2>1, <2>2 DEF Hours, ProfileTypeOK, ProfileTypes
<1>9. ASSUME NEW r \in ProfileRequest, Period(r) PROVE ProfileTypes'
  <2>1. stage' \in [ProfileRequest -> Stage] BY <1>9, <1>s, ProfileMoves DEF Period, Stage
  <2>2. seen' \in [ProfileRequest -> Seen]
    <3>1. [seen EXCEPT ![r].value.period = RowsOf(ProfileAsks[r].user)] \in [ProfileRequest -> Seen]
      <4> DEFINE ts == RowsOf(ProfileAsks[r].user)
      <4>1. ts \in SUBSET Tx BY <1>r
      <4> HIDE DEF ts
      <4>2. [seen EXCEPT ![r].value.period = ts] \in [ProfileRequest -> Seen] BY <1>s, <4>1, SeenPart
      <4> QED BY <4>2 DEF ts
    <3> QED BY <1>9, <3>1 DEF Period
  <2> QED BY <1>9, <1>t, <2>1, <2>2 DEF Period, ProfileTypeOK, ProfileTypes
<1>10. ASSUME NEW r \in ProfileRequest, Fill(r) PROVE ProfileTypes'
  <2>1. stage' \in [ProfileRequest -> Stage] BY <1>10, <1>s, ProfileMoves DEF Fill, Stage
  <2>2. cache' \in [User -> [Key -> Value]]
    <3>1. [cache EXCEPT ![ProfileAsks[r].user][KeyOf(r)] = seen[r].value] \in [User -> [Key -> Value]]
      BY <1>s, <1>r, <1>v, CacheParts
    <3> QED BY <1>10, <1>s, <3>1 DEF Fill
  <2>3. missed' \subseteq User \X Key /\ right' \subseteq User \X Key
    BY <1>10, <1>t, <1>r DEF Fill, ProfileTypeOK
  <2> QED BY <1>10, <1>t, <2>1, <2>2, <2>3 DEF Fill, ProfileTypeOK, ProfileTypes
<1>11. ASSUME NEW r \in ProfileRequest, BeginDelete(r) PROVE ProfileTypes'
  <2>1. stage' \in [ProfileRequest -> Stage] BY <1>11, <1>s, ProfileMoves DEF BeginDelete, Stage
  <2> QED BY <1>11, <1>t, <2>1 DEF BeginDelete, ProfileTypeOK, ProfileTypes
<1>12. ASSUME NEW r \in ProfileRequest, RemoveRows(r) PROVE ProfileTypes'
  <2>1. stage' \in [ProfileRequest -> Stage] BY <1>12, <1>s, ProfileMoves DEF RemoveRows, Stage
  <2>2. rows' \subseteq Tx /\ overlapped' \subseteq ProfileRequest BY <1>12, <1>s, <1>o DEF RemoveRows
  <2> QED BY <1>12, <1>t, <2>1, <2>2 DEF RemoveRows, ProfileTypeOK, ProfileTypes
<1>13. ASSUME NEW r \in ProfileRequest, BeginErase(r) PROVE ProfileTypes'
  <2>1. stage' \in [ProfileRequest -> Stage] BY <1>13, <1>s, ProfileMoves DEF BeginErase, Stage
  <2>2. memory' \in [Tx -> [naive : Nat, aware : Nat]] BY <1>13, <1>f DEF BeginErase
  <2> QED BY <1>13, <1>t, <2>1, <2>2 DEF BeginErase, ProfileTypeOK, ProfileTypes
<1>14. ASSUME NEW r \in ProfileRequest, Erase(r) PROVE ProfileTypes'
  <2>1. stage' \in [ProfileRequest -> Stage] BY <1>14, <1>s, ProfileMoves DEF Erase, Stage
  <2>2. rows' \subseteq Tx /\ overlapped' \subseteq ProfileRequest BY <1>14, <1>s, <1>o DEF Erase
  <2>3. missed' \subseteq User \X Key BY <1>14, <1>t, <1>r DEF Erase, ProfileTypeOK
  <2> QED BY <1>14, <1>t, <2>1, <2>2, <2>3 DEF Erase, ProfileTypeOK, ProfileTypes
<1>15. ASSUME NEW r \in ProfileRequest, Generate(r) PROVE ProfileTypes'
  <2>1. stage' \in [ProfileRequest -> Stage] BY <1>15, <1>s, ProfileMoves DEF Generate, Stage
  <2>2. memory' \in [Tx -> [naive : Nat, aware : Nat]] BY <1>15, <1>m, <1>r DEF Generate
  <2>3. seen' \in [ProfileRequest -> Seen] BY <1>15, <1>s, SeenUsers DEF Generate
  <2> QED BY <1>15, <1>t, <2>1, <2>2, <2>3 DEF Generate, ProfileTypeOK, ProfileTypes
<1>16. CASE Start
  <2>1. starts' \in 0..(MaxRestarts + 1) /\ server' = "demo"
    BY <1>16, <1>t DEF Start, Starting, ProfileTypes, ProfileTypeOK
  <2> QED BY <1>16, <1>t, <2>1 DEF Start, Starting, ProfileTypes, ProfileTypeOK, Server
<1>17. CASE DemoAccount
  <2>1. server' \in {"restore", "seed"} /\ users' \subseteq User
    BY <1>17, <1>s DEF DemoAccount, Starting
  <2> QED BY <1>17, <1>t, <2>1 DEF DemoAccount, Starting, ProfileTypes, ProfileTypeOK, Server
<1>18. CASE DemoSeed
  <2>1. memory' \in [Tx -> [naive : Nat, aware : Nat]] BY <1>18, <1>m DEF DemoSeed
  <2>2. rows' \subseteq Tx BY <1>18, <1>s DEF DemoSeed
  <2> DEFINE line == [k \in Key |-> Nothing]
  <2>3. cache' \in [User -> [Key -> Value]]
    <3>1. line \in [Key -> Value] BY NothingIsValue
    <3>2. cache' = [cache EXCEPT ![DemoUser] = line] \/ cache' = cache BY <1>18 DEF DemoSeed
    <3> HIDE DEF line
    <3> QED BY <1>s, <3>1, <3>2
  <2>4. missed' \subseteq User \X Key /\ right' \subseteq User \X Key
    BY <1>18, <1>t DEF DemoSeed, ProfileTypeOK
  <2> QED BY <1>18, <1>t, <2>1, <2>2, <2>3, <2>4 DEF DemoSeed, Starting, ProfileTypes, ProfileTypeOK, Server
<1>19. CASE Restore
  <2>1. memory' \in [Tx -> [naive : Nat, aware : Nat]]
    <3>1. ASSUME NEW t \in Tx PROVE [memory[t] EXCEPT !.aware = @ + 1] \in [naive : Nat, aware : Nat]
      BY <1>s, Copies
    <3> DEFINE T == [naive : Nat, aware : Nat]
    <3>2. \A t \in Tx : [memory[t] EXCEPT !.aware = @ + 1] \in T /\ memory[t] \in T BY <1>s, <3>1
    <3> HIDE DEF T
    <3>3. memory \in [Tx -> T] BY <1>s DEF T
    <3>4. memory' \in [Tx -> T] BY <1>19, <3>2, <3>3 DEF Restore
    <3> QED BY <3>4 DEF T
  <2> QED BY <1>19, <1>t, <2>1 DEF Restore, Starting, ProfileTypes, ProfileTypeOK, Server
<1>20. CASE Serve
  BY <1>20, <1>t DEF Serve, Starting, ProfileTypes, ProfileTypeOK, Server
<1>21. CASE Restart
  <2>1. memory' \in [Tx -> [naive : Nat, aware : Nat]] BY <1>21 DEF Restart
  <2>2. stage' \in [ProfileRequest -> Stage] BY <1>21, <1>s DEF Restart, Stage
  <2>3. missed' \subseteq User \X Key BY <1>21, <1>t, <1>r DEF Restart, ProfileTypeOK
  <2> QED BY <1>21, <1>t, <2>1, <2>2, <2>3 DEF Restart, ProfileTypes, ProfileTypeOK, Server
<1>22. CASE Outage
  <2>1. redisUp' \in BOOLEAN /\ outages' \in 0..MaxOutages BY <1>22, <1>t DEF Outage, ProfileTypeOK
  <2> QED BY <1>22, <1>t, <2>1 DEF Outage, ProfileTypes, ProfileTypeOK
<1>23. ASSUME NEW u \in User, NEW k \in Key, KeyExpires(u, k) PROVE ProfileTypes'
  <2>1. cache' \in [User -> [Key -> Value]]
    <3>1. [cache EXCEPT ![u][k] = Nothing] \in [User -> [Key -> Value]]
      BY <1>s, NothingIsValue, CacheParts
    <3> QED BY <1>23, <3>1 DEF KeyExpires
  <2> QED BY <1>23, <1>t, <2>1 DEF KeyExpires, ProfileTypes, ProfileTypeOK
<1>24. CASE UNCHANGED profileVars BY <1>24, <1>t DEF profileVars, ProfileTypes, ProfileTypeOK
<1> QED BY <1>1, <1>2, <1>3, <1>4, <1>5, <1>6, <1>7, <1>8, <1>9, <1>10, <1>11, <1>12, <1>13, <1>14,
           <1>15, <1>16, <1>17, <1>18, <1>19, <1>20, <1>21, <1>22, <1>23, <1>24 DEF ProfileNext

\* Every variable keeps its type.
THEOREM ProfileTypeCorrect == ProfileSpec => []ProfileTypeOK
<1>1. ProfileInit => ProfileTypes
  BY SpendConstants, NothingIsValue DEF ProfileInit, ProfileTypes, ProfileTypeOK, Server, Stage
<1>2. ProfileTypes => ProfileTypeOK BY DEF ProfileTypes
<1> QED BY <1>1, <1>2, ProfileTyped, PTL DEF ProfileSpec
-----------------------------------------------------------------------------
(***************************************************************************)
(* Cached profiles                                                         *)
(***************************************************************************)
Ends == {"new", "done", "failed", "lost"}

\* Requests are on their way only while the process is up.
OnlyUp == server # "up" => \A r \in ProfileRequest : stage[r] \in Ends

\* What a reader that no commit has overlapped has seen is what there is.
ReadersRight ==
    \A r \in ProfileRequest :
        stage[r] \in {"hours", "period", "fill"} /\ r \notin overlapped =>
            seen[r].value = Of(RowsOf(ProfileAsks[r].user))

\* Some request is about to look for the keys of u, or has found k among them.
Owed(u, k) == \E r \in ProfileRequest :
    ProfileAsks[r].user = u /\ (stage[r] = "keys" \/ (stage[r] = "del" /\ k \in seen[r].keys))

Stale(u, k) == cache[u][k].there /\ <<u, k>> \in right /\ cache[u][k] # Of(RowsOf(u))

StaleIsOwed == \A u \in User, k \in Key : Stale(u, k) => <<u, k>> \in missed \/ Owed(u, k)

CacheInv == OnlyUp /\ ReadersRight /\ StaleIsOwed

\* A step of one request that commits nothing and leaves the cache alone.
LEMMA Quiet ==
    ASSUME CacheInv, NEW r \in ProfileRequest, server = "up", server' = server,
           NoCommit, CacheKept, stage[r] \notin {"keys", "del"},
           \A q \in ProfileRequest \ {r} : stage'[q] = stage[q] /\ seen'[q] = seen[q],
           stage'[r] \in {"hours", "period", "fill"} /\ r \notin overlapped =>
               seen'[r].value = Of(RowsOf(ProfileAsks[r].user))
    PROVE  CacheInv'
<1>1. \A u : RowsOf(u)' = RowsOf(u) BY DEF NoCommit, RowsOf
<1>2. OnlyUp' BY DEF OnlyUp
<1>3. ReadersRight' BY <1>1 DEF ReadersRight, CacheInv, NoCommit
<1>4. \A u \in User, k \in Key : (Owed(u, k) => Owed(u, k)') /\ (Stale(u, k)' => Stale(u, k))
  BY <1>1 DEF Owed, Stale, CacheKept
<1>5. StaleIsOwed' BY <1>4 DEF StaleIsOwed, CacheInv, CacheKept
<1> QED BY <1>2, <1>3, <1>5 DEF CacheInv

\* A commit that changes the rows of one user, whose keys it is about to look
\* for or counts as missed.
LEMMA Committed ==
    ASSUME CacheInv, NEW r \in ProfileRequest, server = "up", server' = server,
           stage[r] \notin {"keys", "del"} \cup {"hours", "period", "fill"},
           \A q \in ProfileRequest \ {r} : stage'[q] = stage[q], seen' = seen,
           stage'[r] \notin {"hours", "period", "fill"},
           Overlaps(ProfileAsks[r].user), UNCHANGED <<cache, right>>, missed \subseteq missed',
           \A v \in User \ {ProfileAsks[r].user} : RowsOf(v)' = RowsOf(v),
           \/ stage'[r] = "keys"
           \/ \A k \in Key : <<ProfileAsks[r].user, k>> \in missed',
           \A q \in ProfileRequest : ProfileAsks[q].user \in User
    PROVE  CacheInv'
<1>1. OnlyUp' BY DEF OnlyUp
<1>2. ReadersRight'
  <2> SUFFICES ASSUME NEW q \in ProfileRequest, stage'[q] \in {"hours", "period", "fill"},
                      q \notin overlapped'
               PROVE  seen'[q].value = Of(RowsOf(ProfileAsks[q].user)')
    BY DEF ReadersRight
  <2>1. q # r /\ stage[q] = stage'[q] OBVIOUS
  <2>2. q \notin overlapped /\ ProfileAsks[q].user # ProfileAsks[r].user BY <2>1 DEF Overlaps
  <2> QED BY <2>1, <2>2 DEF ReadersRight, CacheInv
<1>3. \A u \in User, k \in Key : Owed(u, k) => Owed(u, k)' BY DEF Owed
<1>4. ASSUME NEW u \in User, NEW k \in Key, Stale(u, k)' PROVE <<u, k>> \in missed' \/ Owed(u, k)'
  <2>1. CASE u = ProfileAsks[r].user BY <2>1 DEF Owed
  <2>2. CASE u # ProfileAsks[r].user
    <3>1. Stale(u, k) BY <1>4, <2>2 DEF Stale
    <3> QED BY <1>3, <3>1 DEF StaleIsOwed, CacheInv
  <2> QED BY <2>1, <2>2
<1>5. StaleIsOwed' BY <1>4 DEF StaleIsOwed
<1> QED BY <1>1, <1>2, <1>5 DEF CacheInv

\* Entries go, or are the reader's that no commit has overlapped.
LEMMA Replaced ==
    ASSUME CacheInv, NEW r \in ProfileRequest, server = "up", server' = server,
           NoCommit, seen' = seen, \A q \in ProfileRequest \ {r} : stage'[q] = stage[q],
           stage'[r] \notin {"hours", "period", "fill"},
           \A u \in User, k \in Key :
              \/ Stale(u, k)' => Stale(u, k) /\ (<<u, k>> \in missed => <<u, k>> \in missed')
                                 /\ (Owed(u, k) => <<u, k>> \in missed' \/ Owed(u, k)')
    PROVE  CacheInv'
<1>1. \A u : RowsOf(u)' = RowsOf(u) BY DEF NoCommit, RowsOf
<1>2. OnlyUp' BY DEF OnlyUp
<1>3. ReadersRight' BY <1>1 DEF ReadersRight, CacheInv, NoCommit
<1>4. StaleIsOwed' BY DEF StaleIsOwed, CacheInv
<1> QED BY <1>2, <1>3, <1>4 DEF CacheInv

\* What happens while no request is on its way.
LEMMA Apart ==
    ASSUME CacheInv, server # "up", UNCHANGED <<stage, seen>>,
           \A u \in User, k \in Key :
              Stale(u, k)' => <<u, k>> \in missed' \/ (Stale(u, k) /\ (<<u, k>> \in missed => <<u, k>> \in missed'))
    PROVE  CacheInv'
<1>1. \A r \in ProfileRequest : stage[r] \in Ends BY DEF OnlyUp, CacheInv
<1>2. OnlyUp' /\ ReadersRight' BY <1>1 DEF OnlyUp, ReadersRight, Ends
<1>3. \A u \in User, k \in Key : ~Owed(u, k) BY <1>1 DEF Owed, Ends
<1>4. StaleIsOwed' BY <1>3 DEF StaleIsOwed, CacheInv
<1> QED BY <1>2, <1>4 DEF CacheInv

LEMMA NextCache == ProfileTypeOK /\ CacheInv /\ [ProfileNext]_profileVars => CacheInv'
<1> SUFFICES ASSUME ProfileTypeOK, CacheInv, [ProfileNext]_profileVars PROVE CacheInv' OBVIOUS
<1>s. /\ stage \in [ProfileRequest -> Stage] /\ seen \in [ProfileRequest -> Seen]
      /\ cache \in [User -> [Key -> Value]] /\ rows \in SUBSET Tx
  BY DEF ProfileTypeOK
<1>r. ASSUME NEW r \in ProfileRequest
      PROVE  /\ ProfileAsks[r].user \in User /\ KeyOf(r) \in Key
             /\ \A t \in Brings(r) : Owner[t] = ProfileAsks[r].user
             /\ RowsOf(ProfileAsks[r].user) \in SUBSET Tx /\ Present(ProfileAsks[r].user) \in SUBSET Key
  BY <1>s, SpendConstants DEF KeyOf, Key, Brings, RowsOf, Present
<1>i. OnlyUp /\ ReadersRight /\ StaleIsOwed BY DEF CacheInv
<1> USE DEF Running, ProfileAt
<1>1. ASSUME NEW r \in ProfileRequest, BeginIngest(r) PROVE CacheInv'
  <2>1. stage[r] = "new" /\ server = "up" /\ server' = server /\ NoCommit /\ CacheKept
        /\ (ProfileTo(r, "done") \/ ProfileTo(r, "insert"))
    BY <1>1 DEF BeginIngest
  <2>2. stage'[r] \in {"done", "insert"} /\ \A q \in ProfileRequest \ {r} : stage'[q] = stage[q]
    BY <1>s, <2>1, ProfileMoves DEF Stage
  <2>3. \A q \in ProfileRequest \ {r} : seen'[q] = seen[q] BY <1>1, <1>s DEF BeginIngest
  <2> QED BY <2>1, <2>2, <2>3, Quiet
<1>2. ASSUME NEW r \in ProfileRequest, Insert(r) PROVE CacheInv'
  <2>1. stage[r] = "insert" /\ server = "up" /\ server' = server /\ CacheKept /\ seen' = seen
    BY <1>2 DEF Insert
  <2>2. CASE ProfileTo(r, "failed") /\ NoCommit
    <3>1. stage'[r] = "failed" /\ \A q \in ProfileRequest \ {r} : stage'[q] = stage[q]
      BY <1>s, <2>2, ProfileMoves DEF Stage
    <3> QED BY <2>1, <2>2, <3>1, Quiet
  <2>3. CASE rows' = rows \cup Brings(r) /\ Overlaps(ProfileAsks[r].user) /\ ProfileTo(r, "keys")
    <3>1. stage'[r] = "keys" /\ \A q \in ProfileRequest \ {r} : stage'[q] = stage[q]
      BY <1>s, <2>3, ProfileMoves DEF Stage
    <3>2. \A v \in User \ {ProfileAsks[r].user} : RowsOf(v)' = RowsOf(v) BY <1>r, <2>3 DEF RowsOf
    <3>3. UNCHANGED <<cache, right>> /\ missed \subseteq missed' BY <2>1 DEF CacheKept
    <3> QED BY <1>r, <2>1, <2>3, <3>1, <3>2, <3>3, Committed
  <2> QED BY <1>2, <2>2, <2>3 DEF Insert
<1>3. ASSUME NEW r \in ProfileRequest, Keys(r) PROVE CacheInv'
  <2> DEFINE u == ProfileAsks[r].user
  <2>1. /\ stage[r] = "keys" /\ server = "up" /\ server' = server /\ NoCommit /\ UNCHANGED <<cache, right>>
        /\ ProfileTo(r, "del")
    BY <1>3 DEF Keys
  <2>2. stage'[r] = "del" /\ \A q \in ProfileRequest \ {r} : stage'[q] = stage[q]
    BY <1>s, <2>1, ProfileMoves DEF Stage
  <2>3. \/ seen'[r].keys = Present(u) /\ missed' = missed
        \/ missed' = missed \cup ({u} \X Key)
    <3>1. CASE redisUp
      <4> DEFINE ks == Present(u)
      <4>1. seen' = [seen EXCEPT ![r].keys = ks] BY <1>3, <3>1 DEF Keys
      <4>2. ks \in SUBSET Key BY <1>r
      <4> HIDE DEF ks
      <4>3. seen'[r].keys = ks BY <1>s, <4>1, <4>2, SeenKeys
      <4> QED BY <1>3, <3>1, <4>3 DEF Keys, ks
    <3> QED BY <1>3, <3>1 DEF Keys
  <2>4. \A q \in ProfileRequest \ {r} : seen'[q] = seen[q] BY <1>3, <1>s DEF Keys
  <2>5. \A v : RowsOf(v)' = RowsOf(v) BY <2>1 DEF NoCommit, RowsOf
  <2>6. OnlyUp' BY <2>1 DEF OnlyUp
  <2>7. ReadersRight' BY <1>i, <2>1, <2>2, <2>4, <2>5 DEF ReadersRight, NoCommit
  <2>8. ASSUME NEW v \in User, NEW k \in Key, Stale(v, k)' PROVE <<v, k>> \in missed' \/ Owed(v, k)'
    <3>1. Stale(v, k) BY <2>1, <2>5, <2>8 DEF Stale
    <3>2. <<v, k>> \in missed \/ Owed(v, k) BY <1>i, <3>1 DEF StaleIsOwed
    <3>3. CASE <<v, k>> \in missed BY <2>3, <3>3
    <3>4. CASE Owed(v, k)
      <4>1. PICK q \in ProfileRequest :
              ProfileAsks[q].user = v /\ (stage[q] = "keys" \/ (stage[q] = "del" /\ k \in seen[q].keys))
        BY <3>4 DEF Owed
      <4>2. CASE q # r BY <2>2, <2>4, <4>1, <4>2 DEF Owed
      <4>3. CASE q = r
        <5>1. v = u /\ cache[v][k].there BY <3>1, <4>1, <4>3 DEF Stale
        <5>2. CASE missed' = missed \cup ({u} \X Key) BY <5>1, <5>2
        <5>3. CASE seen'[r].keys = Present(u)
          <6>1. k \in Present(u) BY <5>1 DEF Present
          <6> QED BY <2>2, <5>1, <5>3, <6>1 DEF Owed
        <5> QED BY <2>3, <5>2, <5>3
      <4> QED BY <4>2, <4>3
    <3> QED BY <3>2, <3>3, <3>4
  <2>9. StaleIsOwed' BY <2>8 DEF StaleIsOwed
  <2> QED BY <2>6, <2>7, <2>9 DEF CacheInv
<1>4. ASSUME NEW r \in ProfileRequest, Del(r) PROVE CacheInv'
  <2> DEFINE u == ProfileAsks[r].user
             gone == seen[r].keys
             line == [k \in Key |-> IF k \in gone THEN Nothing ELSE cache[u][k]]
  <2>1. /\ stage[r] = "del" /\ server = "up" /\ server' = server /\ NoCommit /\ seen' = seen
        /\ (ProfileTo(r, "tags") \/ ProfileTo(r, "done"))
    BY <1>4 DEF Del
  <2>2. stage'[r] \in {"tags", "done"} /\ \A q \in ProfileRequest \ {r} : stage'[q] = stage[q]
    BY <1>s, <2>1, ProfileMoves DEF Stage
  <2>3. \A v : RowsOf(v)' = RowsOf(v) BY <2>1 DEF NoCommit, RowsOf
  <2>4. ASSUME NEW v \in User, NEW k \in Key, Owed(v, k), v # u \/ k \notin gone PROVE Owed(v, k)'
    <3>1. PICK q \in ProfileRequest :
            ProfileAsks[q].user = v /\ (stage[q] = "keys" \/ (stage[q] = "del" /\ k \in seen[q].keys))
      BY <2>4 DEF Owed
    <3>2. q # r BY <2>1, <2>4, <3>1
    <3> QED BY <2>1, <2>2, <3>1, <3>2 DEF Owed
  <2>5. CASE /\ cache' = [cache EXCEPT ![u] = line]
             /\ missed' = missed \ ({u} \X gone) /\ right' = right \ ({u} \X gone)
    <3>1. line \in [Key -> Value] BY <1>s, <1>r, NothingIsValue
    <3>2. \A k \in Key : line[k] = IF k \in gone THEN Nothing ELSE cache[u][k] OBVIOUS
    <3> HIDE DEF line
    <3>3. cache'[u] = line /\ \A v \in User \ {u} : cache'[v] = cache[v] BY <1>s, <1>r, <2>5, <3>1
    <3>4. ASSUME NEW v \in User, NEW k \in Key, Stale(v, k)'
          PROVE  /\ Stale(v, k) /\ (v # u \/ k \notin gone)
                 /\ (<<v, k>> \in missed => <<v, k>> \in missed')
      <4>1. v # u \/ k \notin gone BY <2>5, <3>4 DEF Stale
      <4>2. cache'[v][k] = cache[v][k] BY <3>2, <3>3, <4>1
      <4> QED BY <2>3, <2>5, <3>4, <4>1, <4>2 DEF Stale
    <3> QED BY <2>1, <2>2, <2>4, <3>4, Replaced
  <2>6. CASE missed' = missed \cup ({u} \X gone) /\ UNCHANGED <<cache, right>>
    <3>1. \A v \in User, k \in Key : Stale(v, k)' => Stale(v, k) BY <2>3, <2>6 DEF Stale
    <3>2. \A v \in User, k \in Key : Owed(v, k) => <<v, k>> \in missed' \/ Owed(v, k)' BY <2>4, <2>6
    <3> QED BY <2>1, <2>2, <2>6, <3>1, <3>2, Replaced
  <2> QED BY <1>4, <2>5, <2>6 DEF Del
<1>5. ASSUME NEW r \in ProfileRequest, Tags(r) PROVE CacheInv'
  <2>1. stage[r] = "tags" /\ server = "up" /\ server' = server /\ NoCommit /\ CacheKept /\ seen' = seen
        /\ (ProfileTo(r, "done") \/ ProfileTo(r, "failed"))
    BY <1>5 DEF Tags
  <2>2. stage'[r] \in {"done", "failed"} /\ \A q \in ProfileRequest \ {r} : stage'[q] = stage[q]
    BY <1>s, <2>1, ProfileMoves DEF Stage
  <2> QED BY <2>1, <2>2, Quiet
<1>6. ASSUME NEW r \in ProfileRequest, Look(r) PROVE CacheInv'
  <2>1. stage[r] = "new" /\ server = "up" /\ server' = server /\ NoCommit /\ CacheKept /\ seen' = seen
        /\ (ProfileTo(r, "done") \/ ProfileTo(r, "sums"))
    BY <1>6 DEF Look
  <2>2. stage'[r] \in {"done", "sums"} /\ \A q \in ProfileRequest \ {r} : stage'[q] = stage[q]
    BY <1>s, <2>1, ProfileMoves DEF Stage
  <2> QED BY <2>1, <2>2, Quiet
<1>7. ASSUME NEW r \in ProfileRequest, Sums(r) PROVE CacheInv'
  <2>1. /\ stage[r] = "sums" /\ server = "up" /\ server' = server /\ NoCommit /\ CacheKept
        /\ \/ ProfileTo(r, "done") /\ seen' = seen
           \/ /\ ProfileTo(r, "fill") \/ ProfileTo(r, "hours")
              /\ seen' = [seen EXCEPT ![r].value = Of(RowsOf(ProfileAsks[r].user))]
    BY <1>7 DEF Sums
  <2>2. CASE ProfileTo(r, "done") /\ seen' = seen
    <3>1. stage'[r] = "done" /\ \A q \in ProfileRequest \ {r} : stage'[q] = stage[q]
      BY <1>s, <2>2, ProfileMoves DEF Stage
    <3> QED BY <2>1, <2>2, <3>1, Quiet
  <2>3. CASE /\ ProfileTo(r, "fill") \/ ProfileTo(r, "hours")
             /\ seen' = [seen EXCEPT ![r].value = Of(RowsOf(ProfileAsks[r].user))]
    <3>1. \A q \in ProfileRequest \ {r} : stage'[q] = stage[q]
      BY <1>s, <2>3, ProfileMoves DEF Stage
    <3> DEFINE v == Of(RowsOf(ProfileAsks[r].user))
    <3>2. v \in Value BY <1>r, ValueOf
    <3> HIDE DEF v
    <3>3. seen'[r].value = v /\ \A q \in ProfileRequest \ {r} : seen'[q] = seen[q]
      <4>1. seen' = [seen EXCEPT ![r].value = v] BY <2>3 DEF v
      <4> QED BY <1>s, <3>2, <4>1, SeenValue
    <3> QED BY <2>1, <3>1, <3>3, Quiet DEF v
  <2> QED BY <2>1, <2>2, <2>3
<1>8. ASSUME NEW r \in ProfileRequest, Hours(r) PROVE CacheInv'
  <2>1. /\ stage[r] = "hours" /\ server = "up" /\ server' = server /\ NoCommit /\ CacheKept
        /\ ProfileTo(r, "period")
    BY <1>8 DEF Hours
  <2>2. \A q \in ProfileRequest \ {r} : stage'[q] = stage[q] BY <1>s, <2>1, ProfileMoves DEF Stage
  <2> DEFINE ts == RowsOf(ProfileAsks[r].user)
  <2>3. /\ seen'[r].value = [seen[r].value EXCEPT !.hours = ts]
        /\ \A q \in ProfileRequest \ {r} : seen'[q] = seen[q]
    <3>1. ts \in SUBSET Tx /\ seen' = [seen EXCEPT ![r].value.hours = ts] BY <1>8, <1>r DEF Hours
    <3> HIDE DEF ts
    <3> QED BY <1>s, <3>1, SeenPart
  <2>4. r \notin overlapped => seen[r].value = Of(ts) BY <1>i, <2>1 DEF ReadersRight
  <2>5. r \notin overlapped => seen'[r].value = Of(ts) BY <2>3, <2>4 DEF Of
  <2> QED BY <2>1, <2>2, <2>3, <2>5, Quiet
<1>9. ASSUME NEW r \in ProfileRequest, Period(r) PROVE CacheInv'
  <2>1. /\ stage[r] = "period" /\ server = "up" /\ server' = server /\ NoCommit /\ CacheKept
        /\ ProfileTo(r, "fill")
    BY <1>9 DEF Period
  <2>2. \A q \in ProfileRequest \ {r} : stage'[q] = stage[q] BY <1>s, <2>1, ProfileMoves DEF Stage
  <2> DEFINE ts == RowsOf(ProfileAsks[r].user)
  <2>3. /\ seen'[r].value = [seen[r].value EXCEPT !.period = ts]
        /\ \A q \in ProfileRequest \ {r} : seen'[q] = seen[q]
    <3>1. ts \in SUBSET Tx /\ seen' = [seen EXCEPT ![r].value.period = ts] BY <1>9, <1>r DEF Period
    <3> HIDE DEF ts
    <3> QED BY <1>s, <3>1, SeenPart
  <2>4. r \notin overlapped => seen[r].value = Of(ts) BY <1>i, <2>1 DEF ReadersRight
  <2>5. r \notin overlapped => seen'[r].value = Of(ts) BY <2>3, <2>4 DEF Of
  <2> QED BY <2>1, <2>2, <2>3, <2>5, Quiet
<1>10. ASSUME NEW r \in ProfileRequest, Fill(r) PROVE CacheInv'
  <2> DEFINE u == ProfileAsks[r].user
             j == KeyOf(r)
             v == seen[r].value
  <2>1. /\ stage[r] = "fill" /\ server = "up" /\ server' = server /\ NoCommit /\ seen' = seen
        /\ ProfileTo(r, "done")
    BY <1>10 DEF Fill
  <2>2. stage'[r] = "done" /\ \A q \in ProfileRequest \ {r} : stage'[q] = stage[q]
    BY <1>s, <2>1, ProfileMoves DEF Stage
  <2>3. \A w : RowsOf(w)' = RowsOf(w) BY <2>1 DEF NoCommit, RowsOf
  <2>4. CASE /\ cache' = [cache EXCEPT ![u][j] = v]
             /\ right' = IF r \in overlapped THEN right \ {<<u, j>>} ELSE right \cup {<<u, j>>}
             /\ missed' = missed \ {<<u, j>>}
    <3>1. v \in Value /\ u \in User /\ j \in Key BY <1>s, <1>r DEF Seen
    <3>2. r \notin overlapped => v = Of(RowsOf(u)) BY <1>i, <2>1 DEF ReadersRight
    <3> HIDE DEF v, u, j
    <3>3. cache'[u][j] = v /\ \A w \in User, k \in Key : (w # u \/ k # j) => cache'[w][k] = cache[w][k]
      BY <1>s, <2>4, <3>1, CacheParts
    <3>4. ~Stale(u, j)' BY <2>3, <2>4, <3>2, <3>3 DEF Stale
    <3>5. ASSUME NEW w \in User, NEW k \in Key, Stale(w, k)'
          PROVE  Stale(w, k) /\ (<<w, k>> \in missed => <<w, k>> \in missed')
      <4>1. w # u \/ k # j BY <3>4, <3>5
      <4>2. cache'[w][k] = cache[w][k] BY <3>3, <4>1
      <4> QED BY <2>3, <2>4, <3>5, <4>1, <4>2 DEF Stale
    <3>6. \A w \in User, k \in Key : Owed(w, k) => Owed(w, k)' BY <2>1, <2>2 DEF Owed
    <3> QED BY <2>1, <2>2, <3>5, <3>6, Replaced
  <2>5. CASE CacheKept BY <2>1, <2>2, <2>5, Quiet
  <2> QED BY <1>10, <2>4, <2>5 DEF Fill
<1>11. ASSUME NEW r \in ProfileRequest, BeginDelete(r) PROVE CacheInv'
  <2>1. stage[r] = "new" /\ server = "up" /\ server' = server /\ NoCommit /\ CacheKept /\ seen' = seen
        /\ (ProfileTo(r, "done") \/ ProfileTo(r, "remove"))
    BY <1>11 DEF BeginDelete
  <2>2. stage'[r] \in {"done", "remove"} /\ \A q \in ProfileRequest \ {r} : stage'[q] = stage[q]
    BY <1>s, <2>1, ProfileMoves DEF Stage
  <2> QED BY <2>1, <2>2, Quiet
<1>12. ASSUME NEW r \in ProfileRequest, RemoveRows(r) PROVE CacheInv'
  <2>1. /\ stage[r] = "remove" /\ server = "up" /\ server' = server /\ CacheKept /\ seen' = seen
        /\ ProfileTo(r, "keys") /\ Overlaps(ProfileAsks[r].user)
        /\ rows' = rows \ RowsOf(ProfileAsks[r].user)
    BY <1>12 DEF RemoveRows
  <2>2. stage'[r] = "keys" /\ \A q \in ProfileRequest \ {r} : stage'[q] = stage[q]
    BY <1>s, <2>1, ProfileMoves DEF Stage
  <2>3. \A v \in User \ {ProfileAsks[r].user} : RowsOf(v)' = RowsOf(v) BY <2>1 DEF RowsOf
  <2>4. UNCHANGED <<cache, right>> /\ missed \subseteq missed' BY <2>1 DEF CacheKept
  <2> QED BY <1>r, <2>1, <2>2, <2>3, <2>4, Committed
<1>13. ASSUME NEW r \in ProfileRequest, BeginErase(r) PROVE CacheInv'
  <2>1. stage[r] = "new" /\ server = "up" /\ server' = server /\ NoCommit /\ CacheKept /\ seen' = seen
        /\ ProfileTo(r, "erase")
    BY <1>13 DEF BeginErase
  <2>2. stage'[r] = "erase" /\ \A q \in ProfileRequest \ {r} : stage'[q] = stage[q]
    BY <1>s, <2>1, ProfileMoves DEF Stage
  <2> QED BY <2>1, <2>2, Quiet
<1>14. ASSUME NEW r \in ProfileRequest, Erase(r) PROVE CacheInv'
  <2>1. /\ stage[r] = "erase" /\ server = "up" /\ server' = server /\ UNCHANGED <<cache, right>> /\ seen' = seen
        /\ (ProfileTo(r, "generate") \/ ProfileTo(r, "done")) /\ Overlaps(ProfileAsks[r].user)
        /\ rows' = rows \ RowsOf(ProfileAsks[r].user)
        /\ missed' = missed \cup ({ProfileAsks[r].user} \X Key)
    BY <1>14 DEF Erase
  <2>2. stage'[r] \in {"generate", "done"} /\ \A q \in ProfileRequest \ {r} : stage'[q] = stage[q]
    BY <1>s, <2>1, ProfileMoves DEF Stage
  <2>3. \A v \in User \ {ProfileAsks[r].user} : RowsOf(v)' = RowsOf(v) BY <2>1 DEF RowsOf
  <2>4. \A k \in Key : <<ProfileAsks[r].user, k>> \in missed' BY <2>1
  <2> QED BY <1>r, <2>1, <2>2, <2>3, <2>4, Committed
<1>15. ASSUME NEW r \in ProfileRequest, Generate(r) PROVE CacheInv'
  <2>1. stage[r] = "generate" /\ server = "up" /\ server' = server /\ NoCommit /\ CacheKept
        /\ ProfileTo(r, "insert")
    BY <1>15 DEF Generate
  <2>2. stage'[r] = "insert" /\ \A q \in ProfileRequest \ {r} : stage'[q] = stage[q]
    BY <1>s, <2>1, ProfileMoves DEF Stage
  <2>3. \A q \in ProfileRequest \ {r} : seen'[q] = seen[q] BY <1>15, <1>s DEF Generate
  <2> QED BY <2>1, <2>2, <2>3, Quiet
<1>16. CASE Start \/ DemoAccount \/ Restore \/ Serve
  <2>1. server # "up" /\ UNCHANGED <<stage, seen>> /\ CacheKept /\ rows' = rows
    BY <1>16 DEF Start, DemoAccount, Restore, Serve, Starting
  <2>2. \A u \in User, k \in Key : Stale(u, k)' => Stale(u, k) BY <2>1 DEF Stale, RowsOf, CacheKept
  <2> QED BY <2>1, <2>2, Apart DEF CacheKept
<1>17. CASE DemoSeed
  <2>1. server # "up" /\ UNCHANGED <<stage, seen>> BY <1>17 DEF DemoSeed, Starting
  <2>2. CASE rows' = rows /\ CacheKept
    <3>1. \A u \in User, k \in Key : Stale(u, k)' => Stale(u, k) BY <2>2 DEF Stale, RowsOf, CacheKept
    <3> QED BY <2>1, <2>2, <3>1, Apart DEF CacheKept
  <2>3. CASE rows' = rows \cup Seeded[DemoUser] /\ ~(rows' = rows /\ CacheKept)
    <3>0. DemoUser \in User /\ \A t \in Seeded[DemoUser] : Owner[t] = DemoUser BY SpendConstants
    <3>1. \A u \in User \ {DemoUser} : RowsOf(u)' = RowsOf(u) BY <2>3, <3>0 DEF RowsOf
    <3>2. CASE redisUp /\ cache' = [cache EXCEPT ![DemoUser] = [k \in Key |-> Nothing]]
               /\ missed' = missed \ ({DemoUser} \X Key) /\ right' = right \ ({DemoUser} \X Key)
      <4>1. \A u \in User \ {DemoUser} : cache'[u] = cache[u] BY <1>s, <3>2
      <4>2. \A k \in Key : ~Stale(DemoUser, k)' BY <3>2 DEF Stale
      <4>3. ASSUME NEW u \in User, NEW k \in Key, Stale(u, k)'
            PROVE  Stale(u, k) /\ (<<u, k>> \in missed => <<u, k>> \in missed')
        <5>1. u # DemoUser BY <4>2, <4>3
        <5> QED BY <3>1, <3>2, <4>1, <4>3, <5>1 DEF Stale
      <4> QED BY <2>1, <4>3, Apart
    <3>3. CASE missed' = missed \cup ({DemoUser} \X Key) /\ UNCHANGED <<cache, right>>
      <4>1. ASSUME NEW u \in User, NEW k \in Key, Stale(u, k)'
            PROVE  <<u, k>> \in missed' \/ (Stale(u, k) /\ (<<u, k>> \in missed => <<u, k>> \in missed'))
        BY <3>1, <3>3, <4>1 DEF Stale
      <4> QED BY <2>1, <4>1, Apart
    <3> QED BY <1>17, <2>3, <3>2, <3>3 DEF DemoSeed
  <2> QED BY <1>17, <2>2, <2>3 DEF DemoSeed
<1>18. CASE Restart
  <2>1. /\ \A r \in ProfileRequest : stage'[r] \in Ends
        /\ UNCHANGED <<rows, cache, right>>
        /\ missed' = missed \cup UNION {{ProfileAsks[r].user} \X Key :
                                   r \in {q \in ProfileRequest : stage[q] \in {"keys", "del"}}}
    BY <1>18 DEF Restart, Ends
  <2>2. \A u \in User, k \in Key : Stale(u, k)' => Stale(u, k) BY <2>1 DEF Stale, RowsOf
  <2>3. \A u \in User, k \in Key : Owed(u, k) => <<u, k>> \in missed' BY <2>1 DEF Owed
  <2>4. StaleIsOwed' BY <1>i, <2>1, <2>2, <2>3 DEF StaleIsOwed
  <2>5. OnlyUp' /\ ReadersRight' BY <2>1 DEF OnlyUp, ReadersRight, Ends
  <2> QED BY <2>4, <2>5 DEF CacheInv
<1>19. ASSUME NEW u \in User, NEW k \in Key, KeyExpires(u, k) PROVE CacheInv'
  <2>1. /\ UNCHANGED <<stage, seen, rows, server, overlapped>>
        /\ cache' = [cache EXCEPT ![u][k] = Nothing]
        /\ right' = right \ {<<u, k>>} /\ missed' = missed \ {<<u, k>>}
    BY <1>19 DEF KeyExpires
  <2>2. \A v \in User, j \in Key : (v # u \/ j # k) => cache'[v][j] = cache[v][j]
    BY <1>s, <2>1, NothingIsValue, CacheParts
  <2>3. OnlyUp' /\ ReadersRight' BY <1>i, <2>1 DEF OnlyUp, ReadersRight, RowsOf
  <2>4. ASSUME NEW v \in User, NEW j \in Key, Stale(v, j)' PROVE <<v, j>> \in missed' \/ Owed(v, j)'
    <3>1. v # u \/ j # k BY <2>1, <2>4 DEF Stale
    <3>2. Stale(v, j) BY <2>1, <2>2, <2>4, <3>1 DEF Stale, RowsOf
    <3>3. <<v, j>> \in missed \/ Owed(v, j) BY <1>i, <3>2 DEF StaleIsOwed
    <3>4. Owed(v, j) => Owed(v, j)' BY <2>1 DEF Owed
    <3> QED BY <2>1, <3>1, <3>3, <3>4
  <2> QED BY <2>3, <2>4 DEF CacheInv, StaleIsOwed
<1>20. CASE Outage \/ UNCHANGED profileVars
  <2>1. UNCHANGED <<stage, seen, rows, cache, server, overlapped, right, missed>>
    BY <1>20 DEF Outage, profileVars
  <2>2. \A u \in User, k \in Key : (Stale(u, k)' <=> Stale(u, k)) /\ (Owed(u, k)' <=> Owed(u, k))
    BY <2>1 DEF Stale, Owed, RowsOf
  <2>3. StaleIsOwed' BY <1>i, <2>1, <2>2 DEF StaleIsOwed
  <2> QED BY <1>i, <2>1, <2>3 DEF CacheInv, OnlyUp, ReadersRight, RowsOf
<1> QED BY <1>1, <1>2, <1>3, <1>4, <1>5, <1>6, <1>7, <1>8, <1>9, <1>10, <1>11, <1>12, <1>13, <1>14,
           <1>15, <1>16, <1>17, <1>18, <1>19, <1>20 DEF ProfileNext

\* For any users, transactions and requests, however they interleave with the
\* outages of Redis and the restarts: a cached value whose reader no commit
\* overlapped differs from the rows only while its deletion is on its way or
\* once that was missed.
THEOREM CachedIsRight == ProfileSpec => []StaleOnlyIfMissed
<1>1. ProfileInit => CacheInv
  BY NothingIsValue DEF ProfileInit, CacheInv, OnlyUp, ReadersRight, StaleIsOwed, Stale, Ends
<1>2. CacheInv => StaleOnlyIfMissed
  <2>1. \A u \in User, k \in Key : Owed(u, k) => Pending(u) BY DEF Owed, Pending
  <2> QED BY <2>1 DEF CacheInv, StaleIsOwed, Stale, StaleOnlyIfMissed
<1> QED BY <1>1, <1>2, NextCache, ProfileTypeCorrect, PTL DEF ProfileSpec

-----------------------------------------------------------------------------
(***************************************************************************)
(* The notifications, for any connections and messages                     *)
(***************************************************************************)

Single(q) == \A i, j \in DOMAIN q : q[i] = q[j] => i = j

LEMMA Queued ==
    ASSUME NEW q \in Seq(Note), NEW n \in Note
    PROVE  /\ Append(q, n) \in Seq(Note) /\ ToSet(Append(q, n)) = ToSet(q) \cup {n}
           /\ Single(q) /\ n \notin ToSet(q) => Single(Append(q, n))
<1>1. Append(q, n) \in Seq(Note) /\ DOMAIN q = 1..Len(q) /\ DOMAIN Append(q, n) = 1..(Len(q) + 1)
  OBVIOUS
<1>2. /\ \A i \in 1..Len(q) : Append(q, n)[i] = q[i]
      /\ Append(q, n)[Len(q) + 1] = n /\ Len(q) \in Nat
  OBVIOUS
<1>3. ToSet(Append(q, n)) = ToSet(q) \cup {n} BY <1>1, <1>2 DEF ToSet
<1>4. Single(q) /\ n \notin ToSet(q) => Single(Append(q, n)) BY <1>1, <1>2 DEF Single, ToSet
<1> QED BY <1>1, <1>3, <1>4

LEMMA Taken ==
    ASSUME NEW q \in Seq(Note), q # <<>>, Single(q)
    PROVE  /\ Tail(q) \in Seq(Note) /\ Single(Tail(q)) /\ Head(q) \in ToSet(q)
           /\ ToSet(Tail(q)) \subseteq ToSet(q) /\ Head(q) \notin ToSet(Tail(q))
<1>1. Tail(q) \in Seq(Note) /\ DOMAIN q = 1..Len(q) /\ DOMAIN Tail(q) = 1..(Len(q) - 1) /\ Len(q) \in Nat /\ Len(q) > 0
  OBVIOUS
<1>2. Head(q) = q[1] /\ \A i \in 1..(Len(q) - 1) : Tail(q)[i] = q[i + 1] OBVIOUS
<1>3. Single(Tail(q)) BY <1>1, <1>2 DEF Single
<1>4. Head(q) \in ToSet(q) /\ ToSet(Tail(q)) \subseteq ToSet(q) BY <1>1, <1>2 DEF ToSet
<1>5. Head(q) \notin ToSet(Tail(q)) BY <1>1, <1>2 DEF ToSet, Single
<1> QED BY <1>1, <1>3, <1>4, <1>5
-----------------------------------------------------------------------------
\* Only connections that have come are listed, and have received anything.
Come == \A c \in Conn : socket[c] = "new" =>
            /\ c \notin conns /\ \A a \in Agent : c \notin sending[a].list
            /\ \A n \in Note : received[c][n] = 0

\* A notification that has not been published is nowhere.
Unpublished == \A n \in Note : notePhase[n] = "new" =>
            /\ n \notin ToSet(redis.queue) /\ \A a \in Agent : n \notin sending[a].note
            /\ \A c \in Conn : received[c][n] = 0

\* Unless its publish took effect and failed, a notification is in the queue or
\* with one sender, who has yet to send it to those that have not received it.
OneSource == \A n \in Note \ unsure :
    /\ \A a \in Agent : n \in sending[a].note =>
            /\ n \notin ToSet(redis.queue) /\ \A b \in Agent : n \in sending[b].note => b = a
            /\ \A c \in sending[a].list : received[c][n] = 0
    /\ n \in ToSet(redis.queue) => \A c \in Conn : received[c][n] = 0
    /\ \A c \in Conn : received[c][n] <= 1

NoteInv == NoteTypeOK /\ Single(redis.queue) /\ Come /\ Unpublished /\ OneSource

LEMMA NoteBegins == NoteInit => NoteInv
<1> SUFFICES ASSUME NoteInit PROVE NoteInv OBVIOUS
<1>1. Idle \in Sending /\ Idle.note = {} /\ Idle.list = {} BY DEF Idle, Sending
<1>2. redis \in [up : BOOLEAN, listens : BOOLEAN, queue : Seq(Note)] /\ redis.queue = <<>> BY DEF NoteInit
<1>3. received \in [Conn -> [Note -> Nat]] /\ \A c \in Conn, n \in Note : received[c][n] = 0 BY DEF NoteInit
<1>4. faults \in 0..MaxFaults BY NoteConstants DEF NoteInit
<1>5. NoteTypeOK BY <1>1, <1>2, <1>3, <1>4 DEF NoteInit, NoteTypeOK, Socket, NotePhase, NoteRow
<1>6. \A a \in Agent : sending[a] = Idle BY DEF NoteInit
<1>7. ToSet(redis.queue) = {} /\ Single(redis.queue) BY <1>2 DEF ToSet, Single
<1>8. Come /\ Unpublished /\ OneSource
  BY <1>1, <1>3, <1>6, <1>7 DEF NoteInit, Come, Unpublished, OneSource
<1> QED BY <1>5, <1>7, <1>8 DEF NoteInv
-----------------------------------------------------------------------------
\* A list that grows by a connection that has just come, or that shrinks.
LEMMA ListsChange ==
    ASSUME NoteInv, NEW c \in Conn,
           socket' \in [Conn -> Socket], conns' \subseteq conns \cup {c}, socket'[c] # "new",
           \A d \in Conn \ {c} : socket'[d] = socket[d],
           sending' \in [Agent -> Sending],
           \A a \in Agent : /\ sending'[a].note \subseteq sending[a].note
                            /\ \/ sending'[a].list \subseteq sending[a].list
                               \/ socket[c] = "new" /\ sending'[a].list \subseteq sending[a].list \cup {c},
           UNCHANGED <<redis, faults, received, unsure, dropped>>,
           notePhase' \in [Note -> NotePhase], row' \in [Note -> NoteRow],
           \A n \in Note : notePhase'[n] = "new" => notePhase[n] = "new"
    PROVE  NoteInv'
<1>1. NoteTypeOK /\ Single(redis.queue) /\ Come /\ Unpublished /\ OneSource BY DEF NoteInv
<1>2. NoteTypeOK' BY <1>1 DEF NoteTypeOK
<1>3. Single(redis'.queue) BY <1>1 DEF Single
<1>4. Come' BY <1>1 DEF Come
<1>5. Unpublished' BY <1>1 DEF Unpublished
<1>6. OneSource' BY <1>1 DEF OneSource, Come
<1>7. Single(redis.queue)' BY <1>3 DEF Single
<1> QED BY <1>2, <1>4, <1>5, <1>6, <1>7 DEF NoteInv

LEMMA NoteKept == ASSUME NoteInv, [NoteNext]_noteVars PROVE NoteInv'
<1>t. NoteTypeOK /\ Single(redis.queue) /\ Come /\ Unpublished /\ OneSource BY DEF NoteInv
<1>s. \A a \in Agent : sending[a] \in Sending BY <1>t DEF NoteTypeOK
<1>1. ASSUME NEW c \in Conn, Connect(c) PROVE NoteInv'
  <2>1. \A a \in Agent : /\ sending'[a] \in Sending /\ sending'[a].note = sending[a].note
                         /\ sending'[a].list \subseteq sending[a].list \cup {c}
    BY <1>1, <1>s DEF Connect, Sending
  <2>2. sending' \in [Agent -> Sending] BY <1>1, <2>1 DEF Connect
  <2>3. socket' \in [Conn -> Socket] /\ socket'[c] = "open" /\ \A d \in Conn \ {c} : socket'[d] = socket[d]
    BY <1>1, <1>t DEF Connect, NoteTypeOK, Socket
  <2>4. notePhase' \in [Note -> NotePhase] /\ row' \in [Note -> NoteRow] BY <1>1, <1>t DEF Connect, NoteTypeOK
  <2> QED BY <1>1, <2>1, <2>2, <2>3, <2>4, ListsChange DEF Connect
<1>2. ASSUME NEW c \in Conn, Break(c) PROVE NoteInv'
  <2>1. socket' \in [Conn -> Socket] /\ socket'[c] = "broken" /\ \A d \in Conn \ {c} : socket'[d] = socket[d]
    BY <1>2, <1>t DEF Break, NoteTypeOK, Socket
  <2>2. notePhase' \in [Note -> NotePhase] /\ row' \in [Note -> NoteRow] /\ sending' \in [Agent -> Sending]
    BY <1>2, <1>t DEF Break, NoteTypeOK
  <2> QED BY <1>2, <2>1, <2>2, ListsChange DEF Break
<1>3. ASSUME NEW c \in Conn, Disconnect(c) PROVE NoteInv'
  <2>1. socket' \in [Conn -> Socket] /\ socket'[c] = "closed" /\ \A d \in Conn \ {c} : socket'[d] = socket[d]
    BY <1>3, <1>t DEF Disconnect, NoteTypeOK, Socket
  <2>2. \A a \in Agent : /\ sending'[a] \in Sending /\ sending'[a].note = sending[a].note
                         /\ sending'[a].list = sending[a].list
    BY <1>3, <1>s DEF Disconnect, Unlist, Sending
  <2>3. sending' \in [Agent -> Sending] /\ conns' \subseteq conns BY <1>3, <2>2 DEF Disconnect, Unlist
  <2>4. notePhase' \in [Note -> NotePhase] /\ row' \in [Note -> NoteRow] BY <1>3, <1>t DEF Disconnect, NoteTypeOK
  <2> QED BY <1>3, <2>1, <2>2, <2>3, <2>4, ListsChange DEF Disconnect
<1>4. ASSUME NEW n \in Note, Publish(n) PROVE NoteInv'
  <2>1. /\ notePhase[n] = "new" /\ UNCHANGED <<socket, conns, received, dropped>>
        /\ \/ End(n) /\ UNCHANGED <<sending, redis, unsure, faults>>
           \/ redis' = Enqueued(n) /\ End(n) /\ UNCHANGED <<sending, unsure, faults>>
           \/ /\ UNCHANGED <<redis, unsure, faults>> \/ (/\ redis' = Enqueued(n) /\ unsure' = unsure \cup {n}
                                                        /\ faults < MaxFaults /\ faults' = faults + 1)
              /\ notePhase' = [notePhase EXCEPT ![n] = "direct"] /\ row' = [row EXCEPT ![n] = "flushed"]
              /\ sending' = [sending EXCEPT ![n] = Begin(n)]
    BY <1>4 DEF Publish
  <2>2. /\ n \notin ToSet(redis.queue) /\ \A a \in Agent : n \notin sending[a].note
        /\ \A c \in Conn : received[c][n] = 0
    BY <2>1, <1>t DEF Unpublished
  <2>3. /\ redis' \in [up : BOOLEAN, listens : BOOLEAN, queue : Seq(Note)]
        /\ Single(redis'.queue) /\ ToSet(redis'.queue) \subseteq ToSet(redis.queue) \cup {n}
        /\ UNCHANGED redis => ToSet(redis'.queue) = ToSet(redis.queue)
    <3>1. CASE redis' = redis BY <3>1, <1>t DEF NoteTypeOK
    <3>2. CASE redis' = Enqueued(n)
      <4>1. redis.queue \in Seq(Note) BY <1>t DEF NoteTypeOK
      <4>2. /\ redis' \in [up : BOOLEAN, listens : BOOLEAN, queue : Seq(Note)]
            /\ redis'.queue \in {redis.queue, Append(redis.queue, n)}
        BY <3>2, <4>1, <1>t, Queued DEF Enqueued, NoteTypeOK
      <4> QED BY <4>1, <4>2, <2>2, <1>t, Queued
    <3> QED BY <2>1, <3>1, <3>2
  <2>4. /\ notePhase' \in [Note -> NotePhase] /\ notePhase'[n] # "new" /\ row' \in [Note -> NoteRow]
        /\ \A m \in Note \ {n} : notePhase'[m] = notePhase[m]
    BY <2>1, <1>t DEF End, NoteTypeOK, NotePhase, NoteRow
  <2>5. Begin(n) \in Sending /\ Begin(n).note = {n} /\ Begin(n).list = conns
    BY <1>t DEF Begin, Sending, NoteTypeOK
  <2>6. /\ sending' \in [Agent -> Sending]
        /\ \A a \in Agent : sending'[a] = sending[a] \/ (a = n /\ sending'[a] = Begin(n))
    <3>1. n \in Agent /\ sending \in [Agent -> Sending] BY <1>t DEF Agent, NoteTypeOK
    <3>2. UNCHANGED sending \/ sending' = [sending EXCEPT ![n] = Begin(n)] BY <2>1
    <3>3. CASE UNCHANGED sending BY <3>1, <3>3
    <3>4. CASE sending' = [sending EXCEPT ![n] = Begin(n)] BY <3>1, <3>4, <2>5
    <3> QED BY <3>2, <3>3, <3>4
  <2>7. unsure' \subseteq Note /\ unsure \subseteq unsure' /\ faults' \in 0..MaxFaults
    BY <2>1, <1>t, NoteConstants DEF NoteTypeOK
  <2>8. NoteTypeOK' BY <2>1, <2>3, <2>4, <2>6, <2>7, <1>t DEF NoteTypeOK
  <2>9. Come' BY <2>1, <2>5, <2>6, <1>t DEF Come
  <2>10. Unpublished' BY <2>1, <2>3, <2>4, <2>5, <2>6, <1>t DEF Unpublished
  <2>11. OneSource'
    <3> SUFFICES ASSUME NEW m \in Note \ unsure'
                 PROVE  /\ \A a \in Agent : m \in sending'[a].note =>
                            /\ m \notin ToSet(redis'.queue) /\ \A b \in Agent : m \in sending'[b].note => b = a
                            /\ \A c \in sending'[a].list : received'[c][m] = 0
                        /\ m \in ToSet(redis'.queue) => \A c \in Conn : received'[c][m] = 0
                        /\ \A c \in Conn : received'[c][m] <= 1
      BY DEF OneSource
    <3>1. CASE m = n
      <4>1. \A c \in Conn : received'[c][m] = 0 BY <3>1, <2>1, <2>2
      <4>2. \A a \in Agent : sending'[a].list \subseteq Conn BY <2>6 DEF Sending
      <4>3. \A a \in Agent : m \in sending'[a].note => a = n /\ UNCHANGED redis
        BY <3>1, <2>1, <2>2, <2>6
      <4> QED BY <3>1, <4>1, <4>2, <4>3, <2>2, <2>3
    <3>2. CASE m # n
      <4>1. \A a \in Agent : m \in sending'[a].note => sending'[a] = sending[a] BY <3>2, <2>5, <2>6
      <4>2. m \in ToSet(redis'.queue) => m \in ToSet(redis.queue) BY <3>2, <2>3
      <4> QED BY <3>2, <4>1, <4>2, <2>1, <2>7, <1>t DEF OneSource
    <3> QED BY <3>1, <3>2
  <2>12. Single(redis.queue)' BY <2>3 DEF Single
  <2> QED BY <2>8, <2>9, <2>10, <2>11, <2>12 DEF NoteInv
<1>5. ASSUME NEW a \in Agent, Send(a) PROVE NoteInv'
  <2>1. PICK c \in sending[a].list :
          \/ /\ socket[c] = "open"
             /\ received' = [received EXCEPT ![c] =
                   [n \in Note |-> IF n \in sending[a].note THEN @[n] + 1 ELSE @[n]]]
             /\ sending' = [sending EXCEPT ![a].list = @ \ {c}]
          \/ /\ socket[c] # "open" /\ UNCHANGED received
             /\ sending' = [[sending EXCEPT ![a].list = @ \ {c}] EXCEPT ![a].dead = @ \cup {c}]
    BY <1>5 DEF Send
  <2>2. UNCHANGED <<socket, conns, redis, notePhase, row, faults, unsure, dropped>> BY <1>5 DEF Send
  <2>3. c \in Conn BY <1>s DEF Sending
  <2>4. /\ sending' \in [Agent -> Sending] /\ \A b \in Agent : sending'[b].note = sending[b].note
        /\ sending'[a].list = sending[a].list \ {c} /\ \A b \in Agent \ {a} : sending'[b].list = sending[b].list
    <3>1. sending \in [Agent -> Sending] BY <1>t DEF NoteTypeOK
    <3>2. CASE sending' = [sending EXCEPT ![a].list = @ \ {c}] BY <3>1, <3>2, <2>3 DEF Sending
    <3>3. CASE sending' = [[sending EXCEPT ![a].list = @ \ {c}] EXCEPT ![a].dead = @ \cup {c}]
      <4> DEFINE mid == [sending EXCEPT ![a].list = @ \ {c}]
      <4>1. /\ mid \in [Agent -> Sending] /\ mid[a].list = sending[a].list \ {c}
            /\ mid[a].note = sending[a].note /\ \A b \in Agent \ {a} : mid[b] = sending[b]
        BY <3>1, <2>3 DEF Sending
      <4>2. sending' = [mid EXCEPT ![a].dead = @ \cup {c}] BY <3>3
      <4> HIDE DEF mid
      <4> QED BY <4>1, <4>2, <2>3 DEF Sending
    <3> QED BY <2>1, <3>2, <3>3
  <2>5. /\ received' \in [Conn -> [Note -> Nat]]
        /\ \A d \in Conn, n \in Note : received'[d][n] # received[d][n] =>
                /\ d = c /\ n \in sending[a].note /\ socket[c] = "open"
                /\ received'[d][n] = received[d][n] + 1
    <3> DEFINE more == [n \in Note |-> IF n \in sending[a].note THEN received[c][n] + 1 ELSE received[c][n]]
    <3>1. received \in [Conn -> [Note -> Nat]] BY <1>t DEF NoteTypeOK
    <3>2. more \in [Note -> Nat] /\ \A n \in Note : more[n] # received[c][n] =>
              n \in sending[a].note /\ more[n] = received[c][n] + 1
      BY <3>1, <2>3
    <3>3. received' = received \/ (socket[c] = "open" /\ received' = [received EXCEPT ![c] = more])
      BY <2>1
    <3> HIDE DEF more
    <3> QED BY <3>1, <3>2, <3>3, <2>3
  <2>6. NoteTypeOK' BY <2>2, <2>4, <2>5, <1>t DEF NoteTypeOK
  <2>7. Come' BY <2>2, <2>3, <2>4, <2>5, <1>t DEF Come
  <2>8. Unpublished' BY <2>2, <2>4, <2>5, <1>t DEF Unpublished
  <2>9. OneSource'
    <3> SUFFICES ASSUME NEW n \in Note \ unsure
                 PROVE  /\ \A b \in Agent : n \in sending'[b].note =>
                            /\ n \notin ToSet(redis'.queue) /\ \A d \in Agent : n \in sending'[d].note => d = b
                            /\ \A d \in sending'[b].list : received'[d][n] = 0
                        /\ n \in ToSet(redis'.queue) => \A d \in Conn : received'[d][n] = 0
                        /\ \A d \in Conn : received'[d][n] <= 1
      BY <2>2 DEF OneSource
    <3>1. CASE n \in sending[a].note
      <4>1. /\ n \notin ToSet(redis'.queue) /\ \A b \in Agent : n \in sending'[b].note => b = a
        BY <3>1, <2>2, <2>4, <1>t DEF OneSource
      <4>2. \A d \in sending'[a].list : received'[d][n] = 0
        BY <3>1, <2>4, <2>5, <1>s, <1>t DEF OneSource, Sending
      <4>3. \A d \in Conn : received'[d][n] <= 1
        <5>1. received[c][n] = 0 /\ \A d \in Conn : received[d][n] <= 1 BY <3>1, <1>t DEF OneSource
        <5> QED BY <5>1, <2>5
      <4> QED BY <4>1, <4>2, <4>3
    <3>2. CASE n \notin sending[a].note
      <4>1. \A d \in Conn : received'[d][n] = received[d][n] BY <3>2, <2>5
      <4>2. \A b \in Agent : n \in sending'[b].note =>
                /\ n \notin ToSet(redis.queue) /\ \A d \in Agent : n \in sending[d].note => d = b
                /\ sending'[b].list = sending[b].list /\ \A d \in sending[b].list : received[d][n] = 0
        BY <3>2, <2>4, <1>t DEF OneSource
      <4>3. \A b \in Agent : sending[b].list \subseteq Conn BY <1>s DEF Sending
      <4> QED BY <4>1, <4>2, <4>3, <2>2, <2>4, <1>t DEF OneSource
    <3> QED BY <3>1, <3>2
  <2>10. Single(redis.queue)' BY <2>2, <1>t DEF Single
  <2> QED BY <2>6, <2>7, <2>8, <2>9, <2>10 DEF NoteInv
<1>6. ASSUME NEW a \in Agent, EndSend(a) PROVE NoteInv'
  <2>1. /\ Unlist([sending EXCEPT ![a] = Idle], sending[a].dead) /\ UNCHANGED <<socket, redis, faults, received, unsure, dropped>>
        /\ (a \in Note /\ End(a)) \/ UNCHANGED <<notePhase, row>>
    BY <1>6 DEF EndSend
  <2>2. Idle \in Sending /\ Idle.note = {} /\ Idle.list = {} BY DEF Idle, Sending
  <2>3. \A b \in Agent : /\ sending'[b] \in Sending /\ sending'[b].note \subseteq sending[b].note
                         /\ sending'[b].list \subseteq sending[b].list
    <3> DEFINE s == [sending EXCEPT ![a] = Idle]
    <3>1. \A b \in Agent : s[b] \in Sending /\ s[b].note \subseteq sending[b].note /\ s[b].list \subseteq sending[b].list
      BY <2>2, <1>t DEF NoteTypeOK
    <3>2. sending' = [b \in Agent |-> [s[b] EXCEPT !.shared = @ /\ sending[a].dead = {}]] BY <2>1 DEF Unlist
    <3> HIDE DEF s
    <3> QED BY <3>1, <3>2 DEF Sending
  <2>4. sending' \in [Agent -> Sending] /\ conns' \subseteq conns BY <2>1, <2>3 DEF Unlist
  <2>5. /\ notePhase' \in [Note -> NotePhase] /\ row' \in [Note -> NoteRow]
        /\ \A n \in Note : notePhase'[n] = "new" => notePhase[n] = "new"
    BY <2>1, <1>t DEF End, NoteTypeOK, NotePhase, NoteRow
  <2>6. NoteTypeOK' BY <2>1, <2>4, <2>5, <1>t DEF NoteTypeOK
  <2>7. Come' BY <2>1, <2>3, <2>4, <1>t DEF Come
  <2>8. Unpublished' BY <2>1, <2>3, <2>5, <1>t DEF Unpublished
  <2>9. OneSource' BY <2>1, <2>3, <1>t DEF OneSource
  <2>10. Single(redis.queue)' BY <2>1, <1>t DEF Single
  <2> QED BY <2>6, <2>7, <2>8, <2>9, <2>10 DEF NoteInv
<1>7. CASE Take
  <2>1. /\ redis.queue # <<>> /\ redis' = [redis EXCEPT !.queue = Tail(@)]
        /\ sending' = [sending EXCEPT !["subscriber"] = Begin(Head(redis.queue))]
        /\ UNCHANGED <<socket, conns, notePhase, row, faults, received, unsure, dropped>>
    BY <1>7 DEF Take
  <2> DEFINE n == Head(redis.queue)
  <2>2. redis.queue \in Seq(Note) BY <1>t DEF NoteTypeOK
  <2>3. /\ Tail(redis.queue) \in Seq(Note) /\ Single(Tail(redis.queue)) /\ n \in ToSet(redis.queue)
        /\ ToSet(Tail(redis.queue)) \subseteq ToSet(redis.queue) /\ n \notin ToSet(Tail(redis.queue))
    BY <2>1, <2>2, <1>t, Taken
  <2>4. n \in Note BY <2>2, <2>3 DEF ToSet
  <2>5. Begin(n) \in Sending /\ Begin(n).note = {n} /\ Begin(n).list = conns
    BY <2>4, <1>t DEF Begin, Sending, NoteTypeOK
  <2>6. redis'.queue = Tail(redis.queue) /\ redis' \in [up : BOOLEAN, listens : BOOLEAN, queue : Seq(Note)]
    BY <2>1, <2>3, <1>t DEF NoteTypeOK
  <2>7. /\ sending' \in [Agent -> Sending]
        /\ \A a \in Agent : sending'[a] = sending[a] \/ (a = "subscriber" /\ sending'[a] = Begin(n))
    BY <2>1, <2>5, <1>t DEF NoteTypeOK, Agent
  <2> HIDE DEF n
  <2>8. NoteTypeOK' BY <2>1, <2>6, <2>7, <1>t DEF NoteTypeOK
  <2>9. Come' BY <2>1, <2>5, <2>7, <1>t DEF Come
  <2>10. Unpublished' BY <2>1, <2>3, <2>5, <2>6, <2>7, <1>t DEF Unpublished
  <2>11. OneSource'
    <3> SUFFICES ASSUME NEW m \in Note \ unsure
                 PROVE  /\ \A a \in Agent : m \in sending'[a].note =>
                            /\ m \notin ToSet(redis'.queue) /\ \A b \in Agent : m \in sending'[b].note => b = a
                            /\ \A c \in sending'[a].list : received'[c][m] = 0
                        /\ m \in ToSet(redis'.queue) => \A c \in Conn : received'[c][m] = 0
                        /\ \A c \in Conn : received'[c][m] <= 1
      BY <2>1 DEF OneSource
    <3>1. CASE m = n
      <4>1. \A c \in Conn : received'[c][m] = 0 BY <3>1, <2>1, <2>3, <1>t DEF OneSource
      <4>2. \A a \in Agent : sending'[a].list \subseteq Conn BY <2>7 DEF Sending
      <4>3. \A a \in Agent : m \in sending'[a].note => a = "subscriber"
        BY <3>1, <2>3, <2>7, <1>t DEF OneSource
      <4> QED BY <3>1, <4>1, <4>2, <4>3, <2>3, <2>6
    <3>2. CASE m # n
      <4>1. \A a \in Agent : m \in sending'[a].note => sending'[a] = sending[a] BY <3>2, <2>5, <2>7
      <4>2. m \in ToSet(redis'.queue) => m \in ToSet(redis.queue) BY <2>3, <2>6
      <4> QED BY <3>2, <4>1, <4>2, <2>1, <1>t DEF OneSource
    <3> QED BY <3>1, <3>2
  <2>12. Single(redis.queue)' BY <2>3, <2>6 DEF Single
  <2> QED BY <2>8, <2>9, <2>10, <2>11, <2>12 DEF NoteInv
<1>8. CASE Listen \/ Away \/ Back \/ UNCHANGED noteVars
  <2>1. UNCHANGED <<socket, conns, sending, notePhase, row, received, unsure>>
    BY <1>8 DEF Listen, Away, Back, noteVars
  <2>2. redis' \in [up : BOOLEAN, listens : BOOLEAN, queue : Seq(Note)] /\ redis'.queue \in {redis.queue, <<>>}
    <3>1. redis \in [up : BOOLEAN, listens : BOOLEAN, queue : Seq(Note)] BY <1>t DEF NoteTypeOK
    <3>2. CASE Listen BY <3>1, <3>2 DEF Listen
    <3>3. CASE Away BY <3>3 DEF Away
    <3>4. CASE Back BY <3>1, <3>4 DEF Back
    <3>5. CASE UNCHANGED noteVars BY <3>1, <3>5 DEF noteVars
    <3> QED BY <1>8, <3>2, <3>3, <3>4, <3>5
  <2>3. ToSet(redis'.queue) \subseteq ToSet(redis.queue) /\ Single(redis'.queue)
    BY <2>2, <1>t DEF ToSet, Single
  <2>4. ToSet(redis.queue) \subseteq Note
    <3>1. redis.queue \in Seq(Note) BY <1>t DEF NoteTypeOK
    <3> QED BY <3>1 DEF ToSet
  <2>5. faults' \in 0..MaxFaults /\ dropped' \subseteq Note
    <3>1. faults \in 0..MaxFaults /\ dropped \subseteq Note BY <1>t DEF NoteTypeOK
    <3>2. CASE Away BY <3>1, <3>2, <2>4, NoteConstants DEF Away
    <3>3. CASE Listen \/ Back \/ UNCHANGED noteVars BY <3>1, <3>3 DEF Listen, Back, noteVars
    <3> QED BY <1>8, <3>2, <3>3
  <2>6. NoteTypeOK' BY <2>1, <2>2, <2>5, <1>t DEF NoteTypeOK
  <2>7. Come' /\ Unpublished' /\ OneSource' BY <2>1, <2>3, <1>t DEF Come, Unpublished, OneSource
  <2>8. Single(redis.queue)' BY <2>3 DEF Single
  <2> QED BY <2>6, <2>7, <2>8 DEF NoteInv
<1> QED BY <1>1, <1>2, <1>3, <1>4, <1>5, <1>6, <1>7, <1>8 DEF NoteNext

\* Every variable keeps its type.
THEOREM NotificationTypeCorrect == NoteSpec => []NoteTypeOK
<1>1. NoteInv => NoteTypeOK BY DEF NoteInv
<1> QED BY <1>1, NoteBegins, NoteKept, PTL DEF NoteSpec

\* A notification comes to a connection once, unless its publish took effect and
\* failed (create_and_push, send_to_user).
THEOREM ComesOnce == NoteSpec => []OncePerConnection
<1>1. NoteInv => OncePerConnection
  <2> SUFFICES ASSUME NoteInv, NEW c \in Conn, NEW n \in Note, received[c][n] > 1 PROVE n \in unsure
    BY DEF OncePerConnection
  <2>1. received[c][n] \in Nat BY DEF NoteInv, NoteTypeOK
  <2> QED BY <2>1 DEF NoteInv, OneSource
<1> QED BY <1>1, NoteBegins, NoteKept, PTL DEF NoteSpec

-----------------------------------------------------------------------------
(***************************************************************************)
(* The education programme, for any requests and courses                   *)
(***************************************************************************)

IsRow(b) == b = [there |-> b.there, badges |-> b.badges, completed |-> b.completed, quiz |-> b.quiz, total |-> b.total]
IsOwn(o) == /\ o = [step |-> o.step, rows |-> o.rows, badge |-> o.badge, points |-> o.points, loaded |-> o.loaded]
            /\ IsRow(o.points)

EduStates == {"none", "active", "completed"}
Enrolled  == {q \in EduRequest : enrolled[q] # "none"}

\* The types that the proof needs: rows have their columns, and what is counted
\* is finite.
EduShape ==
    /\ progress = [c \in Course |-> progress[c]]
    /\ enrolled \in [EduRequest -> EduStates]
    /\ IsFiniteSet(badges) /\ IsFiniteSet(quizzes) /\ IsFiniteSet(Enrolled)
    /\ IsRow(board) /\ board.there \in BOOLEAN /\ repeated \in BOOLEAN
    /\ eduPhase \in [EduRequest -> EduPhase]
    /\ own = [r \in EduRequest |-> own[r]]
    /\ \A r \in EduRequest : IsOwn(own[r]) /\ IsRow(own[r].loaded) /\ own[r].points.there \in BOOLEAN

\* What a request has read and decided, by the phase it is in.
OwnAt(r) ==
    /\ enrolled[r] # "none" => Kind(r) = "enroll" /\ eduPhase[r] = "done"
    /\ Kind(r) = "enroll" => eduPhase[r] \in {"new", "write", "done", "failed"}
    /\ eduPhase[r] \in {"new", "write"} => own[r].rows = {} /\ own[r].badge = {} /\ ~own[r].points.there
    /\ eduPhase[r] = "write" => Kind(r) \in {"advance", "enroll"}
    /\ eduPhase[r] = "badge" => /\ own[r].badge = {} /\ ~own[r].points.there
                                /\ Kind(r) \in {"advance", "update", "sync"}
    /\ eduPhase[r] \in {"count", "challenges", "average"} => ~own[r].points.there
    /\ own[r].rows \subseteq Enrolled /\ (Kind(r) \notin {"update", "sync"} => own[r].rows = {})
    /\ own[r].badge \subseteq {BadgeOf(r)} /\ (Kind(r) = "quiz" => own[r].badge = {})
    /\ eduPhase[r] \in {"count", "challenges", "average", "load", "commit"} /\ Kind(r) # "quiz" =>
            \/ own[r].badge = {BadgeOf(r)}
            \/ eduPhase[r] = "commit" /\ BadgeOf(r) \in badges /\ own[r].badge = {} /\ ~own[r].points.there
    /\ eduPhase[r] = "load" => own[r].points.there
    /\ eduPhase[r] = "commit" /\ ~own[r].points.there => own[r].badge = {} /\ Kind(r) # "quiz"

\* The counts of a request include no more than there will be once it commits;
\* and they are what there will be, over the row it has loaded, while no other
\* request has committed since it counted.
CountedAt(r) == r \in HasCounted =>
    /\ own[r].points.badges <= Cardinality(badges \cup own[r].badge) /\ own[r].points.badges \in Nat
    /\ entwined = {} => own[r].points.badges = Cardinality(badges \cup own[r].badge)
    /\ eduPhase[r] # "challenges" =>
        /\ own[r].points.completed <= Cardinality(Completed \cup own[r].rows) /\ own[r].points.completed \in Nat
        /\ entwined = {} => own[r].points.completed = Cardinality(Completed \cup First(own[r].rows))
    /\ eduPhase[r] \in {"load", "commit"} /\ entwined = {} =>
        /\ own[r].points = Score(badges \cup own[r].badge, Completed \cup First(own[r].rows),
                                 IF Kind(r) = "quiz" THEN quizzes \cup {r} ELSE quizzes)
        /\ eduPhase[r] = "commit" => own[r].loaded = board

\* The counts of the row are numbers, and never more than there are.
BoardCounts ==
    /\ board.badges \in Nat /\ board.badges <= Cardinality(badges)
    /\ board.completed \in Nat /\ board.completed <= Cardinality(Completed)

EduInv == /\ EduShape /\ EarnedIsShown /\ BoardCounts
          /\ \A r \in EduRequest : OwnAt(r) /\ CountedAt(r)

LEMMA FirstOfRows ==
    \A some : /\ First(some) \subseteq some
              /\ IsFiniteSet(some) /\ Cardinality(some) <= 1 => First(some) = some
<1> SUFFICES ASSUME NEW some
             PROVE  /\ First(some) \subseteq some
                    /\ IsFiniteSet(some) /\ Cardinality(some) <= 1 => First(some) = some
  OBVIOUS
<1>1. First(some) \subseteq some BY DEF First
<1>2. ASSUME IsFiniteSet(some), Cardinality(some) <= 1 PROVE First(some) = some
  <2>1. Cardinality(some) \in Nat BY <1>2, FS_CardinalityType
  <2>2. CASE Cardinality(some) = 0 
    <3>1. some = {} BY <1>2, <2>2, FS_EmptySet
    <3> QED BY <3>1 DEF First
  <2>3. CASE Cardinality(some) = 1
    <3>1. PICK x : some = {x} BY <1>2, <2>3, FS_Singleton
    <3> QED BY <3>1 DEF First
  <2> QED BY <1>2, <2>1, <2>2, <2>3
<1> QED BY <1>1, <1>2

LEMMA EduMoves ==
    ASSUME EduShape, NEW r \in EduRequest, NEW p \in EduPhase, EduTo(r, p)
    PROVE  /\ eduPhase' \in [EduRequest -> EduPhase] /\ eduPhase'[r] = p
           /\ \A q \in EduRequest \ {r} : eduPhase'[q] = eduPhase[q]
BY DEF EduTo, EduShape

LEMMA EduBegins == EduInit => EduInv
<1> SUFFICES ASSUME EduInit PROVE EduInv OBVIOUS
<1>1. /\ \A r \in EduRequest : /\ own[r] = NothingOwn /\ enrolled[r] = "none"
                               /\ eduPhase[r] \in {"new", "failed"}
      /\ board = NoPoints /\ badges = {} /\ quizzes = {}
  BY DEF EduInit
<1>2. Enrolled = {} /\ Completed = {} /\ HasCounted = {} BY <1>1 DEF Enrolled, Completed, HasCounted
<1>3. IsRow(NoPoints) /\ ~NoPoints.there /\ IsOwn(NothingOwn) BY DEF IsRow, NoPoints, IsOwn, NothingOwn
<1>4. EduShape
  <2>1. IsFiniteSet(badges) /\ IsFiniteSet(quizzes) /\ IsFiniteSet(Enrolled) BY <1>1, <1>2, FS_EmptySet
  <2>2. \A r \in EduRequest : IsOwn(own[r]) /\ IsRow(own[r].loaded) /\ own[r].points.there \in BOOLEAN
    <3>1. NothingOwn.loaded = NoPoints /\ NothingOwn.points = NoPoints BY DEF NothingOwn
    <3>2. NoPoints.there = FALSE BY DEF NoPoints
    <3> QED BY <1>1, <1>3, <3>1, <3>2
  <2>3. eduPhase \in [EduRequest -> EduPhase] /\ enrolled \in [EduRequest -> EduStates]
    BY DEF EduInit, EduPhase, EduStates
  <2>4. board.there \in BOOLEAN /\ IsRow(board) /\ repeated \in BOOLEAN
    <3>1. NoPoints.there = FALSE BY DEF NoPoints
    <3>2. repeated = FALSE BY DEF EduInit
    <3> QED BY <1>1, <1>3, <3>1, <3>2
  <2>5. progress = [c \in Course |-> progress[c]] /\ own = [r \in EduRequest |-> own[r]] BY DEF EduInit
  <2> QED BY <2>1, <2>2, <2>3, <2>4, <2>5 DEF EduShape
<1>5. EarnedIsShown /\ BoardCounts
  <2>1. EarnedIsShown
    BY <1>1, <1>2, <1>3 DEF EarnedIsShown, CompletedHasBadge, BoardFollowsRows, EduInit
  <2>2. NoPoints.badges = 0 /\ NoPoints.completed = 0 BY DEF NoPoints
  <2>3. Cardinality(badges) = 0 /\ Cardinality(Completed) = 0 BY <1>1, <1>2, FS_EmptySet
  <2>4. BoardCounts BY <1>1, <2>2, <2>3 DEF BoardCounts
  <2> QED BY <2>1, <2>4
<1>6. \A r \in EduRequest : OwnAt(r) /\ CountedAt(r)
  BY <1>1, <1>2 DEF OwnAt, CountedAt, NothingOwn, NoPoints
<1> QED BY <1>4, <1>5, <1>6 DEF EduInv
-----------------------------------------------------------------------------
\* A request that reads or counts, and writes no table.
LEMMA EduAside ==
    ASSUME EduInv, TablesKept, NEW r \in EduRequest, NEW p \in EduPhase, EduTo(r, p),
           own' = [q \in EduRequest |-> own'[q]], \A q \in EduRequest \ {r} : own'[q] = own[q],
           IsOwn(own'[r]), IsRow(own'[r].loaded), own'[r].points.there \in BOOLEAN,
           OwnAt(r)', CountedAt(r)'
    PROVE  EduInv'
<1>1. EduShape /\ EarnedIsShown /\ BoardCounts /\ \A q \in EduRequest : OwnAt(q) /\ CountedAt(q) BY DEF EduInv
<1>2. /\ eduPhase' \in [EduRequest -> EduPhase] /\ \A q \in EduRequest \ {r} : eduPhase'[q] = eduPhase[q]
  BY <1>1, EduMoves
<1>3. Enrolled' = Enrolled /\ Completed' = Completed BY DEF TablesKept, Enrolled, Completed
<1>4. EduShape'
  <2>1. \A q \in EduRequest : IsOwn(own'[q]) /\ IsRow(own'[q].loaded) /\ own'[q].points.there \in BOOLEAN
    BY <1>1 DEF EduShape
  <2>2. IsRow(board)' BY <1>1 DEF TablesKept, EduShape, IsRow
  <2>3. \A q \in EduRequest : IsOwn(own[q])' /\ IsRow(own[q].loaded)' /\ (own[q].points.there \in BOOLEAN)'
    BY <2>1 DEF IsOwn, IsRow
  <2> QED BY <1>1, <1>2, <1>3, <2>2, <2>3 DEF EduShape, TablesKept
<1>5. EarnedIsShown' /\ BoardCounts'
  BY <1>1, <1>3 DEF EarnedIsShown, CompletedHasBadge, BoardFollowsRows, BoardCounts, TablesKept
<1>6. ASSUME NEW q \in EduRequest \ {r} PROVE OwnAt(q)' /\ CountedAt(q)'
  <2>1. own'[q] = own[q] /\ eduPhase'[q] = eduPhase[q] /\ OwnAt(q) /\ CountedAt(q) BY <1>1, <1>2
  <2>2. OwnAt(q)' BY <2>1, <1>3 DEF OwnAt, TablesKept, BadgeOf, Kind
  <2>3. q \in HasCounted' <=> q \in HasCounted BY <2>1 DEF HasCounted
  <2>4. CountedAt(q)' BY <2>1, <2>3, <1>3 DEF CountedAt, TablesKept, Kind
  <2> QED BY <2>2, <2>4
<1> QED BY <1>4, <1>5, <1>6 DEF EduInv

LEMMA EduReads ==
    ASSUME EduInv, NEW r \in EduRequest,
           ReadProgress(r) \/ ReadActive(r) \/ ReadChallenge(r) \/ AddScore(r) \/ Award(r) \/ Load(r)
    PROVE  EduInv'
<1>1. EduShape /\ OwnAt(r) /\ CountedAt(r) BY DEF EduInv
<1>2. own[r] = [step |-> own[r].step, rows |-> own[r].rows, badge |-> own[r].badge,
                points |-> own[r].points, loaded |-> own[r].loaded]
      /\ IsOwn(own[r]) /\ IsRow(own[r].loaded) /\ own[r].points.there \in BOOLEAN
  BY <1>1 DEF EduShape, IsOwn
<1>3. /\ own = [q \in EduRequest |-> own[q]]
      /\ \A p \in EduPhase : EduTo(r, p) => eduPhase'[r] = p
  BY <1>1, EduMoves DEF EduShape
<1>4. \A p \in {"new", "write", "badge", "count", "load", "commit", "done", "failed"} : p \in EduPhase BY DEF EduPhase
<1>5. CASE ReadProgress(r)
  <2>p. PICK p \in {"done", "badge", "write"} : \E step :
          EduTo(r, p) /\ own' = [own EXCEPT ![r].step = step] /\ TablesKept /\ eduPhase[r] = "new" /\ Kind(r) = "advance"
    <3> DEFINE c == EduAsks[r].course
               next == Min({progress[c].step + 1, Steps[c]})
               step == IF progress[c].completed THEN 0 ELSE next
               p == IF progress[c].completed THEN "done"
                    ELSE IF progress[c].step > 0 /\ next = Steps[c] THEN "badge" ELSE "write"
    <3>1. EduTo(r, p) /\ own' = [own EXCEPT ![r].step = step] /\ TablesKept /\ eduPhase[r] = "new" /\ Kind(r) = "advance"
      BY <1>5 DEF ReadProgress, EduAt
    <3>2. p \in {"done", "badge", "write"} OBVIOUS
    <3> HIDE DEF p, step
    <3> QED BY <3>1, <3>2
  <2>1. PICK step :
          EduTo(r, p) /\ own' = [own EXCEPT ![r].step = step] /\ TablesKept /\ eduPhase[r] = "new" /\ Kind(r) = "advance"
    BY <2>p
  <2>2. /\ own'[r] = [step |-> step, rows |-> own[r].rows, badge |-> own[r].badge,
                      points |-> own[r].points, loaded |-> own[r].loaded]
        /\ own' = [q \in EduRequest |-> own'[q]] /\ \A q \in EduRequest \ {r} : own'[q] = own[q]
    BY <2>1, <1>2, <1>3
  <2>3. IsOwn(own'[r]) BY <1>2, <2>2 DEF IsOwn
  <2>4. OwnAt(r)' BY <2>1, <2>2, <1>1, <1>3, <1>4 DEF OwnAt, TablesKept, Enrolled, BadgeOf, Kind
  <2>5. r \notin HasCounted' BY <2>1, <1>3, <1>4 DEF HasCounted
  <2>6. CountedAt(r)' BY <2>5 DEF CountedAt
  <2> QED BY <2>1, <2>2, <2>3, <2>4, <2>6, <1>2, <1>4, EduAside
<1>6. CASE ReadActive(r)
  <2>1. PICK p \in {"write", "done", "failed"} :
          EduTo(r, p) /\ own' = own /\ TablesKept /\ eduPhase[r] = "new" /\ Kind(r) = "enroll"
    BY <1>6 DEF ReadActive, EduAt
  <2>2. IsOwn(own'[r]) BY <2>1, <1>2
  <2>4. OwnAt(r)' BY <2>1, <1>1, <1>3, <1>4 DEF OwnAt, TablesKept, Enrolled, BadgeOf, Kind
  <2>5. r \notin HasCounted' BY <2>1, <1>3, <1>4 DEF HasCounted
  <2>6. CountedAt(r)' BY <2>5 DEF CountedAt
  <2> QED BY <2>1, <2>2, <2>4, <2>6, <1>2, <1>3, <1>4, EduAside
<1>7. CASE ReadChallenge(r)
  <2>1. PICK full \in SUBSET Active, p \in {"done", "badge", "failed"} :
          /\ EduTo(r, p) /\ TablesKept /\ eduPhase[r] = "new" /\ Kind(r) \in {"update", "sync"}
          /\ own' = own \/ own' = [own EXCEPT ![r].rows = full]
    BY <1>7 DEF ReadChallenge, EduAt
  <2>2. PICK some : /\ own'[r] = [step |-> own[r].step, rows |-> some, badge |-> own[r].badge,
                                  points |-> own[r].points, loaded |-> own[r].loaded]
                    /\ some \in {own[r].rows, full}
                    /\ own' = [q \in EduRequest |-> own'[q]] /\ \A q \in EduRequest \ {r} : own'[q] = own[q]
    <3>1. CASE own' = own BY <3>1, <1>2, <1>3
    <3>2. CASE own' = [own EXCEPT ![r].rows = full] BY <3>2, <1>2, <1>3
    <3> QED BY <2>1, <3>1, <3>2
  <2>3. IsOwn(own'[r]) BY <1>2, <2>2 DEF IsOwn
  <2>4. full \subseteq Enrolled BY DEF Active, Enrolled
  <2>5. OwnAt(r)' BY <2>1, <2>2, <2>4, <1>1, <1>3, <1>4 DEF OwnAt, TablesKept, Enrolled, BadgeOf, Kind
  <2>6. r \notin HasCounted' BY <2>1, <1>3, <1>4 DEF HasCounted
  <2>7. CountedAt(r)' BY <2>6 DEF CountedAt
  <2> QED BY <2>1, <2>2, <2>3, <2>5, <2>7, <1>2, <1>4, EduAside
<1>8. CASE AddScore(r)
  <2>1. EduTo(r, "count") /\ own' = own /\ TablesKept /\ eduPhase[r] = "new" /\ Kind(r) = "quiz"
    BY <1>8 DEF AddScore, EduAt
  <2>2. IsOwn(own'[r]) BY <2>1, <1>2
  <2>4. OwnAt(r)' BY <2>1, <1>1, <1>3, <1>4 DEF OwnAt, TablesKept, Enrolled, BadgeOf, Kind
  <2>5. r \notin HasCounted' BY <2>1, <1>3, <1>4 DEF HasCounted
  <2>6. CountedAt(r)' BY <2>5 DEF CountedAt
  <2> QED BY <2>1, <2>2, <2>4, <2>6, <1>2, <1>3, <1>4, EduAside
<1>9. CASE Award(r)
  <2>1. /\ TablesKept /\ eduPhase[r] = "badge"
        /\ \/ BadgeOf(r) \in badges /\ EduTo(r, "commit") /\ own' = own
           \/ EduTo(r, "count") /\ own' = [own EXCEPT ![r].badge = {BadgeOf(r)}]
    BY <1>9 DEF Award, EduAt
  <2>2. PICK badge : /\ own'[r] = [step |-> own[r].step, rows |-> own[r].rows, badge |-> badge,
                                   points |-> own[r].points, loaded |-> own[r].loaded]
                     /\ \/ badge = own[r].badge /\ EduTo(r, "commit") /\ BadgeOf(r) \in badges
                        \/ badge = {BadgeOf(r)} /\ EduTo(r, "count")
                     /\ own' = [q \in EduRequest |-> own'[q]] /\ \A q \in EduRequest \ {r} : own'[q] = own[q]
    <3>1. CASE BadgeOf(r) \in badges /\ EduTo(r, "commit") /\ own' = own BY <3>1, <1>2, <1>3
    <3>2. CASE EduTo(r, "count") /\ own' = [own EXCEPT ![r].badge = {BadgeOf(r)}] BY <3>2, <1>2, <1>3
    <3> QED BY <2>1, <3>1, <3>2
  <2>3. IsOwn(own'[r]) BY <1>2, <2>2 DEF IsOwn
  <2>4. PICK p \in {"commit", "count"} : EduTo(r, p) BY <2>1
  <2>5. BadgeOf(r)' = BadgeOf(r) /\ Kind(r)' = Kind(r) BY DEF BadgeOf, Kind
  <2>6. OwnAt(r)' BY <2>1, <2>2, <2>5, <1>1, <1>3, <1>4 DEF OwnAt, TablesKept, Enrolled
  <2>7. r \notin HasCounted' BY <2>1, <2>2, <1>1, <1>3, <1>4 DEF HasCounted, OwnAt
  <2>8. CountedAt(r)' BY <2>7 DEF CountedAt
  <2> QED BY <2>1, <2>2, <2>3, <2>4, <2>6, <2>8, <1>2, <1>4, EduAside
<1>10. CASE Load(r)
  <2>1. /\ TablesKept /\ eduPhase[r] = "load" /\ EduTo(r, "commit")
        /\ own' = [own EXCEPT ![r].loaded = board]
    BY <1>10 DEF Load, EduAt
  <2>2. /\ own'[r] = [step |-> own[r].step, rows |-> own[r].rows, badge |-> own[r].badge,
                      points |-> own[r].points, loaded |-> board]
        /\ own' = [q \in EduRequest |-> own'[q]] /\ \A q \in EduRequest \ {r} : own'[q] = own[q]
    BY <2>1, <1>2, <1>3
  <2>3. IsOwn(own'[r]) BY <1>2, <2>2 DEF IsOwn
  <2>4. IsRow(own'[r].loaded) BY <2>2, <1>1 DEF EduShape
  <2>5. BadgeOf(r)' = BadgeOf(r) /\ Kind(r)' = Kind(r) BY DEF BadgeOf, Kind
  <2>6. OwnAt(r)' BY <2>1, <2>2, <2>5, <1>1, <1>3, <1>4 DEF OwnAt, TablesKept, Enrolled
  <2>7. r \in HasCounted BY <2>1, <1>1 DEF HasCounted, OwnAt
  <2>8. CountedAt(r)'
    BY <2>1, <2>2, <2>5, <2>7, <1>1 DEF CountedAt, TablesKept, Completed
  <2> QED BY <2>1, <2>2, <2>3, <2>4, <2>6, <2>8, <1>2, <1>4, EduAside
<1> QED BY <1>5, <1>6, <1>7, <1>8, <1>9, <1>10
-----------------------------------------------------------------------------
LEMMA FiniteRows ==
    ASSUME EduInv
    PROVE  /\ IsFiniteSet(badges) /\ IsFiniteSet(Completed)
           /\ \A r \in EduRequest : /\ IsFiniteSet(badges \cup own[r].badge)
                                    /\ IsFiniteSet(own[r].rows) /\ IsFiniteSet(Completed \cup own[r].rows)
                                    /\ IsFiniteSet(own[r].badge) /\ Cardinality(own[r].badge) <= 1
<1>1. IsFiniteSet(badges) /\ IsFiniteSet(Enrolled) /\ \A r \in EduRequest : OwnAt(r) BY DEF EduInv, EduShape
<1>2. Completed \subseteq Enrolled BY DEF Completed, Enrolled
<1>3. IsFiniteSet(Completed) BY <1>1, <1>2, FS_Subset
<1>4. ASSUME NEW r \in EduRequest
      PROVE  /\ IsFiniteSet(badges \cup own[r].badge) /\ IsFiniteSet(own[r].rows)
             /\ IsFiniteSet(Completed \cup own[r].rows)
             /\ IsFiniteSet(own[r].badge) /\ Cardinality(own[r].badge) <= 1
  <2>1. own[r].badge = {} \/ own[r].badge = {BadgeOf(r)} BY <1>1 DEF OwnAt
  <2>2. IsFiniteSet(own[r].badge) /\ Cardinality(own[r].badge) <= 1
    <3>1. CASE own[r].badge = {} BY <3>1, FS_EmptySet
    <3>2. CASE own[r].badge = {BadgeOf(r)} 
      <4>1. Cardinality(own[r].badge) = 1 /\ IsFiniteSet(own[r].badge) BY <3>2, FS_Singleton
      <4> QED BY <4>1
    <3> QED BY <2>1, <3>1, <3>2
  <2>3. IsFiniteSet(badges \cup own[r].badge) BY <1>1, <2>2, FS_Union
  <2>4. own[r].rows \subseteq Enrolled BY <1>1 DEF OwnAt
  <2>5. IsFiniteSet(own[r].rows) BY <1>1, <2>4, FS_Subset
  <2>6. IsFiniteSet(Completed \cup own[r].rows) BY <1>3, <2>5, FS_Union
  <2> QED BY <2>2, <2>3, <2>5, <2>6
<1> QED BY <1>1, <1>3, <1>4

LEMMA EduCounts ==
    ASSUME EduInv, NEW r \in EduRequest, Count(r) \/ CountChallenges(r) \/ AverageScores(r) PROVE EduInv'
<1>1. EduShape /\ OwnAt(r) /\ CountedAt(r) BY DEF EduInv
<1> DEFINE bs == badges \cup own[r].badge
           done == Completed \cup First(own[r].rows)
           qs == IF Kind(r) = "quiz" THEN quizzes \cup {r} ELSE quizzes
<1>2. /\ own[r] = [step |-> own[r].step, rows |-> own[r].rows, badge |-> own[r].badge,
                   points |-> own[r].points, loaded |-> own[r].loaded]
      /\ IsRow(own[r].loaded) /\ IsRow(own[r].points) /\ own = [q \in EduRequest |-> own[q]]
      /\ own[r].points.there \in BOOLEAN
  BY <1>1 DEF EduShape, IsOwn
<1>3. IsFiniteSet(bs) /\ IsFiniteSet(Completed \cup own[r].rows) /\ done \subseteq Completed \cup own[r].rows
  BY FiniteRows, FirstOfRows
<1>4. IsFiniteSet(done) /\ Cardinality(done) <= Cardinality(Completed \cup own[r].rows)
  <2>1. done \in SUBSET (Completed \cup own[r].rows) BY <1>3
  <2> HIDE DEF done
  <2> QED BY <2>1, <1>3, FS_Subset
<1>5. Cardinality(bs) \in Nat /\ Cardinality(done) \in Nat BY <1>3, <1>4, FS_CardinalityType
<1>6. PICK points : /\ own' = [own EXCEPT ![r].points = points]
                    /\ \/ /\ eduPhase[r] = "count" /\ EduTo(r, "challenges")
                          /\ points = [own[r].points EXCEPT !.badges = Cardinality(bs)]
                       \/ /\ eduPhase[r] = "challenges" /\ EduTo(r, "average")
                          /\ points = [own[r].points EXCEPT !.completed = Cardinality(done)]
                       \/ /\ eduPhase[r] = "average" /\ EduTo(r, "load")
                          /\ points = PointsOf(own[r].points.badges, own[r].points.completed, Average(qs))
  <2>1. CASE Count(r)
    <3>1. own' = [own EXCEPT ![r].points.badges = Cardinality(bs)] /\ eduPhase[r] = "count" /\ EduTo(r, "challenges")
      BY <2>1 DEF Count, EduAt
    <3> DEFINE points == [own[r].points EXCEPT !.badges = Cardinality(bs)]
    <3>2. own' = [own EXCEPT ![r].points = points] BY <3>1
    <3> QED BY <3>1, <3>2
  <2>2. CASE CountChallenges(r)
    <3>1. own' = [own EXCEPT ![r].points.completed = Cardinality(done)]
          /\ eduPhase[r] = "challenges" /\ EduTo(r, "average")
      BY <2>2 DEF CountChallenges, EduAt
    <3> DEFINE points == [own[r].points EXCEPT !.completed = Cardinality(done)]
    <3>2. own' = [own EXCEPT ![r].points = points] BY <3>1
    <3> QED BY <3>1, <3>2
  <2>3. CASE AverageScores(r) BY <2>3 DEF AverageScores, EduAt
  <2> QED BY <2>1, <2>2, <2>3
<1>7. TablesKept /\ UNCHANGED held BY DEF Count, CountChallenges, AverageScores
<1>8. /\ own'[r] = [step |-> own[r].step, rows |-> own[r].rows, badge |-> own[r].badge,
                    points |-> points, loaded |-> own[r].loaded]
      /\ own' = [q \in EduRequest |-> own'[q]] /\ \A q \in EduRequest \ {r} : own'[q] = own[q]
  BY <1>2, <1>6
<1>9. BadgeOf(r)' = BadgeOf(r) /\ Kind(r)' = Kind(r) BY DEF BadgeOf, Kind
<1>10. Completed' = Completed /\ badges' = badges /\ quizzes' = quizzes /\ entwined' = entwined /\ Enrolled' = Enrolled
      /\ enrolled' = enrolled
  BY <1>7 DEF TablesKept, Completed, Enrolled
<1>11. /\ badges' \cup own'[r].badge = bs /\ Completed' \cup own'[r].rows = Completed \cup own[r].rows
       /\ Completed' \cup First(own'[r].rows) = done /\ own'[r].points = points
       /\ (IF Kind(r)' = "quiz" THEN quizzes' \cup {r} ELSE quizzes') = qs
  BY <1>8, <1>9, <1>10
<1> DEFINE was == own[r].points
<1>12. was = [there |-> was.there, badges |-> was.badges, completed |-> was.completed, quiz |-> was.quiz, total |-> was.total]
  BY <1>2 DEF IsRow
<1> HIDE DEF bs, done, qs, was
<1>13. ASSUME NEW p \in EduPhase, EduTo(r, p), IsRow(points), points.there \in BOOLEAN, OwnAt(r)', CountedAt(r)'
       PROVE  EduInv'
  <2>1. IsOwn(own'[r]) BY <1>8, <1>13 DEF IsOwn
  <2>2. IsRow(own'[r].loaded) /\ own'[r].points.there \in BOOLEAN BY <1>2, <1>8, <1>13
  <2> QED BY <1>7, <1>8, <1>13, <2>1, <2>2, EduAside
<1>14. "challenges" \in EduPhase /\ "average" \in EduPhase /\ "load" \in EduPhase BY DEF EduPhase
<1>15. ASSUME eduPhase[r] = "count", EduTo(r, "challenges"),
              points = [was EXCEPT !.badges = Cardinality(bs)]
       PROVE  EduInv'
  <2>1. /\ points = [there |-> was.there, badges |-> Cardinality(bs), completed |-> was.completed,
                     quiz |-> was.quiz, total |-> was.total]
        /\ eduPhase'[r] = "challenges"
    BY <1>12, <1>15, <1>1, <1>14, EduMoves
  <2>2. IsRow(points) /\ points.there = was.there /\ points.badges = Cardinality(bs) BY <2>1 DEF IsRow
  <2>3. OwnAt(r)' BY <1>15, <2>1, <2>2, <1>8, <1>9, <1>10, <1>1 DEF OwnAt, was
  <2>4. Cardinality(bs) <= Cardinality(bs) BY <1>5
  <2>5. CountedAt(r)' BY <2>1, <2>2, <2>4, <1>11, <1>5 DEF CountedAt
  <2>6. points.there \in BOOLEAN BY <2>2, <1>2 DEF was
  <2> QED BY <1>13, <1>14, <1>15, <2>2, <2>3, <2>5, <2>6
<1>16. ASSUME eduPhase[r] = "challenges", EduTo(r, "average"),
              points = [was EXCEPT !.completed = Cardinality(done)]
       PROVE  EduInv'
  <2>1. /\ points = [there |-> was.there, badges |-> was.badges, completed |-> Cardinality(done),
                     quiz |-> was.quiz, total |-> was.total]
        /\ eduPhase'[r] = "average"
    BY <1>12, <1>16, <1>1, <1>14, EduMoves
  <2>2. /\ IsRow(points) /\ points.there = was.there /\ points.badges = was.badges
        /\ points.completed = Cardinality(done)
    BY <2>1 DEF IsRow
  <2>3. OwnAt(r)' BY <1>16, <2>1, <2>2, <1>8, <1>9, <1>10, <1>1 DEF OwnAt, was
  <2>4. /\ was.badges <= Cardinality(bs) /\ was.badges \in Nat /\ (entwined = {} => was.badges = Cardinality(bs))
    BY <1>1, <1>16 DEF CountedAt, HasCounted, was, bs
  <2>5. CountedAt(r)' BY <2>1, <2>2, <2>4, <1>4, <1>10, <1>11, <1>5 DEF CountedAt
  <2>6. points.there \in BOOLEAN BY <2>2, <1>2 DEF was
  <2> QED BY <1>13, <1>14, <1>16, <2>2, <2>3, <2>5, <2>6
<1>17. ASSUME eduPhase[r] = "average", EduTo(r, "load"),
              points = PointsOf(was.badges, was.completed, Average(qs))
       PROVE  EduInv'
  <2>1. eduPhase'[r] = "load" BY <1>17, <1>1, <1>14, EduMoves
  <2>2. /\ IsRow(points) /\ points.there = TRUE /\ points.badges = was.badges
        /\ points.completed = was.completed
    BY <1>17 DEF IsRow, PointsOf
  <2>3. OwnAt(r)' BY <1>17, <2>1, <2>2, <1>8, <1>9, <1>10, <1>1 DEF OwnAt, was
  <2>4. /\ was.badges <= Cardinality(bs) /\ was.badges \in Nat /\ (entwined = {} => was.badges = Cardinality(bs))
        /\ was.completed <= Cardinality(Completed \cup own[r].rows) /\ was.completed \in Nat
        /\ (entwined = {} => was.completed = Cardinality(done))
    BY <1>1, <1>17 DEF CountedAt, HasCounted, was, bs, done
  <2>5. entwined = {} => points = Score(bs, done, qs) BY <1>17, <2>4 DEF Score
  <2>6. CountedAt(r)' BY <2>1, <2>2, <2>4, <2>5, <1>10, <1>11 DEF CountedAt
  <2> QED BY <1>13, <1>14, <1>17, <2>2, <2>3, <2>6
<1> QED BY <1>6, <1>15, <1>16, <1>17 DEF was

\* enroll_challenge commits a row that no other request writes.
LEMMA EduEnrolls == ASSUME EduInv, NEW r \in EduRequest, Enroll(r) PROVE EduInv'
<1>1. EduShape /\ EarnedIsShown /\ BoardCounts /\ \A q \in EduRequest : OwnAt(q) /\ CountedAt(q) BY DEF EduInv
<1>2. /\ eduPhase[r] = "write" /\ Kind(r) = "enroll" /\ EduTo(r, "done")
      /\ enrolled' = [enrolled EXCEPT ![r] = "active"]
      /\ UNCHANGED <<progress, badges, quizzes, board, held, own, entwined, repeated>>
  BY DEF Enroll, EduAt
<1>3. /\ eduPhase' \in [EduRequest -> EduPhase] /\ eduPhase'[r] = "done"
      /\ \A q \in EduRequest \ {r} : eduPhase'[q] = eduPhase[q]
  BY <1>1, <1>2, EduMoves DEF EduPhase
<1>4. enrolled[r] = "none" BY <1>1, <1>2 DEF OwnAt, EduShape
<1>5. /\ enrolled' \in [EduRequest -> EduStates] /\ enrolled'[r] = "active"
      /\ \A q \in EduRequest \ {r} : enrolled'[q] = enrolled[q]
  BY <1>1, <1>2 DEF EduShape, EduStates
<1>6. Enrolled' = Enrolled \cup {r} /\ Completed' = Completed BY <1>4, <1>5 DEF Enrolled, Completed
<1>7. EduShape'
  <2>1. IsFiniteSet(Enrolled') BY <1>1, <1>6, FS_AddElement DEF EduShape
  <2>2. IsRow(board)' BY <1>1, <1>2 DEF EduShape, IsRow
  <2>3. \A q \in EduRequest : IsOwn(own[q])' /\ IsRow(own[q].loaded)' /\ (own[q].points.there \in BOOLEAN)'
    BY <1>1, <1>2 DEF EduShape, IsOwn, IsRow
  <2> QED BY <1>1, <1>2, <1>3, <1>5, <2>1, <2>2, <2>3 DEF EduShape
<1>8. EarnedIsShown' /\ BoardCounts'
  BY <1>1, <1>2, <1>6 DEF EarnedIsShown, CompletedHasBadge, BoardFollowsRows, BoardCounts
<1>9. ASSUME NEW q \in EduRequest PROVE OwnAt(q)' /\ CountedAt(q)'
  <2>0. BadgeOf(q)' = BadgeOf(q) /\ Kind(q)' = Kind(q) BY DEF BadgeOf, Kind
  <2>1. own'[q] = own[q] /\ OwnAt(q) /\ CountedAt(q) BY <1>1, <1>2
  <2>2. OwnAt(q)' BY <2>0, <2>1, <1>1, <1>2, <1>3, <1>5, <1>6 DEF OwnAt
  <2>3. q \in HasCounted' <=> q \in HasCounted BY <2>1, <1>2, <1>3 DEF HasCounted
  <2>4. CountedAt(q)'
    <3>1. q \in HasCounted' => q # r BY <2>3, <1>2 DEF HasCounted
    <3> QED BY <2>0, <2>1, <2>3, <3>1, <1>2, <1>3, <1>6 DEF CountedAt, IsRow
  <2> QED BY <2>2, <2>4
<1> QED BY <1>7, <1>8, <1>9 DEF EduInv
-----------------------------------------------------------------------------
\* The row of the leaderboard after a commit: every column is the counted one or
\* the one that was there.
LEMMA WrittenRow ==
    ASSUME EduInv, NEW r \in EduRequest, own[r].points.there
    PROVE  /\ IsRow(Written(r))
           /\ Written(r).badges \in {own[r].points.badges, board.badges}
           /\ Written(r).completed \in {own[r].points.completed, board.completed}
           /\ Written(r).there \in BOOLEAN
           /\ own[r].loaded = board => Written(r) = own[r].points
<1>1. EduShape BY DEF EduInv
<1> DEFINE b == board
           p == own[r].points
           l == own[r].loaded
<1>2. /\ b = [there |-> b.there, badges |-> b.badges, completed |-> b.completed, quiz |-> b.quiz, total |-> b.total]
      /\ p = [there |-> p.there, badges |-> p.badges, completed |-> p.completed, quiz |-> p.quiz, total |-> p.total]
      /\ p.there /\ b.there \in BOOLEAN /\ p.there \in BOOLEAN
  BY <1>1 DEF EduShape, IsOwn, IsRow
<1>3. DOMAIN b = {"there", "badges", "completed", "quiz", "total"} BY <1>2
<1>4. Written(r) = [f \in {"there", "badges", "completed", "quiz", "total"} |-> IF p[f] # l[f] THEN p[f] ELSE b[f]]
  BY <1>2, <1>3 DEF Written
<1> HIDE DEF b, p, l
<1>5. /\ Written(r).badges = IF p.badges # l.badges THEN p.badges ELSE b.badges
      /\ Written(r).completed = IF p.completed # l.completed THEN p.completed ELSE b.completed
      /\ Written(r).there = IF p.there # l.there THEN p.there ELSE b.there
  BY <1>4
<1>6. IsRow(Written(r)) BY <1>4 DEF IsRow
<1>7. l = b => Written(r) = p BY <1>4, <1>2
<1> QED BY <1>2, <1>5, <1>6, <1>7 DEF b, p, l

LEMMA MoreIsMore == ASSUME NEW S, NEW T, IsFiniteSet(T), S \subseteq T
                    PROVE  /\ Cardinality(S) \in Nat /\ Cardinality(T) \in Nat
                           /\ Cardinality(S) <= Cardinality(T)
<1>1. IsFiniteSet(S) /\ Cardinality(S) <= Cardinality(T) BY FS_Subset
<1> QED BY <1>1, FS_CardinalityType

LEMMA EduCommits == ASSUME EduInv, NEW r \in EduRequest, Commit(r) PROVE EduInv'
<1>1. EduShape /\ EarnedIsShown /\ BoardCounts /\ \A q \in EduRequest : OwnAt(q) /\ CountedAt(q) BY DEF EduInv
<1>2. /\ eduPhase[r] \in {"commit", "write"} /\ (eduPhase[r] = "write" => Kind(r) = "advance")
      /\ own' = own
  BY DEF Commit, EduAt
<1>a. \A q \in EduRequest : BadgeOf(q)' = BadgeOf(q) /\ Kind(q)' = Kind(q) BY DEF BadgeOf, Kind
<1>3. CASE EduTo(r, "failed") /\ UNCHANGED <<progress, enrolled, badges, quizzes, board, own, entwined, repeated>>
  <2>1. "failed" \in EduPhase /\ eduPhase'[r] = "failed" BY <1>1, <1>3, EduMoves DEF EduPhase
  <2>2. TablesKept BY <1>3 DEF TablesKept
  <2>3. IsOwn(own'[r]) /\ IsRow(own'[r].loaded) /\ own'[r].points.there \in BOOLEAN
    BY <1>1, <1>2 DEF EduShape
  <2>4. OwnAt(r)' BY <2>1, <1>a, <1>1, <1>2, <1>3 DEF OwnAt, Enrolled
  <2>5. CountedAt(r)' BY <2>1 DEF CountedAt, HasCounted
  <2>6. own' = [q \in EduRequest |-> own'[q]] /\ \A q \in EduRequest \ {r} : own'[q] = own[q]
    BY <1>1, <1>2 DEF EduShape
  <2> QED BY <1>3, <2>1, <2>2, <2>3, <2>4, <2>5, <2>6, EduAside
<1>4. CASE /\ EduTo(r, "done")
           /\ progress' = IF Kind(r) # "advance" THEN progress
                          ELSE [progress EXCEPT ![EduAsks[r].course] =
                                   [step |-> own[r].step, completed |-> @.completed \/ EduAt(r, "commit")]]
           /\ enrolled' = [q \in EduRequest |-> IF Kind(r) # "advance" /\ q \in own[r].rows
                                                THEN "completed" ELSE enrolled[q]]
           /\ badges' = badges \cup own[r].badge
           /\ quizzes' = IF Kind(r) = "quiz" THEN quizzes \cup {r} ELSE quizzes
           /\ board' = Written(r)
           /\ entwined' = entwined \cup (IF HasCounted \ {r} = {} THEN {} ELSE HasCounted)
           /\ repeated' = (repeated \/ Cardinality(own[r].rows) > Cardinality(own[r].badge))
  <2>1. /\ eduPhase' \in [EduRequest -> EduPhase] /\ eduPhase'[r] = "done"
        /\ \A q \in EduRequest \ {r} : eduPhase'[q] = eduPhase[q]
    BY <1>1, <1>4, EduMoves DEF EduPhase
  <2>2. /\ OwnAt(r) /\ CountedAt(r)
        /\ own[r].rows \subseteq Enrolled /\ (Kind(r) = "advance" => own[r].rows = {})
    BY <1>1 DEF OwnAt
  <2>3. /\ enrolled' \in [EduRequest -> EduStates]
        /\ Enrolled' = Enrolled /\ Completed' = Completed \cup own[r].rows
    <3>1. \A q \in EduRequest : enrolled'[q] = IF q \in own[r].rows THEN "completed" ELSE enrolled[q]
      BY <1>4, <2>2
    <3>2. enrolled' \in [EduRequest -> EduStates] BY <1>4, <1>1 DEF EduShape, EduStates
    <3> QED BY <3>1, <3>2, <2>2 DEF Enrolled, Completed
  <2>4. /\ badges \subseteq badges' /\ Completed \subseteq Completed'
        /\ IsFiniteSet(badges') /\ IsFiniteSet(Completed') /\ IsFiniteSet(quizzes')
    BY <1>1, <1>4, <2>3, FiniteRows, FS_AddElement DEF EduShape
  <2>5. own[r].points.there => r \in HasCounted BY <1>2, <2>2 DEF OwnAt, HasCounted
  <2>6. EduShape'
    <3>1. progress' = [c \in Course |-> progress'[c]] BY <1>1, <1>4 DEF EduShape
    <3>2. IsRow(board') /\ board'.there \in BOOLEAN
      <4>1. CASE own[r].points.there BY <4>1, <1>4, <2>5, WrittenRow
      <4>2. CASE ~own[r].points.there BY <4>2, <1>1, <1>4 DEF Written, EduShape
      <4> QED BY <4>1, <4>2
    <3>3. IsRow(board)' BY <3>2 DEF IsRow
    <3>4. \A q \in EduRequest : IsOwn(own[q])' /\ IsRow(own[q].loaded)' /\ (own[q].points.there \in BOOLEAN)'
      BY <1>1, <1>2 DEF EduShape, IsOwn, IsRow
    <3>5. repeated' \in BOOLEAN BY <1>4
    <3>6. own' = [q \in EduRequest |-> own'[q]] BY <1>1, <1>2 DEF EduShape
    <3>7. IsFiniteSet(Enrolled') BY <1>1, <2>3 DEF EduShape
    <3> QED BY <2>1, <2>3, <2>4, <3>1, <3>2, <3>3, <3>4, <3>5, <3>6, <3>7 DEF EduShape
  <2>7. ASSUME NEW q \in EduRequest PROVE OwnAt(q)'
    <3>1. CASE q = r BY <3>1, <2>1, <2>2, <2>3, <1>a, <1>1, <1>2, <1>4 DEF OwnAt, EduShape, EduStates, Enrolled
    <3>2. CASE q # r
      <4>1. OwnAt(q) /\ own'[q] = own[q] /\ eduPhase'[q] = eduPhase[q] BY <3>2, <1>1, <1>2, <2>1
      <4>2. enrolled'[q] # "none" => enrolled[q] # "none" BY <2>3 DEF Enrolled
      <4> QED BY <4>1, <4>2, <2>3, <2>4, <1>a DEF OwnAt
    <3> QED BY <3>1, <3>2
  <2>8. ASSUME NEW q \in EduRequest PROVE CountedAt(q)'
    <3>1. CASE q = r BY <3>1, <2>1 DEF CountedAt, HasCounted
    <3>2. CASE q # r
      <4>1. /\ CountedAt(q) /\ own'[q] = own[q] /\ (q \in HasCounted' => q \in HasCounted)
        BY <3>2, <1>1, <1>2, <2>1 DEF HasCounted
      <4>2. q \in HasCounted => entwined' # {} BY <3>2, <1>4
      <4>3. IsFiniteSet(badges' \cup own[q].badge) /\ IsFiniteSet(Completed' \cup own[q].rows)
        BY <2>4, FiniteRows, FS_Union
      <4>4. /\ Cardinality(badges \cup own[q].badge) \in Nat /\ Cardinality(badges' \cup own[q].badge) \in Nat
            /\ Cardinality(badges \cup own[q].badge) <= Cardinality(badges' \cup own[q].badge)
        <5> DEFINE S == badges \cup own[q].badge
                   T == badges' \cup own[q].badge
        <5>1. S \subseteq T /\ IsFiniteSet(T) BY <4>3, <2>4
        <5> HIDE DEF S, T
        <5>2. Cardinality(S) \in Nat /\ Cardinality(T) \in Nat /\ Cardinality(S) <= Cardinality(T)
          BY <5>1, MoreIsMore
        <5> QED BY <5>2 DEF S, T
      <4>5. /\ Cardinality(Completed \cup own[q].rows) \in Nat /\ Cardinality(Completed' \cup own[q].rows) \in Nat
            /\ Cardinality(Completed \cup own[q].rows) <= Cardinality(Completed' \cup own[q].rows)
        <5> DEFINE S == Completed \cup own[q].rows
                   T == Completed' \cup own[q].rows
        <5>1. S \subseteq T /\ IsFiniteSet(T) BY <4>3, <2>4
        <5> HIDE DEF S, T
        <5>2. Cardinality(S) \in Nat /\ Cardinality(T) \in Nat /\ Cardinality(S) <= Cardinality(T)
          BY <5>1, MoreIsMore
        <5> QED BY <5>2 DEF S, T
      <4>6. q \in HasCounted' =>
              /\ own[q].points.badges <= Cardinality(badges' \cup own[q].badge)
              /\ own[q].points.badges \in Nat
        BY <4>1, <4>4 DEF CountedAt
      <4>7. q \in HasCounted' /\ eduPhase'[q] # "challenges" =>
              /\ own[q].points.completed <= Cardinality(Completed' \cup own[q].rows)
              /\ own[q].points.completed \in Nat
        BY <4>1, <4>5, <3>2, <2>1 DEF CountedAt
      <4> QED BY <4>1, <4>2, <4>6, <4>7 DEF CountedAt
    <3> QED BY <3>1, <3>2
  <2>9. CompletedHasBadge'
    <3>1. CompletedHasBadge BY <1>1 DEF EarnedIsShown
    <3>2. ASSUME NEW c \in Course, progress'[c].completed PROVE c \in badges'
      <4>1. CASE progress[c].completed BY <4>1, <3>1, <2>4 DEF CompletedHasBadge
      <4>2. CASE ~progress[c].completed
        <5>1. Kind(r) = "advance" /\ c = EduAsks[r].course /\ eduPhase[r] = "commit"
          BY <3>2, <4>2, <1>1, <1>4 DEF EduShape, EduAt
        <5>2. BadgeOf(r) = c BY <5>1 DEF BadgeOf
        <5> QED BY <5>1, <5>2, <2>2, <1>4 DEF OwnAt
      <4> QED BY <4>1, <4>2
    <3>3. ASSUME Completed' # {} PROVE ChallengeBadge \in badges'
      <4>1. CASE Completed # {} BY <4>1, <3>1, <2>4 DEF CompletedHasBadge
      <4>2. CASE own[r].rows # {}
        <5>1. Kind(r) \in {"update", "sync"} BY <4>2, <2>2 DEF OwnAt
        <5>2. BadgeOf(r) = ChallengeBadge BY <5>1 DEF BadgeOf
        <5> QED BY <5>1, <5>2, <1>2, <2>2, <1>4 DEF OwnAt
      <4> QED BY <3>3, <4>1, <4>2, <2>3
    <3> QED BY <3>2, <3>3 DEF CompletedHasBadge
  <2>10. BoardCounts'
    <3>1. /\ Cardinality(badges) \in Nat /\ Cardinality(badges') \in Nat
          /\ Cardinality(badges) <= Cardinality(badges')
      BY <2>4, MoreIsMore
    <3>2. /\ Cardinality(Completed) \in Nat /\ Cardinality(Completed') \in Nat
          /\ Cardinality(Completed) <= Cardinality(Completed')
      BY <2>4, MoreIsMore
    <3>3. CASE ~own[r].points.there
      <4>1. board' = board BY <3>3, <1>4 DEF Written
      <4> QED BY <4>1, <3>1, <3>2, <1>1 DEF BoardCounts
    <3>4. CASE own[r].points.there
      <4>1. /\ board'.badges \in {own[r].points.badges, board.badges}
            /\ board'.completed \in {own[r].points.completed, board.completed}
        BY <3>4, <1>4, <2>5, WrittenRow
      <4>0. r \in HasCounted /\ eduPhase[r] = "commit" BY <3>4, <2>5, <2>2, <1>2 DEF OwnAt
      <4>2. /\ own[r].points.badges \in Nat /\ own[r].points.completed \in Nat
            /\ own[r].points.badges <= Cardinality(badges') /\ own[r].points.completed <= Cardinality(Completed')
        BY <4>0, <2>2, <2>3, <1>4 DEF CountedAt
      <4> QED BY <4>1, <4>2, <3>1, <3>2, <1>1 DEF BoardCounts
    <3> QED BY <3>3, <3>4
  <2>11. BoardFollowsRows'
    <3>1. ASSUME board'.there, entwined' = {}, ~repeated' PROVE board' = Score(badges', Completed', quizzes')
      <4>1. entwined = {} /\ ~repeated /\ ~(Cardinality(own[r].rows) > Cardinality(own[r].badge))
        BY <3>1, <1>4, <1>1 DEF EduShape
      <4>2. IsFiniteSet(own[r].rows) /\ IsFiniteSet(own[r].badge) /\ Cardinality(own[r].badge) <= 1
        BY FiniteRows
      <4>3. Cardinality(own[r].rows) \in Nat /\ Cardinality(own[r].badge) \in Nat
        BY <4>2, FS_CardinalityType
      <4>4. CASE own[r].points.there
        <5>1. Cardinality(own[r].rows) <= 1 BY <4>1, <4>2, <4>3
        <5>2. First(own[r].rows) = own[r].rows BY <5>1, <4>2, FirstOfRows
        <5>3. r \in HasCounted BY <4>4, <2>5
        <5>5. eduPhase[r] = "commit" BY <4>4, <1>2, <2>2 DEF OwnAt
        <5>4. own[r].points = Score(badges', Completed', quizzes') BY <4>1, <5>2, <5>3, <5>5, <2>2, <2>3, <1>4 DEF CountedAt
        <5>6. own[r].loaded = board BY <4>1, <5>3, <5>5, <2>2 DEF CountedAt
        <5>7. Written(r) = own[r].points BY <4>4, <5>6, WrittenRow
        <5> QED BY <5>4, <5>7, <1>4
      <4>5. CASE ~own[r].points.there
        <5>1. own[r].badge = {} /\ Kind(r) # "quiz" BY <4>5, <1>2, <2>2 DEF OwnAt
        <5>2. Cardinality(own[r].badge) = 0 BY <5>1, FS_EmptySet
        <5>3. Cardinality(own[r].rows) = 0 BY <5>2, <4>1, <4>3
        <5>4. own[r].rows = {} BY <5>3, <4>2, FS_EmptySet
        <5>5. board' = board BY <4>5, <1>4 DEF Written
        <5>6. badges' = badges /\ Completed' = Completed /\ quizzes' = quizzes BY <5>1, <5>4, <2>3, <1>4
        <5>7. board = Score(badges, Completed, quizzes)
          BY <4>1, <5>5, <3>1, <1>1 DEF EarnedIsShown, BoardFollowsRows
        <5> QED BY <5>5, <5>6, <5>7
      <4> QED BY <4>4, <4>5
    <3> QED BY <3>1, <2>10 DEF BoardFollowsRows, BoardCounts
  <2> QED BY <2>6, <2>7, <2>8, <2>9, <2>10, <2>11 DEF EduInv, EarnedIsShown
<1> QED BY <1>3, <1>4 DEF Commit

LEMMA EduKept == ASSUME EduInv, [EduNext]_eduVars PROVE EduInv'
<1>1. CASE UNCHANGED eduVars
  <2>1. UNCHANGED <<progress, enrolled, badges, quizzes, board, eduPhase, own, entwined, repeated>>
    BY <1>1 DEF eduVars
  <2>2. EduShape' BY <2>1 DEF EduInv, EduShape, IsRow, IsOwn, Enrolled
  <2>3. EarnedIsShown' /\ BoardCounts'
    BY <2>1 DEF EduInv, EarnedIsShown, CompletedHasBadge, BoardFollowsRows, BoardCounts, Completed
  <2>4. ASSUME NEW r \in EduRequest PROVE OwnAt(r)' /\ CountedAt(r)'
    <3>1. OwnAt(r) /\ CountedAt(r) BY DEF EduInv
    <3>2. Enrolled' = Enrolled /\ Completed' = Completed /\ HasCounted' = HasCounted
      BY <2>1 DEF Enrolled, Completed, HasCounted
    <3>3. BadgeOf(r)' = BadgeOf(r) /\ Kind(r)' = Kind(r) BY DEF BadgeOf, Kind
    <3>4. OwnAt(r)' BY <3>1, <3>2, <3>3, <2>1 DEF OwnAt
    <3>5. CountedAt(r)' BY <3>1, <3>2, <3>3, <2>1 DEF CountedAt, IsRow
    <3> QED BY <3>4, <3>5
  <2> QED BY <2>2, <2>3, <2>4 DEF EduInv
<1> QED BY <1>1, EduReads, EduCounts, EduEnrolls, EduCommits DEF EduNext

\* What is completed has its badge, and the leaderboard shows what is earned
\* unless requests counted around each other's commit or a challenge was
\* completed again (advance_course_step, _award_badge, _update_leaderboard).
THEOREM EarnedIsRight == EduSpec => []EarnedIsShown
<1>1. EduInv => EarnedIsShown BY DEF EduInv
<1> QED BY <1>1, EduBegins, EduKept, PTL DEF EduSpec

-----------------------------------------------------------------------------
(***************************************************************************)
(* The training of the models, for any requests and tables                 *)
(***************************************************************************)

\* What is told is so; who judges found a trained detector; and until a restart
\* the files of trained models are of trained models.
ToldIsSo == \A r \in Run, m \in ModelKind : told[r][m] = "trained" => models[m].is = "trained"
JudgedIsTrained == judging # "idle" => models["anomaly"].is = "trained"
KeptIsTrained ==
    /\ \A m \in kept : restarted = 0 => models[m].is = "trained" /\ bundle[m].is # "untrained"
    /\ bundle["forecaster"].is # "untrained"
    /\ \A r \in Run : at[r] = "write" => Writes(Order[place[r]])

\* Nothing is of a version to come.  Runs that are under way together have met,
\* and one that has met none has read the latest that any model is of.
OfThePast == (\A m \in ModelKind : models[m].of <= version) /\ (\A r \in Run : found[r].of <= version)
Together == \A q, r \in UnderWay : q # r => r \in met
Newest(r) == at[r] \in {"shares", "sample", "fit", "learning"} /\ r \notin met => \A m \in ModelKind : models[m].of <= found[r].of

TrainInv ==
    /\ TrainTypeOK /\ ToldIsSo /\ JudgedIsTrained /\ KeptIsTrained /\ OfThePast /\ Together
    /\ \A r \in Run : Newest(r)

\* What the action property says of a step.
StaysTrained ==
    \A m \in ModelKind :
        restarted' = restarted /\ models[m].is = "trained"
            => /\ models'[m].is = "trained"
               /\ models'[m].of < models[m].of => \E r \in met : at[r] # at'[r] /\ found[r].of = models'[m].of

Stages == {"new", "ask", "shares", "sample", "fit", "learning", "dump", "write", "done", "failed"}

-----------------------------------------------------------------------------
LEMMA Kinds == Order \in [1..4 -> ModelKind]
BY DEF Order, ModelKind

LEMMA Records ==
    /\ Untrained \in Model /\ Untrained.of = 0
    /\ \A n \in Nat : Trained(n) \in Model /\ Trained(n).is = "trained" /\ Trained(n).of = n
    /\ Unread \in [rows : Table, of : Nat] /\ Unread.of = 0
    /\ NoFileYet \in File /\ NoFileYet.is = "none" /\ [is |-> "torn", of |-> 0] \in File
    /\ \A x \in Model : x \in File
BY DEF Untrained, Trained, Unread, NoFileYet, Model, File, Table

LEMMA LargerOf == \A n \in Nat : n >= 2 => Max({n, 2}) = n
<1> TAKE n \in Nat
<1> HAVE n >= 2
<1>1. \A x \in {n, 2} : (\A y \in {n, 2} : x >= y) => x = n OBVIOUS
<1>2. n \in {n, 2} /\ \A y \in {n, 2} : n >= y OBVIOUS
<1> QED BY <1>1, <1>2 DEF Max

\* A fit: of one model, from what the run has read, or none.
Fitted(r, m) ==
    \/ models' = models /\ told' = [told EXCEPT ![r][m] = "skipped"]
    \/ models' = [models EXCEPT ![m] = Trained(found[r].of)] /\ told' = [told EXCEPT ![r][m] = "trained"]

LEMMA Fits ==
    ASSUME TrainTypeOK, NEW r \in Run, Fit(r) \/ FitEnds(r)
    PROVE  /\ \E m \in ModelKind : Fitted(r, m)
           /\ at[r] \in {"fit", "learning"} /\ clusters' \in 2..6 /\ Onward(r) /\ Forgotten(r)
           /\ UNCHANGED <<torch, table, version, bundle, kept, judging, met, restarted>>
<1>1. CASE Fit(r)
  <2> DEFINE m == Order[place[r]]
             n == found[r].rows.users
  <2>1. at[r] = "fit" /\ Onward(r) /\ Forgotten(r)
        /\ UNCHANGED <<torch, table, version, bundle, kept, judging, met, restarted>>
    BY <1>1 DEF Fit, DatabaseKept, ThreadKept
  <2>2. place[r] \in 1..4 BY <2>1 DEF TrainTypeOK, UnderWay
  <2>3. m \in ModelKind BY <2>2, Kinds
  <2>4. n \in Nat /\ clusters \in 2..6 BY DEF TrainTypeOK, Table
  <2>5. CASE Enough(m, found[r].rows) /\ m # "anomaly" /\ Tell(r, m, "trained") /\ Learn(m, r) /\ Recluster(m, r)
    <3>1. ~(m = "cluster" /\ n < Max({clusters, 2}))
      BY <2>4, <2>5, LargerOf DEF Enough
    <3>2. models' = [models EXCEPT ![m] = Trained(found[r].of)] BY <2>5, <3>1 DEF Learn
    <3>3. clusters' \in 2..6 BY <2>4, <2>5, TrainingConstants DEF Recluster, Silhouette
    <3> QED BY <2>1, <2>3, <2>5, <3>2, <3>3 DEF Fitted, Tell
  <2>6. CASE Tell(r, m, "skipped") /\ UNCHANGED <<models, clusters>>
    BY <2>1, <2>3, <2>4, <2>6 DEF Fitted, Tell
  <2> QED BY <1>1, <2>5, <2>6 DEF Fit
<1>2. CASE FitEnds(r)
  <2>1. models' = [models EXCEPT !["anomaly"] = Trained(found[r].of)] BY <1>2 DEF FitEnds, Learn
  <2>2. "anomaly" \in ModelKind BY DEF ModelKind
  <2> QED BY <1>2, <2>1, <2>2 DEF FitEnds, Fitted, Tell, TrainTypeOK, DatabaseKept, ThreadKept
<1> QED BY <1>1, <1>2

LEMMA FittedModels ==
    ASSUME TrainTypeOK, NEW r \in Run, NEW m \in ModelKind, Fitted(r, m)
    PROVE  /\ models' \in [ModelKind -> Model]
           /\ told' \in [Run -> [ModelKind -> {"none", "skipped", "trained"}]]
           /\ \A k \in ModelKind \ {m} : models'[k] = models[k]
           /\ models'[m] = models[m] \/ (models'[m].is = "trained" /\ models'[m].of = found[r].of)
           /\ \A q \in Run, k \in ModelKind : told'[q][k] = "trained" =>
                 told[q][k] = "trained" \/ (k = m /\ models'[m].is = "trained")
           /\ found[r].of \in Nat
<1>1. found[r].of \in Nat BY DEF TrainTypeOK
<1> DEFINE x == Trained(found[r].of)
<1>2. x \in Model /\ x.is = "trained" /\ x.of = found[r].of BY <1>1, Records
<1>3. models \in [ModelKind -> Model] /\ told \in [Run -> [ModelKind -> {"none", "skipped", "trained"}]]
  BY DEF TrainTypeOK
<1> HIDE DEF x
<1>4. CASE models' = models /\ told' = [told EXCEPT ![r][m] = "skipped"]
  BY <1>1, <1>3, <1>4
<1>5. CASE models' = [models EXCEPT ![m] = x] /\ told' = [told EXCEPT ![r][m] = "trained"]
  <2>1. /\ models' \in [ModelKind -> Model] /\ models'[m] = x
        /\ \A k \in ModelKind \ {m} : models'[k] = models[k]
    BY <1>2, <1>3, <1>5
  <2>2. /\ told' \in [Run -> [ModelKind -> {"none", "skipped", "trained"}]]
        /\ \A q \in Run, k \in ModelKind : told'[q][k] = told[q][k] \/ (k = m /\ q = r)
    BY <1>3, <1>5
  <2> QED BY <1>1, <1>2, <2>1, <2>2
<1> QED BY <1>4, <1>5 DEF Fitted, x

-----------------------------------------------------------------------------
\* A run goes on by a stage.
LEMMA Goes ==
    ASSUME TrainTypeOK, NEW r \in Run, NEW after \in Stages, To(r, after)
    PROVE  /\ at' \in [Run -> Stages] /\ at'[r] = after
           /\ \A q \in Run \ {r} : at'[q] = at[q]
           /\ UnderWay' \subseteq UnderWay \cup {r}
BY DEF To, TrainTypeOK, Stages, UnderWay

\* While it is under way already, and no one meets another, nothing is new.
LEMMA StillTogether ==
    ASSUME Together, UnderWay' \subseteq UnderWay, met' = met
    PROVE  Together'
BY DEF Together

LEMMA ChangeKeeps ==
    ASSUME TrainInv, NEW t \in Tables, PaymentsChange(t)
    PROVE  TrainInv'
<1> USE DEF TrainInv, PaymentsChange, ThreadKept
<1>1. TrainTypeOK' BY TrainingConstants DEF TrainTypeOK, UnderWay
<1>2. version <= version' /\ version \in Nat BY DEF TrainTypeOK
<1>3. OfThePast' BY <1>1, <1>2 DEF OfThePast, TrainTypeOK, Model
<1>4. KeptIsTrained' BY DEF KeptIsTrained, Writes
<1> QED BY <1>1, <1>3, <1>4 DEF ToldIsSo, JudgedIsTrained, Together, Newest, UnderWay

LEMMA TriggerKeeps ==
    ASSUME TrainInv, NEW r \in Request, TriggerTraining(r)
    PROVE  TrainInv'
<1> USE DEF TrainInv
<1>1. /\ at[r] = "new" /\ To(r, "ask") /\ r \in Run
      /\ met' = IF UnderWay = {} THEN met ELSE met \cup UnderWay \cup {r}
      /\ UNCHANGED <<torch, table, version, judging, models, clusters, fitting, bundle, kept, place, found,
                     told, restarted>>
  BY DEF TriggerTraining, DatabaseKept, ThreadKept, Run
<1>2. /\ at' \in [Run -> Stages] /\ at'[r] = "ask" /\ \A q \in Run \ {r} : at'[q] = at[q]
      /\ UnderWay' \subseteq UnderWay \cup {r}
  BY <1>1, Goes DEF Stages
<1>3. TrainTypeOK'
  <2>1. met' \subseteq Run BY <1>1 DEF TrainTypeOK, UnderWay
  <2>2. place[r] # 5
    BY <1>1 DEF TrainTypeOK
  <2> QED BY <2>1, <2>2, <1>1, <1>2 DEF TrainTypeOK, Stages
<1>4. KeptIsTrained' BY <1>1, <1>2 DEF KeptIsTrained, Writes
<1>5. Together' BY <1>1, <1>2 DEF Together
<1>6. \A q \in Run : Newest(q)' BY <1>1, <1>2 DEF Newest
<1> QED BY <1>1, <1>3, <1>4, <1>5, <1>6 DEF ToldIsSo, JudgedIsTrained, OfThePast

\* What an answer reads, and of which version: of the oldest, if it is not the
\* first one.
LEMMA QueryKeeps ==
    ASSUME TrainInv, NEW r \in Run,
           AnswerQuery(r) \/ AnswerShares(r) \/ AnswerSample(r) \/ TrainingFails(r)
    PROVE  TrainInv'
<1> USE DEF TrainInv
<1> DEFINE first == [rows |-> table, of |-> version]
           more(n) == [rows |-> [table EXCEPT !.payments = n], of |-> found[r].of]
<1>0. /\ found \in [Run -> [rows : Table, of : Nat]] /\ table \in Table /\ version \in Nat
      /\ at \in [Run -> Stages]
  BY TrainingConstants DEF TrainTypeOK, Stages
<1>1. PICK after \in {"shares", "sample", "fit", "failed"} : To(r, after) /\
         \/ at[r] = "ask" /\ found' = [found EXCEPT ![r] = first]
         \/ at[r] \in {"shares", "sample"} /\ found' = found
         \/ after = "failed" /\ at[r] \in {"ask", "shares", "sample"} /\ found' = found
         \/ at[r] = "sample" /\ \E n \in {0, table.payments} :
                found' = [found EXCEPT ![r].rows = [table EXCEPT !.payments = n]]
  BY DEF AnswerQuery, AnswerShares, AnswerSample, TrainingFails
<1>2. UNCHANGED <<torch, table, version, judging, models, clusters, fitting, bundle, kept, place, told, met,
                  restarted>>
  BY DEF AnswerQuery, AnswerShares, AnswerSample, TrainingFails, DatabaseKept, ThreadKept
<1>3. /\ at' \in [Run -> Stages] /\ at'[r] = after /\ \A q \in Run \ {r} : at'[q] = at[q]
      /\ UnderWay' \subseteq UnderWay
  BY <1>1, Goes DEF Stages, UnderWay
<1>4. /\ found' \in [Run -> [rows : Table, of : Nat]] /\ \A q \in Run \ {r} : found'[q] = found[q]
      /\ \/ found'[r].of = version
         \/ found'[r].of = found[r].of /\ (at[r] \in {"shares", "sample"} \/ after = "failed")
  <2>1. CASE found' = found
    BY <2>1, <1>0, <1>1
  <2>2. CASE at[r] = "ask" /\ found' = [found EXCEPT ![r] = first]
    <3>1. first \in [rows : Table, of : Nat] /\ first.of = version BY <1>0
    <3> HIDE DEF first
    <3> QED BY <2>2, <3>1, <1>0
  <2>3. CASE at[r] = "sample" /\ \E n \in {0, table.payments} :
                found' = [found EXCEPT ![r].rows = [table EXCEPT !.payments = n]]
    <3>1. PICK n \in {0, table.payments} : found' = [found EXCEPT ![r].rows = [table EXCEPT !.payments = n]]
      BY <2>3
    <3>2. [table EXCEPT !.payments = n] \in Table BY <1>0 DEF Table
    <3>3. found[r] \in [rows : Table, of : Nat] BY <1>0
    <3> DEFINE answered == [table EXCEPT !.payments = n]
    <3>4. answered \in Table BY <3>2
    <3>5. found' = [found EXCEPT ![r].rows = answered] BY <3>1
    <3> HIDE DEF answered
    <3>6. found' = [found EXCEPT ![r] = [rows |-> answered, of |-> found[r].of]]
      <4>1. found' = [found EXCEPT ![r] = [found[r] EXCEPT !.rows = answered]] BY <3>5
      <4>2. [found[r] EXCEPT !.rows = answered] = [rows |-> answered, of |-> found[r].of] BY <3>3
      <4> QED BY <4>1, <4>2
    <3>7. [rows |-> answered, of |-> found[r].of] \in [rows : Table, of : Nat]
      BY <3>3, <3>4
    <3> QED BY <2>3, <3>6, <3>7, <1>0
  <2> QED BY <2>1, <2>2, <2>3, <1>1
<1>5. TrainTypeOK'
  <2>1. place' \in [Run -> 1..5] /\ \A q \in Run : place'[q] = 5 => at'[q] = "done"
    BY <1>1, <1>2, <1>3 DEF TrainTypeOK
  <2> QED BY <2>1, <1>2, <1>3, <1>4 DEF TrainTypeOK, Stages
<1>6. KeptIsTrained' BY <1>1, <1>2, <1>3 DEF KeptIsTrained, Writes
<1>7. \A q \in Run : found'[q].of <= version BY <1>0, <1>4 DEF OfThePast
<1>8. OfThePast' BY <1>2, <1>7 DEF OfThePast
<1>9. Together' BY <1>2, <1>3, StillTogether
<1>10. ASSUME NEW q \in Run PROVE Newest(q)'
  <2>1. CASE q # r BY <2>1, <1>2, <1>3, <1>4 DEF Newest
  <2>2. CASE q = r
    <3>1. CASE found'[r].of = version BY <2>2, <3>1, <1>2 DEF Newest, OfThePast
    <3>2. CASE found'[r].of = found[r].of /\ at[r] \in {"shares", "sample"} BY <2>2, <3>2, <1>2 DEF Newest
    <3>3. CASE after = "failed" BY <2>2, <3>3, <1>3 DEF Newest
    <3> QED BY <3>1, <3>2, <3>3, <1>4
  <2> QED BY <2>1, <2>2
<1> QED BY <1>2, <1>5, <1>6, <1>8, <1>9, <1>10 DEF ToldIsSo, JudgedIsTrained

LEMMA FitKeeps ==
    ASSUME TrainInv, NEW r \in Run, Fit(r) \/ FitEnds(r)
    PROVE  TrainInv' /\ StaysTrained
<1> USE DEF TrainInv
<1>1. PICK m \in ModelKind : Fitted(r, m) BY Fits
<1>2. /\ at[r] \in {"fit", "learning"} /\ clusters' \in 2..6 /\ Onward(r) /\ Forgotten(r)
      /\ UNCHANGED <<torch, table, version, bundle, kept, judging, met, restarted>>
  BY Fits
<1>3. /\ models' \in [ModelKind -> Model]
      /\ told' \in [Run -> [ModelKind -> {"none", "skipped", "trained"}]]
      /\ \A k \in ModelKind \ {m} : models'[k] = models[k]
      /\ models'[m] = models[m] \/ (models'[m].is = "trained" /\ models'[m].of = found[r].of)
      /\ \A q \in Run, k \in ModelKind : told'[q][k] = "trained" =>
            told[q][k] = "trained" \/ (k = m /\ models'[m].is = "trained")
      /\ found[r].of \in Nat
  BY <1>1, FittedModels
<1>4. \A k \in ModelKind : models[k].is = "trained" => models'[k].is = "trained" BY <1>3
<1> DEFINE after == IF place[r] = 4 THEN "dump" ELSE "ask"
<1>5. To(r, after) /\ after \in Stages /\ after \in {"dump", "ask"} BY <1>2 DEF Onward, Stages
<1> HIDE DEF after
<1>6. /\ at' \in [Run -> Stages] /\ at'[r] = after /\ \A q \in Run \ {r} : at'[q] = at[q]
      /\ r \in UnderWay /\ UnderWay' \subseteq UnderWay
  BY <1>2, <1>5, Goes DEF UnderWay
<1>7. /\ found' \in [Run -> [rows : Table, of : Nat]] /\ \A q \in Run \ {r} : found'[q] = found[q]
      /\ found'[r].of = 0
  BY <1>2, Records DEF Forgotten, TrainTypeOK
<1>8. place' \in [Run -> 1..5] /\ \A q \in Run : place'[q] = 5 => at'[q] = "done"
  <2>1. place[r] \in 1..4 BY <1>2 DEF TrainTypeOK
  <2>2. place' \in [Run -> 1..5] /\ place'[r] # 5 /\ \A q \in Run \ {r} : place'[q] = place[q]
    BY <2>1, <1>2 DEF Onward, TrainTypeOK
  <2> QED BY <2>2, <1>6 DEF TrainTypeOK
<1>9. fitting' \in Run \cup {"none"} BY <1>2 DEF Onward
<1>10. TrainTypeOK' BY <1>2, <1>3, <1>6, <1>7, <1>8, <1>9 DEF TrainTypeOK, Stages
<1>11. ToldIsSo' BY <1>3, <1>4 DEF ToldIsSo
<1>12. JudgedIsTrained' BY <1>2, <1>4 DEF JudgedIsTrained, ModelKind
<1>13. KeptIsTrained'
  <2>1. \A q \in Run : at'[q] = "write" => at[q] = "write" /\ place'[q] = place[q]
    BY <1>2, <1>5, <1>6 DEF Onward, TrainTypeOK
  <2>2. \A k \in ModelKind : Writes(k) => Writes(k)' BY <1>2, <1>4 DEF Writes
  <2>3. \A q \in Run : at[q] = "write" => Order[place[q]] \in ModelKind BY Kinds DEF TrainTypeOK
  <2>4. kept \subseteq ModelKind BY DEF TrainTypeOK
  <2> QED BY <2>1, <2>2, <2>3, <2>4, <1>2, <1>4 DEF KeptIsTrained
<1>14. version \in Nat BY DEF TrainTypeOK
<1>15. OfThePast'
  <2>1. \A k \in ModelKind : models'[k].of <= version BY <1>3 DEF OfThePast
  <2>2. \A q \in Run : found'[q].of <= version BY <1>7, <1>14 DEF OfThePast
  <2> QED BY <2>1, <2>2, <1>2 DEF OfThePast
<1>16. Together' BY <1>2, <1>6, StillTogether
<1>17. \A q \in Run \ {r} : q \in UnderWay => q \in met /\ r \in met BY <1>6 DEF Together
<1>18. ASSUME NEW q \in Run PROVE Newest(q)'
  <2>1. CASE q = r BY <2>1, <1>5, <1>6 DEF Newest
  <2>2. CASE q # r BY <2>2, <1>2, <1>6, <1>17 DEF Newest, UnderWay
  <2> QED BY <2>1, <2>2
<1>19. StaysTrained
  <2> SUFFICES ASSUME NEW k \in ModelKind, models[k].is = "trained", models'[k].of < models[k].of
               PROVE  \E q \in met : at[q] # at'[q] /\ found[q].of = models'[k].of
    BY <1>4 DEF StaysTrained
  <2>1. models[k].of \in Nat BY DEF TrainTypeOK, Model
  <2>2. k = m /\ models'[m].of = found[r].of BY <2>1, <1>3
  <2>3. r \in met
    <3>1. r \notin met => models[k].of <= found[r].of BY <1>2 DEF Newest
    <3> QED BY <3>1, <2>1, <2>2, <1>3
  <2>4. at[r] # at'[r] BY <1>2, <1>5, <1>6
  <2> QED BY <2>2, <2>3, <2>4
<1> QED BY <1>10, <1>11, <1>12, <1>13, <1>15, <1>16, <1>18, <1>19

LEMMA BeginKeeps ==
    ASSUME TrainInv, NEW r \in Run, FitBegins(r)
    PROVE  TrainInv'
<1> USE DEF TrainInv
<1>1. /\ at[r] = "fit" /\ fitting' = r /\ To(r, "learning")
      /\ judging' = IF judging = "model" THEN "torn" ELSE judging
      /\ UNCHANGED <<torch, table, version, models, clusters, bundle, kept, place, found, told, met, restarted>>
  BY DEF FitBegins, DatabaseKept
<1>2. /\ at' \in [Run -> Stages] /\ at'[r] = "learning" /\ \A q \in Run \ {r} : at'[q] = at[q]
      /\ UnderWay' \subseteq UnderWay
  BY <1>1, Goes DEF Stages, UnderWay
<1>3. TrainTypeOK' BY <1>1, <1>2 DEF TrainTypeOK, Stages
<1>4. KeptIsTrained' BY <1>1, <1>2 DEF KeptIsTrained, Writes
<1>5. Together' BY <1>1, <1>2, StillTogether
<1>6. \A q \in Run : Newest(q)' BY <1>1, <1>2 DEF Newest
<1>7. JudgedIsTrained' BY <1>1 DEF JudgedIsTrained
<1> QED BY <1>1, <1>3, <1>4, <1>5, <1>6, <1>7 DEF ToldIsSo, OfThePast

LEMMA FileKeeps ==
    ASSUME TrainInv, NEW r \in Run, OpenFile(r) \/ CloseFile(r) \/ LeaveFile(r)
    PROVE  TrainInv'
<1> USE DEF TrainInv
<1>1. at[r] \in {"dump", "write"} /\ UNCHANGED <<torch, table, version, judging, models, clusters, found, told, met,
                                                 restarted>>
  BY DEF OpenFile, CloseFile, LeaveFile, DatabaseKept, ThreadKept
<1> DEFINE m == Order[place[r]]
<1>2. place[r] \in 1..4 BY <1>1 DEF TrainTypeOK
<1>3. m \in ModelKind BY <1>2, Kinds
<1> HIDE DEF m
<1>4. PICK after \in {"write", "dump", "done"} : To(r, after) /\ (after = "write" => Writes(m) /\ place' = place)
  BY DEF OpenFile, CloseFile, LeaveFile, NextFile, m
<1>5. /\ at' \in [Run -> Stages] /\ at'[r] = after /\ \A q \in Run \ {r} : at'[q] = at[q]
      /\ UnderWay' \subseteq UnderWay
  BY <1>1, <1>4, Goes DEF Stages, UnderWay
<1>6. /\ place' \in [Run -> 1..5] /\ \A q \in Run : place'[q] = 5 => at'[q] = "done"
      /\ \A q \in Run \ {r} : place'[q] = place[q] /\ fitting' \in Run \cup {"none"}
  <2>1. CASE OpenFile(r)
    BY <2>1, <1>2, <1>5 DEF OpenFile, TrainTypeOK
  <2>2. CASE CloseFile(r) \/ LeaveFile(r)
    <3>1. NextFile(r) BY <2>2 DEF CloseFile, LeaveFile
    <3>2. /\ place' \in [Run -> 1..5] /\ \A q \in Run \ {r} : place'[q] = place[q]
          /\ place'[r] = 5 => place[r] = 4
      BY <3>1, <1>2 DEF NextFile, TrainTypeOK
    <3>3. place[r] = 4 => at'[r] = "done" BY <3>1, <1>5 DEF NextFile, To, TrainTypeOK
    <3>4. fitting' \in Run \cup {"none"} BY <3>1 DEF NextFile
    <3> QED BY <3>2, <3>3, <3>4, <1>5 DEF TrainTypeOK
  <2> QED BY <2>1, <2>2
<1>7. \/ bundle' = bundle /\ kept' = kept
      \/ bundle' = [bundle EXCEPT ![m] = [is |-> "torn", of |-> 0]] /\ kept' = kept
      \/ /\ bundle' = [bundle EXCEPT ![m] = models[m]] /\ kept' \subseteq kept \cup {m} /\ at[r] = "write"
         /\ m \notin kept => (m \in kept' => models[m].is = "trained")
  BY DEF OpenFile, CloseFile, LeaveFile, m
<1>8. bundle' \in [ModelKind -> File] /\ kept' \subseteq ModelKind
  <2>1. models[m] \in File /\ [is |-> "torn", of |-> 0] \in File BY <1>3, Records DEF TrainTypeOK
  <2>2. bundle \in [ModelKind -> File] /\ kept \subseteq ModelKind BY DEF TrainTypeOK
  <2>3. \A f \in File : [bundle EXCEPT ![m] = f] \in [ModelKind -> File] BY <2>2
  <2> QED BY <1>3, <1>7, <2>1, <2>2, <2>3
<1>9. fitting' \in Run \cup {"none"}
  BY DEF OpenFile, CloseFile, LeaveFile, NextFile, TrainTypeOK
<1>10. TrainTypeOK' BY <1>1, <1>5, <1>6, <1>8, <1>9 DEF TrainTypeOK, Stages
<1>11. KeptIsTrained'
  <2>1. at[r] = "write" => Writes(m) BY DEF KeptIsTrained, m
  <2>2. at[r] = "write" /\ m = "forecaster" => models[m].is = "trained" BY <2>1 DEF Writes
  <2>3. \A k \in kept : restarted = 0 => models[k].is = "trained" /\ bundle[k].is # "untrained"
    BY DEF KeptIsTrained
  <2>4. \A k \in kept' : restarted' = 0 => models'[k].is = "trained" /\ bundle'[k].is # "untrained"
    BY <2>3, <1>1, <1>3, <1>7 DEF TrainTypeOK
  <2>5. bundle'["forecaster"].is # "untrained"
    <3>1. bundle["forecaster"].is # "untrained" /\ "forecaster" \in ModelKind BY DEF KeptIsTrained, ModelKind
    <3> QED BY <3>1, <2>2, <1>3, <1>7 DEF TrainTypeOK
  <2>6. \A k : Writes(k)' = Writes(k) BY <1>1 DEF Writes
  <2>7. ASSUME NEW q \in Run, at'[q] = "write" PROVE Writes(Order[place[q]])' /\ place'[q] = place[q]
    <3>1. CASE q = r BY <3>1, <2>6, <2>7, <1>4, <1>5 DEF m
    <3>2. CASE q # r BY <3>2, <2>6, <2>7, <1>5, <1>6 DEF KeptIsTrained
    <3> QED BY <3>1, <3>2
  <2> QED BY <2>4, <2>5, <2>7 DEF KeptIsTrained
<1>12. Together' BY <1>1, <1>5, StillTogether
<1>13. \A q \in Run : Newest(q)' BY <1>1, <1>4, <1>5 DEF Newest
<1> QED BY <1>1, <1>10, <1>11, <1>12, <1>13 DEF ToldIsSo, JudgedIsTrained, OfThePast

LEMMA JudgeKeeps ==
    ASSUME TrainInv, Judge \/ JudgeEnds
    PROVE  TrainInv'
<1> USE DEF TrainInv
<1>1. /\ judging' \in {"idle", "model", "torn"} /\ (judging' # "idle" => models["anomaly"].is = "trained")
      /\ UNCHANGED <<torch, table, version, models, clusters, fitting, bundle, kept, at, place, found, told,
                     met, restarted>>
  BY DEF Judge, JudgeEnds, DatabaseKept
<1> QED BY <1>1 DEF TrainTypeOK, ToldIsSo, JudgedIsTrained, KeptIsTrained, Writes, OfThePast, Together,
                    UnderWay, Newest

LEMMA RestartKeeps ==
    ASSUME TrainInv, RestartBackend
    PROVE  TrainInv' /\ restarted' # restarted
<1> USE DEF TrainInv
<1>1. /\ restarted < MaxBoots /\ restarted' = restarted + 1
      /\ models' = [m \in ModelKind |-> Untrained] /\ clusters' = 4 /\ fitting' = "none"
      /\ at' = [r \in Run |-> IF r = "boot" THEN "ask" ELSE IF r \in UnderWay THEN "failed" ELSE at[r]]
      /\ place' = [r \in Run |-> 1] /\ told' = [r \in Run |-> [m \in ModelKind |-> "none"]]
      /\ judging' = "idle" /\ met' = {} /\ found' = [r \in Run |-> Unread]
      /\ UNCHANGED <<torch, table, version, bundle, kept>>
  BY DEF RestartBackend, DatabaseKept
<1>2. at' \in [Run -> Stages] /\ \A r \in Run : r # "boot" => at'[r] \in {"new", "done", "failed"}
  BY <1>1 DEF TrainTypeOK, Stages, UnderWay
<1>3. at'["boot"] = "ask" /\ "boot" \in Run BY <1>1 DEF Run
<1>4. restarted \in Nat /\ restarted' \in 0..MaxBoots /\ restarted' # 0 /\ restarted' # restarted
  BY <1>1, TrainingConstants DEF TrainTypeOK
<1>5. TrainTypeOK' BY <1>1, <1>2, <1>4, Records DEF TrainTypeOK, Stages
<1>6. \A r \in Run : at'[r] \notin {"shares", "sample", "fit", "learning", "write"} BY <1>2, <1>3
<1>7. KeptIsTrained' BY <1>1, <1>4, <1>6 DEF KeptIsTrained
<1>8. Together' BY <1>2 DEF Together, UnderWay
<1>9. \A r \in Run : Newest(r)' BY <1>6 DEF Newest
<1>10. OfThePast'
  <2>1. version \in Nat BY DEF TrainTypeOK
  <2> QED BY <2>1, <1>1, Records DEF OfThePast
<1>11. ToldIsSo' /\ JudgedIsTrained' BY <1>1 DEF ToldIsSo, JudgedIsTrained
<1> QED BY <1>4, <1>5, <1>7, <1>8, <1>9, <1>10, <1>11

LEMMA TrainStart == TrainInit => TrainInv
<1> SUFFICES ASSUME TrainInit PROVE TrainInv
  OBVIOUS
<1> USE DEF TrainInit
<1>1. TrainTypeOK BY Records, TrainingConstants DEF TrainTypeOK
<1>2. \A r \in Run : at[r] \in {"new", "ask", "failed"} /\ (at[r] = "ask" => r = "boot") OBVIOUS
<1>3. bundle["forecaster"].is # "untrained" BY Records DEF ModelKind
<1>4. KeptIsTrained BY <1>2, <1>3 DEF KeptIsTrained
<1>5. Together /\ \A r \in Run : Newest(r) BY <1>2 DEF Together, UnderWay, Newest
<1>6. OfThePast BY Records DEF OfThePast
<1> QED BY <1>1, <1>4, <1>5, <1>6 DEF TrainInv, ToldIsSo, JudgedIsTrained

LEMMA TrainStep == TrainInv /\ [TrainNext]_trainVars => TrainInv' /\ StaysTrained
<1> SUFFICES ASSUME TrainInv, [TrainNext]_trainVars PROVE TrainInv' /\ StaysTrained
  OBVIOUS
<1>0. models' = models => StaysTrained
  BY DEF StaysTrained, TrainInv, TrainTypeOK, Model
<1>1. ASSUME NEW t \in Tables, PaymentsChange(t) PROVE TrainInv' /\ StaysTrained
  BY <1>0, <1>1, ChangeKeeps DEF PaymentsChange
<1>2. ASSUME NEW r \in Request, TriggerTraining(r) PROVE TrainInv' /\ StaysTrained
  BY <1>0, <1>2, TriggerKeeps DEF TriggerTraining
<1>3. ASSUME NEW r \in Run, AnswerQuery(r) \/ AnswerShares(r) \/ AnswerSample(r) \/ TrainingFails(r)
       PROVE  TrainInv' /\ StaysTrained
  BY <1>0, <1>3, QueryKeeps DEF AnswerQuery, AnswerShares, AnswerSample, TrainingFails
<1>4. ASSUME NEW r \in Run, Fit(r) \/ FitEnds(r) PROVE TrainInv' /\ StaysTrained
  BY <1>4, FitKeeps
<1>5. ASSUME NEW r \in Run, FitBegins(r) PROVE TrainInv' /\ StaysTrained
  BY <1>0, <1>5, BeginKeeps DEF FitBegins
<1>6. ASSUME NEW r \in Run, OpenFile(r) \/ CloseFile(r) \/ LeaveFile(r) PROVE TrainInv' /\ StaysTrained
  BY <1>0, <1>6, FileKeeps DEF OpenFile, CloseFile, LeaveFile
<1>7. CASE Judge \/ JudgeEnds BY <1>0, <1>7, JudgeKeeps DEF Judge, JudgeEnds
<1>8. CASE RestartBackend BY <1>8, RestartKeeps DEF StaysTrained
<1>9. CASE UNCHANGED trainVars
  BY <1>0, <1>9 DEF trainVars, TrainInv, TrainTypeOK, ToldIsSo, JudgedIsTrained, KeptIsTrained, Writes,
                    OfThePast, Together, UnderWay, Newest
<1> QED BY <1>1, <1>2, <1>3, <1>4, <1>5, <1>6, <1>7, <1>8, <1>9 DEF TrainNext

\* Every variable of the training keeps its type, for any tables and requests.
THEOREM TrainTypeCorrect == TrainSpec => []TrainTypeOK
<1>1. TrainInv => TrainTypeOK BY DEF TrainInv
<1> QED BY <1>1, TrainStart, TrainStep, PTL DEF TrainSpec

\* A trained model stays so until the process ends, falls behind only by a
\* training that another was under way with, and what is told and written of it
\* is so (train_all, dump_all_models), for any requests that overlap and any
\* payments.
THEOREM TrainedIsKept == TrainSpec => TrainedStays
<1>1. TrainInv => Coherent
  <2> SUFFICES ASSUME TrainInv PROVE Coherent
    OBVIOUS
  <2>1. ASSUME NEW r \in Run, Status(told[r]) = "success" PROVE \A m \in ModelKind : models[m].is = "trained"
    BY <2>1 DEF Status, TrainInv, ToldIsSo
  <2>2. judging = "torn" => models["anomaly"].is = "trained" BY DEF TrainInv, JudgedIsTrained
  <2>3. ASSUME NEW m \in kept, bundle[m].is = "untrained" PROVE restarted > 0 /\ m # "forecaster"
    BY <2>3 DEF TrainInv, KeptIsTrained, TrainTypeOK
  <2> QED BY <2>1, <2>2, <2>3 DEF Coherent
<1>2. TrainInv /\ [TrainNext]_trainVars => TrainInv' /\ [StaysTrained]_trainVars BY TrainStep
<1>3. TrainSpec => []Coherent /\ [][StaysTrained]_trainVars
  BY <1>1, <1>2, TrainStart, PTL DEF TrainSpec
<1> QED BY <1>3 DEF TrainedStays, StaysTrained

-----------------------------------------------------------------------------
(***************************************************************************)
(* The lessons, for any payments, questions and answers                    *)
(***************************************************************************)

\* The answers, the payment that is tried and what is known of the user keep their
\* types: every handler of the programme takes what the bounds let it take.
THEOREM LessonTypeCorrect == LessonSpec => []LessonTypeOK
<1>1. LessonInit => LessonTypeOK
  BY LessonConstants DEF LessonInit, LessonTypeOK, SpendingOfUser, Cluster
<1>2. LessonTypeOK /\ [LessonNext]_lessonVars => LessonTypeOK'
  <2> SUFFICES ASSUME LessonTypeOK, [LessonNext]_lessonVars PROVE LessonTypeOK'
    OBVIOUS
  <2> USE LessonConstants DEF LessonTypeOK
  <2>1. ASSUME NEW p \in [amount : TriedAmount, hour : TriedHour, foreign : BOOLEAN, merchant : BOOLEAN], Try(p)
        PROVE  LessonTypeOK'
    BY <2>1 DEF Try
  <2>2. ASSUME NEW q \in Asked, AskQuestion(q) PROVE LessonTypeOK'
    BY <2>2 DEF AskQuestion
  <2>3. ASSUME NEW a \in 0..4, Reply(a) PROVE LessonTypeOK'
    BY <2>3 DEF Reply
  <2>4. ASSUME NEW r \in RiskOf, NEW type \in Cluster, Retrain(r, type) PROVE LessonTypeOK'
    BY <2>4 DEF Retrain, SpendingOfUser
  <2>5. ASSUME NEW amount \in Spent, NEW high \in SUBSET {"food", "housing"}, NEW odd \in 0..1,
               Spend(amount, high, odd)
        PROVE  LessonTypeOK'
    BY <2>5 DEF Spend, SpendingOfUser
  <2>6. ASSUME NEW c \in Courses, Finish(c) PROVE LessonTypeOK'
    BY <2>6 DEF Finish
  <2>7. CASE UNCHANGED lessonVars BY <2>7 DEF lessonVars
  <2> QED BY <2>1, <2>2, <2>3, <2>4, <2>5, <2>6, <2>7 DEF LessonNext
<1> QED BY <1>1, <1>2, PTL DEF LessonSpec

-----------------------------------------------------------------------------
\* The engine decides a first payment by the rules that read the request alone,
\* and by the new merchant's.
LEMMA FirstRules ==
    ASSUME LessonTypeOK, NEW id \in Engine!RuleId
    PROVE  Engine!Fires(id, AsPaid, FirstPayment) <=>
              \/ id = "AMOUNT_BLOCK" /\ tried.amount >= 500
              \/ id = "AMOUNT_REVIEW" /\ tried.amount >= 100
              \/ id = "TIME_RISK" /\ tried.hour \in 2..4 /\ tried.amount >= 50
              \/ id = "FOREIGN_IP" /\ tried.foreign /\ tried.amount >= 30
              \/ id = "NEW_MERCHANT" /\ tried.merchant /\ tried.amount >= 20
<1> DEFINE tx == AsPaid  ctx == FirstPayment
<1>1. tried.amount \in Nat /\ tried.hour \in 0..23 BY DEF LessonTypeOK
<1>2. /\ tx.amount = tried.amount /\ tx.foreign = tried.foreign /\ tx.merchant = tried.merchant
      /\ tx.drains = FALSE /\ (tx.hour = "night") = (tried.hour \in 2..4)
  BY DEF AsPaid
<1>3. /\ ctx.blacklisted = FALSE /\ ctx.deviceUsers = 1 /\ ctx.fanIn = 0 /\ ctx.passThrough = 0
      /\ ctx.count = 1 /\ ctx.total = tried.amount /\ ctx.v1 = 1 /\ ctx.v5 = 1
  BY DEF FirstPayment
<1> HIDE DEF tx, ctx
<1>4. ~Engine!FiresOnLookup(id, ctx) /\ ~Engine!FiresOnGraph(id, ctx)
      /\ ~Engine!FiresOnBalance(id, tx) /\ ~Engine!FiresOnHours(id, tx, ctx)
  BY <1>2, <1>3 DEF Engine!FiresOnLookup, Engine!FiresOnGraph, Engine!FiresOnBalance, Engine!FiresOnHours
<1>5. Engine!FiresOnProfile(id, tx, ctx) <=> id = "NEW_MERCHANT" /\ tried.merchant /\ tried.amount >= 20
  <2>1. tx.amount * ctx.count = tried.amount BY <1>1, <1>2, <1>3
  <2>2. ~(tx.amount * ctx.count > 5 * ctx.total) BY <2>1, <1>1, <1>3
  <2> QED BY <1>1, <1>2, <1>3, <2>2 DEF Engine!FiresOnProfile
<1>6. Engine!FiresOnRequest(id, tx) <=>
         \/ id = "AMOUNT_BLOCK" /\ tried.amount >= 500
         \/ id = "AMOUNT_REVIEW" /\ tried.amount >= 100
         \/ id = "TIME_RISK" /\ tried.hour \in 2..4 /\ tried.amount >= 50
         \/ id = "FOREIGN_IP" /\ tried.foreign /\ tried.amount >= 30
  BY <1>2 DEF Engine!FiresOnRequest
<1> QED BY <1>4, <1>5, <1>6 DEF Engine!Fires, tx, ctx

\* The simulator of the course reports what the engine decides by.
LEMMA Taught == LessonTypeOK => TaughtAsDecided
<1> SUFFICES ASSUME LessonTypeOK, tried.hour # 5
             PROVE  LET decided == Engine!RuleAction(AsPaid, FirstPayment)
                    IN  /\ SimulatedAction(tried) = decided.action
                        /\ decided.ids \ Reported(tried) \subseteq {"AMOUNT_REVIEW"}
                        /\ Reported(tried) \subseteq decided.ids
  BY DEF TaughtAsDecided
<1> DEFINE fired == Engine!Fired(AsPaid, FirstPayment)
           asks == Engine!Asks(FirstPayment)
<1>1. tried.amount \in Nat /\ tried.hour \in 0..23 BY DEF LessonTypeOK
<1>2. fired = {id \in Engine!RuleId : Engine!Fires(id, AsPaid, FirstPayment)}
  BY DEF Engine!Fired, FirstPayment
<1>3. \A id \in fired : id \in {"AMOUNT_BLOCK", "AMOUNT_REVIEW", "TIME_RISK", "FOREIGN_IP", "NEW_MERCHANT"}
  BY <1>2, FirstRules
<1>4. /\ "AMOUNT_BLOCK" \in fired <=> tried.amount >= 500
      /\ "AMOUNT_REVIEW" \in fired <=> tried.amount >= 100
      /\ "TIME_RISK" \in fired <=> tried.hour \in 2..4 /\ tried.amount >= 50
      /\ "FOREIGN_IP" \in fired <=> tried.foreign /\ tried.amount >= 30
      /\ "NEW_MERCHANT" \in fired <=> tried.merchant /\ tried.amount >= 20
  BY <1>2, FirstRules DEF Engine!RuleId
<1>5. /\ "AMOUNT_BLOCK" \in Reported(tried) <=> tried.amount >= 500
      /\ "AMOUNT_REVIEW" \in Reported(tried) <=> tried.amount \in 100..499
      /\ "TIME_RISK" \in Reported(tried) <=> tried.hour \in 2..5 /\ tried.amount >= 50
      /\ "FOREIGN_IP" \in Reported(tried) <=> tried.foreign /\ tried.amount >= 30
      /\ "NEW_MERCHANT" \in Reported(tried) <=> tried.merchant /\ tried.amount >= 20
      /\ \A id \in Reported(tried) :
            id \in {"AMOUNT_BLOCK", "AMOUNT_REVIEW", "TIME_RISK", "FOREIGN_IP", "NEW_MERCHANT"}
  BY DEF Reported
<1>6. Engine!RuleAction(AsPaid, FirstPayment)
         = [action |-> Engine!Strongest({asks[id] : id \in fired}), ids |-> fired]
  BY DEF Engine!RuleAction, FirstPayment
<1>7. /\ asks["AMOUNT_BLOCK"] = "BLOCK" /\ asks["AMOUNT_REVIEW"] = "REVIEW" /\ asks["TIME_RISK"] = "REVIEW"
      /\ asks["FOREIGN_IP"] = "REVIEW" /\ asks["NEW_MERCHANT"] = "SOFT_REVIEW"
  BY DEF Engine!Asks, Engine!RuleId
<1> HIDE DEF fired, asks
<1>8. SimulatedAction(tried) = Engine!Strongest({asks[id] : id \in fired})
  <2>1. "BLOCK" \in {asks[id] : id \in fired} <=> "AMOUNT_BLOCK" \in fired BY <1>3, <1>7
  <2>2. "REVIEW" \in {asks[id] : id \in fired} <=> {"AMOUNT_REVIEW", "TIME_RISK", "FOREIGN_IP"} \cap fired # {}
    BY <1>3, <1>7
  <2>3. "SOFT_REVIEW" \in {asks[id] : id \in fired} <=> "NEW_MERCHANT" \in fired BY <1>3, <1>7
  <2>4. "AMOUNT_BLOCK" \in fired <=> "AMOUNT_BLOCK" \in Reported(tried) BY <1>4, <1>5
  <2>5. "AMOUNT_BLOCK" \notin fired =>
           ({"AMOUNT_REVIEW", "TIME_RISK", "FOREIGN_IP"} \cap fired # {}
               <=> Reported(tried) \ {"NEW_MERCHANT"} # {})
    BY <1>1, <1>4, <1>5
  <2>6. Reported(tried) \ {"NEW_MERCHANT"} = {} => ("NEW_MERCHANT" \in fired <=> Reported(tried) # {})
    BY <1>4, <1>5
  <2> QED BY <2>1, <2>2, <2>3, <2>4, <2>5, <2>6 DEF SimulatedAction, Engine!Strongest
<1>9. fired \ Reported(tried) \subseteq {"AMOUNT_REVIEW"} /\ Reported(tried) \subseteq fired
  BY <1>1, <1>3, <1>4, <1>5
<1> QED BY <1>6, <1>8, <1>9

\* The scenarios of the quiz: seven are quiet payments, of which the simulator
\* reports nothing, and three are not (_FRAUD_SCENARIOS, simulate_fraud).
LEMMA BelowReview == ASSUME NEW a \in Nat, a < 100 PROVE a \notin 100..499
OBVIOUS

LEMMA QuietPayment ==
    ASSUME NEW s, s.amount \in 0..99, s.hour \notin 2..5, ~s.foreign, ~s.merchant
    PROVE  Reported(s) = {}
<1>1. s.amount \in Nat /\ s.amount < 100 OBVIOUS
<1>2. s.amount \notin 100..499 BY <1>1, BelowReview
<1>3. "AMOUNT_BLOCK" \notin Reported(s) BY <1>1 DEF Reported
<1>4. "AMOUNT_REVIEW" \notin Reported(s) BY <1>2 DEF Reported
<1>5. "TIME_RISK" \notin Reported(s) BY DEF Reported
<1>6. "FOREIGN_IP" \notin Reported(s) /\ "NEW_MERCHANT" \notin Reported(s) BY DEF Reported
<1> QED BY <1>3, <1>4, <1>5, <1>6 DEF Reported

LEMMA LoudPayment ==
    ASSUME NEW s, s.amount \in 100..499, s.hour \in 0..23
    PROVE  /\ Reported(s) \subseteq {"AMOUNT_REVIEW", "TIME_RISK", "FOREIGN_IP", "NEW_MERCHANT"}
           /\ "AMOUNT_REVIEW" \in Reported(s)
           /\ "TIME_RISK" \in Reported(s) <=> s.hour \in 2..5
           /\ "FOREIGN_IP" \in Reported(s) <=> s.foreign
           /\ "NEW_MERCHANT" \in Reported(s) <=> s.merchant
BY DEF Reported

LEMMA QuietScenarios ==
    ASSUME NEW i \in {1, 3, 4, 5, 7, 9, 10}, NEW s, s = FraudScenarios[i]
    PROVE  Reported(s) = {} /\ s.rules \subseteq {"SPLIT_TXN", "VELOCITY_FREQ"}
<1> USE DEF FraudScenarios, Scenario
<1>1. s.amount \in 0..99 /\ s.hour \notin 2..5 OBVIOUS
<1>2. s.foreign = FALSE OBVIOUS
<1>3. s.rules \subseteq {"SPLIT_TXN", "VELOCITY_FREQ"} OBVIOUS
<1>4. ~s.merchant
  <2>1. CASE i = 1 BY <2>1, ZenonT(60)
  <2>2. CASE i = 3 BY <2>2, ZenonT(60)
  <2>3. CASE i = 4 BY <2>3, ZenonT(60)
  <2>4. CASE i = 5 BY <2>4, ZenonT(60)
  <2>5. CASE i = 7 BY <2>5, ZenonT(60)
  <2>6. CASE i = 9 BY <2>6, ZenonT(60)
  <2>7. CASE i = 10 BY <2>7, ZenonT(60)
  <2> QED BY <2>1, <2>2, <2>3, <2>4, <2>5, <2>6, <2>7
<1> QED BY <1>1, <1>2, <1>3, <1>4, QuietPayment

LEMMA LoudScenarios ==
    ASSUME NEW i \in {2, 6, 8}, NEW s, s = FraudScenarios[i]
    PROVE  /\ s.amount \in 100..499
           /\ s.hour = (IF i = 2 THEN 3 ELSE IF i = 6 THEN 1 ELSE 22)
           /\ s.foreign <=> i # 8
           /\ s.merchant <=> i # 2
           /\ s.rules = (IF i = 2 THEN {"TIME_RISK", "FOREIGN_IP", "AMOUNT_REVIEW"}
                         ELSE IF i = 6 THEN {"TIME_RISK", "FOREIGN_IP", "AMOUNT_REVIEW", "NEW_MERCHANT"}
                         ELSE {"AMOUNT_REVIEW", "AMOUNT_SPIKE", "NEW_MERCHANT"})
<1> USE DEF FraudScenarios, Scenario
<1>1. s.amount \in 100..499
  <2>1. s.amount \in {150, 300, 400} BY SMTT(20)
  <2> HIDE DEF FraudScenarios
  <2> QED BY <2>1
<1>2. s.hour = (IF i = 2 THEN 3 ELSE IF i = 6 THEN 1 ELSE 22) OBVIOUS
<1>3. s.foreign <=> i # 8 BY SMTT(20)
<1>4. s.merchant <=> i # 2
  <2>1. CASE i = 2 BY <2>1, ZenonT(60)
  <2>2. CASE i = 6
    <3>1. s.merchant BY <2>2, ZenonT(60)
    <3> QED BY <2>2, <3>1
  <2>3. CASE i = 8
    <3>1. s.merchant BY <2>3, ZenonT(60)
    <3> QED BY <2>3, <3>1
  <2> QED BY <2>1, <2>2, <2>3
<1>5. /\ i = 2 => s.rules = {"TIME_RISK", "FOREIGN_IP", "AMOUNT_REVIEW"}
      /\ i = 6 => s.rules = {"TIME_RISK", "FOREIGN_IP", "AMOUNT_REVIEW", "NEW_MERCHANT"}
      /\ i = 8 => s.rules = {"AMOUNT_REVIEW", "AMOUNT_SPIKE", "NEW_MERCHANT"}
  OBVIOUS
<1> HIDE DEF FraudScenarios, Scenario
<1> QED BY <1>1, <1>2, <1>3, <1>4, <1>5

LEMMA Scenarios == ScenariosTaught
<1> DEFINE s(i) == FraudScenarios[i]
           known(i) == s(i).rules \cap {"AMOUNT_REVIEW", "TIME_RISK", "FOREIGN_IP", "NEW_MERCHANT"}
<1> SUFFICES ASSUME NEW i \in DOMAIN FraudScenarios
             PROVE  /\ known(i) \ Reported(s(i)) \subseteq (IF i = 6 THEN {"TIME_RISK"} ELSE {})
                    /\ Reported(s(i)) \subseteq known(i)
  BY DEF ScenariosTaught
<1>1. i \in 1..10 BY DEF FraudScenarios
<1>2. CASE i \in {1, 3, 4, 5, 7, 9, 10} BY <1>2, QuietScenarios
<1>3. CASE i \in {2, 6, 8} BY <1>3, LoudScenarios, LoudPayment
<1> QED BY <1>1, <1>2, <1>3

-----------------------------------------------------------------------------
\* A part of n is between none and all percent of it, and all only if it is n.
LEMMA Percent ==
    ASSUME NEW n \in Nat \ {0}, NEW c \in 0..n
    PROVE  (100 * c) \div n \in 0..100 /\ ((100 * c) \div n = 100 => c = n)
<1> DEFINE q == (100 * c) \div n
<1>1. q \in Int /\ n * q <= 100 * c /\ 100 * c < n * q + n OBVIOUS
<1> HIDE DEF q
<1>2. q <= 100
  <2> SUFFICES ASSUME q >= 101 PROVE FALSE BY <1>1
  <2>1. n * q >= n * 101 BY <1>1
  <2> QED BY <2>1, <1>1
<1>3. q >= 0
  <2> SUFFICES ASSUME q <= -1 PROVE FALSE BY <1>1
  <2>1. n * q <= n * (-1) BY <1>1
  <2> QED BY <2>1, <1>1
<1>4. q = 100 => c = n BY <1>1
<1> QED BY <1>1, <1>2, <1>3, <1>4 DEF q

\* Of the answers to a quiz, no more are right than there are.
LEMMA NoMoreThanAll ==
    ASSUME NEW n \in Nat, NEW S \in SUBSET (1..n)
    PROVE  Cardinality(S) \in 0..n
<1>1. IsFiniteSet(1..n) /\ Cardinality(1..n) = n BY FS_Interval
<1>2. IsFiniteSet(S) /\ Cardinality(S) <= Cardinality(1..n) BY <1>1, FS_Subset
<1>3. Cardinality(S) \in Nat BY <1>2, FS_CardinalityType
<1> QED BY <1>1, <1>2, <1>3

\* Marks are fair, however many answers come to however many questions.
LEMMA Marked == LessonTypeOK => MarksFair
<1> SUFFICES ASSUME LessonTypeOK,
                    NEW correct \in {FraudCorrect} \cup (IF Len(asked) < Len(answers) THEN {} ELSE {SpendingCorrect})
             PROVE  /\ Marks(correct) \in 0..100
                    /\ (Marks(correct) = 100 => correct = Len(answers) /\ (correct > 0 => Len(asked) >= Len(answers)))
  BY DEF MarksFair
<1>1. /\ DOMAIN answers = 1..Len(answers) /\ DOMAIN asked = 1..Len(asked)
      /\ Len(answers) \in Nat /\ Len(asked) \in Nat /\ (answers = <<>> <=> Len(answers) = 0)
  BY DEF LessonTypeOK
<1>2. correct \in 0..Len(answers) /\ (correct \in 0..Len(asked) \/ Len(asked) >= Len(answers))
  <2>1. CASE correct = FraudCorrect
    <3> DEFINE rightly == {i \in DOMAIN answers \cap DOMAIN asked :
                            asked[i] \in DOMAIN FraudScenarios
                            /\ answers[i] = (IF FraudScenarios[asked[i]].fraud THEN 2 ELSE 1)}
    <3>1. rightly \in SUBSET (1..Len(answers)) /\ rightly \in SUBSET (1..Len(asked)) BY <1>1
    <3>2. correct = Cardinality(rightly) BY <2>1 DEF FraudCorrect
    <3> HIDE DEF rightly
    <3> QED BY <1>1, <3>1, <3>2, NoMoreThanAll
  <2>2. CASE correct = SpendingCorrect /\ Len(asked) >= Len(answers)
    <3> DEFINE rightly == {i \in DOMAIN answers : SpendingRight(asked[i], answers[i])}
    <3>1. rightly \in SUBSET (1..Len(answers)) BY <1>1
    <3>2. correct = Cardinality(rightly) BY <2>2 DEF SpendingCorrect
    <3> HIDE DEF rightly
    <3> QED BY <1>1, <2>2, <3>1, <3>2, NoMoreThanAll
  <2> QED BY <1>1, <2>1, <2>2
<1>3. CASE answers = <<>> BY <1>3 DEF Marks
<1>4. CASE answers # <<>>
  <2>1. Marks(correct) = (100 * correct) \div Len(answers) BY <1>4 DEF Marks
  <2>2. Len(answers) \in Nat \ {0} BY <1>1, <1>4
  <2>3. (100 * correct) \div Len(answers) \in 0..100
        /\ ((100 * correct) \div Len(answers) = 100 => correct = Len(answers))
    BY <1>2, <2>2, Percent
  <2>4. correct = Len(answers) => Len(asked) >= Len(answers)
    <3>1. Len(answers) \in Nat /\ Len(asked) \in Nat BY <1>1
    <3> QED BY <1>2, <3>1
  <2> QED BY <2>1, <2>3, <2>4
<1> QED BY <1>3, <1>4

-----------------------------------------------------------------------------
\* The levels have finitely many courses, and what the diagnosis says fits.
LEMMA CoursesAreFew == ASSUME NEW level PROVE IsFiniteSet(CourseOf(level))
<1> DEFINE course == [n \in 1..4 |-> [level |-> level, number |-> n, steps |-> 4]]
<1>1. IsFiniteSet(1..4)
  <2>1. 1 \in Int /\ 4 \in Int OBVIOUS
  <2> QED BY <2>1, FS_Interval, Zenon
<1>2. course \in Surjection(1..4, CourseOf(level))
  <2>1. course \in [1..4 -> CourseOf(level)] BY DEF CourseOf
  <2>2. ASSUME NEW c \in CourseOf(level) PROVE \E n \in 1..4 : course[n] = c BY DEF CourseOf
  <2> QED BY <2>1, <2>2 DEF Surjection
<1> QED BY <1>1, <1>2, FS_Surjection

LEMMA Diagnosed == LessonTypeOK => DiagnosisAgrees
<1> SUFFICES ASSUME LessonTypeOK PROVE DiagnosisAgrees
  OBVIOUS
<1> DEFINE diagnosis == Diagnosis(spending)  level == Level[Assigned(spending.risk, spending.cluster)]
<1>1. spending.risk \in Nat BY LessonConstants DEF LessonTypeOK, SpendingOfUser
<1>2. diagnosis.grade = Grade(spending.risk) /\ diagnosis.advice = ImprovementPoints(spending) /\ diagnosis.level = level
  BY DEF Diagnosis
<1>3. diagnosis.advice = {} => spending.risk <= 50
  <2>1. spending.risk > 50 => "overspending" \in ImprovementPoints(spending) BY DEF ImprovementPoints
  <2> QED BY <1>1, <1>2, <2>1
<1>4. level = (IF spending.risk >= 60 \/ spending.cluster = "spender" THEN "beginner"
               ELSE IF spending.risk >= 30 \/ spending.cluster = "balanced" THEN "intermediate" ELSE "advanced")
  BY DEF Level, Assigned
<1>5. level \in {"beginner", "intermediate", "advanced"} BY <1>4
<1>6. CompletedOf(finished, level) <= Cardinality(CourseOf(level))
  <2> DEFINE done == {c \in finished : c.level = level}
  <2>1. IsFiniteSet(CourseOf(level)) BY CoursesAreFew
  <2>2. done \in SUBSET CourseOf(level)
    BY DEF LessonTypeOK, Courses, Beginner, Intermediate, Advanced, CourseOf
  <2>3. Cardinality(done) <= Cardinality(CourseOf(level)) BY <2>1, <2>2, FS_Subset
  <2> QED BY <2>3 DEF CompletedOf
<1> HIDE DEF diagnosis, level
<1>7. /\ diagnosis.advice = {} => diagnosis.grade \in {"safe", "caution", "warning"}
      /\ diagnosis.grade \in {"danger", "critical"} => diagnosis.level = "beginner"
      /\ diagnosis.level = "advanced" => diagnosis.grade \in {"safe", "caution"}
  BY <1>1, <1>2, <1>3, <1>4 DEF Grade
<1> QED BY <1>2, <1>6, <1>7 DEF DiagnosisAgrees, diagnosis

\* What is taught, marked and diagnosed agrees with what fraud-service decides by
\* and with itself, whatever is tried, asked and answered and however the models
\* are trained (routes_education.py).
THEOREM LessonsAgree == LessonSpec => []LessonsHold
<1>1. LessonTypeOK => LessonsHold BY Taught, Scenarios, Marked, Diagnosed DEF LessonsHold
<1> QED BY <1>1, LessonTypeCorrect, PTL

-----------------------------------------------------------------------------
(***************************************************************************)
(* The challenges, for any payments, quizzes and waits                     *)
(***************************************************************************)

\* A payment of a challenge.
Entered == [at : Nat, amount : Amounts, food : BOOLEAN]

ChallengeInv ==
    /\ clock \in Nat /\ clock <= MaxTime
    /\ IsFiniteSet(payments) /\ payments \subseteq Entered /\ \A p \in payments : p.at <= clock
    /\ scores \in Seq(BOOLEAN) /\ Len(scores) <= MaxQuizzes
    /\ joined = [challenge |-> joined.challenge, start |-> joined.start, status |-> joined.status]
    /\ joined.challenge \in DOMAIN Target /\ joined.start \in Nat /\ joined.start <= clock
    /\ joined.status \in {"none", "active", "completed"}

LEMMA EnteredFields ==
    ASSUME NEW p \in Entered
    PROVE  p.at \in Nat /\ p.amount \in Nat /\ p.amount \in Amounts /\ p.food \in BOOLEAN
BY ChallengeConstants DEF Entered

LEMMA EnteredIs ==
    ASSUME NEW t \in Nat, NEW m \in Amounts, NEW b \in BOOLEAN
    PROVE  [at |-> t, amount |-> m, food |-> b] \in Entered
BY DEF Entered

\* What a challenge's steps do to what is measured.
LEMMA WaitDoes ==
    ASSUME ChallengeInv, NEW d \in Waits, Wait(d)
    PROVE  /\ clock' = clock + d /\ d \in Nat /\ clock' \in Nat /\ clock' <= MaxTime
           /\ payments' = payments /\ scores' = scores /\ joined' = joined
BY ChallengeConstants DEF Wait, ChallengeInv

LEMMA PayDoes ==
    ASSUME ChallengeInv, NEW age \in Ages, NEW amount \in Amounts, NEW food \in BOOLEAN, Pay(age, amount, food)
    PROVE  \E e \in Entered :
             /\ e \notin payments /\ payments' = payments \cup {e} /\ e.at <= clock
             /\ clock' = clock /\ scores' = scores /\ joined' = joined
<1> DEFINE e == [at |-> clock - age, amount |-> amount, food |-> food]
<1>1. age \in Nat /\ clock \in Nat /\ age <= clock
  BY ChallengeConstants DEF Pay, ChallengeInv
<1>2. clock - age \in Nat /\ clock - age <= clock
  BY <1>1
<1>3. e \in Entered /\ e.at <= clock
  BY <1>2, EnteredIs
<1>4. e \notin payments /\ payments' = payments \cup {e} /\ clock' = clock /\ scores' = scores /\ joined' = joined
  BY DEF Pay
<1> QED BY <1>3, <1>4

LEMMA RowOf == ASSUME NEW b \in BOOLEAN, NEW n \in Nat PROVE [i \in 1..n |-> b] \in Seq(BOOLEAN) /\ Len([i \in 1..n |-> b]) = n
<1>1. [i \in 1..n |-> b] \in [1..n -> BOOLEAN]
  OBVIOUS
<1> QED BY <1>1, SeqMade

LEMMA ConcatHas ==
    ASSUME NEW s \in Seq(BOOLEAN), NEW t \in Seq(BOOLEAN)
    PROVE  /\ s \o t \in Seq(BOOLEAN) /\ Len(s \o t) = Len(s) + Len(t)
           /\ \A i \in 1..Len(s) : (s \o t)[i] = s[i]
OBVIOUS

LEMMA PartOf ==
    ASSUME NEW s \in Seq(BOOLEAN), NEW a \in 1..Len(s) + 1, NEW b \in 0..Len(s), a <= b + 1
    PROVE  SubSeq(s, a, b) \in Seq(BOOLEAN) /\ Len(SubSeq(s, a, b)) = b + 1 - a
OBVIOUS

LEMMA MarkDoes ==
    ASSUME ChallengeInv, NEW well \in BOOLEAN, NEW often \in {1, 5}, NEW later \in 0..MaxOverlap, Mark(well, often, later)
    PROVE  /\ scores' \in Seq(BOOLEAN) /\ Len(scores) <= Len(scores') /\ Len(scores') <= MaxQuizzes
           /\ clock' = clock /\ payments' = payments /\ joined' = joined
<1> DEFINE t == [i \in 1..often |-> well]
           earlier == Len(scores) - later
           before == SubSeq(scores, 1, earlier)
           after == SubSeq(scores, earlier + 1, Len(scores))
<1>1. often \in Nat
  OBVIOUS
<1>2. t \in Seq(BOOLEAN) /\ Len(t) = often
  BY <1>1, RowOf
<1>3. scores' = before \o t \o after /\ Len(scores) + often <= MaxQuizzes /\ scores \in Seq(BOOLEAN)
      /\ clock' = clock /\ payments' = payments /\ joined' = joined /\ later <= Len(scores)
  BY DEF Mark, ChallengeInv
<1>4. Len(scores) \in Nat /\ later \in Nat
  BY <1>3, ChallengeConstants
<1>5. earlier \in 0..Len(scores)
  BY <1>3, <1>4
<1> HIDE DEF t, earlier
<1>6. 1 \in 1..Len(scores) + 1 /\ earlier + 1 \in 1..Len(scores) + 1 /\ Len(scores) \in 0..Len(scores)
      /\ 1 <= earlier + 1 /\ earlier + 1 <= Len(scores) + 1
  BY <1>4, <1>5
<1>7. before \in Seq(BOOLEAN) /\ Len(before) = earlier + 1 - 1
  BY <1>3, <1>5, <1>6, PartOf
<1>8. after \in Seq(BOOLEAN) /\ Len(after) = Len(scores) + 1 - (earlier + 1)
  BY <1>3, <1>6, PartOf
<1> HIDE DEF before, after
<1>9. before \o t \in Seq(BOOLEAN) /\ Len(before \o t) = Len(before) + Len(t)
  BY <1>2, <1>7, ConcatHas
<1>10. scores' \in Seq(BOOLEAN) /\ Len(scores') = Len(before \o t) + Len(after)
  BY <1>3, <1>8, <1>9, ConcatHas
<1>11. Len(scores') = Len(scores) + often
  BY <1>2, <1>4, <1>5, <1>7, <1>8, <1>9, <1>10
<1>12. Len(scores) <= Len(scores') /\ Len(scores') <= MaxQuizzes
  BY <1>1, <1>3, <1>4, <1>11
<1> QED BY <1>3, <1>10, <1>12

LEMMA JoinDoes ==
    ASSUME ChallengeInv, Join
    PROVE  /\ joined.status = "none"
           /\ joined' = [challenge |-> joined.challenge, start |-> clock, status |-> "active"]
           /\ clock' = clock /\ payments' = payments /\ scores' = scores
BY DEF Join, ChallengeInv

LEMMA ReachedDoes ==
    ASSUME ChallengeInv, NEW v, Reached(v), joined.status = "active"
    PROVE  /\ clock' = clock /\ payments' = payments /\ scores' = scores
           /\ joined' = [challenge |-> joined.challenge, start |-> joined.start, status |-> joined'.status]
           /\ joined'.status \in {"active", "completed"}
<1>1. joined = [challenge |-> joined.challenge, start |-> joined.start, status |-> joined.status]
  BY DEF ChallengeInv
<1>2. joined' = joined \/ joined' = [joined EXCEPT !.status = "completed"]
  BY DEF Reached
<1>3. clock' = clock /\ payments' = payments /\ scores' = scores
  BY DEF Reached
<1>4. [joined EXCEPT !.status = "completed"] = [challenge |-> joined.challenge, start |-> joined.start, status |-> "completed"]
  BY <1>1
<1> QED BY <1>1, <1>2, <1>3, <1>4

LEMMA ChallengeStarts == ChallengeInit => ChallengeInv
<1> SUFFICES ASSUME ChallengeInit PROVE ChallengeInv
  OBVIOUS
<1>1. joined = [challenge |-> joined.challenge, start |-> joined.start, status |-> joined.status]
      /\ joined.challenge \in DOMAIN Target /\ joined.start = 0 /\ joined.status = "none"
  BY DEF ChallengeInit
<1>2. clock = 0 /\ payments = {} /\ scores = <<>>
  BY DEF ChallengeInit
<1>3. scores \in Seq(BOOLEAN) /\ Len(scores) = 0
  BY <1>2
<1>4. IsFiniteSet(payments)
  BY <1>2, FS_EmptySet
<1> QED BY <1>1, <1>2, <1>3, <1>4, ChallengeConstants DEF ChallengeInv

LEMMA ChallengeKeeps == ChallengeInv /\ [ChallengeNext]_challengeVars => ChallengeInv'
<1> SUFFICES ASSUME ChallengeInv, [ChallengeNext]_challengeVars PROVE ChallengeInv'
  OBVIOUS
<1>1. ASSUME NEW d \in Waits, Wait(d) PROVE ChallengeInv'
  <2>1. /\ clock' = clock + d /\ d \in Nat /\ clock' \in Nat /\ clock' <= MaxTime
        /\ payments' = payments /\ scores' = scores /\ joined' = joined
    BY <1>1, WaitDoes
  <2>2. \A p \in payments : p.at <= clock'
    <3> SUFFICES ASSUME NEW p \in payments PROVE p.at <= clock'
      OBVIOUS
    <3>1. p.at \in Nat /\ p.at <= clock /\ clock \in Nat
      BY EnteredFields DEF ChallengeInv
    <3> QED BY <2>1, <3>1
  <2>3. joined.start <= clock'
    BY <2>1 DEF ChallengeInv
  <2> QED BY <2>1, <2>2, <2>3 DEF ChallengeInv
<1>2. ASSUME NEW age \in Ages, NEW amount \in Amounts, NEW food \in BOOLEAN, Pay(age, amount, food) PROVE ChallengeInv'
  <2>1. PICK e \in Entered : /\ e \notin payments /\ payments' = payments \cup {e} /\ e.at <= clock
                             /\ clock' = clock /\ scores' = scores /\ joined' = joined
    BY <1>2, PayDoes
  <2>2. IsFiniteSet(payments)
    BY DEF ChallengeInv
  <2>3. IsFiniteSet(payments')
    BY <2>1, <2>2, FS_AddElement
  <2>4. payments' \subseteq Entered /\ \A p \in payments' : p.at <= clock'
    BY <2>1 DEF ChallengeInv
  <2> QED BY <2>1, <2>3, <2>4 DEF ChallengeInv
<1>3. ASSUME NEW well \in BOOLEAN, NEW often \in {1, 5}, NEW later \in 0..MaxOverlap, Mark(well, often, later) PROVE ChallengeInv'
  <2>1. /\ scores' \in Seq(BOOLEAN) /\ Len(scores') <= MaxQuizzes
        /\ clock' = clock /\ payments' = payments /\ joined' = joined
    BY <1>3, MarkDoes
  <2> QED BY <2>1 DEF ChallengeInv
<1>4. CASE Join
  <2>1. /\ joined' = [challenge |-> joined.challenge, start |-> clock, status |-> "active"]
        /\ clock' = clock /\ payments' = payments /\ scores' = scores
    BY <1>4, JoinDoes
  <2>2. joined' = [challenge |-> joined'.challenge, start |-> joined'.start, status |-> joined'.status]
        /\ joined'.challenge = joined.challenge /\ joined'.start = clock /\ joined'.status = "active"
    BY <2>1
  <2>3. clock <= clock /\ clock \in Nat
    BY DEF ChallengeInv
  <2> HIDE <2>1
  <2> QED BY <2>1, <2>2, <2>3 DEF ChallengeInv
<1>5. ASSUME NEW v, Reached(v), joined.status = "active" PROVE ChallengeInv'
  <2>1. /\ clock' = clock /\ payments' = payments /\ scores' = scores
        /\ joined' = [challenge |-> joined.challenge, start |-> joined.start, status |-> joined'.status]
        /\ joined'.status \in {"active", "completed"}
    BY <1>5, ReachedDoes
  <2>2. joined' = [challenge |-> joined'.challenge, start |-> joined'.start, status |-> joined'.status]
        /\ joined'.challenge = joined.challenge /\ joined'.start = joined.start
    BY <2>1
  <2> QED BY <2>1, <2>2 DEF ChallengeInv
<1>6. CASE UNCHANGED challengeVars
  BY <1>6 DEF challengeVars, ChallengeInv
<1>7. Sync => \E v : Reached(v) /\ joined.status = "active"
  BY DEF Sync
<1>8. ReportProgress(1) => Reached(1) /\ joined.status = "active"
  BY DEF ReportProgress
<1> QED BY <1>1, <1>2, <1>3, <1>4, <1>5, <1>6, <1>7, <1>8 DEF ChallengeNext

LEMMA ChallengeInvariant == ChallengeSpec => []ChallengeInv
BY ChallengeStarts, ChallengeKeeps, PTL DEF ChallengeSpec

-----------------------------------------------------------------------------
\* What is paid, as a sum.
LEMMA TotalIs ==
    ASSUME NEW ps \in SUBSET Entered, IsFiniteSet(ps)
    PROVE  Total(ps) = SumOf([e \in Entered |-> e.amount], ps)
<1> DEFINE f == [e \in Entered |-> e.amount]
           IsIt(g) == g = [s \in SUBSET ps |-> IF s = {} THEN 0 ELSE AnyOf(s).amount + g[s \ {AnyOf(s)}]]
<1>1. f \in [Entered -> Int] /\ \A e \in Entered : f[e] = e.amount
  BY EnteredFields
<1>2. ASSUME NEW g PROVE IsSum(g, f, ps) <=> IsIt(g)
  <2>1. \A s \in SUBSET ps : s # {} => f[AnyOf(s)] = AnyOf(s).amount
    BY FirstIn
  <2> HIDE DEF f
  <2> QED BY <2>1 DEF IsSum
<1>3. PICK g : IsSum(g, f, ps)
  <2> HIDE DEF f, IsIt
  <2> QED BY <1>1, SumExists
<1>4. \E h : IsIt(h)
  BY <1>2, <1>3
<1>5. \E h : IsIt(h) /\ Total(ps) = h[ps]
  BY <1>4, ZenonT(30) DEF Total, MapThenSumSet, MapThenFoldSet, AnyOf
<1> HIDE DEF f, IsIt
<1>6. PICK h : IsIt(h) /\ Total(ps) = h[ps]
  BY <1>5
<1>7. IsSum(h, f, ps)
  BY <1>2, <1>6
<1>8. SumOf(f, ps) = h[ps]
  BY <1>1, <1>7, SumUnfolds
<1> QED BY <1>6, <1>8 DEF f

LEMMA TotalGrows ==
    ASSUME NEW ps \in SUBSET Entered, IsFiniteSet(ps), NEW qs \in SUBSET ps
    PROVE  Total(qs) \in Nat /\ Total(ps) \in Nat /\ Total(qs) <= Total(ps)
<1> DEFINE f == [e \in Entered |-> e.amount]
<1>1. f \in [Entered -> Int] /\ \A e \in Entered : 0 <= f[e]
  BY EnteredFields
<1>2. IsFiniteSet(qs) /\ qs \in SUBSET Entered
  BY FS_Subset
<1>3. Total(ps) = SumOf(f, ps) /\ Total(qs) = SumOf(f, qs)
  BY <1>2, TotalIs
<1> HIDE DEF f
<1>4. \A x \in ps \ qs : 0 <= f[x]
  BY <1>1
<1>5. SumOf(f, qs) <= SumOf(f, ps)
  BY <1>1, <1>4, SumGrows
<1>6. SumOf(f, qs) \in Int /\ SumOf(f, ps) \in Int
  BY <1>1, <1>2, SumInt
<1>7. 0 <= SumOf(f, qs) /\ 0 <= SumOf(f, ps)
  BY <1>1, <1>2, SumNonneg
<1> QED BY <1>3, <1>5, <1>6, <1>7

\* What is not negative is kept as it is, and what is is nothing.
LEMMA Floor ==
    ASSUME NEW x \in Int
    PROVE  Max({x, 0}) \in Nat /\ (x >= 0 => Max({x, 0}) = x) /\ (x <= 0 => Max({x, 0}) = 0)
<1>1. \E m \in {x, 0} : \A n \in {x, 0} : m >= n
  OBVIOUS
<1>2. Max({x, 0}) \in {x, 0} /\ \A n \in {x, 0} : Max({x, 0}) >= n
  BY <1>1 DEF Max
<1> DEFINE m == Max({x, 0})
<1>3. (m = x \/ m = 0) /\ m >= x /\ m >= 0
  BY <1>2
<1> HIDE DEF m
<1>4. m \in Nat /\ (x >= 0 => m = x) /\ (x <= 0 => m = 0)
  BY <1>3
<1> QED BY <1>4 DEF m

LEMMA FloorGrows ==
    ASSUME NEW x \in Int, NEW y \in Int, x <= y
    PROVE  Max({x, 0}) <= Max({y, 0}) /\ Max({x, 0}) \in Nat /\ Max({y, 0}) \in Nat
<1>1. Max({x, 0}) \in Nat /\ (x >= 0 => Max({x, 0}) = x) /\ (x <= 0 => Max({x, 0}) = 0)
  BY Floor
<1>2. Max({y, 0}) \in Nat /\ (y >= 0 => Max({y, 0}) = y) /\ (y <= 0 => Max({y, 0}) = 0)
  BY Floor
<1> DEFINE m == Max({x, 0})
           n == Max({y, 0})
<1>3. m \in Nat /\ (x >= 0 => m = x) /\ (x <= 0 => m = 0) /\ n \in Nat /\ (y >= 0 => n = y) /\ (y <= 0 => n = 0)
  BY <1>1, <1>2
<1> HIDE DEF m, n
<1>4. m <= n
  BY <1>3
<1> QED BY <1>1, <1>2, <1>4 DEF m, n
-----------------------------------------------------------------------------
\* A share that is saved falls when more is spent, and when there was less to
\* save it from.
Share(b, a) == IF b = 0 THEN 0 ELSE Max({(100 * (b - a)) \div b, 0})

LEMMA SavedNat == ASSUME NEW b \in Nat, NEW a \in Nat PROVE Share(b, a) \in Nat
<1>1. CASE b = 0
  BY <1>1 DEF Share
<1>2. CASE b # 0
  <2> DEFINE q == (100 * (b - a)) \div b
  <2>1. q \in Int
    BY <1>2, Quotient
  <2> HIDE DEF q
  <2>2. Max({q, 0}) \in Nat
    BY <2>1, Floor
  <2> QED BY <1>2, <2>2 DEF Share, q
<1> QED BY <1>1, <1>2

LEMMA SavedFalls ==
    ASSUME NEW b \in Nat, NEW a \in Nat, NEW c \in Nat, NEW d \in Nat, c <= b, a <= d
    PROVE  Share(c, d) <= Share(b, a)
<1>1. Share(c, d) \in Nat /\ Share(b, a) \in Nat
  BY SavedNat
<1>2. CASE c = 0
  BY <1>1, <1>2 DEF Share
<1>3. CASE c # 0
  <2> DEFINE q == (100 * (b - a)) \div b
             r == (100 * (c - d)) \div c
  <2>1. b # 0 /\ c \in Nat \ {0} /\ b \in Nat \ {0}
    BY <1>3
  <2>2. r \in Int /\ q \in Int
    BY <2>1, Quotient
  <2>3. ASSUME r > 0 PROVE q >= r
    <3> DEFINE x == 100 * (c - d)
               y == 100 * (b - a)
    <3>1. x \in Int /\ y \in Int /\ r \in Int
      BY <2>2
    <3>2. x >= r * c
      <4> HIDE DEF x
      <4>1. x \div c >= r <=> x >= r * c
        BY <2>1, <3>1, Quotient DEF r, x
      <4>2. x \div c = r
        BY DEF x
      <4> QED BY <2>2, <4>1, <4>2
    <3>3. r <= 100
      <4>1. r \in Nat /\ r * c <= 100 * c
        <5>1. x <= 100 * c
          OBVIOUS
        <5> HIDE DEF r, x
        <5> QED BY <2>2, <2>3, <3>1, <3>2, <5>1
      <4>2. ASSUME r > 100 PROVE FALSE
        <5>1. \E k \in Nat : r = 101 + k
          <6> HIDE DEF r
          <6> QED BY <2>2, <4>2
        <5>2. PICK k \in Nat : r = 101 + k
          BY <5>1
        <5>3. 0 <= k * c
          BY <2>1
        <5>4. r * c = 101 * c + k * c
          <6> HIDE DEF r
          <6> QED BY <2>1, <5>2
        <5> DEFINE p == k * c
                   t == r * c
        <5>5. p \in Int /\ t \in Int /\ 0 <= p /\ t = 101 * c + p /\ t <= 100 * c
          BY <2>1, <4>1, <5>3, <5>4
        <5> HIDE DEF p, t
        <5> QED BY <2>1, <5>5
      <4> HIDE DEF r
      <4> QED BY <2>2, <4>2
    <3>4. \E k \in Nat : b = c + k
      <4>1. b - c \in Nat /\ b = c + (b - c)
        OBVIOUS
      <4> QED BY <4>1
    <3>5. PICK k \in Nat : b = c + k
      BY <3>4
    <3>6. r * k <= 100 * k
      <4> HIDE DEF r
      <4>1. r \in Nat
        BY <2>2, <2>3
      <4> QED BY <3>3, <4>1, Times
    <3>7. r * b = r * c + r * k
      <4> HIDE DEF r
      <4> QED BY <2>2, <3>5
    <3>8. y >= r * b
      <4> DEFINE u == r * b
                 v == r * c
                 w == r * k
      <4>1. u \in Int /\ v \in Int /\ w \in Int
        <5> HIDE DEF r
        <5> QED BY <2>2
      <4>2. u = v + w /\ w <= 100 * k /\ 100 * (c - d) >= v
        BY <3>2, <3>6, <3>7
      <4> HIDE DEF u, v, w
      <4>3. 100 * (b - a) >= u
        BY <3>5, <4>1, <4>2
      <4> QED BY <4>3 DEF u
    <3>9. y \div b >= r <=> y >= r * b
      <4> HIDE DEF y, r
      <4> QED BY <2>1, <2>2, <3>1, Quotient
    <3> QED BY <3>8, <3>9
  <2>4. ASSUME r > 0 PROVE Max({r, 0}) <= Max({q, 0})
    <3>1. r <= q
      BY <2>3, <2>4, <2>2
    <3> HIDE DEF r, q
    <3> QED BY <2>2, <3>1, FloorGrows
  <2>5. ASSUME r <= 0 PROVE Max({r, 0}) <= Max({q, 0})
    <3> HIDE DEF r, q
    <3>1. Max({r, 0}) = 0 /\ Max({q, 0}) \in Nat
      BY <2>2, <2>5, Floor
    <3> QED BY <3>1
  <2>6. Max({r, 0}) <= Max({q, 0})
    <3> HIDE DEF r, q
    <3> QED BY <2>2, <2>4, <2>5
  <2>7. Share(c, d) = Max({r, 0}) /\ Share(b, a) = Max({q, 0})
    BY <2>1, <1>3 DEF Share
  <2> QED BY <2>6, <2>7
<1> QED BY <1>2, <1>3

-----------------------------------------------------------------------------
\* The payments for food of the thirty days before a start, and since, of which
\* only those of the last thirty days are read.
BeforeOf(start) ==
    {p \in payments : p.at >= clock - Window /\ p.food /\ start - Window <= p.at /\ p.at < start}
AfterOf(start) == {p \in payments : p.at >= clock - Window /\ p.food /\ p.at >= start}

LEMMA ReductionIs ==
    ASSUME NEW s
    PROVE  /\ Reduction(s) = Share(Total(BeforeOf(s)), Total(AfterOf(s)))
           /\ Reduction(s)' = Share(Total(BeforeOf(s)'), Total(AfterOf(s)'))
<1>1. /\ {p \in {q \in Recent : q.food} : s - Window <= p.at /\ p.at < s} = BeforeOf(s)
      /\ {p \in {q \in Recent : q.food} : p.at >= s} = AfterOf(s)
  BY DEF Recent, BeforeOf, AfterOf
<1>2. /\ {p \in {q \in Recent' : q.food} : s - Window <= p.at /\ p.at < s} = BeforeOf(s)'
      /\ {p \in {q \in Recent' : q.food} : p.at >= s} = AfterOf(s)'
  BY DEF Recent, BeforeOf, AfterOf
<1>3. Reduction(s) = Share(Total({p \in {q \in Recent : q.food} : s - Window <= p.at /\ p.at < s}),
                           Total({p \in {q \in Recent : q.food} : p.at >= s}))
  BY DEF Reduction, Share
<1>4. Reduction(s)' = Share(Total({p \in {q \in Recent' : q.food} : s - Window <= p.at /\ p.at < s}),
                            Total({p \in {q \in Recent' : q.food} : p.at >= s}))
  BY DEF Reduction, Share
<1> QED BY <1>1, <1>2, <1>3, <1>4

LEMMA TotalNone == Total({}) = 0
<1>1. {} \in SUBSET Entered /\ IsFiniteSet({})
  BY FS_EmptySet
<1>2. Total({}) = SumOf([e \in Entered |-> e.amount], {})
  BY <1>1, TotalIs
<1>3. [e \in Entered |-> e.amount] \in [Entered -> Int]
  BY EnteredFields
<1> QED BY <1>2, <1>3, SumEmpty

\* What has been saved since falls, unless a payment of before comes in.
LEMMA ReductionFalls ==
    ASSUME ChallengeInv, ChallengeInv', NEW s \in Nat, clock <= clock', payments \subseteq payments',
           \A p \in payments' \ payments : p.at >= s
    PROVE  Reduction(s)' <= Reduction(s)
<1>1. /\ clock \in Nat /\ clock' \in Nat /\ IsFiniteSet(payments) /\ IsFiniteSet(payments')
      /\ payments \subseteq Entered /\ payments' \subseteq Entered
  BY DEF ChallengeInv
<1>2. BeforeOf(s) \subseteq payments /\ AfterOf(s) \subseteq payments /\ BeforeOf(s)' \subseteq payments' /\ AfterOf(s)' \subseteq payments'
  BY DEF BeforeOf, AfterOf
<1>3. /\ IsFiniteSet(BeforeOf(s)) /\ IsFiniteSet(AfterOf(s)) /\ IsFiniteSet(BeforeOf(s)') /\ IsFiniteSet(AfterOf(s)')
      /\ BeforeOf(s) \subseteq Entered /\ AfterOf(s) \subseteq Entered /\ BeforeOf(s)' \subseteq Entered /\ AfterOf(s)' \subseteq Entered
  BY <1>1, <1>2, FS_Subset
<1>4. BeforeOf(s)' \subseteq BeforeOf(s)
  <2> SUFFICES ASSUME NEW p \in BeforeOf(s)' PROVE p \in BeforeOf(s)
    OBVIOUS
  <2>1. p \in payments' /\ p.at >= clock' - Window /\ p.food /\ s - Window <= p.at /\ p.at < s /\ p.at \in Nat
    BY <1>1, EnteredFields DEF BeforeOf
  <2>2. p \in payments
    BY <2>1
  <2>3. p.at >= clock - Window
    BY <1>1, <2>1 DEF Window
  <2> QED BY <2>1, <2>2, <2>3 DEF BeforeOf
<1>5. /\ Total(BeforeOf(s)) \in Nat /\ Total(BeforeOf(s)') \in Nat /\ Total(BeforeOf(s)') <= Total(BeforeOf(s))
  BY <1>3, <1>4, TotalGrows
<1>6. Total(AfterOf(s)) \in Nat /\ Total(AfterOf(s)') \in Nat
  BY <1>3, TotalGrows
<1>7. CASE clock' - Window <= s
  <2>1. AfterOf(s) \subseteq AfterOf(s)'
    <3> SUFFICES ASSUME NEW p \in AfterOf(s) PROVE p \in AfterOf(s)'
      OBVIOUS
    <3>1. p \in payments /\ p.food /\ p.at >= s /\ p.at \in Nat
      BY <1>1, EnteredFields DEF AfterOf
    <3>2. p.at >= clock' - Window
      <4> DEFINE t == p.at
                 c == clock'
      <4>1. t \in Nat /\ c \in Nat /\ t >= s /\ c - Window <= s
        BY <1>1, <1>7, <3>1
      <4> HIDE DEF t, c
      <4>2. t >= c - Window
        BY <4>1 DEF Window
      <4> QED BY <4>2 DEF t, c
    <3> QED BY <3>1, <3>2 DEF AfterOf
  <2>2. Total(AfterOf(s)) <= Total(AfterOf(s)')
    BY <1>3, <2>1, TotalGrows
  <2>3. Share(Total(BeforeOf(s)'), Total(AfterOf(s)')) <= Share(Total(BeforeOf(s)), Total(AfterOf(s)))
    BY <1>5, <1>6, <2>2, SavedFalls
  <2> QED BY <2>3, ReductionIs
<1>8. CASE ~(clock' - Window <= s)
  <2>1. BeforeOf(s)' = {}
    <3> SUFFICES ASSUME NEW p \in BeforeOf(s)' PROVE FALSE
      OBVIOUS
    <3>1. p.at >= clock' - Window /\ p.at < s /\ p.at \in Nat
      BY <1>1, EnteredFields DEF BeforeOf
    <3> DEFINE t == p.at
               c == clock'
    <3>2. t \in Nat /\ c \in Nat /\ t >= c - Window /\ t < s /\ ~(c - Window <= s)
      BY <1>1, <1>8, <3>1
    <3> HIDE DEF t, c
    <3> QED BY <3>2 DEF Window
  <2>2. Share(Total(BeforeOf(s)'), Total(AfterOf(s)')) = 0
    BY <2>1, TotalNone DEF Share
  <2>3. Share(Total(BeforeOf(s)), Total(AfterOf(s))) \in Nat
    BY <1>5, <1>6, SavedNat
  <2>4. Reduction(s)' = 0 /\ Reduction(s) \in Nat
    BY <2>2, <2>3, ReductionIs
  <2> QED BY <2>4
<1> QED BY <1>7, <1>8
-----------------------------------------------------------------------------
\* The payments of the calendar month, as far as they are read.
ThisMonths == {p \in payments : p.at >= clock - Window /\ Month(p.at) = Month(clock)}

LEMMA ComplianceIs ==
    /\ Compliance = Max({100 - Total(ThisMonths), 0})
    /\ Compliance' = Max({100 - Total(ThisMonths'), 0})
<1>1. {p \in Recent : Month(p.at) = Month(clock)} = ThisMonths
  BY DEF Recent, ThisMonths
<1>2. {p \in Recent' : Month(p.at) = Month(clock')} = ThisMonths'
  BY DEF Recent, ThisMonths, Month
<1>3. Compliance = Max({100 - Total({p \in Recent : Month(p.at) = Month(clock)}), 0})
  BY DEF Compliance
<1>4. Compliance' = Max({100 - Total({p \in Recent' : Month(p.at) = Month(clock')}), 0})
  BY DEF Compliance
<1> QED BY <1>1, <1>2, <1>3, <1>4

\* A month is not longer than what is read.
LEMMA MonthIsRead ==
    ASSUME NEW t \in Nat, NEW u \in Nat, Month(t) = Month(u) PROVE t >= u - Window
<1> DEFINE m == t \div 60
<1>1. m \in Int /\ m = u \div 60
  BY DEF Month
<1>2. t \div 60 >= m <=> t >= m * 60
  BY <1>1, Quotient
<1>3. u \div 60 >= m + 1 <=> u >= (m + 1) * 60
  <2> HIDE DEF m
  <2>1. m + 1 \in Int
    BY <1>1
  <2> QED BY <2>1, Quotient
<1>4. t >= m * 60
  BY <1>1, <1>2
<1>5. ~(u >= (m + 1) * 60)
  <2> HIDE DEF m
  <2>1. u \div 60 = m
    BY <1>1
  <2> QED BY <1>1, <1>3, <2>1
<1> HIDE DEF m
<1> QED BY <1>1, <1>4, <1>5 DEF Window

\* In the same month a budget is only spent.
LEMMA ComplianceFalls ==
    ASSUME ChallengeInv, ChallengeInv', payments \subseteq payments', Month(clock') = Month(clock)
    PROVE  Compliance' <= Compliance
<1>1. /\ clock \in Nat /\ clock' \in Nat /\ IsFiniteSet(payments) /\ IsFiniteSet(payments')
      /\ payments \subseteq Entered /\ payments' \subseteq Entered
  BY DEF ChallengeInv
<1>2. ThisMonths \subseteq payments /\ ThisMonths' \subseteq payments'
  BY DEF ThisMonths
<1>3. ThisMonths \subseteq ThisMonths'
  <2> SUFFICES ASSUME NEW p \in ThisMonths PROVE p \in ThisMonths'
    OBVIOUS
  <2>1. p \in payments /\ Month(p.at) = Month(clock) /\ p.at \in Nat
    BY <1>1, EnteredFields DEF ThisMonths
  <2>2. Month(p.at) = Month(clock')
    BY <2>1
  <2>3. p.at >= clock' - Window
    BY <1>1, <2>1, <2>2, MonthIsRead
  <2> QED BY <2>1, <2>2, <2>3 DEF ThisMonths, Month
<1>4. /\ IsFiniteSet(ThisMonths') /\ ThisMonths' \subseteq Entered
  BY <1>1, <1>2, FS_Subset
<1>5. Total(ThisMonths) \in Nat /\ Total(ThisMonths') \in Nat /\ Total(ThisMonths) <= Total(ThisMonths')
  BY <1>3, <1>4, TotalGrows
<1> DEFINE a == 100 - Total(ThisMonths')
           b == 100 - Total(ThisMonths)
<1>6. a \in Int /\ b \in Int /\ a <= b
  BY <1>5
<1>7. Max({a, 0}) <= Max({b, 0})
  <2> HIDE DEF a, b
  <2> QED BY <1>6, FloorGrows
<1> QED BY <1>7, ComplianceIs

-----------------------------------------------------------------------------
\* The days on which something is paid, from the start to the end or to today,
\* both as far as they are read.
EndOf(start)  == IF start + 14 <= clock THEN start + 14 ELSE clock
UsedOf(start) == {q \in payments : q.at >= clock - Window /\ start <= q.at /\ q.at <= EndOf(start)}
PaidOf(start) == {Day(p.at) : p \in UsedOf(start)}

LEMMA TheLesser ==
    ASSUME NEW x \in Int, NEW y \in Int
    PROVE  Min({x, y}) = IF x <= y THEN x ELSE y
<1>1. \E m \in {x, y} : \A n \in {x, y} : m <= n
  OBVIOUS
<1>2. Min({x, y}) \in {x, y} /\ \A n \in {x, y} : Min({x, y}) <= n
  BY <1>1 DEF Min
<1> DEFINE m == Min({x, y})
<1>3. (m = x \/ m = y) /\ m <= x /\ m <= y
  BY <1>2
<1> HIDE DEF m
<1>4. m = IF x <= y THEN x ELSE y
  BY <1>3
<1> QED BY <1>4 DEF m

LEMMA EndIs ==
    ASSUME NEW s \in Nat, clock \in Nat, clock' \in Nat
    PROVE  /\ Min({s + Duration["zero_spend"], clock}) = EndOf(s)
           /\ Min({s + Duration["zero_spend"], clock'}) = EndOf(s)'
<1>1. Duration["zero_spend"] = 14
  BY DEF Duration
<1>2. s + 14 \in Int /\ clock \in Int /\ clock' \in Int
  OBVIOUS
<1>3. Min({s + 14, clock}) = IF s + 14 <= clock THEN s + 14 ELSE clock
  BY <1>2, TheLesser
<1>4. Min({s + 14, clock'}) = IF s + 14 <= clock' THEN s + 14 ELSE clock'
  BY <1>2, TheLesser
<1> QED BY <1>1, <1>3, <1>4 DEF EndOf

LEMMA ZeroDaysIs ==
    ASSUME NEW s \in Nat, clock \in Nat, clock' \in Nat
    PROVE  /\ ZeroDays(s) = Max({Day(EndOf(s)) - Day(s) + 1 - Cardinality(PaidOf(s)), 0})
           /\ ZeroDays(s)' = Max({Day(EndOf(s)') - Day(s) + 1 - Cardinality(PaidOf(s)'), 0})
<1>1. /\ Min({s + Duration["zero_spend"], clock}) = EndOf(s)
      /\ Min({s + Duration["zero_spend"], clock'}) = EndOf(s)'
  BY EndIs
<1>2. {Day(p.at) : p \in {q \in Recent : s <= q.at /\ q.at <= EndOf(s)}} = PaidOf(s)
  <2>1. {q \in Recent : s <= q.at /\ q.at <= EndOf(s)} = UsedOf(s)
    BY DEF Recent, UsedOf
  <2> QED BY <2>1 DEF PaidOf
<1>3. {Day(p.at) : p \in {q \in Recent' : s <= q.at /\ q.at <= EndOf(s)'}} = PaidOf(s)'
  <2>1. {q \in Recent' : s <= q.at /\ q.at <= EndOf(s)'} = UsedOf(s)'
    BY DEF Recent, UsedOf
  <2>2. PaidOf(s)' = {Day(p.at) : p \in UsedOf(s)'}
    BY DEF PaidOf, Day
  <2> QED BY <2>1, <2>2 DEF Day
<1>4. ZeroDays(s) = LET end == Min({s + Duration["zero_spend"], clock})
                        paid == {Day(p.at) : p \in {q \in Recent : s <= q.at /\ q.at <= end}}
                    IN  Max({Day(end) - Day(s) + 1 - Cardinality(paid), 0})
  BY DEF ZeroDays
<1>5. ZeroDays(s)' = LET end == Min({s + Duration["zero_spend"], clock'})
                         paid == {Day(p.at) : p \in {q \in Recent' : s <= q.at /\ q.at <= end}}
                     IN  Max({Day(end) - Day(s) + 1 - Cardinality(paid), 0})
  BY DEF ZeroDays
<1> QED BY <1>1, <1>2, <1>3, <1>4, <1>5

LEMMA DayIs == ASSUME NEW t \in Nat PROVE Day(t) \in Nat
BY DEF Day

LEMMA DaysPass ==
    ASSUME NEW t \in Nat, NEW u \in Nat, t <= u PROVE Day(t) <= Day(u)
BY DEF Day

\* The days of finitely many payments are finitely many.
LEMMA DaysFinite ==
    ASSUME NEW S \in SUBSET Entered, IsFiniteSet(S)
    PROVE  IsFiniteSet({Day(p.at) : p \in S})
<1> DEFINE f == [p \in S |-> Day(p.at)]
           T == {Day(p.at) : p \in S}
<1>1. f \in Surjection(S, T)
  BY DEF Surjection
<1> HIDE DEF f, T
<1>2. IsFiniteSet(T)
  BY <1>1, FS_Surjection
<1> QED BY <1>2 DEF T

LEMMA PaidFinite ==
    ASSUME ChallengeInv, NEW s \in Nat
    PROVE  IsFiniteSet(PaidOf(s)) /\ Cardinality(PaidOf(s)) \in Nat
<1>1. IsFiniteSet(payments) /\ payments \subseteq Entered /\ UsedOf(s) \subseteq payments
  BY DEF ChallengeInv, UsedOf
<1>2. IsFiniteSet(UsedOf(s)) /\ UsedOf(s) \subseteq Entered
  BY <1>1, FS_Subset
<1>3. IsFiniteSet(PaidOf(s))
  BY <1>2, DaysFinite DEF PaidOf
<1> QED BY <1>3, FS_CardinalityType

\* Within the thirty days that are read, days with payments only become more,
\* and the days of the challenge no more than pass.
LEMMA DaysCount ==
    ASSUME ChallengeInv, ChallengeInv', NEW s \in Nat, clock <= clock', clock' <= s + Window,
           payments \subseteq payments'
    PROVE  ZeroDays(s)' - ZeroDays(s) <= Day(clock') - Day(clock)
<1>1. /\ clock \in Nat /\ clock' \in Nat /\ payments \subseteq Entered /\ payments' \subseteq Entered
      /\ IsFiniteSet(payments')
  BY DEF ChallengeInv
<1>2. EndOf(s) \in Nat /\ EndOf(s)' \in Nat /\ EndOf(s) <= EndOf(s)'
  BY <1>1 DEF EndOf
<1>3. Day(EndOf(s)') - Day(EndOf(s)) <= Day(clock') - Day(clock)
  <2>1. CASE s + 14 <= clock
    <3>1. EndOf(s) = s + 14 /\ EndOf(s)' = s + 14
      BY <1>1, <2>1 DEF EndOf
    <3>2. Day(clock) <= Day(clock') /\ Day(clock) \in Nat /\ Day(clock') \in Nat /\ Day(s + 14) \in Nat
      BY <1>1, DayIs, DaysPass
    <3> QED BY <3>1, <3>2
  <2>2. CASE ~(s + 14 <= clock)
    <3>1. EndOf(s) = clock /\ EndOf(s)' <= clock'
      BY <1>1, <2>2 DEF EndOf
    <3>2. Day(EndOf(s)') <= Day(clock')
      BY <1>1, <1>2, <3>1, DaysPass
    <3>3. Day(EndOf(s)') \in Nat /\ Day(clock') \in Nat /\ Day(clock) \in Nat
      BY <1>1, <1>2, DayIs
    <3> QED BY <3>1, <3>2, <3>3
  <2> QED BY <2>1, <2>2
<1>4. PaidOf(s) \subseteq PaidOf(s)'
  <2>1. UsedOf(s) \subseteq UsedOf(s)'
    <3> SUFFICES ASSUME NEW q \in UsedOf(s) PROVE q \in UsedOf(s)'
      OBVIOUS
    <3>1. q \in payments /\ s <= q.at /\ q.at <= EndOf(s) /\ q.at \in Nat
      BY <1>1, EnteredFields DEF UsedOf
    <3> DEFINE t == q.at
               c == clock'
               e == EndOf(s)
               g == EndOf(s)'
    <3>2. t \in Nat /\ c \in Nat /\ e \in Nat /\ g \in Nat /\ s <= t /\ t <= e /\ e <= g /\ c <= s + Window
      BY <1>1, <1>2, <3>1
    <3> HIDE DEF t, c, e, g
    <3>3. t >= c - Window /\ t <= g
      BY <3>2 DEF Window
    <3>4. q.at >= clock' - Window /\ q.at <= EndOf(s)'
      BY <3>3 DEF t, c, g
    <3> QED BY <3>1, <3>4 DEF UsedOf
  <2>2. PaidOf(s)' = {Day(p.at) : p \in UsedOf(s)'}
    BY DEF PaidOf, Day
  <2> QED BY <2>1, <2>2 DEF PaidOf
<1>5. IsFiniteSet(PaidOf(s)')
  <2>1. UsedOf(s)' \subseteq payments'
    BY DEF UsedOf
  <2>2. IsFiniteSet(UsedOf(s)') /\ UsedOf(s)' \subseteq Entered
    BY <1>1, <2>1, FS_Subset
  <2>3. PaidOf(s)' = {Day(p.at) : p \in UsedOf(s)'}
    BY DEF PaidOf, Day
  <2> QED BY <2>2, <2>3, DaysFinite
<1>6. /\ Cardinality(PaidOf(s)) <= Cardinality(PaidOf(s)')
      /\ Cardinality(PaidOf(s)) \in Nat /\ Cardinality(PaidOf(s)') \in Nat
  BY <1>4, <1>5, FS_Subset, FS_CardinalityType
<1>7. Day(EndOf(s)) \in Nat /\ Day(EndOf(s)') \in Nat /\ Day(s) \in Nat /\ Day(clock) \in Nat /\ Day(clock') \in Nat
  BY <1>1, <1>2, DayIs
<1>8. Day(clock) <= Day(clock')
  BY <1>1, DaysPass
<1> DEFINE a == Day(EndOf(s)) - Day(s) + 1 - Cardinality(PaidOf(s))
           b == Day(EndOf(s)') - Day(s) + 1 - Cardinality(PaidOf(s)')
           d == Day(clock') - Day(clock)
           k == Max({a, 0})
           m == Max({b, 0})
<1>9. a \in Int /\ b \in Int /\ d \in Nat /\ b - a <= d
  <2> DEFINE x == Day(EndOf(s))
             y == Day(EndOf(s)')
             z == Day(s)
             v == Cardinality(PaidOf(s))
             w == Cardinality(PaidOf(s)')
             g == Day(clock)
             h == Day(clock')
  <2>1. x \in Nat /\ y \in Nat /\ z \in Nat /\ v \in Nat /\ w \in Nat /\ g \in Nat /\ h \in Nat
        /\ y - x <= h - g /\ g <= h /\ v <= w
    BY <1>3, <1>6, <1>7, <1>8
  <2> HIDE DEF x, y, z, v, w, g, h
  <2>2. /\ x - z + 1 - v \in Int /\ y - z + 1 - w \in Int /\ h - g \in Nat
        /\ (y - z + 1 - w) - (x - z + 1 - v) <= h - g
    BY <2>1
  <2> QED BY <2>2 DEF x, y, z, v, w, g, h
<1>10. ZeroDays(s) = k /\ ZeroDays(s)' = m
  BY <1>1, ZeroDaysIs
<1> HIDE DEF a, b, d
<1>11. k \in Nat /\ (a >= 0 => k = a) /\ (a <= 0 => k = 0)
  BY <1>9, Floor
<1>12. m \in Nat /\ (b >= 0 => m = b) /\ (b <= 0 => m = 0)
  BY <1>9, Floor
<1> HIDE DEF k, m
<1>13. m - k <= d
  BY <1>9, <1>11, <1>12
<1> QED BY <1>10, <1>13 DEF d

\* A payment takes one day, or none.
LEMMA DayTaken ==
    ASSUME ChallengeInv, ChallengeInv', NEW s \in Nat, NEW e \in Entered, payments' = payments \cup {e}, clock' = clock
    PROVE  ZeroDays(s)' \in {ZeroDays(s) - 1, ZeroDays(s)}
<1>1. clock \in Nat /\ clock' \in Nat
  BY DEF ChallengeInv
<1>2. EndOf(s)' = EndOf(s) /\ EndOf(s) \in Nat
  BY <1>1 DEF EndOf
<1>3. UsedOf(s)' = UsedOf(s) \/ UsedOf(s)' = UsedOf(s) \cup {e}
  <2>1. UsedOf(s)' = {q \in payments \cup {e} : q.at >= clock - Window /\ s <= q.at /\ q.at <= EndOf(s)}
    BY <1>2 DEF UsedOf
  <2> QED BY <2>1 DEF UsedOf
<1>4. PaidOf(s)' = {Day(p.at) : p \in UsedOf(s)'}
  BY DEF PaidOf, Day
<1>5. PaidOf(s)' = PaidOf(s) \/ PaidOf(s)' = PaidOf(s) \cup {Day(e.at)}
  BY <1>3, <1>4 DEF PaidOf
<1>6. IsFiniteSet(PaidOf(s)) /\ Cardinality(PaidOf(s)) \in Nat
  BY PaidFinite
<1>7. Cardinality(PaidOf(s)') = Cardinality(PaidOf(s)) \/ Cardinality(PaidOf(s)') = Cardinality(PaidOf(s)) + 1
  <2>1. \/ Cardinality(PaidOf(s) \cup {Day(e.at)}) = Cardinality(PaidOf(s))
        \/ Cardinality(PaidOf(s) \cup {Day(e.at)}) = Cardinality(PaidOf(s)) + 1
    BY <1>6, FS_AddElement
  <2> QED BY <1>5, <2>1
<1>8. Day(EndOf(s)) \in Nat /\ Day(s) \in Nat
  BY <1>2, DayIs
<1> DEFINE a == Day(EndOf(s)) - Day(s) + 1 - Cardinality(PaidOf(s))
           b == Day(EndOf(s)') - Day(s) + 1 - Cardinality(PaidOf(s)')
           k == Max({a, 0})
           m == Max({b, 0})
<1>9. a \in Int /\ b \in Int /\ (b = a \/ b = a - 1)
  BY <1>2, <1>6, <1>7, <1>8
<1>10. ZeroDays(s) = k /\ ZeroDays(s)' = m
  BY <1>1, ZeroDaysIs
<1> HIDE DEF a, b
<1>11. k \in Nat /\ (a >= 0 => k = a) /\ (a <= 0 => k = 0)
  BY <1>9, Floor
<1>12. m \in Nat /\ (b >= 0 => m = b) /\ (b <= 0 => m = 0)
  BY <1>9, Floor
<1> HIDE DEF k, m
<1>13. m = k - 1 \/ m = k
  BY <1>9, <1>11, <1>12
<1> QED BY <1>10, <1>13
-----------------------------------------------------------------------------
\* The quizzes in a row that end with one.
RowAt(s, i) == {j \in 1..i : \A k \in j..i : s[k]}
InRow(s, i) == Cardinality(RowAt(s, i))
IsRun(r, s) == r = [i \in 0..Len(s) |-> IF i = 0 \/ ~s[i] THEN 0 ELSE r[i - 1] + 1]

LEMMA RowFinite == ASSUME NEW s, NEW i \in Nat PROVE IsFiniteSet(RowAt(s, i)) /\ InRow(s, i) \in Nat
<1>1. IsFiniteSet(1..i)
  BY FS_Interval
<1>2. RowAt(s, i) \subseteq 1..i
  BY DEF RowAt
<1>3. IsFiniteSet(RowAt(s, i))
  BY <1>1, <1>2, FS_Subset
<1> QED BY <1>3, FS_CardinalityType DEF InRow

LEMMA RowFollows ==
    ASSUME NEW s \in Seq(BOOLEAN), NEW i \in 0..Len(s)
    PROVE  InRow(s, i) = IF i = 0 \/ ~s[i] THEN 0 ELSE InRow(s, i - 1) + 1
<1>1. i \in Nat /\ Len(s) \in Nat
  OBVIOUS
<1>2. CASE i = 0
  <2>1. RowAt(s, i) = {}
    BY <1>2 DEF RowAt
  <2> QED BY <1>2, <2>1, FS_EmptySet DEF InRow
<1>3. ASSUME i # 0, ~s[i] PROVE InRow(s, i) = 0
  <2>1. RowAt(s, i) = {}
    <3> SUFFICES ASSUME NEW j \in 1..i, \A k \in j..i : s[k] PROVE FALSE
      BY DEF RowAt
    <3>1. i \in j..i
      BY <1>1
    <3> QED BY <1>3, <3>1
  <2> QED BY <2>1, FS_EmptySet DEF InRow
<1>4. ASSUME i # 0, s[i] PROVE InRow(s, i) = InRow(s, i - 1) + 1
  <2>1. i - 1 \in Nat
    BY <1>1, <1>4
  <2>2. RowAt(s, i) = RowAt(s, i - 1) \cup {i}
    <3>1. ASSUME NEW j \in RowAt(s, i) PROVE j \in RowAt(s, i - 1) \cup {i}
      <4>1. j \in 1..i /\ \A k \in j..i : s[k]
        BY <3>1 DEF RowAt
      <4>2. CASE j # i
        <5>1. j \in 1..(i - 1)
          BY <1>1, <4>1, <4>2
        <5>2. \A k \in j..(i - 1) : k \in j..i
          BY <1>1, <4>1
        <5> QED BY <4>1, <5>1, <5>2 DEF RowAt
      <4> QED BY <4>2
    <3>2. ASSUME NEW j \in RowAt(s, i - 1) PROVE j \in RowAt(s, i)
      <4>1. j \in 1..(i - 1) /\ \A k \in j..(i - 1) : s[k]
        BY <3>2 DEF RowAt
      <4>2. j \in 1..i /\ \A k \in j..i : k = i \/ k \in j..(i - 1)
        BY <1>1, <4>1
      <4> QED BY <1>4, <4>1, <4>2 DEF RowAt
    <3>3. i \in RowAt(s, i)
      <4>1. i \in 1..i /\ \A k \in i..i : k = i
        BY <1>1, <1>4
      <4> QED BY <1>4, <4>1 DEF RowAt
    <3> QED BY <3>1, <3>2, <3>3
  <2>3. i \notin RowAt(s, i - 1)
    <3>1. i \notin 1..(i - 1)
      BY <1>1
    <3> QED BY <3>1 DEF RowAt
  <2>4. IsFiniteSet(RowAt(s, i - 1))
    BY <2>1, RowFinite
  <2>5. Cardinality(RowAt(s, i - 1) \cup {i}) = Cardinality(RowAt(s, i - 1)) + 1
    BY <2>3, <2>4, FS_AddElement
  <2> QED BY <2>2, <2>5 DEF InRow
<1> QED BY <1>2, <1>3, <1>4

\* There is a run, and it is no other.
LEMMA RunExists == ASSUME NEW s \in Seq(BOOLEAN) PROVE \E r : IsRun(r, s)
<1> DEFINE r == [i \in 0..Len(s) |-> InRow(s, i)]
           n == Len(s)
<1>1. n \in Nat
  OBVIOUS
<1>2. ASSUME NEW i \in 0..n PROVE r[i] = IF i = 0 \/ ~s[i] THEN 0 ELSE r[i - 1] + 1
  <2>1. i = 0 \/ i - 1 \in 0..n
    BY <1>1
  <2>2. InRow(s, i) = IF i = 0 \/ ~s[i] THEN 0 ELSE InRow(s, i - 1) + 1
    BY RowFollows
  <2>3. r[i] = InRow(s, i) /\ (i # 0 => r[i - 1] = InRow(s, i - 1))
    BY <2>1
  <2> HIDE DEF r
  <2> QED BY <2>2, <2>3
<1>3. r = [i \in 0..Len(s) |-> r[i]]
  OBVIOUS
<1> HIDE DEF r
<1>4. r = [i \in 0..Len(s) |-> IF i = 0 \/ ~s[i] THEN 0 ELSE r[i - 1] + 1]
  BY <1>2, <1>3
<1> QED BY <1>4 DEF IsRun

LEMMA RunIsRow ==
    ASSUME NEW s \in Seq(BOOLEAN), NEW r, IsRun(r, s)
    PROVE  \A i \in 0..Len(s) : r[i] = InRow(s, i)
<1> DEFINE n == Len(s)
           S == {i \in 0..n : r[i] # InRow(s, i)}
<1>1. n \in Nat
  OBVIOUS
<1>2. ASSUME NEW i \in 0..n PROVE r[i] = IF i = 0 \/ ~s[i] THEN 0 ELSE r[i - 1] + 1
  <2>1. r = [j \in 0..n |-> IF j = 0 \/ ~s[j] THEN 0 ELSE r[j - 1] + 1]
    BY DEF IsRun
  <2> QED BY <2>1, Zenon
<1>3. S \in SUBSET Nat
  BY <1>1
<1>4. ASSUME S # {} PROVE FALSE
  <2>1. PICK i \in S : \A j \in S : i <= j
    <3> HIDE DEF S
    <3> QED BY <1>3, <1>4, LeastNumber
  <2>2. i \in 0..n /\ r[i] # InRow(s, i)
    BY <2>1
  <2>3. i - 1 \notin S
    <3>1. i \in Nat
      BY <1>1, <2>2
    <3>2. ~(i <= i - 1)
      BY <3>1
    <3> HIDE DEF S
    <3> QED BY <2>1, <3>2
  <2>4. i = 0 \/ i - 1 \in 0..n
    BY <1>1, <2>2
  <2>5. i = 0 \/ r[i - 1] = InRow(s, i - 1)
    BY <2>3, <2>4
  <2>6. r[i] = IF i = 0 \/ ~s[i] THEN 0 ELSE r[i - 1] + 1
    BY <1>2, <2>2
  <2>7. InRow(s, i) = IF i = 0 \/ ~s[i] THEN 0 ELSE InRow(s, i - 1) + 1
    BY <2>2, RowFollows
  <2> QED BY <2>2, <2>5, <2>6, <2>7
<1> QED BY <1>4

RunsOf(s) == {InRow(s, i) : i \in 0..Len(s)}

LEMMA StreakIs ==
    ASSUME scores \in Seq(BOOLEAN), scores' \in Seq(BOOLEAN)
    PROVE  Streak = Max(RunsOf(scores)) /\ Streak' = Max(RunsOf(scores'))
<1>1. (\E r : IsRun(r, scores)) /\ (\E r : IsRun(r, scores'))
  BY RunExists
<1> DEFINE R(s) == CHOOSE run : run = [i \in 0..Len(s) |-> IF i = 0 \/ ~s[i] THEN 0 ELSE run[i - 1] + 1]
<1>2. IsRun(R(scores), scores) /\ IsRun(R(scores'), scores')
  BY <1>1 DEF IsRun
<1>3. Streak = Max({R(scores)[i] : i \in 0..Len(scores)}) /\ Streak' = Max({R(scores')[i] : i \in 0..Len(scores')})
  BY DEF Streak
<1> HIDE DEF R
<1>4. ASSUME NEW s \in Seq(BOOLEAN), NEW r, IsRun(r, s) PROVE {r[i] : i \in 0..Len(s)} = RunsOf(s)
  <2>1. \A i \in 0..Len(s) : r[i] = InRow(s, i)
    BY <1>4, RunIsRow
  <2> QED BY <2>1 DEF RunsOf
<1> QED BY <1>2, <1>3, <1>4

LEMMA RowsHaveMost ==
    ASSUME NEW s \in Seq(BOOLEAN)
    PROVE  Max(RunsOf(s)) \in RunsOf(s) /\ RunsOf(s) \in SUBSET Nat /\ \A n \in RunsOf(s) : n <= Max(RunsOf(s))
<1>1. Len(s) \in Nat /\ 0 \in 0..Len(s)
  OBVIOUS
<1>2. IsFiniteSet(0..Len(s))
  BY <1>1, FS_Interval
<1> DEFINE f == [i \in 0..Len(s) |-> InRow(s, i)]
<1>3. \A i \in 0..Len(s) : InRow(s, i) \in Nat
  BY <1>1, RowFinite
<1>4. f \in [0..Len(s) -> Int] /\ \A i \in 0..Len(s) : f[i] = InRow(s, i)
  BY <1>3
<1> HIDE DEF f
<1>5. PICK x \in 0..Len(s) : \A y \in 0..Len(s) : f[y] <= f[x]
  BY <1>1, <1>2, <1>4, GreatestOf
<1>6. \A y \in 0..Len(s) : InRow(s, x) >= InRow(s, y)
  <2> SUFFICES ASSUME NEW y \in 0..Len(s) PROVE InRow(s, x) >= InRow(s, y)
    OBVIOUS
  <2>1. f[y] <= f[x] /\ f[y] = InRow(s, y) /\ f[x] = InRow(s, x)
    BY <1>4, <1>5
  <2>2. InRow(s, x) \in Nat /\ InRow(s, y) \in Nat
    BY <1>3
  <2> QED BY <2>1, <2>2
<1>7. RunsOf(s) \in SUBSET Nat /\ InRow(s, x) \in RunsOf(s) /\ \A n \in RunsOf(s) : InRow(s, x) >= n
  BY <1>3, <1>6 DEF RunsOf
<1>8. Max(RunsOf(s)) = InRow(s, x)
  BY <1>7, MaxIs
<1>9. \A n \in RunsOf(s) : n <= Max(RunsOf(s))
  <2> SUFFICES ASSUME NEW n \in RunsOf(s) PROVE n <= InRow(s, x)
    BY <1>8
  <2>1. n \in Nat /\ InRow(s, x) \in Nat /\ InRow(s, x) >= n
    BY <1>7
  <2> QED BY <2>1
<1> QED BY <1>7, <1>8, <1>9

\* More quizzes after those there are leave the longest row as long.
LEMMA StreakGrows ==
    ASSUME ChallengeInv, ChallengeInv', Len(scores) <= Len(scores'), \A i \in 1..Len(scores) : scores'[i] = scores[i]
    PROVE  Streak <= Streak'
<1>1. scores \in Seq(BOOLEAN) /\ scores' \in Seq(BOOLEAN) /\ Len(scores) \in Nat /\ Len(scores') \in Nat
  BY DEF ChallengeInv
<1>2. \A i \in 0..Len(scores) : InRow(scores, i) = InRow(scores', i)
  <2> SUFFICES ASSUME NEW i \in 0..Len(scores) PROVE RowAt(scores, i) = RowAt(scores', i)
    BY DEF InRow
  <2>1. \A j \in 1..i : \A k \in j..i : k \in 1..Len(scores)
    BY <1>1
  <2>2. \A j \in 1..i : \A k \in j..i : scores'[k] = scores[k]
    BY <2>1
  <2> QED BY <2>2 DEF RowAt
<1>3. RunsOf(scores) \subseteq RunsOf(scores')
  <2>1. \A i \in 0..Len(scores) : i \in 0..Len(scores')
    BY <1>1
  <2> QED BY <1>2, <2>1 DEF RunsOf
<1>4. Max(RunsOf(scores)) \in RunsOf(scores)
  BY <1>1, RowsHaveMost
<1>5. \A n \in RunsOf(scores') : n <= Max(RunsOf(scores'))
  BY <1>1, RowsHaveMost
<1>6. Max(RunsOf(scores)) <= Max(RunsOf(scores'))
  BY <1>3, <1>4, <1>5
<1> QED BY <1>1, <1>6, StreakIs

-----------------------------------------------------------------------------
\* What is measured after the start is measured from the same start, as the
\* same challenge.
LEMMA StartStays ==
    ASSUME ChallengeInv, [ChallengeNext]_challengeVars, joined.status # "none"
    PROVE  /\ joined'.challenge = joined.challenge /\ joined'.start = joined.start
           /\ clock <= clock' /\ payments \subseteq payments'
           /\ payments' = payments \/ (clock' = clock /\ \E e \in Entered : payments' = payments \cup {e})
           /\ Len(scores) <= Len(scores')
<1> DEFINE Goal ==
      /\ joined'.challenge = joined.challenge /\ joined'.start = joined.start
      /\ clock <= clock' /\ payments \subseteq payments'
      /\ payments' = payments \/ (clock' = clock /\ \E e \in Entered : payments' = payments \cup {e})
      /\ Len(scores) <= Len(scores')
<1> SUFFICES Goal
  OBVIOUS
<1>0. clock \in Nat /\ Len(scores) \in Nat
  BY DEF ChallengeInv
<1>1. ASSUME NEW d \in Waits, Wait(d) PROVE Goal
  <2>1. clock' = clock + d /\ d \in Nat /\ payments' = payments /\ scores' = scores /\ joined' = joined
    BY <1>1, WaitDoes
  <2> QED BY <1>0, <2>1
<1>2. ASSUME NEW age \in Ages, NEW amount \in Amounts, NEW food \in BOOLEAN, Pay(age, amount, food) PROVE Goal
  <2>1. \E e \in Entered : payments' = payments \cup {e} /\ clock' = clock /\ scores' = scores /\ joined' = joined
    BY <1>2, PayDoes
  <2> QED BY <1>0, <2>1
<1>3. ASSUME NEW well \in BOOLEAN, NEW often \in {1, 5}, NEW later \in 0..MaxOverlap, Mark(well, often, later) PROVE Goal
  <2>1. /\ Len(scores) <= Len(scores')
        /\ clock' = clock /\ payments' = payments /\ joined' = joined
    BY <1>3, MarkDoes
  <2> QED BY <1>0, <2>1
<1>4. ~Join
  BY JoinDoes
<1>5. ASSUME NEW v, Reached(v), joined.status = "active" PROVE Goal
  <2>1. /\ clock' = clock /\ payments' = payments /\ scores' = scores
        /\ joined' = [challenge |-> joined.challenge, start |-> joined.start, status |-> joined'.status]
    BY <1>5, ReachedDoes
  <2>2. joined'.challenge = joined.challenge /\ joined'.start = joined.start
    BY <2>1
  <2> QED BY <1>0, <2>1, <2>2
<1>6. CASE UNCHANGED challengeVars
  BY <1>0, <1>6 DEF challengeVars
<1>7. Sync => \E v : Reached(v) /\ joined.status = "active"
  BY DEF Sync
<1>8. ReportProgress(1) => Reached(1) /\ joined.status = "active"
  BY DEF ReportProgress
<1> HIDE DEF Goal
<1>9. Sync \/ ReportProgress(1) => Goal
  BY <1>5, <1>7, <1>8
<1>10. CASE ChallengeNext
  BY <1>1, <1>2, <1>3, <1>4, <1>9, <1>10 DEF ChallengeNext
<1>11. Goal
  BY <1>6, <1>10
<1> QED BY <1>11

LEMMA StepMoves == ChallengeInv /\ ChallengeInv' /\ [ChallengeNext]_challengeVars => MovesOneWay
<1> SUFFICES ASSUME ChallengeInv, ChallengeInv', [ChallengeNext]_challengeVars, joined.status # "none"
             PROVE  MovesOneWay
  BY DEF MovesOneWay
<1>1. /\ joined'.challenge = joined.challenge /\ joined'.start = joined.start
      /\ clock <= clock' /\ payments \subseteq payments'
      /\ payments' = payments \/ (clock' = clock /\ \E e \in Entered : payments' = payments \cup {e})
      /\ Len(scores) <= Len(scores')
  BY StartStays
<1>2. joined.start \in Nat /\ joined.challenge \in DOMAIN Target
  BY DEF ChallengeInv
<1>3. PICK s \in Nat : s = joined.start /\ s = joined'.start
  BY <1>1, <1>2
<1>4. PICK c : c = joined.challenge /\ c = joined'.challenge
  BY <1>1
<1>5. Metric(joined.challenge, joined.start) = Metric(c, s)
  BY <1>3, <1>4
<1>6. Metric(joined.challenge, joined.start)' = Metric(c, s)'
  <2>1. Reduction(joined.start)' = Reduction(s)'
    BY <1>3 DEF Reduction
  <2>2. ZeroDays(joined.start)' = ZeroDays(s)'
    BY <1>3 DEF ZeroDays
  <2> QED BY <1>4, <2>1, <2>2 DEF Metric
<1>7. ASSUME c = "fraud_quiz_master", \A i \in DOMAIN scores : scores'[i] = scores[i] PROVE Metric(c, s)' >= Metric(c, s)
  <2>1. Metric(c, s)' = Streak' /\ Metric(c, s) = Streak
    BY <1>7 DEF Metric
  <2>2. Streak <= Streak' /\ Streak \in Nat /\ Streak' \in Nat
    <3>1. scores \in Seq(BOOLEAN) /\ scores' \in Seq(BOOLEAN)
      BY DEF ChallengeInv
    <3>2. Max(RunsOf(scores)) \in Nat /\ Max(RunsOf(scores')) \in Nat
      BY <3>1, RowsHaveMost
    <3>3. Streak <= Streak'
      <4>1. \A i \in 1..Len(scores) : scores'[i] = scores[i]
        BY <1>7, <3>1
      <4> QED BY <1>1, <4>1, StreakGrows
    <3> QED BY <3>1, <3>2, <3>3, StreakIs
  <2> QED BY <2>1, <2>2
<1>8. ASSUME c = "coffee_save", ~(\E p \in payments' \ payments : p.at < joined.start) PROVE Metric(c, s)' <= Metric(c, s)
  <2>1. Metric(c, s)' = Reduction(s)' /\ Metric(c, s) = Reduction(s)
    BY <1>8 DEF Metric
  <2>2. \A p \in payments' \ payments : p.at >= s
    <3> SUFFICES ASSUME NEW p \in payments' \ payments PROVE p.at >= s
      OBVIOUS
    <3>1. ~(p.at < s)
      BY <1>3, <1>8
    <3>2. p.at \in Nat
      BY EnteredFields DEF ChallengeInv
    <3> QED BY <3>1, <3>2
  <2>3. Reduction(s)' <= Reduction(s)
    BY <1>1, <2>2, ReductionFalls
  <2> QED BY <2>1, <2>3
<1>9. ASSUME c = "budget_keeper", Month(clock') = Month(clock) PROVE Metric(c, s)' <= Metric(c, s)
  <2>1. Metric(c, s)' = Compliance' /\ Metric(c, s) = Compliance
    BY <1>9 DEF Metric
  <2>2. Compliance' <= Compliance
    BY <1>1, <1>9, ComplianceFalls
  <2> QED BY <2>1, <2>2
<1>10. ASSUME c = "zero_spend" PROVE Metric(c, s)' = ZeroDays(s)' /\ Metric(c, s) = ZeroDays(s)
  BY <1>10 DEF Metric
<1>11. ASSUME c = "zero_spend", payments' # payments PROVE Metric(c, s)' \in {Metric(c, s) - 1, Metric(c, s)}
  <2>1. PICK e \in Entered : payments' = payments \cup {e} /\ clock' = clock
    BY <1>1, <1>11
  <2>2. ZeroDays(s)' \in {ZeroDays(s) - 1, ZeroDays(s)}
    BY <2>1, DayTaken
  <2> QED BY <1>10, <1>11, <2>2
<1>12. ASSUME c = "zero_spend", clock' <= joined.start + Window
       PROVE  Metric(c, s)' - Metric(c, s) <= Day(clock') - Day(clock)
  <2>1. ZeroDays(s)' - ZeroDays(s) <= Day(clock') - Day(clock)
    BY <1>1, <1>3, <1>12, DaysCount
  <2> QED BY <1>10, <1>12, <2>1
<1> QED BY <1>4, <1>5, <1>6, <1>7, <1>8, <1>9, <1>11, <1>12 DEF MovesOneWay

\* What a challenge measures moves one way at every step of it, whatever is
\* paid and when, and whatever the quizzes are.
THEOREM MetricsMove == ChallengeSpec => MetricMoves
<1>1. ChallengeInv /\ ChallengeInv' /\ [ChallengeNext]_challengeVars => [MovesOneWay]_challengeVars
  BY StepMoves
<1> QED BY <1>1, ChallengeInvariant, PTL DEF ChallengeSpec, MetricMoves

=============================================================================
