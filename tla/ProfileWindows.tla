--------------------------- MODULE ProfileWindows ---------------------------
(***************************************************************************)
(* The recent payments of one user, as fraud-service's two profile stores  *)
(* keep them: a list in the order of arrival                               *)
(* (app/services/profile_store.py), or a sorted set of Redis               *)
(* (profile_store_redis.py).  PROFILE_STORE chooses one of them; here both *)
(* get the same calls, and are to give the same windows.                   *)
(*                                                                         *)
(* A payment brings its own time (POST /v1/profile/ingest), which may be   *)
(* late or early, or gets that of its arrival.  Times are in minutes.      *)
(***************************************************************************)
EXTENDS Integers, Sequences, FiniteSets

CONSTANTS Payment,     \* what the JSON of a payment says besides its time
          HourOf,      \* [Payment -> -1..23]: its hour, -1 where it has none
          MaxHistory,  \* payments kept of a user
          Retention,   \* minutes that a reader of a window leaves in the list
          Windows,     \* the minutes that are asked for
          Skew,        \* bound: how far a payment's time may be from its arrival's
          MaxClock, MaxIngests  \* bounds: minutes, payments

ASSUME ProfileConstants ==
    /\ HourOf \in [Payment -> -1..23]
    /\ MaxHistory \in Nat \ {0} /\ Retention \in Nat /\ Windows \subseteq 0..Retention
    /\ Skew \in Nat /\ MaxClock \in Nat /\ MaxIngests \in Nat

VARIABLES
    clock,
    history,    \* the list: _history[user_id]
    sorted,     \* the sorted set: profile:{user_id}:hist
    ingests,    \* how many payments came in
    everything, \* history: the payments since the profile was last deleted
    regular     \* history: whether these came in the order of their times, none twice

windowVars == <<clock, history, sorted, ingests, everything, regular>>

TxRecord == [payment : Payment, timestamp : Int]

WindowInit ==
    /\ clock = 0 /\ ingests = 0
    /\ history = <<>> /\ sorted = {} /\ everything = {} /\ regular = TRUE

LastOf(s) == IF Len(s) > MaxHistory THEN Tail(s) ELSE s   \* deque(maxlen)

\* zremrangebyrank: the oldest goes, of those with one time any.
Trimmed(set) ==
    IF Cardinality(set) <= MaxHistory THEN {set}
    ELSE {set \ {r} : r \in {x \in set : \A y \in set : x.timestamp <= y.timestamp}}

\* ingest of both stores
IngestPayment(p, timestamp) ==
    LET r == [payment |-> p, timestamp |-> timestamp]
    IN  /\ ingests < MaxIngests /\ ingests' = ingests + 1
        /\ history' = LastOf(Append(history, r))
        /\ sorted' \in Trimmed(sorted \cup {r})
        /\ everything' = everything \cup {r}
        /\ regular' = (/\ regular /\ r \notin everything
                       /\ \A x \in everything : x.timestamp <= timestamp)
        /\ UNCHANGED clock

Expired(r) == r.timestamp < clock - Retention

\* _prune_expired: from the head, up to the first that has not expired.
Prune ==
    LET kept == {i \in 1..Len(history) : ~Expired(history[i])}
    IN  history' = IF kept = {} THEN <<>>
                   ELSE SubSeq(history, CHOOSE i \in kept : \A j \in kept : i <= j, Len(history))

\* get_velocity: a reader of one window.
ReadVelocity ==
    /\ Prune
    /\ UNCHANGED <<clock, sorted, ingests, everything, regular>>

DeleteProfile ==
    /\ history' = <<>> /\ sorted' = {} /\ everything' = {} /\ regular' = TRUE
    /\ UNCHANGED <<clock, ingests>>

Minute ==
    /\ clock < MaxClock /\ clock' = clock + 1
    /\ UNCHANGED <<history, sorted, ingests, everything, regular>>

WindowNext ==
    \/ \E p \in Payment, skew \in -Skew..Skew : IngestPayment(p, clock + skew)
    \/ ReadVelocity \/ DeleteProfile \/ Minute

WindowSpec == WindowInit /\ [][WindowNext]_windowVars
-----------------------------------------------------------------------------
Mut_BisectRight(s, x) ==
    LET from[p \in (0..Len(s)) \X (0..Len(s))] ==
            LET mid == (p[1] + p[2]) \div 2
            IN  IF p[1] >= p[2] THEN p[1]
                ELSE IF x < s[mid + 1].timestamp THEN from[<<p[1], mid>>] ELSE from[<<mid + 1, p[2]>>]
    IN  from[<<0, Len(s)>>]

\* bisect.bisect_left on the times of a list that is taken to be ascending, from
\* one place of the list up to another.
BisectLeft(s, x) ==
    LET from[p \in (0..Len(s)) \X (0..Len(s))] ==
            LET mid == (p[1] + p[2]) \div 2
            IN  IF p[1] >= p[2] THEN p[1]
                ELSE IF s[mid + 1].timestamp < x THEN from[<<mid + 1, p[2]>>] ELSE from[<<p[1], mid>>]
    IN  from[<<0, Len(s)>>]

\* _count_within
CountWithin(w) == Len(history) - BisectLeft(history, clock - w)

\* zcount, and the loop over the records of a profile.
Within(set, w) == {r \in set : r.timestamp >= clock - w}

\* hour_histogram of both profiles: those without an hour are in none.
ListedAt(h) == Cardinality({i \in 1..Len(history) : HourOf[history[i].payment] = h /\ h >= 0})
SortedAt(h) == Cardinality({r \in sorted : HourOf[r.payment] = h /\ h >= 0})
-----------------------------------------------------------------------------
WindowTypeOK ==
    /\ clock \in 0..MaxClock /\ ingests \in 0..MaxIngests /\ regular \in BOOLEAN
    /\ history \in Seq(TxRecord) /\ Len(history) <= MaxHistory
    /\ sorted \subseteq TxRecord /\ Cardinality(sorted) <= MaxHistory
    /\ everything \subseteq TxRecord

\* The rules are to see the same windows whichever store is chosen: of the
\* payments since the profile was deleted, the sorted set counts those in a
\* window up to its limit, each once however often it is sent, and whatever
\* the order; the list counts the same as long as payments come in the order
\* of their times, none twice, although each reader shortens it (profile_store.py:119
\* assumes the order).  While the list is whole, the histograms of the hours
\* agree too.
WindowsAgree ==
    /\ \A w \in Windows :
          /\ LET n == Cardinality(Within(everything, w))
             IN  Cardinality(Within(sorted, w)) = IF n < MaxHistory THEN n ELSE MaxHistory
          /\ regular => CountWithin(w) = Cardinality(Within(sorted, w))
    /\ regular /\ everything # {} /\ Len(history) = Cardinality(everything) =>
           \A h \in -1..23 : ListedAt(h) = SortedAt(h)
=============================================================================
