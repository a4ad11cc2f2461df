---------------------------- MODULE Intelligence ----------------------------
(***************************************************************************)
(* The shared entries of fraud-service                                     *)
(* (app/services/intelligence_store.py).  A publisher takes a number from  *)
(* Redis and enters the entry with a second call, so that others come in   *)
(* between; when a call fails, with or without effect, the process goes on *)
(* with a counter or a list of its own, and the other call still uses      *)
(* Redis.  Who may read the details of an entry is left out.               *)
(***************************************************************************)
EXTENDS Integers, Sequences, FiniteSets

CONSTANTS Server,        \* processes
          Post, At,      \* publications, and the process that each reaches
          MaxShared,     \* _MAX_LIST
          MaxIntelFaults, MaxIntelRestarts  \* bounds

ASSUME IntelligenceConstants ==
    /\ At \in [Post -> Server] /\ IsFiniteSet(Post) /\ MaxShared \in Nat \ {0}
    /\ MaxIntelFaults \in Nat /\ MaxIntelRestarts \in Nat

VARIABLES
    shared, counter,  \* Redis: intel:entries, newest first, and intel:counter
    own, ownCounter,  \* [Server -> ...]: _entries and _counter
    posting,          \* [Post -> "new", "numbered", "done" or "lost"]
    number,           \* [Post -> its entry_id, 0 before]
    intelFaults, intelRestarts,
    fallback,         \* history: posts that were numbered by their process
    pushed,           \* history: the posts that were pushed to Redis, in order
    ended             \* history: posts that were in the list of a process that ended

intelVars == <<shared, counter, own, ownCounter, posting, number, intelFaults,
               intelRestarts, fallback, pushed, ended>>

IntelInit ==
    /\ shared = <<>> /\ counter = 0
    /\ own = [s \in Server |-> <<>>] /\ ownCounter = [s \in Server |-> 0]
    /\ posting = [p \in Post |-> "new"] /\ number = [p \in Post |-> 0]
    /\ intelFaults = 0 /\ intelRestarts = 0 /\ fallback = {}
    /\ pushed = <<>> /\ ended = {}

Fails == intelFaults < MaxIntelFaults /\ intelFaults' = intelFaults + 1

\* _next_id
TakeNumber(p) ==
    /\ posting[p] = "new" /\ posting' = [posting EXCEPT ![p] = "numbered"]
    /\ \/ /\ counter' = counter + 1 /\ number' = [number EXCEPT ![p] = counter + 1]
          /\ UNCHANGED <<ownCounter, intelFaults, fallback>>
       \/ /\ Fails /\ counter' \in {counter, counter + 1}
          /\ ownCounter' = [ownCounter EXCEPT ![At[p]] = @ + 1]
          /\ number' = [number EXCEPT ![p] = ownCounter[At[p]] + 1]
          /\ fallback' = fallback \cup {p}
    /\ UNCHANGED <<shared, own, intelRestarts, pushed, ended>>

SharedEntry(p) == [post |-> p, id |-> number[p]]
First(s) == IF Len(s) > MaxShared THEN SubSeq(s, 1, MaxShared) ELSE s

Mut_Oldest(p) ==
    /\ shared' = First(Append(shared, SharedEntry(p)))
    /\ pushed' = Append(pushed, p)

\* lpush and ltrim, in one transaction.
PushShared(p) ==
    /\ shared' = First(<<SharedEntry(p)>> \o shared)
    /\ pushed' = Append(pushed, p)

\* publish, after its number
EnterPost(p) ==
    /\ posting[p] = "numbered" /\ posting' = [posting EXCEPT ![p] = "done"]
    /\ \/ PushShared(p) /\ UNCHANGED <<own, intelFaults>>
       \/ /\ Fails /\ own' = [own EXCEPT ![At[p]] = Append(@, SharedEntry(p))]
          /\ PushShared(p) \/ UNCHANGED <<shared, pushed>>
    /\ UNCHANGED <<counter, ownCounter, number, intelRestarts, fallback, ended>>

RestartServer(s) ==
    /\ intelRestarts < MaxIntelRestarts /\ intelRestarts' = intelRestarts + 1
    /\ own' = [own EXCEPT ![s] = <<>>] /\ ownCounter' = [ownCounter EXCEPT ![s] = 0]
    /\ posting' = [p \in Post |-> IF At[p] = s /\ posting[p] = "numbered" THEN "lost"
                                ELSE posting[p]]
    /\ ended' = ended \cup {own[s][i].post : i \in 1..Len(own[s])}
    /\ UNCHANGED <<shared, counter, number, intelFaults, fallback, pushed>>

IntelNext ==
    \/ \E p \in Post : TakeNumber(p) \/ EnterPost(p)
    \/ \E s \in Server : RestartServer(s)

IntelSpec == IntelInit /\ [][IntelNext]_intelVars
-----------------------------------------------------------------------------
\* _all_entries: newest first in both stores.
AllEntries(s, fails) ==
    IF fails THEN [i \in 1..Len(own[s]) |-> own[s][Len(own[s]) + 1 - i]] ELSE shared

CountEntries(s, fails) == IF fails THEN Len(own[s]) ELSE Len(shared)

Serves(s, fails, p) ==
    \E i \in 1..CountEntries(s, fails) : AllEntries(s, fails)[i].post = p
-----------------------------------------------------------------------------
SharedRow == [post : Post, id : Nat]
IntelTypeOK ==
    /\ shared \in Seq(SharedRow) /\ Len(shared) <= MaxShared /\ counter \in Nat
    /\ own \in [Server -> Seq(SharedRow)] /\ ownCounter \in [Server -> Nat]
    /\ posting \in [Post -> {"new", "numbered", "done", "lost"}] /\ number \in [Post -> Nat]
    /\ fallback \cup ended \subseteq Post /\ pushed \in Seq(Post)

\* What was published is served: an entry that was answered is in the list of
\* its process, unless that ended, or was pushed to Redis, where only later
\* ones can take its place; it is there once; and its number is its own among
\* those that Redis gave.  (A number that a process gave may be taken a second
\* time: intelligence_store.py:101.)
PublishedIsServed ==
    /\ \A p \in Post : posting[p] = "done" =>
          \/ p \in ended \/ Serves(At[p], TRUE, p)
          \/ \E i \in 1..Len(pushed) : pushed[i] = p
    /\ \A i \in 1..Len(pushed) :
          i > Len(pushed) - MaxShared => Serves(At[pushed[i]], FALSE, pushed[i])
    /\ \A s \in Server, fails \in BOOLEAN :
          LET entries == AllEntries(s, fails)
          IN  \A i, j \in 1..CountEntries(s, fails) :
                 i # j => /\ entries[i].post # entries[j].post
                          /\ entries[i].id = entries[j].id =>
                                 {entries[i].post, entries[j].post} \cap fallback # {}
=============================================================================
