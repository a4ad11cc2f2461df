--------------------------- MODULE TransferGraph ---------------------------
(***************************************************************************)
(* The transfers that fraud-service remembers (app/services/graph_store.py)*)
(* and the features that the mule and layering rules take from them        *)
(* (graph_features.py).  Each transfer is filed under its receiver and its *)
(* sender, in sorted sets of Redis in one transaction, or, when that call  *)
(* fails, with or without effect, in two lists of the process.  A reader   *)
(* looks at Redis, or at the lists when its own call fails.                *)
(*                                                                         *)
(* Times are in minutes.  Every transfer is recorded at a moment of its    *)
(* own, so a transfer that is sent again is another edge.                  *)
(***************************************************************************)
EXTENDS Policy, Integers, Sequences, FiniteSets, FiniteSetsExt

CONSTANTS Account, Amount,
          Transfers,   \* bound: the senders, receivers and amounts that come together
          Window,      \* GRAPH_WINDOW_MINUTES
          KeyLife,     \* GRAPH_STORE_TTL_S, four windows unless it is set
          Day,         \* the 24 hours of dest_first_seen_within_24h
          MaxPerNode,  \* edges kept in a list
          MaxMinutes, MaxTransfers, MaxRedisFaults  \* bounds

ASSUME GraphConstants ==
    /\ Transfers \subseteq {t \in Account \X Account \X Amount : t[1] # t[2]}
    /\ Amount \subseteq Nat \ {0} /\ Window \in Nat \ {0} /\ KeyLife \in Nat /\ KeyLife >= Window /\ Day \in Nat
    /\ MaxPerNode \in Nat \ {0} /\ MaxMinutes \in Nat /\ MaxTransfers \in Nat
    /\ MaxRedisFaults \in Nat

VARIABLES
    minute,
    inbound, outbound,     \* [Account -> set of edges]: the keys of Redis
    inUntil, outUntil,     \* [Account -> minute]: when they expire
    inList, outList,       \* [Account -> Seq(Edge)]: _inbound and _outbound
    faults,                \* calls of Redis that failed
    recorded               \* history: every edge that record was called with

graphVars == <<minute, inbound, outbound, inUntil, outUntil, inList, outList, faults, recorded>>

Edge == [sender : Account, receiver : Account, amount : Amount, ts : 0..MaxMinutes,
         n : 1..MaxTransfers]

GraphInit ==
    /\ minute = 0 /\ faults = 0 /\ recorded = {}
    /\ inbound = [a \in Account |-> {}] /\ outbound = [a \in Account |-> {}]
    /\ inUntil = [a \in Account |-> 0] /\ outUntil = [a \in Account |-> 0]
    /\ inList = [a \in Account |-> <<>>] /\ outList = [a \in Account |-> <<>>]

Mut_Amounts(edges, e) == {x \in edges : x.amount # e.amount /\ x.ts > minute - Window} \cup {e}

\* zadd, then zremrangebyscore up to and with the minute that leaves the window.
Filed(edges, e) == {x \in edges \cup {e} : x.ts > minute - Window}

\* The pipeline of record.
FileInRedis(e) ==
    /\ inbound' = [inbound EXCEPT ![e.receiver] = Filed(@, e)]
    /\ outbound' = [outbound EXCEPT ![e.sender] = Filed(@, e)]
    /\ inUntil' = [inUntil EXCEPT ![e.receiver] = minute + KeyLife]
    /\ outUntil' = [outUntil EXCEPT ![e.sender] = minute + KeyLife]

Kept(s, e) == IF Len(s) = MaxPerNode THEN Append(Tail(s), e) ELSE Append(s, e)

FileInLists(e) ==
    /\ inList' = [inList EXCEPT ![e.receiver] = Kept(@, e)]
    /\ outList' = [outList EXCEPT ![e.sender] = Kept(@, e)]

\* record, which ignores a transfer without a sender or a receiver.
RecordTransfer(from, to, amount) ==
    LET e == [sender |-> from, receiver |-> to, amount |-> amount, ts |-> minute,
              n |-> Cardinality(recorded) + 1]
    IN  /\ Cardinality(recorded) < MaxTransfers
        /\ recorded' = recorded \cup {e}
        /\ \/ FileInRedis(e) /\ UNCHANGED <<inList, outList, faults>>
           \/ /\ faults < MaxRedisFaults /\ faults' = faults + 1
              /\ FileInLists(e)
              /\ FileInRedis(e) \/ UNCHANGED <<inbound, outbound, inUntil, outUntil>>
        /\ UNCHANGED minute

PassMinute ==
    /\ minute < MaxMinutes /\ minute' = minute + 1
    /\ inbound' = [a \in Account |-> IF inUntil[a] <= minute' THEN {} ELSE inbound[a]]
    /\ outbound' = [a \in Account |-> IF outUntil[a] <= minute' THEN {} ELSE outbound[a]]
    /\ UNCHANGED <<inUntil, outUntil, inList, outList, faults, recorded>>

GraphNext ==
    \/ \E t \in Transfers : RecordTransfer(t[1], t[2], t[3])
    \/ PassMinute

GraphSpec == GraphInit /\ [][GraphNext]_graphVars
-----------------------------------------------------------------------------
(***************************************************************************)
(* What a reader gets, from Redis or, when its call fails, from the lists  *)
(***************************************************************************)
InOrder(edges) == {e \in edges : minute - Window <= e.ts}
Listed(s) == {s[i] : i \in 1..Len(s)}

\* _read_window
Inbound(a, fails)  == InOrder(IF fails THEN Listed(inList[a]) ELSE inbound[a])
Outbound(a, fails) == InOrder(IF fails THEN Listed(outList[a]) ELSE outbound[a])

Sum(edges) == MapThenSumSet(LAMBDA e : e.amount, edges)

\* fan_in_count, pass_through_ratio (in percent), dest_inbound_velocity_1h
FanIn(a, fails) == Cardinality({e.sender : e \in Inbound(a, fails)})
PassThrough(a, fails) ==
    LET in == Sum(Inbound(a, fails))
    IN  IF in = 0 THEN 0 ELSE (100 * Sum(Outbound(a, fails))) \div in
InboundVelocity(a, fails) == Cardinality(Inbound(a, fails))

\* sender_recent_inbound_min_ago, in hundredths of a minute
InboundAgo(a, fails) ==
    LET times == {e.ts : e \in Inbound(a, fails)}
    IN  IF times = {} THEN Never
        ELSE 100 * (minute - CHOOSE t \in times : \A u \in times : u <= t)

\* first_seen_ts and dest_first_seen_within_24h: over all that is still there.
FirstSeen(a, fails) ==
    LET times == {e.ts : e \in IF fails THEN Listed(inList[a]) ELSE inbound[a]}
    IN  times = {} \/ minute - (CHOOSE t \in times : \A u \in times : t <= u) < Day

\* extract_all, as the rules read it for a sender.
SenderFeatures(a, fails) ==
    [fanIn |-> FanIn(a, fails), passThrough |-> PassThrough(a, fails),
     inboundAgo |-> InboundAgo(a, fails)]
-----------------------------------------------------------------------------
GraphTypeOK ==
    /\ minute \in 0..MaxMinutes /\ faults \in 0..MaxRedisFaults /\ recorded \subseteq Edge
    /\ inbound \in [Account -> SUBSET Edge] /\ outbound \in [Account -> SUBSET Edge]
    /\ \A a \in Account : inUntil[a] \in 0..MaxMinutes + KeyLife
                          /\ outUntil[a] \in 0..MaxMinutes + KeyLife
    /\ \A a \in Account : inList[a] \in Seq(Edge) /\ outList[a] \in Seq(Edge)

Recent == {e \in recorded : e.ts > minute - Window}

\* While every call of Redis succeeds, whoever got money from three others
\* within the window and has sent four fifths of it on meets the mule rule at
\* the next transfer (MoneyMuleRule over the features of the sender), however
\* the transfers came; at the minute that leaves the window either may hold.
MulesAreSeen ==
    faults = 0 => \A a \in Account :
        LET in  == {e \in Recent : e.receiver = a}
            out == {e \in Recent : e.sender = a}
        IN  /\ Cardinality({e.sender : e \in in}) >= 3
            /\ 100 * Sum(out) >= 80 * Sum(in)
            /\ \A e \in recorded : e.ts # minute - Window
            => FiresOnGraph("MONEY_MULE_HUB", SenderFeatures(a, FALSE))
=============================================================================
