---------------------------- MODULE Scores_proofs -----------------------------
(***************************************************************************)
(* Proofs of what module MCFraud checks on a few values of what a decision *)
(* is made from, what is counted of it and how it is studied, for every    *)
(* value of the constants: the transfer graph, the scores of signals and   *)
(* sequences, the recent payments, the monitoring, and the studies of      *)
(* approval at the edge and of federated learning.                         *)
(***************************************************************************)
EXTENDS TransferGraph, Sums, Signals, ProfileWindows, Monitoring, Studies,
        FiniteSetTheorems, TLAPS

(***************************************************************************)
(* The transfer graph, for any accounts and transfers                      *)
(***************************************************************************)

LEMMA EdgeFields ==
    \A e \in Edge : /\ e.sender \in Account /\ e.receiver \in Account
                    /\ e.amount \in Nat /\ e.amount > 0 /\ e.ts \in Nat /\ e.ts <= MaxMinutes
<1> SUFFICES ASSUME NEW e \in Edge
             PROVE  /\ e.sender \in Account /\ e.receiver \in Account
                    /\ e.amount \in Nat /\ e.amount > 0 /\ e.ts \in Nat /\ e.ts <= MaxMinutes
  OBVIOUS
<1>1. e.sender \in Account /\ e.receiver \in Account /\ e.amount \in Amount /\ e.ts \in 0..MaxMinutes
  BY DEF Edge
<1>2. MaxMinutes \in Nat /\ \A x \in Amount : x \in Nat /\ x > 0
  BY GraphConstants
<1> QED BY <1>1, <1>2

\* The types, with what Redis and the lists are keyed by.
GraphTypes ==
    /\ minute \in Nat /\ minute <= MaxMinutes /\ faults \in Nat /\ faults <= MaxRedisFaults
    /\ recorded \subseteq Edge /\ IsFiniteSet(recorded) /\ \A e \in recorded : e.ts <= minute
    /\ inbound \in [Account -> SUBSET Edge] /\ outbound \in [Account -> SUBSET Edge]
    /\ inUntil \in [Account -> 0..MaxMinutes + KeyLife]
    /\ outUntil \in [Account -> 0..MaxMinutes + KeyLife]
    /\ inList \in [Account -> Seq(Edge)] /\ outList \in [Account -> Seq(Edge)]

\* What a key of Redis holds until a call of it fails: edges of its account, of
\* the window all, and none that the key will not outlive.
HoldsRecent(edges, until, mine) ==
    /\ edges \subseteq mine
    /\ \A e \in mine : e.ts > minute - Window => e \in edges
    /\ \A e \in edges : e.ts + Window <= until

RedisHas ==
    faults = 0 => \A a \in Account :
        /\ HoldsRecent(inbound[a], inUntil[a], {e \in recorded : e.receiver = a})
        /\ HoldsRecent(outbound[a], outUntil[a], {e \in recorded : e.sender = a})

GraphInv == GraphTypes /\ RedisHas

LEMMA GraphNumbers ==
    /\ Window \in Nat /\ Window > 0 /\ KeyLife \in Nat /\ KeyLife >= Window /\ MaxPerNode \in Nat /\ MaxPerNode > 0
    /\ MaxMinutes \in Nat /\ MaxTransfers \in Nat /\ MaxRedisFaults \in Nat
    /\ \A t \in Transfers : t[1] \in Account /\ t[2] \in Account /\ t[3] \in Amount
BY GraphConstants

LEMMA GraphStarts == GraphInit => GraphInv
<1> SUFFICES ASSUME GraphInit PROVE GraphInv
  OBVIOUS
<1>1. 0 \in 0..MaxMinutes + KeyLife
  BY GraphNumbers
<1>2. GraphTypes
  BY <1>1, GraphNumbers, FS_EmptySet DEF GraphInit, GraphTypes
<1>3. RedisHas
  BY DEF GraphInit, RedisHas, HoldsRecent
<1> QED BY <1>2, <1>3 DEF GraphInv

\* A new edge is filed under one key more, and the window keeps what is of it.
LEMMA FiledHolds ==
    ASSUME NEW edges \in SUBSET Edge, NEW mine \in SUBSET Edge, NEW until, NEW e \in Edge,
           minute \in Nat, e.ts = minute, \A x \in mine : x.ts <= minute, HoldsRecent(edges, until, mine)
    PROVE  /\ Filed(edges, e) \subseteq mine \cup {e}
           /\ \A x \in mine \cup {e} : x.ts > minute - Window => x \in Filed(edges, e)
           /\ \A x \in Filed(edges, e) : x.ts + Window <= minute + KeyLife
<1>1. Filed(edges, e) = {x \in edges \cup {e} : x.ts > minute - Window}
  BY DEF Filed
<1>2. edges \subseteq mine /\ \A x \in mine : x.ts > minute - Window => x \in edges
  BY DEF HoldsRecent
<1>3. \A x \in Filed(edges, e) : x.ts \in Nat /\ x.ts <= minute
  BY <1>1, <1>2, EdgeFields
<1>4. \A x \in Filed(edges, e) : x.ts + Window <= minute + KeyLife
  BY <1>3, GraphNumbers
<1>5. minute > minute - Window
  BY GraphNumbers
<1> QED BY <1>1, <1>2, <1>4, <1>5

LEMMA KeptKeeps ==
    ASSUME NEW s \in Seq(Edge), NEW e \in Edge PROVE Kept(s, e) \in Seq(Edge)
<1>1. CASE Len(s) = MaxPerNode
  <2>1. Len(s) > 0
    BY <1>1, GraphNumbers
  <2>2. Tail(s) \in Seq(Edge)
    BY <2>1
  <2> QED BY <1>1, <2>2 DEF Kept
<1>2. CASE Len(s) # MaxPerNode
  BY <1>2 DEF Kept
<1> QED BY <1>1, <1>2

LEMMA RecordKeeps ==
    ASSUME GraphInv, NEW from \in Account, NEW to \in Account, NEW amount \in Amount,
           RecordTransfer(from, to, amount)
    PROVE  GraphInv'
<1> DEFINE e == [sender |-> from, receiver |-> to, amount |-> amount, ts |-> minute,
                 n |-> Cardinality(recorded) + 1]
<1>1. /\ Cardinality(recorded) < MaxTransfers /\ recorded' = recorded \cup {e} /\ minute' = minute
      /\ \/ FileInRedis(e) /\ inList' = inList /\ outList' = outList /\ faults' = faults
         \/ /\ faults < MaxRedisFaults /\ faults' = faults + 1 /\ FileInLists(e)
            /\ \/ FileInRedis(e)
               \/ UNCHANGED <<inbound, outbound, inUntil, outUntil>>
  BY DEF RecordTransfer
<1>2. GraphTypes /\ RedisHas
  BY DEF GraphInv
<1>3. e \in Edge /\ e.sender = from /\ e.receiver = to /\ e.ts = minute
  <2>1. Cardinality(recorded) \in Nat
    BY <1>2, FS_CardinalityType DEF GraphTypes
  <2>2. Cardinality(recorded) + 1 \in 1..MaxTransfers /\ minute \in 0..MaxMinutes
    BY <1>1, <1>2, <2>1, GraphNumbers DEF GraphTypes
  <2> QED BY <2>2 DEF Edge
<1> HIDE DEF e
<1>4. /\ recorded' \subseteq Edge /\ IsFiniteSet(recorded') /\ \A x \in recorded' : x.ts <= minute'
  <2>1. IsFiniteSet(recorded \cup {e})
    BY <1>2, FS_AddElement DEF GraphTypes
  <2> QED BY <1>1, <1>2, <1>3, <2>1 DEF GraphTypes
<1>5. ASSUME FileInRedis(e)
      PROVE  /\ inbound' \in [Account -> SUBSET Edge] /\ outbound' \in [Account -> SUBSET Edge]
             /\ inUntil' \in [Account -> 0..MaxMinutes + KeyLife]
             /\ outUntil' \in [Account -> 0..MaxMinutes + KeyLife]
             /\ RedisHas => \A a \in Account : faults = 0 =>
                   /\ HoldsRecent(inbound[a], inUntil[a], {x \in recorded : x.receiver = a})'
                   /\ HoldsRecent(outbound[a], outUntil[a], {x \in recorded : x.sender = a})'
  <2>1. /\ inbound' = [inbound EXCEPT ![to] = Filed(inbound[to], e)]
        /\ outbound' = [outbound EXCEPT ![from] = Filed(outbound[from], e)]
        /\ inUntil' = [inUntil EXCEPT ![to] = minute + KeyLife]
        /\ outUntil' = [outUntil EXCEPT ![from] = minute + KeyLife]
    BY <1>3, <1>5 DEF FileInRedis
  <2>2. Filed(inbound[to], e) \in SUBSET Edge /\ Filed(outbound[from], e) \in SUBSET Edge
    BY <1>2, <1>3 DEF GraphTypes, Filed
  <2>3. minute + KeyLife \in 0..MaxMinutes + KeyLife
    BY <1>2, GraphNumbers DEF GraphTypes
  <2>4. /\ inbound' \in [Account -> SUBSET Edge] /\ outbound' \in [Account -> SUBSET Edge]
        /\ inUntil' \in [Account -> 0..MaxMinutes + KeyLife]
        /\ outUntil' \in [Account -> 0..MaxMinutes + KeyLife]
    BY <1>2, <2>1, <2>2, <2>3 DEF GraphTypes
  <2>5. ASSUME RedisHas, NEW a \in Account, faults = 0
        PROVE  HoldsRecent(inbound[a], inUntil[a], {x \in recorded : x.receiver = a})'
    <3> DEFINE mine == {x \in recorded : x.receiver = a}
    <3>1. HoldsRecent(inbound[a], inUntil[a], mine)
      BY <2>5 DEF RedisHas
    <3>2. CASE a = to
      <4>1. {x \in recorded' : x.receiver = a} = mine \cup {e}
        BY <1>1, <1>3, <3>2
      <4>2. mine \in SUBSET Edge /\ inbound[a] \in SUBSET Edge /\ minute \in Nat /\ \A x \in mine : x.ts <= minute
        BY <1>2 DEF GraphTypes
      <4>3. inbound'[a] = Filed(inbound[a], e) /\ inUntil'[a] = minute + KeyLife
        BY <1>2, <2>1, <3>2 DEF GraphTypes
      <4> HIDE DEF mine
      <4>4. /\ Filed(inbound[a], e) \subseteq mine \cup {e}
            /\ \A x \in mine \cup {e} : x.ts > minute - Window => x \in Filed(inbound[a], e)
            /\ \A x \in Filed(inbound[a], e) : x.ts + Window <= minute + KeyLife
        BY <1>3, <3>1, <4>2, FiledHolds
      <4> QED BY <1>1, <4>1, <4>3, <4>4 DEF HoldsRecent
    <3>3. CASE a # to
      <4>1. {x \in recorded' : x.receiver = a} = mine
        BY <1>1, <1>3, <3>3
      <4>2. inbound'[a] = inbound[a] /\ inUntil'[a] = inUntil[a]
        BY <1>2, <2>1, <3>3 DEF GraphTypes
      <4> HIDE DEF mine
      <4> QED BY <1>1, <3>1, <4>1, <4>2 DEF HoldsRecent
    <3> QED BY <3>2, <3>3
  <2>6. ASSUME RedisHas, NEW a \in Account, faults = 0
        PROVE  HoldsRecent(outbound[a], outUntil[a], {x \in recorded : x.sender = a})'
    <3> DEFINE mine == {x \in recorded : x.sender = a}
    <3>1. HoldsRecent(outbound[a], outUntil[a], mine)
      BY <2>6 DEF RedisHas
    <3>2. CASE a = from
      <4>1. {x \in recorded' : x.sender = a} = mine \cup {e}
        BY <1>1, <1>3, <3>2
      <4>2. mine \in SUBSET Edge /\ outbound[a] \in SUBSET Edge /\ minute \in Nat /\ \A x \in mine : x.ts <= minute
        BY <1>2 DEF GraphTypes
      <4>3. outbound'[a] = Filed(outbound[a], e) /\ outUntil'[a] = minute + KeyLife
        BY <1>2, <2>1, <3>2 DEF GraphTypes
      <4> HIDE DEF mine
      <4>4. /\ Filed(outbound[a], e) \subseteq mine \cup {e}
            /\ \A x \in mine \cup {e} : x.ts > minute - Window => x \in Filed(outbound[a], e)
            /\ \A x \in Filed(outbound[a], e) : x.ts + Window <= minute + KeyLife
        BY <1>3, <3>1, <4>2, FiledHolds
      <4> QED BY <1>1, <4>1, <4>3, <4>4 DEF HoldsRecent
    <3>3. CASE a # from
      <4>1. {x \in recorded' : x.sender = a} = mine
        BY <1>1, <1>3, <3>3
      <4>2. outbound'[a] = outbound[a] /\ outUntil'[a] = outUntil[a]
        BY <1>2, <2>1, <3>3 DEF GraphTypes
      <4> HIDE DEF mine
      <4> QED BY <1>1, <3>1, <4>1, <4>2 DEF HoldsRecent
    <3> QED BY <3>2, <3>3
  <2> QED BY <2>4, <2>5, <2>6
<1>6. CASE FileInRedis(e) /\ inList' = inList /\ outList' = outList /\ faults' = faults
  <2>1. GraphTypes'
    BY <1>1, <1>2, <1>4, <1>5, <1>6 DEF GraphTypes
  <2>2. RedisHas'
    BY <1>2, <1>5, <1>6 DEF RedisHas
  <2> QED BY <2>1, <2>2 DEF GraphInv
<1>7. CASE /\ faults < MaxRedisFaults /\ faults' = faults + 1 /\ FileInLists(e)
           /\ FileInRedis(e) \/ UNCHANGED <<inbound, outbound, inUntil, outUntil>>
  <2>1. inList' \in [Account -> Seq(Edge)] /\ outList' \in [Account -> Seq(Edge)]
    <3>1. inList' = [inList EXCEPT ![to] = Kept(inList[to], e)] /\ outList' = [outList EXCEPT ![from] = Kept(outList[from], e)]
      BY <1>3, <1>7 DEF FileInLists
    <3>2. Kept(inList[to], e) \in Seq(Edge) /\ Kept(outList[from], e) \in Seq(Edge)
      BY <1>2, <1>3, KeptKeeps DEF GraphTypes
    <3> QED BY <1>2, <3>1, <3>2 DEF GraphTypes
  <2>2. faults' \in Nat /\ faults' <= MaxRedisFaults /\ faults' # 0
    BY <1>2, <1>7, GraphNumbers DEF GraphTypes
  <2>3. /\ inbound' \in [Account -> SUBSET Edge] /\ outbound' \in [Account -> SUBSET Edge]
        /\ inUntil' \in [Account -> 0..MaxMinutes + KeyLife]
        /\ outUntil' \in [Account -> 0..MaxMinutes + KeyLife]
    BY <1>2, <1>5, <1>7 DEF GraphTypes
  <2>4. GraphTypes'
    BY <1>1, <1>2, <1>4, <2>1, <2>2, <2>3 DEF GraphTypes
  <2> QED BY <2>2, <2>4 DEF GraphInv, RedisHas
<1> QED BY <1>1, <1>6, <1>7

LEMMA PassKeeps ==
    ASSUME GraphInv, PassMinute
    PROVE  GraphInv'
<1>1. /\ minute < MaxMinutes /\ minute' = minute + 1
      /\ inbound' = [a \in Account |-> IF inUntil[a] <= minute' THEN {} ELSE inbound[a]]
      /\ outbound' = [a \in Account |-> IF outUntil[a] <= minute' THEN {} ELSE outbound[a]]
      /\ UNCHANGED <<inUntil, outUntil, inList, outList, faults, recorded>>
  BY DEF PassMinute
<1>2. GraphTypes /\ RedisHas
  BY DEF GraphInv
<1>3. minute \in Nat /\ minute' \in Nat /\ minute' <= MaxMinutes /\ Window \in Nat
  BY <1>1, <1>2, GraphNumbers DEF GraphTypes
<1>4. \A x \in recorded : x.ts \in Nat /\ x.ts <= minute'
  BY <1>1, <1>2, <1>3, EdgeFields DEF GraphTypes
<1>5. GraphTypes'
  <2>1. inbound' \in [Account -> SUBSET Edge] /\ outbound' \in [Account -> SUBSET Edge]
    BY <1>1, <1>2 DEF GraphTypes
  <2> QED BY <1>1, <1>2, <1>3, <1>4, <2>1 DEF GraphTypes
<1>6. ASSUME NEW edges, NEW until \in Nat, NEW mine \in SUBSET recorded, HoldsRecent(edges, until, mine)
      PROVE  /\ until <= minute' => \A x \in mine : ~(x.ts > minute' - Window)
             /\ \A x \in mine : x.ts > minute' - Window => x \in edges
  <2>1. \A x \in mine : x.ts > minute - Window => x \in edges /\ x.ts + Window <= until
    BY <1>6 DEF HoldsRecent
  <2>2. \A x \in mine : x.ts \in Nat /\ (x.ts > minute' - Window => x.ts > minute - Window)
    BY <1>1, <1>3, <1>4
  <2> QED BY <1>3, <2>1, <2>2
<1>7. ASSUME faults = 0, NEW a \in Account
      PROVE  /\ HoldsRecent(inbound[a], inUntil[a], {x \in recorded : x.receiver = a})'
             /\ HoldsRecent(outbound[a], outUntil[a], {x \in recorded : x.sender = a})'
  <2> DEFINE in == {x \in recorded : x.receiver = a}
             out == {x \in recorded : x.sender = a}
  <2>1. HoldsRecent(inbound[a], inUntil[a], in) /\ HoldsRecent(outbound[a], outUntil[a], out)
    BY <1>2, <1>7 DEF RedisHas
  <2>2. inUntil[a] \in Nat /\ outUntil[a] \in Nat
    BY <1>2, GraphNumbers DEF GraphTypes
  <2>3. in \in SUBSET recorded /\ out \in SUBSET recorded
    OBVIOUS
  <2>4. in' = in /\ out' = out /\ inUntil' = inUntil /\ outUntil' = outUntil
    BY <1>1
  <2>5. /\ inbound'[a] = IF inUntil[a] <= minute' THEN {} ELSE inbound[a]
        /\ outbound'[a] = IF outUntil[a] <= minute' THEN {} ELSE outbound[a]
    BY <1>1
  <2> HIDE DEF in, out
  <2>6. HoldsRecent(inbound[a], inUntil[a], in)'
    <3>1. /\ inUntil[a] <= minute' => \A x \in in : ~(x.ts > minute' - Window)
          /\ \A x \in in : x.ts > minute' - Window => x \in inbound[a]
      BY <1>6, <2>1, <2>2, <2>3
    <3>2. inbound'[a] \subseteq inbound[a]
      BY <2>5
    <3>3. inbound[a] \subseteq in /\ \A x \in inbound[a] : x.ts + Window <= inUntil[a]
      BY <2>1 DEF HoldsRecent
    <3>4. \A x \in in : x.ts > minute' - Window => x \in inbound'[a]
      BY <2>5, <3>1
    <3> QED BY <2>4, <3>2, <3>3, <3>4 DEF HoldsRecent
  <2>7. HoldsRecent(outbound[a], outUntil[a], out)'
    <3>1. /\ outUntil[a] <= minute' => \A x \in out : ~(x.ts > minute' - Window)
          /\ \A x \in out : x.ts > minute' - Window => x \in outbound[a]
      BY <1>6, <2>1, <2>2, <2>3
    <3>2. outbound'[a] \subseteq outbound[a]
      BY <2>5
    <3>3. outbound[a] \subseteq out /\ \A x \in outbound[a] : x.ts + Window <= outUntil[a]
      BY <2>1 DEF HoldsRecent
    <3>4. \A x \in out : x.ts > minute' - Window => x \in outbound'[a]
      BY <2>5, <3>1
    <3> QED BY <2>4, <3>2, <3>3, <3>4 DEF HoldsRecent
  <2> QED BY <2>6, <2>7 DEF in, out
<1>8. RedisHas'
  BY <1>1, <1>7 DEF RedisHas
<1> QED BY <1>5, <1>8 DEF GraphInv

LEMMA GraphInvariant == GraphSpec => []GraphInv
<1>1. ASSUME GraphInv, [GraphNext]_graphVars PROVE GraphInv'
  <2>1. CASE \E t \in Transfers : RecordTransfer(t[1], t[2], t[3])
    BY <1>1, <2>1, GraphNumbers, RecordKeeps
  <2>2. CASE PassMinute
    BY <1>1, <2>2, PassKeeps
  <2>3. CASE UNCHANGED graphVars
    BY <1>1, <2>3 DEF graphVars, GraphInv, GraphTypes, RedisHas, HoldsRecent
  <2> QED BY <1>1, <2>1, <2>2, <2>3 DEF GraphNext
<1> QED BY <1>1, GraphStarts, PTL DEF GraphSpec

\* What is paid, as a sum.
LEMMA SumIs ==
    ASSUME NEW edges \in SUBSET Edge, IsFiniteSet(edges)
    PROVE  Sum(edges) \in Nat /\ (edges # {} => Sum(edges) > 0)
<1> DEFINE f == [e \in Edge |-> e.amount]
           IsIt(g) == g = [s \in SUBSET edges |-> IF s = {} THEN 0 ELSE AnyOf(s).amount + g[s \ {AnyOf(s)}]]
<1>1. f \in [Edge -> Int] /\ \A e \in Edge : f[e] = e.amount /\ f[e] >= 1
  BY EdgeFields
<1>2. ASSUME NEW g PROVE IsSum(g, f, edges) <=> IsIt(g)
  <2>1. \A s \in SUBSET edges : s # {} => f[AnyOf(s)] = AnyOf(s).amount
    BY FirstIn
  <2> HIDE DEF f
  <2> QED BY <2>1 DEF IsSum
<1>3. PICK g : IsSum(g, f, edges)
  <2> HIDE DEF f, IsIt
  <2> QED BY <1>1, SumExists
<1>4. \E h : IsIt(h)
  BY <1>2, <1>3
<1>5. \E h : IsIt(h) /\ Sum(edges) = h[edges]
  BY <1>4, ZenonT(30) DEF Sum, MapThenSumSet, MapThenFoldSet, AnyOf
<1> HIDE DEF f, IsIt
<1>6. PICK h : IsIt(h) /\ Sum(edges) = h[edges]
  BY <1>5
<1>7. IsSum(h, f, edges)
  BY <1>2, <1>6
<1>8. SumOf(f, edges) = h[edges]
  BY <1>1, <1>7, SumUnfolds
<1>9. SumOf(f, edges) \in Int
  BY <1>1, SumInt
<1>10. 1 * Cardinality(edges) <= SumOf(f, edges)
  BY <1>1, SumAtLeast
<1>11. Cardinality(edges) \in Nat /\ (edges # {} => Cardinality(edges) # 0)
  BY FS_CardinalityType, FS_EmptySet
<1> QED BY <1>6, <1>8, <1>9, <1>10, <1>11

LEMMA MuleSeen == GraphInv => MulesAreSeen
<1> SUFFICES ASSUME GraphInv, faults = 0, NEW a \in Account,
                    Cardinality({e.sender : e \in {e \in Recent : e.receiver = a}}) >= 3,
                    100 * Sum({e \in Recent : e.sender = a}) >= 80 * Sum({e \in Recent : e.receiver = a}),
                    \A e \in recorded : e.ts # minute - Window
             PROVE  FiresOnGraph("MONEY_MULE_HUB", SenderFeatures(a, FALSE))
  BY DEF MulesAreSeen
<1> DEFINE in == {e \in Recent : e.receiver = a}
           out == {e \in Recent : e.sender = a}
<1>1. GraphTypes /\ RedisHas
  BY DEF GraphInv
<1>2. \A e \in recorded : e \in Edge /\ e.ts \in Nat /\ (minute - Window <= e.ts => e.ts > minute - Window)
  BY <1>1, EdgeFields, GraphNumbers DEF GraphTypes
<1>3. /\ HoldsRecent(inbound[a], inUntil[a], {e \in recorded : e.receiver = a})
      /\ HoldsRecent(outbound[a], outUntil[a], {e \in recorded : e.sender = a})
  BY <1>1 DEF RedisHas
<1>4. minute \in Nat /\ Window \in Nat
  BY <1>1, GraphNumbers DEF GraphTypes
<1>5. Inbound(a, FALSE) = in /\ Outbound(a, FALSE) = out
  BY <1>2, <1>3, <1>4 DEF HoldsRecent, Inbound, Outbound, InOrder, Recent
<1>6. in \in SUBSET Edge /\ out \in SUBSET Edge /\ IsFiniteSet(in) /\ IsFiniteSet(out)
  <2>1. in \subseteq recorded /\ out \subseteq recorded
    BY DEF Recent
  <2> QED BY <1>1, <2>1, FS_Subset DEF GraphTypes
<1>7. FanIn(a, FALSE) >= 3
  BY <1>5 DEF FanIn
<1>8. in # {}
  <2> SUFFICES ASSUME in = {} PROVE FALSE
    OBVIOUS
  <2>1. {e.sender : e \in in} = {}
    OBVIOUS
  <2>2. Cardinality({e.sender : e \in in}) = 0
    BY <2>1, FS_EmptySet
  <2> QED BY <2>2
<1> HIDE DEF in, out
<1>9. Sum(in) \in Nat /\ Sum(in) > 0 /\ Sum(out) \in Nat
  BY <1>6, <1>8, SumIs
<1>10. PassThrough(a, FALSE) >= 80
  <2>1. PassThrough(a, FALSE) = (100 * Sum(out)) \div Sum(in)
    <3>1. Sum(Inbound(a, FALSE)) = Sum(in) /\ Sum(Outbound(a, FALSE)) = Sum(out)
      BY <1>5
    <3> DEFINE paid == Sum(in)
               sent == Sum(out)
    <3>2. PassThrough(a, FALSE) = IF paid = 0 THEN 0 ELSE (100 * sent) \div paid
      BY <3>1 DEF PassThrough
    <3>3. paid # 0
      BY <1>9
    <3> HIDE DEF paid, sent
    <3>4. PassThrough(a, FALSE) = (100 * sent) \div paid
      BY <3>2, <3>3
    <3> QED BY <3>4 DEF paid, sent
  <2>2. 100 * Sum(out) >= 80 * Sum(in)
    BY DEF in, out
  <2>3. 100 * Sum(out) \in Int /\ Sum(in) \in Nat \ {0} /\ 80 \in Int
    BY <1>9
  <2>4. (100 * Sum(out)) \div Sum(in) >= 80 <=> 100 * Sum(out) >= 80 * Sum(in)
    BY <2>3, Quotient
  <2> QED BY <2>1, <2>2, <2>4
<1> QED BY <1>7, <1>10 DEF FiresOnGraph, SenderFeatures

\* Both stores of transfers and what is recorded keep their types.
THEOREM GraphTypeCorrect == GraphSpec => []GraphTypeOK
<1>1. GraphInv => GraphTypeOK
  BY GraphNumbers DEF GraphInv, GraphTypes, GraphTypeOK
<1> QED BY <1>1, GraphInvariant, PTL

\* While every call of Redis succeeds, whoever got money from three others within
\* the window and has sent four fifths of it on meets the mule rule
\* (MoneyMuleRule), however many transfers there are and whenever they come.
THEOREM MulesAreFound == GraphSpec => []MulesAreSeen
<1> QED BY MuleSeen, GraphInvariant, PTL

-----------------------------------------------------------------------------
(***************************************************************************)
(* The two scores, for any signals and payments                            *)
(***************************************************************************)

Flags  == Given \cup Network
Taken == [amount : Amounts3, hour : -1..23]

SignalInv ==
    /\ signals \subseteq Flags /\ DOMAIN server \subseteq Network
    /\ sequence \in Seq(Taken)

LEMMA ScoredFields ==
    ASSUME NEW e \in Taken PROVE e.amount \in Nat /\ e.amount \in Amounts3 /\ e.hour \in Int /\ e.hour >= -1
<1>1. e.amount \in Amounts3 /\ e.hour \in -1..23
  BY DEF Taken
<1>2. e.amount \in Nat
  BY <1>1, SignalConstants
<1> QED BY <1>1, <1>2

LEMMA WeightIs == ASSUME NEW x \in Flags PROVE Weight(x) \in Nat
BY DEF Weight, Flags, Given, Network

LEMMA FlagsFinite == IsFiniteSet(Flags)
<1>1. IsFiniteSet({"slow mouse", "fast form", "paste", "tabs", "short dwell", "tor", "vpn", "proxy"})
  <2>1. IsFiniteSet({}) /\ IsFiniteSet({"slow mouse"})
    BY FS_EmptySet, FS_Singleton
  <2>2. IsFiniteSet({"slow mouse"} \cup {"fast form"})
    BY <2>1, FS_AddElement
  <2>3. IsFiniteSet(({"slow mouse"} \cup {"fast form"}) \cup {"paste"})
    BY <2>2, FS_AddElement
  <2>4. IsFiniteSet((({"slow mouse"} \cup {"fast form"}) \cup {"paste"}) \cup {"tabs"})
    BY <2>3, FS_AddElement
  <2>5. IsFiniteSet(((({"slow mouse"} \cup {"fast form"}) \cup {"paste"}) \cup {"tabs"}) \cup {"short dwell"})
    BY <2>4, FS_AddElement
  <2> DEFINE F == (((({"slow mouse"} \cup {"fast form"}) \cup {"paste"}) \cup {"tabs"}) \cup {"short dwell"})
  <2>6. IsFiniteSet(F \cup {"tor"})
    <3> HIDE DEF F
    <3>1. IsFiniteSet(F)
      BY <2>5 DEF F
    <3> QED BY <3>1, FS_AddElement
  <2>7. IsFiniteSet((F \cup {"tor"}) \cup {"vpn"})
    <3> HIDE DEF F
    <3> QED BY <2>6, FS_AddElement
  <2>8. IsFiniteSet(((F \cup {"tor"}) \cup {"vpn"}) \cup {"proxy"})
    <3> HIDE DEF F
    <3> QED BY <2>7, FS_AddElement
  <2>9. ((F \cup {"tor"}) \cup {"vpn"}) \cup {"proxy"} = {"slow mouse", "fast form", "paste", "tabs", "short dwell", "tor", "vpn", "proxy"}
    OBVIOUS
  <2> QED BY <2>8, <2>9
<1>2. Flags = {"slow mouse", "fast form", "paste", "tabs", "short dwell", "tor", "vpn", "proxy"}
  BY DEF Flags, Given, Network
<1> QED BY <1>1, <1>2

LEMMA SignalStarts == SignalInit => SignalInv
<1> SUFFICES ASSUME SignalInit PROVE SignalInv
  OBVIOUS
<1>1. signals = {} /\ server = <<>> /\ sequence = <<>>
  BY DEF SignalInit
<1>2. DOMAIN server = {}
  BY <1>1
<1>3. sequence \in Seq(Taken)
  BY <1>1
<1> QED BY <1>1, <1>2, <1>3 DEF SignalInv

LEMMA SignalKeeps == SignalInv /\ [SignalNext]_signalVars => SignalInv'
<1> SUFFICES ASSUME SignalInv, [SignalNext]_signalVars PROVE SignalInv'
  OBVIOUS
<1>1. ASSUME NEW x \in Amounts3, NEW h \in Hours, ScorePayment(x, h) PROVE SignalInv'
  <2> DEFINE entry == [amount |-> x, hour |-> EnteredHour(h)]
  <2>1. entry \in Taken
    <3>1. EnteredHour(h) \in -1..23
      BY SignalConstants DEF EnteredHour
    <3> QED BY <3>1 DEF Taken
  <2>2. /\ sequence' = IF Len(sequence) = MaxSequence THEN Append(Tail(sequence), entry) ELSE Append(sequence, entry)
        /\ signals' = signals /\ server' = server
    BY <1>1 DEF ScorePayment
  <2> HIDE DEF entry
  <2>3. sequence \in Seq(Taken) /\ MaxSequence \in Nat \ {0}
    BY SignalConstants DEF SignalInv
  <2>4. Len(sequence) = MaxSequence => Tail(sequence) \in Seq(Taken)
    BY <2>3
  <2>5. sequence' \in Seq(Taken)
    BY <2>1, <2>2, <2>3, <2>4
  <2> QED BY <2>2, <2>5 DEF SignalInv
<1>2. ASSUME NEW flag \in Given \cup Network, Signal(flag) PROVE SignalInv'
  BY <1>2 DEF Signal, SignalInv, Flags
<1>3. ASSUME NEW n \in Network \ {"vpn"}, NEW says \in BOOLEAN, Observe(n, says) PROVE SignalInv'
  <2>1. server' = [m \in DOMAIN server \cup {n} |-> IF m = n THEN says ELSE server[m]]
        /\ signals' = signals /\ sequence' = sequence
    BY <1>3 DEF Observe
  <2>2. DOMAIN server' = DOMAIN server \cup {n}
    BY <2>1
  <2> QED BY <2>1, <2>2 DEF SignalInv
<1>4. ASSUME NEW kind \in {"wrong", "right"}, NEW a \in Ages, Sign(kind, a) PROVE SignalInv'
  BY <1>4 DEF Sign, SignalInv
<1>5. CASE UNCHANGED signalVars
  BY <1>5 DEF signalVars, SignalInv
<1>6. CASE Speak
  BY <1>6 DEF Speak, SignalInv
<1> QED BY <1>1, <1>2, <1>3, <1>4, <1>5, <1>6 DEF SignalNext
-----------------------------------------------------------------------------
\* The risk of what is given, as a sum.
LEMMA RawIs ==
    ASSUME NEW given \in SUBSET Flags
    PROVE  RawRisk(given) = SumOf([x \in Flags |-> Weight(x)], given) /\ IsFiniteSet(given)
<1> DEFINE f == [x \in Flags |-> Weight(x)]
           IsIt(g) == g = [s \in SUBSET given |-> IF s = {} THEN 0 ELSE Weight(AnyOf(s)) + g[s \ {AnyOf(s)}]]
<1>0. IsFiniteSet(given)
  BY FlagsFinite, FS_Subset
<1>1. f \in [Flags -> Int] /\ \A e \in Flags : f[e] = Weight(e)
  BY WeightIs
<1>2. ASSUME NEW g PROVE IsSum(g, f, given) <=> IsIt(g)
  <2>1. \A s \in SUBSET given : s # {} => f[AnyOf(s)] = Weight(AnyOf(s))
    BY FirstIn
  <2> HIDE DEF f
  <2> QED BY <2>1 DEF IsSum
<1>3. PICK g : IsSum(g, f, given)
  <2> HIDE DEF f, IsIt
  <2> QED BY <1>0, <1>1, SumExists
<1>4. \E h : IsIt(h)
  BY <1>2, <1>3
<1>5. \E h : IsIt(h) /\ RawRisk(given) = h[given]
  BY <1>4, ZenonT(30) DEF RawRisk, MapThenSumSet, MapThenFoldSet, AnyOf
<1> HIDE DEF f, IsIt
<1>6. PICK h : IsIt(h) /\ RawRisk(given) = h[given]
  BY <1>5
<1>7. IsSum(h, f, given)
  BY <1>2, <1>6
<1>8. SumOf(f, given) = h[given]
  BY <1>0, <1>1, <1>7, SumUnfolds
<1> QED BY <1>0, <1>6, <1>8 DEF f

\* More flags are no less risk.
LEMMA RawGrows ==
    ASSUME NEW given \in SUBSET Flags, NEW part \in SUBSET given
    PROVE  RawRisk(part) \in Nat /\ RawRisk(given) \in Nat /\ RawRisk(part) <= RawRisk(given)
<1> DEFINE f == [x \in Flags |-> Weight(x)]
<1>1. f \in [Flags -> Int] /\ \A x \in Flags : 0 <= f[x]
  BY WeightIs
<1>2. IsFiniteSet(given) /\ RawRisk(given) = SumOf(f, given)
  BY RawIs
<1>3. IsFiniteSet(part) /\ RawRisk(part) = SumOf(f, part) /\ part \in SUBSET Flags
  BY RawIs
<1> HIDE DEF f
<1>4. SumOf(f, part) <= SumOf(f, given)
  BY <1>1, <1>2, SumGrows
<1>5. SumOf(f, part) \in Int /\ SumOf(f, given) \in Int
  BY <1>1, <1>2, <1>3, SumInt
<1>6. 0 <= SumOf(f, part) /\ 0 <= SumOf(f, given)
  BY <1>1, <1>2, <1>3, SumNonneg
<1> QED BY <1>2, <1>3, <1>4, <1>5, <1>6

LEMMA MergedIn == ASSUME SignalInv, NEW given \in SUBSET Flags PROVE Merged(given) \in SUBSET Flags
BY DEF Merged, SignalInv, Flags

LEMMA RiskIs ==
    ASSUME NEW given \in SUBSET Flags, NEW verified \in BOOLEAN
    PROVE  Risk(given, verified)
              = IF ~heard THEN 0
                ELSE IF (IF verified THEN 2 * RawRisk(Merged(given)) ELSE RawRisk(Merged(given))) > 200 THEN 200
                     ELSE (IF verified THEN 2 * RawRisk(Merged(given)) ELSE RawRisk(Merged(given)))
BY DEF Risk, Clipped

LEMMA Monotone == SignalInv => RiskIsMonotone
<1> SUFFICES ASSUME SignalInv, heard PROVE RiskIsMonotone
  <2>1. ~heard => Risk(signals, Verified) = 0
    BY DEF Risk
  <2> QED BY <2>1 DEF RiskIsMonotone
<1>0. signals \in SUBSET Flags
  BY DEF SignalInv
<1> DEFINE raw == RawRisk(Merged(signals))
<1>1. raw \in Nat
  BY <1>0, MergedIn, RawGrows
<1>2. ASSUME NEW flag \in Given \cup Network, NEW verified \in BOOLEAN
      PROVE  Risk(signals, verified) <= Risk(signals \cup {flag}, verified)
  <2>1. signals \cup {flag} \in SUBSET Flags /\ signals \cup {flag} # {}
    BY <1>0 DEF Flags
  <2> DEFINE all == RawRisk(Merged(signals \cup {flag}))
  <2>2. Merged(signals) \in SUBSET Merged(signals \cup {flag})
    BY DEF Merged
  <2>3. Merged(signals \cup {flag}) \in SUBSET Flags
    BY <2>1, MergedIn
  <2>4. all \in Nat /\ raw <= all
    BY <2>2, <2>3, RawGrows
  <2>5. /\ Risk(signals, verified) = IF (IF verified THEN 2 * raw ELSE raw) > 200 THEN 200 ELSE (IF verified THEN 2 * raw ELSE raw)
        /\ Risk(signals \cup {flag}, verified) = IF (IF verified THEN 2 * all ELSE all) > 200 THEN 200 ELSE (IF verified THEN 2 * all ELSE all)
    BY <1>0, <2>1, RiskIs
  <2> DEFINE k == Risk(signals, verified)
             m == Risk(signals \cup {flag}, verified)
  <2>6. CASE verified
    <3>1. (k = IF 2 * raw > 200 THEN 200 ELSE 2 * raw) /\ (m = IF 2 * all > 200 THEN 200 ELSE 2 * all)
      <4> HIDE DEF raw, all
      <4> QED BY <2>5, <2>6, Zenon
    <3> HIDE DEF raw, all, k, m
    <3>2. k <= m
      BY <1>1, <2>4, <3>1
    <3> QED BY <3>2 DEF k, m
  <2>7. CASE ~verified
    <3>1. (k = IF raw > 200 THEN 200 ELSE raw) /\ (m = IF all > 200 THEN 200 ELSE all)
      <4> HIDE DEF raw, all
      <4> QED BY <2>5, <2>7, Zenon
    <3> HIDE DEF raw, all, k, m
    <3>2. k <= m
      BY <1>1, <2>4, <3>1
    <3> QED BY <3>2 DEF k, m
  <2> QED BY <2>6, <2>7
<1>3. Risk(signals, FALSE) <= Risk(signals, TRUE) /\ Risk(signals, TRUE) <= 2 * Risk(signals, FALSE)
  <2> DEFINE k == Risk(signals, FALSE)
             m == Risk(signals, TRUE)
  <2>1. k = IF raw > 200 THEN 200 ELSE raw
    BY <1>0, RiskIs
  <2>2. m = IF 2 * raw > 200 THEN 200 ELSE 2 * raw
    BY <1>0, RiskIs
  <2> HIDE DEF raw, k, m
  <2>3. k <= m /\ m <= 2 * k
    BY <1>1, <2>1, <2>2
  <2> QED BY <2>3 DEF k, m
<1>4. ASSUME NEW n \in DOMAIN server
      PROVE  Risk(signals \cup {n}, Verified) = Risk(signals \ {n}, Verified)
  <2>1. Merged(signals \cup {n}) = Merged(signals \ {n})
    BY DEF Merged
  <2> QED BY <2>1 DEF Risk
<1>5. Clipped(RawRisk({n \in DOMAIN server : server[n]}), 200) <= Risk(signals, Verified)
  <2> DEFINE saw  == {n \in DOMAIN server : server[n]}
             base == RawRisk(saw)
             m    == Risk(signals, Verified)
  <2>1. saw \in SUBSET Merged(signals) /\ Merged(signals) \in SUBSET Flags
    BY <1>0, MergedIn DEF Merged
  <2>2. base \in Nat /\ base <= raw
    <3> HIDE DEF saw
    <3> QED BY <2>1, RawGrows
  <2>3. Verified \in BOOLEAN
    BY DEF Verified
  <2>4. m = IF (IF Verified THEN 2 * raw ELSE raw) > 200 THEN 200 ELSE (IF Verified THEN 2 * raw ELSE raw)
    BY <1>0, <2>3, RiskIs
  <2>5. Clipped(base, 200) = IF base > 200 THEN 200 ELSE base
    BY DEF Clipped
  <2> DEFINE c == Clipped(base, 200)
  <2>6. c = IF base > 200 THEN 200 ELSE base
    BY <2>5
  <2> HIDE DEF base, m, c, raw
  <2>7. c <= m
    <3>1. CASE Verified
      BY <1>1, <2>2, <2>4, <2>6, <3>1
    <3>2. CASE ~Verified
      BY <1>1, <2>2, <2>4, <2>6, <3>2
    <3> QED BY <3>1, <3>2
  <2> QED BY <2>7 DEF c, base, m
<1> QED BY <1>2, <1>3, <1>4, <1>5 DEF RiskIsMonotone

-----------------------------------------------------------------------------
\* The amounts of the history added up, and their squares.
LEMMA AddedIs ==
    ASSUME sequence \in Seq(Taken)
    PROVE  /\ IsFiniteSet(DOMAIN sequence)
           /\ Added = SumOf([i \in DOMAIN sequence |-> sequence[i].amount], DOMAIN sequence)
           /\ Squared = SumOf([i \in DOMAIN sequence |-> sequence[i].amount * sequence[i].amount], DOMAIN sequence)
<1> DEFINE D == DOMAIN sequence
           f == [i \in D |-> sequence[i].amount]
           q == [i \in D |-> sequence[i].amount * sequence[i].amount]
           IsIt(g) == g = [s \in SUBSET D |-> IF s = {} THEN 0 ELSE sequence[AnyOf(s)].amount + g[s \ {AnyOf(s)}]]
           IsSq(g) == g = [s \in SUBSET D |-> IF s = {} THEN 0 ELSE sequence[AnyOf(s)].amount * sequence[AnyOf(s)].amount
                                                                   + g[s \ {AnyOf(s)}]]
<1>0. IsFiniteSet(D)
  <2>1. D = 1..Len(sequence) /\ Len(sequence) \in Nat
    OBVIOUS
  <2>2. IsFiniteSet(1..Len(sequence))
    BY <2>1, FS_Interval
  <2> QED BY <2>1, <2>2
<1>1. /\ f \in [D -> Int] /\ \A i \in D : f[i] = sequence[i].amount
      /\ q \in [D -> Int] /\ \A i \in D : q[i] = sequence[i].amount * sequence[i].amount
  <2>1. \A i \in D : sequence[i] \in Taken
    BY SeqHas
  <2>2. \A i \in D : sequence[i].amount \in Nat
    BY <2>1, ScoredFields
  <2>3. \A i \in D : sequence[i].amount * sequence[i].amount \in Int
    BY <2>2
  <2> QED BY <2>2, <2>3
<1>2. ASSUME NEW g PROVE (IsSum(g, f, D) <=> IsIt(g)) /\ (IsSum(g, q, D) <=> IsSq(g))
  <2>1. \A s \in SUBSET D : s # {} =>
           /\ f[AnyOf(s)] = sequence[AnyOf(s)].amount
           /\ q[AnyOf(s)] = sequence[AnyOf(s)].amount * sequence[AnyOf(s)].amount
    BY FirstIn
  <2> HIDE DEF f, q, D
  <2> QED BY <2>1, Zenon DEF IsSum
<1> HIDE DEF f, q
<1>3. (\E g : IsIt(g)) /\ (\E g : IsSq(g))
  <2>1. (\E g : IsSum(g, f, D)) /\ (\E g : IsSum(g, q, D))
    <3> HIDE DEF IsIt, IsSq, D
    <3> QED BY <1>0, <1>1, SumExists
  <2> HIDE DEF IsIt, IsSq, D
  <2> QED BY <1>2, <2>1
<1>4. \E h : IsIt(h) /\ Added = h[D]
  BY <1>3, ZenonT(30) DEF Added, MapThenSumSet, MapThenFoldSet, AnyOf
<1>5. \E h : IsSq(h) /\ Squared = h[D]
  BY <1>3, ZenonT(30) DEF Squared, MapThenSumSet, MapThenFoldSet, AnyOf
<1> HIDE DEF IsIt, IsSq, D
<1>6. PICK h : IsIt(h) /\ Added = h[D]
  BY <1>4
<1>7. PICK k : IsSq(k) /\ Squared = k[D]
  BY <1>5
<1>8. IsSum(h, f, D) /\ IsSum(k, q, D)
  BY <1>2, <1>6, <1>7
<1>9. SumOf(f, D) = h[D] /\ SumOf(q, D) = k[D]
  <2>1. D \in SUBSET D /\ f \in [D -> Int] /\ q \in [D -> Int]
    BY <1>1
  <2>2. SumOf(f, D) = h[D]
    BY <1>0, <1>8, <2>1, SumUnfolds
  <2>3. SumOf(q, D) = k[D]
    BY <1>0, <1>8, <2>1, SumUnfolds
  <2> QED BY <2>2, <2>3
<1> QED BY <1>0, <1>6, <1>7, <1>9 DEF D, f, q

LEMMA AddedInt == ASSUME sequence \in Seq(Taken) PROVE Added \in Int /\ Squared \in Int
<1> DEFINE D == DOMAIN sequence
           f == [i \in D |-> sequence[i].amount]
           q == [i \in D |-> sequence[i].amount * sequence[i].amount]
<1>1. f \in [D -> Int] /\ q \in [D -> Int]
  <2>1. \A i \in D : sequence[i] \in Taken
    BY SeqHas
  <2>2. \A i \in D : sequence[i].amount \in Nat
    BY <2>1, ScoredFields
  <2>3. \A i \in D : sequence[i].amount * sequence[i].amount \in Int
    BY <2>2
  <2> QED BY <2>2, <2>3
<1>2. IsFiniteSet(D) /\ Added = SumOf(f, D) /\ Squared = SumOf(q, D)
  BY AddedIs
<1> HIDE DEF f, q, D
<1>3. D \in SUBSET D
  OBVIOUS
<1>4. SumOf(f, D) \in Int /\ SumOf(q, D) \in Int
  BY <1>1, <1>2, <1>3, SumInt
<1> QED BY <1>2, <1>4

\* The greatest number of deviations, of at most four, that an amount is off.
LEMMA AmountZIs ==
    ASSUME NEW x
    PROVE  AmountZ(x) \in 0..4 /\ (AmountZ(x) = 0 \/ AtLeast(x, AmountZ(x)))
<1> DEFINE Fits(k) == (k = 0 \/ AtLeast(x, k)) /\ (k = 4 \/ ~AtLeast(x, k + 1))
<1>1. \E k \in 0..4 : Fits(k)
  <2>1. CASE AtLeast(x, 4)
    <3>1. 4 \in 0..4 /\ Fits(4)
      BY <2>1
    <3> QED BY <3>1
  <2>2. CASE ~AtLeast(x, 4) /\ AtLeast(x, 3)
    <3>1. 3 \in 0..4 /\ 3 + 1 = 4
      OBVIOUS
    <3> QED BY <2>2, <3>1
  <2>3. CASE ~AtLeast(x, 3) /\ AtLeast(x, 2)
    <3>1. 2 \in 0..4 /\ 2 + 1 = 3
      OBVIOUS
    <3> QED BY <2>3, <3>1
  <2>4. CASE ~AtLeast(x, 2) /\ AtLeast(x, 1)
    <3>1. 1 \in 0..4 /\ 1 + 1 = 2
      OBVIOUS
    <3> QED BY <2>4, <3>1
  <2>5. CASE ~AtLeast(x, 1)
    <3>1. 0 \in 0..4 /\ 0 + 1 = 1
      OBVIOUS
    <3> QED BY <2>5, <3>1
  <2> QED BY <2>1, <2>2, <2>3, <2>4, <2>5
<1>2. AmountZ(x) = CHOOSE k \in 0..4 : Fits(k)
  BY DEF AmountZ
<1>3. AmountZ(x) \in 0..4 /\ Fits(AmountZ(x))
  BY <1>1, <1>2, Zenon
<1> QED BY <1>3

LEMMA HourIs ==
    ASSUME sequence \in Seq(Taken), NEW h \in Int
    PROVE  HourAnomaly(h) \in Int /\ HourAnomaly(h) <= 100
<1> DEFINE valid == {i \in 1..Len(sequence) : sequence[i].hour >= 0}
           same  == {i \in valid : sequence[i].hour = h}
<1>1. HourAnomaly(h) = IF h < 0 \/ valid = {} THEN 0 ELSE 100 - (100 * Cardinality(same)) \div Cardinality(valid)
  BY DEF HourAnomaly
<1>2. IsFiniteSet(1..Len(sequence))
  <2>1. Len(sequence) \in Nat
    OBVIOUS
  <2> QED BY <2>1, FS_Interval
<1>3. valid \subseteq 1..Len(sequence) /\ same \subseteq 1..Len(sequence)
  OBVIOUS
<1> HIDE DEF valid, same
<1>4. IsFiniteSet(valid) /\ IsFiniteSet(same)
  BY <1>2, <1>3, FS_Subset
<1>5. Cardinality(valid) \in Nat /\ Cardinality(same) \in Nat /\ (valid # {} => Cardinality(valid) # 0)
  BY <1>4, FS_CardinalityType, FS_EmptySet
<1>6. CASE h < 0 \/ valid = {}
  BY <1>1, <1>6
<1>7. CASE ~(h < 0 \/ valid = {})
  <2> DEFINE a == 100 * Cardinality(same)
             d == Cardinality(valid)
             z == a \div d
  <2>1. a \in Nat /\ d \in Nat \ {0}
    BY <1>5, <1>7
  <2>2. z \in Int /\ z >= 0
    <3> HIDE DEF a, d
    <3>1. a \div d \in Int /\ (a \div d >= 0 <=> a >= 0 * d)
      BY <2>1, Quotient
    <3>2. a >= 0 * d
      BY <2>1
    <3> QED BY <3>1, <3>2
  <2>3. HourAnomaly(h) = 100 - z
    BY <1>1, <1>7
  <2> HIDE DEF z
  <2> QED BY <2>2, <2>3
<1> QED BY <1>6, <1>7

\* All payments are the same: none is off, whatever its hour.
LEMMA SameIsQuiet ==
    ASSUME sequence \in Seq(Taken), NEW a \in Nat, \A i \in 1..Len(sequence) : sequence[i].amount = a, NEW x
    PROVE  AmountZ(x) = 0
<1> DEFINE D == DOMAIN sequence
           n == Len(sequence)
<1>1. D = 1..n /\ n \in Nat
  OBVIOUS
<1>2. a \in Int /\ a * a \in Int
  OBVIOUS
<1>3. /\ [i \in D |-> sequence[i].amount] = [i \in D |-> a]
      /\ [i \in D |-> sequence[i].amount * sequence[i].amount] = [i \in D |-> a * a]
  BY <1>1
<1>4. IsFiniteSet(D) /\ Added = SumOf([i \in D |-> a], D) /\ Squared = SumOf([i \in D |-> a * a], D)
  BY <1>3, AddedIs
<1>5. Cardinality(D) = n
  <2>1. Cardinality(1..n) = n
    <3>1. 1 \in Int /\ n \in Int
      BY <1>1
    <3>2. Cardinality(1..n) = IF 1 > n THEN 0 ELSE n - 1 + 1
      BY <3>1, FS_Interval
    <3> QED BY <1>1, <3>2
  <2> QED BY <1>1, <2>1
<1>6. Added = a * n /\ Squared = (a * a) * n
  <2> HIDE DEF D, n
  <2>1. D \in SUBSET D
    OBVIOUS
  <2>2. SumOf([i \in D |-> a], D) = a * Cardinality(D)
    BY <1>2, <1>4, <2>1, SumConstant
  <2>3. SumOf([i \in D |-> a * a], D) = (a * a) * Cardinality(D)
    <3> DEFINE c == a * a
    <3>1. c \in Int
      BY <1>2
    <3> HIDE DEF c
    <3>2. SumOf([i \in D |-> c], D) = c * Cardinality(D)
      BY <1>4, <2>1, <3>1, SumConstant
    <3> QED BY <3>2 DEF c
  <2> QED BY <1>4, <1>5, <2>2, <2>3
<1>7. n * Squared - Added * Added = 0
  <2> HIDE DEF n
  <2>1. n * ((a * a) * n) = (a * n) * (a * n)
    BY <1>1
  <2>2. (a * n) * (a * n) \in Int
    BY <1>1
  <2> QED BY <1>6, <2>1, <2>2
<1>8. \A k : ~AtLeast(x, k)
  <2>1. ~(n * Squared - Added * Added > 0)
    BY <1>7
  <2> QED BY <2>1 DEF AtLeast
<1> QED BY <1>8, AmountZIs

LEMMA ScoreIs ==
    ASSUME sequence \in Seq(Taken), NEW x, NEW h \in Int, ~Cold
    PROVE  /\ SequenceScore(x, h) = (70 * AmountZ(x)) \div 4 + (30 * HourAnomaly(EnteredHour(h))) \div 100
           /\ (70 * AmountZ(x)) \div 4 \in 0..70 /\ (30 * HourAnomaly(EnteredHour(h))) \div 100 <= 30
           /\ (30 * HourAnomaly(EnteredHour(h))) \div 100 \in Int
<1>1. SequenceScore(x, h) = (70 * AmountZ(x)) \div 4 + (30 * HourAnomaly(EnteredHour(h))) \div 100
  BY DEF SequenceScore
<1>2. AmountZ(x) \in 0..4
  BY AmountZIs
<1>3. (70 * AmountZ(x)) \div 4 \in 0..70
  <2> DEFINE k == AmountZ(x)
  <2>1. k \in 0..4
    BY <1>2
  <2> HIDE DEF k
  <2>2. (70 * k) \div 4 \in 0..70
    BY <2>1
  <2> QED BY <2>2 DEF k
<1>4. EnteredHour(h) \in Int
  BY DEF EnteredHour
<1> DEFINE m == HourAnomaly(EnteredHour(h))
<1>5. m \in Int /\ m <= 100
  BY <1>4, HourIs
<1> HIDE DEF m
<1>6. (30 * m) \div 100 <= 30 /\ (30 * m) \div 100 \in Int
  BY <1>5
<1> QED BY <1>1, <1>3, <1>6 DEF m

LEMMA HabitQuiet == SignalInv => HabitIsQuiet
<1> SUFFICES ASSUME SignalInv, ~Cold PROVE HabitIsQuiet
  BY DEF HabitIsQuiet
<1>0. sequence \in Seq(Taken)
  BY DEF SignalInv
<1>h. \A h \in Hours : h \in Int
  BY SignalConstants
<1>1. ASSUME NEW p \in Payments, \A i \in 1..Len(sequence) : sequence[i] = p
      PROVE  SequenceScore(p.amount, p.hour) = 0
  <2>1. p.amount \in Nat /\ p.hour \in Int
    <3>1. p.amount \in Amounts3 /\ p.hour \in Hours \cup {-1}
      BY DEF Payments
    <3>2. p.amount \in Nat
      BY <3>1, SignalConstants
    <3>3. p.hour \in Int
      BY <1>h, <3>1
    <3> QED BY <3>2, <3>3
  <2>2. AmountZ(p.amount) = 0
    <3>1. \A i \in 1..Len(sequence) : sequence[i].amount = p.amount
      BY <1>1
    <3> QED BY <1>0, <2>1, <3>1, SameIsQuiet
  <2>3. HourAnomaly(EnteredHour(p.hour)) = 0
    <3> DEFINE h == EnteredHour(p.hour)
               valid == {i \in 1..Len(sequence) : sequence[i].hour >= 0}
               same  == {i \in valid : sequence[i].hour = h}
    <3>1. HourAnomaly(h) = IF h < 0 \/ valid = {} THEN 0 ELSE 100 - (100 * Cardinality(same)) \div Cardinality(valid)
      BY DEF HourAnomaly
    <3>2. CASE h < 0 \/ valid = {}
      BY <3>1, <3>2
    <3>3. CASE ~(h < 0 \/ valid = {})
      <4>1. h = p.hour
        BY <2>1, <3>3 DEF EnteredHour
      <4>2. same = valid
        BY <1>1, <4>1
      <4>3. IsFiniteSet(valid) /\ valid # {}
        <5>1. Len(sequence) \in Nat
          BY <1>0
        <5>2. IsFiniteSet(1..Len(sequence))
          BY <5>1, FS_Interval
        <5>3. valid \subseteq 1..Len(sequence)
          OBVIOUS
        <5> HIDE DEF valid
        <5> QED BY <3>3, <5>2, <5>3, FS_Subset
      <4> DEFINE d == Cardinality(valid)
      <4>4. d \in Nat \ {0}
        <5> HIDE DEF valid
        <5> QED BY <4>3, FS_CardinalityType, FS_EmptySet
      <4>5. HourAnomaly(h) = 100 - (100 * d) \div d
        BY <3>1, <3>3, <4>2
      <4> HIDE DEF d
      <4>6. (100 * d) \div d = 100
        <5> DEFINE a == 100 * d
        <5>1. a \in Int
          BY <4>4
        <5>2. (a \div d >= 100 <=> a >= 100 * d) /\ (a \div d >= 101 <=> a >= 101 * d) /\ a \div d \in Int
          <6> HIDE DEF a
          <6> QED BY <4>4, <5>1, Quotient
        <5>3. a >= 100 * d /\ ~(a >= 101 * d)
          BY <4>4
        <5> DEFINE z == a \div d
        <5>4. z \in Int /\ z >= 100 /\ ~(z >= 101)
          BY <5>2, <5>3
        <5> HIDE DEF z
        <5>5. z = 100
          BY <5>4
        <5> QED BY <5>5 DEF z, a
      <4> QED BY <4>5, <4>6
    <3> QED BY <3>2, <3>3
  <2>4. SequenceScore(p.amount, p.hour) = (70 * 0) \div 4 + (30 * 0) \div 100
    BY <1>0, <2>1, <2>2, <2>3, ScoreIs
  <2> QED BY <2>4
<1>2. ASSUME NEW x \in Amounts3, NEW h \in Hours \ {-1, 0}, \A i \in 1..Len(sequence) : sequence[i].hour # h,
             NEW j \in 1..Len(sequence), sequence[j].hour # -1
      PROVE  SequenceScore(x, h) >= 30
  <2>1. h \in Int /\ EnteredHour(h) = h /\ ~(h < 0)
    BY SignalConstants DEF EnteredHour
  <2> DEFINE valid == {i \in 1..Len(sequence) : sequence[i].hour >= 0}
             same  == {i \in valid : sequence[i].hour = h}
  <2>2. HourAnomaly(h) = IF h < 0 \/ valid = {} THEN 0 ELSE 100 - (100 * Cardinality(same)) \div Cardinality(valid)
    BY DEF HourAnomaly
  <2>3. same = {} /\ valid # {}
    <3>1. sequence[j].hour \in Int /\ sequence[j].hour >= -1
      <4>1. sequence[j] \in Taken
        BY <1>0
      <4> QED BY <4>1, ScoredFields
    <3>2. sequence[j].hour >= 0
      BY <1>2, <3>1
    <3>3. j \in valid
      BY <3>2
    <3> QED BY <1>2, <3>3
  <2>4. Cardinality(same) = 0
    BY <2>3, FS_EmptySet
  <2>5. IsFiniteSet(valid)
    <3>1. Len(sequence) \in Nat
      BY <1>0
    <3>2. IsFiniteSet(1..Len(sequence))
      BY <3>1, FS_Interval
    <3>3. valid \subseteq 1..Len(sequence)
      OBVIOUS
    <3> HIDE DEF valid
    <3> QED BY <3>2, <3>3, FS_Subset
  <2> DEFINE d == Cardinality(valid)
  <2>6. d \in Nat \ {0}
    <3>1. valid # {}
      BY <2>3
    <3> HIDE DEF valid
    <3> QED BY <2>5, <3>1, FS_CardinalityType, FS_EmptySet
  <2>7. HourAnomaly(h) = 100 - (100 * 0) \div d
    BY <2>1, <2>2, <2>3, <2>4
  <2> HIDE DEF d
  <2>8. (100 * 0) \div d = 0
    <3> DEFINE z == 0 \div d
    <3>1. z \in Int /\ (z >= 0 <=> 0 >= 0 * d) /\ (z >= 1 <=> 0 >= 1 * d)
      BY <2>6, Quotient
    <3>2. 0 >= 0 * d /\ ~(0 >= 1 * d)
      BY <2>6
    <3> HIDE DEF z
    <3>3. z = 0
      BY <3>1, <3>2
    <3>4. 100 * 0 = 0
      OBVIOUS
    <3> QED BY <3>3, <3>4 DEF z
  <2>9. HourAnomaly(EnteredHour(h)) = 100
    BY <2>1, <2>7, <2>8
  <2>10. /\ SequenceScore(x, h) = (70 * AmountZ(x)) \div 4 + (30 * 100) \div 100
         /\ (70 * AmountZ(x)) \div 4 \in 0..70
    BY <1>0, <2>1, <2>9, ScoreIs
  <2> DEFINE k == (70 * AmountZ(x)) \div 4
  <2>11. SequenceScore(x, h) = k + 30 /\ k \in Int /\ k >= 0
    <3>1. (30 * 100) \div 100 = 30
      OBVIOUS
    <3>2. SequenceScore(x, h) = k + 30 /\ k \in 0..70
      BY <2>10, <3>1
    <3> HIDE DEF k
    <3> QED BY <3>2
  <2> HIDE DEF k
  <2> QED BY <2>11
<1>3. ASSUME NEW x \in Amounts3, NEW h \in Hours PROVE SequenceScore(x, h) <= 100
  <2> DEFINE k == (70 * AmountZ(x)) \div 4
             m == (30 * HourAnomaly(EnteredHour(h))) \div 100
  <2>1. SequenceScore(x, h) = k + m /\ k \in 0..70 /\ m <= 30 /\ m \in Int
    BY <1>0, <1>h, ScoreIs
  <2> HIDE DEF k, m
  <2> QED BY <2>1
<1>4. ASSUME NEW x \in Amounts3, NEW h \in Hours \ {-1, 0}
      PROVE  (/\ \A i \in 1..Len(sequence) : sequence[i].hour # h
              /\ \E i \in 1..Len(sequence) : sequence[i].hour # -1) => SequenceScore(x, h) >= 30
  BY <1>2
<1> QED BY <1>1, <1>3, <1>4 DEF HabitIsQuiet

\* Whatever signals a client sends and whatever the server observes, and whatever
\* a user has paid and when, both scores mean what they say.
THEOREM ScoresHold == SignalSpec => []ScoresMeanIt
<1>1. SignalInv => ScoresMeanIt
  BY Monotone, HabitQuiet DEF ScoresMeanIt
<1> QED BY <1>1, SignalStarts, SignalKeeps, PTL DEF SignalSpec
-----------------------------------------------------------------------------
\* Signals, what is signed and how old it is keep their types, a sequence its
\* length, and no risk is above the whole.
LEMMA SignalTypes == SignalSpec => []SignalTypeOK
<1> DEFINE C == /\ heard \in BOOLEAN /\ signed \in {"none", "wrong", "right"} /\ age \in Ages \cup {0}
                /\ sequence \in Seq(Payments) /\ Len(sequence) <= MaxSequence /\ scoredSeq \in 0..MaxScored
<1>0. MaxScored \in Nat /\ MaxSequence \in Nat \ {0}
  BY SignalConstants
<1>1. ASSUME SignalInit PROVE C
  <2>1. heard \in BOOLEAN
    BY <1>1, Zenon DEF SignalInit
  <2>2. /\ signed \in {"none", "wrong", "right"} /\ age \in Ages \cup {0}
        /\ sequence \in Seq(Payments) /\ Len(sequence) <= MaxSequence /\ scoredSeq \in 0..MaxScored
    BY <1>0, <1>1 DEF SignalInit
  <2> QED BY <2>1, <2>2
<1>2. ASSUME C, [SignalNext]_signalVars PROVE C'
  <2>1. ASSUME NEW x \in Amounts3, NEW h \in Hours, ScorePayment(x, h) PROVE C'
    <3> DEFINE entry == [amount |-> x, hour |-> EnteredHour(h)]
    <3>1. entry \in Payments
      BY DEF Payments, EnteredHour
    <3>2. /\ scoredSeq < MaxScored /\ scoredSeq' = scoredSeq + 1 /\ heard' = heard /\ signed' = signed /\ age' = age
          /\ sequence' = IF Len(sequence) = MaxSequence THEN Append(Tail(sequence), entry)
                         ELSE Append(sequence, entry)
      BY <2>1 DEF ScorePayment
    <3> HIDE DEF entry
    <3>3. Len(sequence) \in Nat
      BY <1>2
    <3>4. CASE Len(sequence) = MaxSequence
      <4>1. Tail(sequence) \in Seq(Payments) /\ Len(Tail(sequence)) = Len(sequence) - 1
        BY <1>0, <1>2, <3>4
      <4>2. sequence' \in Seq(Payments) /\ Len(sequence') = Len(Tail(sequence)) + 1
        BY <3>1, <3>2, <3>4, <4>1
      <4> QED BY <1>0, <1>2, <3>2, <3>3, <3>4, <4>1, <4>2
    <3>5. CASE Len(sequence) # MaxSequence
      <4>1. sequence' \in Seq(Payments) /\ Len(sequence') = Len(sequence) + 1
        BY <1>2, <3>1, <3>2, <3>5
      <4> QED BY <1>0, <1>2, <3>2, <3>3, <3>5, <4>1
    <3> QED BY <3>4, <3>5
  <2>2. ASSUME NEW flag \in Given \cup Network, Signal(flag) PROVE C'
    BY <1>2, <2>2 DEF Signal
  <2>3. ASSUME NEW n \in Network \ {"vpn"}, NEW says \in BOOLEAN, Observe(n, says) PROVE C'
    BY <1>2, <2>3 DEF Observe
  <2>4. ASSUME NEW kind \in {"wrong", "right"}, NEW a \in Ages, Sign(kind, a) PROVE C'
    BY <1>2, <2>4 DEF Sign
  <2>5. CASE UNCHANGED signalVars
    BY <1>2, <2>5 DEF signalVars
  <2>6. CASE Speak
    BY <1>2, <2>6 DEF Speak
  <2> QED BY <1>2, <2>1, <2>2, <2>3, <2>4, <2>5, <2>6 DEF SignalNext
<1>3. ASSUME SignalInv, C PROVE SignalTypeOK
  <2>1. ASSUME NEW verified \in BOOLEAN PROVE Risk(signals, verified) \in 0..200
    <3> DEFINE raw == RawRisk(Merged(signals))
    <3>1. signals \in SUBSET Flags
      BY <1>3 DEF SignalInv
    <3>2. Merged(signals) \in SUBSET Flags
      BY <1>3, <3>1, MergedIn
    <3>3. raw \in Nat
      BY <3>2, RawGrows
    <3>4. Risk(signals, verified) = IF ~heard THEN 0
                                    ELSE IF (IF verified THEN 2 * raw ELSE raw) > 200 THEN 200
                                         ELSE (IF verified THEN 2 * raw ELSE raw)
      BY <3>1, RiskIs
    <3> HIDE DEF raw
    <3> QED BY <3>3, <3>4
  <2>2. signals \subseteq Given \cup Network
    BY <1>3 DEF SignalInv, Flags
  <2> QED BY <1>3, <2>1, <2>2 DEF SignalTypeOK, SignalInv
<1> QED BY <1>1, <1>2, <1>3, SignalStarts, SignalKeeps, PTL DEF SignalSpec

-----------------------------------------------------------------------------
(***************************************************************************)
(* The two stores of recent payments, for any limits and times             *)
(***************************************************************************)

LEMMA RecordFields == ASSUME NEW r \in TxRecord PROVE r.payment \in Payment /\ r.timestamp \in Int
BY DEF TxRecord

LEMMA RecordIs ==
    ASSUME NEW p \in Payment, NEW t \in Int
    PROVE  /\ [payment |-> p, timestamp |-> t] \in TxRecord
           /\ [payment |-> p, timestamp |-> t].timestamp = t
BY DEF TxRecord
-----------------------------------------------------------------------------
\* Where the search in a list goes next, and that it has an end: there is a
\* function that follows it over any distance.
Middle(lo, hi) == (lo + hi) \div 2
Next1(g, s, x, lo, hi) ==
    IF lo >= hi THEN lo
    ELSE IF s[Middle(lo, hi) + 1].timestamp < x THEN g[<<Middle(lo, hi) + 1, hi>>] ELSE g[<<lo, Middle(lo, hi)>>]
Follows(g, s, x, n) ==
    \A lo \in 0..Len(s), hi \in 0..Len(s) : hi - lo <= n => g[<<lo, hi>>] = Next1(g, s, x, lo, hi)

LEMMA MiddleIs ==
    ASSUME NEW lo \in Nat, NEW hi \in Nat, lo < hi
    PROVE  Middle(lo, hi) \in Nat /\ lo <= Middle(lo, hi) /\ Middle(lo, hi) < hi
BY DEF Middle

LEMMA SearchEnds ==
    ASSUME NEW s \in Seq(TxRecord), NEW x \in Int, NEW n \in Nat
    PROVE  \E g : Follows(g, s, x, n)
<1> DEFINE S == {k \in Nat : ~\E g : Follows(g, s, x, k)}
           L == Len(s)
<1>0. L \in Nat
  OBVIOUS
<1>1. ASSUME NEW k \in Nat, k = 0 \/ \E g : Follows(g, s, x, k - 1) PROVE \E g : Follows(g, s, x, k)
  <2>1. PICK g : k = 0 \/ Follows(g, s, x, k - 1)
    BY <1>1
  <2> DEFINE h == [p \in (0..L) \X (0..L) |-> Next1(g, s, x, p[1], p[2])]
  <2>2. ASSUME NEW lo \in 0..L, NEW hi \in 0..L PROVE h[<<lo, hi>>] = Next1(g, s, x, lo, hi)
    OBVIOUS
  <2> HIDE DEF h
  <2>3. ASSUME NEW lo \in 0..L, NEW hi \in 0..L, hi - lo <= k - 1, k # 0 PROVE h[<<lo, hi>>] = g[<<lo, hi>>]
    <3>1. g[<<lo, hi>>] = Next1(g, s, x, lo, hi)
      BY <2>1, <2>3 DEF Follows
    <3> QED BY <2>2, <3>1
  <2>4. ASSUME NEW lo \in 0..L, NEW hi \in 0..L, hi - lo <= k PROVE h[<<lo, hi>>] = Next1(h, s, x, lo, hi)
    <3>1. h[<<lo, hi>>] = Next1(g, s, x, lo, hi)
      BY <2>2
    <3>2. CASE lo >= hi
      BY <3>1, <3>2 DEF Next1
    <3>3. CASE ~(lo >= hi)
      <4> DEFINE m == Middle(lo, hi)
      <4>0. lo \in Nat /\ hi \in Nat /\ lo < hi
        BY <1>0, <3>3
      <4>1. m \in Nat /\ lo <= m /\ m < hi /\ lo \in Nat /\ hi \in Nat
        BY <4>0, MiddleIs
      <4> HIDE DEF m
      <4>2. m + 1 \in 0..L /\ m \in 0..L /\ hi - (m + 1) <= k - 1 /\ m - lo <= k - 1 /\ k # 0
        BY <1>0, <2>4, <4>1
      <4>3. h[<<m + 1, hi>>] = g[<<m + 1, hi>>] /\ h[<<lo, m>>] = g[<<lo, m>>]
        BY <2>3, <4>2
      <4> QED BY <3>1, <4>3 DEF Next1, m
    <3> QED BY <3>2, <3>3
  <2>5. Follows(h, s, x, k)
    BY <2>4 DEF Follows
  <2> QED BY <2>5
<1>2. ASSUME S # {} PROVE FALSE
  <2>1. S \in SUBSET Nat
    OBVIOUS
  <2>2. PICK k \in S : \A j \in S : k <= j
    <3> HIDE DEF S
    <3> QED BY <1>2, <2>1, LeastNumber
  <2>3. k \in Nat /\ ~\E g : Follows(g, s, x, k)
    OBVIOUS
  <2>4. k = 0 \/ k - 1 \in Nat
    BY <2>3
  <2>5. ~(k - 1 \in S)
    <3>1. ~(k <= k - 1)
      BY <2>3
    <3> HIDE DEF S
    <3> QED BY <2>2, <3>1
  <2>6. k = 0 \/ \E g : Follows(g, s, x, k - 1)
    BY <2>4, <2>5
  <2> QED BY <1>1, <2>3, <2>6
<1> QED BY <1>2

\* In an ascending list the search ends between what is before a time and what
\* is not.
LEMMA SearchFinds ==
    ASSUME NEW s \in Seq(TxRecord), NEW x \in Int,
           \A i, j \in 1..Len(s) : i < j => s[i].timestamp <= s[j].timestamp
    PROVE  /\ BisectLeft(s, x) \in 0..Len(s)
           /\ \A i \in 1..Len(s) : s[i].timestamp < x <=> i <= BisectLeft(s, x)
<1> DEFINE L == Len(s)
           P == (0..L) \X (0..L)
           IsFrom(f) == f = [p \in P |-> LET mid == (p[1] + p[2]) \div 2
                                         IN  IF p[1] >= p[2] THEN p[1]
                                             ELSE IF s[mid + 1].timestamp < x THEN f[<<mid + 1, p[2]>>] ELSE f[<<p[1], mid>>]]
<1>0. L \in Nat
  OBVIOUS
<1>1. \E f : IsFrom(f)
  <2>1. PICK g : Follows(g, s, x, L)
    BY <1>0, SearchEnds
  <2> DEFINE f == [p \in P |-> g[p]]
  <2>2. ASSUME NEW p \in P PROVE g[p] = Next1(g, s, x, p[1], p[2]) /\ p[1] \in 0..L /\ p[2] \in 0..L
    <3>1. p[1] \in 0..L /\ p[2] \in 0..L /\ p = <<p[1], p[2]>>
      OBVIOUS
    <3>2. p[2] - p[1] <= L
      BY <1>0, <3>1
    <3> QED BY <2>1, <3>1, <3>2 DEF Follows
  <2>3. ASSUME NEW p \in P PROVE g[p] = LET mid == (p[1] + p[2]) \div 2
                                        IN  IF p[1] >= p[2] THEN p[1]
                                            ELSE IF s[mid + 1].timestamp < x THEN f[<<mid + 1, p[2]>>] ELSE f[<<p[1], mid>>]
    <3> DEFINE mid == (p[1] + p[2]) \div 2
    <3>1. g[p] = Next1(g, s, x, p[1], p[2]) /\ p[1] \in 0..L /\ p[2] \in 0..L
      BY <2>2
    <3>2. CASE p[1] >= p[2]
      BY <3>1, <3>2 DEF Next1
    <3>3. CASE ~(p[1] >= p[2])
      <4>1. mid = Middle(p[1], p[2])
        BY DEF Middle
      <4> HIDE DEF mid
      <4>a. p[1] \in Nat /\ p[2] \in Nat /\ p[1] < p[2]
        BY <1>0, <3>1, <3>3
      <4>2. mid \in Nat /\ p[1] <= mid /\ mid < p[2] /\ p[1] \in Nat /\ p[2] \in Nat
        BY <4>1, <4>a, MiddleIs
      <4>3. mid + 1 \in 0..L /\ mid \in 0..L
        BY <1>0, <3>1, <4>2
      <4>4. <<mid + 1, p[2]>> \in P /\ <<p[1], mid>> \in P
        BY <3>1, <4>3
      <4>5. f[<<mid + 1, p[2]>>] = g[<<mid + 1, p[2]>>] /\ f[<<p[1], mid>>] = g[<<p[1], mid>>]
        BY <4>4
      <4> HIDE DEF f
      <4>6. g[p] = IF s[mid + 1].timestamp < x THEN g[<<mid + 1, p[2]>>] ELSE g[<<p[1], mid>>]
        BY <3>1, <3>3, <4>1 DEF Next1
      <4> QED BY <3>3, <4>5, <4>6 DEF mid
    <3> QED BY <3>2, <3>3
  <2>4. IsFrom(f)
    BY <2>3
  <2> QED BY <2>4
<1>2. PICK f : IsFrom(f) /\ BisectLeft(s, x) = f[<<0, L>>]
  <2> DEFINE F == CHOOSE from : IsFrom(from)
  <2>1. IsFrom(F)
    <3> HIDE DEF IsFrom
    <3> QED BY <1>1
  <2>2. BisectLeft(s, x) = F[<<0, L>>]
    BY DEF BisectLeft
  <2> QED BY <2>1, <2>2
<1>3. ASSUME NEW lo \in 0..L, NEW hi \in 0..L PROVE f[<<lo, hi>>] = Next1(f, s, x, lo, hi)
  <2>1. <<lo, hi>> \in P
    OBVIOUS
  <2> DEFINE mid == (lo + hi) \div 2
  <2>2. f[<<lo, hi>>] = IF lo >= hi THEN lo
                        ELSE IF s[mid + 1].timestamp < x THEN f[<<mid + 1, hi>>] ELSE f[<<lo, mid>>]
    <3>1. f = [p \in P |-> LET m == (p[1] + p[2]) \div 2
                           IN  IF p[1] >= p[2] THEN p[1]
                               ELSE IF s[m + 1].timestamp < x THEN f[<<m + 1, p[2]>>] ELSE f[<<p[1], m>>]]
      BY <1>2
    <3> HIDE DEF P
    <3> QED BY <2>1, <3>1
  <2> QED BY <2>2 DEF Next1, Middle
<1> DEFINE Right(r) == r \in 0..L /\ \A i \in 1..L : s[i].timestamp < x <=> i <= r
           Good(lo, hi) == /\ lo <= hi
                           /\ \A i \in 1..L : i <= lo => s[i].timestamp < x
                           /\ \A i \in 1..L : i > hi => ~(s[i].timestamp < x)
           S == {k \in Nat : \E lo \in 0..L : \E hi \in 0..L : hi - lo = k /\ Good(lo, hi) /\ ~Right(f[<<lo, hi>>])}
<1> HIDE DEF IsFrom, P
<1>4. \A i \in 1..L : s[i].timestamp \in Int
  BY RecordFields
<1>5. ASSUME NEW k \in S PROVE \E j \in S : j < k
  <2>1. PICK lo \in 0..L, hi \in 0..L : hi - lo = k /\ Good(lo, hi) /\ ~Right(f[<<lo, hi>>])
    OBVIOUS
  <2>2. f[<<lo, hi>>] = Next1(f, s, x, lo, hi)
    BY <1>3
  <2>3. lo \in Nat /\ hi \in Nat /\ k \in Nat
    BY <1>0
  <2>4. CASE lo >= hi
    <3>1. f[<<lo, hi>>] = lo /\ lo = hi
      BY <2>1, <2>2, <2>3, <2>4 DEF Next1
    <3>2. ASSUME NEW i \in 1..L PROVE s[i].timestamp < x <=> i <= lo
      <4>1. i <= lo \/ i > hi
        BY <1>0, <2>3, <3>1
      <4> QED BY <2>1, <2>3, <3>1, <4>1
    <3>3. Right(lo)
      BY <3>2
    <3> QED BY <2>1, <3>1, <3>3
  <2>5. CASE ~(lo >= hi)
    <3> DEFINE m == Middle(lo, hi)
    <3>0. lo \in Nat /\ hi \in Nat /\ lo < hi
      BY <2>3, <2>5
    <3>1. m \in Nat /\ lo <= m /\ m < hi
      BY <3>0, MiddleIs
    <3>2. f[<<lo, hi>>] = IF s[m + 1].timestamp < x THEN f[<<m + 1, hi>>] ELSE f[<<lo, m>>]
      BY <2>2, <2>5 DEF Next1
    <3> HIDE DEF m
    <3>3. m + 1 \in 1..L /\ m + 1 \in 0..L /\ m \in 0..L
      BY <1>0, <3>1
    <3>4. CASE s[m + 1].timestamp < x
      <4>1. ~Right(f[<<m + 1, hi>>])
        <5> HIDE DEF Right
        <5> QED BY <2>1, <3>2, <3>4
      <4>2. ASSUME NEW i \in 1..L, i <= m + 1 PROVE s[i].timestamp < x
        <5>1. CASE i = m + 1
          BY <3>4, <5>1
        <5>2. CASE i # m + 1
          <6>1. i < m + 1
            BY <3>1, <4>2, <5>2
          <6>2. s[i].timestamp <= s[m + 1].timestamp
            BY <3>3, <6>1
          <6>3. s[i].timestamp \in Int /\ s[m + 1].timestamp \in Int
            BY <1>4, <3>3
          <6> QED BY <3>4, <6>2, <6>3
        <5> QED BY <5>1, <5>2
      <4>3. Good(m + 1, hi)
        <5>1. m + 1 <= hi
          BY <2>3, <3>1
        <5> QED BY <2>1, <4>2, <5>1
      <4>4. hi - (m + 1) \in Nat /\ hi - (m + 1) < k
        BY <2>1, <2>3, <3>1
      <4> HIDE DEF Good, Right
      <4>5. hi - (m + 1) \in S
        BY <3>3, <4>1, <4>3, <4>4
      <4> HIDE DEF S
      <4> QED BY <4>4, <4>5
    <3>5. CASE ~(s[m + 1].timestamp < x)
      <4>1. ~Right(f[<<lo, m>>])
        <5> HIDE DEF Right
        <5> QED BY <2>1, <3>2, <3>5
      <4>2. ASSUME NEW i \in 1..L, i > m PROVE ~(s[i].timestamp < x)
        <5>1. CASE i = m + 1
          BY <3>5, <5>1
        <5>2. CASE i # m + 1
          <6>1. m + 1 < i
            BY <3>1, <4>2, <5>2
          <6>2. s[m + 1].timestamp <= s[i].timestamp
            BY <3>3, <6>1
          <6>3. s[i].timestamp \in Int /\ s[m + 1].timestamp \in Int
            BY <1>4, <3>3
          <6> QED BY <3>5, <6>2, <6>3
        <5> QED BY <5>1, <5>2
      <4>3. Good(lo, m)
        BY <2>1, <3>1, <4>2
      <4>4. m - lo \in Nat /\ m - lo < k
        BY <2>1, <2>3, <3>1
      <4> HIDE DEF Good, Right
      <4>5. m - lo \in S
        BY <3>3, <4>1, <4>3, <4>4
      <4> HIDE DEF S
      <4> QED BY <4>4, <4>5
    <3> QED BY <3>4, <3>5
  <2> QED BY <2>4, <2>5
<1>6. S = {}
  <2>1. S \in SUBSET Nat
    OBVIOUS
  <2>2. ASSUME S # {} PROVE FALSE
    <3> HIDE DEF S
    <3>1. PICK k \in S : \A j \in S : k <= j
      BY <2>1, <2>2, LeastNumber
    <3>2. PICK j \in S : j < k
      BY <1>5
    <3>3. k <= j /\ k \in Nat /\ j \in Nat
      BY <2>1, <3>1
    <3> QED BY <3>2, <3>3
  <2> QED BY <2>2
<1>7. Good(0, L)
  <2>1. \A i \in 1..L : ~(i <= 0) /\ ~(i > L)
    BY <1>0
  <2>2. 0 <= L
    BY <1>0
  <2> QED BY <2>1, <2>2
<1>8. Right(f[<<0, L>>])
  <2>1. 0 \in 0..L /\ L \in 0..L /\ L - 0 = L /\ L \in Nat
    BY <1>0
  <2>2. ASSUME ~Right(f[<<0, L>>]) PROVE L \in S
    <3> HIDE DEF Good, Right
    <3> QED BY <1>7, <2>1, <2>2
  <2> HIDE DEF S, Right
  <2> QED BY <1>6, <2>2
<1> QED BY <1>2, <1>8
-----------------------------------------------------------------------------
Has(s) == {s[i] : i \in 1..Len(s)}
InTimeOrder(s) == \A i, j \in 1..Len(s) : i < j => s[i].timestamp <= s[j].timestamp /\ s[i] # s[j]
IsEndOf(t, s) == Len(t) <= Len(s) /\ \A i \in 1..Len(t) : t[i] = s[i + (Len(s) - Len(t))]

LEMMA HasRecords == ASSUME NEW s \in Seq(TxRecord) PROVE Has(s) \subseteq TxRecord /\ Len(s) \in Nat
BY DEF Has

\* The end of a list in order is in order, and what is not in it is not later.
LEMMA EndKeeps ==
    ASSUME NEW s \in Seq(TxRecord), NEW t \in Seq(TxRecord), IsEndOf(t, s)
    PROVE  /\ Has(t) \subseteq Has(s)
           /\ InTimeOrder(s) => InTimeOrder(t)
           /\ \A e \in Has(s) \ Has(t) : \E j \in 1..(Len(s) - Len(t)) : e = s[j]
           /\ InTimeOrder(s) => \A e \in Has(s) \ Has(t) : \A i \in 1..Len(t) : e.timestamp <= t[i].timestamp
<1> DEFINE d == Len(s) - Len(t)
           L == Len(s)
           T == Len(t)
<1>1. d \in Nat /\ L \in Nat /\ T \in Nat /\ L = T + d
  BY DEF IsEndOf
<1>2. \A i \in 1..T : t[i] = s[i + d]
  BY DEF IsEndOf
<1> HIDE DEF d
<1>3. \A i \in 1..T : i + d \in 1..L
  BY <1>1
<1>4. Has(t) \subseteq Has(s)
  BY <1>2, <1>3 DEF Has
<1>5. ASSUME NEW e \in Has(s) \ Has(t) PROVE \E j \in 1..d : e = s[j]
  <2>1. PICK j \in 1..L : e = s[j]
    BY DEF Has
  <2>2. CASE j <= d
    BY <1>1, <2>1, <2>2
  <2>3. CASE j > d
    <3>1. j - d \in 1..T /\ (j - d) + d = j
      BY <1>1, <2>1, <2>3
    <3>2. t[j - d] = s[j]
      BY <1>2, <3>1
    <3> QED BY <2>1, <3>1, <3>2 DEF Has
  <2> QED BY <1>1, <2>1, <2>2, <2>3
<1>6. ASSUME InTimeOrder(s) PROVE InTimeOrder(t)
  <2>1. ASSUME NEW i \in 1..T, NEW j \in 1..T, i < j PROVE t[i].timestamp <= t[j].timestamp /\ t[i] # t[j]
    <3>1. i + d \in 1..L /\ j + d \in 1..L /\ i + d < j + d
      BY <1>1, <1>3, <2>1
    <3>2. s[i + d].timestamp <= s[j + d].timestamp /\ s[i + d] # s[j + d]
      BY <1>6, <3>1 DEF InTimeOrder
    <3> QED BY <1>2, <3>2
  <2> QED BY <2>1 DEF InTimeOrder
<1>7. ASSUME InTimeOrder(s), NEW e \in Has(s) \ Has(t), NEW i \in 1..T PROVE e.timestamp <= t[i].timestamp
  <2>1. PICK j \in 1..d : e = s[j]
    BY <1>5
  <2>2. j \in 1..L /\ i + d \in 1..L /\ j < i + d
    BY <1>1, <1>3
  <2>3. s[j].timestamp <= s[i + d].timestamp
    BY <1>7, <2>2 DEF InTimeOrder
  <2> QED BY <1>2, <2>1, <2>3
<1> QED BY <1>4, <1>5, <1>6, <1>7 DEF d

LEMMA LastIs ==
    ASSUME NEW s \in Seq(TxRecord), Len(s) <= MaxHistory + 1
    PROVE  /\ LastOf(s) \in Seq(TxRecord) /\ Len(LastOf(s)) <= MaxHistory
           /\ IsEndOf(LastOf(s), s)
           /\ Len(LastOf(s)) = Len(s) \/ Len(LastOf(s)) = MaxHistory
<1>1. MaxHistory \in Nat \ {0} /\ Len(s) \in Nat
  BY ProfileConstants
<1>2. CASE Len(s) > MaxHistory
  <2>1. LastOf(s) = Tail(s)
    BY <1>2 DEF LastOf
  <2>2. Tail(s) \in Seq(TxRecord) /\ Len(Tail(s)) = Len(s) - 1
    BY <1>1, <1>2
  <2>3. \A i \in 1..Len(Tail(s)) : Tail(s)[i] = s[i + 1]
    BY <1>1, <1>2
  <2>4. Len(s) - Len(Tail(s)) = 1
    BY <1>1, <2>2
  <2>5. IsEndOf(Tail(s), s)
    BY <1>1, <2>2, <2>3, <2>4 DEF IsEndOf
  <2> DEFINE t == Tail(s)
  <2>6. Len(t) = Len(s) - 1 /\ LastOf(s) = t /\ t \in Seq(TxRecord) /\ IsEndOf(t, s)
    BY <2>1, <2>2, <2>5
  <2> HIDE DEF t
  <2>7. Len(t) = MaxHistory /\ Len(t) <= MaxHistory
    BY <1>1, <1>2, <2>6
  <2> QED BY <2>6, <2>7
<1>3. CASE Len(s) <= MaxHistory
  <2>1. LastOf(s) = s
    BY <1>1, <1>3 DEF LastOf
  <2>2. Len(s) - Len(s) = 0 /\ \A i \in 1..Len(s) : i + 0 = i
    BY <1>1
  <2>3. IsEndOf(s, s)
    BY <1>1, <2>2 DEF IsEndOf
  <2> QED BY <1>3, <2>1, <2>3
<1> QED BY <1>1, <1>2, <1>3

\* A reader leaves the end of the list, and drops only what has expired.
LEMMA PruneIs ==
    ASSUME history \in Seq(TxRecord), Prune
    PROVE  /\ history' \in Seq(TxRecord)
           /\ IsEndOf(history', history)
           /\ \A j \in 1..(Len(history) - Len(history')) : Expired(history[j])
<1> DEFINE L == Len(history)
           fresh == {i \in 1..L : ~Expired(history[i])}
<1>0. L \in Nat
  OBVIOUS
<1>1. CASE fresh = {}
  <2>1. history' = <<>>
    BY <1>1 DEF Prune
  <2>2. \A j \in 1..L : Expired(history[j])
    BY <1>1
  <2>3. Len(history') = 0 /\ L - Len(history') = L
    BY <1>0, <2>1
  <2> QED BY <1>0, <2>1, <2>2, <2>3 DEF IsEndOf
<1>2. CASE fresh # {}
  <2> DEFINE k == CHOOSE i \in fresh : \A j \in fresh : i <= j
  <2>1. history' = SubSeq(history, k, L)
    BY <1>2 DEF Prune
  <2>2. fresh \in SUBSET Nat
    BY <1>0
  <2>3. \E i \in fresh : \A j \in fresh : i <= j
    <3> HIDE DEF fresh
    <3> QED BY <1>2, <2>2, LeastNumber
  <2>4. k \in fresh /\ \A j \in fresh : k <= j
    <3> HIDE DEF fresh
    <3> QED BY <2>3
  <2> HIDE DEF k
  <2>5. k \in 1..L /\ k \in Nat /\ k >= 1
    BY <1>0, <2>4
  <2>6. history' \in Seq(TxRecord) /\ Len(history') = L - k + 1 /\ \A i \in 1..(L - k + 1) : history'[i] = history[k + i - 1]
    BY <1>0, <2>1, <2>5
  <2>7. L - Len(history') = k - 1
    BY <1>0, <2>5, <2>6
  <2>8. ASSUME NEW j \in 1..(k - 1) PROVE Expired(history[j])
    <3>1. j \in 1..L /\ ~(k <= j)
      BY <1>0, <2>5
    <3>2. j \notin fresh
      BY <2>4, <3>1
    <3> QED BY <3>1, <3>2
  <2>9. IsEndOf(history', history)
    <3>1. ASSUME NEW i \in 1..Len(history') PROVE history'[i] = history[i + (L - Len(history'))]
      <4>1. i + (L - Len(history')) = k + i - 1
        BY <1>0, <2>5, <2>7
      <4> QED BY <2>6, <4>1
    <3>2. Len(history') <= L
      BY <1>0, <2>5, <2>6
    <3> QED BY <3>1, <3>2 DEF IsEndOf
  <2> QED BY <2>6, <2>7, <2>8, <2>9
<1> QED BY <1>1, <1>2

\* A list with nothing twice has as many places as records of any kind.
LEMMA PlacesAreRecords ==
    ASSUME NEW s \in Seq(TxRecord), InTimeOrder(s), NEW Q
    PROVE  /\ IsFiniteSet(Has(s)) /\ Cardinality(Has(s)) = Len(s)
           /\ Cardinality({i \in 1..Len(s) : s[i] \in Q}) = Cardinality({r \in Has(s) : r \in Q})
<1> DEFINE L == Len(s)
<1>0. L \in Nat /\ IsFiniteSet(1..L) /\ Cardinality(1..L) = L
  <2>1. L \in Nat /\ 0 \in Int /\ 1 \in Int
    OBVIOUS
  <2>2. IsFiniteSet(1..L) /\ Cardinality(1..L) = IF 1 > L THEN 0 ELSE L - 1 + 1
    BY <2>1, FS_Interval
  <2> QED BY <2>1, <2>2
<1>1. ASSUME NEW i \in 1..L, NEW j \in 1..L, s[i] = s[j] PROVE i = j
  <2>1. i < j \/ j < i \/ i = j
    BY <1>0
  <2> QED BY <1>1, <2>1 DEF InTimeOrder
<1>2. ASSUME NEW A \in SUBSET (1..L)
      PROVE  IsFiniteSet({s[i] : i \in A}) /\ Cardinality({s[i] : i \in A}) = Cardinality(A)
  <2> DEFINE f == [i \in A |-> s[i]]
             B == {s[i] : i \in A}
  <2>1. IsFiniteSet(A)
    BY <1>0, FS_Subset
  <2>2. f \in Surjection(A, B)
    BY DEF Surjection
  <2>3. f \in Injection(A, B)
    <3>1. f \in [A -> B]
      OBVIOUS
    <3>2. \A a, b \in A : f[a] = f[b] => a = b
      BY <1>1
    <3> HIDE DEF f
    <3> QED BY <3>1, <3>2 DEF Injection, IsInjective
  <2> HIDE DEF f, B
  <2>4. IsFiniteSet(B) /\ Cardinality(B) = Cardinality(A)
    BY <2>1, <2>2, <2>3, FS_Surjection
  <2> QED BY <2>4 DEF B
<1> DEFINE A == {i \in 1..L : s[i] \in Q}
<1>3. {s[i] : i \in A} = {r \in Has(s) : r \in Q}
  BY DEF Has
<1>4. Cardinality({s[i] : i \in A}) = Cardinality(A)
  BY <1>2
<1>5. IsFiniteSet({s[i] : i \in 1..L}) /\ Cardinality({s[i] : i \in 1..L}) = Cardinality(1..L)
  BY <1>2
<1> QED BY <1>0, <1>3, <1>4, <1>5 DEF Has

\* What keeps the latest payments shows as many in a window as there are, up
\* to its limit.
LEMMA LatestShow ==
    ASSUME NEW E, NEW S \in SUBSET E, E \subseteq TxRecord, IsFiniteSet(E), clock \in Int, NEW w \in Nat,
           Cardinality(S) <= MaxHistory,
           \A e \in E \ S : /\ \A r \in S : e.timestamp <= r.timestamp
                            /\ Cardinality(S) = MaxHistory \/ e.timestamp < clock - w
    PROVE  Cardinality(Within(S, w)) = IF Cardinality(Within(E, w)) < MaxHistory
                                       THEN Cardinality(Within(E, w)) ELSE MaxHistory
<1> DEFINE WS == Within(S, w)
           WE == Within(E, w)
<1>1. WS \in SUBSET S /\ WE \in SUBSET E /\ WS \in SUBSET WE
  BY DEF Within
<1>2. IsFiniteSet(S) /\ IsFiniteSet(WE)
  BY <1>1, FS_Subset
<1>3. IsFiniteSet(WS) /\ Cardinality(WS) <= Cardinality(S)
  BY <1>1, <1>2, FS_Subset
<1>4. Cardinality(WS) <= Cardinality(WE)
  BY <1>1, <1>2, FS_Subset
<1>5. Cardinality(WS) \in Nat /\ Cardinality(WE) \in Nat /\ Cardinality(S) \in Nat
  BY <1>2, <1>3, FS_CardinalityType
<1>6. MaxHistory \in Nat
  BY ProfileConstants
<1>7. CASE WE \subseteq WS
  <2>1. WE = WS
    BY <1>1, <1>7
  <2> HIDE DEF WE, WS
  <2>2. Cardinality(WE) = Cardinality(WS)
    BY <2>1
  <2>3. Cardinality(WS) <= MaxHistory
    BY <1>3, <1>5, <1>6
  <2>4. Cardinality(WS) = IF Cardinality(WE) < MaxHistory THEN Cardinality(WE) ELSE MaxHistory
    BY <1>5, <1>6, <2>2, <2>3
  <2> QED BY <2>4 DEF WE, WS
<1>8. CASE ~(WE \subseteq WS)
  <2>1. PICK e \in WE : e \notin WS
    BY <1>8
  <2>2. e \in E /\ e.timestamp >= clock - w /\ e.timestamp \in Int /\ e \notin S
    BY <2>1, RecordFields DEF Within
  <2>3. ~(e.timestamp < clock - w)
    BY <2>2
  <2>4. Cardinality(S) = MaxHistory
    BY <2>2, <2>3
  <2>5. ASSUME NEW r \in S PROVE r \in WS
    <3>1. e.timestamp <= r.timestamp /\ r.timestamp \in Int
      BY <2>2, RecordFields
    <3>2. r.timestamp >= clock - w
      BY <2>2, <3>1
    <3> QED BY <3>2 DEF Within
  <2>6. WS = S
    BY <1>1, <2>5
  <2> HIDE DEF WE, WS
  <2>7. Cardinality(WS) = MaxHistory
    BY <2>4, <2>6
  <2>8. Cardinality(WS) = IF Cardinality(WE) < MaxHistory THEN Cardinality(WE) ELSE MaxHistory
    BY <1>4, <1>5, <1>6, <2>7
  <2> QED BY <2>8 DEF WE, WS
<1> QED BY <1>7, <1>8
-----------------------------------------------------------------------------
\* The sorted set is all there is, or as much of it as is fresh, and the latest.
SetIsLatest ==
    /\ everything \subseteq TxRecord /\ IsFiniteSet(everything) /\ sorted \subseteq everything
    /\ Cardinality(sorted) <= MaxHistory
    /\ \A e \in everything \ sorted : \A r \in sorted : e.timestamp <= r.timestamp
    /\ sorted = everything \/ Cardinality(sorted) = MaxHistory

\* What a list of payments in order lacks is not later than what it has, and has
\* gone because the list was full or because it had expired.
ListIsLatest ==
    /\ Has(history) \subseteq everything
    /\ regular =>
         /\ InTimeOrder(history)
         /\ \A e \in everything \ Has(history) :
              /\ \A i \in 1..Len(history) : e.timestamp <= history[i].timestamp
              /\ Len(history) = MaxHistory \/ Expired(e)

WinInv ==
    /\ clock \in Int
    /\ history \in Seq(TxRecord) /\ Len(history) <= MaxHistory
    /\ SetIsLatest
    /\ ListIsLatest

LEMMA WinInitially == WindowInit => WinInv
<1> SUFFICES ASSUME WindowInit PROVE WinInv
  OBVIOUS
<1> USE DEF WindowInit
<1>1. history \in Seq(TxRecord) /\ Len(history) = 0 /\ MaxHistory \in Nat
  BY ProfileConstants
<1>2. Has(history) = {} /\ InTimeOrder(history)
  BY <1>1 DEF Has, InTimeOrder
<1>3. IsFiniteSet({}) /\ Cardinality({}) = 0
  BY FS_EmptySet
<1>4. SetIsLatest
  BY <1>1, <1>3 DEF SetIsLatest
<1>5. ListIsLatest
  BY <1>2 DEF ListIsLatest
<1> QED BY <1>1, <1>4, <1>5 DEF WinInv

\* A payment that comes in keeps the sorted set the latest.
LEMMA SetStays ==
    ASSUME SetIsLatest, NEW r \in TxRecord,
           sorted' \in Trimmed(sorted \cup {r}), everything' = everything \cup {r}
    PROVE  SetIsLatest'
<1> DEFINE A == sorted \cup {r}
           E == everything \cup {r}
<1>0. MaxHistory \in Nat \ {0}
  BY ProfileConstants
<1>1. IsFiniteSet(everything) /\ sorted \in SUBSET everything /\ everything \subseteq TxRecord
  BY DEF SetIsLatest
<1>2. IsFiniteSet(E) /\ E \subseteq TxRecord
  <2>1. IsFiniteSet(E)
    BY <1>1, FS_AddElement
  <2> QED BY <1>1, <2>1
<1>3. IsFiniteSet(sorted) /\ Cardinality(sorted) \in Nat
  <2>1. IsFiniteSet(sorted)
    BY <1>1, FS_Subset
  <2> QED BY <2>1, FS_CardinalityType
<1>4. IsFiniteSet(A) /\ Cardinality(A) \in Nat /\ Cardinality(A) = IF r \in sorted THEN Cardinality(sorted) ELSE Cardinality(sorted) + 1
  <2>1. IsFiniteSet(A) /\ Cardinality(A) = IF r \in sorted THEN Cardinality(sorted) ELSE Cardinality(sorted) + 1
    BY <1>3, FS_AddElement
  <2>2. Cardinality(A) \in Nat
    BY <2>1, FS_CardinalityType
  <2> QED BY <2>1, <2>2
<1>5. \A x \in E : x.timestamp \in Int
  BY <1>2, RecordFields
<1>6. \A e \in everything \ sorted : \A x \in sorted : e.timestamp <= x.timestamp
  BY DEF SetIsLatest
<1>7. Cardinality(sorted) <= MaxHistory /\ (sorted = everything \/ Cardinality(sorted) = MaxHistory)
  BY DEF SetIsLatest
<1>8. CASE Cardinality(A) <= MaxHistory
  <2>1. sorted' = A
    BY <1>8 DEF Trimmed
  <2>2. sorted = everything \/ A = sorted
    BY <1>0, <1>3, <1>4, <1>7, <1>8
  <2>3. A = E \/ Cardinality(A) = MaxHistory
    BY <1>7, <2>2
  <2>4. \A e \in E \ A : \A x \in A : e.timestamp <= x.timestamp
    BY <1>6, <2>2
  <2>5. A \subseteq E
    BY <1>1
  <2> QED BY <1>2, <1>8, <2>1, <2>3, <2>4, <2>5 DEF SetIsLatest
<1>9. CASE ~(Cardinality(A) <= MaxHistory)
  <2>1. PICK o \in A : sorted' = A \ {o} /\ \A y \in A : o.timestamp <= y.timestamp
    BY <1>9 DEF Trimmed
  <2>2. r \notin sorted /\ Cardinality(sorted) = MaxHistory /\ Cardinality(A) = MaxHistory + 1
    BY <1>0, <1>3, <1>4, <1>7, <1>9
  <2>3. Cardinality(A \ {o}) = Cardinality(A) - 1
    BY <1>4, <2>1, FS_RemoveElement
  <2>4. Cardinality(A \ {o}) = MaxHistory
    BY <1>0, <2>2, <2>3
  <2>5. A \ {o} \subseteq E
    BY <1>1
  <2>6. ASSUME NEW e \in E \ (A \ {o}), NEW x \in A \ {o} PROVE e.timestamp <= x.timestamp
    <3>1. CASE e = o
      BY <2>1, <3>1
    <3>2. CASE e # o
      <4>1. e \in everything \ sorted
        BY <2>6, <3>2
      <4>2. CASE x \in sorted
        BY <1>6, <4>1, <4>2
      <4>3. CASE x \notin sorted
        <5>1. x = r /\ o \in sorted
          BY <2>1, <2>6, <4>3
        <5>2. e.timestamp <= o.timestamp /\ o.timestamp <= x.timestamp
          BY <1>6, <2>1, <4>1, <5>1
        <5>3. e.timestamp \in Int /\ o.timestamp \in Int /\ x.timestamp \in Int
          BY <1>1, <1>5, <2>1
        <5> QED BY <5>2, <5>3
      <4> QED BY <4>2, <4>3
    <3> QED BY <3>1, <3>2
  <2>7. sorted' = A \ {o} /\ everything' = E
    BY <2>1
  <2>8. Cardinality(sorted') = MaxHistory
    BY <2>4, <2>7
  <2>9. MaxHistory <= MaxHistory
    BY <1>0
  <2>10. \A e \in everything' \ sorted' : \A x \in sorted' : e.timestamp <= x.timestamp
    BY <2>6, <2>7
  <2> HIDE DEF A, E
  <2> QED BY <1>2, <2>5, <2>7, <2>8, <2>9, <2>10 DEF SetIsLatest
<1> QED BY <1>8, <1>9

\* A payment that comes in keeps the list the latest.
LEMMA ListStays ==
    ASSUME WinInv, NEW p \in Payment, NEW t \in Int, IngestPayment(p, t)
    PROVE  history' \in Seq(TxRecord) /\ Len(history') <= MaxHistory /\ ListIsLatest'
<1> DEFINE r == [payment |-> p, timestamp |-> t]
           s == Append(history, r)
           L == Len(history)
<1>0. MaxHistory \in Nat \ {0}
  BY ProfileConstants
<1>1. r \in TxRecord /\ r.timestamp = t
  BY RecordIs
<1>2. history' = LastOf(s) /\ everything' = everything \cup {r} /\ clock' = clock
      /\ regular' = (/\ regular /\ r \notin everything /\ \A x \in everything : x.timestamp <= t)
  BY DEF IngestPayment
<1> HIDE DEF r
<1>3. history \in Seq(TxRecord) /\ L <= MaxHistory /\ L \in Nat /\ Has(history) \subseteq everything
  BY HasRecords DEF WinInv, ListIsLatest
<1>4. s \in Seq(TxRecord) /\ Len(s) = L + 1 /\ s[L + 1] = r /\ \A i \in 1..L : s[i] = history[i]
  <2>1. DOMAIN history = 1..L
    BY <1>3
  <2> QED BY <1>1, <1>3, <2>1, AppendHas
<1> HIDE DEF s
<1>5. Has(s) = Has(history) \cup {r}
  <2>1. ASSUME NEW i \in 1..(L + 1) PROVE i \in 1..L \/ i = L + 1
    BY <1>3
  <2>2. ASSUME NEW i \in 1..L PROVE i \in 1..(L + 1)
    BY <1>3
  <2>3. L + 1 \in 1..(L + 1)
    BY <1>3
  <2>4. \A x : x \in Has(s) <=> x \in Has(history) \cup {r}
    BY <1>4, <2>1, <2>2, <2>3 DEF Has
  <2> QED BY <2>4
<1>6. /\ history' \in Seq(TxRecord) /\ Len(history') <= MaxHistory /\ IsEndOf(history', s)
      /\ Len(history') = L + 1 \/ Len(history') = MaxHistory
  <2>1. Len(s) <= MaxHistory + 1
    BY <1>0, <1>3, <1>4
  <2> QED BY <1>2, <1>4, <2>1, LastIs
<1>7. /\ Has(history') \subseteq Has(s)
      /\ InTimeOrder(s) => InTimeOrder(history')
      /\ \A e \in Has(s) \ Has(history') : \E j \in 1..(Len(s) - Len(history')) : e = s[j]
      /\ InTimeOrder(s) => \A e \in Has(s) \ Has(history') : \A i \in 1..Len(history') : e.timestamp <= history'[i].timestamp
  <2>1. s \in Seq(TxRecord) /\ history' \in Seq(TxRecord) /\ IsEndOf(history', s)
    BY <1>4, <1>6
  <2> QED BY <2>1, EndKeeps
<1>8. Has(history') \subseteq everything'
  BY <1>2, <1>3, <1>5, <1>7
<1>9. ASSUME regular' PROVE InTimeOrder(s)
  <2>1. InTimeOrder(history)
    BY <1>2, <1>9 DEF WinInv, ListIsLatest
  <2>2. r \notin everything /\ \A x \in everything : x.timestamp <= t
    BY <1>2, <1>9
  <2>3. ASSUME NEW i \in 1..(L + 1), NEW j \in 1..(L + 1), i < j PROVE s[i].timestamp <= s[j].timestamp /\ s[i] # s[j]
    <3>1. i \in 1..L /\ (j \in 1..L \/ j = L + 1)
      BY <1>3, <2>3
    <3>2. CASE j \in 1..L
      BY <1>4, <2>1, <2>3, <3>1, <3>2 DEF InTimeOrder
    <3>3. CASE j = L + 1
      <4>1. s[i] = history[i] /\ s[j] = r
        BY <1>4, <3>1, <3>3
      <4>2. s[i] \in everything
        BY <1>3, <3>1, <4>1 DEF Has
      <4> QED BY <1>1, <2>2, <4>1, <4>2
    <3> QED BY <3>1, <3>2, <3>3
  <2> QED BY <1>4, <2>3 DEF InTimeOrder
<1>10. ASSUME regular', NEW e \in everything' \ Has(history')
       PROVE  /\ \A i \in 1..Len(history') : e.timestamp <= history'[i].timestamp
              /\ Len(history') = MaxHistory \/ Expired(e)'
  <2>1. InTimeOrder(s)
    BY <1>9, <1>10
  <2>2. CASE e \in Has(s)
    <3>1. \A i \in 1..Len(history') : e.timestamp <= history'[i].timestamp
      BY <1>7, <1>10, <2>1, <2>2
    <3>2. PICK j \in 1..(Len(s) - Len(history')) : e = s[j]
      BY <1>7, <1>10, <2>2
    <3>3. Len(history') # L + 1
      <4>1. Len(history') \in Nat
        BY <1>6
      <4> QED BY <1>3, <1>4, <3>2, <4>1
    <3> QED BY <1>6, <3>1, <3>3
  <2>3. CASE e \notin Has(s)
    <3>1. e \in everything \ Has(history) /\ regular
      BY <1>2, <1>5, <1>10, <2>3
    <3>2. /\ \A i \in 1..L : e.timestamp <= history[i].timestamp
          /\ L = MaxHistory \/ Expired(e)
      BY <3>1 DEF WinInv, ListIsLatest
    <3>3. e.timestamp <= t
      BY <1>2, <1>10, <3>1
    <3>4. ASSUME NEW i \in 1..(L + 1) PROVE e.timestamp <= s[i].timestamp
      <4>1. i \in 1..L \/ i = L + 1
        BY <1>3
      <4> QED BY <1>1, <1>4, <3>2, <3>3, <4>1
    <3>5. ASSUME NEW i \in 1..Len(history') PROVE e.timestamp <= history'[i].timestamp
      <4> DEFINE d == Len(s) - Len(history')
      <4>1. history'[i] = s[i + d]
        BY <1>6 DEF IsEndOf
      <4>2. Len(history') \in Nat /\ Len(s) \in Nat /\ Len(history') <= Len(s)
        BY <1>4, <1>6 DEF IsEndOf
      <4>3. i + d \in 1..(L + 1)
        BY <1>3, <1>4, <4>2
      <4> HIDE DEF d
      <4> QED BY <3>4, <4>1, <4>3
    <3>6. Len(history') = MaxHistory \/ Expired(e)'
      <4>1. CASE L = MaxHistory
        <5>1. Len(history') = MaxHistory
          BY <1>0, <1>6, <4>1
        <5> QED BY <5>1
      <4>2. CASE Expired(e)
        BY <1>2, <4>2 DEF Expired
      <4> QED BY <3>2, <4>1, <4>2
    <3> QED BY <3>5, <3>6
  <2> QED BY <2>2, <2>3
<1>11. ListIsLatest'
  BY <1>7, <1>8, <1>9, <1>10 DEF ListIsLatest
<1> QED BY <1>6, <1>11

LEMMA ReaderKeeps == ASSUME WinInv, ReadVelocity PROVE WinInv'
<1> DEFINE L == Len(history)
           K == Len(history')
<1>0. MaxHistory \in Nat \ {0} /\ Retention \in Nat
  BY ProfileConstants
<1>1. clock' = clock /\ sorted' = sorted /\ everything' = everything /\ regular' = regular /\ Prune
  BY DEF ReadVelocity
<1>2. history \in Seq(TxRecord) /\ L <= MaxHistory /\ L \in Nat /\ Has(history) \subseteq everything /\ clock \in Int
  BY HasRecords DEF WinInv, ListIsLatest
<1>3. history' \in Seq(TxRecord) /\ IsEndOf(history', history) /\ \A j \in 1..(L - K) : Expired(history[j])
  BY <1>1, <1>2, PruneIs
<1>4. /\ Has(history') \subseteq Has(history)
      /\ InTimeOrder(history) => InTimeOrder(history')
      /\ \A e \in Has(history) \ Has(history') : \E j \in 1..(L - K) : e = history[j]
      /\ InTimeOrder(history) => \A e \in Has(history) \ Has(history') : \A i \in 1..K : e.timestamp <= history'[i].timestamp
  BY <1>2, <1>3, EndKeeps
<1>5. K \in Nat /\ K <= L
  BY <1>3 DEF IsEndOf
<1>6. ASSUME regular, NEW e \in everything \ Has(history')
      PROVE  /\ \A i \in 1..K : e.timestamp <= history'[i].timestamp
             /\ K = MaxHistory \/ Expired(e)
  <2>1. InTimeOrder(history)
    BY <1>6 DEF WinInv, ListIsLatest
  <2>2. CASE e \in Has(history)
    <3>1. e \in Has(history) \ Has(history')
      BY <1>6, <2>2
    <3>2. \E j \in 1..(L - K) : e = history[j]
      BY <1>4, <3>1
    <3>3. Expired(e)
      BY <1>3, <3>2
    <3> QED BY <1>4, <2>1, <3>1, <3>3
  <2>3. CASE e \notin Has(history)
    <3>1. /\ \A i \in 1..L : e.timestamp <= history[i].timestamp
          /\ L = MaxHistory \/ Expired(e)
      BY <1>6, <2>3 DEF WinInv, ListIsLatest
    <3>2. ASSUME NEW i \in 1..K PROVE e.timestamp <= history'[i].timestamp
      <4>1. history'[i] = history[i + (L - K)]
        BY <1>3 DEF IsEndOf
      <4>2. i + (L - K) \in 1..L
        BY <1>2, <1>5
      <4> QED BY <3>1, <4>1, <4>2
    <3>3. K = MaxHistory \/ Expired(e)
      <4>1. CASE K # L /\ L = MaxHistory
        <5>1. 1 \in 1..(L - K) /\ 1 \in 1..L
          BY <1>2, <1>5, <4>1
        <5>2. Expired(history[1]) /\ e.timestamp <= history[1].timestamp
          BY <1>3, <3>1, <5>1
        <5>3. history[1] \in TxRecord /\ e \in TxRecord
          BY <1>2, <1>6, <5>1 DEF WinInv, SetIsLatest
        <5>4. history[1].timestamp \in Int /\ e.timestamp \in Int
          BY <5>3, RecordFields
        <5> QED BY <1>0, <1>2, <5>2, <5>4 DEF Expired
      <4> QED BY <3>1, <4>1
    <3> QED BY <3>2, <3>3
  <2> QED BY <2>2, <2>3
<1>7. Has(history') \subseteq everything
  BY <1>2, <1>4
<1>8. regular => InTimeOrder(history')
  BY <1>4 DEF WinInv, ListIsLatest
<1>9. ListIsLatest'
  BY <1>1, <1>6, <1>7, <1>8 DEF ListIsLatest, Expired
<1>10. SetIsLatest'
  BY <1>1 DEF WinInv, SetIsLatest
<1>11. K <= MaxHistory
  BY <1>0, <1>2, <1>5
<1> QED BY <1>1, <1>2, <1>3, <1>9, <1>10, <1>11 DEF WinInv

LEMMA WinKept == WinInv /\ [WindowNext]_windowVars => WinInv'
<1> SUFFICES ASSUME WinInv, [WindowNext]_windowVars PROVE WinInv'
  OBVIOUS
<1>0. MaxHistory \in Nat \ {0} /\ Retention \in Nat /\ Skew \in Nat /\ clock \in Int
  BY ProfileConstants DEF WinInv
<1>1. ASSUME NEW p \in Payment, NEW skew \in -Skew..Skew, IngestPayment(p, clock + skew) PROVE WinInv'
  <2>1. clock + skew \in Int
    BY <1>0
  <2> DEFINE t == clock + skew
             r == [payment |-> p, timestamp |-> t]
  <2>2. t \in Int /\ IngestPayment(p, t)
    BY <1>1, <2>1
  <2> HIDE DEF t
  <2>3. history' \in Seq(TxRecord) /\ Len(history') <= MaxHistory /\ ListIsLatest'
    BY <2>2, ListStays
  <2>4. sorted' \in Trimmed(sorted \cup {r}) /\ everything' = everything \cup {r} /\ clock' = clock
    BY <2>2 DEF IngestPayment
  <2>5. r \in TxRecord /\ SetIsLatest
    BY <2>2, RecordIs DEF WinInv
  <2> HIDE DEF r
  <2>6. SetIsLatest'
    BY <2>4, <2>5, SetStays
  <2> QED BY <1>0, <2>3, <2>4, <2>6 DEF WinInv
<1>2. CASE ReadVelocity
  BY <1>2, ReaderKeeps
<1>3. CASE DeleteProfile
  <2>1. history' = <<>> /\ sorted' = {} /\ everything' = {} /\ clock' = clock
    BY <1>3 DEF DeleteProfile
  <2>2. history' \in Seq(TxRecord) /\ Len(history') = 0
    BY <2>1
  <2>3. Has(history') = {} /\ InTimeOrder(history')
    BY <2>2 DEF Has, InTimeOrder
  <2>4. IsFiniteSet({}) /\ Cardinality({}) = 0
    BY FS_EmptySet
  <2>5. SetIsLatest'
    BY <1>0, <2>1, <2>4 DEF SetIsLatest
  <2>6. ListIsLatest'
    BY <2>1, <2>3 DEF ListIsLatest
  <2> QED BY <1>0, <2>1, <2>2, <2>5, <2>6 DEF WinInv
<1>4. CASE Minute
  <2>1. history' = history /\ sorted' = sorted /\ everything' = everything /\ regular' = regular /\ clock' = clock + 1
    BY <1>4 DEF Minute
  <2>2. \A e \in everything : Expired(e) => Expired(e)'
    <3>1. \A e \in everything : e.timestamp \in Int
      BY RecordFields DEF WinInv, SetIsLatest
    <3> QED BY <1>0, <2>1, <3>1 DEF Expired
  <2>3. ListIsLatest'
    BY <2>1, <2>2 DEF WinInv, ListIsLatest
  <2>4. SetIsLatest'
    BY <2>1 DEF WinInv, SetIsLatest
  <2>5. clock' \in Int
    BY <1>0, <2>1
  <2> QED BY <2>1, <2>3, <2>4, <2>5 DEF WinInv
<1>5. CASE UNCHANGED windowVars
  BY <1>5 DEF windowVars, WinInv, SetIsLatest, ListIsLatest, Expired
<1> QED BY <1>1, <1>2, <1>3, <1>4, <1>5 DEF WindowNext

LEMMA WinHolds == WindowSpec => []WinInv
<1> QED BY WinInitially, WinKept, PTL DEF WindowSpec

LEMMA WinMeans == WinInv => WindowsAgree
<1> SUFFICES ASSUME WinInv PROVE WindowsAgree
  OBVIOUS
<1>0. MaxHistory \in Nat \ {0} /\ Retention \in Nat /\ Windows \subseteq 0..Retention
  BY ProfileConstants
<1>1. /\ clock \in Int /\ history \in Seq(TxRecord) /\ Len(history) <= MaxHistory /\ Len(history) \in Nat
      /\ everything \subseteq TxRecord /\ IsFiniteSet(everything) /\ sorted \in SUBSET everything
      /\ Has(history) \in SUBSET everything
  BY HasRecords DEF WinInv, SetIsLatest, ListIsLatest
<1>2. ASSUME NEW w \in Windows
      PROVE  /\ w \in Nat /\ w <= Retention
             /\ Cardinality(Within(sorted, w)) = IF Cardinality(Within(everything, w)) < MaxHistory
                                                 THEN Cardinality(Within(everything, w)) ELSE MaxHistory
  <2>1. w \in Nat /\ w <= Retention
    BY <1>0
  <2>2. Cardinality(sorted) <= MaxHistory
    BY DEF WinInv, SetIsLatest
  <2>3. \A e \in everything \ sorted : /\ \A r \in sorted : e.timestamp <= r.timestamp
                                       /\ Cardinality(sorted) = MaxHistory \/ e.timestamp < clock - w
    BY DEF WinInv, SetIsLatest
  <2> QED BY <1>1, <2>1, <2>2, <2>3, LatestShow
<1>3. ASSUME NEW w \in Windows, regular PROVE CountWithin(w) = Cardinality(Within(sorted, w))
  <2> DEFINE H == Has(history)
             x == clock - w
             b == BisectLeft(history, x)
             Q == {r \in TxRecord : r.timestamp >= x}
             L == Len(history)
  <2>1. /\ InTimeOrder(history)
        /\ \A e \in everything \ H : \A i \in 1..L : e.timestamp <= history[i].timestamp
        /\ \A e \in everything \ H : L = MaxHistory \/ Expired(e)
    BY <1>3 DEF WinInv, ListIsLatest
  <2>2. w \in Nat /\ w <= Retention /\ x \in Int
    BY <1>1, <1>2
  <2>3. Cardinality(H) = L /\ Cardinality({i \in 1..L : history[i] \in Q}) = Cardinality({r \in H : r \in Q})
    BY <1>1, <2>1, PlacesAreRecords
  <2>4. {r \in H : r \in Q} = Within(H, w)
    BY <1>1 DEF Within
  <2>5. \A i \in 1..L : history[i] \in TxRecord /\ history[i].timestamp \in Int
    BY <1>1, RecordFields
  <2>6. b \in 0..L /\ \A i \in 1..L : history[i].timestamp < x <=> i <= b
    <3>1. \A i, j \in 1..L : i < j => history[i].timestamp <= history[j].timestamp
      BY <2>1 DEF InTimeOrder
    <3> QED BY <1>1, <2>2, <3>1, SearchFinds
  <2> HIDE DEF b, x, H
  <2>7. {i \in 1..L : history[i] \in Q} = (b + 1)..L
    <3>1. ASSUME NEW i \in 1..L PROVE history[i] \in Q <=> i >= b + 1
      <4>1. history[i].timestamp < x <=> i <= b
        BY <2>6
      <4>2. history[i].timestamp >= x <=> ~(i <= b)
        BY <2>2, <2>5, <4>1
      <4>3. ~(i <= b) <=> i >= b + 1
        BY <1>1, <2>6
      <4> QED BY <2>5, <4>2, <4>3
    <3>2. \A i \in (b + 1)..L : i \in 1..L
      BY <1>1, <2>6
    <3>3. \A i \in 1..L : i >= b + 1 => i \in (b + 1)..L
      BY <1>1, <2>6
    <3>4. \A i \in (b + 1)..L : i >= b + 1
      BY <1>1, <2>6
    <3> HIDE DEF Q
    <3>5. \A i : i \in {j \in 1..L : history[j] \in Q} <=> i \in (b + 1)..L
      BY <3>1, <3>2, <3>3, <3>4
    <3> QED BY <3>5
  <2>8. Cardinality((b + 1)..L) = L - b
    <3>1. b + 1 \in Int /\ L \in Int /\ b <= L /\ b \in Int
      BY <1>1, <2>6
    <3>2. Cardinality((b + 1)..L) = IF b + 1 > L THEN 0 ELSE L - (b + 1) + 1
      BY <3>1, FS_Interval
    <3> QED BY <3>1, <3>2
  <2>9. CountWithin(w) = Cardinality(Within(H, w))
    BY <2>3, <2>4, <2>7, <2>8 DEF CountWithin, b, x
  <2>10. \A e \in everything \ H : /\ \A r \in H : e.timestamp <= r.timestamp
                                   /\ Cardinality(H) = MaxHistory \/ e.timestamp < clock - w
    <3>1. ASSUME NEW e \in everything \ H, NEW r \in H PROVE e.timestamp <= r.timestamp
      <4>1. \A i \in 1..L : e.timestamp <= history[i].timestamp
        BY <2>1
      <4>2. PICK i \in 1..L : r = history[i]
        BY DEF Has, H
      <4> QED BY <4>1, <4>2
    <3>2. ASSUME NEW e \in everything \ H PROVE Cardinality(H) = MaxHistory \/ e.timestamp < clock - w
      <4>1. e.timestamp \in Int
        BY <1>1, RecordFields
      <4>2. Expired(e) => e.timestamp < clock - w
        BY <1>0, <1>1, <2>2, <4>1 DEF Expired
      <4>3. L = MaxHistory \/ Expired(e)
        BY <2>1
      <4> QED BY <2>3, <4>2, <4>3
    <3> QED BY <3>1, <3>2
  <2>11. H \in SUBSET everything /\ Cardinality(H) <= MaxHistory
    BY <1>1, <2>3 DEF H
  <2>12. Cardinality(Within(H, w)) = IF Cardinality(Within(everything, w)) < MaxHistory
                                     THEN Cardinality(Within(everything, w)) ELSE MaxHistory
    BY <1>1, <2>2, <2>10, <2>11, LatestShow
  <2> QED BY <1>2, <2>9, <2>12
<1>4. ASSUME regular, Len(history) = Cardinality(everything), NEW h \in -1..23 PROVE ListedAt(h) = SortedAt(h)
  <2> DEFINE Q == {r \in TxRecord : HourOf[r.payment] = h /\ h >= 0}
             H == Has(history)
             L == Len(history)
  <2>1. InTimeOrder(history)
    BY <1>4 DEF WinInv, ListIsLatest
  <2>2. Cardinality(H) = L /\ Cardinality({i \in 1..L : history[i] \in Q}) = Cardinality({r \in H : r \in Q})
    BY <1>1, <2>1, PlacesAreRecords
  <2>3. H = everything
    BY <1>1, <1>4, <2>2, FS_Subset
  <2>4. sorted = everything
    <3>1. Cardinality(sorted) = MaxHistory \/ sorted = everything
      BY DEF WinInv, SetIsLatest
    <3>2. CASE Cardinality(sorted) = MaxHistory
      <4>1. Cardinality(sorted) <= Cardinality(everything)
        BY <1>1, FS_Subset
      <4>2. Cardinality(sorted) = Cardinality(everything)
        BY <1>0, <1>1, <1>4, <3>2, <4>1
      <4> QED BY <1>1, <4>2, FS_Subset
    <3> QED BY <3>1, <3>2
  <2>5. \A i \in 1..L : history[i] \in TxRecord
    BY <1>1
  <2>6. {i \in 1..L : history[i] \in Q} = {i \in 1..L : HourOf[history[i].payment] = h /\ h >= 0}
    BY <2>5
  <2>7. {r \in H : r \in Q} = {r \in sorted : HourOf[r.payment] = h /\ h >= 0}
    BY <1>1, <2>3, <2>4
  <2> QED BY <2>2, <2>6, <2>7 DEF ListedAt, SortedAt
<1> QED BY <1>2, <1>3, <1>4 DEF WindowsAgree

\* The rules see the same windows whichever store is chosen, for any limit, any
\* retention and any payments: what the list has dropped was no longer in a
\* window or did not fit, and the search in it counts what is left.
THEOREM WindowsHold == WindowSpec => []WindowsAgree
<1> QED BY WinHolds, WinMeans, PTL
-----------------------------------------------------------------------------
\* The clock and the counts stay within their bounds, whatever comes in.
LEMMA WindowTypes == WindowSpec => []WindowTypeOK
<1> DEFINE C == clock \in 0..MaxClock /\ ingests \in 0..MaxIngests /\ regular \in BOOLEAN
<1>0. MaxClock \in Nat /\ MaxIngests \in Nat
  BY ProfileConstants
<1>1. WindowInit => C
  BY <1>0 DEF WindowInit
<1>2. C /\ [WindowNext]_windowVars => C'
  <2> SUFFICES ASSUME C, [WindowNext]_windowVars PROVE C'
    OBVIOUS
  <2>1. ASSUME NEW p \in Payment, NEW skew \in -Skew..Skew, IngestPayment(p, clock + skew) PROVE C'
    <3>1. ingests < MaxIngests /\ ingests' = ingests + 1 /\ clock' = clock
      BY <2>1 DEF IngestPayment
    <3>2. regular' \in BOOLEAN
      BY <2>1 DEF IngestPayment
    <3> QED BY <1>0, <3>1, <3>2
  <2>2. CASE ReadVelocity
    BY <2>2 DEF ReadVelocity
  <2>3. CASE DeleteProfile
    BY <2>3 DEF DeleteProfile
  <2>4. CASE Minute
    BY <1>0, <2>4 DEF Minute
  <2>5. CASE UNCHANGED windowVars
    BY <2>5 DEF windowVars
  <2> QED BY <2>1, <2>2, <2>3, <2>4, <2>5 DEF WindowNext
<1>3. WinInv /\ C => WindowTypeOK
  BY DEF WinInv, SetIsLatest, WindowTypeOK
<1> QED BY <1>1, <1>2, <1>3, WinHolds, PTL DEF WindowSpec

-----------------------------------------------------------------------------
(***************************************************************************)
(* What is counted and compared, for any requests and samples              *)
(***************************************************************************)

LEMMA Places == ASSUME NEW n \in Nat PROVE IsFiniteSet(1..n) /\ Cardinality(1..n) = n
<1>1. n \in Int /\ 1 \in Int
  OBVIOUS
<1>2. IsFiniteSet(1..n) /\ Cardinality(1..n) = IF 1 > n THEN 0 ELSE n - 1 + 1
  BY <1>1, FS_Interval
<1> QED BY <1>1, <1>2

LEMMA Chosen ==
    ASSUME NEW n \in Nat, NEW A \in SUBSET (1..n)
    PROVE  IsFiniteSet(A) /\ Cardinality(A) \in 0..n /\ (A # {} => Cardinality(A) >= 1)
<1>1. IsFiniteSet(1..n) /\ Cardinality(1..n) = n
  BY Places
<1>2. IsFiniteSet(A) /\ Cardinality(A) <= n
  BY <1>1, FS_Subset
<1>3. Cardinality(A) \in Nat
  BY <1>2, FS_CardinalityType
<1>4. Cardinality(A) = 0 <=> A = {}
  BY <1>2, FS_EmptySet
<1> DEFINE c == Cardinality(A)
<1>5. c \in Nat /\ c <= n /\ (c = 0 <=> A = {})
  BY <1>2, <1>3, <1>4
<1> HIDE DEF c
<1>6. c \in 0..n
  BY <1>5
<1>7. c # 0 => c >= 1
  BY <1>5
<1>8. A # {} => c # 0
  BY <1>5
<1> QED BY <1>2, <1>6, <1>7, <1>8 DEF c

LEMMA NumbersOf == ASSUME NEW s \in Seq(Nat) PROVE \A n \in 1..Len(s) : s[n] \in Nat
OBVIOUS

Sorted(s) == \A k, l \in 1..Len(s) : k < l => s[k] <= s[l]

\* A list of numbers in ascending order has the same numbers.
LEMMA AscendingIs ==
    ASSUME NEW s \in Seq(Nat)
    PROVE  /\ Ascending(s) \in Seq(Nat) /\ Len(Ascending(s)) = Len(s)
           /\ Sorted(Ascending(s))
           /\ \A k \in 1..Len(s) : \E i \in 1..Len(s) : Ascending(s)[k] = s[i]
           /\ \A x \in Int : Below(Ascending(s), x) = Below(s, x)
<1> DEFINE n == Len(s)
           before(i) == {j \in 1..n : s[j] < s[i] \/ (s[j] = s[i] /\ j <= i)}
           place(i) == Cardinality(before(i))
           A == Ascending(s)
           at(k) == CHOOSE i \in 1..n : place(i) = k
<1>0. n \in Nat /\ \A i \in 1..n : s[i] \in Nat
  OBVIOUS
<1>1. ASSUME NEW i \in 1..n PROVE place(i) \in 1..n
  <2>1. before(i) \in SUBSET (1..n) /\ i \in before(i)
    BY <1>0
  <2> HIDE DEF before
  <2>2. place(i) \in 0..n /\ place(i) >= 1
    BY <1>0, <2>1, Chosen
  <2> QED BY <1>0, <2>2
<1>2. ASSUME NEW i \in 1..n, NEW j \in 1..n, s[i] < s[j] \/ (s[i] = s[j] /\ i < j)
      PROVE  place(i) < place(j)
  <2>1. before(i) \in SUBSET before(j) /\ before(j) \in SUBSET (1..n)
    <3>1. ASSUME NEW k \in 1..n, s[k] < s[i] \/ (s[k] = s[i] /\ k <= i)
          PROVE  s[k] < s[j] \/ (s[k] = s[j] /\ k <= j)
      BY <1>0, <1>2, <3>1
    <3> QED BY <3>1
  <2>2. j \in before(j) /\ j \notin before(i)
    BY <1>0, <1>2
  <2> HIDE DEF before
  <2>3. IsFiniteSet(before(j)) /\ place(i) \in Nat /\ place(j) \in Nat
    <3>1. IsFiniteSet(before(j))
      BY <1>0, <2>1, Chosen
    <3>2. place(i) \in 1..n /\ place(j) \in 1..n
      BY <1>1
    <3> QED BY <1>0, <3>1, <3>2
  <2>4. place(i) <= place(j) /\ (place(j) = place(i) => before(j) = before(i))
    BY <2>1, <2>3, FS_Subset
  <2> QED BY <2>2, <2>3, <2>4
<1>3. ASSUME NEW i \in 1..n, NEW j \in 1..n, place(i) = place(j) PROVE i = j
  <2>1. place(i) \in Nat
    BY <1>0, <1>1
  <2>2. ~(place(i) < place(j)) /\ ~(place(j) < place(i))
    BY <1>3, <2>1
  <2> HIDE DEF place
  <2>3. ~(s[i] < s[j]) /\ ~(s[j] < s[i]) /\ ~(s[i] = s[j] /\ i < j) /\ ~(s[j] = s[i] /\ j < i)
    BY <1>2, <2>2
  <2> QED BY <1>0, <2>3
<1> DEFINE f == [i \in 1..n |-> place(i)]
<1>4. ASSUME NEW k \in 1..n PROVE \E i \in 1..n : place(i) = k
  <2>1. f \in [1..n -> 1..n] /\ \A i, j \in 1..n : f[i] = f[j] => i = j
    <3> HIDE DEF place
    <3> QED BY <1>1, <1>3
  <2>2. \A i \in 1..n : f[i] = place(i)
    OBVIOUS
  <2> HIDE DEF f, place
  <2>3. f \in Injection(1..n, 1..n)
    BY <2>1 DEF Injection, IsInjective
  <2>4. IsFiniteSet(1..n)
    BY <1>0, Places
  <2>5. f \in Surjection(1..n, 1..n)
    BY <2>3, <2>4, FS_Injection
  <2>6. \E i \in 1..n : f[i] = k
    BY <2>5 DEF Surjection
  <2> QED BY <2>2, <2>6
<1> HIDE DEF place
<1>5. \A k \in 1..n : at(k) \in 1..n /\ place(at(k)) = k
  BY <1>4
<1>6. A = [k \in 1..n |-> s[at(k)]]
  BY DEF Ascending, place
<1> HIDE DEF at, A
<1>7. A \in Seq(Nat) /\ Len(A) = n /\ \A k \in 1..n : A[k] = s[at(k)]
  <2>1. A \in [1..n -> Nat]
    BY <1>0, <1>5, <1>6
  <2>2. A \in Seq(Nat) /\ Len(A) = n
    BY <1>0, <2>1, SeqMade
  <2> QED BY <1>6, <2>2
<1>8. ASSUME NEW k \in 1..n, NEW l \in 1..n, k < l PROVE A[k] <= A[l]
  <2>1. A[k] = s[at(k)] /\ A[l] = s[at(l)] /\ at(k) \in 1..n /\ at(l) \in 1..n /\ place(at(k)) = k /\ place(at(l)) = l
    BY <1>5, <1>7
  <2>2. ~(place(at(l)) < place(at(k)))
    BY <1>0, <1>8, <2>1
  <2>3. ~(s[at(l)] < s[at(k)])
    BY <1>2, <2>1, <2>2
  <2> QED BY <1>0, <2>1, <2>3
<1>9. Sorted(A)
  BY <1>7, <1>8 DEF Sorted
<1>10. \A k \in 1..n : \E i \in 1..n : A[k] = s[i]
  BY <1>5, <1>7
<1>11. ASSUME NEW x \in Int PROVE Below(A, x) = Below(s, x)
  <2> DEFINE P == {k \in 1..n : A[k] <= x}
             Q == {i \in 1..n : s[i] <= x}
             g == [k \in P |-> at(k)]
  <2>1. g \in [P -> Q] /\ \A k \in P : g[k] = at(k)
    BY <1>5, <1>7
  <2>2. \A k, l \in P : g[k] = g[l] => k = l
    BY <1>5, <2>1
  <2>3. \A i \in Q : \E k \in P : g[k] = i
    <3> SUFFICES ASSUME NEW i \in Q PROVE \E k \in P : g[k] = i
      OBVIOUS
    <3>1. place(i) \in 1..n
      BY <1>1 DEF place
    <3>2. at(place(i)) = i
      BY <1>3, <1>5, <3>1 DEF place
    <3>3. place(i) \in P
      BY <1>7, <3>1, <3>2
    <3> QED BY <2>1, <3>2, <3>3
  <2>4. P \in SUBSET (1..n)
    OBVIOUS
  <2> HIDE DEF g, P, Q
  <2>5. g \in Injection(P, Q) /\ g \in Surjection(P, Q)
    BY <2>1, <2>2, <2>3 DEF Injection, IsInjective, Surjection
  <2>6. IsFiniteSet(P)
    BY <1>0, <2>4, Chosen
  <2>7. Cardinality(Q) = Cardinality(P)
    BY <2>5, <2>6, FS_Surjection
  <2> QED BY <1>7, <2>7 DEF Below, P, Q
<1> QED BY <1>7, <1>9, <1>10, <1>11 DEF A

\* In a sorted list, what is not above a number comes first.
LEMMA BelowSplits ==
    ASSUME NEW s \in Seq(Nat), Sorted(s), NEW x \in Int
    PROVE  /\ Below(s, x) \in 0..Len(s)
           /\ \A k \in 1..Len(s) : s[k] <= x <=> k <= Below(s, x)
<1> DEFINE n == Len(s)
           P == {i \in 1..n : s[i] <= x}
           c == Cardinality(P)
<1>0. n \in Nat /\ \A i \in 1..n : s[i] \in Nat
  OBVIOUS
<1>1. P \in SUBSET (1..n) /\ c = Below(s, x)
  BY DEF Below
<1> HIDE DEF P
<1>2. IsFiniteSet(P) /\ c \in 0..n
  BY <1>0, <1>1, Chosen
<1>3. ASSUME NEW k \in 1..n, s[k] <= x PROVE k <= c
  <2>1. 1..k \in SUBSET P
    <3>1. ASSUME NEW i \in 1..k PROVE i \in 1..n /\ s[i] <= x
      <4>1. i \in 1..n /\ (i = k \/ i < k)
        BY <1>0
      <4> QED BY <1>0, <1>3, <4>1 DEF Sorted
    <3> QED BY <3>1 DEF P
  <2>2. Cardinality(1..k) = k /\ k \in Nat
    <3>1. k \in Nat
      BY <1>0
    <3> QED BY <3>1, Places
  <2>3. Cardinality(1..k) <= Cardinality(P)
    BY <1>2, <2>1, FS_Subset
  <2> QED BY <2>2, <2>3
<1>4. ASSUME NEW k \in 1..n, ~(s[k] <= x) PROVE ~(k <= c)
  <2>1. k - 1 \in Nat
    BY <1>0
  <2>2. P \in SUBSET (1..(k - 1))
    <3>1. ASSUME NEW i \in P PROVE i \in 1..(k - 1)
      <4>1. i \in 1..n /\ s[i] <= x
        BY DEF P
      <4>2. ~(k <= i)
        <5>1. k < i => s[k] <= s[i]
          BY <4>1 DEF Sorted
        <5> QED BY <1>0, <1>4, <4>1, <5>1
      <4> QED BY <1>0, <4>1, <4>2
    <3> QED BY <3>1
  <2>3. c \in 0..(k - 1)
    BY <2>1, <2>2, Chosen
  <2> QED BY <2>1, <2>3
<1> HIDE DEF c
<1> QED BY <1>1, <1>2, <1>3, <1>4
-----------------------------------------------------------------------------
(***************************************************************************)
(* The merge: the distance at a place, where it goes next, and that it has *)
(* an end                                                                  *)
(***************************************************************************)
GapAt(a, b, i, j) == Distance(i * Len(b), j * Len(a))
Larger(x, y) == IF x > y THEN x ELSE y
GoesOn(a, b, i, j) == IF a[i + 1] <= b[j + 1] THEN <<i + 1, j>> ELSE <<i, j + 1>>
MergedAt(g, a, b, i, j) ==
    IF i = Len(a) \/ j = Len(b) THEN 0
    ELSE Larger(GapAt(a, b, GoesOn(a, b, i, j)[1], GoesOn(a, b, i, j)[2]), g[GoesOn(a, b, i, j)])
Remaining(a, b, i, j) == (Len(a) - i) + (Len(b) - j)
Merges(g, a, b, n) ==
    \A i \in 0..Len(a), j \in 0..Len(b) : Remaining(a, b, i, j) <= n => g[<<i, j>>] = MergedAt(g, a, b, i, j)

LEMMA DistanceIs ==
    ASSUME NEW m \in Nat, NEW n \in Nat
    PROVE  Distance(m, n) \in Nat /\ (m <= n => Distance(m, n) = n - m) /\ (n <= m => Distance(m, n) = m - n)
BY DEF Distance

LEMMA GapIs ==
    ASSUME NEW a \in Seq(Nat), NEW b \in Seq(Nat), NEW i \in Nat, NEW j \in Nat
    PROVE  GapAt(a, b, i, j) \in Nat /\ i * Len(b) \in Nat /\ j * Len(a) \in Nat
<1>1. i * Len(b) \in Nat /\ j * Len(a) \in Nat
  <2>1. Len(a) \in Nat /\ Len(b) \in Nat
    OBVIOUS
  <2> QED BY <2>1, Times
<1> QED BY <1>1, DistanceIs DEF GapAt

MovesOn(a, b, i, j, i2, j2) ==
    /\ GoesOn(a, b, i, j) = <<i2, j2>>
    /\ Remaining(a, b, i2, j2) = Remaining(a, b, i, j) - 1
    /\ \/ i2 = i + 1 /\ j2 = j /\ a[i + 1] <= b[j + 1]
       \/ i2 = i /\ j2 = j + 1 /\ ~(a[i + 1] <= b[j + 1])

LEMMA GoesOnIs ==
    ASSUME NEW a \in Seq(Nat), NEW b \in Seq(Nat), NEW i \in 0..Len(a), NEW j \in 0..Len(b),
           i # Len(a), j # Len(b)
    PROVE  \E i2 \in 0..Len(a) : \E j2 \in 0..Len(b) : MovesOn(a, b, i, j, i2, j2)
<1>1. Len(a) \in Nat /\ Len(b) \in Nat
  OBVIOUS
<1>2. CASE a[i + 1] <= b[j + 1]
  <2>1. i + 1 \in 0..Len(a) /\ Remaining(a, b, i + 1, j) = Remaining(a, b, i, j) - 1
    BY <1>1 DEF Remaining
  <2>2. GoesOn(a, b, i, j) = <<i + 1, j>>
    BY <1>2 DEF GoesOn
  <2> QED BY <1>2, <2>1, <2>2 DEF MovesOn
<1>3. CASE ~(a[i + 1] <= b[j + 1])
  <2>1. j + 1 \in 0..Len(b) /\ Remaining(a, b, i, j + 1) = Remaining(a, b, i, j) - 1
    BY <1>1 DEF Remaining
  <2>2. GoesOn(a, b, i, j) = <<i, j + 1>>
    BY <1>3 DEF GoesOn
  <2> QED BY <1>3, <2>1, <2>2 DEF MovesOn
<1> QED BY <1>2, <1>3

LEMMA LeftIs ==
    ASSUME NEW a \in Seq(Nat), NEW b \in Seq(Nat), NEW i \in 0..Len(a), NEW j \in 0..Len(b)
    PROVE  Remaining(a, b, i, j) \in Nat /\ Remaining(a, b, i, j) <= Len(a) + Len(b) /\ Len(a) + Len(b) \in Nat
<1>1. Len(a) \in Nat /\ Len(b) \in Nat
  OBVIOUS
<1> QED BY <1>1 DEF Remaining

LEMMA MergeEnds ==
    ASSUME NEW a \in Seq(Nat), NEW b \in Seq(Nat), NEW n \in Nat
    PROVE  \E g : Merges(g, a, b, n)
<1> DEFINE S == {k \in Nat : ~\E g : Merges(g, a, b, k)}
           P == (0..Len(a)) \X (0..Len(b))
<1>1. ASSUME NEW k \in Nat, k = 0 \/ \E g : Merges(g, a, b, k - 1) PROVE \E g : Merges(g, a, b, k)
  <2>1. PICK g : k = 0 \/ Merges(g, a, b, k - 1)
    BY <1>1
  <2> DEFINE h == [p \in P |-> MergedAt(g, a, b, p[1], p[2])]
  <2>2. ASSUME NEW i \in 0..Len(a), NEW j \in 0..Len(b) PROVE h[<<i, j>>] = MergedAt(g, a, b, i, j)
    OBVIOUS
  <2> HIDE DEF h
  <2>3. ASSUME NEW i \in 0..Len(a), NEW j \in 0..Len(b), Remaining(a, b, i, j) <= k - 1, k # 0
        PROVE  h[<<i, j>>] = g[<<i, j>>]
    <3>1. g[<<i, j>>] = MergedAt(g, a, b, i, j)
      BY <2>1, <2>3 DEF Merges
    <3> QED BY <2>2, <3>1
  <2>4. ASSUME NEW i \in 0..Len(a), NEW j \in 0..Len(b), Remaining(a, b, i, j) <= k
        PROVE  h[<<i, j>>] = MergedAt(h, a, b, i, j)
    <3>1. h[<<i, j>>] = MergedAt(g, a, b, i, j)
      BY <2>2
    <3>2. CASE i = Len(a) \/ j = Len(b)
      BY <3>1, <3>2 DEF MergedAt
    <3>3. CASE ~(i = Len(a) \/ j = Len(b))
      <4>1. PICK i2 \in 0..Len(a), j2 \in 0..Len(b) : MovesOn(a, b, i, j, i2, j2)
        BY <3>3, GoesOnIs
      <4> DEFINE here == Remaining(a, b, i, j)
                 there == Remaining(a, b, i2, j2)
      <4>2. here \in Nat /\ there \in Nat /\ there = here - 1 /\ here <= k
        BY <2>4, <4>1, LeftIs DEF MovesOn
      <4> HIDE DEF here, there
      <4>3. there <= k - 1 /\ k # 0
        BY <4>2
      <4>4. h[<<i2, j2>>] = g[<<i2, j2>>]
        BY <2>3, <4>3 DEF there
      <4> QED BY <3>1, <3>3, <4>1, <4>4 DEF MergedAt, MovesOn
    <3> QED BY <3>2, <3>3
  <2>5. Merges(h, a, b, k)
    BY <2>4 DEF Merges
  <2> QED BY <2>5
<1>2. ASSUME S # {} PROVE FALSE
  <2>1. S \in SUBSET Nat
    OBVIOUS
  <2>2. PICK k \in S : \A j \in S : k <= j
    <3> HIDE DEF S
    <3> QED BY <1>2, <2>1, LeastNumber
  <2>3. k \in Nat /\ ~\E g : Merges(g, a, b, k)
    OBVIOUS
  <2>4. k = 0 \/ k - 1 \in Nat
    BY <2>3
  <2>5. ~(k - 1 \in S)
    <3>1. ~(k <= k - 1)
      BY <2>3
    <3> HIDE DEF S
    <3> QED BY <2>2, <3>1
  <2>6. k = 0 \/ \E g : Merges(g, a, b, k - 1)
    BY <2>4, <2>5
  <2> QED BY <1>1, <2>3, <2>6
<1> QED BY <1>2

LEMMA MergeIs ==
    ASSUME NEW a \in Seq(Nat), NEW b \in Seq(Nat)
    PROVE  \E f : /\ Merge2(a, b) = f[<<0, 0>>]
                  /\ \A i \in 0..Len(a), j \in 0..Len(b) : f[<<i, j>>] = MergedAt(f, a, b, i, j)
<1> DEFINE P == (0..Len(a)) \X (0..Len(b))
           Value(f, p) == IF p[1] = Len(a) \/ p[2] = Len(b) THEN 0
                          ELSE LET next == IF a[p[1] + 1] <= b[p[2] + 1] THEN <<p[1] + 1, p[2]>> ELSE <<p[1], p[2] + 1>>
                                   here == Distance(next[1] * Len(b), next[2] * Len(a))
                               IN  IF here > f[next] THEN here ELSE f[next]
           IsD(f) == f = [p \in P |-> Value(f, p)]
<1>1. ASSUME NEW f, NEW i \in 0..Len(a), NEW j \in 0..Len(b) PROVE Value(f, <<i, j>>) = MergedAt(f, a, b, i, j)
  BY DEF MergedAt, GoesOn, GapAt, Larger
<1>2. ASSUME NEW p \in P PROVE \E i \in 0..Len(a), j \in 0..Len(b) : p = <<i, j>>
  OBVIOUS
<1>3. ASSUME NEW i \in 0..Len(a), NEW j \in 0..Len(b) PROVE <<i, j>> \in P
  OBVIOUS
<1>4. \E f : IsD(f)
  <2>1. Len(a) + Len(b) \in Nat
    OBVIOUS
  <2>2. PICK g : Merges(g, a, b, Len(a) + Len(b))
    BY <2>1, MergeEnds
  <2> DEFINE f == [p \in P |-> g[p]]
  <2>3. ASSUME NEW i \in 0..Len(a), NEW j \in 0..Len(b) PROVE f[<<i, j>>] = Value(f, <<i, j>>)
    <3>1. g[<<i, j>>] = MergedAt(g, a, b, i, j)
      BY <2>2, LeftIs DEF Merges
    <3>2. f[<<i, j>>] = g[<<i, j>>]
      BY <1>3
    <3>3. MergedAt(f, a, b, i, j) = MergedAt(g, a, b, i, j)
      <4>1. CASE i = Len(a) \/ j = Len(b)
        BY <4>1 DEF MergedAt
      <4>2. CASE ~(i = Len(a) \/ j = Len(b))
        <5>1. PICK i2 \in 0..Len(a), j2 \in 0..Len(b) : MovesOn(a, b, i, j, i2, j2)
          BY <4>2, GoesOnIs
        <5>2. f[<<i2, j2>>] = g[<<i2, j2>>]
          BY <1>3
        <5> HIDE DEF f
        <5> QED BY <4>2, <5>1, <5>2 DEF MergedAt, MovesOn
      <4> QED BY <4>1, <4>2
    <3> HIDE DEF f, Value
    <3> QED BY <1>1, <3>1, <3>2, <3>3
  <2>4. \A p \in P : f[p] = Value(f, p)
    <3> HIDE DEF f, Value, P
    <3> QED BY <1>2, <2>3
  <2>5. f = [p \in P |-> f[p]]
    OBVIOUS
  <2> HIDE DEF f, Value, P
  <2>6. IsD(f)
    BY <2>4, <2>5
  <2> QED BY <2>6
<1>5. PICK f : IsD(f) /\ Merge2(a, b) = f[<<0, 0>>]
  <2> DEFINE F == CHOOSE d : IsD(d)
  <2>1. IsD(F)
    <3> HIDE DEF IsD
    <3> QED BY <1>4
  <2>2. Merge2(a, b) = F[<<0, 0>>]
    BY DEF Merge2
  <2> QED BY <2>1, <2>2
<1>6. ASSUME NEW i \in 0..Len(a), NEW j \in 0..Len(b) PROVE f[<<i, j>>] = MergedAt(f, a, b, i, j)
  <2>1. f[<<i, j>>] = Value(f, <<i, j>>)
    <3>1. f = [p \in P |-> Value(f, p)]
      BY <1>5
    <3> HIDE DEF Value, P
    <3> QED BY <1>3, <3>1
  <2> QED BY <1>1, <2>1
<1> QED BY <1>5, <1>6

MergesAll(f, a, b) == \A i \in 0..Len(a), j \in 0..Len(b) : f[<<i, j>>] = MergedAt(f, a, b, i, j)

MovesWith(f, a, b, i, j, i2, j2) ==
    MovesOn(a, b, i, j, i2, j2) /\ f[<<i, j>>] = Larger(GapAt(a, b, i2, j2), f[<<i2, j2>>])

LEMMA MergeMoves ==
    ASSUME NEW a \in Seq(Nat), NEW b \in Seq(Nat), NEW f, MergesAll(f, a, b),
           NEW i \in 0..Len(a), NEW j \in 0..Len(b), i # Len(a), j # Len(b)
    PROVE  \E i2 \in 0..Len(a) : \E j2 \in 0..Len(b) : MovesWith(f, a, b, i, j, i2, j2)
<1>1. PICK i2 \in 0..Len(a), j2 \in 0..Len(b) : MovesOn(a, b, i, j, i2, j2)
  BY GoesOnIs
<1>2. f[<<i, j>>] = MergedAt(f, a, b, i, j)
  BY DEF MergesAll
<1>3. GoesOn(a, b, i, j) = <<i2, j2>>
  BY <1>1 DEF MovesOn
<1>4. f[<<i, j>>] = Larger(GapAt(a, b, i2, j2), f[<<i2, j2>>])
  BY <1>2, <1>3 DEF MergedAt
<1> QED BY <1>1, <1>4 DEF MovesWith

\* What holds at the end of the merge, and at each place if it holds at the next.
LEMMA FromTheEnd ==
    ASSUME NEW a \in Seq(Nat), NEW b \in Seq(Nat),
           NEW G \in SUBSET ((0..Len(a)) \X (0..Len(b))),
           \A i \in 0..Len(a), j \in 0..Len(b) :
              i = Len(a) \/ j = Len(b) => <<i, j>> \in G,
           \A i \in 0..Len(a), j \in 0..Len(b) :
              /\ i # Len(a) /\ j # Len(b)
              /\ \A i2 \in 0..Len(a), j2 \in 0..Len(b) : MovesOn(a, b, i, j, i2, j2) => <<i2, j2>> \in G
              => <<i, j>> \in G
    PROVE  \A i \in 0..Len(a), j \in 0..Len(b) : <<i, j>> \in G
<1> DEFINE Bad(i, j) == ~(<<i, j>> \in G)
           S == {n \in Nat : \E i \in 0..Len(a) : \E j \in 0..Len(b) : Remaining(a, b, i, j) = n /\ Bad(i, j)}
<1>1. ASSUME S # {} PROVE FALSE
  <2>1. S \in SUBSET Nat
    OBVIOUS
  <2>2. PICK n \in S : \A m \in S : n <= m
    <3> HIDE DEF S
    <3> QED BY <1>1, <2>1, LeastNumber
  <2>3. PICK i \in 0..Len(a), j \in 0..Len(b) : Remaining(a, b, i, j) = n /\ Bad(i, j)
    OBVIOUS
  <2>4. i # Len(a) /\ j # Len(b)
    BY <2>3
  <2>5. ASSUME NEW i2 \in 0..Len(a), NEW j2 \in 0..Len(b), MovesOn(a, b, i, j, i2, j2) PROVE <<i2, j2>> \in G
    <3> DEFINE m == Remaining(a, b, i2, j2)
    <3>1. m \in Nat /\ n \in Nat /\ m = n - 1
      BY <2>1, <2>3, <2>5, LeftIs DEF MovesOn
    <3>2. ASSUME Bad(i2, j2) PROVE m \in S
      BY <3>1, <3>2
    <3> HIDE DEF m, S, Bad
    <3>3. ~(n <= m)
      BY <3>1
    <3>4. ~Bad(i2, j2)
      BY <2>2, <3>2, <3>3
    <3> QED BY <3>4 DEF Bad
  <2>6. <<i, j>> \in G
    BY <2>4, <2>5
  <2> QED BY <2>3, <2>6
<1>2. ASSUME NEW i \in 0..Len(a), NEW j \in 0..Len(b), Bad(i, j) PROVE Remaining(a, b, i, j) \in S
  <2>1. Remaining(a, b, i, j) \in Nat
    BY LeftIs
  <2> HIDE DEF Bad
  <2> QED BY <1>2, <2>1
<1> HIDE DEF S
<1> QED BY <1>1, <1>2

LEMMA LargerIs ==
    ASSUME NEW x \in Nat, NEW y \in Nat
    PROVE  Larger(x, y) \in Nat /\ Larger(x, y) >= x /\ Larger(x, y) >= y /\ (Larger(x, y) = x \/ Larger(x, y) = y)
BY DEF Larger

LEMMA MergedNumbers ==
    ASSUME NEW a \in Seq(Nat), NEW b \in Seq(Nat), NEW f, MergesAll(f, a, b)
    PROVE  \A i \in 0..Len(a), j \in 0..Len(b) : f[<<i, j>>] \in Nat
<1> DEFINE P == (0..Len(a)) \X (0..Len(b))
           G == {p \in P : f[p] \in Nat}
<1>1. G \in SUBSET P /\ \A i \in 0..Len(a), j \in 0..Len(b) : <<i, j>> \in G <=> f[<<i, j>>] \in Nat
  OBVIOUS
<1> HIDE DEF G
<1>2. ASSUME NEW i \in 0..Len(a), NEW j \in 0..Len(b), i = Len(a) \/ j = Len(b) PROVE <<i, j>> \in G
  <2>1. f[<<i, j>>] = 0
    BY <1>2 DEF MergesAll, MergedAt
  <2> QED BY <1>1, <2>1
<1>3. ASSUME NEW i \in 0..Len(a), NEW j \in 0..Len(b), i # Len(a), j # Len(b),
             \A i2 \in 0..Len(a), j2 \in 0..Len(b) : MovesOn(a, b, i, j, i2, j2) => <<i2, j2>> \in G
      PROVE  <<i, j>> \in G
  <2>0. i # Len(a) /\ j # Len(b)
    BY <1>3
  <2>a. PICK i2 \in 0..Len(a), j2 \in 0..Len(b) : MovesWith(f, a, b, i, j, i2, j2)
    BY <2>0, MergeMoves
  <2>1. MovesOn(a, b, i, j, i2, j2) /\ f[<<i, j>>] = Larger(GapAt(a, b, i2, j2), f[<<i2, j2>>])
    BY <2>a DEF MovesWith
  <2>2. f[<<i2, j2>>] \in Nat
    BY <1>1, <1>3, <2>1
  <2>3. i2 \in Nat /\ j2 \in Nat
    OBVIOUS
  <2>4. GapAt(a, b, i2, j2) \in Nat
    BY <2>3, GapIs
  <2>5. f[<<i, j>>] \in Nat
    BY <2>1, <2>2, <2>4, LargerIs
  <2> QED BY <1>1, <2>5
<1> HIDE DEF P
<1>4. \A i \in 0..Len(a), j \in 0..Len(b) : <<i, j>> \in G
  BY <1>1, <1>2, <1>3, FromTheEnd DEF P
<1> QED BY <1>1, <1>4

\* Beyond the end of a list the distance only falls.
LEMMA GapFalls ==
    ASSUME NEW a \in Seq(Nat), NEW b \in Seq(Nat)
    PROVE  /\ \A j, j2 \in 0..Len(b) : j2 <= j => GapAt(a, b, Len(a), j) <= GapAt(a, b, Len(a), j2)
           /\ \A i, i2 \in 0..Len(a) : i2 <= i => GapAt(a, b, i, Len(b)) <= GapAt(a, b, i2, Len(b))
<1> DEFINE La == Len(a)
           Lb == Len(b)
<1>0. La \in Nat /\ Lb \in Nat
  OBVIOUS
<1> HIDE DEF La, Lb
<1>1. La * Lb \in Nat /\ La * Lb = Lb * La
  BY <1>0
<1>2. ASSUME NEW j \in 0..Lb, NEW j2 \in 0..Lb, j2 <= j PROVE Distance(La * Lb, j * La) <= Distance(La * Lb, j2 * La)
  <2>1. j \in Nat /\ j2 \in Nat /\ j <= Lb
    BY <1>0
  <2>2. j2 * La <= j * La /\ j * La <= Lb * La /\ j2 * La \in Nat /\ j * La \in Nat
    BY <1>0, <1>2, <2>1, Times
  <2> DEFINE x == j * La
             y == j2 * La
             z == La * Lb
  <2>3. x \in Nat /\ y \in Nat /\ z \in Nat /\ y <= x /\ x <= z
    BY <1>1, <2>2
  <2> HIDE DEF x, y, z
  <2>4. Distance(z, x) <= Distance(z, y)
    BY <2>3 DEF Distance
  <2> QED BY <2>4 DEF x, y, z
<1>3. ASSUME NEW i \in 0..La, NEW i2 \in 0..La, i2 <= i PROVE Distance(i * Lb, Lb * La) <= Distance(i2 * Lb, Lb * La)
  <2>1. i \in Nat /\ i2 \in Nat /\ i <= La
    BY <1>0
  <2>2. i2 * Lb <= i * Lb /\ i * Lb <= La * Lb /\ i2 * Lb \in Nat /\ i * Lb \in Nat
    BY <1>0, <1>3, <2>1, Times
  <2> DEFINE x == i * Lb
             y == i2 * Lb
             z == Lb * La
  <2>3. x \in Nat /\ y \in Nat /\ z \in Nat /\ y <= x /\ x <= z
    BY <1>1, <2>2
  <2> HIDE DEF x, y, z
  <2>4. Distance(x, z) <= Distance(y, z)
    BY <2>3 DEF Distance
  <2> QED BY <2>4 DEF x, y, z
<1> QED BY <1>2, <1>3 DEF GapAt, La, Lb

\* The merge comes by each value, or has ended at a place that is no nearer.
LEMMA MergeReaches ==
    ASSUME NEW a \in Seq(Nat), NEW b \in Seq(Nat), NEW f, MergesAll(f, a, b), NEW x \in Int,
           NEW p \in 0..Len(a), NEW q \in 0..Len(b),
           \A k \in 1..Len(a) : a[k] <= x <=> k <= p,
           \A l \in 1..Len(b) : b[l] <= x <=> l <= q
    PROVE  \A i \in 0..Len(a), j \in 0..Len(b) :
              /\ i <= p /\ j <= q /\ ~(i = p /\ j = q)
              /\ i # Len(a) /\ j # Len(b)
              => f[<<i, j>>] >= GapAt(a, b, p, q)
<1> DEFINE P == (0..Len(a)) \X (0..Len(b))
           Before(i, j) == i <= p /\ j <= q /\ ~(i = p /\ j = q) /\ i # Len(a) /\ j # Len(b)
           Fine(i, j) == Before(i, j) => f[<<i, j>>] >= GapAt(a, b, p, q)
           G == {c \in P : Fine(c[1], c[2])}
<1>0. Len(a) \in Nat /\ Len(b) \in Nat /\ p \in Nat /\ q \in Nat /\ GapAt(a, b, p, q) \in Nat
  <2>1. p \in Nat /\ q \in Nat
    OBVIOUS
  <2> QED BY <2>1, GapIs
<1>1. G \in SUBSET P /\ \A i \in 0..Len(a), j \in 0..Len(b) : <<i, j>> \in G <=> Fine(i, j)
  <2> HIDE DEF Fine
  <2> QED OBVIOUS
<1> HIDE DEF G, P
<1>2. ASSUME NEW i \in 0..Len(a), NEW j \in 0..Len(b), i = Len(a) \/ j = Len(b) PROVE <<i, j>> \in G
  <2>1. Fine(i, j)
    BY <1>2
  <2> QED BY <1>1, <2>1
<1>3. ASSUME NEW i \in 0..Len(a), NEW j \in 0..Len(b), i # Len(a), j # Len(b),
             \A i2 \in 0..Len(a), j2 \in 0..Len(b) : MovesOn(a, b, i, j, i2, j2) => <<i2, j2>> \in G
      PROVE  <<i, j>> \in G
  <2> SUFFICES ASSUME Before(i, j) PROVE f[<<i, j>>] >= GapAt(a, b, p, q)
    BY <1>1
  <2>0. i # Len(a) /\ j # Len(b)
    BY <1>3
  <2>a. PICK i2 \in 0..Len(a), j2 \in 0..Len(b) : MovesWith(f, a, b, i, j, i2, j2)
    BY <2>0, MergeMoves
  <2>1. MovesOn(a, b, i, j, i2, j2) /\ f[<<i, j>>] = Larger(GapAt(a, b, i2, j2), f[<<i2, j2>>])
    BY <2>a DEF MovesWith
  <2>2. Fine(i2, j2)
    BY <1>1, <1>3, <2>1
  <2>3. /\ \/ i2 = i + 1 /\ j2 = j /\ a[i + 1] <= b[j + 1]
           \/ i2 = i /\ j2 = j + 1 /\ ~(a[i + 1] <= b[j + 1])
        /\ i \in Nat /\ j \in Nat /\ i2 \in Nat /\ j2 \in Nat
    BY <2>1 DEF MovesOn
  <2>4. i + 1 \in 1..Len(a) /\ j + 1 \in 1..Len(b)
    BY <1>0, <2>0, <2>3
  <2>5. a[i + 1] \in Nat /\ b[j + 1] \in Nat
    <3>1. \A n \in 1..Len(a) : a[n] \in Nat
      BY NumbersOf
    <3>2. \A n \in 1..Len(b) : b[n] \in Nat
      BY NumbersOf
    <3> QED BY <2>4, <3>1, <3>2
  <2>6. (a[i + 1] <= x <=> i + 1 <= p) /\ (b[j + 1] <= x <=> j + 1 <= q)
    BY <2>4
  <2>7. i2 <= p /\ j2 <= q
    <3> DEFINE u == a[i + 1]
               v == b[j + 1]
    <3>1. u \in Nat /\ v \in Nat /\ (u <= x <=> i + 1 <= p) /\ (v <= x <=> j + 1 <= q)
      BY <2>5, <2>6
    <3>2. \/ i2 = i + 1 /\ j2 = j /\ u <= v
          \/ i2 = i /\ j2 = j + 1 /\ ~(u <= v)
      BY <2>3
    <3>3. i <= p /\ j <= q /\ i \in Nat /\ j \in Nat /\ p \in Nat /\ q \in Nat
      BY <1>0, <2>3
    <3> HIDE DEF u, v
    <3>4. CASE i2 = i + 1 /\ j2 = j /\ u <= v
      <4>1. v <= x => u <= x
        BY <3>1, <3>4
      <4>2. u <= x
        <5>1. i # p \/ j # q
          OBVIOUS
        <5>2. i # p => i + 1 <= p
          BY <3>3
        <5>3. j # q => j + 1 <= q
          BY <3>3
        <5> QED BY <3>1, <4>1, <5>1, <5>2, <5>3
      <4> QED BY <3>1, <3>3, <3>4, <4>2
    <3>5. CASE i2 = i /\ j2 = j + 1 /\ ~(u <= v)
      <4>1. u <= x => v <= x
        BY <3>1, <3>5
      <4>2. v <= x
        <5>1. i # p \/ j # q
          OBVIOUS
        <5>2. i # p => i + 1 <= p
          BY <3>3
        <5>3. j # q => j + 1 <= q
          BY <3>3
        <5> QED BY <3>1, <4>1, <5>1, <5>2, <5>3
      <4> QED BY <3>1, <3>3, <3>5, <4>2
    <3> QED BY <3>2, <3>4, <3>5
  <2>8. GapAt(a, b, i2, j2) \in Nat /\ f[<<i2, j2>>] \in Nat
    BY <2>3, GapIs, MergedNumbers
  <2>9. f[<<i, j>>] \in Nat /\ f[<<i, j>>] >= GapAt(a, b, i2, j2) /\ f[<<i, j>>] >= f[<<i2, j2>>]
    BY <2>1, <2>8, LargerIs
  <2> DEFINE F == f[<<i, j>>]
             D == GapAt(a, b, p, q)
  <2>14. \A d \in Nat : (D <= d /\ F >= d) => F >= D
    <3>1. F \in Nat /\ D \in Nat
      BY <1>0, <2>9
    <3> HIDE DEF F, D
    <3> QED BY <3>1
  <2> HIDE DEF F
  <2>10. CASE i2 = p /\ j2 = q
    BY <2>9, <2>10 DEF F
  <2>11. CASE i2 = Len(a)
    <3>1. p = i2
      BY <1>0, <2>3, <2>7, <2>11
    <3>2. GapAt(a, b, p, q) <= GapAt(a, b, i2, j2)
      BY <2>7, <2>11, <3>1, GapFalls
    <3>3. F >= GapAt(a, b, i2, j2)
      BY <2>9 DEF F
    <3> QED BY <2>8, <2>14, <3>2, <3>3 DEF F
  <2>12. CASE j2 = Len(b)
    <3>1. q = j2
      BY <1>0, <2>3, <2>7, <2>12
    <3>2. GapAt(a, b, p, q) <= GapAt(a, b, i2, j2)
      BY <2>7, <2>12, <3>1, GapFalls
    <3>3. F >= GapAt(a, b, i2, j2)
      BY <2>9 DEF F
    <3> QED BY <2>8, <2>14, <3>2, <3>3 DEF F
  <2>13. CASE ~(i2 = p /\ j2 = q) /\ i2 # Len(a) /\ j2 # Len(b)
    <3>1. f[<<i2, j2>>] >= GapAt(a, b, p, q)
      BY <2>2, <2>7, <2>13
    <3>2. F >= f[<<i2, j2>>] /\ D <= f[<<i2, j2>>]
      BY <1>0, <2>8, <2>9, <3>1 DEF F
    <3> QED BY <2>8, <2>14, <3>2 DEF F
  <2> QED BY <2>10, <2>11, <2>12, <2>13
<1>4. \A i \in 0..Len(a), j \in 0..Len(b) : <<i, j>> \in G
  BY <1>1, <1>2, <1>3, FromTheEnd DEF P
<1> QED BY <1>1, <1>4

\* Between two distances of one row, or of one column, none is larger than both.
LEMMA GapBetween ==
    ASSUME NEW a \in Seq(Nat), NEW b \in Seq(Nat), NEW j \in Nat, NEW i \in Nat, NEW lo \in Nat, NEW hi \in Nat,
           lo <= i, i <= hi, NEW M \in Nat
    PROVE  /\ GapAt(a, b, lo, j) <= M /\ GapAt(a, b, hi, j) <= M => GapAt(a, b, i, j) <= M
           /\ GapAt(a, b, j, lo) <= M /\ GapAt(a, b, j, hi) <= M => GapAt(a, b, j, i) <= M
<1>0. Len(a) \in Nat /\ Len(b) \in Nat
  OBVIOUS
<1>1. ASSUME NEW x \in Nat, NEW y \in Nat, NEW z \in Nat, NEW w \in Nat, x <= y, y <= z
      PROVE  /\ Distance(x, w) <= M /\ Distance(z, w) <= M => Distance(y, w) <= M
             /\ Distance(w, x) <= M /\ Distance(w, z) <= M => Distance(w, y) <= M
  BY <1>1 DEF Distance
<1>2. /\ lo * Len(b) \in Nat /\ i * Len(b) \in Nat /\ hi * Len(b) \in Nat /\ j * Len(a) \in Nat
      /\ lo * Len(b) <= i * Len(b) /\ i * Len(b) <= hi * Len(b)
  <2> DEFINE m == Len(b)
             n == Len(a)
  <2>1. m \in Nat /\ n \in Nat
    BY <1>0
  <2> HIDE DEF m, n
  <2>2. lo * m <= i * m /\ lo * m \in Nat
    BY <2>1, Times
  <2>3. i * m <= hi * m /\ i * m \in Nat
    BY <2>1, Times
  <2>4. hi * m \in Nat /\ j * n \in Nat
    BY <2>1, Times
  <2> QED BY <2>2, <2>3, <2>4 DEF m, n
<1>3. /\ lo * Len(a) \in Nat /\ i * Len(a) \in Nat /\ hi * Len(a) \in Nat /\ j * Len(b) \in Nat
      /\ lo * Len(a) <= i * Len(a) /\ i * Len(a) <= hi * Len(a)
  <2> DEFINE m == Len(a)
             n == Len(b)
  <2>1. m \in Nat /\ n \in Nat
    BY <1>0
  <2> HIDE DEF m, n
  <2>2. lo * m <= i * m /\ lo * m \in Nat
    BY <2>1, Times
  <2>3. i * m <= hi * m /\ i * m \in Nat
    BY <2>1, Times
  <2>4. hi * m \in Nat /\ j * n \in Nat
    BY <2>1, Times
  <2> QED BY <2>2, <2>3, <2>4 DEF m, n
<1>4. GapAt(a, b, lo, j) <= M /\ GapAt(a, b, hi, j) <= M => GapAt(a, b, i, j) <= M
  BY <1>1, <1>2 DEF GapAt
<1>5. GapAt(a, b, j, lo) <= M /\ GapAt(a, b, j, hi) <= M => GapAt(a, b, j, i) <= M
  BY <1>1, <1>3 DEF GapAt
<1> QED BY <1>4, <1>5

\* Where the merge can be: what it has passed is not above what it has not.
Between(a, b, i, j) ==
    /\ \A k \in 1..Len(a), l \in 1..Len(b) : k <= i /\ l > j => a[k] <= b[l]
    /\ \A k \in 1..Len(a), l \in 1..Len(b) : l <= j /\ k > i => b[l] < a[k]

\* In a list that is sorted, as many are not above x as come before the first
\* that is.
LEMMA BelowIs ==
    ASSUME NEW s \in Seq(Nat), Sorted(s), NEW x \in Int, NEW n \in 0..Len(s),
           \A k \in 1..Len(s) : k = n => s[k] <= x,
           \A k \in 1..Len(s) : k = n + 1 => s[k] > x
    PROVE  Below(s, x) = n
<1> DEFINE c == Below(s, x)
           L == Len(s)
<1>1. c \in 0..L /\ \A k \in 1..L : s[k] <= x <=> k <= c
  BY BelowSplits
<1>2. L \in Nat /\ n \in Nat /\ n <= L
  OBVIOUS
<1>3. \A k \in 1..L : s[k] \in Nat
  BY NumbersOf
<1> HIDE DEF c, L
<1>4. n <= c
  <2>1. CASE n = 0
    BY <1>1, <1>2, <2>1
  <2>2. CASE n # 0
    <3>1. n \in 1..L
      BY <1>2, <2>2
    <3>2. s[n] <= x
      BY <3>1 DEF L
    <3> QED BY <1>1, <3>1, <3>2
  <2> QED BY <2>1, <2>2
<1>5. c <= n
  <2>1. CASE n = L
    BY <1>1, <1>2, <2>1
  <2>2. CASE n # L
    <3>1. n + 1 \in 1..L
      BY <1>2, <2>2
    <3>2. s[n + 1] > x
      BY <3>1 DEF L
    <3>3. s[n + 1] \in Nat /\ ~(s[n + 1] <= x)
      BY <1>3, <3>1, <3>2
    <3>4. ~(n + 1 <= c)
      BY <1>1, <3>1, <3>3
    <3> QED BY <1>1, <1>2, <3>4
  <2> QED BY <2>1, <2>2
<1>6. c = n
  <2>1. c \in Nat
    BY <1>1, <1>2
  <2> QED BY <1>2, <1>4, <1>5, <2>1
<1> QED BY <1>6 DEF c

\* Without a value in both lists, a place of the merge is between two values.
LEMMA PlaceIsBetween ==
    ASSUME NEW a \in Seq(Nat), NEW b \in Seq(Nat), Sorted(a), Sorted(b), NEW M \in Nat,
           \A k \in 1..Len(a), l \in 1..Len(b) : a[k] # b[l],
           \A x \in Int : GapAt(a, b, Below(a, x), Below(b, x)) <= M,
           NEW i \in 0..Len(a), NEW j \in 0..Len(b), Between(a, b, i, j), ~(i = 0 /\ j = 0)
    PROVE  GapAt(a, b, i, j) <= M
<1>0. Len(a) \in Nat /\ Len(b) \in Nat /\ i \in Nat /\ j \in Nat /\ i <= Len(a) /\ j <= Len(b)
  OBVIOUS
<1>a. \A k \in 1..Len(a) : a[k] \in Nat
  BY NumbersOf
<1>b. \A l \in 1..Len(b) : b[l] \in Nat
  BY NumbersOf
<1>1. CASE i # 0 /\ (j # 0 => b[j] < a[i])
  <2>1. i \in 1..Len(a)
    BY <1>0, <1>1
  <2> DEFINE v == a[i]
  <2>2. v \in Nat /\ v - 1 \in Int /\ v \in Int
    BY <1>a, <2>1
  <2>3. ASSUME NEW l \in 1..Len(b), l = j PROVE b[l] <= v - 1 /\ b[l] <= v
    <3>1. b[l] < v /\ b[l] \in Nat
      BY <1>1, <1>b, <2>3
    <3> HIDE DEF v
    <3> QED BY <2>2, <3>1
  <2>4. ASSUME NEW l \in 1..Len(b), l = j + 1 PROVE b[l] > v /\ b[l] > v - 1
    <3>1. l > j
      BY <1>0, <2>4
    <3>2. v <= b[l] /\ v # b[l] /\ b[l] \in Nat
      BY <1>0, <1>b, <2>1, <3>1 DEF Between
    <3> HIDE DEF v
    <3> QED BY <2>2, <3>2
  <2>5. Below(b, v) = j
    <3> HIDE DEF v
    <3> QED BY <2>2, <2>3, <2>4, BelowIs
  <2>6. Below(b, v - 1) = j
    <3> DEFINE u == v - 1
    <3>1. u \in Int /\ (\A l \in 1..Len(b) : l = j => b[l] <= u) /\ (\A l \in 1..Len(b) : l = j + 1 => b[l] > u)
      BY <2>2, <2>3, <2>4
    <3> HIDE DEF u
    <3>2. Below(b, u) = j
      BY <3>1, BelowIs
    <3> QED BY <3>2 DEF u
  <2> DEFINE lo == Below(a, v - 1)
             hi == Below(a, v)
  <2>7. lo \in 0..Len(a) /\ (a[i] <= v - 1 <=> i <= lo)
    <3> DEFINE u == v - 1
    <3>1. u \in Int
      BY <2>2
    <3> HIDE DEF u
    <3>2. Below(a, u) \in 0..Len(a) /\ \A k \in 1..Len(a) : a[k] <= u <=> k <= Below(a, u)
      BY <3>1, BelowSplits
    <3>3. a[i] <= u <=> i <= Below(a, u)
      BY <2>1, <3>2
    <3> QED BY <3>2, <3>3 DEF u
  <2>8. hi \in 0..Len(a) /\ (a[i] <= v <=> i <= hi)
    <3> HIDE DEF v
    <3>2. Below(a, v) \in 0..Len(a) /\ \A k \in 1..Len(a) : a[k] <= v <=> k <= Below(a, v)
      BY <2>2, BelowSplits
    <3> QED BY <2>1, <3>2
  <2>9. GapAt(a, b, lo, j) <= M
    <3>1. GapAt(a, b, Below(a, v - 1), Below(b, v - 1)) <= M
      BY <2>2
    <3> QED BY <2>6, <3>1
  <2>10. GapAt(a, b, hi, j) <= M
    <3>1. GapAt(a, b, Below(a, v), Below(b, v)) <= M
      BY <2>2
    <3> QED BY <2>5, <3>1
  <2>11. ~(a[i] <= v - 1) /\ a[i] <= v
    <3>1. a[i] = v
      OBVIOUS
    <3> HIDE DEF v
    <3> QED BY <2>2, <3>1
  <2> HIDE DEF lo, hi, v
  <2>12. lo \in Nat /\ hi \in Nat /\ lo <= i /\ i <= hi
    BY <1>0, <2>7, <2>8, <2>11
  <2> QED BY <1>0, <2>9, <2>10, <2>12, GapBetween
<1>2. CASE j # 0 /\ (i # 0 => a[i] < b[j])
  <2>1. j \in 1..Len(b)
    BY <1>0, <1>2
  <2> DEFINE v == b[j]
  <2>2. v \in Nat /\ v - 1 \in Int /\ v \in Int
    BY <1>b, <2>1
  <2>3. ASSUME NEW k \in 1..Len(a), k = i PROVE a[k] <= v - 1 /\ a[k] <= v
    <3>1. a[k] < v /\ a[k] \in Nat
      BY <1>2, <1>a, <2>3
    <3> HIDE DEF v
    <3> QED BY <2>2, <3>1
  <2>4. ASSUME NEW k \in 1..Len(a), k = i + 1 PROVE a[k] > v /\ a[k] > v - 1
    <3>1. k > i
      BY <1>0, <2>4
    <3>2. v < a[k] /\ a[k] \in Nat
      BY <1>0, <1>a, <2>1, <3>1 DEF Between
    <3> HIDE DEF v
    <3> QED BY <2>2, <3>2
  <2>5. Below(a, v) = i
    <3> HIDE DEF v
    <3> QED BY <2>2, <2>3, <2>4, BelowIs
  <2>6. Below(a, v - 1) = i
    <3> DEFINE u == v - 1
    <3>1. u \in Int /\ (\A k \in 1..Len(a) : k = i => a[k] <= u) /\ (\A k \in 1..Len(a) : k = i + 1 => a[k] > u)
      BY <2>2, <2>3, <2>4
    <3> HIDE DEF u
    <3>2. Below(a, u) = i
      BY <3>1, BelowIs
    <3> QED BY <3>2 DEF u
  <2> DEFINE lo == Below(b, v - 1)
             hi == Below(b, v)
  <2>7. lo \in 0..Len(b) /\ (b[j] <= v - 1 <=> j <= lo)
    <3> DEFINE u == v - 1
    <3>1. u \in Int
      BY <2>2
    <3> HIDE DEF u
    <3>2. Below(b, u) \in 0..Len(b) /\ \A k \in 1..Len(b) : b[k] <= u <=> k <= Below(b, u)
      BY <3>1, BelowSplits
    <3>3. b[j] <= u <=> j <= Below(b, u)
      BY <2>1, <3>2
    <3> QED BY <3>2, <3>3 DEF u
  <2>8. hi \in 0..Len(b) /\ (b[j] <= v <=> j <= hi)
    <3> HIDE DEF v
    <3>2. Below(b, v) \in 0..Len(b) /\ \A k \in 1..Len(b) : b[k] <= v <=> k <= Below(b, v)
      BY <2>2, BelowSplits
    <3> QED BY <2>1, <3>2
  <2>9. GapAt(a, b, i, lo) <= M
    <3>1. GapAt(a, b, Below(a, v - 1), Below(b, v - 1)) <= M
      BY <2>2
    <3> QED BY <2>6, <3>1
  <2>10. GapAt(a, b, i, hi) <= M
    <3>1. GapAt(a, b, Below(a, v), Below(b, v)) <= M
      BY <2>2
    <3> QED BY <2>5, <3>1
  <2>11. ~(b[j] <= v - 1) /\ b[j] <= v
    <3>1. b[j] = v
      OBVIOUS
    <3> HIDE DEF v
    <3> QED BY <2>2, <3>1
  <2> HIDE DEF lo, hi, v
  <2>12. lo \in Nat /\ hi \in Nat /\ lo <= j /\ j <= hi
    BY <1>0, <2>7, <2>8, <2>11
  <2> QED BY <1>0, <2>9, <2>10, <2>12, GapBetween
<1>3. i # 0 /\ j # 0 => b[j] < a[i] \/ a[i] < b[j]
  <2> SUFFICES ASSUME i # 0, j # 0 PROVE b[j] < a[i] \/ a[i] < b[j]
    OBVIOUS
  <2>1. i \in 1..Len(a) /\ j \in 1..Len(b)
    BY <1>0
  <2>2. a[i] \in Nat /\ b[j] \in Nat /\ a[i] # b[j]
    BY <1>a, <1>b, <2>1
  <2> QED BY <2>2
<1> QED BY <1>1, <1>2, <1>3

\* Then no distance that the merge looks at is larger than that at some value.
LEMMA MergeWithin ==
    ASSUME NEW a \in Seq(Nat), NEW b \in Seq(Nat), Sorted(a), Sorted(b), NEW M \in Nat,
           \A k \in 1..Len(a), l \in 1..Len(b) : a[k] # b[l],
           \A x \in Int : GapAt(a, b, Below(a, x), Below(b, x)) <= M,
           NEW f, MergesAll(f, a, b)
    PROVE  \A i \in 0..Len(a), j \in 0..Len(b) : Between(a, b, i, j) => f[<<i, j>>] <= M
<1> DEFINE P == (0..Len(a)) \X (0..Len(b))
           Fine(i, j) == Between(a, b, i, j) => f[<<i, j>>] <= M
           G == {c \in P : Fine(c[1], c[2])}
<1>1. G \in SUBSET P /\ \A i \in 0..Len(a), j \in 0..Len(b) : <<i, j>> \in G <=> Fine(i, j)
  <2> HIDE DEF Fine
  <2> QED OBVIOUS
<1> HIDE DEF G, P
<1>2. ASSUME NEW i \in 0..Len(a), NEW j \in 0..Len(b), i = Len(a) \/ j = Len(b) PROVE <<i, j>> \in G
  <2>1. f[<<i, j>>] = 0
    BY <1>2 DEF MergesAll, MergedAt
  <2>2. f[<<i, j>>] <= M
    BY <2>1
  <2>3. Fine(i, j)
    BY <2>2
  <2> HIDE DEF Fine
  <2> QED BY <1>1, <2>3
<1>3. ASSUME NEW i \in 0..Len(a), NEW j \in 0..Len(b), i # Len(a), j # Len(b),
             \A i2 \in 0..Len(a), j2 \in 0..Len(b) : MovesOn(a, b, i, j, i2, j2) => <<i2, j2>> \in G
      PROVE  <<i, j>> \in G
  <2> SUFFICES ASSUME Between(a, b, i, j) PROVE f[<<i, j>>] <= M
    BY <1>1
  <2>0. i # Len(a) /\ j # Len(b)
    BY <1>3
  <2>a. PICK i2 \in 0..Len(a), j2 \in 0..Len(b) : MovesWith(f, a, b, i, j, i2, j2)
    BY <2>0, MergeMoves
  <2>1. MovesOn(a, b, i, j, i2, j2) /\ f[<<i, j>>] = Larger(GapAt(a, b, i2, j2), f[<<i2, j2>>])
    BY <2>a DEF MovesWith
  <2>2. Between(a, b, i2, j2) => f[<<i2, j2>>] <= M
    BY <1>1, <1>3, <2>1
  <2>3. Len(a) \in Nat /\ Len(b) \in Nat /\ i \in Nat /\ j \in Nat /\ i2 \in Nat /\ j2 \in Nat
    OBVIOUS
  <2>4. i + 1 \in 1..Len(a) /\ j + 1 \in 1..Len(b)
    BY <2>0, <2>3
  <2>b. \A k \in 1..Len(a) : a[k] \in Nat
    BY NumbersOf
  <2>c. \A l \in 1..Len(b) : b[l] \in Nat
    BY NumbersOf
  <2>d. \A k, n \in 1..Len(a) : k <= n => a[k] <= a[n]
    BY <2>3, <2>b DEF Sorted
  <2>e. \A k, n \in 1..Len(b) : k <= n => b[k] <= b[n]
    BY <2>3, <2>c DEF Sorted
  <2>5. Between(a, b, i2, j2)
    <3>1. CASE i2 = i + 1 /\ j2 = j /\ a[i + 1] <= b[j + 1]
      <4>1. ASSUME NEW k \in 1..Len(a), NEW l \in 1..Len(b), k <= i + 1, l > j PROVE a[k] <= b[l]
        <5>1. j + 1 <= l
          BY <2>3, <4>1
        <5>2. a[k] <= a[i + 1] /\ b[j + 1] <= b[l]
          BY <2>4, <2>d, <2>e, <4>1, <5>1
        <5>3. a[k] \in Nat /\ a[i + 1] \in Nat /\ b[j + 1] \in Nat /\ b[l] \in Nat
          BY <2>4, <2>b, <2>c
        <5> DEFINE p == a[k]
                   q == b[l]
                   r == a[i + 1]
                   s == b[j + 1]
        <5>4. p \in Nat /\ q \in Nat /\ r \in Nat /\ s \in Nat /\ p <= r /\ s <= q /\ r <= s
          BY <3>1, <5>2, <5>3
        <5> HIDE DEF p, q, r, s
        <5>5. p <= q
          BY <5>4
        <5> QED BY <5>5 DEF p, q
      <4>2. ASSUME NEW k \in 1..Len(a), NEW l \in 1..Len(b), l <= j, k > i + 1 PROVE b[l] < a[k]
        <5>1. k > i
          BY <2>3, <4>2
        <5> QED BY <4>2, <5>1 DEF Between
      <4> QED BY <3>1, <4>1, <4>2 DEF Between
    <3>2. CASE i2 = i /\ j2 = j + 1 /\ ~(a[i + 1] <= b[j + 1])
      <4>1. ASSUME NEW k \in 1..Len(a), NEW l \in 1..Len(b), k <= i, l > j + 1 PROVE a[k] <= b[l]
        <5>1. l > j
          BY <2>3, <4>1
        <5> QED BY <4>1, <5>1 DEF Between
      <4>2. ASSUME NEW k \in 1..Len(a), NEW l \in 1..Len(b), l <= j + 1, k > i PROVE b[l] < a[k]
        <5>1. i + 1 <= k
          BY <2>3, <4>2
        <5>2. a[i + 1] <= a[k] /\ b[l] <= b[j + 1]
          BY <2>4, <2>d, <2>e, <4>2, <5>1
        <5>3. a[k] \in Nat /\ a[i + 1] \in Nat /\ b[j + 1] \in Nat /\ b[l] \in Nat
          BY <2>4, <2>b, <2>c
        <5> DEFINE p == a[k]
                   q == b[l]
                   r == a[i + 1]
                   s == b[j + 1]
        <5>4. p \in Nat /\ q \in Nat /\ r \in Nat /\ s \in Nat /\ r <= p /\ q <= s /\ ~(r <= s)
          BY <3>2, <5>2, <5>3
        <5> HIDE DEF p, q, r, s
        <5>5. q < p
          BY <5>4
        <5> QED BY <5>5 DEF p, q
      <4> QED BY <3>2, <4>1, <4>2 DEF Between
    <3> QED BY <2>1, <3>1, <3>2 DEF MovesOn
  <2>6. ~(i2 = 0 /\ j2 = 0)
    BY <2>1, <2>3 DEF MovesOn
  <2>7. GapAt(a, b, i2, j2) <= M
    BY <2>5, <2>6, PlaceIsBetween
  <2>8. GapAt(a, b, i2, j2) \in Nat /\ f[<<i2, j2>>] \in Nat
    BY <2>3, GapIs, MergedNumbers
  <2>9. f[<<i, j>>] = GapAt(a, b, i2, j2) \/ f[<<i, j>>] = f[<<i2, j2>>]
    BY <2>1, <2>8, LargerIs
  <2> QED BY <2>2, <2>5, <2>7, <2>9
<1>4. \A i \in 0..Len(a), j \in 0..Len(b) : <<i, j>> \in G
  BY <1>1, <1>2, <1>3, FromTheEnd DEF P
<1> QED BY <1>1, <1>4
-----------------------------------------------------------------------------
ValuesOf(s) == {s[i] : i \in 1..Len(s)}

LEMMA ValuesFinite == ASSUME NEW s \in Seq(Nat) PROVE IsFiniteSet(ValuesOf(s)) /\ ValuesOf(s) \subseteq Nat
<1> DEFINE I == 1..Len(s)
           V == ValuesOf(s)
           f == [i \in I |-> s[i]]
<1>1. IsFiniteSet(I)
  <2>1. Len(s) \in Nat
    OBVIOUS
  <2> QED BY <2>1, Places
<1>2. f \in Surjection(I, V)
  BY DEF Surjection, ValuesOf
<1>3. V \subseteq Nat
  BY NumbersOf DEF ValuesOf
<1> HIDE DEF f, V, I
<1>4. IsFiniteSet(V)
  BY <1>1, <1>2, FS_Surjection
<1> QED BY <1>3, <1>4 DEF V

LEMMA BelowCounts ==
    ASSUME NEW s \in Seq(Nat), NEW x \in Int
    PROVE  /\ Below(s, x) \in 0..Len(s)
           /\ x \in ValuesOf(s) => Below(s, x) >= 1
           /\ (\A v \in ValuesOf(s) : ~(v <= x)) => Below(s, x) = 0
           /\ \A y \in Int : y <= x /\ (\A v \in ValuesOf(s) : v <= x => v <= y) => Below(s, y) = Below(s, x)
<1> DEFINE L == Len(s)
           B(y) == {i \in 1..L : s[i] <= y}
<1>0. L \in Nat /\ \A i \in 1..L : s[i] \in Nat /\ s[i] \in ValuesOf(s)
  BY NumbersOf DEF ValuesOf
<1>1. B(x) \in SUBSET (1..L)
  OBVIOUS
<1>2. Cardinality(B(x)) \in 0..L /\ (B(x) # {} => Cardinality(B(x)) >= 1)
  <2> DEFINE b == B(x)
  <2>1. b \in SUBSET (1..L)
    OBVIOUS
  <2> HIDE DEF b
  <2>2. Cardinality(b) \in 0..L /\ (b # {} => Cardinality(b) >= 1)
    BY <1>0, <2>1, Chosen
  <2> QED BY <2>2 DEF b
<1>3. ASSUME x \in ValuesOf(s) PROVE B(x) # {}
  <2>1. PICK i \in 1..L : s[i] = x
    BY <1>3 DEF ValuesOf
  <2>2. s[i] <= x
    BY <2>1
  <2> QED BY <2>2
<1>4. ASSUME \A v \in ValuesOf(s) : ~(v <= x) PROVE Cardinality(B(x)) = 0
  <2>1. B(x) = {}
    BY <1>0, <1>4
  <2> QED BY <2>1, FS_EmptySet
<1>5. ASSUME NEW y \in Int, y <= x, \A v \in ValuesOf(s) : v <= x => v <= y PROVE B(y) = B(x)
  <2>1. ASSUME NEW i \in 1..L PROVE s[i] <= y <=> s[i] <= x
    <3>1. s[i] \in Nat /\ s[i] \in ValuesOf(s)
      BY <1>0
    <3>2. s[i] <= y => s[i] <= x
      BY <1>5, <3>1
    <3> QED BY <1>5, <3>1, <3>2
  <2> QED BY <2>1
<1> HIDE DEF L
<1>6. \A y : Below(s, y) = Cardinality(B(y))
  BY DEF Below, L
<1> HIDE DEF B
<1> QED BY <1>2, <1>3, <1>4, <1>5, <1>6 DEF L

GapFor(a, b, x) == Distance(Below(a, x) * Len(b), Below(b, x) * Len(a))

LEMMA GapForIs ==
    ASSUME NEW a \in Seq(Nat), NEW b \in Seq(Nat), NEW x \in Int
    PROVE  GapFor(a, b, x) \in Nat /\ GapFor(a, b, x) = GapAt(a, b, Below(a, x), Below(b, x))
<1>1. Len(a) \in Nat /\ Len(b) \in Nat /\ Below(a, x) \in Nat /\ Below(b, x) \in Nat
  <2>1. Below(a, x) \in 0..Len(a) /\ Below(b, x) \in 0..Len(b)
    BY BelowCounts
  <2> QED BY <2>1
<1>2. GapFor(a, b, x) = GapAt(a, b, Below(a, x), Below(b, x))
  BY DEF GapFor, GapAt
<1>3. GapAt(a, b, Below(a, x), Below(b, x)) \in Nat
  BY <1>1, GapIs
<1> QED BY <1>2, <1>3

\* The supremum is a distance at one of the values, and no distance at any number
\* is larger.
LEMMA SupremumIs ==
    ASSUME NEW a \in Seq(Nat), NEW b \in Seq(Nat), a # <<>>, b # <<>>
    PROVE  /\ \E x \in ValuesOf(a) \cup ValuesOf(b) : x \in Nat /\ Supremum(a, b) = GapFor(a, b, x)
           /\ \A x \in Int : GapFor(a, b, x) <= Supremum(a, b)
<1> DEFINE V == ValuesOf(a) \cup ValuesOf(b)
           at == {GapFor(a, b, x) : x \in V}
           g == [x \in V |-> GapFor(a, b, x)]
<1>1. IsFiniteSet(V) /\ V \subseteq Nat
  <2>1. IsFiniteSet(ValuesOf(a)) /\ IsFiniteSet(ValuesOf(b)) /\ V \subseteq Nat
    BY ValuesFinite
  <2>2. IsFiniteSet(V)
    BY <2>1, FS_Union
  <2> QED BY <2>1, <2>2
<1>2. V # {}
  <2>1. Len(a) \in Nat /\ Len(a) # 0
    OBVIOUS
  <2>2. 1 \in 1..Len(a)
    BY <2>1
  <2>3. a[1] \in ValuesOf(a)
    BY <2>2 DEF ValuesOf
  <2> QED BY <2>3
<1>3. Supremum(a, b) = CHOOSE d \in at : \A e \in at : e <= d
  BY DEF Supremum, GapFor, ValuesOf
<1>4. \A x \in V : x \in Int /\ GapFor(a, b, x) \in Nat
  <2>1. \A x \in V : x \in Int
    BY <1>1
  <2> QED BY <2>1, GapForIs
<1> HIDE DEF V
<1>5. g \in [V -> Int] /\ \A x \in V : g[x] = GapFor(a, b, x)
  BY <1>4
<1> HIDE DEF g
<1>6. PICK x \in V : \A y \in V : g[y] <= g[x]
  BY <1>1, <1>2, <1>5, GreatestOf
<1>7. \E d \in at : \A e \in at : e <= d
  <2>1. GapFor(a, b, x) \in at /\ \A e \in at : e <= GapFor(a, b, x)
    BY <1>5, <1>6
  <2> HIDE DEF at
  <2> QED BY <2>1
<1>8. Supremum(a, b) \in at /\ \A e \in at : e <= Supremum(a, b)
  <2> HIDE DEF at
  <2> QED BY <1>3, <1>7
<1> DEFINE M == Supremum(a, b)
<1>9. PICK z \in V : M = GapFor(a, b, z)
  BY <1>8
<1>10. \A y \in V : GapFor(a, b, y) <= M
  BY <1>8
<1>11. M \in Nat
  BY <1>4, <1>9
<1> HIDE DEF M, at
<1>12. ASSUME NEW y \in Int PROVE GapFor(a, b, y) <= M
  <2> DEFINE W == {v \in V : v <= y}
             h == [v \in W |-> v]
  <2>1. CASE W = {}
    <3>1. \A v \in V : ~(v <= y)
      BY <2>1
    <3>2. Below(a, y) = 0 /\ Below(b, y) = 0
      BY <3>1, BelowCounts DEF V
    <3>3. Len(a) \in Nat /\ Len(b) \in Nat
      OBVIOUS
    <3>4. 0 * Len(a) = 0 /\ 0 * Len(b) = 0
      BY <3>3
    <3>5. GapFor(a, b, y) = 0
      BY <3>2, <3>4 DEF GapFor, Distance
    <3> QED BY <1>11, <3>5
  <2>2. CASE W # {}
    <3>1. W \in SUBSET V
      OBVIOUS
    <3>2. IsFiniteSet(W)
      <4> HIDE DEF W
      <4> QED BY <1>1, <3>1, FS_Subset
    <3>3. h \in [W -> Int] /\ \A v \in W : h[v] = v
      BY <1>4
    <3>4. PICK v \in W : \A u \in W : h[u] <= h[v]
      <4> HIDE DEF W, h
      <4> QED BY <2>2, <3>2, <3>3, GreatestOf
    <3>5. v \in V /\ v \in Int /\ v <= y /\ \A u \in V : u <= y => u <= v
      BY <1>4, <3>3, <3>4
    <3>6. Below(a, v) = Below(a, y)
      <4>1. \A u \in ValuesOf(a) : u <= y => u <= v
        BY <3>5 DEF V
      <4> QED BY <3>5, <4>1, BelowCounts
    <3>7. Below(b, v) = Below(b, y)
      <4>1. \A u \in ValuesOf(b) : u <= y => u <= v
        BY <3>5 DEF V
      <4> QED BY <3>5, <4>1, BelowCounts
    <3>8. GapFor(a, b, y) = GapFor(a, b, v)
      BY <3>6, <3>7 DEF GapFor
    <3> QED BY <1>10, <3>5, <3>8
  <2> QED BY <2>1, <2>2
<1>13. z \in Nat
  BY <1>1, <1>9
<1> QED BY <1>9, <1>12, <1>13 DEF M, V

\* No drift is missed, whatever the samples.
LEMMA DriftFound ==
    ASSUME NEW a \in Seq(Nat), NEW b \in Seq(Nat)
    PROVE  /\ KS(a, b) >= Supremum(a, b)
           /\ ~Share(a, b) => KS(a, b) = Supremum(a, b)
<1>1. CASE a = <<>> \/ b = <<>>
  BY <1>1 DEF KS, Supremum
<1>2. CASE ~(a = <<>> \/ b = <<>>)
  <2> DEFINE s == Ascending(a)
             t == Ascending(b)
             M == Supremum(a, b)
  <2>1. /\ s \in Seq(Nat) /\ Len(s) = Len(a) /\ Sorted(s)
        /\ \A k \in 1..Len(a) : \E i \in 1..Len(a) : s[k] = a[i]
        /\ \A x \in Int : Below(s, x) = Below(a, x)
    BY AscendingIs
  <2>2. /\ t \in Seq(Nat) /\ Len(t) = Len(b) /\ Sorted(t)
        /\ \A k \in 1..Len(b) : \E i \in 1..Len(b) : t[k] = b[i]
        /\ \A x \in Int : Below(t, x) = Below(b, x)
    BY AscendingIs
  <2>3. KS(a, b) = Merge2(s, t)
    BY <1>2 DEF KS
  <2>4. /\ \E x \in ValuesOf(a) \cup ValuesOf(b) : x \in Nat /\ M = GapFor(a, b, x)
        /\ \A x \in Int : GapFor(a, b, x) <= M
    BY <1>2, SupremumIs
  <2>5. Len(a) \in Nat /\ Len(b) \in Nat /\ Len(a) # 0 /\ Len(b) # 0
    BY <1>2
  <2> HIDE DEF s, t, M
  <2>6. PICK f : Merge2(s, t) = f[<<0, 0>>] /\ MergesAll(f, s, t)
    <3>1. \E f : /\ Merge2(s, t) = f[<<0, 0>>]
                 /\ \A i \in 0..Len(s), j \in 0..Len(t) : f[<<i, j>>] = MergedAt(f, s, t, i, j)
      BY <2>1, <2>2, MergeIs
    <3> QED BY <3>1 DEF MergesAll
  <2>7. 0 \in 0..Len(s) /\ 0 \in 0..Len(t) /\ 0 # Len(s) /\ 0 # Len(t)
    BY <2>1, <2>2, <2>5
  <2>8. \A x \in Int : GapFor(a, b, x) = GapAt(s, t, Below(s, x), Below(t, x))
    BY <2>1, <2>2, GapForIs DEF GapAt, GapFor
  <2>9. PICK x \in ValuesOf(a) \cup ValuesOf(b) : x \in Nat /\ M = GapFor(a, b, x)
    BY <2>4
  <2>10. f[<<0, 0>>] >= M
    <3> DEFINE p == Below(s, x)
               q == Below(t, x)
    <3>1. x \in Int
      BY <2>9
    <3>2. p \in 0..Len(s) /\ \A k \in 1..Len(s) : s[k] <= x <=> k <= p
      BY <2>1, <3>1, BelowSplits
    <3>3. q \in 0..Len(t) /\ \A l \in 1..Len(t) : t[l] <= x <=> l <= q
      BY <2>2, <3>1, BelowSplits
    <3>4. p >= 1 \/ q >= 1
      <4>1. CASE x \in ValuesOf(a)
        <5>1. Below(a, x) >= 1
          BY <3>1, <4>1, BelowCounts
        <5> QED BY <2>1, <3>1, <5>1
      <4>2. CASE x \in ValuesOf(b)
        <5>1. Below(b, x) >= 1
          BY <3>1, <4>2, BelowCounts
        <5> QED BY <2>2, <3>1, <5>1
      <4> QED BY <2>9, <4>1, <4>2
    <3>5. M = GapAt(s, t, p, q)
      BY <2>8, <2>9, <3>1
    <3> HIDE DEF p, q
    <3>6. \A i \in 0..Len(s), j \in 0..Len(t) :
              /\ i <= p /\ j <= q /\ ~(i = p /\ j = q)
              /\ i # Len(s) /\ j # Len(t)
              => f[<<i, j>>] >= GapAt(s, t, p, q)
      BY <2>1, <2>2, <2>6, <3>1, <3>2, <3>3, MergeReaches
    <3>7. 0 <= p /\ 0 <= q /\ ~(0 = p /\ 0 = q)
      BY <2>1, <2>2, <2>5, <3>2, <3>3, <3>4
    <3> QED BY <2>7, <3>5, <3>6, <3>7
  <2>11. M \in Nat
    <3>1. x \in Int
      BY <2>9
    <3> QED BY <2>9, <3>1, GapForIs
  <2>12. ASSUME ~Share(a, b) PROVE f[<<0, 0>>] <= M
    <3>1. ASSUME NEW k \in 1..Len(s), NEW l \in 1..Len(t) PROVE s[k] # t[l]
      <4>1. PICK i \in 1..Len(a) : s[k] = a[i]
        BY <2>1
      <4>2. PICK j \in 1..Len(b) : t[l] = b[j]
        BY <2>2
      <4>3. a[i] # b[j]
        BY <2>12 DEF Share
      <4> QED BY <4>1, <4>2, <4>3
    <3>2. \A y \in Int : GapAt(s, t, Below(s, y), Below(t, y)) <= M
      BY <2>4, <2>8
    <3>3. \A i \in 0..Len(s), j \in 0..Len(t) : Between(s, t, i, j) => f[<<i, j>>] <= M
      BY <2>1, <2>2, <2>6, <2>11, <3>1, <3>2, MergeWithin
    <3>4. Between(s, t, 0, 0)
      <4>1. \A k \in 1..Len(s) : ~(k <= 0)
        BY <2>1, <2>5
      <4>2. \A l \in 1..Len(t) : ~(l <= 0)
        BY <2>2, <2>5
      <4> QED BY <4>1, <4>2 DEF Between
    <3> QED BY <2>7, <3>3, <3>4
  <2>13. f[<<0, 0>>] \in Nat
    BY <2>1, <2>2, <2>6, <2>7, MergedNumbers
  <2> DEFINE F == f[<<0, 0>>]
  <2>14. F \in Nat /\ KS(a, b) = F /\ F >= M /\ (~Share(a, b) => F <= M)
    BY <2>3, <2>6, <2>10, <2>12, <2>13
  <2> HIDE DEF F
  <2>15. KS(a, b) >= M /\ (~Share(a, b) => KS(a, b) = M)
    BY <2>11, <2>14
  <2> QED BY <2>15 DEF M
<1> QED BY <1>1, <1>2
-----------------------------------------------------------------------------
Brought == {About[r] : r \in Scored}
BegunBy == {r \in Scored : tally[r] # "variant"}
CountedAs(v, x) == {r \in BegunBy : VariantOf(r) = v /\ About[r].action = x}
ListedIn(Q) == {i \in 1..Len(entries) : entries[i] \in Q}
DoneIn(Q) == {r \in Scored : tally[r] = "done" /\ About[r] \in Q}

\* The counters are of those that are past the first lock, and the entries of
\* those that are past the last, of whatever kind.
MonInv ==
    /\ tally \in [Scored -> {"variant", "drift", "stats", "done"}]
    /\ counted \in [Variant -> [Action3 -> Nat]]
    /\ live \in Seq(Nat) /\ ref \in Seq(Nat) /\ entries \in Seq(Brought)
    /\ IsFiniteSet(BegunBy)
    /\ resets = {} => \A v \in Variant : \A x \in Action3 : counted[v][x] = Cardinality(CountedAs(v, x))
    /\ resets = {} /\ ~dropped =>
           \A Q \in SUBSET Brought : Cardinality(ListedIn(Q)) = Cardinality(DoneIn(Q))

LEMMA OneMore ==
    ASSUME NEW S, IsFiniteSet(S), NEW x, x \notin S
    PROVE  Cardinality(S) \in Nat /\ IsFiniteSet(S \cup {x}) /\ Cardinality(S \cup {x}) = Cardinality(S) + 1
<1>1. Cardinality(S) \in Nat
  BY FS_CardinalityType
<1>2. IsFiniteSet(S \cup {x}) /\ Cardinality(S \cup {x}) = Cardinality(S) + 1
  BY FS_AddElement
<1> QED BY <1>1, <1>2

LEMMA MonInitially == MonitorInit => MonInv
<1> SUFFICES ASSUME MonitorInit PROVE MonInv
  OBVIOUS
<1> USE DEF MonitorInit
<1>1. BegunBy = {} /\ (\A v, x : CountedAs(v, x) = {}) /\ (\A Q : DoneIn(Q) = {})
  BY DEF BegunBy, CountedAs, DoneIn
<1>2. \A Q : ListedIn(Q) = {}
  BY DEF ListedIn
<1>3. IsFiniteSet({}) /\ Cardinality({}) = 0
  BY FS_EmptySet
<1>4. \A v \in Variant : \A x \in Action3 : counted[v][x] = 0
  OBVIOUS
<1>5. tally \in [Scored -> {"variant", "drift", "stats", "done"}] /\ counted \in [Variant -> [Action3 -> Nat]]
  OBVIOUS
<1>6. live \in Seq(Nat) /\ ref \in Seq(Nat) /\ entries \in Seq(Brought)
  OBVIOUS
<1>7. IsFiniteSet(BegunBy)
  BY <1>1, <1>3
<1>8. \A v \in Variant : \A x \in Action3 : counted[v][x] = Cardinality(CountedAs(v, x))
  BY <1>1, <1>3, <1>4
<1>9. \A Q \in SUBSET Brought : Cardinality(ListedIn(Q)) = Cardinality(DoneIn(Q))
  BY <1>1, <1>2
<1> QED BY <1>5, <1>6, <1>7, <1>8, <1>9 DEF MonInv

LEMMA PushedIs ==
    ASSUME NEW S, NEW s \in Seq(S), NEW x \in S, NEW n \in Nat \ {0}
    PROVE  Pushed(s, x, n) \in Seq(S) /\ (Len(s) # n => Pushed(s, x, n) = Append(s, x))
<1>1. CASE Len(s) = n
  <2>1. Tail(s) \in Seq(S)
    <3>1. s # <<>>
      BY <1>1
    <3> QED BY <3>1
  <2>2. Append(Tail(s), x) \in Seq(S)
    BY <2>1
  <2> QED BY <1>1, <2>2 DEF Pushed
<1>2. CASE Len(s) # n
  <2>1. Append(s, x) \in Seq(S)
    OBVIOUS
  <2> QED BY <1>2, <2>1 DEF Pushed
<1> QED BY <1>1, <1>2

LEMMA KeepsCount ==
    ASSUME MonInv, NEW r \in Scored, CountVariant(r) PROVE MonInv'
<1> DEFINE v == VariantOf(r)
           x == About[r].action
<1>1. /\ tally[r] = "variant" /\ tally' = [tally EXCEPT ![r] = "drift"] /\ counted' = [counted EXCEPT ![v][x] = @ + 1]
      /\ live' = live /\ ref' = ref /\ entries' = entries /\ resets' = resets /\ dropped' = dropped
  BY DEF CountVariant, Counted
<1>2. v \in Variant /\ x \in Action3
  BY MonitoringConstants DEF VariantOf, Variant
<1> HIDE DEF v, x
<1>3. tally \in [Scored -> {"variant", "drift", "stats", "done"}] /\ counted \in [Variant -> [Action3 -> Nat]]
      /\ IsFiniteSet(BegunBy)
  BY DEF MonInv
<1>4. tally' \in [Scored -> {"variant", "drift", "stats", "done"}]
      /\ \A q \in Scored : tally'[q] = IF q = r THEN "drift" ELSE tally[q]
  BY <1>1, <1>3
<1>5. counted' \in [Variant -> [Action3 -> Nat]]
      /\ \A w \in Variant : \A y \in Action3 : counted'[w][y] = IF w = v /\ y = x THEN counted[w][y] + 1 ELSE counted[w][y]
  <2>1. counted[v][x] + 1 \in Nat
    BY <1>2, <1>3
  <2> QED BY <1>1, <1>2, <1>3, <2>1
<1>6. BegunBy' = BegunBy \cup {r} /\ r \notin BegunBy
  BY <1>1, <1>4 DEF BegunBy
<1>7. IsFiniteSet(BegunBy')
  BY <1>3, <1>6, FS_AddElement
<1>8. ASSUME resets = {}, NEW w \in Variant, NEW y \in Action3 PROVE counted'[w][y] = Cardinality(CountedAs(w, y)')
  <2>1. counted[w][y] = Cardinality(CountedAs(w, y))
    BY <1>8 DEF MonInv
  <2>2. CASE w = v /\ y = x
    <3> DEFINE C == CountedAs(w, y)
    <3>1. CountedAs(w, y)' = C \cup {r} /\ r \notin C
      BY <1>6, <2>2 DEF CountedAs, v, x, VariantOf
    <3>2. IsFiniteSet(C)
      <4>1. C \in SUBSET BegunBy
        BY DEF CountedAs
      <4> HIDE DEF C
      <4> QED BY <1>3, <4>1, FS_Subset
    <3> HIDE DEF C
    <3>3. Cardinality(C \cup {r}) = Cardinality(C) + 1
      BY <3>1, <3>2, OneMore
    <3>4. counted'[w][y] = counted[w][y] + 1
      BY <1>5, <2>2
    <3> QED BY <2>1, <3>1, <3>3, <3>4 DEF C
  <2>3. CASE ~(w = v /\ y = x)
    <3>1. CountedAs(w, y)' = CountedAs(w, y)
      BY <1>6, <2>3 DEF CountedAs, v, x, VariantOf
    <3>2. counted'[w][y] = counted[w][y]
      BY <1>5, <2>3
    <3> QED BY <2>1, <3>1, <3>2
  <2> QED BY <2>2, <2>3
<1>9. \A Q : ListedIn(Q)' = ListedIn(Q) /\ DoneIn(Q)' = DoneIn(Q)
  BY <1>1, <1>4 DEF ListedIn, DoneIn
<1> QED BY <1>1, <1>4, <1>5, <1>7, <1>8, <1>9 DEF MonInv

LEMMA KeepsLive ==
    ASSUME MonInv, NEW r \in Scored, RecordLive(r) PROVE MonInv'
<1>1. /\ tally[r] = "drift" /\ tally' = [tally EXCEPT ![r] = "stats"] /\ live' = Pushed(live, About[r].value, LiveWindow)
      /\ counted' = counted /\ ref' = ref /\ entries' = entries /\ resets' = resets /\ dropped' = dropped
  BY DEF RecordLive
<1>2. tally' \in [Scored -> {"variant", "drift", "stats", "done"}]
      /\ \A q \in Scored : tally'[q] = IF q = r THEN "stats" ELSE tally[q]
  BY <1>1 DEF MonInv
<1>3. BegunBy' = BegunBy /\ \A v, x : CountedAs(v, x)' = CountedAs(v, x)
  <2>1. BegunBy' = BegunBy
    BY <1>1, <1>2 DEF BegunBy
  <2> QED BY <2>1 DEF CountedAs, VariantOf
<1>4. \A Q : ListedIn(Q)' = ListedIn(Q) /\ DoneIn(Q)' = DoneIn(Q)
  BY <1>1, <1>2 DEF ListedIn, DoneIn
<1>5. live' \in Seq(Nat)
  <2>1. live \in Seq(Nat) /\ About[r].value \in Nat /\ LiveWindow \in Nat \ {0}
    BY MonitoringConstants DEF MonInv
  <2> QED BY <1>1, <2>1, PushedIs
<1> QED BY <1>1, <1>2, <1>3, <1>4, <1>5 DEF MonInv

LEMMA KeepsStat ==
    ASSUME MonInv, NEW r \in Scored, RecordStat(r) PROVE MonInv'
<1>1. /\ tally[r] = "stats" /\ tally' = [tally EXCEPT ![r] = "done"] /\ entries' = Pushed(entries, About[r], MaxEntries)
      /\ dropped' = (dropped \/ Len(entries) = MaxEntries)
      /\ counted' = counted /\ ref' = ref /\ live' = live /\ resets' = resets
  BY DEF RecordStat
<1>2. tally' \in [Scored -> {"variant", "drift", "stats", "done"}]
      /\ \A q \in Scored : tally'[q] = IF q = r THEN "done" ELSE tally[q]
  BY <1>1 DEF MonInv
<1>3. BegunBy' = BegunBy /\ \A v, x : CountedAs(v, x)' = CountedAs(v, x)
  <2>1. BegunBy' = BegunBy
    BY <1>1, <1>2 DEF BegunBy
  <2> QED BY <2>1 DEF CountedAs, VariantOf
<1>4. entries \in Seq(Brought) /\ About[r] \in Brought /\ MaxEntries \in Nat \ {0} /\ IsFiniteSet(BegunBy)
  BY MonitoringConstants DEF MonInv, Brought
<1>5. entries' \in Seq(Brought) /\ (Len(entries) # MaxEntries => entries' = Append(entries, About[r]))
  BY <1>1, <1>4, PushedIs
<1>6. ASSUME resets' = {}, ~dropped', NEW Q \in SUBSET Brought PROVE Cardinality(ListedIn(Q)') = Cardinality(DoneIn(Q)')
  <2>1. Cardinality(ListedIn(Q)) = Cardinality(DoneIn(Q))
    BY <1>1, <1>6 DEF MonInv
  <2>2. entries' = Append(entries, About[r])
    BY <1>1, <1>5, <1>6
  <2> DEFINE L == Len(entries)
  <2>3. L \in Nat /\ Len(entries') = L + 1 /\ entries'[L + 1] = About[r] /\ \A i \in 1..L : entries'[i] = entries[i]
    <3>1. DOMAIN entries = 1..L /\ L \in Nat
      BY <1>4
    <3> QED BY <1>4, <2>2, <3>1, AppendHas
  <2> HIDE DEF L
  <2>4. ListedIn(Q)' = IF About[r] \in Q THEN ListedIn(Q) \cup {L + 1} ELSE ListedIn(Q)
    <3>1. ASSUME NEW i PROVE i \in 1..(L + 1) <=> i \in 1..L \/ i = L + 1
      BY <2>3
    <3>2. ASSUME NEW i \in 1..L PROVE i # L + 1
      BY <2>3
    <3>3. ASSUME NEW i PROVE i \in ListedIn(Q)' <=> (i \in ListedIn(Q) \/ (i = L + 1 /\ About[r] \in Q))
      BY <2>3, <3>1, <3>2 DEF ListedIn, L
    <3> QED BY <3>3
  <2>5. DoneIn(Q)' = IF About[r] \in Q THEN DoneIn(Q) \cup {r} ELSE DoneIn(Q)
    BY <1>1, <1>2 DEF DoneIn
  <2>6. L + 1 \notin ListedIn(Q) /\ r \notin DoneIn(Q)
    BY <1>1, <2>3 DEF ListedIn, DoneIn, L
  <2>7. IsFiniteSet(ListedIn(Q)) /\ IsFiniteSet(DoneIn(Q))
    <3>1. ListedIn(Q) \in SUBSET (1..L)
      BY DEF ListedIn, L
    <3>2. DoneIn(Q) \in SUBSET BegunBy
      BY DEF DoneIn, BegunBy
    <3>3. IsFiniteSet(ListedIn(Q))
      BY <2>3, <3>1, Chosen
    <3>4. IsFiniteSet(DoneIn(Q))
      BY <1>4, <3>2, FS_Subset
    <3> QED BY <3>3, <3>4
  <2>8. CASE About[r] \in Q
    <3>1. Cardinality(ListedIn(Q) \cup {L + 1}) = Cardinality(ListedIn(Q)) + 1
      BY <2>6, <2>7, OneMore
    <3>2. Cardinality(DoneIn(Q) \cup {r}) = Cardinality(DoneIn(Q)) + 1
      BY <2>6, <2>7, OneMore
    <3>3. ListedIn(Q)' = ListedIn(Q) \cup {L + 1} /\ DoneIn(Q)' = DoneIn(Q) \cup {r}
      BY <2>4, <2>5, <2>8
    <3> QED BY <2>1, <3>1, <3>2, <3>3
  <2>9. CASE About[r] \notin Q
    <3>1. ListedIn(Q)' = ListedIn(Q) /\ DoneIn(Q)' = DoneIn(Q)
      BY <2>4, <2>5, <2>9
    <3> QED BY <2>1, <3>1
  <2> QED BY <2>8, <2>9
<1> QED BY <1>1, <1>2, <1>3, <1>4, <1>5, <1>6 DEF MonInv

LEMMA KeepsReference ==
    ASSUME MonInv, NEW samples \in References, SetReference(samples) PROVE MonInv'
<1>1. ref' \in Seq(Nat)
  <2>1. samples \in Seq(Nat) /\ RefLimit \in Nat \ {0}
    BY MonitoringConstants
  <2>2. CASE Len(samples) <= RefLimit
    BY <2>1, <2>2 DEF SetReference
  <2>3. CASE ~(Len(samples) <= RefLimit)
    <3> DEFINE R == RefLimit
               L == Len(samples)
               at(i) == 1 + ((i - 1) * L) \div R
    <3>1. L \in Nat /\ R \in Nat \ {0} /\ L > R
      BY <2>1, <2>3
    <3>2. ref' = [i \in 1..R |-> samples[at(i)]]
      BY <2>3 DEF SetReference
    <3>3. ASSUME NEW i \in 1..R PROVE at(i) \in 1..L
      <4> HIDE DEF R, L
      <4>1. i - 1 \in Nat /\ i - 1 <= R - 1 /\ R - 1 \in Nat
        BY <3>1
      <4> DEFINE a == i - 1
                 b == R - 1
      <4>2. a \in Nat /\ b \in Nat /\ a <= b /\ b + 1 = R
        BY <3>1, <4>1
      <4> HIDE DEF a, b
      <4>3. a * L <= b * L /\ a * L \in Nat
        BY <3>1, <4>2, Times
      <4>4. b * L + L = L * R
        BY <3>1, <4>2
      <4>5. a * L < L * R
        <5> DEFINE x == a * L
                   y == b * L
                   z == L * R
        <5>1. x \in Nat /\ y \in Nat /\ x <= y /\ y + L = z
          BY <3>1, <4>2, <4>3, <4>4, Times
        <5> HIDE DEF x, y, z
        <5>2. x < z
          BY <3>1, <5>1
        <5> QED BY <5>2 DEF x, z
      <4> DEFINE n == a * L
      <4>6. n \in Int /\ n \div R \in Int /\ (n \div R >= L <=> n >= L * R) /\ (n \div R >= 0 <=> n >= 0 * R) /\ n >= 0 /\ 0 * R = 0
        <5>1. n \in Nat /\ L \in Int /\ 0 \in Int
          BY <3>1, <4>3
        <5> HIDE DEF n
        <5>2. n \div R \in Int /\ (n \div R >= L <=> n >= L * R)
          BY <3>1, <5>1, Quotient
        <5>3. (n \div R >= 0 <=> n >= 0 * R)
          BY <3>1, <5>1, Quotient
        <5>4. 0 * R = 0
          BY <3>1
        <5> QED BY <5>1, <5>2, <5>3, <5>4
      <4> DEFINE d == n \div R
      <4>7. ~(n >= L * R)
        <5>1. L * R \in Nat
          BY <3>1, Times
        <5> HIDE DEF d
        <5> QED BY <4>3, <4>5, <5>1
      <4>8. d \in Int /\ ~(d >= L) /\ d >= 0
        BY <4>6, <4>7
      <4> HIDE DEF d, n
      <4>9. 1 + d \in 1..L
        BY <3>1, <4>8
      <4> QED BY <4>9 DEF d, n, a
    <3> HIDE DEF R, L, at
    <3>4. [i \in 1..R |-> samples[at(i)]] \in [1..R -> Nat]
      <4>1. \A n \in 1..L : samples[n] \in Nat
        BY <2>1, NumbersOf DEF L
      <4> QED BY <3>3, <4>1
    <3>5. ref' \in Seq(Nat)
      BY <3>1, <3>2, <3>4, SeqMade
    <3> QED BY <3>5
  <2> QED BY <2>2, <2>3
<1>2. /\ counted' = counted /\ live' = live /\ entries' = entries /\ tally' = tally /\ resets' = resets /\ dropped' = dropped
  BY DEF SetReference
<1>3. BegunBy' = BegunBy /\ \A v, x : CountedAs(v, x)' = CountedAs(v, x)
  BY <1>2 DEF BegunBy, CountedAs, VariantOf
<1>4. \A Q : ListedIn(Q)' = ListedIn(Q) /\ DoneIn(Q)' = DoneIn(Q)
  BY <1>2 DEF ListedIn, DoneIn
<1> QED BY <1>1, <1>2, <1>3, <1>4 DEF MonInv

LEMMA MonKept == MonInv /\ [MonitorNext]_monitorVars => MonInv'
<1> SUFFICES ASSUME MonInv, [MonitorNext]_monitorVars PROVE MonInv'
  OBVIOUS
<1>0. ASSUME tally' = tally, entries' = entries
      PROVE  /\ BegunBy' = BegunBy /\ \A v, x : CountedAs(v, x)' = CountedAs(v, x)
             /\ \A Q : ListedIn(Q)' = ListedIn(Q) /\ DoneIn(Q)' = DoneIn(Q)
  BY <1>0 DEF BegunBy, CountedAs, VariantOf, ListedIn, DoneIn
<1>1. ASSUME NEW r \in Scored, CountVariant(r) \/ RecordLive(r) \/ RecordStat(r) PROVE MonInv'
  BY <1>1, KeepsCount, KeepsLive, KeepsStat
<1>2. ASSUME NEW about, Chargeback(about) PROVE MonInv'
  <2>1. /\ counted' = counted /\ live' = live /\ ref' = ref /\ entries' = entries /\ tally' = tally
        /\ resets' = resets /\ dropped' = dropped
    BY <1>2 DEF Chargeback
  <2> QED BY <1>0, <2>1 DEF MonInv
<1>3. CASE ResetStats
  <2>1. /\ counted' = counted /\ live' = live /\ ref' = ref /\ entries' = <<>> /\ tally' = tally
        /\ resets' = resets \cup {"stats"}
    BY <1>3 DEF ResetStats
  <2>2. resets' # {} /\ entries' \in Seq(Brought) /\ BegunBy' = BegunBy
    BY <2>1 DEF BegunBy
  <2> QED BY <2>1, <2>2 DEF MonInv
<1>4. CASE ResetVariants
  <2>1. /\ counted' = [v \in Variant |-> [x \in Action3 |-> 0]] /\ live' = live /\ ref' = ref /\ entries' = entries
        /\ tally' = tally /\ resets' = resets \cup {"variants"}
    BY <1>4 DEF ResetVariants
  <2>2. resets' # {} /\ counted' \in [Variant -> [Action3 -> Nat]] /\ BegunBy' = BegunBy
    BY <2>1 DEF BegunBy
  <2> QED BY <2>1, <2>2 DEF MonInv
<1>5. ASSUME NEW samples \in References, SetReference(samples) PROVE MonInv'
  BY <1>5, KeepsReference
<1>6. CASE UNCHANGED monitorVars
  <2>1. /\ counted' = counted /\ live' = live /\ ref' = ref /\ entries' = entries /\ tally' = tally
        /\ resets' = resets /\ dropped' = dropped
    BY <1>6 DEF monitorVars
  <2> QED BY <1>0, <2>1 DEF MonInv
<1> QED BY <1>1, <1>2, <1>3, <1>4, <1>5, <1>6 DEF MonitorNext

LEMMA MonHolds == MonitorSpec => []MonInv
<1> QED BY MonInitially, MonKept, PTL DEF MonitorSpec

LEMMA TwoParts ==
    ASSUME NEW S, NEW T, IsFiniteSet(S), IsFiniteSet(T), \A x \in S : x \notin T
    PROVE  IsFiniteSet(S \cup T) /\ Cardinality(S \cup T) = Cardinality(S) + Cardinality(T) /\ Cardinality(S) \in Nat
<1>1. S \cap T = {} /\ Cardinality({}) = 0 /\ IsFiniteSet({})
  BY FS_EmptySet
<1>2. IsFiniteSet(S \cup T) /\ Cardinality(S \cup T) = Cardinality(S) + Cardinality(T) - Cardinality(S \cap T)
  BY FS_Union
<1> DEFINE m == Cardinality(S)
           n == Cardinality(T)
           u == Cardinality(S \cup T)
<1>3. m \in Nat /\ n \in Nat
  BY FS_CardinalityType
<1>4. u = m + n - 0
  BY <1>1, <1>2
<1> HIDE DEF m, n, u
<1>5. u = m + n
  BY <1>3, <1>4
<1> QED BY <1>2, <1>3, <1>5 DEF m, n, u

LEMMA CountsMean == MonInv => VariantsAgree
<1> SUFFICES ASSUME MonInv, resets = {}, ~dropped, NEW v \in Variant
             PROVE  LET labels == IF v = "a" THEN {"a", NoVariant} ELSE {v}
                        In(cells) == Cardinality({i \in 1..Len(entries) :
                                         entries[i].variant \in labels /\ Cell(entries[i]) \in cells})
                        detected == counted[v]["BLOCK"] + counted[v]["REVIEW"]
                    IN  /\ Total(v) = In({"tp", "fn", "fp", "tn"}) + Waiting(v)
                        /\ detected - In({"tp", "fp"}) \in 0..Waiting(v)
  BY DEF VariantsAgree
<1> DEFINE labels == IF v = "a" THEN {"a", NoVariant} ELSE {v}
           In(cells) == Cardinality({i \in 1..Len(entries) :
                            entries[i].variant \in labels /\ Cell(entries[i]) \in cells})
           Of(cells) == {e \in Brought : e.variant \in labels /\ Cell(e) \in cells}
           Ended == {r \in Scored : VariantOf(r) = v /\ tally[r] = "done"}
           Waits == {r \in Scored : VariantOf(r) = v /\ tally[r] \in {"drift", "stats"}}
           Found(S) == {r \in S : Detects(About[r])}
<1>1. /\ tally \in [Scored -> {"variant", "drift", "stats", "done"}]
      /\ IsFiniteSet(BegunBy) /\ entries \in Seq(Brought)
      /\ \A w \in Variant : \A x \in Action3 : counted[w][x] = Cardinality(CountedAs(w, x))
      /\ \A Q \in SUBSET Brought : Cardinality(ListedIn(Q)) = Cardinality(DoneIn(Q))
  BY DEF MonInv
<1>2. \A r \in Scored : VariantOf(r) = v <=> About[r].variant \in labels
  BY MonitoringConstants DEF VariantOf, Variant
<1>3. ASSUME NEW cells
      PROVE  In(cells) = Cardinality({r \in Scored : tally[r] = "done" /\ VariantOf(r) = v /\ Cell(About[r]) \in cells})
  <2> DEFINE Q == Of(cells)
  <2>1. Q \in SUBSET Brought
    OBVIOUS
  <2>2. \A i \in 1..Len(entries) : entries[i] \in Brought
    BY <1>1
  <2>3. ListedIn(Q) = {i \in 1..Len(entries) : entries[i].variant \in labels /\ Cell(entries[i]) \in cells}
    BY <2>2 DEF ListedIn
  <2>4. DoneIn(Q) = {r \in Scored : tally[r] = "done" /\ VariantOf(r) = v /\ Cell(About[r]) \in cells}
    BY <1>2 DEF DoneIn, Brought
  <2> HIDE DEF Q
  <2>5. Cardinality(ListedIn(Q)) = Cardinality(DoneIn(Q))
    BY <1>1, <2>1
  <2> QED BY <2>3, <2>4, <2>5
<1>4. In({"tp", "fn", "fp", "tn"}) = Cardinality(Ended)
  <2>1. \A e : Cell(e) \in {"tp", "fn", "fp", "tn"}
    BY DEF Cell
  <2>2. {r \in Scored : tally[r] = "done" /\ VariantOf(r) = v /\ Cell(About[r]) \in {"tp", "fn", "fp", "tn"}} = Ended
    BY <2>1
  <2> HIDE DEF In, Ended
  <2> QED BY <1>3, <2>2
<1>5. In({"tp", "fp"}) = Cardinality(Found(Ended))
  <2>1. \A e : Cell(e) \in {"tp", "fp"} <=> Detects(e)
    BY DEF Cell
  <2>2. {r \in Scored : tally[r] = "done" /\ VariantOf(r) = v /\ Cell(About[r]) \in {"tp", "fp"}} = Found(Ended)
    BY <2>1
  <2> HIDE DEF In, Found, Ended
  <2> QED BY <1>3, <2>2
<1>6. Waiting(v) = Cardinality(Waits)
  BY DEF Waiting
<1> HIDE DEF In
<1> DEFINE B == CountedAs(v, "BLOCK")
           R == CountedAs(v, "REVIEW")
           S == CountedAs(v, "SOFT_REVIEW")
           P == CountedAs(v, "PASS")
<1>7. \A r \in Scored : About[r].action \in {"BLOCK", "REVIEW", "SOFT_REVIEW", "PASS"}
  BY MonitoringConstants DEF Action3
<1>8. /\ Ended \cup Waits = (B \cup R) \cup (S \cup P)
      /\ Found(Ended) \cup Found(Waits) = B \cup R
  <2>1. \A r \in Scored : r \in BegunBy <=> tally[r] = "done" \/ tally[r] \in {"drift", "stats"}
    BY <1>1 DEF BegunBy
  <2>2. \A r \in BegunBy : r \in Scored
    BY DEF BegunBy
  <2> QED BY <1>7, <2>1, <2>2 DEF CountedAs, Detects
<1>9. IsFiniteSet(B) /\ IsFiniteSet(R) /\ IsFiniteSet(S) /\ IsFiniteSet(P) /\ IsFiniteSet(Ended) /\ IsFiniteSet(Waits)
  <2>1. B \in SUBSET BegunBy /\ R \in SUBSET BegunBy /\ S \in SUBSET BegunBy /\ P \in SUBSET BegunBy
    BY DEF CountedAs
  <2>2. Ended \in SUBSET BegunBy /\ Waits \in SUBSET BegunBy
    BY DEF BegunBy
  <2> HIDE DEF B, R, S, P, Ended, Waits
  <2> QED BY <1>1, <2>1, <2>2, FS_Subset
<1>10. /\ \A x \in B : x \notin R
       /\ \A x \in S : x \notin P
       /\ \A x \in B \cup R : x \notin S \cup P
       /\ \A x \in Ended : x \notin Waits
       /\ \A x \in Found(Ended) : x \notin Found(Waits)
  BY DEF CountedAs
<1>11. Found(Ended) \in SUBSET Ended /\ Found(Waits) \in SUBSET Waits
  OBVIOUS
<1>12. /\ counted[v]["BLOCK"] = Cardinality(B) /\ counted[v]["REVIEW"] = Cardinality(R)
       /\ counted[v]["SOFT_REVIEW"] = Cardinality(S) /\ counted[v]["PASS"] = Cardinality(P)
  BY <1>1 DEF Action3
<1> DEFINE FE == Found(Ended)
           FW == Found(Waits)
<1> HIDE DEF B, R, S, P, Ended, Waits, Found
<1>13. IsFiniteSet(B \cup R) /\ Cardinality(B \cup R) = Cardinality(B) + Cardinality(R)
  BY <1>9, <1>10, TwoParts
<1>14. IsFiniteSet(S \cup P) /\ Cardinality(S \cup P) = Cardinality(S) + Cardinality(P)
  BY <1>9, <1>10, TwoParts
<1>15. Cardinality((B \cup R) \cup (S \cup P)) = Cardinality(B \cup R) + Cardinality(S \cup P)
  BY <1>10, <1>13, <1>14, TwoParts
<1>16. Cardinality(Ended \cup Waits) = Cardinality(Ended) + Cardinality(Waits)
  BY <1>9, <1>10, TwoParts
<1>17. IsFiniteSet(FE) /\ IsFiniteSet(FW) /\ Cardinality(FW) <= Cardinality(Waits)
  <2>1. IsFiniteSet(FE)
    BY <1>9, <1>11, FS_Subset
  <2>2. IsFiniteSet(FW) /\ Cardinality(FW) <= Cardinality(Waits)
    BY <1>9, <1>11, FS_Subset
  <2> QED BY <2>1, <2>2
<1>18. Cardinality(FE \cup FW) = Cardinality(FE) + Cardinality(FW)
  BY <1>10, <1>17, TwoParts
<1>19. /\ Cardinality(B) \in Nat /\ Cardinality(R) \in Nat /\ Cardinality(S) \in Nat /\ Cardinality(P) \in Nat
       /\ Cardinality(Ended) \in Nat /\ Cardinality(Waits) \in Nat /\ Cardinality(FE) \in Nat /\ Cardinality(FW) \in Nat
  BY <1>9, <1>17, FS_CardinalityType
<1>20. Total(v) = Cardinality(Ended) + Cardinality(Waits)
  <2>1. Total(v) = Cardinality(B) + Cardinality(R) + Cardinality(S) + Cardinality(P)
    BY <1>12 DEF Total
  <2> DEFINE n == Cardinality(B)
             m == Cardinality(R)
             k == Cardinality(S)
             l == Cardinality(P)
  <2>2. Cardinality(Ended \cup Waits) = (n + m) + (k + l)
    BY <1>8, <1>13, <1>14, <1>15
  <2>3. n \in Nat /\ m \in Nat /\ k \in Nat /\ l \in Nat /\ Total(v) = n + m + k + l
    BY <1>19, <2>1
  <2> HIDE DEF n, m, k, l
  <2>4. n + m + k + l = (n + m) + (k + l)
    BY <2>3
  <2> QED BY <1>16, <2>2, <2>3, <2>4
<1>21. counted[v]["BLOCK"] + counted[v]["REVIEW"] = Cardinality(FE) + Cardinality(FW)
  BY <1>8, <1>12, <1>13, <1>18
<1>22. (counted[v]["BLOCK"] + counted[v]["REVIEW"]) - In({"tp", "fp"}) \in 0..Waiting(v)
  <2> DEFINE x == Cardinality(FE)
             y == Cardinality(FW)
             z == Cardinality(Waits)
  <2>1. x \in Nat /\ y \in Nat /\ z \in Nat /\ y <= z
    BY <1>17, <1>19
  <2>2. In({"tp", "fp"}) = x /\ Waiting(v) = z /\ counted[v]["BLOCK"] + counted[v]["REVIEW"] = x + y
    BY <1>5, <1>6, <1>21
  <2> HIDE DEF x, y, z
  <2>3. (x + y) - x \in 0..z
    BY <2>1
  <2> QED BY <2>2, <2>3
<1>23. Total(v) = In({"tp", "fn", "fp", "tn"}) + Waiting(v)
  BY <1>4, <1>6, <1>20
<1> QED BY <1>22, <1>23 DEF In

LEMMA MonMeans == MonInv => MonitoringAgrees
<1> SUFFICES ASSUME MonInv PROVE MonitoringAgrees
  OBVIOUS
<1>1. ref \in Seq(Nat) /\ live \in Seq(Nat)
  BY DEF MonInv
<1>2. DriftNotMissed
  BY <1>1, DriftFound DEF DriftNotMissed
<1> QED BY <1>2, CountsMean DEF MonitoringAgrees

\* What is counted under three locks is about the same evaluations, for any
\* requests, and the merge of the two samples misses no drift, for any samples.
THEOREM MonitoringHolds == MonitorSpec => []MonitoringAgrees
<1> QED BY MonHolds, MonMeans, PTL
-----------------------------------------------------------------------------
\* What is kept of values and of evaluations is never more than its bound.
LEMMA PushedFits ==
    ASSUME NEW S, NEW s \in Seq(S), NEW x \in S, NEW n \in Nat \ {0}, Len(s) <= n
    PROVE  Pushed(s, x, n) \in Seq(S) /\ Len(Pushed(s, x, n)) <= n
<1>1. Len(s) \in Nat
  OBVIOUS
<1>2. CASE Len(s) = n
  <2>1. Tail(s) \in Seq(S) /\ Len(Tail(s)) = Len(s) - 1
    BY <1>2
  <2>2. Append(Tail(s), x) \in Seq(S) /\ Len(Append(Tail(s), x)) = Len(Tail(s)) + 1
    BY <2>1
  <2> QED BY <1>1, <1>2, <2>1, <2>2 DEF Pushed
<1>3. CASE Len(s) # n
  <2>1. Append(s, x) \in Seq(S) /\ Len(Append(s, x)) = Len(s) + 1
    OBVIOUS
  <2> QED BY <1>1, <1>3, <2>1 DEF Pushed
<1> QED BY <1>2, <1>3

LEMMA MonitorTypes == MonitorSpec => []MonitorTypeOK
<1> DEFINE C == Len(live) <= LiveWindow /\ Len(ref) <= RefLimit /\ Len(entries) <= MaxEntries
<1>0. MaxEntries \in Nat \ {0} /\ LiveWindow \in Nat \ {0} /\ RefLimit \in Nat \ {0} /\ Len(<<>>) = 0
  BY MonitoringConstants
<1>1. MonitorInit => C
  BY <1>0 DEF MonitorInit
<1>2. ASSUME MonInv, C, [MonitorNext]_monitorVars PROVE C'
  <2>0. live \in Seq(Nat) /\ entries \in Seq(Brought)
    BY <1>2 DEF MonInv
  <2>1. ASSUME NEW r \in Scored, CountVariant(r) PROVE C'
    BY <1>2, <2>1 DEF CountVariant
  <2>2. ASSUME NEW r \in Scored, RecordLive(r) PROVE C'
    <3>1. live' = Pushed(live, About[r].value, LiveWindow) /\ ref' = ref /\ entries' = entries
      BY <2>2 DEF RecordLive
    <3>2. About[r].value \in Nat
      BY MonitoringConstants
    <3>3. Len(live') <= LiveWindow
      BY <1>0, <1>2, <2>0, <3>1, <3>2, PushedFits
    <3> QED BY <1>2, <3>1, <3>3
  <2>3. ASSUME NEW r \in Scored, RecordStat(r) PROVE C'
    <3>1. entries' = Pushed(entries, About[r], MaxEntries) /\ ref' = ref /\ live' = live
      BY <2>3 DEF RecordStat
    <3>2. About[r] \in Brought
      BY DEF Brought
    <3>3. Len(entries') <= MaxEntries
      BY <1>0, <1>2, <2>0, <3>1, <3>2, PushedFits
    <3> QED BY <1>2, <3>1, <3>3
  <2>4. ASSUME NEW about, Chargeback(about) PROVE C'
    BY <1>2, <2>4 DEF Chargeback
  <2>5. CASE ResetStats
    BY <1>0, <1>2, <2>5 DEF ResetStats
  <2>6. CASE ResetVariants
    BY <1>2, <2>6 DEF ResetVariants
  <2>7. ASSUME NEW samples \in References, SetReference(samples) PROVE C'
    <3>1. samples \in Seq(Nat)
      BY MonitoringConstants
    <3> DEFINE cut == [i \in 1..RefLimit |-> samples[1 + ((i - 1) * Len(samples)) \div RefLimit]]
    <3>2. Len(cut) = RefLimit
      BY <1>0
    <3>3. /\ ref' = IF Len(samples) <= RefLimit THEN samples ELSE cut
          /\ live' = live /\ entries' = entries
      BY <2>7 DEF SetReference
    <3> HIDE DEF cut
    <3>4. Len(ref') <= RefLimit
      BY <1>0, <3>2, <3>3
    <3> QED BY <1>2, <3>3, <3>4
  <2>8. CASE UNCHANGED monitorVars
    BY <1>2, <2>8 DEF monitorVars
  <2> QED BY <1>2, <2>1, <2>2, <2>3, <2>4, <2>5, <2>6, <2>7, <2>8 DEF MonitorNext
<1>3. MonInv /\ C => MonitorTypeOK
  BY DEF MonInv, MonitorTypeOK, Brought
<1> QED BY <1>1, <1>2, <1>3, MonHolds, MonInitially, PTL DEF MonitorSpec

-----------------------------------------------------------------------------
(***************************************************************************)
(* Approval at the edge, for any nodes, loads and payments                 *)
(***************************************************************************)

Tiers == {Tier[i] : i \in 1..4}
EdgeNode == DOMAIN EdgeNodes
Said == {"APPROVED", "DENIED", "MFA_REQUIRED", "ESCALATED"}
Result == [decision : Said, node : EdgeNode, latency : Nat]

\* A policy allows all that another one does.
AsGood(q, p) ==
    /\ \A k \in {"single", "daily", "mfa", "auto", "risk"} : p[k] \in Nat /\ q[k] \in Nat
    /\ p.single <= q.single /\ p.daily <= q.daily /\ p.mfa <= q.mfa /\ p.auto <= q.auto /\ p.risk <= q.risk

LEMMA PoliciesAre ==
    /\ UacPolicies["basic"] = UacPolicy(50, 200, 30, 5, 60)
    /\ UacPolicies["standard"] = UacPolicy(200, 1000, 100, 20, 70)
    /\ UacPolicies["premium"] = UacPolicy(1000, 5000, 500, 50, 75)
    /\ UacPolicies["vip"] = UacPolicy(5000, 20000, 2000, 200, 80)
    /\ Tier[1] = "basic" /\ Tier[2] = "standard" /\ Tier[3] = "premium" /\ Tier[4] = "vip"
<1>1. Tier[1] = "basic" /\ Tier[2] = "standard" /\ Tier[3] = "premium" /\ Tier[4] = "vip"
  BY DEF Tier
<1>2. 1 \in 1..4 /\ 2 \in 1..4 /\ 3 \in 1..4 /\ 4 \in 1..4
  OBVIOUS
<1>3. "basic" \in Tiers /\ "standard" \in Tiers /\ "premium" \in Tiers /\ "vip" \in Tiers
  BY <1>1, <1>2, Zenon DEF Tiers
<1> QED BY <1>1, <1>3 DEF UacPolicies, Tiers

LEMMA HigherIsAsGood ==
    ASSUME NEW i \in 1..4, NEW j \in 1..4, i <= j
    PROVE  AsGood(UacPolicies[Tier[j]], UacPolicies[Tier[i]])
<1>1. /\ AsGood(UacPolicy(50, 200, 30, 5, 60), UacPolicy(50, 200, 30, 5, 60))
      /\ AsGood(UacPolicy(200, 1000, 100, 20, 70), UacPolicy(50, 200, 30, 5, 60))
      /\ AsGood(UacPolicy(1000, 5000, 500, 50, 75), UacPolicy(50, 200, 30, 5, 60))
      /\ AsGood(UacPolicy(5000, 20000, 2000, 200, 80), UacPolicy(50, 200, 30, 5, 60))
  BY DEF AsGood, UacPolicy
<1>2. /\ AsGood(UacPolicy(200, 1000, 100, 20, 70), UacPolicy(200, 1000, 100, 20, 70))
      /\ AsGood(UacPolicy(1000, 5000, 500, 50, 75), UacPolicy(200, 1000, 100, 20, 70))
      /\ AsGood(UacPolicy(5000, 20000, 2000, 200, 80), UacPolicy(200, 1000, 100, 20, 70))
  BY DEF AsGood, UacPolicy
<1>3. /\ AsGood(UacPolicy(1000, 5000, 500, 50, 75), UacPolicy(1000, 5000, 500, 50, 75))
      /\ AsGood(UacPolicy(5000, 20000, 2000, 200, 80), UacPolicy(1000, 5000, 500, 50, 75))
      /\ AsGood(UacPolicy(5000, 20000, 2000, 200, 80), UacPolicy(5000, 20000, 2000, 200, 80))
  BY DEF AsGood, UacPolicy
<1>4. CASE i = 1
  <2>1. j = 1 \/ j = 2 \/ j = 3 \/ j = 4
    OBVIOUS
  <2> QED BY <1>1, <1>4, <2>1, PoliciesAre
<1>5. CASE i = 2
  <2>1. j = 2 \/ j = 3 \/ j = 4
    BY <1>5
  <2> QED BY <1>2, <1>5, <2>1, PoliciesAre
<1>6. CASE i = 3
  <2>1. j = 3 \/ j = 4
    BY <1>6
  <2> QED BY <1>3, <1>6, <2>1, PoliciesAre
<1>7. CASE i = 4
  <2>1. j = 4
    BY <1>7
  <2> QED BY <1>3, <1>7, <2>1, PoliciesAre
<1> QED BY <1>4, <1>5, <1>6, <1>7

LEMMA MonotoneApproval ==
    ASSUME NEW p, NEW q, AsGood(q, p), NEW amount \in Nat, NEW risk \in Nat, NEW a \in Nat, NEW r \in Nat,
           a <= amount, r <= risk, Approval(p, amount, risk) = "APPROVED"
    PROVE  Approval(q, a, r) = "APPROVED"
<1>0. /\ p.single \in Nat /\ p.mfa \in Nat /\ p.auto \in Nat /\ p.risk \in Nat
      /\ q.single \in Nat /\ q.mfa \in Nat /\ q.auto \in Nat /\ q.risk \in Nat
      /\ p.single <= q.single /\ p.mfa <= q.mfa /\ p.auto <= q.auto /\ p.risk <= q.risk
  BY DEF AsGood
<1>1. /\ ~(amount > p.single)
      /\ (amount <= p.auto /\ risk < 30) \/ (~(amount >= p.mfa) /\ ~(risk >= p.risk))
  BY DEF Approval
<1>2. ~(a > q.single) /\ ((a <= q.auto /\ r < 30) \/ (~(a >= q.mfa) /\ ~(r >= q.risk)))
  BY <1>0, <1>1
<1> QED BY <1>2 DEF Approval

LEMMA MonotoneDecision ==
    ASSUME NEW p, NEW q, AsGood(q, p), NEW amount \in Nat, NEW risk \in Nat, NEW a \in Nat, NEW r \in Nat,
           a <= amount, r <= risk, NEW m \in Processor, NEW spent \in Nat,
           Decided(m, spent, p, amount, risk) = "APPROVED"
    PROVE  Decided(m, spent, q, a, r) = "APPROVED"
<1>1. CASE m = "earlier"
  BY <1>1, MonotoneApproval DEF Decided, Earlier
<1>2. CASE m # "earlier"
  <2>0. p.daily \in Nat /\ q.daily \in Nat /\ p.daily <= q.daily
    BY DEF AsGood
  <2>1. ~(spent + amount > p.daily) /\ Approval(p, amount, risk) = "APPROVED"
    BY <1>2 DEF Decided, WithinDay
  <2>2. ~(spent + a > q.daily) /\ Approval(q, a, r) = "APPROVED"
    <3>1. Approval(q, a, r) = "APPROVED"
      BY <2>1, MonotoneApproval
    <3> QED BY <2>0, <2>1, <3>1
  <2> QED BY <1>2, <2>2 DEF Decided, WithinDay
<1> QED BY <1>1, <1>2

LEMMA DecisionsAre == ASSUME NEW m, NEW spent, NEW p, NEW a, NEW r PROVE Decided(m, spent, p, a, r) \in Said
BY DEF Decided, Earlier, WithinDay, Approval, Said

-----------------------------------------------------------------------------
\* The nodes: there is one that is chosen, and it has a latency.
LEMMA LatencyIs ==
    ASSUME NEW n \in EdgeNode, NEW load \in Nat PROVE EffectiveLatency(n, load) \in Nat
<1> DEFINE over == IF load > 5 THEN load - 5 ELSE 0
           base == EdgeNodes[n].base
<1>1. over \in Nat /\ base \in Nat /\ EffectiveLatency(n, load) = base * (10 + over * over)
  BY EdgeConstants DEF EffectiveLatency, EdgeNode
<1> HIDE DEF over, base
<1>2. base * (10 + over * over) \in Nat
  BY <1>1
<1> QED BY <1>1, <1>2

LEMMA AnswerLatencyIs ==
    ASSUME NEW decision, NEW n \in EdgeNode, NEW load \in Nat PROVE AnswerLatency(decision, n, load) \in Nat
<1>1. EffectiveLatency(n, load) \in Nat
  BY LatencyIs
<1> QED BY <1>1 DEF AnswerLatency

\* Of what has numbers there is always one with the least.
LEMMA LeastKey ==
    ASSUME NEW S, S # {}, NEW key, \A n \in S : key[n] \in Nat
    PROVE  \E n \in S : \A m \in S : key[n] <= key[m]
<1> DEFINE V == {key[n] : n \in S}
<1>1. V \in SUBSET Nat /\ V # {}
  OBVIOUS
<1>2. PICK v \in V : \A w \in V : v <= w
  BY <1>1, LeastNumber
<1> QED BY <1>2

LEMMA SelectedIs ==
    ASSUME NEW load \in [EdgeNode -> Nat], NEW region
    PROVE  SelectEdge(EdgeNode, load, region) \in EdgeNode
<1> DEFINE latency == [n \in EdgeNode |-> EffectiveLatency(n, load[n])]
           near == {n \in EdgeNode : EdgeNodes[n].region = region}
           best == IF near # {} THEN Least(near, latency) ELSE Least(EdgeNode, load)
           placed == [n \in EdgeNode |-> EdgeNodes[n].place]
<1>1. \A n \in EdgeNode : latency[n] \in Nat /\ placed[n] \in Nat /\ placed[n] = EdgeNodes[n].place
  BY LatencyIs, EdgeConstants DEF EdgeNode
<1>2. SelectEdge(EdgeNode, load, region)
          = CHOOSE n \in best : \A m \in best : EdgeNodes[n].place <= EdgeNodes[m].place
  BY DEF SelectEdge
<1>3. near \subseteq EdgeNode /\ EdgeNode # {}
  BY EdgeConstants DEF EdgeNode
<1> HIDE DEF latency, placed, near
<1>4. best # {} /\ best \subseteq EdgeNode
  <2>1. CASE near # {}
    <3>1. \E n \in near : \A m \in near : latency[n] <= latency[m]
      <4>1. \A n \in near : latency[n] \in Nat
        BY <1>1, <1>3
      <4> QED BY <2>1, <4>1, LeastKey
    <3> QED BY <1>3, <2>1, <3>1 DEF Least
  <2>2. CASE near = {}
    <3>1. \E n \in EdgeNode : \A m \in EdgeNode : load[n] <= load[m]
      <4>1. \A n \in EdgeNode : load[n] \in Nat
        OBVIOUS
      <4> QED BY <1>3, <4>1, LeastKey
    <3> QED BY <1>3, <2>2, <3>1 DEF Least
  <2> QED BY <2>1, <2>2
<1> HIDE DEF best
<1>5. \E n \in best : \A m \in best : placed[n] <= placed[m]
  <2>1. \A n \in best : placed[n] \in Nat
    BY <1>1, <1>4
  <2> QED BY <1>4, <2>1, LeastKey
<1>6. \E n \in best : \A m \in best : EdgeNodes[n].place <= EdgeNodes[m].place
  BY <1>1, <1>4, <1>5
<1>7. SelectEdge(EdgeNode, load, region) \in best
  BY <1>2, <1>6
<1> QED BY <1>4, <1>7

-----------------------------------------------------------------------------
\* The k-th smallest of a list.
NthIs(s, k, v) ==
    /\ v \in {s[i] : i \in 1..Len(s)}
    /\ Cardinality({i \in 1..Len(s) : s[i] < v}) < k
    /\ k <= Cardinality({i \in 1..Len(s) : s[i] <= v})

LEMMA NthExists ==
    ASSUME NEW s \in Seq(Nat), NEW k \in 1..Len(s)
    PROVE  NthIs(s, k, Nth(s, k)) /\ Nth(s, k) \in Nat
<1> DEFINE n == Len(s)
           upto(v) == {i \in 1..n : s[i] <= v}
           below(v) == {i \in 1..n : s[i] < v}
           Good == {v \in {s[i] : i \in 1..n} : k <= Cardinality(upto(v))}
<1>0. n \in Nat /\ n >= 1 /\ \A i \in 1..n : s[i] \in Nat
  OBVIOUS
<1>1. IsFiniteSet(1..n) /\ Cardinality(1..n) = n
  BY <1>0, FS_Interval
<1>2. \A v : /\ IsFiniteSet(upto(v)) /\ IsFiniteSet(below(v))
             /\ Cardinality(upto(v)) \in Nat /\ Cardinality(below(v)) \in Nat
  <2> TAKE v
  <2>1. upto(v) \in SUBSET (1..n) /\ below(v) \in SUBSET (1..n)
    OBVIOUS
  <2> QED BY <1>1, <2>1, FS_Subset, FS_CardinalityType
<1>3. Good # {}
  <2>1. [i \in 1..n |-> s[i]] \in [1..n -> Int] /\ 1..n # {}
    BY <1>0
  <2>2. PICK x \in 1..n : \A y \in 1..n : s[y] <= s[x]
    <3> DEFINE f == [i \in 1..n |-> s[i]]
    <3>1. \E x \in 1..n : \A y \in 1..n : f[y] <= f[x]
      BY <1>1, <2>1, GreatestOf
    <3> QED BY <3>1
  <2>3. upto(s[x]) = 1..n
    BY <2>2
  <2>4. k <= Cardinality(upto(s[x]))
    <3> HIDE DEF upto
    <3> QED BY <1>0, <1>1, <2>3
  <2> QED BY <2>2, <2>4
<1>4. Good \in SUBSET Nat
  BY <1>0
<1> HIDE DEF Good
<1>5. PICK v \in Good : \A w \in Good : v <= w
  BY <1>3, <1>4, LeastNumber
<1>9. v \in Nat
  BY <1>4, <1>5
<1> USE DEF Good
<1>6. Cardinality(below(v)) < k
  <2>1. CASE below(v) = {}
    <3>1. Cardinality({}) = 0
      BY FS_EmptySet
    <3> HIDE DEF below
    <3> QED BY <2>1, <3>1
  <2>2. CASE below(v) # {}
    <3> DEFINE f == [i \in below(v) |-> s[i]]
    <3>1. f \in [below(v) -> Int]
      BY <1>0
    <3>2. PICK x \in below(v) : \A y \in below(v) : f[y] <= f[x]
      BY <1>2, <2>2, <3>1, GreatestOf
    <3>3. x \in 1..n /\ s[x] < v /\ \A y \in below(v) : s[y] <= s[x]
      BY <3>2
    <3>4. s[x] \notin Good
      <4> HIDE DEF Good, below
      <4>1. s[x] \in Nat
        BY <1>0, <3>3
      <4> QED BY <1>5, <1>9, <3>3, <4>1
    <3>5. ~(k <= Cardinality(upto(s[x])))
      BY <3>3, <3>4
    <3>6. v \in Nat /\ s[x] \in Nat
      BY <1>9, <1>0, <3>3
    <3>7. \A i \in 1..n : s[i] < v <=> s[i] <= s[x]
      BY <1>0, <3>3, <3>6
    <3>8. below(v) = upto(s[x])
      BY <3>7
    <3> HIDE DEF below, upto
    <3> QED BY <1>2, <3>5, <3>8
  <2> QED BY <2>1, <2>2
<1>7. NthIs(s, k, v)
  BY <1>5, <1>6 DEF NthIs
<1>8. NthIs(s, k, Nth(s, k))
  BY <1>7 DEF Nth, NthIs
<1> QED BY <1>0, <1>8 DEF NthIs

LEMMA NthMonotone ==
    ASSUME NEW s \in Seq(Nat), NEW j \in 1..Len(s), NEW k \in 1..Len(s), j <= k
    PROVE  Nth(s, j) <= Nth(s, k)
<1> DEFINE n == Len(s)
           v == Nth(s, j)
           w == Nth(s, k)
           under == {i \in 1..n : s[i] < v}
           upto == {i \in 1..n : s[i] <= w}
<1>1. v \in Nat /\ w \in Nat /\ NthIs(s, j, v) /\ NthIs(s, k, w)
  BY NthExists
<1>2. Cardinality(under) < j /\ k <= Cardinality(upto)
  BY <1>1 DEF NthIs
<1>3. \A i \in 1..n : s[i] \in Nat
  OBVIOUS
<1> SUFFICES ASSUME w < v PROVE FALSE
  BY <1>1
<1> HIDE DEF v, w
<1>4. upto \in SUBSET under /\ under \in SUBSET (1..n) /\ n \in Nat
  BY <1>1, <1>3
<1> HIDE DEF under, upto
<1>5. IsFiniteSet(1..n)
  BY <1>4, FS_Interval
<1>6. IsFiniteSet(under)
  BY <1>4, <1>5, FS_Subset
<1>7. Cardinality(upto) <= Cardinality(under) /\ Cardinality(upto) \in Nat /\ Cardinality(under) \in Nat
  BY <1>4, <1>6, FS_Subset, FS_CardinalityType
<1> QED BY <1>2, <1>7

LEMMA PercentilesAreInOrder ==
    ASSUME NEW s \in Seq(Nat), Len(s) >= 3
    PROVE  /\ Median2(s) <= 2 * Percentile(s, 95) /\ Percentile(s, 95) <= Percentile(s, 99)
           /\ Median2(s) <= 2 * EarlierPercentile(s, 95) /\ EarlierPercentile(s, 95) <= EarlierPercentile(s, 99)
<1> DEFINE n == Len(s)
           a == (95 * (n - 1)) \div 100 + 1
           b == (99 * (n - 1)) \div 100 + 1
           c == (95 * n) \div 100 + 1
           d == (99 * n) \div 100 + 1
<1>0. n \in Nat /\ n >= 3
  OBVIOUS
<1>1. a \in 1..n /\ b \in 1..n /\ c \in 1..n /\ d \in 1..n /\ a <= b /\ c <= d
  BY <1>0
<1>2. \E m : m \in 1..n /\ Median2(s) <= 2 * Nth(s, m) /\ m <= a /\ m <= c /\ Median2(s) \in Int
  <2>1. CASE n % 2 = 1
    <3> DEFINE m == (n + 1) \div 2
    <3>1. m \in 1..n /\ m <= a /\ m <= c
      BY <1>0, <2>1
    <3>2. Median2(s) = 2 * Nth(s, m)
      BY <2>1 DEF Median2
    <3>3. Nth(s, m) \in Nat
      BY <3>1, NthExists
    <3> HIDE DEF m
    <3>4. m \in 1..n /\ Median2(s) <= 2 * Nth(s, m) /\ m <= a /\ m <= c /\ Median2(s) \in Int
      BY <3>1, <3>2, <3>3
    <3> QED BY <3>4
  <2>2. CASE n % 2 # 1
    <3> DEFINE h == n \div 2
               m == n \div 2 + 1
    <3>1. m \in 1..n /\ h \in 1..n /\ h <= m /\ m <= a /\ m <= c
      BY <1>0, <2>2
    <3>2. Median2(s) = Nth(s, h) + Nth(s, m)
      BY <2>2 DEF Median2
    <3> HIDE DEF h, m
    <3>3. Nth(s, h) \in Nat /\ Nth(s, m) \in Nat /\ Nth(s, h) <= Nth(s, m)
      BY <3>1, NthExists, NthMonotone
    <3>4. m \in 1..n /\ Median2(s) <= 2 * Nth(s, m) /\ m <= a /\ m <= c /\ Median2(s) \in Int
      BY <3>1, <3>2, <3>3
    <3> QED BY <3>4
  <2> QED BY <2>1, <2>2
<1>3. PICK m : m \in 1..n /\ Median2(s) <= 2 * Nth(s, m) /\ m <= a /\ m <= c /\ Median2(s) \in Int
  BY <1>2
<1>4. /\ Percentile(s, 95) = Nth(s, a) /\ Percentile(s, 99) = Nth(s, b)
      /\ EarlierPercentile(s, 95) = Nth(s, c) /\ EarlierPercentile(s, 99) = Nth(s, d)
  BY DEF Percentile, EarlierPercentile
<1> HIDE DEF a, b, c, d
<1>5. /\ Nth(s, m) <= Nth(s, a) /\ Nth(s, a) <= Nth(s, b) /\ Nth(s, m) <= Nth(s, c) /\ Nth(s, c) <= Nth(s, d)
      /\ Nth(s, m) \in Nat /\ Nth(s, a) \in Nat /\ Nth(s, c) \in Nat
  BY <1>1, <1>3, NthExists, NthMonotone
<1>6. Median2(s) <= 2 * Nth(s, a) /\ Median2(s) <= 2 * Nth(s, c)
  BY <1>3, <1>5
<1> QED BY <1>4, <1>5, <1>6

-----------------------------------------------------------------------------
\* What is known of a user and of a node after the first m results s of the
\* payments g, and the result that the next payment then has.
TookOf(g, s, u, m) == {i \in 1..m : g[i].user = u /\ s[i].decision = "APPROVED"}
SpentOf(g, s, u, m) == SumFunction([i \in TookOf(g, s, u, m) |-> g[i].amount])
Served(s, n, m) == {i \in 1..m : s[i].node = n /\ s[i].decision = "APPROVED"}
LoadAt(load) == IF load > 10 THEN 10 ELSE load
LoadsOf(s, m) ==
    [n \in EdgeNode |-> LoadAt(EdgeNodes[n].load + EdgeNodes[n].step * Cardinality(Served(s, n, m)))]
OutcomeOf(g, s, i) ==
    LET x    == g[i]
        node == SelectEdge(EdgeNode, LoadsOf(s, i - 1), x.region)
        said == WithinDay(SpentOf(g, s, x.user, i - 1), UacPolicies[x.tier], x.amount, x.risk)
    IN  [decision |-> said, node |-> node, latency |-> AnswerLatency(said, node, LoadsOf(s, i - 1)[node])]

\* It depends on no later results.
Agree(s, t, m) == \A i \in 1..m : s[i] = t[i]

LEMMA OnlyEarlier ==
    ASSUME NEW g, NEW s, NEW t, NEW m \in Nat, Agree(s, t, m), NEW j \in 0..m
    PROVE  /\ \A u : TookOf(g, s, u, j) = TookOf(g, t, u, j) /\ SpentOf(g, s, u, j) = SpentOf(g, t, u, j)
           /\ LoadsOf(s, j) = LoadsOf(t, j)
<1>1. \A i \in 1..j : s[i] = t[i]
  BY DEF Agree
<1>2. \A u : TookOf(g, s, u, j) = TookOf(g, t, u, j)
  BY <1>1 DEF TookOf
<1>3. \A n : Served(s, n, j) = Served(t, n, j)
  BY <1>1 DEF Served
<1> QED BY <1>2, <1>3 DEF SpentOf, LoadsOf

LEMMA SameOutcome ==
    ASSUME NEW g, NEW s, NEW t, NEW m \in Nat, Agree(s, t, m), NEW i \in 1..m + 1
    PROVE  OutcomeOf(g, s, i) = OutcomeOf(g, t, i)
<1>1. i - 1 \in 0..m
  OBVIOUS
<1>2. SpentOf(g, s, g[i].user, i - 1) = SpentOf(g, t, g[i].user, i - 1) /\ LoadsOf(s, i - 1) = LoadsOf(t, i - 1)
  BY <1>1, OnlyEarlier
<1> QED BY <1>2 DEF OutcomeOf

\* The next result adds the payment to what its user has spent, and the step to
\* the load of its node, just if it is an approval.
LEMMA NextSpent ==
    ASSUME NEW g \in Seq(EdgePayments), NEW s, NEW m \in Nat, m < Len(g), NEW u
    PROVE  /\ SpentOf(g, s, u, m) \in Nat
           /\ SpentOf(g, s, u, m + 1) = SpentOf(g, s, u, m)
                  + IF g[m + 1].user = u /\ s[m + 1].decision = "APPROVED" THEN g[m + 1].amount ELSE 0
<1> DEFINE U == 1..Len(g)
           f == [i \in U |-> g[i].amount]
           T == TookOf(g, s, u, m)
           V == TookOf(g, s, u, m + 1)
<1>0. \A i \in U : g[i] \in EdgePayments /\ g[i].amount \in Nat
  BY EdgeConstants
<1>1. f \in [U -> Int] /\ \A i \in U : f[i] = g[i].amount /\ 0 <= f[i]
  BY <1>0
<1>2. T \in SUBSET U /\ V \in SUBSET U /\ m + 1 \in U \ T
  BY DEF TookOf
<1>3. IsFiniteSet(T) /\ IsFiniteSet(V)
  <2>1. IsFiniteSet(U)
    BY FS_Interval
  <2> QED BY <1>2, <2>1, FS_Subset
<1>4. V = IF g[m + 1].user = u /\ s[m + 1].decision = "APPROVED" THEN T \cup {m + 1} ELSE T
  BY DEF TookOf
<1>5. SpentOf(g, s, u, m) = SumFunction([i \in T |-> g[i].amount])
      /\ SpentOf(g, s, u, m + 1) = SumFunction([i \in V |-> g[i].amount])
  BY DEF SpentOf
<1> HIDE DEF f, T, V, U
<1>6. \A S \in SUBSET U : IsFiniteSet(S) => SumFunction([i \in S |-> g[i].amount]) = SumOf(f, S)
  <2> SUFFICES ASSUME NEW S \in SUBSET U, IsFiniteSet(S)
               PROVE  SumFunction([i \in S |-> g[i].amount]) = SumOf(f, S)
    OBVIOUS
  <2>0. S \in SUBSET U /\ IsFiniteSet(S) /\ f \in [U -> Int]
    BY <1>1
  <2> DEFINE h == [i \in S |-> g[i].amount]
  <2>1. DOMAIN h = S /\ h = [x \in S |-> h[x]] /\ \A x \in S : h[x] = f[x]
    BY <1>1
  <2> HIDE DEF h
  <2>2. SumOf(h, DOMAIN h) = SumOf(f, S)
    BY <2>0, <2>1, SumRestrict
  <2>3. SumFunction(h) = SumOf(h, DOMAIN h)
    BY SumsOfFunctions
  <2> QED BY <2>2, <2>3 DEF h
<1>7. SpentOf(g, s, u, m) = SumOf(f, T) /\ SpentOf(g, s, u, m + 1) = SumOf(f, V)
  BY <1>2, <1>3, <1>5, <1>6
<1>8. SumOf(f, T) \in Int /\ 0 <= SumOf(f, T)
  BY <1>1, <1>2, <1>3, SumInt, SumNonneg
<1>9. f[m + 1] = g[m + 1].amount
  BY <1>1, <1>2
<1>10. SumOf(f, T \cup {m + 1}) = f[m + 1] + SumOf(f, T)
  BY <1>1, <1>2, <1>3, SumAdd
<1>11. CASE g[m + 1].user = u /\ s[m + 1].decision = "APPROVED"
  <2>1. SumOf(f, V) = g[m + 1].amount + SumOf(f, T) /\ g[m + 1].amount \in Nat
    BY <1>0, <1>2, <1>4, <1>9, <1>10, <1>11
  <2> QED BY <1>7, <1>8, <1>11, <2>1
<1>12. CASE ~(g[m + 1].user = u /\ s[m + 1].decision = "APPROVED")
  <2>1. SumOf(f, V) = SumOf(f, T)
    BY <1>4, <1>12
  <2> QED BY <1>7, <1>8, <1>12, <2>1
<1> QED BY <1>11, <1>12

LEMMA NothingSpent == ASSUME NEW g, NEW s, NEW u PROVE TookOf(g, s, u, 0) = {} /\ SpentOf(g, s, u, 0) = 0
<1>1. TookOf(g, s, u, 0) = {}
  BY DEF TookOf
<1> DEFINE h == [i \in TookOf(g, s, u, 0) |-> g[i].amount]
<1>2. h \in [{} -> Int] /\ DOMAIN h = {}
  BY <1>1
<1> HIDE DEF h
<1>3. SumOf(h, {}) = 0
  BY <1>2, SumEmpty
<1>4. SumFunction(h) = SumOf(h, DOMAIN h)
  BY SumsOfFunctions
<1> QED BY <1>1, <1>2, <1>3, <1>4 DEF h, SpentOf

LEMMA NextLoads ==
    ASSUME NEW s, NEW m \in Nat
    PROVE  /\ LoadsOf(s, m) \in [EdgeNode -> 0..10]
           /\ \A n \in EdgeNode : LoadsOf(s, m + 1)[n] =
                  IF s[m + 1].node = n /\ s[m + 1].decision = "APPROVED"
                  THEN (IF LoadsOf(s, m)[n] + EdgeNodes[n].step > 10 THEN 10
                        ELSE LoadsOf(s, m)[n] + EdgeNodes[n].step)
                  ELSE LoadsOf(s, m)[n]
<1>1. ASSUME NEW n \in EdgeNode
      PROVE  /\ LoadsOf(s, m)[n] \in 0..10
             /\ LoadsOf(s, m + 1)[n] =
                  IF s[m + 1].node = n /\ s[m + 1].decision = "APPROVED"
                  THEN (IF LoadsOf(s, m)[n] + EdgeNodes[n].step > 10 THEN 10
                        ELSE LoadsOf(s, m)[n] + EdgeNodes[n].step)
                  ELSE LoadsOf(s, m)[n]
  <2> DEFINE A == Served(s, n, m)
             B == Served(s, n, m + 1)
             c == Cardinality(A)
             l == EdgeNodes[n].load
             d == EdgeNodes[n].step
  <2>1. l \in 0..10 /\ d \in Nat
    BY EdgeConstants DEF EdgeNode
  <2>2. A \in SUBSET (1..m) /\ m + 1 \notin A
    BY DEF Served
  <2>3. IsFiniteSet(A)
    <3>1. IsFiniteSet(1..m)
      BY FS_Interval
    <3> QED BY <2>2, <3>1, FS_Subset
  <2>4. B = IF s[m + 1].node = n /\ s[m + 1].decision = "APPROVED" THEN A \cup {m + 1} ELSE A
    BY DEF Served
  <2>5. LoadsOf(s, m)[n] = LoadAt(l + d * c) /\ LoadsOf(s, m + 1)[n] = LoadAt(l + d * Cardinality(B))
    BY DEF LoadsOf
  <2> HIDE DEF A, B, l, d
  <2>6. c \in Nat /\ Cardinality(A \cup {m + 1}) = c + 1
    BY <2>2, <2>3, FS_AddElement, FS_CardinalityType
  <2> HIDE DEF c
  <2>7. d * c \in Nat /\ d * (c + 1) = d * c + d
    BY <2>1, <2>6
  <2>8. LoadAt(l + d * c) \in 0..10
    BY <2>1, <2>7 DEF LoadAt
  <2>9. LoadAt(l + d * c + d) = IF LoadAt(l + d * c) + d > 10 THEN 10 ELSE LoadAt(l + d * c) + d
    BY <2>1, <2>7 DEF LoadAt
  <2>10. CASE s[m + 1].node = n /\ s[m + 1].decision = "APPROVED"
    <3>1. LoadsOf(s, m + 1)[n] = LoadAt(l + d * (c + 1))
      BY <2>4, <2>5, <2>6, <2>10 DEF c
    <3>2. l + d * (c + 1) = l + d * c + d
      BY <2>1, <2>7
    <3> QED BY <2>5, <2>8, <2>9, <2>10, <3>1, <3>2 DEF d
  <2>11. CASE ~(s[m + 1].node = n /\ s[m + 1].decision = "APPROVED")
    <3>1. LoadsOf(s, m + 1)[n] = LoadsOf(s, m)[n]
      BY <2>4, <2>5, <2>11 DEF c
    <3> QED BY <2>5, <2>8, <2>11, <3>1
  <2> QED BY <2>10, <2>11
<1>2. LoadsOf(s, m) = [n \in EdgeNode |-> LoadsOf(s, m)[n]]
  BY DEF LoadsOf
<1> QED BY <1>1, <1>2

LEMMA NoLoads == ASSUME NEW s PROVE LoadsOf(s, 0) = [n \in EdgeNode |-> EdgeNodes[n].load]
<1>1. ASSUME NEW n \in EdgeNode PROVE LoadsOf(s, 0)[n] = EdgeNodes[n].load
  <2>1. Served(s, n, 0) = {}
    BY DEF Served
  <2>2. Cardinality(Served(s, n, 0)) = 0
    BY <2>1, FS_EmptySet
  <2>3. EdgeNodes[n].load \in 0..10 /\ EdgeNodes[n].step \in Nat
    BY EdgeConstants DEF EdgeNode
  <2>4. EdgeNodes[n].load + EdgeNodes[n].step * 0 = EdgeNodes[n].load
    BY <2>3
  <2>5. LoadAt(EdgeNodes[n].load) = EdgeNodes[n].load
    BY <2>3 DEF LoadAt
  <2> QED BY <2>2, <2>4, <2>5 DEF LoadsOf
<1> QED BY <1>1 DEF LoadsOf

LEMMA OutcomeIs ==
    ASSUME NEW g \in Seq(EdgePayments), NEW s, NEW i \in 1..Len(g) PROVE OutcomeOf(g, s, i) \in Result
<1> DEFINE load == LoadsOf(s, i - 1)
           node == SelectEdge(EdgeNode, load, g[i].region)
           said == WithinDay(SpentOf(g, s, g[i].user, i - 1), UacPolicies[g[i].tier], g[i].amount, g[i].risk)
<1>1. load \in [EdgeNode -> 0..10]
  <2>1. i - 1 \in Nat
    OBVIOUS
  <2> QED BY <2>1, NextLoads
<1>2. OutcomeOf(g, s, i) = [decision |-> said, node |-> node, latency |-> AnswerLatency(said, node, load[node])]
  BY DEF OutcomeOf
<1>3. said \in Said
  BY DEF WithinDay, Approval, Said
<1> HIDE DEF load, said
<1>4. node \in EdgeNode
  <2>1. load \in [EdgeNode -> Nat]
    BY <1>1
  <2> QED BY <2>1, SelectedIs
<1> HIDE DEF node
<1>5. AnswerLatency(said, node, load[node]) \in Nat
  <2>1. load[node] \in Nat
    BY <1>1, <1>4
  <2> QED BY <1>4, <2>1, AnswerLatencyIs
<1> QED BY <1>2, <1>3, <1>4, <1>5 DEF Result

-----------------------------------------------------------------------------
\* What a processor remembers is what its results say, each of them is the one
\* that its payment had to have, and the last approval kept to its limit.
HistoryOf(g, s, spent, load) ==
    /\ spent = [u \in Spender |-> SpentOf(g, s, u, Len(s))]
    /\ load = LoadsOf(s, Len(s))
    /\ \A u \in Spender : TookOf(g, s, u, Len(s)) # {} =>
          \E i \in TookOf(g, s, u, Len(s)) : SpentOf(g, s, u, Len(s)) <= UacPolicies[g[i].tier].daily
    /\ \A i \in 1..Len(s) : s[i] = OutcomeOf(g, s, i)

\* A processor that knows so much meets the payment x with the result e, and then
\* knows so much.
Meets(g, s, spent, load, x, node, verdict, e) ==
    /\ Len(s) < Len(g) /\ HistoryOf(g, s, spent, load)
    /\ x = g[Len(s) + 1] /\ node = SelectEdge(EdgeNode, load, x.region)
    /\ verdict = WithinDay(spent[x.user], UacPolicies[x.tier], x.amount, x.risk)
    /\ e = [decision |-> verdict, node |-> node, latency |-> AnswerLatency(verdict, node, load[node])]
Updated(spent, load, x, node, verdict, spent2, load2) ==
    /\ spent2 = [spent EXCEPT ![x.user] = IF verdict = "APPROVED" THEN @ + x.amount ELSE @]
    /\ load2 = [load EXCEPT ![node] = IF verdict = "APPROVED"
                                      THEN (IF @ + EdgeNodes[node].step > 10 THEN 10 ELSE @ + EdgeNodes[node].step)
                                      ELSE @]

LEMMA HistoryGrows ==
    ASSUME NEW g \in Seq(EdgePayments), NEW s \in Seq(Result), NEW spent, NEW load, NEW x, NEW node, NEW verdict,
           NEW e, NEW spent2, NEW load2,
           Meets(g, s, spent, load, x, node, verdict, e), Updated(spent, load, x, node, verdict, spent2, load2)
    PROVE  /\ e \in Result /\ HistoryOf(g, Append(s, e), spent2, load2)
           /\ spent2 \in [Spender -> Nat] /\ load2 \in [EdgeNode -> 0..10]
<1> USE DEF Meets, Updated
<1> DEFINE m == Len(s)
           t == Append(s, e)
<1>0. m \in Nat /\ m + 1 \in 1..Len(g) /\ x \in EdgePayments /\ x.user \in Spender
  BY DEF Spender
<1>1. spent = [u \in Spender |-> SpentOf(g, s, u, m)] /\ load = LoadsOf(s, m)
  BY DEF HistoryOf
<1>2. e = OutcomeOf(g, s, m + 1)
  <2>1. spent[x.user] = SpentOf(g, s, x.user, m)
    BY <1>0, <1>1
  <2>2. m + 1 - 1 = m
    BY <1>0
  <2> QED BY <1>1, <2>1, <2>2 DEF OutcomeOf
<1>3. e \in Result
  BY <1>0, <1>2, OutcomeIs
<1>4. Len(t) = m + 1 /\ t[m + 1] = e /\ t \in Seq(Result) /\ Agree(s, t, m)
  BY <1>3, AppendHas DEF Agree
<1>5. e.decision = verdict /\ e.node = node
  OBVIOUS
<1> HIDE DEF t
<1>6. \A i \in 1..m + 1 : t[i] = OutcomeOf(g, t, i)
  <2>1. \A i \in 1..m + 1 : OutcomeOf(g, s, i) = OutcomeOf(g, t, i)
    BY <1>0, <1>4, SameOutcome
  <2>2. \A i \in 1..m : t[i] = s[i] /\ s[i] = OutcomeOf(g, s, i)
    BY <1>4 DEF Agree, HistoryOf
  <2>3. \A i \in 1..m + 1 : i \in 1..m \/ i = m + 1
    BY <1>0
  <2> QED BY <1>2, <1>4, <2>1, <2>2, <2>3
<1>7. \A u : TookOf(g, t, u, m) = TookOf(g, s, u, m) /\ SpentOf(g, t, u, m) = SpentOf(g, s, u, m)
  <2>1. m \in 0..m
    BY <1>0
  <2> HIDE DEF Meets, Updated, m
  <2> QED BY <1>0, <1>4, <2>1, OnlyEarlier
<1>8. LoadsOf(t, m) = load
  <2>1. m \in 0..m
    BY <1>0
  <2> HIDE DEF Meets, Updated, m
  <2> QED BY <1>0, <1>1, <1>4, <2>1, OnlyEarlier
<1>9. \A u : /\ SpentOf(g, t, u, m) \in Nat
             /\ SpentOf(g, t, u, m + 1) = SpentOf(g, t, u, m)
                    + IF x.user = u /\ verdict = "APPROVED" THEN x.amount ELSE 0
  BY <1>0, <1>4, <1>5, NextSpent
<1>10. spent2 = [u \in Spender |-> SpentOf(g, t, u, m + 1)] /\ spent2 \in [Spender -> Nat]
  <2>1. ASSUME NEW u \in Spender PROVE spent2[u] = SpentOf(g, t, u, m + 1) /\ spent2[u] \in Nat
    <3>1. spent[u] = SpentOf(g, t, u, m) /\ x.amount \in Nat
      BY <1>0, <1>1, <1>7, EdgeConstants
    <3>2. spent2[u] = IF u = x.user THEN (IF verdict = "APPROVED" THEN spent[u] + x.amount ELSE spent[u])
                      ELSE spent[u]
      BY <1>0, <1>1
    <3> DEFINE a == SpentOf(g, t, u, m)
               b == SpentOf(g, t, u, m + 1)
    <3>3. a \in Nat /\ b = a + IF x.user = u /\ verdict = "APPROVED" THEN x.amount ELSE 0
      BY <1>9
    <3>4. spent[u] = a
      BY <3>1
    <3> HIDE DEF a, b
    <3>5. spent2[u] = b /\ spent2[u] \in Nat
      BY <3>1, <3>2, <3>3, <3>4
    <3> QED BY <3>5 DEF b
  <2>2. spent2 = [u \in Spender |-> spent2[u]]
    BY <1>1
  <2> QED BY <2>1, <2>2
<1>11. load2 = LoadsOf(t, m + 1) /\ load2 \in [EdgeNode -> 0..10]
  <2>0. m \in Nat /\ m + 1 \in Nat
    BY <1>0
  <2>1. LoadsOf(t, m + 1) \in [EdgeNode -> 0..10] /\ load \in [EdgeNode -> 0..10]
    <3> HIDE DEF Meets, Updated, m
    <3>1. LoadsOf(t, m + 1) \in [EdgeNode -> 0..10]
      BY <2>0, NextLoads
    <3>2. LoadsOf(t, m) \in [EdgeNode -> 0..10]
      BY <2>0, NextLoads
    <3> QED BY <1>8, <3>1, <3>2
  <2>2. \A n \in EdgeNode : LoadsOf(t, m + 1)[n] =
              IF e.node = n /\ e.decision = "APPROVED"
              THEN (IF load[n] + EdgeNodes[n].step > 10 THEN 10 ELSE load[n] + EdgeNodes[n].step)
              ELSE load[n]
    <3>1. t[m + 1] = e
      BY <1>4
    <3> HIDE DEF Meets, Updated, m
    <3> QED BY <1>8, <2>0, <3>1, NextLoads
  <2>3. \A n \in EdgeNode : load2[n] = LoadsOf(t, m + 1)[n]
    BY <1>5, <2>1, <2>2
  <2>4. load2 = [n \in EdgeNode |-> load2[n]]
    BY <2>1
  <2>5. LoadsOf(t, m + 1) = [n \in EdgeNode |-> LoadsOf(t, m + 1)[n]]
    BY <2>1
  <2>6. load2 = LoadsOf(t, m + 1)
    BY <2>3, <2>4, <2>5
  <2> QED BY <2>1, <2>6
<1>12. ASSUME NEW u \in Spender, TookOf(g, t, u, m + 1) # {}
       PROVE  \E i \in TookOf(g, t, u, m + 1) : SpentOf(g, t, u, m + 1) <= UacPolicies[g[i].tier].daily
  <2>1. CASE x.user = u /\ verdict = "APPROVED"
    <3>1. m + 1 \in TookOf(g, t, u, m + 1)
      BY <1>0, <1>4, <1>5, <2>1 DEF TookOf
    <3>2. ~(spent[u] + x.amount > UacPolicies[x.tier].daily)
      BY <2>1 DEF WithinDay
    <3>3. UacPolicies[x.tier].daily \in Nat
      <4>1. PICK k \in 1..4 : x.tier = Tier[k]
        BY <1>0, EdgeConstants
      <4>2. AsGood(UacPolicies[Tier[k]], UacPolicies[Tier[k]])
        BY HigherIsAsGood
      <4> QED BY <4>1, <4>2 DEF AsGood
    <3>4. spent[u] = SpentOf(g, t, u, m) /\ x.amount \in Nat
      BY <1>0, <1>1, <1>7, EdgeConstants
    <3>5. SpentOf(g, t, u, m + 1) = spent[u] + x.amount /\ spent[u] \in Nat
      BY <1>9, <2>1, <3>4
    <3>6. SpentOf(g, t, u, m + 1) <= UacPolicies[x.tier].daily
      BY <3>2, <3>3, <3>4, <3>5
    <3> QED BY <3>1, <3>6
  <2>2. CASE ~(x.user = u /\ verdict = "APPROVED")
    <3>1. TookOf(g, t, u, m + 1) = TookOf(g, t, u, m)
      BY <1>0, <1>4, <1>5, <2>2 DEF TookOf
    <3>2. SpentOf(g, t, u, m + 1) = SpentOf(g, t, u, m)
      BY <3>1 DEF SpentOf
    <3>3. TookOf(g, s, u, m) # {} =>
             \E i \in TookOf(g, s, u, m) : SpentOf(g, s, u, m) <= UacPolicies[g[i].tier].daily
      BY DEF HistoryOf
    <3> QED BY <1>7, <1>12, <3>1, <3>2, <3>3
  <2> QED BY <2>1, <2>2
<1> HIDE DEF Meets, Updated
<1>13. HistoryOf(g, t, spent2, load2)
  BY <1>4, <1>6, <1>10, <1>11, <1>12 DEF HistoryOf
<1> QED BY <1>3, <1>10, <1>11, <1>13 DEF t

\* Two processors that were given the same payments have the same results.
Runs(g, s, n) == \A i \in 1..n : s[i] = OutcomeOf(g, s, i)

LEMMA SamePast ==
    ASSUME NEW g, NEW s, NEW t, NEW n \in Nat, Runs(g, s, n), Runs(g, t, n)
    PROVE  Agree(s, t, n)
<1> USE DEF Runs
<1> DEFINE B == {i \in 1..n : s[i] # t[i]}
<1> SUFFICES ASSUME B # {} PROVE FALSE
  BY DEF Agree
<1>1. PICK i \in B : \A j \in B : i <= j
  <2>1. B \in SUBSET Nat
    OBVIOUS
  <2> QED BY <2>1, LeastNumber
<1>2. i \in 1..n /\ i - 1 \in Nat /\ s[i] # t[i] /\ i \in 1..(i - 1) + 1
  BY <1>1
<1>3. Agree(s, t, i - 1)
  BY <1>1, <1>2 DEF Agree
<1>4. OutcomeOf(g, s, i) = OutcomeOf(g, t, i)
  BY <1>2, <1>3, SameOutcome
<1> QED BY <1>2, <1>4

-----------------------------------------------------------------------------
\* The inductive invariant.
EdgeInv ==
    /\ EdgeTypeOK
    /\ HistoryOf(generated, approvals["mec"], dailySpent["mec"], edgeLoad["mec"])
    /\ HistoryOf(generated, approvals["cloud"], dailySpent["cloud"], edgeLoad["cloud"])
    /\ Len(approvals["cloud"]) <= Len(approvals["mec"])

LEMMA NothingYet ==
    ASSUME NEW g, NEW spent, NEW load, spent = [u \in Spender |-> 0], load = [n \in EdgeNode |-> EdgeNodes[n].load]
    PROVE  HistoryOf(g, <<>>, spent, load)
<1>1. \A u : TookOf(g, <<>>, u, 0) = {} /\ SpentOf(g, <<>>, u, 0) = 0
  BY NothingSpent
<1>2. LoadsOf(<<>>, 0) = load
  BY NoLoads
<1>3. Len(<<>>) = 0
  OBVIOUS
<1> QED BY <1>1, <1>2, <1>3 DEF HistoryOf

LEMMA EdgeStep == EdgeInv /\ [EdgeNext]_edgeVars => EdgeInv'
<1> SUFFICES ASSUME EdgeInv, [EdgeNext]_edgeVars PROVE EdgeInv'
  OBVIOUS
<1>0. /\ generated \in Seq(EdgePayments) /\ Len(generated) <= MaxGenerated
      /\ edgeLoad \in [Processor -> [EdgeNode -> 0..10]]
      /\ dailySpent \in [Processor -> [Spender -> Nat]]
      /\ approvals \in [Processor -> Seq(Result)]
      /\ \A p \in Processor : Len(approvals[p]) <= Len(generated)
  BY DEF EdgeInv, EdgeTypeOK, EdgeNode, Result, Said
<1>P. Processor = {"mec", "cloud", "earlier"}
  BY DEF Processor
<1>1. CASE UNCHANGED edgeVars
  BY <1>1 DEF EdgeInv, EdgeTypeOK, edgeVars
<1>2. CASE GenerateTransaction
  <2>1. PICK x \in EdgePayments : generated' = Append(generated, x)
    BY <1>2 DEF GenerateTransaction
  <2>2. /\ Len(generated) < MaxGenerated /\ UNCHANGED <<edgeLoad, dailySpent, approvals>>
        /\ \A p \in Processor : approvals[p] = <<>>
    BY <1>2 DEF GenerateTransaction
  <2>3. generated' \in Seq(EdgePayments) /\ Len(generated') = Len(generated) + 1 /\ Len(generated) \in Nat
    BY <1>0, <2>1, AppendHas
  <2>4. MaxGenerated \in Nat
    BY EdgeConstants
  <2>5. EdgeTypeOK'
    <3>1. Len(generated)' <= MaxGenerated
      BY <2>2, <2>3, <2>4
    <3>2. \A p \in Processor : Len(approvals'[p]) <= Len(generated)'
      BY <1>0, <2>2, <2>3
    <3> QED BY <1>0, <2>2, <2>3, <3>1, <3>2 DEF EdgeTypeOK, EdgeNode, Result, Said
  <2>6. ASSUME NEW p \in {"mec", "cloud"}
        PROVE  HistoryOf(generated', approvals'[p], dailySpent'[p], edgeLoad'[p])
    <3>1. HistoryOf(generated, <<>>, dailySpent[p], edgeLoad[p]) /\ approvals[p] = <<>>
      BY <1>P, <2>2 DEF EdgeInv
    <3>2. /\ dailySpent[p] = [u \in Spender |-> SpentOf(generated, <<>>, u, 0)]
          /\ edgeLoad[p] = LoadsOf(<<>>, 0)
      <4>1. Len(<<>>) = 0
        OBVIOUS
      <4> QED BY <3>1, <4>1 DEF HistoryOf
    <3>3. dailySpent[p] = [u \in Spender |-> 0] /\ edgeLoad[p] = [n \in EdgeNode |-> EdgeNodes[n].load]
      BY <3>2, NothingSpent, NoLoads
    <3> DEFINE g == generated'
               a == dailySpent[p]
               b == edgeLoad[p]
    <3>4. a = [u \in Spender |-> 0] /\ b = [n \in EdgeNode |-> EdgeNodes[n].load]
      BY <3>3
    <3> HIDE DEF g, a, b
    <3>5. HistoryOf(g, <<>>, a, b)
      BY <3>4, NothingYet
    <3> QED BY <2>2, <3>1, <3>5 DEF g, a, b
  <2>7. Len(approvals["cloud"])' <= Len(approvals["mec"])'
    BY <2>2 DEF EdgeInv
  <2> QED BY <2>5, <2>6, <2>7 DEF EdgeInv
<1>3. ASSUME NEW p \in Processor, ProcessTransaction(p),
             p = "cloud" => Len(approvals["mec"]) = Len(generated)
      PROVE  EdgeInv'
  <2> DEFINE s == approvals[p]
             m == Len(s)
             x == generated[m + 1]
             node == SelectEdge(EdgeNode, edgeLoad[p], x.region)
             verdict == Decided(p, dailySpent[p][x.user], UacPolicies[x.tier], x.amount, x.risk)
             e == [decision |-> verdict, node |-> node, latency |-> AnswerLatency(verdict, node, edgeLoad[p][node])]
             updates == verdict = "APPROVED" /\ p # "earlier"
  <2>1. NodesAre(p) = EdgeNode
    BY DEF NodesAre, NodesGiven, EdgeNode
  <2>2. /\ Len(approvals[p]) < Len(generated) /\ generated' = generated
        /\ approvals' = [approvals EXCEPT ![p] = Append(@, e)]
        /\ Charge(p, x, updates) /\ Burden(p, node, updates)
    BY <1>3, <2>1 DEF ProcessTransaction
  <2>3. s \in Seq(Result) /\ m \in Nat /\ m < Len(generated) /\ x \in EdgePayments /\ x.user \in Spender
    <3>1. s \in Seq(Result) /\ m \in Nat /\ m < Len(generated)
      BY <1>0, <2>2
    <3>2. m + 1 \in 1..Len(generated)
      BY <1>0, <3>1
    <3> QED BY <1>0, <3>1, <3>2 DEF Spender
  <2>4. /\ approvals'[p] = Append(s, e) /\ \A q \in Processor \ {p} : approvals'[q] = approvals[q]
        /\ DOMAIN approvals' = Processor /\ approvals' = [q \in Processor |-> approvals'[q]]
    BY <1>0, <2>2
  <2>5. /\ dailySpent'[p] = [dailySpent[p] EXCEPT ![x.user] = IF updates THEN @ + x.amount ELSE @]
        /\ \A q \in Processor \ {p} : dailySpent'[q] = dailySpent[q]
        /\ dailySpent' = [q \in Processor |-> dailySpent'[q]]
    BY <1>0, <2>2 DEF Charge
  <2>6. /\ edgeLoad'[p] = [edgeLoad[p] EXCEPT ![node] = IF updates
                                                     THEN (IF @ + EdgeNodes[node].step > 10 THEN 10
                                                           ELSE @ + EdgeNodes[node].step)
                                                     ELSE @]
        /\ \A q \in Processor \ {p} : edgeLoad'[q] = edgeLoad[q]
        /\ edgeLoad' = [q \in Processor |-> edgeLoad'[q]]
    BY <1>0, <2>2 DEF Burden
  <2>7. e \in Result
    <3>1. edgeLoad[p] \in [EdgeNode -> 0..10] /\ edgeLoad[p] \in [EdgeNode -> Nat]
      <4> HIDE DEF e, node, verdict, updates, x, s, m
      <4>1. edgeLoad[p] \in [EdgeNode -> 0..10]
        BY <1>0
      <4>2. edgeLoad[p] = [n \in EdgeNode |-> edgeLoad[p][n]] /\ \A n \in EdgeNode : edgeLoad[p][n] \in Nat
        BY <4>1
      <4> QED BY <4>1, <4>2
    <3>2. node \in EdgeNode
      BY <3>1, SelectedIs
    <3>3. AnswerLatency(verdict, node, edgeLoad[p][node]) \in Nat
      <4>1. edgeLoad[p][node] \in Nat
        BY <3>1, <3>2
      <4> HIDE DEF node, verdict
      <4> QED BY <3>2, <4>1, AnswerLatencyIs
    <3>4. verdict \in Said
      BY DecisionsAre
    <3> QED BY <3>2, <3>3, <3>4 DEF Result
  <2>8. /\ dailySpent'[p] \in [Spender -> Nat] /\ edgeLoad'[p] \in [EdgeNode -> 0..10]
        /\ p # "earlier" => HistoryOf(generated, approvals'[p], dailySpent'[p], edgeLoad'[p])
    <3>1. CASE p = "earlier"
      <4>1. dailySpent'[p] = dailySpent[p] /\ edgeLoad'[p] = edgeLoad[p]
        BY <1>0, <2>5, <2>6, <3>1
      <4> QED BY <1>0, <3>1, <4>1
    <3>2. CASE p # "earlier"
      <4>1. HistoryOf(generated, s, dailySpent[p], edgeLoad[p])
        BY <1>P, <3>2 DEF EdgeInv
      <4>2. verdict = WithinDay(dailySpent[p][x.user], UacPolicies[x.tier], x.amount, x.risk)
        BY <3>2 DEF Decided
      <4>3. updates = (verdict = "APPROVED")
        BY <3>2
      <4>4. /\ dailySpent'[p] = [dailySpent[p] EXCEPT ![x.user] = IF verdict = "APPROVED" THEN @ + x.amount ELSE @]
            /\ edgeLoad'[p] = [edgeLoad[p] EXCEPT ![node] = IF verdict = "APPROVED"
                                                     THEN (IF @ + EdgeNodes[node].step > 10 THEN 10
                                                           ELSE @ + EdgeNodes[node].step)
                                                     ELSE @]
        BY <2>5, <2>6, <4>3
      <4> DEFINE spent == dailySpent[p]
                 load == edgeLoad[p]
                 spent2 == dailySpent'[p]
                 load2 == edgeLoad'[p]
      <4>5. Meets(generated, s, spent, load, x, node, verdict, e)
        BY <2>3, <4>1, <4>2 DEF Meets
      <4>6. Updated(spent, load, x, node, verdict, spent2, load2)
        BY <4>4 DEF Updated
      <4>8. generated \in Seq(EdgePayments) /\ s \in Seq(Result)
        BY <1>0, <2>3
      <4> HIDE DEF s, x, node, verdict, e, spent, load, spent2, load2
      <4>7. HistoryOf(generated, Append(s, e), spent2, load2) /\ spent2 \in [Spender -> Nat] /\ load2 \in [EdgeNode -> 0..10]
        BY <4>5, <4>6, <4>8, HistoryGrows
      <4> QED BY <2>4, <4>7 DEF spent2, load2, s, e
    <3> QED BY <3>1, <3>2
  <2> HIDE DEF e, s, x, node, verdict, updates
  <2>9. Append(s, e) \in Seq(Result) /\ Len(Append(s, e)) = m + 1
    BY <2>3, <2>7, AppendHas DEF m
  <2>10. EdgeTypeOK'
    <3>1. approvals' \in [Processor -> Seq(Result)]
      <4>1. \A q \in Processor : approvals'[q] \in Seq(Result)
        BY <1>0, <2>4, <2>9
      <4> QED BY <2>4, <4>1
    <3>2. dailySpent' \in [Processor -> [Spender -> Nat]]
      <4>1. \A q \in Processor : dailySpent'[q] \in [Spender -> Nat]
        BY <1>0, <2>5, <2>8
      <4> QED BY <2>5, <4>1
    <3>3. edgeLoad' \in [Processor -> [EdgeNode -> 0..10]]
      <4>1. \A q \in Processor : edgeLoad'[q] \in [EdgeNode -> 0..10]
        BY <1>0, <2>6, <2>8
      <4> QED BY <2>6, <4>1
    <3>4. \A q \in Processor : Len(approvals'[q]) <= Len(generated')
      <4>1. Len(approvals'[p]) <= Len(generated')
        BY <1>0, <2>2, <2>3, <2>4, <2>9
      <4> QED BY <1>0, <2>2, <2>4, <4>1
    <3> QED BY <1>0, <2>2, <3>1, <3>2, <3>3, <3>4 DEF EdgeTypeOK, EdgeNode, Result, Said
  <2>11. HistoryOf(generated', approvals'["mec"], dailySpent'["mec"], edgeLoad'["mec"])
    <3>1. CASE p = "mec"
      BY <2>2, <2>8, <3>1
    <3>2. CASE p # "mec"
      BY <1>P, <2>2, <2>4, <2>5, <2>6, <3>2 DEF EdgeInv
    <3> QED BY <3>1, <3>2
  <2>12. HistoryOf(generated', approvals'["cloud"], dailySpent'["cloud"], edgeLoad'["cloud"])
    <3>1. CASE p = "cloud"
      BY <2>2, <2>8, <3>1
    <3>2. CASE p # "cloud"
      BY <1>P, <2>2, <2>4, <2>5, <2>6, <3>2 DEF EdgeInv
    <3> QED BY <3>1, <3>2
  <2>13. Len(approvals'["cloud"]) <= Len(approvals'["mec"])
    <3>0. Len(approvals["cloud"]) \in Nat /\ Len(approvals["mec"]) \in Nat /\ Len(generated) \in Nat
          /\ Len(approvals["cloud"]) <= Len(approvals["mec"])
      BY <1>0, <1>P DEF EdgeInv
    <3>1. CASE p = "cloud"
      <4>1. approvals'["mec"] = approvals["mec"] /\ Len(approvals'["cloud"]) = m + 1
        BY <1>P, <2>4, <2>9, <3>1
      <4> QED BY <1>3, <2>3, <3>0, <3>1, <4>1
    <3>2. CASE p = "mec"
      <4>1. approvals'["cloud"] = approvals["cloud"] /\ Len(approvals'["mec"]) = m + 1 /\ m = Len(approvals["mec"])
        BY <1>P, <2>4, <2>9, <3>2 DEF s
      <4> QED BY <3>0, <4>1
    <3>3. CASE p = "earlier"
      <4>1. approvals'["cloud"] = approvals["cloud"] /\ approvals'["mec"] = approvals["mec"]
        BY <1>P, <2>4, <3>3
      <4> QED BY <3>0, <4>1
    <3> QED BY <1>P, <3>1, <3>2, <3>3
  <2> QED BY <2>10, <2>11, <2>12, <2>13 DEF EdgeInv
<1>4. ASSUME NEW i \in 1..3, \A j \in 1..(i - 1) : Len(approvals[OneAfterOther[j]]) = Len(generated),
             ProcessTransaction(OneAfterOther[i])
      PROVE  EdgeInv'
  <2>1. OneAfterOther[1] = "mec" /\ OneAfterOther[2] = "cloud" /\ OneAfterOther[3] = "earlier"
    BY DEF OneAfterOther
  <2>2. i = 1 \/ i = 2 \/ i = 3
    OBVIOUS
  <2>3. OneAfterOther[i] \in Processor
    BY <1>P, <2>1, <2>2
  <2>4. OneAfterOther[i] = "cloud" => i = 2
    BY <2>1, <2>2
  <2>5. i = 2 => 1 \in 1..(i - 1)
    OBVIOUS
  <2>6. OneAfterOther[i] = "cloud" => Len(approvals["mec"]) = Len(generated)
    BY <1>4, <2>1, <2>4, <2>5
  <2> QED BY <1>3, <1>4, <2>3, <2>6
<1> QED BY <1>1, <1>2, <1>4 DEF EdgeNext

LEMMA EdgeStart == EdgeInit => EdgeInv
<1> SUFFICES ASSUME EdgeInit PROVE EdgeInv
  OBVIOUS
<1>1. /\ generated = <<>> /\ edgeLoad = [p \in Processor |-> [n \in EdgeNode |-> EdgeNodes[n].load]]
      /\ dailySpent = [p \in Processor |-> [u \in Spender |-> 0]] /\ approvals = [p \in Processor |-> <<>>]
  BY DEF EdgeInit, EdgeNode
<1>2. \A n \in EdgeNode : EdgeNodes[n].load \in 0..10
  BY EdgeConstants DEF EdgeNode
<1>3. Len(generated) = 0 /\ \A p \in Processor : approvals[p] = <<>> /\ Len(approvals[p]) = 0
  BY <1>1
<1>4. EdgeTypeOK
  <2>1. edgeLoad \in [Processor -> [EdgeNode -> 0..10]] /\ dailySpent \in [Processor -> [Spender -> Nat]]
    BY <1>1, <1>2
  <2>2. generated \in Seq(EdgePayments) /\ approvals \in [Processor -> Seq(Result)]
    BY <1>1
  <2>3. Len(generated) <= MaxGenerated /\ \A p \in Processor : Len(approvals[p]) <= Len(generated)
    BY <1>3, EdgeConstants
  <2> QED BY <2>1, <2>2, <2>3 DEF EdgeTypeOK, EdgeNode, Result, Said
<1>5. "mec" \in Processor /\ "cloud" \in Processor
  BY DEF Processor
<1>6. ASSUME NEW p \in Processor PROVE HistoryOf(generated, approvals[p], dailySpent[p], edgeLoad[p])
  <2>1. dailySpent[p] = [u \in Spender |-> 0] /\ edgeLoad[p] = [n \in EdgeNode |-> EdgeNodes[n].load]
    BY <1>1
  <2>2. HistoryOf(generated, <<>>, dailySpent[p], edgeLoad[p])
    BY <2>1, NothingYet
  <2> QED BY <1>3, <2>2
<1>7. Len(approvals["cloud"]) <= Len(approvals["mec"])
  BY <1>3, <1>5
<1> QED BY <1>4, <1>5, <1>6, <1>7 DEF EdgeInv

-----------------------------------------------------------------------------
\* What the invariant comes to.
LEMMA PaymentsAre ==
    ASSUME EdgeInv
    PROVE  \A i \in 1..Len(generated) :
              /\ generated[i] \in EdgePayments /\ generated[i].user \in Spender
              /\ generated[i].amount \in Nat /\ generated[i].risk \in Nat /\ generated[i].tier \in Tiers
<1>1. generated \in Seq(EdgePayments)
  BY DEF EdgeInv, EdgeTypeOK
<1>2. \A i \in 1..Len(generated) : generated[i] \in EdgePayments
  BY <1>1
<1> QED BY <1>2, EdgeConstants DEF Spender, Tiers

LEMMA MonotoneFollows == EdgeInv => ApprovalIsMonotone
<1> SUFFICES ASSUME EdgeInv, NEW p \in Processor, NEW k \in 1..Len(generated),
                    Decided(p, dailySpent[p][generated[k].user], UacPolicies[generated[k].tier],
                            generated[k].amount, generated[k].risk) = "APPROVED",
                    NEW j \in 1..4, NEW i \in 1..j, Tier[i] = generated[k].tier,
                    NEW a \in SomeAmount \cup {generated[k].amount}, NEW r \in SomeRisk \cup {generated[k].risk},
                    a <= generated[k].amount, r <= generated[k].risk
             PROVE  Decided(p, dailySpent[p][generated[k].user], UacPolicies[Tier[j]], a, r) = "APPROVED"
  BY DEF ApprovalIsMonotone
<1>1. generated[k].amount \in Nat /\ generated[k].risk \in Nat /\ generated[k].user \in Spender
  BY PaymentsAre
<1>2. dailySpent[p][generated[k].user] \in Nat
  BY <1>1 DEF EdgeInv, EdgeTypeOK
<1>3. a \in Nat /\ r \in Nat
  BY <1>1 DEF SomeAmount, SomeRisk
<1>4. AsGood(UacPolicies[Tier[j]], UacPolicies[Tier[i]])
  <2>1. i \in 1..4 /\ i <= j
    OBVIOUS
  <2> QED BY <2>1, HigherIsAsGood
<1> DEFINE low == UacPolicies[Tier[i]]
           high == UacPolicies[Tier[j]]
           amount == generated[k].amount
           risk == generated[k].risk
           spent == dailySpent[p][generated[k].user]
<1>5. /\ AsGood(high, low) /\ amount \in Nat /\ risk \in Nat /\ spent \in Nat /\ a <= amount /\ r <= risk
      /\ Decided(p, spent, low, amount, risk) = "APPROVED"
  BY <1>1, <1>2, <1>4
<1> HIDE DEF low, high, amount, risk, spent
<1>6. Decided(p, spent, high, a, r) = "APPROVED"
  BY <1>3, <1>5, MonotoneDecision
<1> QED BY <1>6 DEF high, spent

LEMMA DayFollows == EdgeInv => DayIsKept
<1> SUFFICES ASSUME EdgeInv PROVE DayIsKept
  OBVIOUS
<1>0. /\ approvals \in [Processor -> Seq(Result)] /\ "mec" \in Processor /\ "cloud" \in Processor
      /\ Len(approvals["cloud"]) <= Len(approvals["mec"])
  BY DEF EdgeInv, EdgeTypeOK, EdgeNode, Result, Said, Processor
<1>1. ASSUME NEW p \in {"mec", "cloud"}, NEW u \in Spender
      PROVE  LET took == {i \in 1..Len(approvals[p]) : generated[i].user = u /\ approvals[p][i].decision = "APPROVED"}
                 sum  == SumFunction([i \in took |-> generated[i].amount])
             IN  sum = dailySpent[p][u] /\ (took # {} => \E i \in took : sum <= UacPolicies[generated[i].tier].daily)
  <2> DEFINE s == approvals[p]
             m == Len(s)
             took == {i \in 1..m : generated[i].user = u /\ s[i].decision = "APPROVED"}
             sum == SumFunction([i \in took |-> generated[i].amount])
  <2>1. HistoryOf(generated, s, dailySpent[p], edgeLoad[p])
    BY DEF EdgeInv
  <2>2. took = TookOf(generated, s, u, m) /\ sum = SpentOf(generated, s, u, m)
    BY DEF TookOf, SpentOf
  <2>3. dailySpent[p] = [v \in Spender |-> SpentOf(generated, s, v, m)]
    BY <2>1 DEF HistoryOf
  <2>4. sum = dailySpent[p][u]
    BY <2>2, <2>3
  <2>5. TookOf(generated, s, u, m) # {} =>
           \E i \in TookOf(generated, s, u, m) : SpentOf(generated, s, u, m) <= UacPolicies[generated[i].tier].daily
    BY <2>1 DEF HistoryOf
  <2>6. took # {} => \E i \in took : sum <= UacPolicies[generated[i].tier].daily
    BY <2>2, <2>5
  <2> QED BY <2>4, <2>6
<1>2. \A i \in 1..Len(approvals["cloud"]) : approvals["cloud"][i] = approvals["mec"][i]
  <2> DEFINE n == Len(approvals["cloud"])
  <2>1. n \in Nat /\ n <= Len(approvals["mec"]) /\ Len(approvals["mec"]) \in Nat
    BY <1>0
  <2>2. \A i \in 1..n : i \in 1..Len(approvals["mec"])
    BY <2>1
  <2>3. \A i \in 1..n : /\ approvals["cloud"][i] = OutcomeOf(generated, approvals["cloud"], i)
                        /\ approvals["mec"][i] = OutcomeOf(generated, approvals["mec"], i)
    BY <2>2 DEF EdgeInv, HistoryOf
  <2> DEFINE far == approvals["cloud"]
             near == approvals["mec"]
             g == generated
  <2>4. n \in Nat /\ Runs(g, far, n) /\ Runs(g, near, n)
    BY <2>1, <2>3 DEF Runs
  <2> HIDE DEF n, far, near, g
  <2>5. Agree(far, near, n)
    BY <2>4, SamePast
  <2> QED BY <2>5 DEF Agree, n, far, near
<1> QED BY <1>1, <1>2, Zenon DEF DayIsKept

LEMMA PercentilesFollow == EdgeInv => PercentilesInOrder
<1> SUFFICES ASSUME EdgeInv, NEW p \in Processor, Len(Latencies(p)) >= 3
             PROVE  LET s == Latencies(p)
                        k95 == IF p = "earlier" THEN EarlierPercentile(s, 95) ELSE Percentile(s, 95)
                        k99 == IF p = "earlier" THEN EarlierPercentile(s, 99) ELSE Percentile(s, 99)
                    IN  Median2(s) <= 2 * k95 /\ k95 <= k99
  BY DEF PercentilesInOrder
<1>1. approvals[p] \in Seq(Result)
  BY DEF EdgeInv, EdgeTypeOK, EdgeNode, Result, Said
<1>2. \A i \in 1..Len(approvals[p]) : approvals[p][i].latency \in Nat
  <2>1. \A i \in 1..Len(approvals[p]) : approvals[p][i] \in Result
    BY <1>1
  <2> QED BY <2>1 DEF Result
<1>3. Len(approvals[p]) \in Nat
  BY <1>1
<1>4. Latencies(p) \in Seq(Nat)
  BY <1>2, <1>3 DEF Latencies
<1> DEFINE s == Latencies(p)
<1> HIDE DEF s
<1>5. /\ Median2(s) <= 2 * Percentile(s, 95) /\ Percentile(s, 95) <= Percentile(s, 99)
      /\ Median2(s) <= 2 * EarlierPercentile(s, 95) /\ EarlierPercentile(s, 95) <= EarlierPercentile(s, 99)
  BY <1>4, PercentilesAreInOrder DEF s
<1> QED BY <1>5, Zenon DEF s

\* Approval at the edge, whatever the payments, the nodes and their loads: it is
\* monotone in the amount, the risk and the tier, it keeps to the limit of the
\* day, the cloud decides as the edge does, and the percentiles are in order
\* (process_transaction, _update_state, run_simulation).
THEOREM EdgeIsSound == EdgeSpec => []EdgeHolds
<1>1. EdgeInv => EdgeHolds
  BY MonotoneFollows, DayFollows, PercentilesFollow DEF EdgeHolds
<1> QED BY EdgeStart, EdgeStep, <1>1, PTL DEF EdgeSpec
-----------------------------------------------------------------------------
LEMMA EdgeTypes == EdgeSpec => []EdgeTypeOK
<1>1. EdgeInv => EdgeTypeOK
  BY DEF EdgeInv
<1> QED BY <1>1, EdgeStart, EdgeStep, PTL DEF EdgeSpec

-----------------------------------------------------------------------------
(***************************************************************************)
(* The federation, for any rows, clients, masks, scores and orders         *)
(***************************************************************************)

\* The even slices: no two share a place, and together they are all places.
LEMMA ChunkIs ==
    ASSUME NEW n \in Nat \ {0}, NEW length \in Nat
    PROVE  length \div n \in Nat /\ n * (length \div n) <= length
OBVIOUS

LEMMA SliceIs ==
    ASSUME NEW n \in Nat \ {0}, NEW length \in Nat, NEW i \in 1..n
    PROVE  /\ i < n => Slice(i, n, length) = (i - 1) * (length \div n) + 1 .. i * (length \div n)
           /\ i = n => Slice(i, n, length) = (n - 1) * (length \div n) + 1 .. length
BY DEF Slice

LEMMA SlicesApart ==
    ASSUME NEW n \in Nat \ {0}, NEW length \in Nat, NEW i \in 1..n, NEW j \in 1..n, i < j
    PROVE  Slice(i, n, length) \cap Slice(j, n, length) = {}
<1> DEFINE chunk == length \div n
           low == (j - 1) * chunk
           top == i * chunk
<1>1. chunk \in Nat
  BY ChunkIs
<1>2. i < n /\ i \in Nat /\ j - 1 \in Nat /\ i <= j - 1
  OBVIOUS
<1>3. top <= low /\ top \in Nat /\ low \in Nat
  <2> HIDE DEF chunk
  <2> QED BY <1>1, <1>2, Times
<1> DEFINE first == (i - 1) * chunk
           high == IF j < n THEN j * chunk ELSE length
<1>4. Slice(i, n, length) = first + 1 .. top
  BY <1>2 DEF Slice
<1>5. Slice(j, n, length) = low + 1 .. high
  BY DEF Slice
<1>6. first \in Int /\ high \in Int
  <2> HIDE DEF chunk
  <2> QED BY <1>1, <1>2
<1> HIDE DEF low, top, first, high
<1> QED BY <1>3, <1>4, <1>5, <1>6

LEMMA SlicesWithin ==
    ASSUME NEW n \in Nat \ {0}, NEW length \in Nat, NEW i \in 1..n
    PROVE  Slice(i, n, length) \in SUBSET (1..length)
<1> DEFINE chunk == length \div n
           low == (i - 1) * chunk
           top == i * chunk
           all == n * chunk
<1>1. chunk \in Nat /\ all <= length
  BY ChunkIs
<1>2. i \in Nat /\ i <= n /\ n \in Nat /\ i - 1 \in Nat
  OBVIOUS
<1>3. top <= all /\ top \in Nat /\ all \in Nat
  <2> HIDE DEF chunk
  <2> QED BY <1>1, <1>2, Times
<1>4. low \in Nat
  <2> HIDE DEF chunk
  <2> QED BY <1>1, <1>2
<1>5. Slice(i, n, length) = low + 1 .. IF i < n THEN top ELSE length
  BY DEF Slice
<1> HIDE DEF low, top, all, chunk
<1> QED BY <1>1, <1>3, <1>4, <1>5

LEMMA SlicesCover ==
    ASSUME NEW n \in Nat \ {0}, NEW length \in Nat, NEW x \in 1..length
    PROVE  \E i \in 1..n : x \in Slice(i, n, length)
<1> DEFINE chunk == length \div n
           last == (n - 1) * chunk
<1>1. chunk \in Nat /\ last \in Nat
  <2>1. chunk \in Nat
    BY ChunkIs
  <2> HIDE DEF chunk
  <2> QED BY <2>1
<1>2. CASE x > last
  <2>1. n \in 1..n
    OBVIOUS
  <2>2. Slice(n, n, length) = last + 1 .. length
    BY <2>1, SliceIs
  <2> HIDE DEF last
  <2>3. x \in Slice(n, n, length)
    BY <1>1, <1>2, <2>2
  <2> QED BY <2>1, <2>3
<1>3. CASE x <= last
  <2> DEFINE K == {k \in Nat : x <= k * chunk}
  <2>1. n - 1 \in K
    BY <1>3
  <2>2. PICK k \in K : \A m \in K : k <= m
    <3>1. K \in SUBSET Nat /\ K # {}
      BY <2>1
    <3> HIDE DEF K
    <3> QED BY <3>1, LeastNumber
  <2>3. k \in Nat /\ x <= k * chunk /\ k <= n - 1
    BY <2>1, <2>2
  <2>4. k # 0
    <3> HIDE DEF chunk, K
    <3> SUFFICES ASSUME k = 0 PROVE FALSE
      OBVIOUS
    <3>1. k * chunk = 0
      BY <1>1
    <3> QED BY <2>3, <3>1
  <2>5. k - 1 \in Nat /\ k - 1 \notin K
    BY <2>2, <2>3, <2>4
  <2>6. ~(x <= (k - 1) * chunk)
    BY <2>5
  <2>7. k \in 1..n /\ k < n
    BY <2>3, <2>4
  <2>8. Slice(k, n, length) = (k - 1) * chunk + 1 .. k * chunk
    BY <2>7, SliceIs
  <2>9. (k - 1) * chunk \in Nat /\ k * chunk \in Nat
    <3> HIDE DEF chunk
    <3> QED BY <1>1, <2>3, <2>5
  <2>10. x \in Slice(k, n, length)
    <3> DEFINE a == (k - 1) * chunk
               b == k * chunk
    <3>1. a \in Nat /\ b \in Nat /\ ~(x <= a) /\ x <= b /\ Slice(k, n, length) = a + 1 .. b
      BY <2>3, <2>6, <2>8, <2>9
    <3> HIDE DEF a, b
    <3> QED BY <3>1
  <2> QED BY <2>7, <2>10
<1>4. last \in Int
  BY <1>1
<1> QED BY <1>2, <1>3, <1>4

-----------------------------------------------------------------------------
\* The uneven sizes, of n clients with the sizes f: each slice of a number of
\* rows begins where the sizes before it add up to.
Sizes(f, n) == f \in [1..n -> Int] /\ \A i \in 1..n : f[i] >= 1
Begins(f, i) == SumOf(f, 1..i - 1)
Uneven(f, i, total) ==
    LET top == Begins(f, i) + f[i] IN Begins(f, i) + 1 .. IF top <= total THEN top ELSE total

LEMMA BeginsAre ==
    ASSUME NEW n \in Nat, NEW f, Sizes(f, n)
    PROVE  /\ \A i \in 1..n + 1 : Begins(f, i) \in Nat
           /\ \A i \in 1..n : Begins(f, i + 1) = Begins(f, i) + f[i]
           /\ Begins(f, 1) = 0
           /\ \A i, j \in 1..n + 1 : i <= j => Begins(f, i) <= Begins(f, j)
<1> DEFINE U == 1..n
<1>0. f \in [U -> Int] /\ \A i \in U : f[i] \in Int /\ f[i] >= 1
  BY DEF Sizes
<1>1. ASSUME NEW i \in 1..n + 1 PROVE 1..i - 1 \in SUBSET U /\ IsFiniteSet(1..i - 1)
  <2>1. 1..i - 1 \in SUBSET U /\ i - 1 \in Int
    OBVIOUS
  <2>2. IsFiniteSet(1..i - 1)
    BY <2>1, FS_Interval
  <2> QED BY <2>1, <2>2
<1>2. ASSUME NEW i \in 1..n + 1 PROVE Begins(f, i) \in Nat
  <2> DEFINE S == 1..i - 1
  <2>1. S \in SUBSET U /\ IsFiniteSet(S) /\ \A x \in S : 0 <= f[x]
    BY <1>0, <1>1
  <2> HIDE DEF U, S
  <2>2. SumOf(f, S) \in Int /\ 0 <= SumOf(f, S)
    BY <1>0, <2>1, SumInt, SumNonneg
  <2> QED BY <2>2 DEF Begins, S
<1>3. ASSUME NEW i \in 1..n PROVE Begins(f, i + 1) = Begins(f, i) + f[i]
  <2> DEFINE S == 1..i - 1
  <2>1. i \in 1..n + 1 /\ i \in U \ S /\ 1..(i + 1) - 1 = S \cup {i}
    OBVIOUS
  <2>2. S \in SUBSET U /\ IsFiniteSet(S)
    BY <1>1, <2>1
  <2>3. Begins(f, i + 1) = SumOf(f, S \cup {i}) /\ Begins(f, i) = SumOf(f, S)
    BY <2>1 DEF Begins
  <2>5. i \in U \ S /\ f[i] \in Int
    BY <1>0, <2>1
  <2> HIDE DEF U, S
  <2>7. f \in [U -> Int]
    BY <1>0
  <2>8. \A y \in U \ S : SumOf(f, S \cup {y}) = f[y] + SumOf(f, S)
    BY <2>2, <2>7, SumAdd
  <2>6. SumOf(f, S \cup {i}) = f[i] + SumOf(f, S)
    BY <2>5, <2>8
  <2>4. SumOf(f, S \cup {i}) = f[i] + SumOf(f, S) /\ SumOf(f, S) \in Int /\ f[i] \in Int
    BY <1>0, <2>2, <2>5, <2>6, SumInt
  <2> QED BY <2>3, <2>4
<1>4. Begins(f, 1) = 0
  <2>1. 1..1 - 1 = {}
    OBVIOUS
  <2> HIDE DEF U
  <2>2. SumOf(f, {}) = 0
    BY <1>0, SumEmpty
  <2> QED BY <2>1, <2>2 DEF Begins
<1>5. ASSUME NEW i \in 1..n + 1, NEW j \in 1..n + 1, i <= j PROVE Begins(f, i) <= Begins(f, j)
  <2> DEFINE S == 1..i - 1
             T == 1..j - 1
  <2>1. S \in SUBSET T
    BY <1>5
  <2>2. T \in SUBSET U /\ IsFiniteSet(T) /\ \A x \in T \ S : 0 <= f[x]
    BY <1>0, <1>1
  <2> HIDE DEF U, S, T
  <2>3. SumOf(f, S) <= SumOf(f, T)
    BY <1>0, <2>1, <2>2, SumGrows
  <2> QED BY <2>3 DEF Begins, S, T
<1> QED BY <1>2, <1>3, <1>4, <1>5

LEMMA UnevenApart ==
    ASSUME NEW n \in Nat, NEW f, Sizes(f, n), NEW total \in Nat, NEW i \in 1..n, NEW j \in 1..n, i < j
    PROVE  Uneven(f, i, total) \cap Uneven(f, j, total) = {}
<1> DEFINE a == Begins(f, i)
           b == Begins(f, i + 1)
           c == Begins(f, j)
           d == f[i]
<1>1. i \in 1..n + 1 /\ i + 1 \in 1..n + 1 /\ j \in 1..n + 1 /\ i + 1 <= j
  OBVIOUS
<1>2. a \in Nat /\ b \in Nat /\ c \in Nat /\ b = a + d /\ b <= c /\ d \in Int
  BY <1>1, BeginsAre DEF Sizes
<1>3. Uneven(f, i, total) = a + 1 .. IF a + d <= total THEN a + d ELSE total
  BY DEF Uneven
<1>4. \A x \in Uneven(f, j, total) : x > c
  <2> DEFINE e == f[j]
  <2>1. Uneven(f, j, total) = c + 1 .. IF c + e <= total THEN c + e ELSE total
    BY DEF Uneven
  <2>2. e \in Int
    BY DEF Sizes
  <2> HIDE DEF a, b, c, d, e
  <2> QED BY <1>2, <2>1, <2>2
<1> HIDE DEF a, b, c, d
<1>5. \A x \in Uneven(f, i, total) : x \in Int /\ x <= b
  BY <1>2, <1>3
<1> QED BY <1>2, <1>4, <1>5

LEMMA UnevenWithin ==
    ASSUME NEW n \in Nat, NEW f, Sizes(f, n), NEW total \in Nat, NEW i \in 1..n
    PROVE  Uneven(f, i, total) \in SUBSET (1..total)
<1> DEFINE a == Begins(f, i)
           d == f[i]
<1>1. i \in 1..n + 1
  OBVIOUS
<1>2. a \in Nat /\ d \in Int
  BY <1>1, BeginsAre DEF Sizes
<1>3. Uneven(f, i, total) = a + 1 .. IF a + d <= total THEN a + d ELSE total
  BY DEF Uneven
<1> HIDE DEF a, d
<1> QED BY <1>2, <1>3

\* A row before the end of the sizes is with somebody.
LEMMA UnevenCovers ==
    ASSUME NEW n \in Nat, NEW f, Sizes(f, n), NEW total \in Nat, NEW x \in 1..total, x <= Begins(f, n + 1)
    PROVE  \E i \in 1..n : x \in Uneven(f, i, total)
<1> DEFINE K == {k \in 1..n + 1 : x <= Begins(f, k)}
<1>1. n + 1 \in K /\ K \in SUBSET Nat
  OBVIOUS
<1>2. PICK k \in K : \A m \in K : k <= m
  <2> HIDE DEF K
  <2> QED BY <1>1, LeastNumber
<1>3. k \in 1..n + 1 /\ x <= Begins(f, k)
  BY <1>2
<1>4. k # 1
  <2>1. Begins(f, 1) = 0
    BY BeginsAre
  <2> QED BY <1>3, <2>1
<1> DEFINE i == k - 1
<1>5. i \in 1..n /\ i \in 1..n + 1 /\ i + 1 = k /\ i < k
  BY <1>3, <1>4
<1>6. ~(x <= Begins(f, i))
  BY <1>2, <1>5
<1> DEFINE a == Begins(f, i)
           b == Begins(f, k)
           d == f[i]
<1>7. a \in Nat /\ b = a + d /\ d \in Int /\ Uneven(f, i, total) = a + 1 .. IF a + d <= total THEN a + d ELSE total
  <2>1. a \in Nat
    BY <1>5, BeginsAre
  <2>2. Begins(f, i + 1) = Begins(f, i) + f[i]
    BY <1>5, BeginsAre
  <2> QED BY <1>5, <2>1, <2>2 DEF Sizes, Uneven
<1>8. ~(x <= a) /\ x <= b
  BY <1>3, <1>6
<1> HIDE DEF a, b, d, i
<1>9. x \in Uneven(f, i, total)
  BY <1>7, <1>8
<1> QED BY <1>5, <1>9

-----------------------------------------------------------------------------
\* The masks between the members of a set: those of two of them cancel out, and
\* each one's own stays.
Line(m, i, U) == [j \in U |-> m[<<i, j>>]]
WithinSet(m, U, s) == [i \in s |-> SumOf(Line(m, i, U), s)]
Own(m, U) == [i \in U |-> m[<<i, i>>]]
Masks(m, U) ==
    /\ \A i, j \in U : m[<<i, j>>] \in Int
    /\ \A i, j \in U : i # j => m[<<i, j>>] = -m[<<j, i>>]

LEMMA LinesAre ==
    ASSUME NEW U, NEW m, Masks(m, U), NEW s \in SUBSET U, IsFiniteSet(s)
    PROVE  /\ \A i \in U : Line(m, i, U) \in [U -> Int] /\ SumOf(Line(m, i, U), s) \in Int
           /\ Own(m, U) \in [U -> Int]
           /\ WithinSet(m, U, s) \in [s -> Int]
<1>1. ASSUME NEW i \in U PROVE Line(m, i, U) \in [U -> Int]
  BY DEF Line, Masks
<1>2. ASSUME NEW i \in U PROVE SumOf(Line(m, i, U), s) \in Int
  <2> DEFINE f == Line(m, i, U)
  <2>1. f \in [U -> Int]
    BY <1>1
  <2> HIDE DEF f
  <2>2. SumOf(f, s) \in Int
    BY <2>1, SumInt
  <2> QED BY <2>2 DEF f
<1>3. Own(m, U) \in [U -> Int]
  BY DEF Own, Masks
<1>4. WithinSet(m, U, s) \in [s -> Int]
  BY <1>2 DEF WithinSet
<1> QED BY <1>1, <1>2, <1>3, <1>4

\* One more member x of the set.
LEMMA MasksCancelOnce ==
    ASSUME NEW U, NEW m, Masks(m, U), NEW s \in SUBSET U, IsFiniteSet(s), NEW x \in s
    PROVE  SumOf(WithinSet(m, U, s), s) = m[<<x, x>>] + SumOf(WithinSet(m, U, s \ {x}), s \ {x})
<1> DEFINE r == s \ {x}
           f == Line(m, x, U)
           h == [i \in r |-> SumOf(Line(m, i, U), s)]
           g == WithinSet(m, U, r)
           w == WithinSet(m, U, s)
           fr == [i \in r |-> f[i]]
           mine == m[<<x, x>>]
<1>1. r \in SUBSET U /\ IsFiniteSet(r) /\ r \in SUBSET s /\ x \notin r /\ s \in SUBSET s
  <2>1. r \in SUBSET s /\ r \in SUBSET U /\ x \notin r
    OBVIOUS
  <2> HIDE DEF r
  <2>2. IsFiniteSet(r)
    BY <2>1, FS_Subset
  <2> QED BY <2>1, <2>2
<1>2. f \in [U -> Int] /\ w \in [s -> Int]
  BY LinesAre
<1>2g. g \in [r -> Int]
  <2> HIDE DEF r
  <2> QED BY <1>1, LinesAre
<1>3. SumOf(f, s) = mine + SumOf(f, r)
  <2>1. f[x] = mine
    BY DEF Line
  <2> HIDE DEF f, mine
  <2>2. SumOf(f, s) = f[x] + SumOf(f, s \ {x})
    BY <1>2, SumRemove
  <2> QED BY <2>1, <2>2
<1>4. SumOf(w, s) = SumOf(f, s) + SumOf(w, r)
  <2>1. w[x] = SumOf(f, s)
    BY DEF WithinSet
  <2> HIDE DEF f, w
  <2>2. SumOf(w, s) = w[x] + SumOf(w, s \ {x})
    BY <1>1, <1>2, SumRemove
  <2> QED BY <2>1, <2>2
<1>5. ASSUME NEW i \in r PROVE /\ h[i] = g[i] - fr[i] /\ h[i] \in Int /\ fr[i] \in Int /\ w[i] = h[i]
  <2> DEFINE k == Line(m, i, U)
  <2>1. i \in U /\ i \in s /\ i # x
    BY <1>1
  <2>2. k \in [U -> Int] /\ SumOf(k, s) \in Int
    BY <2>1, LinesAre
  <2>3. SumOf(k, r) \in Int
    <3> HIDE DEF r
    <3> QED BY <1>1, <2>1, LinesAre
  <2>4. k[x] = -fr[i] /\ fr[i] \in Int /\ k[x] \in Int
    <3>1. k[x] = m[<<i, x>>] /\ fr[i] = m[<<x, i>>]
      BY <2>1 DEF Line
    <3>2. x \in U
      OBVIOUS
    <3> QED BY <2>1, <3>1, <3>2 DEF Masks
  <2>5. h[i] = SumOf(k, s) /\ g[i] = SumOf(k, r) /\ w[i] = SumOf(k, s)
    BY <2>1 DEF WithinSet
  <2> DEFINE fi == fr[i]
  <2> HIDE DEF k, h, g, w, fr, f, fi
  <2>6. SumOf(k, s) = k[x] + SumOf(k, s \ {x})
    BY <2>2, SumRemove
  <2>7. k[x] = -fi /\ fi \in Int
    BY <2>4 DEF fi
  <2>8. SumOf(k, s) = SumOf(k, r) - fi
    BY <2>3, <2>6, <2>7
  <2> QED BY <2>2, <2>4, <2>5, <2>8 DEF fi
<1>6. DiffersBy(h, g, fr, r)
  <2>1. h \in [r -> Int] /\ fr \in [r -> Int]
    BY <1>5
  <2> HIDE DEF h, g, fr, r
  <2> QED BY <1>2g, <1>5, <2>1 DEF DiffersBy
<1>7. SumOf(w, r) = SumOf(h, r)
  <2>1. h \in [r -> Int] /\ r \in SUBSET (s \cap r) /\ \A i \in r : w[i] = h[i]
    BY <1>5
  <2> HIDE DEF h, w, r
  <2> QED BY <1>1, <1>2, <2>1, SumSame
<1>8. SumOf(fr, r) = SumOf(f, r)
  <2>1. fr \in [r -> Int] /\ r \in SUBSET (r \cap U) /\ \A i \in r : fr[i] = f[i]
    BY <1>5
  <2> HIDE DEF f, fr, r
  <2> QED BY <1>1, <1>2, <2>1, SumSame
<1>9. SumOf(f, r) \in Int /\ mine \in Int
  <2>1. mine \in Int
    BY DEF Masks
  <2> HIDE DEF f, r
  <2> QED BY <1>1, <1>2, <2>1, SumInt
<1> HIDE DEF r, f, h, g, w, fr, mine
<1>10. SumOf(h, r) = SumOf(g, r) - SumOf(fr, r)
  BY <1>1, <1>6, SumLess
<1>11. SumOf(g, r) \in Int
  <2>1. r \in SUBSET r
    OBVIOUS
  <2> QED BY <1>1, <1>2g, <2>1, SumInt
<1>12. SumOf(w, s) = mine + SumOf(g, r)
  BY <1>3, <1>4, <1>7, <1>8, <1>9, <1>10, <1>11
<1> QED BY <1>12 DEF w, mine, g, r

LEMMA MasksCancel ==
    ASSUME NEW U, IsFiniteSet(U), NEW m, Masks(m, U)
    PROVE  SumOf(WithinSet(m, U, U), U) = SumOf(Own(m, U), U)
<1> DEFINE f == Own(m, U)
           G == {s \in SUBSET U : SumOf(WithinSet(m, U, s), s) = SumOf(f, s)}
<1>0. U \in SUBSET U /\ f \in [U -> Int] /\ \A i \in U : f[i] = m[<<i, i>>]
  BY LinesAre DEF Own
<1> HIDE DEF f
<1>1. ASSUME NEW s \in SUBSET U, \A x \in s : s \ {x} \in G PROVE s \in G
  <2>1. IsFiniteSet(s)
    BY FS_Subset
  <2>2. CASE s = {}
    <3> DEFINE w == WithinSet(m, U, s)
    <3>1. w \in [s -> Int] /\ s = {}
      BY <2>1, <2>2, LinesAre
    <3> HIDE DEF w
    <3>2. SumOf(w, s) = 0 /\ SumOf(f, s) = 0
      BY <1>0, <3>1, SumEmpty
    <3> QED BY <3>2 DEF w
  <2>3. ASSUME NEW x \in s PROVE s \in G
    <3>1. SumOf(WithinSet(m, U, s), s) = m[<<x, x>>] + SumOf(WithinSet(m, U, s \ {x}), s \ {x})
      BY <2>1, MasksCancelOnce
    <3>2. SumOf(WithinSet(m, U, s \ {x}), s \ {x}) = SumOf(f, s \ {x})
      BY <1>1
    <3>3. SumOf(f, s) = f[x] + SumOf(f, s \ {x})
      BY <1>0, <2>1, SumRemove
    <3>4. f[x] = m[<<x, x>>]
      BY <1>0
    <3> QED BY <3>1, <3>2, <3>3, <3>4
  <2> QED BY <2>2, <2>3
<1> HIDE DEF G
<1>2. G \in SUBSET SUBSET U
  BY DEF G
<1>3. \A s \in SUBSET U : s \in G
  BY <1>1, <1>2, FromSmaller
<1> QED BY <1>0, <1>3 DEF G, f

-----------------------------------------------------------------------------
\* The sizes that the proportions t of total rows make.
TenthsOf(f, t, n, total) ==
    /\ t \in [1..n -> 0..10] /\ SumOf(t, 1..n) = 10
    /\ \A i \in 1..n : f[i] = IF (total * t[i]) \div 10 >= 1 THEN (total * t[i]) \div 10 ELSE 1

LEMMA TenIs ==
    ASSUME NEW a \in Nat
    PROVE  /\ a \div 10 \in Nat /\ 10 * (a \div 10) <= a /\ a <= 10 * (a \div 10) + 9
           /\ a >= 10 => a \div 10 >= 1
OBVIOUS

LEMMA FewAreLeft ==
    ASSUME NEW n \in Nat \ {0}, NEW f, NEW t, NEW total \in Nat, TenthsOf(f, t, n, total), Sizes(f, n)
    PROVE  /\ total - Begins(f, n + 1) < n
           /\ (\A i \in 1..n : total * t[i] >= 10) => Begins(f, n + 1) <= total
<1> DEFINE U == 1..n
           h == [i \in U |-> total * t[i]]
           k == [i \in U |-> 10 * f[i]]
           w == [i \in U |-> 10 * f[i] + 9]
           nine == [i \in U |-> 9]
           P == SumOf(f, U)
<1>0. U \in SUBSET U /\ U \in SUBSET (U \cap U) /\ f \in [U -> Int] /\ t \in [U -> 0..10] /\ SumOf(t, U) = 10
  BY DEF TenthsOf, Sizes
<1>1. IsFiniteSet(U) /\ Cardinality(U) = n
  BY FS_Interval
<1>2. \A i \in U : t[i] \in Nat /\ f[i] \in Int
  <2> HIDE DEF U
  <2>1. \A i \in U : t[i] \in 0..10
    BY <1>0
  <2>2. \A i \in U : f[i] \in Int
    BY <1>0
  <2> QED BY <2>1, <2>2
<1>3. \A i \in U : /\ total * t[i] \in Nat /\ total * t[i] <= 10 * f[i] + 9
                   /\ total * t[i] >= 10 => 10 * f[i] <= total * t[i]
  <2> SUFFICES ASSUME NEW i \in U
               PROVE  /\ total * t[i] \in Nat /\ total * t[i] <= 10 * f[i] + 9
                      /\ total * t[i] >= 10 => 10 * f[i] <= total * t[i]
    OBVIOUS
  <2> DEFINE a == total * t[i]
             b == f[i]
             q == a \div 10
  <2>1. a \in Nat /\ b = IF q >= 1 THEN q ELSE 1
    <3>1. b = IF q >= 1 THEN q ELSE 1
      BY DEF TenthsOf
    <3> DEFINE c == t[i]
    <3>2. c \in Nat
      BY <1>2
    <3> HIDE DEF c
    <3>3. total * c \in Nat
      BY <3>2
    <3> QED BY <3>1, <3>3 DEF c
  <2>2. q \in Nat /\ 10 * q <= a /\ a <= 10 * q + 9 /\ (a >= 10 => q >= 1)
    <3> HIDE DEF a
    <3> QED BY <2>1, TenIs
  <2> HIDE DEF a, b, q
  <2>3. a \in Nat /\ a <= 10 * b + 9 /\ (a >= 10 => 10 * b <= a)
    BY <2>1, <2>2
  <2> QED BY <2>3 DEF a, b
<1>4. h \in [U -> Int] /\ k \in [U -> Int] /\ w \in [U -> Int] /\ nine \in [U -> Int] /\ t \in [U -> Int]
  <2>1. \A i \in U : total * t[i] \in Int
    BY <1>3
  <2>2. \A i \in U : 10 * f[i] \in Int /\ 10 * f[i] + 9 \in Int
    BY <1>2
  <2>3. t \in [U -> Int]
    <3> HIDE DEF U
    <3>1. 0..10 \subseteq Int
      OBVIOUS
    <3>2. t = [i \in U |-> t[i]] /\ \A i \in U : t[i] \in 0..10
      BY <1>0
    <3> QED BY <3>1, <3>2
  <2> HIDE DEF U
  <2> QED BY <2>1, <2>2, <2>3
<1>5. Scaled(h, total, t, U) /\ Scaled(k, 10, f, U) /\ DiffersBy(k, w, nine, U)
  <2>1. Scaled(h, total, t, U) /\ Scaled(k, 10, f, U)
    BY DEF Scaled
  <2>2. \A i \in U : k[i] = w[i] - nine[i]
    BY <1>2
  <2> HIDE DEF U, k, w, nine
  <2> QED BY <1>4, <2>1, <2>2 DEF DiffersBy
<1>6. \A i \in U : h[i] <= w[i]
  BY <1>3
<1>7. (\A i \in U : total * t[i] >= 10) => \A i \in U : k[i] <= h[i]
  BY <1>3
<1>8. Begins(f, n + 1) = P
  <2>1. 1..(n + 1) - 1 = U
    OBVIOUS
  <2> HIDE DEF U
  <2> QED BY <2>1 DEF Begins
<1>9. SumOf(nine, U) = 9 * n
  <2>1. 9 \in Int
    OBVIOUS
  <2> HIDE DEF U
  <2>2. SumOf([x \in U |-> 9], U) = 9 * Cardinality(U)
    BY <1>0, <1>1, <2>1, SumConstant
  <2> QED BY <1>1, <2>2
<1>10. total \in Int /\ 10 \in Int
  OBVIOUS
<1> HIDE DEF U, h, k, w, nine
<1>11. SumOf(h, U) = total * SumOf(t, U) /\ SumOf(k, U) = 10 * SumOf(f, U)
  BY <1>0, <1>1, <1>4, <1>5, <1>10, SumScale
<1>12. SumOf(k, U) = SumOf(w, U) - SumOf(nine, U)
  BY <1>1, <1>5, SumLess
<1>13. SumOf(h, U) <= SumOf(w, U)
  BY <1>0, <1>1, <1>4, <1>6, SumMonotone
<1>14. (\A i \in U : total * t[i] >= 10) => SumOf(k, U) <= SumOf(h, U)
  <2> SUFFICES ASSUME \A i \in U : total * t[i] >= 10 PROVE SumOf(k, U) <= SumOf(h, U)
    OBVIOUS
  <2>1. \A i \in U : k[i] <= h[i]
    BY <1>7
  <2> QED BY <1>0, <1>1, <1>4, <2>1, SumMonotone
<1>15. SumOf(h, U) \in Int /\ SumOf(k, U) \in Int /\ SumOf(w, U) \in Int /\ P \in Int
  BY <1>0, <1>1, <1>4, SumInt
<1> HIDE DEF P
<1>16. SumOf(h, U) = total * 10 /\ SumOf(k, U) = 10 * P
  BY <1>0, <1>11 DEF P
<1> DEFINE H == SumOf(h, U)
           K == SumOf(k, U)
           W == SumOf(w, U)
<1>17. H = total * 10 /\ K = 10 * P /\ K = W - 9 * n /\ H <= W /\ H \in Int /\ K \in Int /\ W \in Int /\ P \in Int
  BY <1>9, <1>12, <1>13, <1>15, <1>16
<1>18. (\A i \in U : total * t[i] >= 10) => K <= H
  BY <1>14
<1> HIDE DEF H, K, W
<1>19. total - P < n
  BY <1>17
<1>20. (\A i \in U : total * t[i] >= 10) => P <= total
  BY <1>17, <1>18
<1> QED BY <1>8, <1>19, <1>20 DEF U

-----------------------------------------------------------------------------
\* A sum when one value is replaced.
Replaced(g, f, x, v) == g = [f EXCEPT ![x] = v]

LEMMA SumChange ==
    ASSUME NEW U, IsFiniteSet(U), NEW f \in [U -> Int], NEW x \in U, NEW v \in Int, NEW g, Replaced(g, f, x, v)
    PROVE  g \in [U -> Int] /\ SumOf(g, U) = SumOf(f, U) - f[x] + v
<1> DEFINE R == U \ {x}
<1>1. g \in [U -> Int] /\ g[x] = v /\ \A y \in R : g[y] = f[y]
  BY DEF Replaced
<1>2. R \in SUBSET U /\ R \in SUBSET (U \cap U) /\ U \in SUBSET U
  OBVIOUS
<1>3. IsFiniteSet(R)
  BY <1>2, FS_Subset
<1>4. SumOf(f, U) = f[x] + SumOf(f, U \ {x}) /\ SumOf(g, U) = g[x] + SumOf(g, U \ {x})
  BY <1>1, <1>2, SumRemove
<1> HIDE DEF R
<1>5. SumOf(g, R) = SumOf(f, R)
  BY <1>1, <1>2, <1>3, SumSame
<1>6. SumOf(f, R) \in Int /\ f[x] \in Int
  BY <1>2, <1>3, SumInt
<1> DEFINE a == SumOf(f, R)
           b == f[x]
<1>7. SumOf(f, U) = b + a /\ SumOf(g, U) = v + a
  BY <1>1, <1>4, <1>5 DEF R
<1>8. a \in Int /\ b \in Int
  BY <1>6
<1> HIDE DEF a, b
<1>9. SumOf(g, U) = SumOf(f, U) - b + v
  BY <1>7, <1>8
<1> QED BY <1>1, <1>9 DEF b

\* An order of all clients has each of them in it.
LEMMA OrdersReachAll ==
    ASSUME NEW n \in Nat, NEW p \in [1..n -> 1..n], \A i, j \in 1..n : p[i] = p[j] => i = j
    PROVE  {p[j] : j \in 1..n} = 1..n
<1> DEFINE U == 1..n
<1>1. IsFiniteSet(U)
  BY FS_Interval
<1>2. p \in Injection(U, U)
  BY DEF Injection, IsInjective
<1> HIDE DEF U
<1>3. p \in Surjection(U, U)
  BY <1>1, <1>2, FS_Injection
<1> QED BY <1>3 DEF Surjection, U

LEMMA LesserOf == ASSUME NEW a \in Int, NEW b \in Int PROVE Min({a, b}) = IF a <= b THEN a ELSE b
<1>1. \E x \in {a, b} : \A y \in {a, b} : x <= y
  OBVIOUS
<1> QED BY <1>1 DEF Min

LEMMA GreaterOf == ASSUME NEW a \in Int, NEW b \in Int PROVE Max({a, b}) = IF a <= b THEN b ELSE a
<1>1. \E x \in {a, b} : \A y \in {a, b} : x >= y
  OBVIOUS
<1> QED BY <1>1 DEF Max

-----------------------------------------------------------------------------
\* The inductive invariant: how the rows were shared out, what the masks were
\* and what was added up under them, and how far the permutation at hand is.
Client == 1..clients
SlicedAs(parts, n, length, frauds) ==
    parts = [i \in 1..n |-> [fraud  |-> Slice(i, n, length) \cap frauds,
                             normal |-> Slice(i, n, length) \ frauds]]
EvenIs   == \E frauds \in SUBSET (1..Length) : SlicedAs(even, clients, Length, frauds)
UnevenIs == uneven # <<>> => tenths \in Proportions /\ uneven = PartitionNonIid(tenths)
Masked(m) ==
    SumFunction([i \in Client |-> RowsWith(i) * (Predicted[i] + SumFunction([j \in Client |-> m[<<i, j>>]]))])
MasksAre == masks # <<>> => Masks(masks, Client) /\ aggregated = Masked(masks)
OrderIs ==
    perm # <<>> => /\ perm \in Orders /\ entered \in 0..clients - 1 /\ permuted < MaxPermuted
                   /\ prevScore = IF entered = 0 THEN 50 ELSE score[{perm[j] : j \in 1..entered}]
Unstarted ==
    /\ clients = 0 /\ even = <<>> /\ uneven = <<>> /\ masks = <<>> /\ perm = <<>> /\ permuted = 0
    /\ rows = [fraud |-> 0, normal |-> 0] /\ entered = 0
Started == clients \in Federations /\ rows \in RowsOf /\ EvenIs

FedInv ==
    /\ learns \in {"iid", "niid", "secagg", "cci", "sweep", "saved", "failed"}
    /\ DOMAIN uneven \in {1..clients, {}}
    /\ entered \in 0..clients /\ permuted \in 0..MaxPermuted /\ swept \in 0..Alphas
    /\ score \in ScoresOf /\ prevScore \in Int /\ shapley \in [Client -> Int]
    /\ (learns = "iid" => Unstarted) /\ (learns # "iid" => Started)
    /\ UnevenIs /\ MasksAre /\ OrderIs /\ SharesAddUp

LEMMA SomeClients ==
    ASSUME clients \in Federations, score \in ScoresOf
    PROVE  /\ clients \in Nat \ {0} /\ IsFiniteSet(Client) /\ Cardinality(Client) = clients
           /\ score[1..clients] \in Int /\ \A i \in Client : Predicted[i] \in Int
           /\ \A c \in SUBSET Client : c # {} => score[c] \in Int
<1>1. clients \in Nat \ {0}
  BY FedConstants
<1>2. IsFiniteSet(Client) /\ Cardinality(Client) = clients
  BY <1>1, FS_Interval DEF Client
<1>3. \A c \in (SUBSET (1..clients)) \ {{}} : score[c] \in Int
  BY FedConstants
<1>4. 1..clients \in (SUBSET (1..clients)) \ {{}}
  <2> DEFINE S == 1..clients
  <2>1. 1 \in S
    BY <1>1
  <2> HIDE DEF S
  <2>2. S # {}
    BY <2>1
  <2> QED BY <2>2 DEF S
<1>5. \A i \in 1..clients : Predicted[i] \in Int
  BY FedConstants
<1> QED BY <1>1, <1>2, <1>3, <1>4, <1>5 DEF Client

LEMMA RowsAre ==
    ASSUME rows \in RowsOf
    PROVE  rows.fraud \in Nat /\ rows.normal \in Nat /\ Length \in Nat
BY FedConstants DEF Length

\* The sums of no functions and of functions of nothing.
LEMMA NoSum == ASSUME NEW n \in Nat PROVE SumFunction([i \in 1..n |-> 0]) = 0
<1> DEFINE U == 1..n
           f == [i \in U |-> 0]
<1>1. IsFiniteSet(U) /\ Cardinality(U) \in Nat
  BY FS_Interval
<1>2. U \in SUBSET U /\ 0 \in Int /\ DOMAIN f = U
  OBVIOUS
<1>3. SumFunction(f) = SumOf(f, U)
  BY <1>2, SumsOfFunctions
<1> HIDE DEF U
<1>4. SumOf([i \in U |-> 0], U) = 0 * Cardinality(U)
  BY <1>1, <1>2, SumConstant
<1>5. SumFunction(f) = 0
  BY <1>1, <1>3, <1>4
<1> QED BY <1>5 DEF U

LEMMA FedStart == FedInit => FedInv
<1> SUFFICES ASSUME FedInit PROVE FedInv
  OBVIOUS
<1> USE DEF FedInit
<1>1. shapley = [i \in 1..0 |-> 0] /\ shapley \in [1..0 -> Int]
  OBVIOUS
<1>2. SumFunction(shapley) = 0
  BY <1>1, NoSum
<1>3. SharesAddUp
  BY <1>2 DEF SharesAddUp
<1>4. UnevenIs /\ MasksAre /\ OrderIs
  BY DEF UnevenIs, MasksAre, OrderIs
<1>5. DOMAIN uneven = {}
  OBVIOUS
<1>6. 0 \in 0..MaxPermuted /\ 0 \in 0..Alphas
  BY FedConstants
<1> QED BY <1>1, <1>3, <1>4, <1>5, <1>6 DEF FedInv, Unstarted, Client

-----------------------------------------------------------------------------
\* What the invariant comes to: first for the even partition.
LEMMA EvenFollows ==
    ASSUME NEW n \in Nat \ {0}, NEW length \in Nat, NEW parts, NEW frauds \in SUBSET (1..length),
           SlicedAs(parts, n, length, frauds)
    PROVE  /\ Once(parts, "fraud") /\ Once(parts, "normal")
           /\ Held(parts, "fraud") \cup Held(parts, "normal") = 1..length
<1>1. /\ DOMAIN parts = 1..n
      /\ \A i \in 1..n : /\ parts[i]["fraud"] = Slice(i, n, length) \cap frauds
                         /\ parts[i]["normal"] = Slice(i, n, length) \ frauds
  BY DEF SlicedAs
<1>2. \A i, j \in 1..n : i # j => Slice(i, n, length) \cap Slice(j, n, length) = {}
  <2> SUFFICES ASSUME NEW i \in 1..n, NEW j \in 1..n, i # j
               PROVE  Slice(i, n, length) \cap Slice(j, n, length) = {}
    OBVIOUS
  <2>1. i < j \/ j < i
    OBVIOUS
  <2>2. CASE i < j
    BY <2>2, SlicesApart
  <2>3. CASE j < i
    <3>1. Slice(j, n, length) \cap Slice(i, n, length) = {}
      BY <2>3, SlicesApart
    <3> QED BY <3>1
  <2> QED BY <2>1, <2>2, <2>3
<1>3. Once(parts, "fraud")
  <2> SUFFICES ASSUME NEW i \in 1..n, NEW j \in 1..n, i # j PROVE parts[i]["fraud"] \cap parts[j]["fraud"] = {}
    BY <1>1 DEF Once
  <2>1. Slice(i, n, length) \cap Slice(j, n, length) = {}
    BY <1>2
  <2> QED BY <1>1, <2>1
<1>4. Once(parts, "normal")
  <2> SUFFICES ASSUME NEW i \in 1..n, NEW j \in 1..n, i # j PROVE parts[i]["normal"] \cap parts[j]["normal"] = {}
    BY <1>1 DEF Once
  <2>1. Slice(i, n, length) \cap Slice(j, n, length) = {}
    BY <1>2
  <2> QED BY <1>1, <2>1
<1>5. ASSUME NEW x \in Held(parts, "fraud") \cup Held(parts, "normal") PROVE x \in 1..length
  <2>1. PICK i \in 1..n : x \in parts[i]["fraud"] \/ x \in parts[i]["normal"]
    BY <1>1 DEF Held
  <2>2. x \in Slice(i, n, length)
    BY <1>1, <2>1
  <2> QED BY <2>2, SlicesWithin
<1>6. ASSUME NEW x \in 1..length PROVE x \in Held(parts, "fraud") \cup Held(parts, "normal")
  <2>1. PICK i \in 1..n : x \in Slice(i, n, length)
    BY SlicesCover
  <2>2. x \in parts[i]["fraud"] \/ x \in parts[i]["normal"]
    BY <1>1, <2>1
  <2> QED BY <1>1, <2>2 DEF Held
<1> QED BY <1>3, <1>4, <1>5, <1>6

\* The sizes that an uneven partition gives.
SharesOf == [i \in 1..clients |-> ShareOf(tenths, i)]

LEMMA SharesAre ==
    ASSUME clients \in Nat \ {0}, rows.fraud \in Nat, tenths \in Proportions
    PROVE  /\ Sizes(SharesOf, clients) /\ TenthsOf(SharesOf, tenths, clients, rows.fraud)
           /\ \A i \in 1..clients : /\ PartitionNonIid(tenths)[i]["fraud"] = Uneven(SharesOf, i, rows.fraud)
                                    /\ PartitionNonIid(tenths)[i]["normal"] = Slice(i, clients, rows.normal)
           /\ DOMAIN PartitionNonIid(tenths) = 1..clients
<1> DEFINE n == clients
           f == SharesOf
           total == rows.fraud
<1>1. tenths \in [1..n -> 0..10] /\ SumFunction(tenths) = 10
  BY DEF Proportions
<1>2. SumOf(tenths, 1..n) = 10
  BY <1>1, SumsOfFunctions
<1>3. ASSUME NEW i \in 1..n
      PROVE  /\ f[i] = (IF (total * tenths[i]) \div 10 >= 1 THEN (total * tenths[i]) \div 10 ELSE 1)
             /\ f[i] \in Int /\ f[i] >= 1
  <2> DEFINE c == tenths[i]
             q == (total * c) \div 10
  <2>1. c \in Nat
    BY <1>1
  <2>2. q \in Int
    <3> HIDE DEF c
    <3> QED BY <2>1
  <2>3. f[i] = Max({1, q})
    BY DEF SharesOf, ShareOf
  <2> HIDE DEF c, q, f
  <2>4. f[i] = IF 1 <= q THEN q ELSE 1
    BY <2>2, <2>3, GreaterOf
  <2>5. f[i] = (IF q >= 1 THEN q ELSE 1) /\ f[i] \in Int /\ f[i] >= 1
    BY <2>2, <2>4
  <2> QED BY <2>5 DEF q, c
<1>4. Sizes(f, n)
  <2>1. f = [i \in 1..n |-> f[i]]
    BY DEF SharesOf
  <2> HIDE DEF f
  <2> QED BY <1>3, <2>1 DEF Sizes
<1>5. TenthsOf(f, tenths, n, total)
  BY <1>1, <1>2, <1>3 DEF TenthsOf
<1>6. ASSUME NEW i \in 1..n
      PROVE  SumFunction([j \in 1..i - 1 |-> ShareOf(tenths, j)]) = Begins(f, i)
  <2> DEFINE S == 1..i - 1
             g == [j \in S |-> ShareOf(tenths, j)]
             U == 1..n
  <2>1. S \in SUBSET U /\ S \in SUBSET (S \cap U)
    OBVIOUS
  <2>2. IsFiniteSet(S)
    BY FS_Interval
  <2>3. \A j \in S : g[j] = f[j]
    BY <2>1 DEF SharesOf
  <2>4. f \in [U -> Int]
    BY <1>4 DEF Sizes
  <2>5. g = [j \in S |-> g[j]] /\ DOMAIN g = S
    OBVIOUS
  <2>6. SumFunction(g) = SumOf(g, S)
    BY <2>5, SumsOfFunctions
  <2> HIDE DEF g, S, U, f
  <2>7. g \in [S -> Int]
    BY <2>1, <2>3, <2>4, <2>5
  <2>8. SumOf(g, S) = SumOf(f, S)
    BY <2>1, <2>2, <2>3, <2>4, <2>7, SumSame
  <2> QED BY <2>6, <2>8 DEF Begins, S, g
<1>7. ASSUME NEW i \in 1..n PROVE PartitionNonIid(tenths)[i]["fraud"] = Uneven(f, i, total)
  <2> DEFINE a == Begins(f, i)
             d == f[i]
  <2>1. PartitionNonIid(tenths)[i]["fraud"] = a + 1 .. Min({a + d, total})
    <3>1. PartitionNonIid(tenths)[i]["fraud"]
             = SumFunction([j \in 1..i - 1 |-> ShareOf(tenths, j)]) + 1
               .. Min({SumFunction([j \in 1..i - 1 |-> ShareOf(tenths, j)]) + ShareOf(tenths, i), total})
      BY DEF PartitionNonIid
    <3>2. d = ShareOf(tenths, i)
      BY DEF SharesOf
    <3> QED BY <1>6, <3>1, <3>2
  <2>2. a \in Nat /\ d \in Int
    <3>1. i \in 1..n + 1
      OBVIOUS
    <3> HIDE DEF f
    <3> QED BY <1>3, <1>4, <3>1, BeginsAre
  <2>3. Uneven(f, i, total) = a + 1 .. IF a + d <= total THEN a + d ELSE total
    BY DEF Uneven
  <2> HIDE DEF a, d, total
  <2>4. total \in Int
    BY DEF total
  <2>5. Min({a + d, total}) = IF a + d <= total THEN a + d ELSE total
    BY <2>2, <2>4, LesserOf
  <2> QED BY <2>1, <2>3, <2>5
<1>8. \A i \in 1..n : PartitionNonIid(tenths)[i]["normal"] = Slice(i, clients, rows.normal)
  BY DEF PartitionNonIid
<1>9. DOMAIN PartitionNonIid(tenths) = 1..n
  BY DEF PartitionNonIid
<1> QED BY <1>4, <1>5, <1>7, <1>8, <1>9

\* ... and what is so of any partition of these sizes.
UnevenAs(parts, f, n, total, normal) ==
    /\ DOMAIN parts = 1..n
    /\ \A i \in 1..n : /\ parts[i]["fraud"] = Uneven(f, i, total)
                       /\ parts[i]["normal"] = Slice(i, n, normal)

SharedAs(parts, n, t, total, normal) ==
    /\ Once(parts, "fraud") /\ Once(parts, "normal")
    /\ Cardinality(Held(parts, "normal")) = normal
    /\ Held(parts, "fraud") \subseteq 1..total
    /\ Cardinality(1..total \ Held(parts, "fraud")) < n
    /\ (\A i \in 1..n : total * t[i] >= 10) => \A i \in 1..n : parts[i]["fraud"] # {}

LEMMA UnevenFollows ==
    ASSUME NEW n \in Nat \ {0}, NEW f, Sizes(f, n), NEW t, NEW total \in Nat, NEW normal \in Nat,
           TenthsOf(f, t, n, total), NEW parts, UnevenAs(parts, f, n, total, normal)
    PROVE  SharedAs(parts, n, t, total, normal)
<1> USE DEF UnevenAs
<1>1. Once(parts, "fraud")
  <2> SUFFICES ASSUME NEW i \in 1..n, NEW j \in 1..n, i # j PROVE parts[i]["fraud"] \cap parts[j]["fraud"] = {}
    BY DEF Once
  <2>1. i < j \/ j < i
    OBVIOUS
  <2>2. i < j => Uneven(f, i, total) \cap Uneven(f, j, total) = {}
    BY UnevenApart
  <2>3. j < i => Uneven(f, j, total) \cap Uneven(f, i, total) = {}
    BY UnevenApart
  <2>4. parts[i]["fraud"] = Uneven(f, i, total) /\ parts[j]["fraud"] = Uneven(f, j, total)
    OBVIOUS
  <2> QED BY <2>1, <2>2, <2>3, <2>4
<1>2. Once(parts, "normal")
  <2> SUFFICES ASSUME NEW i \in 1..n, NEW j \in 1..n, i # j PROVE parts[i]["normal"] \cap parts[j]["normal"] = {}
    BY DEF Once
  <2>1. i < j \/ j < i
    OBVIOUS
  <2>2. i < j => Slice(i, n, normal) \cap Slice(j, n, normal) = {}
    BY SlicesApart
  <2>3. j < i => Slice(j, n, normal) \cap Slice(i, n, normal) = {}
    BY SlicesApart
  <2>4. parts[i]["normal"] = Slice(i, n, normal) /\ parts[j]["normal"] = Slice(j, n, normal)
    OBVIOUS
  <2> QED BY <2>1, <2>2, <2>3, <2>4
<1>3. Held(parts, "normal") = 1..normal
  <2>1. ASSUME NEW x \in Held(parts, "normal") PROVE x \in 1..normal
    <3>1. PICK i \in 1..n : x \in Slice(i, n, normal)
      BY DEF Held
    <3> QED BY <3>1, SlicesWithin
  <2>2. ASSUME NEW x \in 1..normal PROVE x \in Held(parts, "normal")
    <3>1. PICK i \in 1..n : x \in Slice(i, n, normal)
      BY SlicesCover
    <3> QED BY <3>1 DEF Held
  <2> QED BY <2>1, <2>2
<1>4. Cardinality(1..normal) = normal
  BY FS_Interval
<1>5. Held(parts, "fraud") \subseteq 1..total
  <2> SUFFICES ASSUME NEW x \in Held(parts, "fraud") PROVE x \in 1..total
    OBVIOUS
  <2>1. PICK i \in 1..n : x \in Uneven(f, i, total)
    BY DEF Held
  <2> QED BY <2>1, UnevenWithin
<1> DEFINE P == Begins(f, n + 1)
<1>6. P \in Nat /\ total - P < n /\ ((\A i \in 1..n : total * t[i] >= 10) => P <= total)
  <2>1. n + 1 \in 1..n + 1
    OBVIOUS
  <2>2. P \in Nat
    BY <2>1, BeginsAre
  <2> QED BY <2>2, FewAreLeft
<1>7. Cardinality(1..total \ Held(parts, "fraud")) < n
  <2> DEFINE L == 1..total \ Held(parts, "fraud")
             B == P + 1 .. total
  <2>1. ASSUME NEW x \in L PROVE x \in B
    <3>1. x \in 1..total
      OBVIOUS
    <3>2. ~(x <= P)
      <4> SUFFICES ASSUME x <= P PROVE FALSE
        OBVIOUS
      <4>1. PICK i \in 1..n : x \in Uneven(f, i, total)
        BY <3>1, UnevenCovers
      <4>2. x \in Held(parts, "fraud")
        BY <4>1 DEF Held
      <4> QED BY <4>2
    <3> HIDE DEF P
    <3> QED BY <1>6, <3>1, <3>2
  <2>2. L \in SUBSET B
    BY <2>1
  <2> HIDE DEF P, L
  <2>3. IsFiniteSet(B) /\ Cardinality(B) = IF P + 1 > total THEN 0 ELSE total - (P + 1) + 1
    BY <1>6, FS_Interval
  <2> HIDE DEF B
  <2>4. Cardinality(L) <= Cardinality(B) /\ IsFiniteSet(L)
    BY <2>2, <2>3, FS_Subset
  <2>5. Cardinality(L) \in Nat
    BY <2>4, FS_CardinalityType
  <2>6. Cardinality(L) < n
    BY <1>6, <2>3, <2>4, <2>5
  <2> QED BY <2>6 DEF L
<1>8. ASSUME \A i \in 1..n : total * t[i] >= 10, NEW i \in 1..n PROVE parts[i]["fraud"] # {}
  <2> DEFINE a == Begins(f, i)
             b == Begins(f, i + 1)
             d == f[i]
  <2>1. i \in 1..n + 1 /\ i + 1 \in 1..n + 1 /\ n + 1 \in 1..n + 1 /\ i + 1 <= n + 1
    OBVIOUS
  <2>2. a \in Nat /\ b = a + d /\ b <= P
    BY <2>1, BeginsAre
  <2>3. d \in Int /\ d >= 1
    BY DEF Sizes
  <2>4. Uneven(f, i, total) = a + 1 .. IF a + d <= total THEN a + d ELSE total
    BY DEF Uneven
  <2>5. P <= total
    BY <1>6, <1>8
  <2> HIDE DEF a, b, d, P
  <2>6. a + 1 \in Uneven(f, i, total)
    BY <1>6, <2>2, <2>3, <2>4, <2>5
  <2> QED BY <2>6 DEF a
<1> QED BY <1>1, <1>2, <1>3, <1>4, <1>5, <1>7, <1>8 DEF SharedAs

LEMMA RowsFollow == FedInv => RowsAreShared
<1> SUFFICES ASSUME FedInv PROVE RowsAreShared
  OBVIOUS
<1>1. ASSUME even # <<>>
      PROVE  /\ Once(even, "fraud") /\ Once(even, "normal")
             /\ Cardinality(Held(even, "fraud") \cup Held(even, "normal")) = Length
  <2>1. Started /\ score \in ScoresOf
    BY <1>1 DEF FedInv, Unstarted
  <2>2. clients \in Nat \ {0} /\ Length \in Nat
    BY <2>1, SomeClients, RowsAre DEF Started
  <2>3. PICK frauds \in SUBSET (1..Length) : SlicedAs(even, clients, Length, frauds)
    BY <2>1 DEF Started, EvenIs
  <2> DEFINE n == clients
             length == Length
             parts == even
  <2>4. n \in Nat \ {0} /\ length \in Nat /\ frauds \in SUBSET (1..length) /\ SlicedAs(parts, n, length, frauds)
    BY <2>2, <2>3
  <2> HIDE DEF n, length, parts
  <2>5. /\ Once(parts, "fraud") /\ Once(parts, "normal")
        /\ Held(parts, "fraud") \cup Held(parts, "normal") = 1..length
    BY <2>4, EvenFollows
  <2>6. Cardinality(1..length) = length
    BY <2>4, FS_Interval
  <2> QED BY <2>5, <2>6 DEF parts, length
<1>2. ASSUME uneven # <<>>
      PROVE  /\ Once(uneven, "fraud") /\ Once(uneven, "normal")
             /\ Cardinality(Held(uneven, "normal")) = rows.normal
             /\ Held(uneven, "fraud") \subseteq Fraud
             /\ Cardinality(Fraud \ Held(uneven, "fraud")) < clients
             /\ (\A i \in 1..clients : rows.fraud * tenths[i] >= 10) =>
                    \A i \in 1..clients : uneven[i]["fraud"] # {}
  <2>1. Started /\ score \in ScoresOf /\ tenths \in Proportions /\ uneven = PartitionNonIid(tenths)
    BY <1>2 DEF FedInv, Unstarted, UnevenIs
  <2>2. clients \in Nat \ {0} /\ rows.fraud \in Nat /\ rows.normal \in Nat
    BY <2>1, SomeClients, RowsAre DEF Started
  <2> DEFINE n == clients
             f == SharesOf
             t == tenths
             total == rows.fraud
             normal == rows.normal
             parts == uneven
  <2>3. /\ Sizes(f, n) /\ TenthsOf(f, t, n, total) /\ UnevenAs(parts, f, n, total, normal)
    BY <2>1, <2>2, SharesAre DEF UnevenAs
  <2>4. n \in Nat \ {0} /\ total \in Nat /\ normal \in Nat
    BY <2>2
  <2> HIDE DEF n, f, t, total, normal, parts
  <2>5. SharedAs(parts, n, t, total, normal)
    BY <2>3, <2>4, UnevenFollows
  <2> QED BY <2>5 DEF SharedAs, Fraud, n, t, total, normal, parts
<1> QED BY <1>1, <1>2 DEF RowsAreShared

LEMMA MasksFollow == FedInv => OnlyOwnMasksStay
<1> SUFFICES ASSUME FedInv, masks # <<>>, \A i, j \in 1..clients : RowsWith(i) = RowsWith(j)
             PROVE  aggregated - Average = RowsWith(1) * SumFunction([i \in 1..clients |-> masks[<<i, i>>]])
  BY DEF OnlyOwnMasksStay
<1>1. Started /\ score \in ScoresOf /\ Masks(masks, Client) /\ aggregated = Masked(masks)
  BY DEF FedInv, Unstarted, MasksAre
<1>2. /\ clients \in Nat \ {0} /\ Length \in Nat /\ IsFiniteSet(Client)
      /\ \A i \in Client : Predicted[i] \in Int
  BY <1>1, SomeClients, RowsAre DEF Started
<1>3. ASSUME NEW i \in Client PROVE RowsWith(i) \in Int
  <2>1. PICK frauds \in SUBSET (1..Length) : SlicedAs(even, clients, Length, frauds)
    BY <1>1 DEF Started, EvenIs
  <2>2. even[i].fraud = Slice(i, clients, Length) \cap frauds /\ even[i].normal = Slice(i, clients, Length) \ frauds
    BY <2>1 DEF SlicedAs, Client
  <2>3. Slice(i, clients, Length) \in SUBSET (1..Length)
    BY <1>2, SlicesWithin DEF Client
  <2>4. even[i].fraud \in SUBSET (1..Length) /\ even[i].normal \in SUBSET (1..Length)
    BY <2>2, <2>3
  <2>5. IsFiniteSet(1..Length)
    BY <1>2, FS_Interval
  <2>6. IsFiniteSet(even[i].fraud) /\ IsFiniteSet(even[i].normal)
    BY <2>4, <2>5, FS_Subset
  <2>7. Cardinality(even[i].fraud) \in Nat /\ Cardinality(even[i].normal) \in Nat
    BY <2>6, FS_CardinalityType
  <2> QED BY <2>7 DEF RowsWith
<1> DEFINE U == Client
           R == RowsWith(1)
           m == masks
           a == [i \in U |-> RowsWith(i) * (Predicted[i] + SumFunction([j \in U |-> m[<<i, j>>]]))]
           b == [i \in U |-> RowsWith(i) * Predicted[i]]
           w == WithinSet(m, U, U)
           c == [i \in U |-> R * w[i]]
           mine == Own(m, U)
<1>4. 1 \in U /\ R \in Int /\ \A i \in U : RowsWith(i) = R
  <2>1. 1 \in Client
    BY <1>2 DEF Client
  <2> QED BY <1>3, <2>1 DEF Client
<1>5. w \in [U -> Int] /\ mine \in [U -> Int]
  <2>1. U \in SUBSET U
    OBVIOUS
  <2> HIDE DEF U, m
  <2>2. IsFiniteSet(U) /\ Masks(m, U)
    BY <1>1, <1>2 DEF U, m
  <2> QED BY <2>1, <2>2, LinesAre
<1>6. ASSUME NEW i \in U
      PROVE  a[i] = c[i] + b[i] /\ a[i] \in Int /\ b[i] \in Int /\ c[i] \in Int /\ c[i] = R * w[i]
  <2> DEFINE q == Predicted[i]
             v == w[i]
             f == Line(m, i, U)
  <2>1. w[i] = SumOf(f, U)
    BY DEF WithinSet
  <2>2. DOMAIN f = U /\ f = [j \in U |-> m[<<i, j>>]]
    BY DEF Line
  <2>3. SumFunction(f) = v
    <3> HIDE DEF f, U, w
    <3>1. SumFunction(f) = SumOf(f, DOMAIN f)
      BY SumsOfFunctions
    <3> QED BY <2>1, <2>2, <3>1
  <2>4. q \in Int /\ v \in Int
    BY <1>2, <1>5
  <2>5. a[i] = R * (q + v)
    <3>1. a[i] = RowsWith(i) * (Predicted[i] + SumFunction([j \in U |-> m[<<i, j>>]]))
      OBVIOUS
    <3> HIDE DEF f, a, v, R, w
    <3> QED BY <1>4, <2>2, <2>3, <3>1
  <2>6. b[i] = R * q /\ c[i] = R * v
    BY <1>4
  <2> HIDE DEF q, v, f, a, b, c, w, R
  <2>7. R * (q + v) = R * v + R * q /\ R * (q + v) \in Int /\ R * q \in Int /\ R * v \in Int
    BY <1>4, <2>4
  <2> QED BY <2>5, <2>6, <2>7 DEF v
<1>7. a = [i \in U |-> a[i]] /\ b = [i \in U |-> b[i]] /\ c = [i \in U |-> c[i]] /\ DOMAIN a = U /\ DOMAIN b = U
      /\ DOMAIN mine = U
  BY DEF Own
<1>8. aggregated = SumFunction(a) /\ Average = SumFunction(b)
      /\ SumFunction([i \in 1..clients |-> masks[<<i, i>>]]) = SumFunction(mine)
  BY <1>1 DEF Masked, Average, Client, Own
<1>9. IsFiniteSet(U) /\ Masks(m, U) /\ U \in SUBSET U
  BY <1>1, <1>2
<1> HIDE DEF U, m, a, b, c, w, mine, R
<1>10. SumFunction(a) = SumOf(a, U) /\ SumFunction(b) = SumOf(b, U) /\ SumFunction(mine) = SumOf(mine, U)
  BY <1>7, SumsOfFunctions
<1>11. a \in [U -> Int] /\ b \in [U -> Int] /\ c \in [U -> Int]
  BY <1>6, <1>7
<1>12. DiffersBy(c, a, b, U)
  <2>1. \A i \in U : c[i] = a[i] - b[i]
    BY <1>6
  <2> QED BY <1>11, <2>1 DEF DiffersBy
<1>13. SumOf(c, U) = SumOf(a, U) - SumOf(b, U)
  BY <1>9, <1>12, SumLess
<1>14. Scaled(c, R, w, U)
  BY <1>6 DEF Scaled
<1>15. SumOf(c, U) = R * SumOf(w, U)
  <2>1. R \in Int
    BY <1>4
  <2>2. w \in [U -> Int] /\ c \in [U -> Int]
    BY <1>5, <1>11
  <2>3. IsFiniteSet(U) /\ U \in SUBSET U
    BY <1>9
  <2> QED BY <1>14, <2>1, <2>2, <2>3, SumScale
<1>16. SumOf(w, U) = SumOf(mine, U)
  BY <1>9, MasksCancel DEF w, mine
<1>17. aggregated - Average = R * SumFunction(mine)
  BY <1>8, <1>10, <1>13, <1>15, <1>16
<1> QED BY <1>8, <1>17 DEF R

-----------------------------------------------------------------------------
\* What each step leaves as it is.
LEMMA EvenStays == EvenIs /\ UNCHANGED <<rows, clients, even>> => EvenIs'
BY DEF EvenIs, Length

LEMMA UnevenStays == UnevenIs /\ UNCHANGED <<rows, clients, uneven, tenths>> => UnevenIs'
BY DEF UnevenIs, PartitionNonIid, ShareOf, Proportions

LEMMA MasksStay == MasksAre /\ UNCHANGED <<clients, even, masks, aggregated>> => MasksAre'
BY DEF MasksAre, Masked, Client, RowsWith

LEMMA OrderStays == OrderIs /\ UNCHANGED <<clients, perm, entered, permuted, prevScore, score>> => OrderIs'
BY DEF OrderIs, Orders

LEMMA SharesStay == SharesAddUp /\ UNCHANGED <<clients, shapley, permuted, perm, prevScore, score>> => SharesAddUp'
BY DEF SharesAddUp

\* The uneven partition is made or made again.
LEMMA UnevenStep ==
    ASSUME FedInv, learns # "iid", NEW t \in Proportions, tenths' = t, uneven' = PartitionNonIid(t),
           PartsKept, MasksKept, CciKept, learns' \in {"secagg", "saved", "sweep", "failed"}, swept' \in 0..Alphas
    PROVE  FedInv'
<1>1. Started'
  BY EvenStays DEF FedInv, Started, PartsKept
<1>2. UnevenIs'
  BY DEF UnevenIs, PartitionNonIid, ShareOf, Proportions, PartsKept
<1>3. MasksAre' /\ OrderIs' /\ SharesAddUp'
  BY MasksStay, OrderStays, SharesStay DEF FedInv, PartsKept, MasksKept, CciKept
<1>4. DOMAIN uneven' = 1..clients'
  BY DEF PartitionNonIid, PartsKept
<1>5. /\ entered' \in 0..clients' /\ permuted' \in 0..MaxPermuted
      /\ score' \in ScoresOf /\ prevScore' \in Int /\ shapley' \in [Client' -> Int]
  BY DEF FedInv, PartsKept, CciKept, Client
<1> QED BY <1>1, <1>2, <1>3, <1>4, <1>5 DEF FedInv

LEMMA PartitionStep == FedInv /\ PartitionIid => FedInv'
<1> SUFFICES ASSUME FedInv, PartitionIid PROVE FedInv'
  OBVIOUS
<1>0. PICK r \in RowsOf, n \in Federations :
         \E frauds \in SUBSET (1..r.fraud + r.normal) :
            /\ learns = "iid" /\ rows' = r /\ clients' = n
            /\ SlicedAs(even', n, r.fraud + r.normal, frauds)
            /\ After(even', "niid")
            /\ shapley' = [i \in 1..n |-> 0]
            /\ UnevenKept /\ MasksKept /\ UNCHANGED <<score, perm, entered, prevScore, permuted>>
  BY DEF PartitionIid, kSubset, SlicedAs
<1>1. PICK frauds \in SUBSET (1..r.fraud + r.normal) :
         /\ learns = "iid" /\ rows' = r /\ clients' = n
         /\ SlicedAs(even', n, r.fraud + r.normal, frauds)
         /\ After(even', "niid")
         /\ shapley' = [i \in 1..n |-> 0]
         /\ UnevenKept /\ MasksKept /\ UNCHANGED <<score, perm, entered, prevScore, permuted>>
  BY <1>0
<1>2. Unstarted
  BY <1>1 DEF FedInv
<1>3. learns' \in {"niid", "failed"}
  BY <1>1 DEF After
<1>4. Started'
  <2>1. Length' = r.fraud + r.normal
    BY <1>1 DEF Length
  <2>2. SlicedAs(even', clients', Length', frauds) /\ frauds \in SUBSET (1..Length')
    BY <1>1, <2>1
  <2>3. EvenIs'
    BY <2>2 DEF EvenIs
  <2> QED BY <1>1, <2>3 DEF Started
<1>5. uneven' = <<>> /\ masks' = <<>> /\ perm' = <<>> /\ permuted' = 0 /\ entered' = 0 /\ swept' = swept
  BY <1>1, <1>2 DEF Unstarted, UnevenKept, MasksKept
<1>6. UnevenIs' /\ MasksAre' /\ OrderIs'
  BY <1>5 DEF UnevenIs, MasksAre, OrderIs
<1>7. n \in Nat \ {0} /\ score \in ScoresOf /\ score[1..n] \in Int
  <2>1. n \in Nat \ {0} /\ score \in ScoresOf
    BY FedConstants DEF FedInv
  <2>2. \A c \in (SUBSET (1..n)) \ {{}} : score[c] \in Int
    BY <2>1, FedConstants
  <2>3. 1..n \in (SUBSET (1..n)) \ {{}}
    <3> DEFINE S == 1..n
    <3>1. 1 \in S
      BY <2>1
    <3> HIDE DEF S
    <3>2. S # {}
      BY <3>1
    <3> QED BY <3>2 DEF S
  <2> QED BY <2>1, <2>2, <2>3
<1>8. SumFunction(shapley') = 0
  BY <1>1, <1>7, NoSum
<1>9. SharesAddUp'
  <2>1. clients' # 0 /\ score'[1..clients'] \in Int
    BY <1>1, <1>7
  <2>2. permuted' * (score'[1..clients'] - 50) = 0
    <3> DEFINE z == score'[1..clients']
    <3> HIDE DEF z
    <3>1. 0 * (z - 50) = 0
      BY <2>1 DEF z
    <3> QED BY <1>5, <3>1 DEF z
  <2> QED BY <1>5, <1>8, <2>1, <2>2 DEF SharesAddUp
<1>10. DOMAIN uneven' = {}
  BY <1>5
<1>11. shapley' \in [Client' -> Int] /\ entered' \in 0..clients' /\ permuted' \in 0..MaxPermuted
       /\ score' \in ScoresOf /\ prevScore' \in Int /\ swept' \in 0..Alphas
  <2>1. shapley' \in [1..n -> Int]
    BY <1>1
  <2>2. 0 \in 0..MaxPermuted
    BY FedConstants
  <2> QED BY <1>1, <1>5, <1>7, <2>1, <2>2 DEF FedInv, Client
<1> QED BY <1>3, <1>4, <1>6, <1>9, <1>10, <1>11 DEF FedInv

LEMMA SplitStep == FedInv /\ (SplitUnevenly \/ SweepAlpha) => FedInv'
<1>1. ASSUME FedInv, SplitUnevenly PROVE FedInv'
  <2>1. PICK t \in Proportions : tenths' = t /\ uneven' = PartitionNonIid(t)
    BY <1>1 DEF SplitUnevenly
  <2>2. learns # "iid" /\ PartsKept /\ MasksKept /\ CciKept /\ swept' = swept
        /\ learns' \in {"secagg", "saved", "sweep", "failed"}
    BY <1>1 DEF SplitUnevenly, After
  <2>3. swept' \in 0..Alphas
    BY <1>1, <2>2 DEF FedInv
  <2> QED BY <1>1, <2>1, <2>2, <2>3, UnevenStep
<1>2. ASSUME FedInv, SweepAlpha PROVE FedInv'
  <2>1. PICK t \in Proportions : tenths' = t /\ uneven' = PartitionNonIid(t)
    BY <1>2 DEF SweepAlpha
  <2>2. /\ learns # "iid" /\ PartsKept /\ MasksKept /\ CciKept /\ swept < Alphas /\ swept' = swept + 1
        /\ learns' \in {"secagg", "saved", "sweep", "failed"}
    BY <1>2 DEF SweepAlpha, After
  <2>3. swept' \in 0..Alphas
    BY <1>2, <2>2, FedConstants DEF FedInv
  <2> QED BY <1>2, <2>1, <2>2, <2>3, UnevenStep
<1> QED BY <1>1, <1>2

LEMMA SecAggregateStep == FedInv /\ SecAggregate => FedInv'
<1> SUFFICES ASSUME FedInv, SecAggregate PROVE FedInv'
  OBVIOUS
<1> DEFINE pairs == {p \in (1..clients) \X (1..clients) : p[1] <= p[2]}
           mask(drawn) == [p \in (1..clients) \X (1..clients) |->
                       IF p[1] <= p[2] THEN drawn[p] ELSE Mirrored(drawn, p[1], p[2])]
<1>1. PICK drawn \in [pairs -> Draws] :
         /\ masks' = mask(drawn)
         /\ aggregated' = SumFunction([i \in 1..clients |->
               RowsWith(i) * (Predicted[i] + SumFunction([j \in 1..clients |-> mask(drawn)[<<i, j>>]]))])
         /\ learns' \in {"cci", "failed"}
  BY DEF SecAggregate
<1>2. learns = "secagg" /\ PartsKept /\ uneven' = <<>> /\ swept' = swept /\ CciKept
  BY DEF SecAggregate, UnevenGone
<1>3. Started /\ clients \in Nat \ {0}
  BY <1>2, SomeClients DEF FedInv, Started
<1>4. Started'
  BY <1>2, <1>3, EvenStays DEF Started, PartsKept
<1>5. Masks(mask(drawn), Client)
  <2> DEFINE U == 1..clients
             m == mask(drawn)
  <2>1. \A i, j \in U : <<i, j>> \in U \X U /\ <<i, j>>[1] = i /\ <<i, j>>[2] = j /\ i \in Int /\ j \in Int
    BY <1>3
  <2>2. \A i, j \in U : m[<<i, j>>] = IF i <= j THEN drawn[<<i, j>>] ELSE -drawn[<<j, i>>]
    BY <2>1 DEF Mirrored
  <2>3. \A i, j \in U : i <= j => drawn[<<i, j>>] \in Int
    <3> SUFFICES ASSUME NEW i \in U, NEW j \in U, i <= j PROVE drawn[<<i, j>>] \in Int
      OBVIOUS
    <3>1. <<i, j>> \in pairs
      <4> DEFINE q == <<i, j>>
      <4>1. q \in (1..clients) \X (1..clients) /\ q[1] <= q[2]
        <5>1. i \in 1..clients /\ j \in 1..clients
          OBVIOUS
        <5> HIDE DEF pairs, m
        <5> QED BY <5>1
      <4> HIDE DEF q
      <4>2. q \in pairs
        BY <4>1
      <4> QED BY <4>2 DEF q
    <3>2. drawn[<<i, j>>] \in Draws
      BY <3>1
    <3> QED BY <3>2, FedConstants
  <2>5. \A i \in U : i \in Int
    OBVIOUS
  <2> HIDE DEF U, m
  <2>4. ASSUME NEW i \in U, NEW j \in U PROVE m[<<i, j>>] \in Int /\ (i # j => m[<<i, j>>] = -m[<<j, i>>])
    <3>1. i <= j \/ j <= i
      BY <2>5
    <3>2. i <= j => drawn[<<i, j>>] \in Int
      BY <2>3
    <3>3. j <= i => drawn[<<j, i>>] \in Int
      BY <2>3
    <3>4. m[<<i, j>>] = (IF i <= j THEN drawn[<<i, j>>] ELSE -drawn[<<j, i>>])
      BY <2>2
    <3>5. m[<<j, i>>] = (IF j <= i THEN drawn[<<j, i>>] ELSE -drawn[<<i, j>>])
      BY <2>2
    <3>6. i \in Int /\ j \in Int
      BY <2>1
    <3> DEFINE a == drawn[<<i, j>>]
               b == drawn[<<j, i>>]
               c == m[<<i, j>>]
               d == m[<<j, i>>]
    <3>7. (i <= j => a \in Int) /\ (j <= i => b \in Int)
          /\ c = (IF i <= j THEN a ELSE -b) /\ d = (IF j <= i THEN b ELSE -a)
      BY <3>2, <3>3, <3>4, <3>5
    <3> HIDE DEF a, b, c, d
    <3>8. c \in Int /\ (i # j => c = -d)
      BY <3>1, <3>6, <3>7
    <3> QED BY <3>8 DEF c, d
  <2>6. Masks(m, U)
    BY <2>4 DEF Masks
  <2> QED BY <2>6 DEF U, m, Client
<1> HIDE DEF mask
<1>6. MasksAre'
  <2>1. Client' = Client /\ masks' = mask(drawn)
    BY <1>1, <1>2 DEF Client, PartsKept
  <2>2. Masked(masks)' = aggregated'
    BY <1>1, <1>2 DEF Masked, Client, RowsWith, PartsKept
  <2> QED BY <1>5, <2>1, <2>2 DEF MasksAre
<1>7. UnevenIs' /\ OrderIs' /\ SharesAddUp'
  BY <1>2, OrderStays, SharesStay DEF UnevenIs, FedInv, PartsKept, CciKept
<1>8. DOMAIN uneven' = {}
  BY <1>2
<1>9. /\ entered' \in 0..clients' /\ permuted' \in 0..MaxPermuted /\ swept' \in 0..Alphas
      /\ score' \in ScoresOf /\ prevScore' \in Int /\ shapley' \in [Client' -> Int]
  BY <1>2 DEF FedInv, PartsKept, CciKept, Client
<1> QED BY <1>1, <1>4, <1>6, <1>7, <1>8, <1>9 DEF FedInv

LEMMA PermuteStep == FedInv /\ Permute => FedInv'
<1> SUFFICES ASSUME FedInv, Permute PROVE FedInv'
  OBVIOUS
<1>1. PICK p \in Orders : perm' = p
  BY DEF Permute
<1>2. /\ learns = "cci" /\ permuted < MaxPermuted /\ perm = <<>> /\ entered' = 0 /\ prevScore' = 50
      /\ PartsKept /\ UnevenKept /\ masks' = <<>> /\ UNCHANGED <<learns, score, shapley, permuted>>
  BY DEF Permute, Empty, MasksGone
<1>3. Started /\ clients \in Nat \ {0}
  BY <1>2, SomeClients DEF FedInv, Started
<1>4. Started'
  BY <1>2, <1>3, EvenStays DEF Started, PartsKept
<1>5. UnevenIs'
  BY <1>2, UnevenStays DEF FedInv, PartsKept, UnevenKept
<1>6. MasksAre'
  BY <1>2 DEF MasksAre
<1>7. OrderIs'
  <2>1. perm' \in Orders' /\ clients' = clients
    BY <1>1, <1>2 DEF Orders, PartsKept
  <2>2. entered' \in 0..clients' - 1
    BY <1>2, <1>3, <2>1
  <2> QED BY <1>2, <2>1, <2>2 DEF OrderIs
<1>8. SharesAddUp'
  <2> DEFINE all == IF clients = 0 THEN 50 ELSE score[1..clients]
             x == permuted * (all - 50)
  <2>1. SumFunction(shapley) = x + 0
    BY <1>2 DEF FedInv, SharesAddUp
  <2>2. SumFunction(shapley)' = SumFunction(shapley) /\ all' = all /\ permuted' = permuted
    BY <1>2 DEF PartsKept
  <2>3. (IF perm' = <<>> THEN 0 ELSE prevScore' - 50) = 0
    BY <1>2
  <2>4. SumFunction(shapley)' = x' + IF perm' = <<>> THEN 0 ELSE prevScore' - 50
    BY <2>1, <2>2, <2>3
  <2> QED BY <2>4 DEF SharesAddUp
<1>9. /\ entered' \in 0..clients' /\ permuted' \in 0..MaxPermuted /\ swept' \in 0..Alphas
      /\ score' \in ScoresOf /\ prevScore' \in Int /\ shapley' \in [Client' -> Int] /\ DOMAIN uneven' \in {1..clients', {}}
  BY <1>2, <1>3 DEF FedInv, PartsKept, UnevenKept, Client
<1> QED BY <1>2, <1>4, <1>5, <1>6, <1>7, <1>8, <1>9 DEF FedInv

LEMMA EnterStep == FedInv /\ EnterCoalition => FedInv'
<1> SUFFICES ASSUME FedInv, EnterCoalition PROVE FedInv'
  OBVIOUS
<1> DEFINE U == Client
           x == perm[entered + 1]
           coalition == {perm[j] : j \in 1..entered + 1}
           whole == entered + 1 = clients
           now == score[coalition]
           v == shapley[x] + now - prevScore
           all == score[1..clients]
           sum == SumFunction(shapley)
<1>1. /\ learns = "cci" /\ perm # <<>> /\ shapley' = [shapley EXCEPT ![x] = v] /\ prevScore' = now
      /\ entered' = entered + 1 /\ permuted' = (IF whole THEN permuted + 1 ELSE permuted)
      /\ perm' = (IF whole THEN <<>> ELSE perm) /\ learns' \in {"sweep", "cci"}
      /\ PartsKept /\ UnevenKept /\ MasksKept /\ UNCHANGED score
  BY DEF EnterCoalition
<1>2. Started /\ score \in ScoresOf /\ shapley \in [U -> Int] /\ prevScore \in Int
      /\ permuted \in 0..MaxPermuted /\ MaxPermuted \in Nat
  BY <1>1, FedConstants DEF FedInv
<1>3. /\ perm \in Orders /\ entered \in 0..clients - 1 /\ permuted < MaxPermuted
  BY <1>1 DEF FedInv, OrderIs
<1>4. /\ clients \in Nat \ {0} /\ IsFiniteSet(U) /\ all \in Int
      /\ \A c \in SUBSET U : c # {} => score[c] \in Int
  BY <1>2, SomeClients DEF Started
<1>5. entered \in Nat /\ entered + 1 \in 1..clients /\ perm \in [1..clients -> 1..clients] /\ x \in U
  <2>1. entered \in Nat /\ entered + 1 \in 1..clients
    BY <1>3, <1>4
  <2>2. perm \in [1..clients -> 1..clients]
    BY <1>3 DEF Orders
  <2> QED BY <2>1, <2>2 DEF Client
<1>6. coalition \in SUBSET U /\ coalition # {}
  <2>1. \A j \in 1..entered + 1 : j \in 1..clients
    BY <1>4, <1>5
  <2>2. \A j \in 1..entered + 1 : perm[j] \in U
    BY <1>5, <2>1 DEF Client
  <2>3. entered + 1 \in 1..entered + 1
    BY <1>5
  <2> HIDE DEF U
  <2> QED BY <2>2, <2>3
<1>7. now \in Int /\ v \in Int
  <2>1. now \in Int
    <3> HIDE DEF coalition, U
    <3> QED BY <1>4, <1>6
  <2>2. shapley[x] \in Int
    BY <1>2, <1>5
  <2> HIDE DEF now, x
  <2> QED BY <1>2, <2>1, <2>2
<1>8. sum = permuted * (all - 50) + (prevScore - 50)
  BY <1>1, <1>4 DEF FedInv, SharesAddUp
<1>9. shapley' \in [U -> Int] /\ SumFunction(shapley') = sum - prevScore + now
  <2> DEFINE f == shapley
             g == [shapley EXCEPT ![x] = v]
             old == shapley[x]
             rise == SumOf(f, U)
  <2>1. f \in [U -> Int] /\ x \in U /\ v \in Int /\ old \in Int /\ rise \in Int
    <3>1. f \in [U -> Int] /\ x \in U /\ v \in Int /\ old \in Int /\ U \in SUBSET U
      BY <1>2, <1>5, <1>7
    <3> HIDE DEF f, x, v, U
    <3>2. rise \in Int
      BY <1>4, <3>1, SumInt
    <3> QED BY <3>1, <3>2
  <2>2. Replaced(g, f, x, v) /\ old = f[x]
    BY DEF Replaced
  <2>3. v = old + now - prevScore
    OBVIOUS
  <2>9. IsFiniteSet(U)
    BY <1>4
  <2> HIDE DEF f, x, U, v, g, old
  <2>4. g \in [U -> Int] /\ SumOf(g, U) = SumOf(f, U) - f[x] + v
    <3>1. f \in [U -> Int]
      BY <2>1
    <3>2. x \in U /\ v \in Int
      BY <2>1
    <3>3. Replaced(g, f, x, v)
      BY <2>2
    <3> HIDE DEF all, sum, now, coalition, whole, rise
    <3> QED BY <2>9, <3>1, <3>2, <3>3, SumChange
  <2>5. g \in [U -> Int] /\ SumOf(g, U) = rise - old + v
    BY <2>2, <2>4
  <2>6. SumFunction(g) = SumOf(g, U) /\ SumFunction(f) = SumOf(f, U)
    <3>1. DOMAIN g = U /\ DOMAIN f = U
      BY <2>1, <2>5
    <3> QED BY <3>1, SumsOfFunctions
  <2> HIDE DEF now, rise
  <2>7. SumFunction(g) = SumFunction(f) - prevScore + now
    BY <1>2, <1>7, <2>1, <2>3, <2>5, <2>6 DEF rise
  <2>8. shapley' = g
    BY <1>1 DEF g, v, x, now
  <2> QED BY <2>5, <2>7, <2>8 DEF f
<1>10. whole => coalition = 1..clients
  <2> SUFFICES ASSUME whole PROVE coalition = 1..clients
    OBVIOUS
  <2>1. coalition = {perm[j] : j \in 1..clients}
    OBVIOUS
  <2>2. \A i, j \in 1..clients : perm[i] = perm[j] => i = j
    BY <1>3 DEF Orders
  <2> DEFINE p == perm
             n == clients
  <2>3. n \in Nat /\ p \in [1..n -> 1..n] /\ \A i, j \in 1..n : p[i] = p[j] => i = j
    BY <1>4, <1>5, <2>2
  <2> HIDE DEF p, n
  <2>4. {p[j] : j \in 1..n} = 1..n
    BY <2>3, OrdersReachAll
  <2> QED BY <2>1, <2>4 DEF p, n
<1>11. UnevenIs' /\ MasksAre'
  BY <1>1, UnevenStays, MasksStay DEF FedInv, PartsKept, UnevenKept, MasksKept
<1>12. Started'
  BY <1>1, <1>2, EvenStays DEF Started, PartsKept
<1>13. clients' = clients /\ score' = score
  BY <1>1 DEF PartsKept
<1>14. SharesAddUp'
  <2>1. (IF clients' = 0 THEN 50 ELSE score'[1..clients']) = all
    BY <1>4, <1>13
  <2>2. SumFunction(shapley') = permuted' * (all - 50) + IF perm' = <<>> THEN 0 ELSE prevScore' - 50
    <3>1. CASE whole
      <4>1. now = all /\ permuted' = permuted + 1 /\ perm' = <<>>
        BY <1>1, <1>10, <3>1
      <4> HIDE DEF now, all, sum
      <4>2. sum - prevScore + now = (permuted + 1) * (all - 50)
        BY <1>2, <1>4, <1>8, <4>1
      <4>3. (permuted + 1) * (all - 50) \in Int
        BY <1>2, <1>4
      <4>4. (permuted + 1) * (all - 50) + 0 = (permuted + 1) * (all - 50)
        BY <4>3
      <4> QED BY <1>9, <4>1, <4>2, <4>4
    <3>2. CASE ~whole
      <4>1. perm' = perm /\ permuted' = permuted /\ prevScore' = now
        BY <1>1, <3>2
      <4> HIDE DEF now, all, sum
      <4> DEFINE y == permuted * (all - 50)
      <4>2. y \in Int
        BY <1>2, <1>4
      <4> HIDE DEF y
      <4>3. sum - prevScore + now = y + (now - 50)
        BY <1>2, <1>7, <1>8, <4>2 DEF y
      <4> QED BY <1>1, <1>9, <4>1, <4>3 DEF y
    <3> QED BY <3>1, <3>2
  <2> HIDE DEF all
  <2> QED BY <2>1, <2>2 DEF SharesAddUp
<1>15. OrderIs'
  <2> SUFFICES ASSUME perm' # <<>> PROVE OrderIs'
    BY DEF OrderIs
  <2>1. ~whole /\ perm' = perm /\ permuted' = permuted
    BY <1>1
  <2>2. perm' \in Orders'
    BY <1>3, <1>13, <2>1 DEF Orders
  <2>3. entered' \in 0..clients' - 1 /\ entered' # 0
    BY <1>1, <1>4, <1>5, <1>13, <2>1
  <2>4. prevScore' = score'[{perm'[j] : j \in 1..entered'}]
    BY <1>1, <1>13, <2>1
  <2> QED BY <1>3, <2>1, <2>2, <2>3, <2>4 DEF OrderIs
<1>16. /\ entered' \in 0..clients' /\ permuted' \in 0..MaxPermuted /\ swept' \in 0..Alphas
      /\ score' \in ScoresOf /\ prevScore' \in Int /\ shapley' \in [Client' -> Int]
      /\ DOMAIN uneven' \in {1..clients', {}}
  <2>1. entered' \in 0..clients' /\ permuted' \in 0..MaxPermuted
    <3>1. entered' = entered + 1 /\ (permuted' = permuted + 1 \/ permuted' = permuted)
      BY <1>1
    <3>2. permuted \in Nat /\ permuted < MaxPermuted /\ MaxPermuted \in Nat /\ entered + 1 \in 1..clients
      BY <1>2, <1>3, <1>5
    <3>3. entered' \in 0..clients'
      BY <1>4, <1>13, <3>1, <3>2
    <3>4. permuted' \in 0..MaxPermuted
      BY <3>1, <3>2
    <3> QED BY <3>3, <3>4
  <2>2. swept' = swept /\ uneven' = uneven /\ Client' = Client
    BY <1>1, <1>13 DEF UnevenKept, Client
  <2>3. prevScore' \in Int
    BY <1>1, <1>7
  <2> QED BY <1>2, <1>9, <1>13, <2>1, <2>2, <2>3 DEF FedInv
<1> QED BY <1>1, <1>11, <1>12, <1>14, <1>15, <1>16 DEF FedInv

LEMMA FedStays == FedInv /\ UNCHANGED fedVars => FedInv'
<1> SUFFICES ASSUME FedInv, UNCHANGED fedVars PROVE FedInv'
  OBVIOUS
<1> USE DEF fedVars
<1>1. learns # "iid" => Started'
  BY EvenStays DEF FedInv, Started
<1>2. UnevenIs' /\ MasksAre' /\ OrderIs' /\ SharesAddUp'
  BY UnevenStays, MasksStay, OrderStays, SharesStay DEF FedInv
<1>3. learns = "iid" => Unstarted'
  BY DEF FedInv, Unstarted
<1> QED BY <1>1, <1>2, <1>3 DEF FedInv, Client

LEMMA FedInvariant == FedSpec => []FedInv
<1>1. FedInv /\ [FedNext]_fedVars => FedInv'
  BY PartitionStep, SplitStep, SecAggregateStep, PermuteStep, EnterStep, FedStays DEF FedNext
<1> QED BY FedStart, <1>1, PTL DEF FedSpec

\* A federation loses and invents nothing, whatever the rows, the proportions,
\* the masks, the scores and the orders: each row is with one client at most and
\* few with none, the masks between clients of equal parts cancel out, and what
\* the clients contribute adds up (partition_iid, partition_non_iid,
\* secagg_aggregate, compute_cci_scores).
THEOREM FederationIsSound == FedSpec => []FederationHolds
<1>1. FedInv => FederationHolds
  BY RowsFollow, MasksFollow DEF FederationHolds, FedInv
<1> QED BY <1>1, FedInvariant, PTL
-----------------------------------------------------------------------------
LEMMA FederationTypes == FedSpec => []FedTypeOK
<1>1. ASSUME FedInv PROVE FedTypeOK
  <2>1. CASE learns = "iid"
    <3>1. Unstarted
      BY <1>1, <2>1 DEF FedInv
    <3>2. DOMAIN even = {}
      BY <3>1 DEF Unstarted
    <3> QED BY <1>1, <3>1, <3>2 DEF FedInv, FedTypeOK, Unstarted
  <2>2. CASE learns # "iid"
    <3>1. Started
      BY <1>1, <2>2 DEF FedInv
    <3>2. DOMAIN even = 1..clients
      BY <3>1 DEF Started, EvenIs, SlicedAs
    <3> QED BY <1>1, <3>1, <3>2 DEF FedInv, FedTypeOK, Started
  <2> QED BY <2>1, <2>2
<1> QED BY <1>1, FedInvariant, PTL

=============================================================================
