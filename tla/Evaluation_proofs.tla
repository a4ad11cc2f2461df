-------------------------- MODULE Evaluation_proofs ---------------------------
(***************************************************************************)
(* Proofs of what modules MCKafkaConsumer and MCEvaluation check on a few  *)
(* values: of how requests come in, for any partitions, requests and       *)
(* bounds, and of how one is decided, for any requests, accounts, devices  *)
(* and number of threads.                                                  *)
(***************************************************************************)
EXTENDS KafkaConsumer, Evaluation, Policy_proofs, FiniteSetTheorems, TLAPS

(***************************************************************************)
(* The pipeline, for any partitions, requests and bounds                   *)
(***************************************************************************)

\* Every variable keeps its type.
THEOREM KafkaTypeCorrect == KafkaSpec => []KafkaTypeOK
<1>1. KafkaInit => KafkaTypeOK
  <2> SUFFICES ASSUME KafkaInit PROVE KafkaTypeOK OBVIOUS
  <2>1. /\ log \in [Partition -> Seq(Message)] /\ results \in Seq(Message)
        /\ dead \in SUBSET Message /\ lost \in SUBSET Message
        /\ committed \in [Partition -> Nat \cup {NoOffset}] /\ position \in [Partition -> Nat]
        /\ entered \in [Message -> Nat]
    BY DEF KafkaInit, NoOffset
  <2>2. status = "down" /\ body = "idle" /\ work = None BY DEF KafkaInit
  <2>3. starts \in 0..MaxStarts /\ breaks \in 0..MaxBreaks BY KafkaConstants DEF KafkaInit
  <2>4. (producer \in BOOLEAN) /\ (rewound \in BOOLEAN) BY DEF KafkaInit
  <2> QED BY <2>1, <2>2, <2>3, <2>4 DEF KafkaTypeOK
<1>2. KafkaTypeOK /\ [KafkaNext]_kafkaVars => KafkaTypeOK'
  <2> SUFFICES ASSUME KafkaTypeOK, [KafkaNext]_kafkaVars PROVE KafkaTypeOK' OBVIOUS
  <2> USE KafkaConstants
  <2>w. work \in Message <=> body # "idle" BY DEF KafkaTypeOK
  <2>e. work \in Message => [entered EXCEPT ![work] = @ + 1] \in [Message -> Nat]
    BY DEF KafkaTypeOK
  <2>s. ASSUME NEW r \in Message PROVE Append(results, r) \in Seq(Message)
    BY DEF KafkaTypeOK
  <2>1. ASSUME NEW r \in Message, Publish(r) PROVE KafkaTypeOK'
    <3>1. log' \in [Partition -> Seq(Message)]
      <4>1. Home[r] \in Partition OBVIOUS
      <4>2. Append(log[Home[r]], r) \in Seq(Message) BY <4>1 DEF KafkaTypeOK
      <4> QED BY <2>1, <4>1, <4>2 DEF Publish, KafkaTypeOK
    <3> QED BY <2>1, <3>1 DEF Publish, KafkaTypeOK
  <2>2. CASE StartService BY <2>2 DEF StartService, broker, KafkaTypeOK
  <2>3. CASE Connect
    <3>1. position' \in [Partition -> Nat]
      BY <2>3 DEF Connect, KafkaTypeOK, NoOffset
    <3>2. lost' \in SUBSET Message BY <2>3 DEF Connect, KafkaTypeOK, Published
    <3>3. rewound' \in BOOLEAN BY <2>3 DEF Connect, KafkaTypeOK
    <3> QED BY <2>3, <3>1, <3>2, <3>3 DEF Connect, broker, KafkaTypeOK
  <2>4. CASE Commit
    <3>1. committed' \in [Partition -> Nat \cup {NoOffset}] BY <2>4 DEF Commit, KafkaTypeOK
    <3> QED BY <2>4, <3>1 DEF Commit, KafkaTypeOK
  <2>5. ASSUME NEW p \in Partition, Take(p) PROVE KafkaTypeOK'
    <3>1. NextOf(p) \in Message BY <2>5 DEF Take, Ready, NextOf, KafkaTypeOK
    <3>2. position' \in [Partition -> Nat] BY <2>5 DEF Take, KafkaTypeOK
    <3> QED BY <2>5, <3>1, <3>2 DEF Take, broker, KafkaTypeOK
  <2>6. CASE Process
    <3>1. work \in Message BY <2>6, <2>w DEF Process
    <3>2. entered' \in [Message -> Nat] /\ body' \in {"send", "dlq"}
      BY <2>6, <2>e, <3>1 DEF Process, KafkaTypeOK
    <3> QED BY <2>6, <3>1, <3>2 DEF Process, broker, KafkaTypeOK
  <2>7. CASE Send
    <3>1. work \in Message BY <2>7, <2>w DEF Send
    <3>2. results' \in Seq(Message) BY <2>7, <2>s, <3>1 DEF Send, KafkaTypeOK
    <3>3. \/ work' = None /\ body' = "idle"
          \/ work' = work /\ body' = "dlq"
      BY <2>7 DEF Send, Finish
    <3> QED BY <2>7, <3>1, <3>2, <3>3 DEF Send, KafkaTypeOK
  <2>8. CASE SendDlq
    <3>1. work \in Message BY <2>8, <2>w DEF SendDlq
    <3>2. dead' \in SUBSET Message /\ lost' \in SUBSET Message
      BY <2>8, <3>1 DEF SendDlq, KafkaTypeOK
    <3> QED BY <2>8, <3>2 DEF SendDlq, Finish, KafkaTypeOK
  <2>l. ASSUME Leave PROVE /\ work' = None /\ body' = "idle"
                           /\ lost' \in SUBSET Message
    BY <2>l DEF Leave, KafkaTypeOK
  <2>c. ASSUME committed' \in {committed, position}
        PROVE  committed' \in [Partition -> Nat \cup {NoOffset}]
    BY <2>c DEF KafkaTypeOK
  <2>9. CASE Raise
    <3>1. committed' \in {committed, position} BY <2>9 DEF Raise
    <3>2. breaks' \in 0..MaxBreaks BY <2>9 DEF Raise, KafkaTypeOK
    <3>3. Leave /\ status' = "waiting" BY <2>9 DEF Raise
    <3> QED BY <2>9, <2>c, <2>l, <3>1, <3>2, <3>3 DEF Raise, KafkaTypeOK
  <2>10. CASE StopService
    <3>1. committed' \in {committed, position} BY <2>10 DEF StopService
    <3>2. entered' \in [Message -> Nat] BY <2>10, <2>e, <2>w DEF StopService, KafkaTypeOK
    <3>3. Leave /\ status' = "down" BY <2>10 DEF StopService
    <3> QED BY <2>10, <2>c, <2>l, <3>1, <3>2, <3>3 DEF StopService, KafkaTypeOK
  <2>11. CASE CrashService
    <3>1. Leave /\ status' = "down" BY <2>11 DEF CrashService
    <3> QED BY <2>11, <2>l, <3>1 DEF CrashService, KafkaTypeOK
  <2>12. CASE UNCHANGED kafkaVars BY <2>12 DEF kafkaVars, broker, KafkaTypeOK
  <2> QED BY <2>1, <2>2, <2>3, <2>4, <2>5, <2>6, <2>7, <2>8, <2>9, <2>10, <2>11, <2>12 DEF KafkaNext
<1> QED BY <1>1, <1>2, PTL DEF KafkaSpec
-----------------------------------------------------------------------------
(***************************************************************************)
(* Outcomes                                                                *)
(***************************************************************************)
\* Offsets lie within the log, and the loop has a request in its body only
\* while it runs.
Offsets ==
    /\ \A p \in Partition : committed[p] <= Len(log[p]) /\ position[p] <= Len(log[p])
    /\ work # None => status = "running"

LEMMA OffsetsInit == KafkaInit => Offsets
BY KafkaConstants DEF KafkaInit, Offsets, NoOffset

LEMMA NextOffsets == KafkaTypeOK /\ Offsets /\ [KafkaNext]_kafkaVars => Offsets'
<1> SUFFICES ASSUME KafkaTypeOK, Offsets, [KafkaNext]_kafkaVars PROVE Offsets' OBVIOUS
<1> USE KafkaConstants
<1>t. /\ \A p \in Partition : /\ log[p] \in Seq(Message) /\ Len(log[p]) \in Nat
                              /\ position[p] \in Nat /\ committed[p] \in Nat \cup {-1}
  BY DEF KafkaTypeOK, NoOffset
<1>1. ASSUME NEW r \in Message, Publish(r) PROVE Offsets'
  <2>1. \A p \in Partition : Len(log'[p]) >= Len(log[p])
    <3> TAKE p \in Partition
    <3>1. CASE p = Home[r] BY <1>1, <1>t, <3>1 DEF Publish, KafkaTypeOK
    <3>2. CASE p # Home[r] BY <1>1, <1>t, <3>2 DEF Publish, KafkaTypeOK
    <3> QED BY <3>1, <3>2
  <2>2. \A p \in Partition : Len(log'[p]) \in Nat
    <3> TAKE p \in Partition
    <3>1. CASE p = Home[r] BY <1>1, <1>t, <3>1 DEF Publish, KafkaTypeOK
    <3>2. CASE p # Home[r] BY <1>1, <1>t, <3>2 DEF Publish, KafkaTypeOK
    <3> QED BY <3>1, <3>2
  <2> QED BY <1>1, <1>t, <2>1, <2>2 DEF Publish, Offsets
<1>2. CASE StartService BY <1>2 DEF StartService, broker, Offsets
<1>3. CASE Connect
  <2>1. \A p \in Partition : position'[p] <= Len(log[p])
    BY <1>3, <1>t DEF Connect, Offsets
  <2> QED BY <1>3, <2>1 DEF Connect, broker, Offsets
<1>4. CASE Commit BY <1>4 DEF Commit, Offsets
<1>5. ASSUME NEW p \in Partition, Take(p) PROVE Offsets'
  <2>1. \A q \in Partition : position'[q] <= Len(log[q])
    BY <1>5, <1>t DEF Take, Ready, Offsets, KafkaTypeOK
  <2> QED BY <1>5, <2>1 DEF Take, Ready, broker, Offsets
<1>6. CASE Process BY <1>6 DEF Process, broker, Offsets
<1>7. CASE Send BY <1>7 DEF Send, Finish, Offsets
<1>8. CASE SendDlq BY <1>8 DEF SendDlq, Finish, Offsets
<1>9. CASE Raise BY <1>9 DEF Raise, Leave, Offsets
<1>10. CASE StopService
  <2>1. committed' \in {committed, position} BY <1>10 DEF StopService
  <2> QED BY <1>10, <2>1 DEF StopService, Leave, Offsets
<1>11. CASE CrashService BY <1>11 DEF CrashService, Leave, Offsets
<1>12. CASE UNCHANGED kafkaVars BY <1>12 DEF kafkaVars, broker, Offsets
<1> QED BY <1>1, <1>2, <1>3, <1>4, <1>5, <1>6, <1>7, <1>8, <1>9, <1>10, <1>11, <1>12 DEF KafkaNext

\* r is among the first k of the sequence l.
Among(l, r, k) == \E i \in 1..Len(l) : i <= k /\ l[i] = r

LEMMA BehindAmong ==
    \A r \in Message :
        /\ Behind(r, committed) <=> Among(log[Home[r]], r, committed[Home[r]])
        /\ Behind(r, position) <=> Among(log[Home[r]], r, position[Home[r]])
        /\ r \in Published <=> Among(log[Home[r]], r, Len(log[Home[r]]))
<1> SUFFICES ASSUME NEW r \in Message
             PROVE  /\ Behind(r, committed) <=> Among(log[Home[r]], r, committed[Home[r]])
                    /\ Behind(r, position) <=> Among(log[Home[r]], r, position[Home[r]])
                    /\ r \in Published <=> Among(log[Home[r]], r, Len(log[Home[r]]))
  OBVIOUS
<1>1. \A i \in 1..Len(log[Home[r]]) : i <= Len(log[Home[r]]) OBVIOUS
<1> QED BY <1>1 DEF Behind, Among, Published

LEMMA AmongAppend ==
    ASSUME NEW l \in Seq(Message), NEW n \in Message, NEW r,
           NEW k \in Nat \cup {-1}, k <= Len(l)
    PROVE  Among(Append(l, n), r, k) <=> Among(l, r, k)
<1>1. /\ Len(Append(l, n)) = Len(l) + 1 /\ Len(l) \in Nat
      /\ \A i \in 1..Len(l) : Append(l, n)[i] = l[i]
  OBVIOUS
<1>2. \A i \in 1..(Len(l) + 1) : i <= k => i \in 1..Len(l) BY <1>1
<1>3. \A i \in 1..Len(l) : i \in 1..(Len(l) + 1) BY <1>1
<1> QED BY <1>1, <1>2, <1>3 DEF Among

LEMMA AmongMore ==
    ASSUME NEW l \in Seq(Message), NEW r, NEW k \in Nat, k < Len(l)
    PROVE  Among(l, r, k + 1) <=> Among(l, r, k) \/ r = l[k + 1]
<1>1. Len(l) \in Nat /\ k + 1 \in 1..Len(l) OBVIOUS
<1>2. \A i \in 1..Len(l) : i <= k + 1 <=> i <= k \/ i = k + 1 BY <1>1
<1> QED BY <1>1, <1>2 DEF Among

LEMMA AmongNone ==
    ASSUME NEW l, NEW r PROVE ~Among(l, r, -1)
BY DEF Among

LEMMA RangeAppend ==
    ASSUME NEW s \in Seq(Message), NEW r \in Message
    PROVE  {Append(s, r)[x] : x \in 1..Len(Append(s, r))} = {s[x] : x \in 1..Len(s)} \cup {r}
<1>1. /\ Len(Append(s, r)) = Len(s) + 1 /\ Len(s) \in Nat
      /\ \A x \in 1..Len(s) : Append(s, r)[x] = s[x]
      /\ Append(s, r)[Len(s) + 1] = r
  OBVIOUS
<1>2. \A x \in 1..(Len(s) + 1) : x \in 1..Len(s) \/ x = Len(s) + 1 BY <1>1
<1>3. Len(s) + 1 \in 1..(Len(s) + 1) /\ \A x \in 1..Len(s) : x \in 1..(Len(s) + 1) BY <1>1
<1> QED BY <1>1, <1>2, <1>3

\* A step that moves neither offsets nor requests, and takes no outcome back,
\* and gives one to a request that leaves the loop.
LEMMA SameOffsets ==
    ASSUME NoneSkipped, UNCHANGED <<log, committed, position>>,
           status' = "running" => status = "running",
           \A r \in Message : Accounted(r) \/ work = r => (Accounted(r) \/ work = r)'
    PROVE  NoneSkipped'
BY DEF NoneSkipped, Behind

LEMMA NextSkips == KafkaTypeOK /\ Offsets /\ NoneSkipped /\ [KafkaNext]_kafkaVars => NoneSkipped'
<1> SUFFICES ASSUME KafkaTypeOK, Offsets, NoneSkipped, [KafkaNext]_kafkaVars PROVE NoneSkipped' OBVIOUS
<1> USE KafkaConstants
<1>t. /\ \A p \in Partition : /\ log[p] \in Seq(Message) /\ Len(log[p]) \in Nat
                              /\ position[p] \in Nat /\ committed[p] \in Nat \cup {-1}
                              /\ position[p] <= Len(log[p]) /\ committed[p] <= Len(log[p])
      /\ \A r \in Message : Home[r] \in Partition /\ r # None
  BY DEF KafkaTypeOK, NoOffset, Offsets
<1>w. work \in Message <=> body # "idle" BY DEF KafkaTypeOK
<1>1. ASSUME NEW n \in Message, Publish(n) PROVE NoneSkipped'
  <2> SUFFICES ASSUME NEW r \in Message
               PROVE  /\ Behind(r, committed)' <=> Behind(r, committed)
                      /\ Behind(r, position)' <=> Behind(r, position)
    BY <1>1 DEF Publish, NoneSkipped, Accounted, Decided
  <2>1. CASE Home[r] = Home[n]
    <3>1. log'[Home[r]] = Append(log[Home[r]], n) BY <1>1, <1>t, <2>1 DEF Publish, KafkaTypeOK
    <3>2. \A k \in Nat \cup {-1} :
              k <= Len(log[Home[r]]) => (Among(log'[Home[r]], r, k) <=> Among(log[Home[r]], r, k))
      BY <1>t, <3>1, AmongAppend
    <3> QED BY <1>1, <1>t, <3>2 DEF Publish, Behind, Among
  <2>2. CASE Home[r] # Home[n]
    <3>1. log'[Home[r]] = log[Home[r]] BY <1>1, <1>t, <2>2 DEF Publish, KafkaTypeOK
    <3> QED BY <1>1, <3>1 DEF Publish, Behind
  <2> QED BY <2>1, <2>2
<1>2. CASE StartService
  BY <1>2, SameOffsets DEF StartService, broker, Accounted, Decided
<1>3. CASE Connect
  <2>1. work = None BY <1>3 DEF Connect, Offsets
  <2> SUFFICES ASSUME NEW r \in Message
               PROVE  /\ Behind(r, committed)' => Accounted(r)'
                      /\ Behind(r, position)' => Accounted(r)'
    BY DEF NoneSkipped
  <2>2. Accounted(r) => Accounted(r)' BY <1>3 DEF Connect, broker, Accounted, Decided
  <2>3. Behind(r, committed) => Accounted(r) BY <1>t, <2>1 DEF NoneSkipped
  <2>4. Behind(r, committed)' <=> Behind(r, committed) BY <1>3 DEF Connect, broker, Behind
  <2>5. CASE committed[Home[r]] = NoOffset
    <3>1. Behind(r, position)' => r \in Published
      BY <1>3 DEF Connect, broker, Behind, Published
    <3>2. r \in Published => Accounted(r)'
      BY <1>3, <2>5 DEF Connect, broker, Accounted, Decided
    <3> QED BY <2>2, <2>3, <2>4, <3>1, <3>2
  <2>6. CASE committed[Home[r]] # NoOffset
    <3>1. position'[Home[r]] = committed[Home[r]] BY <1>3, <1>t, <2>6 DEF Connect
    <3>2. Behind(r, position)' <=> Behind(r, committed)
      BY <1>3, <3>1 DEF Connect, broker, Behind
    <3> QED BY <2>2, <2>3, <2>4, <3>2
  <2> QED BY <2>5, <2>6
<1>4. CASE Commit
  BY <1>4 DEF Commit, NoneSkipped, Behind, Accounted, Decided
<1>5. ASSUME NEW p \in Partition, Take(p) PROVE NoneSkipped'
  <2>1. work = None /\ work' = NextOf(p) /\ UNCHANGED <<log, committed, results, dead, lost>>
        /\ position' = [position EXCEPT ![p] = @ + 1] /\ status = "running"
        /\ position[p] < Len(log[p])
    BY <1>5 DEF Take, Ready, broker
  <2> SUFFICES ASSUME NEW r \in Message
               PROVE  /\ Behind(r, committed)' => Accounted(r)'
                      /\ Behind(r, position)' => Accounted(r)' \/ work' = r
    BY DEF NoneSkipped
  <2>2. Accounted(r)' <=> Accounted(r) BY <2>1 DEF Accounted, Decided
  <2>3. Behind(r, committed)' => Accounted(r)'
    BY <1>t, <2>1, <2>2 DEF NoneSkipped, Behind
  <2>4. Behind(r, position) => Accounted(r) BY <1>t, <2>1 DEF NoneSkipped
  <2>5. CASE Home[r] = p
    <3>1. position'[p] = position[p] + 1 BY <2>1 DEF KafkaTypeOK
    <3>2. Among(log[p], r, position[p] + 1) => Among(log[p], r, position[p]) \/ r = NextOf(p)
      BY <1>t, <2>1, AmongMore DEF NextOf
    <3>3. /\ Behind(r, position)' <=> Among(log[p], r, position[p] + 1)
          /\ Behind(r, position) <=> Among(log[p], r, position[p])
      BY <2>1, <2>5, <3>1 DEF Behind, Among
    <3> QED BY <2>1, <2>2, <2>3, <2>4, <3>2, <3>3
  <2>6. CASE Home[r] # p
    <3>1. position'[Home[r]] = position[Home[r]] BY <1>t, <2>1, <2>6 DEF KafkaTypeOK
    <3>2. Behind(r, position)' <=> Behind(r, position) BY <2>1, <3>1 DEF Behind
    <3> QED BY <2>2, <2>3, <2>4, <3>2
  <2> QED BY <2>5, <2>6
<1>6. CASE Process
  BY <1>6, SameOffsets DEF Process, broker, Accounted, Decided
<1>7. CASE Send
  <2>1. work \in Message BY <1>7, <1>w DEF Send
  <2>2. \/ results' = results /\ work' = work
        \/ results' = Append(results, work)
    BY <1>7 DEF Send
  <2>3. Decided \subseteq Decided' /\ (work' = work \/ work \in Decided')
    <3>1. CASE results' = results /\ work' = work BY <3>1 DEF Decided
    <3>2. CASE results' = Append(results, work)
      <4>1. results \in Seq(Message) BY DEF KafkaTypeOK
      <4>2. Decided' = Decided \cup {work}
        BY <2>1, <3>2, <4>1, RangeAppend DEF Decided
      <4> QED BY <4>2
    <3> QED BY <2>2, <3>1, <3>2
  <2>4. UNCHANGED <<log, committed, position, status, dead, lost>> BY <1>7 DEF Send
  <2>5. \A r \in Message : Accounted(r) \/ work = r => (Accounted(r) \/ work = r)'
    BY <2>3, <2>4 DEF Accounted
  <2> QED BY <2>4, <2>5, SameOffsets
<1>8. CASE SendDlq
  <2>1. UNCHANGED <<log, committed, position, status, results>> BY <1>8 DEF SendDlq
  <2>2. \/ dead' = dead \cup {work} /\ lost' = lost
        \/ lost' = lost \cup ({work} \ Decided) /\ dead' = dead
    BY <1>8 DEF SendDlq
  <2>3. \A r \in Message : Accounted(r) \/ work = r => (Accounted(r) \/ work = r)'
    BY <2>1, <2>2 DEF Accounted, Decided
  <2> QED BY <2>1, <2>3, SameOffsets
\* What the loop leaves behind, whatever it has committed.
<1>l. ASSUME Leave, UNCHANGED <<log, results, dead, position>>, status' # "running",
             committed' \in {committed, position},
             committed' = position => committed' = committed \/ status = "running"
      PROVE  NoneSkipped'
  <2> SUFFICES ASSUME NEW r \in Message, Behind(r, committed)' PROVE Accounted(r)'
    BY <1>l DEF NoneSkipped
  <2>1. Behind(r, committed') BY <1>l DEF Behind
  <2>2. Accounted(r) \/ work = r
    <3>1. CASE committed' = committed BY <2>1, <3>1 DEF NoneSkipped
    <3>2. CASE committed' = position /\ status = "running" BY <2>1, <3>2 DEF NoneSkipped
    <3> QED BY <1>l, <3>1, <3>2
  <2>3. lost \subseteq lost' /\ Decided' = Decided /\ dead' = dead
    BY <1>l DEF Leave, Decided
  <2>4. CASE Accounted(r) BY <2>3, <2>4 DEF Accounted
  <2>5. CASE work = r /\ ~Accounted(r)
    <3>1. r \in {work} \ {None} /\ r \notin Decided \cup dead BY <1>t, <2>5 DEF Accounted
    <3>2. r \in lost' BY <1>l, <2>1, <3>1 DEF Leave
    <3> QED BY <3>2 DEF Accounted
  <2> QED BY <2>2, <2>4, <2>5
<1>9. CASE Raise
  <2>1. committed' \in {committed, position} /\ status = "running" /\ status' = "waiting"
        /\ Leave /\ UNCHANGED <<log, results, dead, position>>
    BY <1>9 DEF Raise
  <2> QED BY <1>l, <2>1
<1>10. CASE StopService
  <2>1. Leave /\ status' = "down" /\ UNCHANGED <<log, results, dead, position>>
    BY <1>10 DEF StopService
  <2>2. IF status = "running" THEN committed' \in {committed, position} ELSE committed' = committed
    BY <1>10 DEF StopService
  <2> QED BY <1>l, <2>1, <2>2
<1>11. CASE CrashService
  <2>1. /\ committed' = committed /\ status' = "down"
        /\ Leave /\ UNCHANGED <<log, results, dead, position>>
    BY <1>11 DEF CrashService
  <2> QED BY <1>l, <2>1
<1>12. CASE UNCHANGED kafkaVars
  BY <1>12, SameOffsets DEF kafkaVars, broker, Accounted, Decided
<1> QED BY <1>1, <1>2, <1>3, <1>4, <1>5, <1>6, <1>7, <1>8, <1>9, <1>10, <1>11, <1>12 DEF KafkaNext

\* Behind the committed offsets and the position every request has an outcome,
\* or is in the loop, for any requests, crashes and failures.
THEOREM NothingSkipped == KafkaSpec => []NoneSkipped
<1>1. KafkaInit => NoneSkipped
  BY KafkaConstants DEF KafkaInit, NoneSkipped, Behind
<1> QED BY <1>1, OffsetsInit, NextOffsets, NextSkips, KafkaTypeCorrect, PTL DEF KafkaSpec
-----------------------------------------------------------------------------
(***************************************************************************)
(* Profiles                                                                *)
(***************************************************************************)
\* Each partition holds its own requests, each once.
Once ==
    \A p \in Partition : \A i \in 1..Len(log[p]) :
        /\ Home[log[p][i]] = p
        /\ \A j \in 1..Len(log[p]) : log[p][i] = log[p][j] => i = j

\* Until a start goes back, what has entered lies behind the position, and what
\* the worker thread has not.
Entering ==
    /\ work # None => Behind(work, position)
    /\ \A r \in Message : entered[r] > 0 => r \in Published
    /\ ~rewound => /\ EnteredOnce
                   /\ status = "running" =>
                         \A r \in Message : entered[r] > 0 => Behind(r, position)
                   /\ body = "thread" => entered[work] = 0

LEMMA NextOnce == KafkaTypeOK /\ Once /\ [KafkaNext]_kafkaVars => Once'
<1> SUFFICES ASSUME KafkaTypeOK, Once, [KafkaNext]_kafkaVars PROVE Once' OBVIOUS
<1> USE KafkaConstants
<1>1. CASE log' = log BY <1>1 DEF Once
<1>2. ASSUME NEW n \in Message, Publish(n) PROVE Once'
  <2> SUFFICES ASSUME NEW p \in Partition, NEW i \in 1..Len(log'[p])
               PROVE  /\ Home[log'[p][i]] = p
                      /\ \A j \in 1..Len(log'[p]) : log'[p][i] = log'[p][j] => i = j
    BY DEF Once
  <2>1. CASE p # Home[n]
    <3>1. log'[p] = log[p] BY <1>2, <2>1 DEF Publish, KafkaTypeOK
    <3> QED BY <3>1 DEF Once
  <2>2. CASE p = Home[n]
    <3> DEFINE l == log[p]
    <3>1. l \in Seq(Message) /\ log'[p] = Append(l, n) BY <1>2, <2>2 DEF Publish, KafkaTypeOK
    <3>2. \A j \in 1..Len(l) : l[j] # n BY <1>2, <2>2 DEF Publish, Published
    <3>3. /\ Len(log'[p]) = Len(l) + 1 /\ Len(l) \in Nat /\ log'[p][Len(l) + 1] = n
          /\ \A j \in 1..Len(l) : log'[p][j] = l[j]
      BY <3>1
    <3>4. \A j \in 1..Len(log'[p]) : j \in 1..Len(l) \/ j = Len(l) + 1 BY <3>3
    <3>5. \A j \in 1..Len(l) : /\ Home[l[j]] = p
                               /\ \A k \in 1..Len(l) : l[j] = l[k] => j = k
      BY DEF Once
    <3>6. CASE i = Len(l) + 1
      <4>1. Home[log'[p][i]] = p BY <2>2, <3>3, <3>6
      <4>2. ASSUME NEW j \in 1..Len(log'[p]), log'[p][i] = log'[p][j] PROVE i = j
        BY <3>2, <3>3, <3>4, <3>6, <4>2
      <4> QED BY <4>1, <4>2
    <3>7. CASE i \in 1..Len(l)
      <4>1. Home[log'[p][i]] = p BY <3>3, <3>5, <3>7
      <4>2. ASSUME NEW j \in 1..Len(log'[p]), log'[p][i] = log'[p][j] PROVE i = j
        <5>1. CASE j = Len(l) + 1 BY <3>2, <3>3, <3>7, <4>2, <5>1
        <5>2. CASE j \in 1..Len(l) BY <3>3, <3>5, <3>7, <4>2, <5>2
        <5> QED BY <3>4, <5>1, <5>2
      <4> QED BY <4>1, <4>2
    <3> HIDE DEF l
    <3> QED BY <3>4, <3>6, <3>7
  <2> QED BY <2>1, <2>2
<1>3. log' = log \/ \E n \in Message : Publish(n)
  BY DEF KafkaNext, kafkaVars, broker, StartService, Connect, Commit, Take, Process, Send, SendDlq, Raise, StopService, CrashService
<1> QED BY <1>1, <1>2, <1>3

\* A step in which nothing enters and nothing is read.
LEMMA NoEntry ==
    ASSUME Entering, UNCHANGED <<log, position, entered, rewound>>,
           status' = "running" => status = "running",
           work' = None \/ work' = work,
           body' = "thread" => body = "thread" /\ work' = work
    PROVE  Entering'
BY DEF Entering, EnteredOnce, Behind, Published

LEMMA NextEntering ==
    KafkaTypeOK /\ Offsets /\ Once /\ Entering /\ [KafkaNext]_kafkaVars => Entering'
<1> SUFFICES ASSUME KafkaTypeOK, Offsets, Once, Entering, [KafkaNext]_kafkaVars PROVE Entering' OBVIOUS
<1> USE KafkaConstants
<1>t. /\ \A p \in Partition : /\ log[p] \in Seq(Message) /\ Len(log[p]) \in Nat
                              /\ position[p] \in Nat /\ position[p] <= Len(log[p])
      /\ \A r \in Message : Home[r] \in Partition /\ r # None /\ entered[r] \in Nat
      /\ (work \in Message \cup {None}) /\ (work = None <=> body = "idle")
  BY DEF KafkaTypeOK, NoOffset, Offsets
<1>p. \A r \in Message : Behind(r, position) => r \in Published BY DEF Behind, Published
<1>1. ASSUME NEW n \in Message, Publish(n) PROVE Entering'
  <2>1. ASSUME NEW r \in Message
        PROVE  /\ Behind(r, position)' <=> Behind(r, position)
               /\ r \in Published => r \in Published'
    <3>1. CASE Home[r] = Home[n]
      <4>1. log'[Home[r]] = Append(log[Home[r]], n) BY <1>1, <1>t, <3>1 DEF Publish, KafkaTypeOK
      <4>2. Among(log'[Home[r]], r, position[Home[r]]) <=> Among(log[Home[r]], r, position[Home[r]])
        BY <1>t, <4>1, AmongAppend
      <4>3. Behind(r, position)' <=> Behind(r, position)
        BY <1>1, <4>2 DEF Publish, Behind, Among
      <4>4. Len(log'[Home[r]]) = Len(log[Home[r]]) + 1
            /\ \A i \in 1..Len(log[Home[r]]) : log'[Home[r]][i] = log[Home[r]][i]
        BY <1>t, <4>1
      <4>5. \A i \in 1..Len(log[Home[r]]) : i \in 1..(Len(log[Home[r]]) + 1) BY <1>t
      <4>6. r \in Published => r \in Published' BY <4>4, <4>5 DEF Published
      <4> QED BY <4>3, <4>6
    <3>2. CASE Home[r] # Home[n]
      <4>1. log'[Home[r]] = log[Home[r]] BY <1>1, <1>t, <3>2 DEF Publish, KafkaTypeOK
      <4> QED BY <1>1, <4>1 DEF Publish, Behind, Published
    <3> QED BY <3>1, <3>2
  <2>2. UNCHANGED <<position, status, work, body, entered, rewound>> BY <1>1 DEF Publish
  <2>3. work' # None => Behind(work, position)' BY <1>t, <2>1, <2>2 DEF Entering
  <2> QED BY <1>t, <2>1, <2>2, <2>3 DEF Entering, EnteredOnce
<1>2. CASE StartService BY <1>2, NoEntry DEF StartService, broker
<1>3. CASE Connect
  <2>1. work = None /\ body = "idle" BY <1>3, <1>t DEF Connect, Offsets
  <2>2. UNCHANGED <<log, work, body, entered>> BY <1>3 DEF Connect, broker
  <2>3. rewound' = (rewound \/ \E r \in Published : entered[r] > 0 /\ ~Behind(r, position'))
    BY <1>3 DEF Connect
  <2>4. \A r \in Message : r \in Published' <=> r \in Published BY <2>2 DEF Published
  <2>5. \A r \in Message : Behind(r, position)' <=> Behind(r, position') BY <2>2 DEF Behind
  <2>6. \A r \in Message : entered[r] > 0 => r \in Published BY DEF Entering
  <2>7. ~rewound' => \A r \in Message : entered[r] > 0 => Behind(r, position)'
    BY <2>3, <2>5, <2>6
  <2>8. ~rewound' => \A r \in Message : entered[r] <= 1
    BY <2>3 DEF Entering, EnteredOnce
  <2> QED BY <2>1, <2>2, <2>4, <2>6, <2>7, <2>8 DEF Entering, EnteredOnce
<1>4. CASE Commit BY <1>4, NoEntry DEF Commit
<1>5. ASSUME NEW p \in Partition, Take(p) PROVE Entering'
  <2>1. work' = NextOf(p) /\ UNCHANGED <<log, entered, rewound, status>>
        /\ position' = [position EXCEPT ![p] = @ + 1] /\ status = "running"
        /\ position[p] < Len(log[p])
    BY <1>5 DEF Take, Ready, broker
  <2>2. position[p] + 1 \in 1..Len(log[p]) BY <1>t, <2>1
  <2>3. NextOf(p) \in Message /\ Home[NextOf(p)] = p
    BY <1>t, <2>2 DEF NextOf, Once
  <2>4. ASSUME NEW r \in Message, Behind(r, position) PROVE Behind(r, position')
    <3>1. position[Home[r]] <= position'[Home[r]] /\ position'[Home[r]] \in Nat
      <4>1. Home[r] \in Partition /\ position \in [Partition -> Nat]
        BY DEF KafkaTypeOK
      <4>2. \A q \in Partition : position'[q] = IF q = p THEN position[q] + 1 ELSE position[q]
        BY <2>1, <4>1
      <4> QED
        BY <4>1, <4>2
    <3>2. PICK i \in 1..Len(log[Home[r]]) : i <= position[Home[r]] /\ log[Home[r]][i] = r
      BY <2>4 DEF Behind
    <3>3. i <= position'[Home[r]] BY <1>t, <3>1, <3>2
    <3> QED BY <3>2, <3>3 DEF Behind
  <2>5. Behind(NextOf(p), position')
    <3>1. position'[p] = position[p] + 1 BY <1>t, <2>1 DEF KafkaTypeOK
    <3>2. log[p][position[p] + 1] = NextOf(p) BY DEF NextOf
    <3> QED BY <1>t, <2>2, <2>3, <3>1, <3>2 DEF Behind
  <2>6. ~Behind(NextOf(p), position)
    <3> SUFFICES ASSUME NEW i \in 1..Len(log[p]), i <= position[p], log[p][i] = NextOf(p)
                 PROVE  FALSE
      BY <2>3 DEF Behind
    <3>1. i = position[p] + 1 BY <2>2 DEF NextOf, Once
    <3> QED BY <1>t, <3>1
  <2>7. ~rewound => entered[NextOf(p)] = 0
    BY <1>t, <2>1, <2>3, <2>6 DEF Entering
  <2>8. \A r \in Message : /\ Behind(r, position)' <=> Behind(r, position')
                           /\ r \in Published' <=> r \in Published
    BY <2>1 DEF Behind, Published
  <2>9. Behind(work, position)' BY <2>1, <2>3, <2>5, <2>8
  <2> QED BY <2>1, <2>3, <2>4, <2>7, <2>8, <2>9 DEF Entering, EnteredOnce
\* At most the request in the worker thread enters.
<1>e. ASSUME body = "thread", body' # "thread", UNCHANGED <<log, position, rewound>>,
             entered' \in {entered, [entered EXCEPT ![work] = @ + 1]},
             work' = None \/ work' = work
      PROVE  Entering'
  <2>1. work \in Message /\ Behind(work, position) /\ work \in Published
    BY <1>e, <1>p, <1>t DEF Entering
  <2>2. \A r \in Message : r # work => entered'[r] = entered[r]
    BY <1>e, <2>1 DEF KafkaTypeOK
  <2>3. entered'[work] \in {entered[work], entered[work] + 1} BY <1>e, <2>1 DEF KafkaTypeOK
  <2>4. \A r \in Message : /\ Behind(r, position)' <=> Behind(r, position)
                           /\ r \in Published' <=> r \in Published
    BY <1>e DEF Behind, Published
  <2>5. \A r \in Message : entered'[r] > 0 => r \in Published' BY <2>1, <2>2, <2>4 DEF Entering
  <2>6. ~rewound => entered[work] = 0 BY <1>e DEF Entering
  <2>7. ~rewound => \A r \in Message : entered'[r] <= 1
    BY <1>t, <2>1, <2>2, <2>3, <2>6 DEF Entering, EnteredOnce
  <2>8. status = "running" BY <1>t, <2>1 DEF Offsets
  <2>9. ~rewound => \A r \in Message : entered'[r] > 0 => Behind(r, position)'
    BY <2>1, <2>2, <2>4, <2>8 DEF Entering
  <2>10. work' # None => Behind(work, position)' BY <1>e, <2>1 DEF Behind
  <2> QED BY <1>e, <2>5, <2>7, <2>9, <2>10 DEF Entering, EnteredOnce
<1>6. CASE Process
  <2>1. /\ body = "thread" /\ body' \in {"send", "dlq"}
        /\ UNCHANGED <<log, position, work, rewound>>
        /\ entered' \in {entered, [entered EXCEPT ![work] = @ + 1]}
    BY <1>6 DEF Process, broker
  <2> QED BY <1>e, <2>1
<1>7. CASE Send
  <2>1. /\ UNCHANGED <<log, position, entered, rewound, status>>
        /\ (work' = None \/ work' = work) /\ body' \in {"idle", "dlq"}
    BY <1>7 DEF Send, Finish
  <2> QED BY <2>1, NoEntry
<1>8. CASE SendDlq BY <1>8, NoEntry DEF SendDlq, Finish
<1>9. CASE Raise BY <1>9, NoEntry DEF Raise, Leave
<1>10. CASE StopService
  <2>1. /\ UNCHANGED <<log, position, rewound>>
        /\ work' = None /\ body' = "idle" /\ status' = "down"
        /\ entered' \in IF body = "thread" THEN {entered, [entered EXCEPT ![work] = @ + 1]}
                        ELSE {entered}
    BY <1>10 DEF StopService, Leave
  <2>2. CASE body = "thread" BY <1>e, <2>1, <2>2
  <2>3. CASE body # "thread" BY <2>1, <2>3, NoEntry
  <2> QED BY <2>2, <2>3
<1>11. CASE CrashService BY <1>11, NoEntry DEF CrashService, Leave
<1>12. CASE UNCHANGED kafkaVars BY <1>12, NoEntry DEF kafkaVars, broker
<1> QED BY <1>1, <1>2, <1>3, <1>4, <1>5, <1>6, <1>7, <1>8, <1>9, <1>10, <1>11, <1>12 DEF KafkaNext

\* Until a start goes back over what has entered, no request enters its user's
\* profile twice, for any requests, crashes and failures.
THEOREM EntersOnce == KafkaSpec => []EnteredOnce
<1>1. KafkaInit => Once
  BY KafkaConstants DEF KafkaInit, Once
<1>2. KafkaInit => Entering
  BY KafkaConstants DEF KafkaInit, Entering, EnteredOnce
<1>3. Entering => EnteredOnce BY DEF Entering, EnteredOnce
<1> QED BY <1>1, <1>2, <1>3, OffsetsInit, NextOffsets, NextOnce, NextEntering, KafkaTypeCorrect, PTL
        DEF KafkaSpec
-----------------------------------------------------------------------------
(***************************************************************************)
(* The order of the decisions                                              *)
(***************************************************************************)
\* Only requests that are published are decided, and in their order.
Ordered == DecidedInOrder /\ Decided \subseteq Published

\* A step without a decision, and without a request.
LEMMA SameDecisions ==
    ASSUME Ordered, UNCHANGED <<log, results>>, dead \subseteq dead', lost \subseteq lost'
    PROVE  Ordered'
BY DEF Ordered, DecidedInOrder, Decided, Published

\* What lies before the request in the loop has an outcome.
LEMMA BeforeWork ==
    ASSUME KafkaTypeOK, Offsets, Once, Entering, NoneSkipped, work # None,
           NEW p \in Partition, NEW i \in 1..Len(log[p]), NEW j \in 1..Len(log[p]),
           i < j, log[p][j] = work
    PROVE  log[p][i] \in Decided \cup dead \cup lost
<1> DEFINE r == log[p][i]
<1>1. log[p] \in Seq(Message) /\ r \in Message /\ position[p] \in Nat
  BY DEF KafkaTypeOK
<1>2. Home[work] = p /\ Home[r] = p
  BY DEF Once
<1>3. PICK k \in 1..Len(log[p]) : k <= position[p] /\ log[p][k] = work
  BY <1>2 DEF Entering, Behind
<1>4. k = j
  BY <1>3 DEF Once
<1>5. Behind(r, position)
  BY <1>1, <1>2, <1>3, <1>4 DEF Behind
<1>6. r # work
  BY DEF Once
<1>7. status = "running"
  BY DEF Offsets
<1> QED
  BY <1>1, <1>5, <1>6, <1>7 DEF NoneSkipped, Accounted

LEMMA NextOrdered ==
    KafkaTypeOK /\ Offsets /\ Once /\ Entering /\ NoneSkipped /\ Ordered /\ [KafkaNext]_kafkaVars
        => Ordered'
<1> SUFFICES ASSUME KafkaTypeOK, Offsets, Once, Entering, NoneSkipped, Ordered,
                    [KafkaNext]_kafkaVars
             PROVE  Ordered'
  OBVIOUS
<1> USE KafkaConstants
<1>t. results \in Seq(Message) /\ Len(results) \in Nat
  BY DEF KafkaTypeOK
<1>1. ASSUME NEW n \in Message, Publish(n) PROVE Ordered'
  <2>1. results' = results /\ dead' = dead /\ lost' = lost /\ n \notin Published
    BY <1>1 DEF Publish
  <2>2. \A p \in Partition : /\ Len(log[p]) \in Nat /\ Len(log'[p]) \in Nat
                             /\ Len(log[p]) <= Len(log'[p])
                             /\ \A i \in 1..Len(log[p]) : log'[p][i] = log[p][i]
                             /\ \A i \in 1..Len(log'[p]) :
                                   i \in 1..Len(log[p]) \/ (i = Len(log'[p]) /\ log'[p][i] = n)
    <3> TAKE p \in Partition
    <3>1. CASE p # Home[n]
      BY <1>1, <3>1 DEF Publish, KafkaTypeOK
    <3>2. CASE p = Home[n]
      <4>1. log[p] \in Seq(Message) /\ log'[p] = Append(log[p], n)
        BY <1>1, <3>2 DEF Publish, KafkaTypeOK
      <4> QED
        BY <4>1
    <3> QED
      BY <3>1, <3>2
  <2>3. Decided' \subseteq Published'
    <3>1. ASSUME NEW r \in Published PROVE r \in Published'
      BY <2>2, <3>1, SMTT(20) DEF Published
    <3> QED
      BY <2>1, <3>1 DEF Ordered, Decided
  <2>4. DecidedInOrder'
    <3> SUFFICES ASSUME NEW p \in Partition, NEW i \in 1..Len(log'[p]), NEW j \in 1..Len(log'[p]),
                        NEW x \in 1..Len(results), i < j, results[x] = log'[p][j]
                 PROVE  \/ \E y \in 1..(x - 1) : results[y] = log'[p][i]
                        \/ log'[p][i] \in dead \cup lost
      BY <2>1 DEF DecidedInOrder
    <3>1. results[x] # n
      BY <2>1 DEF Ordered, Decided
    <3>2. j \in 1..Len(log[p]) /\ log'[p][j] = log[p][j]
      BY <2>2, <3>1
    <3>3. i \in 1..Len(log[p]) /\ log'[p][i] = log[p][i]
      BY <2>2, <3>2
    <3> QED
      BY <3>2, <3>3 DEF Ordered, DecidedInOrder
  <2> QED
    BY <2>3, <2>4 DEF Ordered
<1>2. CASE Send
  <2>1. CASE results' = results
    BY <1>2, <2>1, SameDecisions DEF Send
  <2>2. CASE results' = Append(results, work)
    <3>1. /\ work # None /\ work \in Message
          /\ log' = log /\ dead' = dead /\ lost' = lost
      BY <1>2 DEF Send, KafkaTypeOK
    <3>2. /\ Len(results') = Len(results) + 1 /\ results'[Len(results) + 1] = work
          /\ \A x \in 1..Len(results) : results'[x] = results[x]
      BY <1>t, <2>2, <3>1
    <3>3. Decided' \subseteq Published'
      <4>1. Decided' = Decided \cup {work}
        BY <1>t, <2>2, <3>1, RangeAppend DEF Decided
      <4>2. work \in Published
        BY <3>1 DEF Entering, Behind, Published
      <4> QED
        BY <3>1, <4>1, <4>2 DEF Ordered, Published
    <3>4. DecidedInOrder'
      <4> SUFFICES ASSUME NEW p \in Partition, NEW i \in 1..Len(log[p]), NEW j \in 1..Len(log[p]),
                          NEW x \in 1..Len(results'), i < j, results'[x] = log[p][j]
                   PROVE  \/ \E y \in 1..(x - 1) : results'[y] = log[p][i]
                          \/ log[p][i] \in dead \cup lost
        BY <3>1 DEF DecidedInOrder
      <4>1. CASE x \in 1..Len(results)
        <5>1. \/ \E y \in 1..(x - 1) : results[y] = log[p][i]
              \/ log[p][i] \in dead \cup lost
          BY <3>2, <4>1 DEF Ordered, DecidedInOrder
        <5>2. \A y \in 1..(x - 1) : y \in 1..Len(results)
          BY <1>t, <4>1
        <5> QED
          BY <3>2, <5>1, <5>2
      <4>2. CASE x = Len(results) + 1
        <5>1. log[p][i] \in Decided \cup dead \cup lost
          BY <3>1, <3>2, <4>2, BeforeWork
        <5>2. x - 1 = Len(results)
          BY <1>t, <4>2
        <5> QED
          BY <3>2, <5>1, <5>2 DEF Decided
      <4> QED
        BY <1>t, <3>2, <4>1, <4>2
    <3> QED
      BY <3>3, <3>4 DEF Ordered
  <2> QED
    BY <1>2, <2>1, <2>2 DEF Send
<1>3. CASE ~Send /\ ~\E n \in Message : Publish(n)
  BY <1>3, SameDecisions
     DEF KafkaNext, kafkaVars, broker, StartService, Connect, Commit, Take, Process, SendDlq, Raise,
         StopService, CrashService, Leave
<1> QED
  BY <1>1, <1>2, <1>3

\* The decisions of one user come in the order of the requests, over failed
\* sends, redelivery and crashes, for any requests.
THEOREM DecisionsInOrder == KafkaSpec => []DecidedInOrder
<1>1. KafkaInit => Once /\ Entering /\ NoneSkipped /\ Ordered
  BY KafkaConstants
     DEF KafkaInit, Once, Entering, EnteredOnce, NoneSkipped, Behind, Ordered, DecidedInOrder,
         Decided, Published
<1>2. Ordered => DecidedInOrder
  BY DEF Ordered
<1> QED
  BY <1>1, <1>2, OffsetsInit, NextOffsets, NextOnce, NextEntering, NextSkips, NextOrdered,
     KafkaTypeCorrect, PTL DEF KafkaSpec

-----------------------------------------------------------------------------
(***************************************************************************)
(* The evaluation, for any requests and threads                            *)
(***************************************************************************)

LEMMA TxFields ==
    ASSUME NEW r \in Request
    PROVE  /\ Tx[r].user \in User \cup {NoUser} /\ Tx[r].device \in Device \cup {NoDevice}
           /\ Tx[r].amount \in Nat /\ Tx[r].score \in Nat
           /\ (Known(r) => Tx[r].user \in User)
<1>1. Tx[r] \in Say BY EvaluationConstants
<1>2. \A n \in Score : n \in Nat BY SMT DEF Score
<1>3. /\ Tx[r].user \in User \cup {NoUser} /\ Tx[r].device \in Device \cup {NoDevice}
      /\ Tx[r].amount \in Nat /\ Tx[r].score \in Score
  BY <1>1 DEF Say
<1> QED BY <1>2, <1>3 DEF Known

LEMMA FiniteParts ==
    /\ \A S \in SUBSET Request : IsFiniteSet(S) /\ Cardinality(S) \in Nat
    /\ \A S \in SUBSET User : IsFiniteSet(S) /\ Cardinality(S) \in Nat
BY EvaluationConstants, FS_Subset, FS_CardinalityType

LEMMA SeenType ==
    ASSUME TypeOK, NEW r \in Request
    PROVE  Seen(r) \in SUBSET User
<1>1. CASE Known(r) /\ Tx[r].device # NoDevice
  BY <1>1, TxFields DEF Seen, TypeOK
<1>2. CASE ~(Known(r) /\ Tx[r].device # NoDevice)
  BY <1>2 DEF Seen
<1> QED BY <1>1, <1>2

\* What a rule reads is a context, in the sense of module Policy.
LEMMA CtxType ==
    ASSUME TypeOK, NEW r \in Request
    PROVE  Ctx(r) \in Context
<1> DEFINE u == Tx[r].user
<1>1. Cardinality(Seen(r)) \in Nat BY SeenType, FiniteParts
<1>2. Never \in Nat BY SMT DEF Never
<1>3. (IF Known(r) THEN Cardinality(history[u]) ELSE 0) \in Nat
  BY TxFields, FiniteParts DEF TypeOK
<1>4. (IF Known(r) THEN spent[u] ELSE 0) \in Nat
  BY TxFields DEF TypeOK
<1>5. (IF Known(r) THEN Cardinality(last1[u]) ELSE 0) \in Nat
  BY TxFields, FiniteParts DEF TypeOK
<1>6. (IF Known(r) THEN Cardinality(last5[u]) ELSE 0) \in Nat
  BY TxFields, FiniteParts DEF TypeOK
<1>7. (~Evaluated(r)) \in BOOLEAN BY DEF Evaluated
<1>8. (u \in blacklist) \in BOOLEAN OBVIOUS
<1>9. enabled \in SUBSET RuleId /\ 0 \in Nat BY DEF TypeOK
<1> QED BY Zenon, <1>1, <1>2, <1>3, <1>4, <1>5, <1>6, <1>7, <1>8, <1>9
        DEF Ctx, Stored, Context

LEMMA MarkType ==
    ASSUME TypeOK, NEW r \in Request, Mark(r)
    PROVE  devices' \in [Device -> SUBSET User]
BY SeenType DEF Mark, TypeOK

LEMMA RulesNamed ==
    ASSUME NEW t, NEW c \in Context
    PROVE  RuleAction(t, c).ids \in SUBSET (RuleId \cup {"WHITELIST"})
BY FiredIsRules DEF RuleAction

LEMMA DecisionType ==
    ASSUME TypeOK, NEW r \in Request
    PROVE  /\ ManagerAction(Tx[r], Ctx(r)) \in Action
           /\ ApplyThreshold(ManagerAction(Tx[r], Ctx(r)), Tx[r].score,
                             ClassifyFraudType(ids[r])) \in Action
BY CtxType, TxFields, ManagerActionMax, ThresholdStrengthens
-----------------------------------------------------------------------------
LEMMA InitType == Init => TypeOK
BY EvaluationConstants DEF Init, TypeOK, Stage, Nothing

LEMMA StepType ==
    ASSUME TypeOK, NEW r \in Request,
           \/ Start(r) \/ Rules(r) \/ Decide(r) \/ Push(r) \/ Ingest(r)
           \/ Record(r) \/ Register(r) \/ Route(r) \/ Tell(r) \/ Summarise(r)
    PROVE  TypeOK'
<1>0. \A s \in Stage : [pc EXCEPT ![r] = s] \in [Request -> Stage] BY DEF TypeOK
<1>1. CASE Start(r)
  BY <1>1, <1>0 DEF Start, Goto, TypeOK, lists, past, Stage
<1>2. CASE Rules(r)
  <2>1. RuleAction(Tx[r], Ctx(r)).ids \in SUBSET (RuleId \cup {"WHITELIST"})
    BY CtxType, RulesNamed
  <2> QED BY <1>2, <1>0, <2>1, MarkType DEF Rules, Goto, TypeOK, lists, past, Stage
<1>3. CASE Decide(r)
  BY <1>3, <1>0, DecisionType, MarkType DEF Decide, Goto, TypeOK, lists, past, Stage
<1>4. CASE Push(r)
  BY <1>4, <1>0, MarkType DEF Push, PushFor, Goto, TypeOK, lists, past, Stage, Nothing
<1>5. CASE Ingest(r)
  <2>1. CASE Known(r)
    <3>1. Tx[r].user \in User /\ Tx[r].amount \in Nat BY <2>1, TxFields
    <3> QED BY <1>5, <1>0, <2>1, <3>1, SMTT(20) DEF Ingest, Remember, Goto, TypeOK, lists, Stage
  <2>2. CASE ~Known(r)
    BY <1>5, <1>0, <2>2 DEF Ingest, Goto, TypeOK, lists, past, Stage
  <2> QED BY <2>1, <2>2
<1>6. CASE Record(r)
  BY <1>6, <1>0 DEF Record, Goto, TypeOK, lists, past, Stage
<1>7. CASE Register(r)
  BY <1>7, <1>0 DEF Register, Goto, TypeOK, lists, past, Stage
<1>8. CASE Route(r)
  BY <1>8, <1>0, DecisionType, MarkType DEF Route, Goto, TypeOK, lists, past, Stage
<1>9. CASE Tell(r)
  BY <1>9, <1>0, DecisionType, MarkType DEF Tell, Goto, TypeOK, lists, past, Stage
<1>10. CASE Summarise(r)
  BY <1>10, <1>0, MarkType DEF Summarise, Goto, TypeOK, lists, past, Stage
<1> QED BY <1>1, <1>2, <1>3, <1>4, <1>5, <1>6, <1>7, <1>8, <1>9, <1>10

LEMMA OthersType ==
    ASSUME TypeOK,
           \/ \E u \in User : Blacklist(u) \/ Whitelist(u)
           \/ \E id \in RuleId : Toggle(id)
           \/ \E u \in User, r \in Request : LeaveMinute(u, r) \/ LeaveFive(u, r)
           \/ \E d \in Device, u \in User : Forget(d, u)
           \/ UNCHANGED vars
    PROVE  TypeOK'
<1>0. MaxChanges \in Nat BY EvaluationConstants
<1>1. CASE \E u \in User : Blacklist(u) \/ Whitelist(u)
  BY <1>0, <1>1 DEF Blacklist, Whitelist, Change, Flip, TypeOK, local, past
<1>2. CASE \E id \in RuleId : Toggle(id)
  BY <1>0, <1>2 DEF Toggle, Change, Flip, TypeOK, local, past
<1>3. CASE \E u \in User, r \in Request : LeaveMinute(u, r) \/ LeaveFive(u, r)
  <2>1. PICK u \in User, r \in Request : LeaveMinute(u, r) \/ LeaveFive(u, r) BY <1>3
  <2>2. CASE LeaveMinute(u, r) BY <2>2 DEF LeaveMinute, TypeOK, local, lists
  <2>3. CASE LeaveFive(u, r) BY <2>3 DEF LeaveFive, TypeOK, local, lists
  <2> QED BY <2>1, <2>2, <2>3
<1>4. CASE \E d \in Device, u \in User : Forget(d, u)
  BY <1>4 DEF Forget, TypeOK, local, lists, past
<1>5. CASE UNCHANGED vars
  BY <1>5 DEF TypeOK, vars, local, lists, past
<1> QED BY <1>1, <1>2, <1>3, <1>4, <1>5

\* The stores and the requests in flight keep their types.
THEOREM TypeCorrect == Spec => []TypeOK
<1>1. TypeOK /\ [Next]_vars => TypeOK'
  BY StepType, OthersType DEF Next
<1> QED BY InitType, <1>1, PTL DEF Spec
-----------------------------------------------------------------------------
(***************************************************************************)
(* The verdict                                                             *)
(***************************************************************************)
Early == {"new", "rules", "decide"}

\* A request has no verdict before it decides, nothing in the audit trail
\* before it records, no step-up entry before it registers; and after it has
\* decided the verdict is an action no weaker than the model's.
VerdictInv ==
    \A r \in Request :
        /\ pc[r] \in Early => final[r] = Nothing
        /\ pc[r] \notin Early =>
              final[r] \in Action /\ Rank(final[r]) >= Rank(ModelAction(Tx[r]))
        /\ pc[r] \in Early \cup {"push", "ingest", "record"} => audited[r] = Nothing
        /\ pc[r] \notin Early \cup {"push", "ingest", "record"} => audited[r] = final[r]
        /\ pc[r] \in Early \cup {"push", "ingest", "record", "register"} => pending[r] = Nothing
        /\ pending[r] # Nothing =>
              pending[r] = final[r] /\ final[r] \in {"REVIEW", "SOFT_REVIEW"}

LEMMA DecisionStrong ==
    ASSUME TypeOK, NEW r \in Request
    PROVE  LET d == ApplyThreshold(ManagerAction(Tx[r], Ctx(r)), Tx[r].score,
                                   ClassifyFraudType(ids[r]))
           IN  d \in Action /\ Rank(d) >= Rank(ModelAction(Tx[r]))
<1> DEFINE m == ManagerAction(Tx[r], Ctx(r))
           d == ApplyThreshold(m, Tx[r].score, ClassifyFraudType(ids[r]))
<1>1. m \in Action /\ Rank(m) >= Rank(ModelAction(Tx[r]))
  BY CtxType, ManagerActionMax
<1>2. d \in Action /\ Rank(d) >= Rank(m)
  BY <1>1, TxFields, ThresholdStrengthens
<1>3. \A a : Rank(a) \in Nat BY DEF Rank
<1>4. Rank(d) >= Rank(ModelAction(Tx[r])) BY <1>1, <1>2, <1>3
<1> QED BY <1>2, <1>4

LEMMA StepVerdict ==
    ASSUME TypeOK, VerdictInv, NEW r \in Request,
           \/ Start(r) \/ Rules(r) \/ Decide(r) \/ Push(r) \/ Ingest(r)
           \/ Record(r) \/ Register(r) \/ Route(r) \/ Tell(r) \/ Summarise(r)
    PROVE  VerdictInv'
<1>0. DOMAIN pc = Request /\ DOMAIN final = Request /\ DOMAIN audited = Request
      /\ DOMAIN pending = Request
  BY DEF TypeOK
<1>1. CASE Start(r) BY <1>1, <1>0 DEF Start, Goto, VerdictInv, Early
<1>2. CASE Rules(r) BY <1>2, <1>0 DEF Rules, Goto, VerdictInv, Early
<1>3. CASE Decide(r)
  <2> DEFINE d == ApplyThreshold(ManagerAction(Tx[r], Ctx(r)), Tx[r].score,
                                 ClassifyFraudType(ids[r]))
  <2>1. d \in Action /\ Rank(d) >= Rank(ModelAction(Tx[r])) BY DecisionStrong
  <2>2. final' = [final EXCEPT ![r] = d] BY <1>3 DEF Decide
  <2> HIDE DEF d
  <2> QED BY <1>3, <1>0, <2>1, <2>2 DEF Decide, Goto, VerdictInv, Early
<1>4. CASE Push(r) BY <1>4, <1>0 DEF Push, Goto, VerdictInv, Early
<1>5. CASE Ingest(r) BY <1>5, <1>0 DEF Ingest, Goto, VerdictInv, Early
<1>6. CASE Record(r) BY <1>6, <1>0 DEF Record, Goto, VerdictInv, Early
<1>7. CASE Register(r) BY <1>7, <1>0 DEF Register, Goto, VerdictInv, Early
<1>8. CASE Route(r) BY <1>8, <1>0 DEF Route, Goto, VerdictInv, Early
<1>9. CASE Tell(r) BY <1>9, <1>0 DEF Tell, Goto, VerdictInv, Early
<1>10. CASE Summarise(r) BY <1>10, <1>0 DEF Summarise, Goto, VerdictInv, Early
<1> QED BY <1>1, <1>2, <1>3, <1>4, <1>5, <1>6, <1>7, <1>8, <1>9, <1>10

\* Administrators and time leave the requests' own state alone.
Others ==
    \/ \E u \in User : Blacklist(u) \/ Whitelist(u)
    \/ \E id \in RuleId : Toggle(id)
    \/ \E u \in User, r \in Request : LeaveMinute(u, r) \/ LeaveFive(u, r)
    \/ \E d \in Device, u \in User : Forget(d, u)
    \/ UNCHANGED vars

LEMMA OthersLocal ==
    ASSUME Others
    PROVE  UNCHANGED <<pc, ids, final, audited, pending>>
BY DEF Others, Blacklist, Whitelist, Toggle, Change, LeaveMinute, LeaveFive, Forget,
       vars, local

LEMMA NextSplit ==
    ASSUME [Next]_vars
    PROVE  \/ \E r \in Request :
                \/ Start(r) \/ Rules(r) \/ Decide(r) \/ Push(r) \/ Ingest(r)
                \/ Record(r) \/ Register(r) \/ Route(r) \/ Tell(r) \/ Summarise(r)
           \/ Others
BY DEF Next, Others

LEMMA VerdictHolds == Spec => []VerdictInv
<1>1. Init => VerdictInv BY DEF Init, VerdictInv, Early, Nothing
<1>2. TypeOK /\ VerdictInv /\ [Next]_vars => VerdictInv'
  <2>1. ASSUME VerdictInv, Others PROVE VerdictInv'
    BY <2>1, OthersLocal DEF VerdictInv
  <2> QED BY <2>1, StepVerdict, NextSplit
<1> QED BY <1>1, <1>2, TypeCorrect, PTL DEF Spec

\* What is audited, answered and opened for step-up is one verdict.
THEOREM VerdictIsOne == Spec => []OneVerdict
<1>1. VerdictInv => OneVerdict
  BY DEF VerdictInv, OneVerdict, Early, Action, Nothing
<1> QED BY <1>1, VerdictHolds, PTL

\* No verdict is weaker than what the model asks for.
THEOREM ModelStands == Spec => []ModelNotWeakened
<1>1. TypeOK /\ VerdictInv => ModelNotWeakened
  BY DEF VerdictInv, ModelNotWeakened
<1> QED BY <1>1, TypeCorrect, VerdictHolds, PTL
-----------------------------------------------------------------------------
(***************************************************************************)
(* The lists                                                               *)
(***************************************************************************)
\* A request in flight since the last change took the rules' names, and will
\* decide or has decided, by the lists as they stand.
ListsInv ==
    \A r \in steady :
        /\ pc[r] = "decide" /\ Known(r) /\ Tx[r].user \in whitelist => ids[r] = {"WHITELIST"}
        /\ pc[r] \notin Early /\ Known(r) =>
              /\ Tx[r].user \in whitelist => final[r] = ModelAction(Tx[r])
              /\ Tx[r].user \in blacklist \ whitelist /\ "BLACKLIST" \in enabled
                  => final[r] = "BLOCK"

\* No fraud type is read off the name WHITELIST, and no score reaches the bar
\* of a normal transaction.
LEMMA WhitelistDecides ==
    ASSUME TypeOK, NEW r \in Request, Known(r), Tx[r].user \in whitelist
    PROVE  /\ RuleAction(Tx[r], Ctx(r)).ids = {"WHITELIST"}
           /\ ApplyThreshold(ManagerAction(Tx[r], Ctx(r)), Tx[r].score,
                             ClassifyFraudType({"WHITELIST"})) = ModelAction(Tx[r])
<1>1. Ctx(r).whitelisted BY DEF Ctx, Stored, Evaluated
<1>2. /\ RuleAction(Tx[r], Ctx(r)).action = "PASS"
      /\ RuleAction(Tx[r], Ctx(r)).ids = {"WHITELIST"}
  BY <1>1 DEF RuleAction
<1>3. ManagerAction(Tx[r], Ctx(r)) = ModelAction(Tx[r])
  BY <1>2, BlockIsTop, ModelActionType DEF ManagerAction
<1>4. ClassifyFraudType({"WHITELIST"}) = "NORMAL"
  BY DEF ClassifyFraudType, AmountRules, AnomalyRules
<1>5. Tx[r].score \in Score BY EvaluationConstants DEF Say
<1>6. \A n \in Score : ~(n >= 1010) BY SMT DEF Score
<1> QED BY <1>2, <1>3, <1>4, <1>5, <1>6 DEF ApplyThreshold, BlockThreshold

LEMMA BlacklistDecides ==
    ASSUME TypeOK, NEW r \in Request, Known(r), NEW type,
           Tx[r].user \in blacklist \ whitelist, "BLACKLIST" \in enabled
    PROVE  ApplyThreshold(ManagerAction(Tx[r], Ctx(r)), Tx[r].score, type) = "BLOCK"
<1>1. ~Ctx(r).whitelisted /\ Ctx(r).blacklisted /\ Ctx(r).enabled = enabled
  BY DEF Ctx, Stored, Evaluated
<1>2. "BLACKLIST" \in Fired(Tx[r], Ctx(r))
  BY <1>1 DEF Fired, Fires, FiresOnLookup
<1>3. Asks(Ctx(r))["BLACKLIST"] = "BLOCK" BY DEF Asks, RuleId
<1>4. RuleAction(Tx[r], Ctx(r)).action = "BLOCK"
  BY <1>1, <1>2, <1>3 DEF RuleAction, Strongest
<1>5. ManagerAction(Tx[r], Ctx(r)) = "BLOCK"
  BY <1>4, BlockIsTop, ModelActionType DEF ManagerAction
<1> QED BY <1>5 DEF ApplyThreshold

LEMMA StepLists ==
    ASSUME TypeOK, ListsInv, NEW r \in Request,
           \/ Start(r) \/ Rules(r) \/ Decide(r) \/ Push(r) \/ Ingest(r)
           \/ Record(r) \/ Register(r) \/ Route(r) \/ Tell(r) \/ Summarise(r)
    PROVE  ListsInv'
<1>0. /\ DOMAIN pc = Request /\ DOMAIN final = Request /\ DOMAIN ids = Request
      /\ steady \subseteq Request
  BY DEF TypeOK
<1>1. CASE Start(r) BY <1>1, <1>0 DEF Start, Goto, ListsInv, Early, lists, Known
<1>2. CASE Rules(r)
  <2> DEFINE n == RuleAction(Tx[r], Ctx(r)).ids
  <2>1. Known(r) /\ Tx[r].user \in whitelist => n = {"WHITELIST"} BY WhitelistDecides
  <2>2. ids' = [ids EXCEPT ![r] = n] BY <1>2 DEF Rules
  <2> HIDE DEF n
  <2> QED BY <1>2, <1>0, <2>1, <2>2 DEF Rules, Goto, ListsInv, Early, lists, Known
<1>3. CASE Decide(r)
  <2> DEFINE d == ApplyThreshold(ManagerAction(Tx[r], Ctx(r)), Tx[r].score,
                                 ClassifyFraudType(ids[r]))
  <2>1. r \in steady /\ Known(r) /\ Tx[r].user \in whitelist => d = ModelAction(Tx[r])
    <3>1. r \in steady /\ Known(r) /\ Tx[r].user \in whitelist => ids[r] = {"WHITELIST"}
      BY <1>3 DEF Decide, ListsInv
    <3> QED BY <3>1, WhitelistDecides
  <2>2. Known(r) /\ Tx[r].user \in blacklist \ whitelist /\ "BLACKLIST" \in enabled
           => d = "BLOCK"
    BY BlacklistDecides
  <2>3. final' = [final EXCEPT ![r] = d] BY <1>3 DEF Decide
  <2> HIDE DEF d
  <2> QED BY <1>3, <1>0, <2>1, <2>2, <2>3 DEF Decide, Goto, ListsInv, Early, lists, Known
<1>4. CASE Push(r) BY <1>4, <1>0 DEF Push, Goto, ListsInv, Early, lists, Known
<1>5. CASE Ingest(r) BY <1>5, <1>0 DEF Ingest, Goto, ListsInv, Early, lists, Known
<1>6. CASE Record(r) BY <1>6, <1>0 DEF Record, Goto, ListsInv, Early, lists, Known
<1>7. CASE Register(r) BY <1>7, <1>0 DEF Register, Goto, ListsInv, Early, lists, Known
<1>8. CASE Route(r) BY <1>8, <1>0 DEF Route, Goto, ListsInv, Early, lists, Known
<1>9. CASE Tell(r) BY <1>9, <1>0 DEF Tell, Goto, ListsInv, Early, lists, Known
<1>10. CASE Summarise(r)
  BY <1>10, <1>0 DEF Summarise, Goto, ListsInv, Early, lists, Known
<1> QED BY <1>1, <1>2, <1>3, <1>4, <1>5, <1>6, <1>7, <1>8, <1>9, <1>10

LEMMA OthersLists == ASSUME ListsInv, Others PROVE ListsInv'
<1>1. CASE steady' = {} BY <1>1 DEF ListsInv
<1>2. CASE UNCHANGED <<pc, ids, final, blacklist, whitelist, enabled, steady>>
  BY <1>2 DEF ListsInv, Known
<1>3. steady' = {} \/ UNCHANGED <<blacklist, whitelist, enabled, steady>>
  BY DEF Others, Blacklist, Whitelist, Toggle, Change, LeaveMinute, LeaveFive, Forget,
         vars, lists
<1> QED BY <1>1, <1>2, <1>3, OthersLocal

\* A list that does not change while a request is in flight decides it.
THEOREM ListsDecide == Spec => []ListsObeyed
<1>1. Init => ListsInv BY DEF Init, ListsInv
<1>2. TypeOK /\ ListsInv /\ [Next]_vars => ListsInv'
  BY StepLists, OthersLists, NextSplit
<1>3. ListsInv => ListsObeyed BY DEF ListsInv, ListsObeyed, Early
<1> QED BY <1>1, <1>2, <1>3, TypeCorrect, PTL DEF Spec
-----------------------------------------------------------------------------
(***************************************************************************)
(* The velocity                                                            *)
(***************************************************************************)
\* Requests that were let through and are about to enter the window of u.
Admitted(u) ==
    {r \in Request : pc[r] \in {"push", "ingest"} /\ Tx[r].user = u /\ final[r] # "BLOCK"}

\* Where no list and no rule changes, a request that is let through finds at
\* most two in the window, and at most Threads are on their way to it.
VelocityInv ==
    Changes = {} =>
        /\ whitelist = {} /\ enabled = RuleId
        /\ Cardinality(InFlight) <= Threads
        /\ \A u \in User : Cardinality(Passed(u) \cup Admitted(u)) <= 2 + Threads

LEMMA SmallerSet ==
    ASSUME NEW S \in SUBSET Request, NEW T \in SUBSET S
    PROVE  Cardinality(T) <= Cardinality(S)
BY FiniteParts, FS_Subset

LEMMA UnionBound ==
    ASSUME NEW S \in SUBSET Request, NEW T \in SUBSET Request
    PROVE  Cardinality(S \cup T) <= Cardinality(S) + Cardinality(T)
<1>1. IsFiniteSet(S) /\ IsFiniteSet(T) BY FiniteParts
<1>2. Cardinality(S \cup T) = Cardinality(S) + Cardinality(T) - Cardinality(S \cap T)
  BY <1>1, FS_Union
<1>3. Cardinality(S) \in Nat /\ Cardinality(T) \in Nat /\ Cardinality(S \cap T) \in Nat
  BY FiniteParts
<1> QED BY <1>2, <1>3

\* A user whose window holds three is blocked.
LEMMA VelocityBlocks ==
    ASSUME TypeOK, NEW r \in Request, Known(r), whitelist = {}, enabled = RuleId,
           ~(Cardinality(last5[Tx[r].user]) <= 2), NEW type
    PROVE  ApplyThreshold(ManagerAction(Tx[r], Ctx(r)), Tx[r].score, type) = "BLOCK"
<1> DEFINE u == Tx[r].user
<1>1. u \in User BY TxFields
<1>2. last5[u] \in SUBSET Request /\ history[u] \in SUBSET Request /\ last5[u] \subseteq history[u]
  BY <1>1 DEF TypeOK
<1>3. /\ Cardinality(last5[u]) \in Nat /\ Cardinality(history[u]) \in Nat
      /\ Cardinality(last5[u]) <= Cardinality(history[u])
  BY <1>2, FiniteParts, SmallerSet
<1>4. /\ ~Ctx(r).whitelisted /\ Ctx(r).enabled = RuleId
      /\ Ctx(r).count = Cardinality(history[u]) /\ Ctx(r).v5 = Cardinality(last5[u])
  BY DEF Ctx, Stored, Evaluated
<1>5. Ctx(r).count > 0 /\ Ctx(r).v5 >= 3 BY <1>3, <1>4
<1>6. "VELOCITY_FREQ" \in Fired(Tx[r], Ctx(r))
  BY <1>4, <1>5 DEF Fired, Fires, FiresOnProfile, RuleId
<1>7. Asks(Ctx(r))["VELOCITY_FREQ"] = "BLOCK" BY DEF Asks, RuleId
<1>8. RuleAction(Tx[r], Ctx(r)).action = "BLOCK"
  BY <1>4, <1>6, <1>7 DEF RuleAction, Strongest
<1>9. ManagerAction(Tx[r], Ctx(r)) = "BLOCK"
  BY <1>8, BlockIsTop, ModelActionType DEF ManagerAction
<1> QED BY <1>9 DEF ApplyThreshold

\* The bound survives a step that adds nothing to the requests counted.
LEMMA NoMore ==
    ASSUME VelocityInv, Changes = {}, NEW u \in User,
           (Passed(u) \cup Admitted(u))' \subseteq Passed(u) \cup Admitted(u),
           Passed(u) \cup Admitted(u) \in SUBSET Request,
           Threads \in Nat
    PROVE  Cardinality((Passed(u) \cup Admitted(u))') <= 2 + Threads
<1> DEFINE S == Passed(u) \cup Admitted(u)
           T == (Passed(u) \cup Admitted(u))'
<1>1. Cardinality(S) <= 2 + Threads BY DEF VelocityInv
<1>2. T \in SUBSET S /\ S \in SUBSET Request OBVIOUS
<1> HIDE DEF S, T
<1>3. Cardinality(T) <= Cardinality(S) BY <1>2, SmallerSet
<1>4. Cardinality(T) \in Nat /\ Cardinality(S) \in Nat BY <1>2, FiniteParts
<1>5. Cardinality(T) <= 2 + Threads BY <1>1, <1>3, <1>4
<1> QED BY <1>5 DEF T

LEMMA CountedType ==
    ASSUME TypeOK
    PROVE  /\ \A u \in User : Passed(u) \cup Admitted(u) \in SUBSET Request
           /\ InFlight \in SUBSET Request
           /\ Threads \in Nat
BY EvaluationConstants DEF TypeOK, Passed, Admitted, InFlight

\* Which requests are counted does not change while only these steps are taken.
LEMMA StepCounted ==
    ASSUME TypeOK, VerdictInv, NEW r \in Request, NEW u \in User,
           \/ Start(r) \/ Rules(r) \/ Push(r) \/ Ingest(r)
           \/ Record(r) \/ Register(r) \/ Route(r) \/ Tell(r) \/ Summarise(r)
    PROVE  (Passed(u) \cup Admitted(u))' \subseteq Passed(u) \cup Admitted(u)
<1>0. /\ DOMAIN pc = Request /\ DOMAIN last5 = User BY DEF TypeOK
<1>1. CASE Start(r)
  BY <1>1, <1>0 DEF Start, Goto, Passed, Admitted, past
<1>2. CASE Rules(r)
  BY <1>2, <1>0 DEF Rules, Goto, Passed, Admitted, past
<1>3. CASE Push(r)
  BY <1>3, <1>0 DEF Push, Goto, Passed, Admitted, past
<1>4. CASE Ingest(r)
  <2>1. CASE Known(r)
    <3>1. Tx[r].user \in User BY <2>1, TxFields
    <3>2. last5'[u] = IF u = Tx[r].user THEN last5[u] \cup {r} ELSE last5[u]
      BY <1>4, <1>0, <2>1, <3>1 DEF Ingest, Remember
    <3> QED BY <1>4, <1>0, <3>2 DEF Ingest, Goto, Passed, Admitted
  <2>2. CASE ~Known(r)
    BY <1>4, <1>0, <2>2 DEF Ingest, Goto, Passed, Admitted, past
  <2> QED BY <2>1, <2>2
<1>5. CASE Record(r)
  BY <1>5, <1>0 DEF Record, Goto, Passed, Admitted, past
<1>6. CASE Register(r)
  BY <1>6, <1>0 DEF Register, Goto, Passed, Admitted, past
<1>7. CASE Route(r)
  BY <1>7, <1>0 DEF Route, Goto, Passed, Admitted, past
<1>8. CASE Tell(r)
  BY <1>8, <1>0 DEF Tell, Goto, Passed, Admitted, past
<1>9. CASE Summarise(r)
  BY <1>9, <1>0 DEF Summarise, Goto, Passed, Admitted, past
<1> QED BY <1>1, <1>2, <1>3, <1>4, <1>5, <1>6, <1>7, <1>8, <1>9

\* A decision counts one more request only if its window held at most two.
LEMMA DecideCounted ==
    ASSUME TypeOK, VerdictInv, VelocityInv, Changes = {},
           NEW r \in Request, NEW u \in User, Decide(r)
    PROVE  Cardinality((Passed(u) \cup Admitted(u))') <= 2 + Threads
<1> DEFINE d == ApplyThreshold(ManagerAction(Tx[r], Ctx(r)), Tx[r].score,
                               ClassifyFraudType(ids[r]))
<1>0. /\ DOMAIN pc = Request /\ DOMAIN final = Request /\ final[r] = Nothing
      /\ Nothing # "BLOCK"
  BY DEF Decide, TypeOK, VerdictInv, Early, Nothing
<1>1. /\ final' = [final EXCEPT ![r] = d] /\ last5' = last5
      /\ pc' = [pc EXCEPT ![r] = "push"] /\ pc[r] = "decide"
  BY DEF Decide, Goto, past
<1>2. CASE d = "BLOCK" \/ Tx[r].user # u
  <2> HIDE DEF d
  <2>1. (Passed(u) \cup Admitted(u))' \subseteq Passed(u) \cup Admitted(u)
    BY <1>0, <1>1, <1>2 DEF Passed, Admitted
  <2> QED BY <2>1, CountedType, NoMore
<1>3. CASE d # "BLOCK" /\ Tx[r].user = u
  <2>1. Known(r) BY <1>3, EvaluationConstants DEF Known
  <2>2. Cardinality(last5[u]) <= 2
    BY <1>3, <2>1, VelocityBlocks DEF VelocityInv
  <2>3. last5[u] \in SUBSET Request BY DEF TypeOK
  <2>4. Cardinality(last5[u] \cup InFlight) <= 2 + Threads
    <3>1. Cardinality(last5[u] \cup InFlight) <= Cardinality(last5[u]) + Cardinality(InFlight)
      BY <2>3, CountedType, UnionBound
    <3>2. Cardinality(InFlight) <= Threads BY DEF VelocityInv
    <3>3. /\ Cardinality(last5[u] \cup InFlight) \in Nat /\ Cardinality(last5[u]) \in Nat
          /\ Cardinality(InFlight) \in Nat /\ Threads \in Nat
      BY <2>3, CountedType, FiniteParts
    <3> QED BY <2>2, <3>1, <3>2, <3>3
  <2>5. (Passed(u) \cup Admitted(u))' \subseteq last5[u] \cup InFlight
    BY <1>0, <1>1 DEF Passed, Admitted, InFlight
  <2> DEFINE S == last5[u] \cup InFlight
             T == (Passed(u) \cup Admitted(u))'
  <2>6. S \in SUBSET Request /\ T \in SUBSET S /\ Cardinality(S) <= 2 + Threads
    BY <2>3, <2>4, <2>5, CountedType
  <2> HIDE DEF S, T
  <2>7. Cardinality(T) <= Cardinality(S) BY <2>6, SmallerSet
  <2>8. Cardinality(T) \in Nat /\ Cardinality(S) \in Nat /\ Threads \in Nat
    BY <2>6, FiniteParts, CountedType
  <2>9. Cardinality(T) <= 2 + Threads BY <2>6, <2>7, <2>8
  <2> QED BY <2>9 DEF T
<1> QED BY <1>2, <1>3

LEMMA StepFlight ==
    ASSUME TypeOK, NEW r \in Request, Cardinality(InFlight) <= Threads,
           \/ Start(r) \/ Rules(r) \/ Decide(r) \/ Push(r) \/ Ingest(r)
           \/ Record(r) \/ Register(r) \/ Route(r) \/ Tell(r) \/ Summarise(r)
    PROVE  Cardinality(InFlight') <= Threads
<1>0. DOMAIN pc = Request /\ Threads \in Nat BY CountedType DEF TypeOK
<1>1. CASE Start(r)
  <2>1. InFlight' = InFlight \cup {r} /\ r \notin InFlight
    BY <1>0, <1>1 DEF Start, Goto, InFlight
  <2>2. Cardinality(InFlight') = Cardinality(InFlight) + 1
    BY <2>1, CountedType, FiniteParts, FS_AddElement
  <2>3. Cardinality(InFlight) < Threads BY <1>1 DEF Start
  <2>4. Cardinality(InFlight) \in Nat BY CountedType, FiniteParts
  <2> QED BY <1>0, <2>2, <2>3, <2>4
<1>2. CASE ~Start(r)
  <2>1. /\ InFlight' \in SUBSET InFlight
    BY <1>0, <1>2 DEF Rules, Decide, Push, Ingest, Record, Register, Route, Tell,
                       Summarise, Goto, InFlight
  <2>2. Cardinality(InFlight') <= Cardinality(InFlight)
    BY <2>1, CountedType, SmallerSet
  <2>3. Cardinality(InFlight) \in Nat /\ Cardinality(InFlight') \in Nat
    BY <2>1, CountedType, FiniteParts
  <2> QED BY <1>0, <2>2, <2>3
<1> QED BY <1>1, <1>2

LEMMA StepLeavesLists ==
    ASSUME NEW r \in Request,
           \/ Start(r) \/ Rules(r) \/ Decide(r) \/ Push(r) \/ Ingest(r)
           \/ Record(r) \/ Register(r) \/ Route(r) \/ Tell(r) \/ Summarise(r)
    PROVE  UNCHANGED <<whitelist, enabled>>
BY DEF Start, Rules, Decide, Push, Ingest, Record, Register, Route, Tell, Summarise, lists

LEMMA StepVelocity ==
    ASSUME TypeOK, VerdictInv, VelocityInv, NEW r \in Request,
           \/ Start(r) \/ Rules(r) \/ Decide(r) \/ Push(r) \/ Ingest(r)
           \/ Record(r) \/ Register(r) \/ Route(r) \/ Tell(r) \/ Summarise(r)
    PROVE  VelocityInv'
<1> SUFFICES ASSUME Changes = {} PROVE VelocityInv' BY DEF VelocityInv
<1>1. UNCHANGED <<whitelist, enabled>> BY StepLeavesLists
<1>2. Cardinality(InFlight') <= Threads BY StepFlight DEF VelocityInv
<1>3. ASSUME NEW u \in User
      PROVE  Cardinality((Passed(u) \cup Admitted(u))') <= 2 + Threads
  <2>1. CASE Decide(r) BY <2>1, DecideCounted
  <2>2. CASE ~Decide(r)
    <3>1. (Passed(u) \cup Admitted(u))' \subseteq Passed(u) \cup Admitted(u)
      BY <2>2, StepCounted
    <3> QED BY <3>1, CountedType, NoMore
  <2> QED BY <2>1, <2>2
<1> QED BY <1>1, <1>2, <1>3 DEF VelocityInv

LEMMA OthersVelocity ==
    ASSUME TypeOK, VelocityInv, Others PROVE VelocityInv'
<1> SUFFICES ASSUME Changes = {} PROVE VelocityInv' BY DEF VelocityInv
<1>1. UNCHANGED <<whitelist, enabled>>
  BY DEF Others, Blacklist, Whitelist, Toggle, Change, LeaveMinute, LeaveFive, Forget,
         vars, lists
<1>2. InFlight' = InFlight BY OthersLocal DEF InFlight
<1>3. ASSUME NEW u \in User
      PROVE  Cardinality((Passed(u) \cup Admitted(u))') <= 2 + Threads
  <2>1. last5'[u] \subseteq last5[u]
    BY DEF Others, Blacklist, Whitelist, Toggle, Change, LeaveMinute, LeaveFive, Forget,
           vars, past, TypeOK
  <2>2. (Passed(u) \cup Admitted(u))' \subseteq Passed(u) \cup Admitted(u)
    BY <2>1, OthersLocal DEF Passed, Admitted
  <2> QED BY <2>2, CountedType, NoMore
<1> QED BY <1>1, <1>2, <1>3 DEF VelocityInv

LEMMA InitVelocity == Init => VelocityInv
<1> SUFFICES ASSUME Init PROVE VelocityInv OBVIOUS
<1>1. InFlight = {} BY DEF Init, InFlight
<1>2. \A u \in User : Passed(u) \cup Admitted(u) = {} BY DEF Init, Passed, Admitted
<1>3. Threads \in Nat BY EvaluationConstants
<1>4. 0 <= Threads /\ 0 <= 2 + Threads BY <1>3
<1> QED BY <1>1, <1>2, <1>4, FS_EmptySet DEF Init, VelocityInv

\* However many requests there are, the window of a user never holds more
\* than two plus the number of threads that were let through.
THEOREM OvershootBounded == Spec => []VelocityOvershoot
<1>1. TypeOK /\ VerdictInv /\ VelocityInv /\ [Next]_vars => VelocityInv'
  BY StepVelocity, OthersVelocity, NextSplit
<1>2. TypeOK /\ VelocityInv => VelocityOvershoot
  <2> SUFFICES ASSUME TypeOK, VelocityInv, Changes = {}, NEW u \in User
               PROVE  Cardinality(Passed(u)) <= 2 + Threads
    BY DEF VelocityOvershoot
  <2>1. Cardinality(Passed(u)) <= Cardinality(Passed(u) \cup Admitted(u))
    BY CountedType, SmallerSet
  <2>2. Cardinality(Passed(u) \cup Admitted(u)) <= 2 + Threads BY DEF VelocityInv
  <2>3. /\ Cardinality(Passed(u)) \in Nat /\ Cardinality(Passed(u) \cup Admitted(u)) \in Nat
        /\ Threads \in Nat
    <3>1. Passed(u) \in SUBSET Request BY CountedType
    <3> QED BY <3>1, CountedType, FiniteParts
  <2> QED BY <2>1, <2>2, <2>3
<1> QED BY InitVelocity, <1>1, <1>2, TypeCorrect, VerdictHolds, PTL DEF Spec

=============================================================================
