------------------------------ MODULE Studies -------------------------------
(***************************************************************************)
(* Two studies of the research scripts. First that of approval at the      *)
(* edge, MECTransactionProcessor of fds_scripts/mec_simulation.py, its     *)
(* earlier copy under fds-research, which keeps no state, and              *)
(* run_simulation, which gives the same payments to two processors and     *)
(* compares them. Amounts are in units of 10,000 won, risks in hundredths, *)
(* loads in tenths, latencies in tenths of a ms; the random part of a      *)
(* latency is left out. Then, from the constant RowsOf on, that of         *)
(* federated learning, fds_scripts/federated_sim.py (the copy under fds-   *)
(* research differs in comments only): how rows are shared out to clients, *)
(* what is trained, the average of what the clients predict, the same      *)
(* average under masks, and what each client contributes. A row is its     *)
(* place after the shuffle, a proportion a number of tenths, a             *)
(* probability, a mask and a score a number of hundredths; what a forest   *)
(* predicts and how it scores is given, and noise on predictions is left   *)
(* out.                                                                    *)
(***************************************************************************)
EXTENDS Integers, Sequences, FiniteSets, FiniteSetsExt

CONSTANTS EdgeNodes,   \* _default_mec_nodes: [Node -> [region, base, load, step]]
          EdgePayments,    \* payments that the simulation generates
          MaxGenerated \* bound

Tier == <<"basic", "standard", "premium", "vip">>

\* DEFAULT_UAC_POLICIES
UacPolicy(single, daily, mfa, auto, risk) ==
    [single |-> single, daily |-> daily, mfa |-> mfa, auto |-> auto, risk |-> risk]
UacPolicies ==
    [t \in {Tier[i] : i \in 1..4} |->
        CASE t = "basic"    -> UacPolicy(50, 200, 30, 5, 60)
          [] t = "standard" -> UacPolicy(200, 1000, 100, 20, 70)
          [] t = "premium"  -> UacPolicy(1000, 5000, 500, 50, 75)
          [] t = "vip"      -> UacPolicy(5000, 20000, 2000, 200, 80)]

\* What run_simulation makes: a processor of the default nodes and one of no
\* node, and the earlier copy of the first.
Processor == {"mec", "cloud", "earlier"}
NodesGiven     == [p \in Processor |-> IF p = "cloud" THEN {} ELSE DOMAIN EdgeNodes]

ASSUME EdgeConstants ==
    /\ DOMAIN EdgeNodes # {}
    /\ \A n \in DOMAIN EdgeNodes : /\ EdgeNodes[n].base \in Nat /\ EdgeNodes[n].load \in 0..10
                                  /\ EdgeNodes[n].step \in Nat /\ EdgeNodes[n].place \in Nat
    /\ \A x \in EdgePayments : x.amount \in Nat /\ x.risk \in Nat /\ x.tier \in {Tier[i] : i \in 1..4}
    /\ MaxGenerated \in Nat

VARIABLES
    generated,   \* the payments, in order
    edgeLoad,    \* [Processor -> [Node -> current_load]]
    dailySpent,  \* [Processor -> [user -> _daily_spent]]
    approvals    \* [Processor -> ApprovalResult of each payment so far]

edgeVars == <<generated, edgeLoad, dailySpent, approvals>>

Spender == {p.user : p \in EdgePayments}

EdgeInit ==
    /\ generated = <<>>
    /\ edgeLoad = [p \in Processor |-> [n \in DOMAIN EdgeNodes |-> EdgeNodes[n].load]]
    /\ dailySpent = [p \in Processor |-> [u \in Spender |-> 0]]
    /\ approvals = [p \in Processor |-> <<>>]
-----------------------------------------------------------------------------
\* __init__: an empty list of nodes is as good as none given.
NodesAre(p) == IF NodesGiven[p] = {} THEN DOMAIN EdgeNodes ELSE NodesGiven[p]

\* effective_latency_ms, of a node with a load
EffectiveLatency(n, load) ==
    LET over == IF load > 5 THEN load - 5 ELSE 0 IN EdgeNodes[n].base * (10 + over * over)

\* The answer takes as long as the node, and an escalation the base latency of the
\* cloud in addition.
AnswerLatency(decision, n, load) ==
    EffectiveLatency(n, load) + (IF decision = "ESCALATED" THEN 1500 ELSE 0)

Least(nodes, key) == {n \in nodes : \A m \in nodes : key[n] <= key[m]}

\* _select_edge_node: of the nodes of the region the fastest, or the least
\* loaded of all; of equals, the first in the list.
SelectEdge(nodes, load, region) ==
    LET latency == [n \in nodes |-> EffectiveLatency(n, load[n])]
        near    == {n \in nodes : EdgeNodes[n].region = region}
        best    == IF near # {} THEN Least(near, latency) ELSE Least(nodes, load)
    IN  CHOOSE n \in best : \A m \in best : EdgeNodes[n].place <= EdgeNodes[m].place

\* process_transaction of both copies, from the limit of one payment on.
Approval(policy, amount, risk) ==
    IF amount > policy.single THEN "DENIED"
    ELSE IF amount <= policy.auto /\ risk < 30 THEN "APPROVED"
    ELSE IF amount >= policy.mfa THEN "MFA_REQUIRED"
    ELSE IF risk >= policy.risk THEN "ESCALATED" ELSE "APPROVED"

\* process_transaction: the limit of the day first.
WithinDay(spent, policy, amount, risk) ==
    IF spent + amount > policy.daily THEN "DENIED" ELSE Approval(policy, amount, risk)

\* The earlier copy, which knows of no day.
Earlier(spent, policy, amount, risk) == Approval(policy, amount, risk)

Decided(p, spent, policy, amount, risk) ==
    IF p = "earlier" THEN Earlier(spent, policy, amount, risk)
    ELSE WithinDay(spent, policy, amount, risk)

\* _update_state, of the user and of the node.
Charge(p, x, approved) ==
    dailySpent' = [dailySpent EXCEPT ![p][x.user] = IF approved THEN @ + x.amount ELSE @]
Burden(p, n, approved) ==
    edgeLoad' = [edgeLoad EXCEPT ![p][n] =
        IF approved THEN (IF @ + EdgeNodes[n].step > 10 THEN 10 ELSE @ + EdgeNodes[n].step) ELSE @]

\* process_transaction: p is given the next payment.
ProcessTransaction(p) ==
    LET x        == generated[Len(approvals[p]) + 1]
        node     == SelectEdge(NodesAre(p), edgeLoad[p], x.region)
        decision == Decided(p, dailySpent[p][x.user], UacPolicies[x.tier], x.amount, x.risk)
        updates  == decision = "APPROVED" /\ p # "earlier"
    IN  /\ Len(approvals[p]) < Len(generated)
        /\ approvals' = [approvals EXCEPT ![p] = Append(@,
               [decision |-> decision, node |-> node, latency |-> AnswerLatency(decision, node, edgeLoad[p][node])])]
        /\ Charge(p, x, updates) /\ Burden(p, node, updates)
        /\ UNCHANGED generated

\* generate_transactions: any user, tier, amount, risk and region.
GenerateTransaction ==
    /\ Len(generated) < MaxGenerated /\ \A p \in Processor : approvals[p] = <<>>
    /\ \E x \in EdgePayments : generated' = Append(generated, x)
    /\ UNCHANGED <<edgeLoad, dailySpent, approvals>>

\* The processors share nothing: run_simulation takes one after the other.
OneAfterOther == <<"mec", "cloud", "earlier">>
EdgeNext ==
    \/ GenerateTransaction
    \/ \E i \in 1..3 :
          /\ Len(generated) = MaxGenerated
          /\ \A j \in 1..(i - 1) : Len(approvals[OneAfterOther[j]]) = Len(generated)
          /\ ProcessTransaction(OneAfterOther[i])

EdgeSpec == EdgeInit /\ [][EdgeNext]_edgeVars
-----------------------------------------------------------------------------
\* run_simulation: percentiles of the latencies, of both copies; the median is
\* twice itself.  A list is sorted first, so that its k-th is the k-th smallest.
Nth(s, k) ==
    CHOOSE v \in {s[i] : i \in 1..Len(s)} :
       /\ Cardinality({i \in 1..Len(s) : s[i] < v}) < k
       /\ k <= Cardinality({i \in 1..Len(s) : s[i] <= v})

Median2(s) ==
    LET n == Len(s) IN IF n % 2 = 1 THEN 2 * Nth(s, (n + 1) \div 2) ELSE Nth(s, n \div 2) + Nth(s, n \div 2 + 1)
Percentile(s, k)        == Nth(s, (k * (Len(s) - 1)) \div 100 + 1)
EarlierPercentile(s, k) == Nth(s, (k * Len(s)) \div 100 + 1)

Latencies(p) == [i \in 1..Len(approvals[p]) |-> approvals[p][i].latency]
-----------------------------------------------------------------------------
EdgeTypeOK ==
    /\ generated \in Seq(EdgePayments) /\ Len(generated) <= MaxGenerated
    /\ edgeLoad \in [Processor -> [DOMAIN EdgeNodes -> 0..10]]
    /\ dailySpent \in [Processor -> [Spender -> Nat]]
    /\ approvals \in [Processor -> Seq([decision : {"APPROVED", "DENIED", "MFA_REQUIRED", "ESCALATED"},
                                       node : DOMAIN EdgeNodes, latency : Nat])]
    /\ \A p \in Processor : Len(approvals[p]) <= Len(generated)

\* Amounts and risks to compare with.
SomeAmount == {1, 5, 6, 20, 21, 29, 30, 100}
SomeRisk   == {0, 29, 30, 60, 69}

\* Whatever a user has spent: if a payment would be approved, then it would be
\* approved too of a smaller amount, and at a lower risk, and of a user of a
\* higher tier, although the checks of the amount, of the small amount, of MFA
\* and of the risk look at the two in turn (process_transaction).
ApprovalIsMonotone ==
    \A p \in Processor, x \in {generated[i] : i \in 1..Len(generated)} :
       LET spent == dailySpent[p][x.user]
           approved(t, a, r) == Decided(p, spent, UacPolicies[t], a, r) = "APPROVED"
           higher == {Tier[j] : j \in {k \in 1..4 : \E i \in 1..k : Tier[i] = x.tier}}
       IN  approved(x.tier, x.amount, x.risk) =>
               \A t \in higher, a \in SomeAmount \cup {x.amount}, r \in SomeRisk \cup {x.risk} :
                  a <= x.amount /\ r <= x.risk => approved(t, a, r)

\* What a user has had approved in the day is within the limit of the highest
\* of the tiers that the payments give (_daily_spent is of the user, the limit
\* of the payment's tier); and the processor that is to have no node decides,
\* and takes as long, as the one that has them (`mec_nodes or ...`).
DayIsKept ==
    /\ \A p \in {"mec", "cloud"}, u \in Spender :
          LET took == {i \in 1..Len(approvals[p]) : generated[i].user = u /\ approvals[p][i].decision = "APPROVED"}
              sum  == SumFunction([i \in took |-> generated[i].amount])
          IN  sum = dailySpent[p][u] /\ (took # {} => \E i \in took : sum <= UacPolicies[generated[i].tier].daily)
    /\ \A i \in 1..Len(approvals["cloud"]) : approvals["cloud"][i] = approvals["mec"][i]

\* The percentiles of three latencies or more are in order, of both copies.
PercentilesInOrder ==
    \A p \in Processor :
       LET s == Latencies(p)
           k95 == IF p = "earlier" THEN EarlierPercentile(s, 95) ELSE Percentile(s, 95)
           k99 == IF p = "earlier" THEN EarlierPercentile(s, 99) ELSE Percentile(s, 99)
       IN  Len(s) >= 3 => Median2(s) <= 2 * k95 /\ k95 <= k99

\* Approval at the edge is as in the cloud, which is to have no edge.
EdgeHolds == generated # <<>> => (ApprovalIsMonotone /\ DayIsKept /\ PercentilesInOrder)
-----------------------------------------------------------------------------
CONSTANTS RowsOf,       \* numbers of fraudulent and of normal rows: {[fraud, normal]}
          Federations,  \* numbers of clients
          Draws,        \* what a mask may be
          Predicted,    \* [client -> what its model predicts of the row at hand]
          ScoresOf,     \* {[coalition -> its AUC]}
          MaxPermuted, \* n_permutations
          Alphas        \* how many alphas are swept

ASSUME FedConstants ==
    /\ \A r \in RowsOf : r.fraud \in Nat /\ r.normal \in Nat
    /\ Federations \subseteq Nat \ {0} /\ Draws \subseteq Int
    /\ \A n \in Federations : \A i \in 1..n : Predicted[i] \in Int
    /\ \A s \in ScoresOf : \A n \in Federations : \A c \in (SUBSET (1..n)) \ {{}} : s[c] \in Int
    /\ MaxPermuted \in Nat \ {0} /\ Alphas \in Nat \ {0}

VARIABLES
    learns,     \* the stage of run_full_simulation
    rows,       \* the numbers of rows
    clients,    \* the number of clients
    even,       \* [client -> its rows], of partition_iid
    uneven,     \* the same, of partition_non_iid
    tenths,     \* [client -> its proportion]
    masks,      \* [<<i, j>> -> mask]
    aggregated, \* aggregated, times the number of rows
    score,      \* the scores of the coalitions
    perm,       \* the order of the clients in the permutation at hand
    entered,    \* how many of them are in the coalition
    prevScore,  \* prev_score
    shapley,    \* [client -> shapley_values]
    permuted,   \* permutations that are over
    swept       \* alphas that are over

fedVars == <<learns, rows, clients, even, uneven, tenths, masks, aggregated, score, perm, entered,
             prevScore, shapley, permuted, swept>>

PartsKept  == UNCHANGED <<rows, clients, even>>
UnevenKept == UNCHANGED <<uneven, tenths, swept>>
UnevenGone == uneven' = <<>> /\ tenths' = <<>> /\ UNCHANGED swept
MasksKept  == UNCHANGED <<masks, aggregated>>
MasksGone  == masks' = <<>> /\ aggregated' = 0
CciKept    == UNCHANGED <<score, perm, entered, prevScore, shapley, permuted>>

Fraud  == 1..rows.fraud
Normal == rows.fraud + 1..rows.fraud + rows.normal
Nobody == [fraud |-> {}, normal |-> {}]

FedInit ==
    /\ learns = "iid" /\ rows = [fraud |-> 0, normal |-> 0] /\ clients = 0
    /\ even = <<>> /\ uneven = <<>> /\ tenths = <<>> /\ masks = <<>> /\ aggregated = 0
    /\ score \in ScoresOf /\ perm = <<>> /\ entered = 0 /\ prevScore = 50
    /\ shapley = <<>> /\ permuted = 0 /\ swept = 0
-----------------------------------------------------------------------------
\* The i-th of n equal slices of the places 1..length; the last takes the rest.
Slice(i, n, length) ==
    LET chunk == length \div n
    IN  (i - 1) * chunk + 1 .. IF i < n THEN i * chunk ELSE length

\* train_local_model, and the second column of what the model predicts: a part
\* of one class has no second column.
Trains(parts) == \A i \in DOMAIN parts : parts[i].fraud # {} /\ parts[i].normal # {}

After(parts, stage) == learns' = IF Trains(parts) THEN stage ELSE "failed"

\* partition_iid, of rows in any order: at[i] is the row that comes i-th.
PartitionIid ==
    \E r \in RowsOf, n \in Federations :
       LET length == r.fraud + r.normal
       IN \E frauds \in kSubset(r.fraud, 1..length) :
             /\ learns = "iid" /\ rows' = r /\ clients' = n
             /\ even' = [i \in 1..n |-> [fraud  |-> Slice(i, n, length) \cap frauds,
                                         normal |-> Slice(i, n, length) \ frauds]]
             /\ After(even', "niid")
             /\ shapley' = [i \in 1..n |-> 0]
             /\ UnevenKept /\ MasksKept /\ UNCHANGED <<score, perm, entered, prevScore, permuted>>

\* max(1, int(len(fraud) * p))
ShareOf(t, i) == Max({1, (rows.fraud * t[i]) \div 10})

\* partition_non_iid: the fraudulent rows by the proportions, each slice from
\* where the last was to end, and the normal rows evenly.
PartitionNonIid(t) ==
    LET start(i) == SumFunction([j \in 1..i - 1 |-> ShareOf(t, j)])
    IN  [i \in 1..clients |->
           [fraud  |-> start(i) + 1 .. Min({start(i) + ShareOf(t, i), rows.fraud}),
            normal |-> Slice(i, clients, rows.normal)]]

Proportions == {t \in [1..clients -> 0..10] : SumFunction(t) = 10}

\* run_simulation, with the alpha that it has.
SplitUnevenly ==
    /\ learns = "niid"
    /\ \E t \in Proportions : tenths' = t /\ uneven' = PartitionNonIid(t)
    /\ After(uneven', "secagg")
    /\ PartsKept /\ MasksKept /\ CciKept /\ UNCHANGED swept

\* non_iid_alpha_sweep, of another alpha.
SweepAlpha ==
    /\ learns = "sweep" /\ swept < Alphas /\ swept' = swept + 1
    /\ \E t \in Proportions : tenths' = t /\ uneven' = PartitionNonIid(t)
    /\ After(uneven', IF swept' = Alphas THEN "saved" ELSE "sweep")
    /\ PartsKept /\ MasksKept /\ CciKept
-----------------------------------------------------------------------------
RowsWith(i) == Cardinality(even[i].fraud) + Cardinality(even[i].normal)
Length    == rows.fraud + rows.normal

\* fedavg_predict_proba, times the number of rows.
Average == SumFunction([i \in 1..clients |-> RowsWith(i) * Predicted[i]])

\* mask[j][i] = -mask[i][j], of i < j
Mirrored(drawn, i, j) == -drawn[<<j, i>>]

Apart(a, b) == IF a > b THEN a - b ELSE b - a

\* secagg_aggregate: every client draws a mask for every client, itself too.
SecAggregate ==
    /\ learns = "secagg"
    /\ \E drawn \in [{p \in (1..clients) \X (1..clients) : p[1] <= p[2]} -> Draws] :
          LET m == [p \in (1..clients) \X (1..clients) |->
                       IF p[1] <= p[2] THEN drawn[p] ELSE Mirrored(drawn, p[1], p[2])]
              masked(i) == Predicted[i] + SumFunction([j \in 1..clients |-> m[<<i, j>>]])
          IN  /\ masks' = m
              /\ aggregated' = SumFunction([i \in 1..clients |-> RowsWith(i) * masked(i)])
              /\ learns' = IF Apart(aggregated', Average) < 5 * Length THEN "cci" ELSE "failed"
    /\ PartsKept /\ UnevenGone /\ CciKept
-----------------------------------------------------------------------------
Orders == {p \in [1..clients -> 1..clients] : \A i, j \in 1..clients : p[i] = p[j] => i = j}

Mut_FromTheLast(last) == last

\* What a coalition scores before anybody is in it.
Empty(last) == 50

\* compute_cci_scores: another permutation.
Permute ==
    /\ learns = "cci" /\ permuted < MaxPermuted /\ perm = <<>>
    /\ \E p \in Orders : perm' = p
    /\ entered' = 0 /\ prevScore' = Empty(prevScore)
    /\ PartsKept /\ UnevenKept /\ MasksGone /\ UNCHANGED <<learns, score, shapley, permuted>>

\* ... and the next of its clients in the coalition.
EnterCoalition ==
    LET coalition == {perm[j] : j \in 1..entered + 1}
        whole     == entered + 1 = clients
    IN  /\ learns = "cci" /\ perm # <<>>
        /\ shapley' = [shapley EXCEPT ![perm[entered + 1]] = @ + score[coalition] - prevScore]
        /\ prevScore' = score[coalition]
        /\ entered' = entered + 1
        /\ permuted' = IF whole THEN permuted + 1 ELSE permuted
        /\ perm' = IF whole THEN <<>> ELSE perm
        /\ learns' = IF permuted' = MaxPermuted THEN "sweep" ELSE "cci"
        /\ PartsKept /\ UnevenKept /\ MasksKept /\ UNCHANGED score

FedNext ==
    \/ PartitionIid \/ SplitUnevenly \/ SecAggregate
    \/ Permute \/ EnterCoalition \/ SweepAlpha

FedSpec == FedInit /\ [][FedNext]_fedVars
-----------------------------------------------------------------------------
FedTypeOK ==
    /\ learns \in {"iid", "niid", "secagg", "cci", "sweep", "saved", "failed"}
    /\ rows \in RowsOf \cup {[fraud |-> 0, normal |-> 0]} /\ clients \in Federations \cup {0}
    /\ DOMAIN even \in {1..clients, {}} /\ DOMAIN uneven \in {1..clients, {}}
    /\ entered \in 0..clients /\ permuted \in 0..MaxPermuted /\ swept \in 0..Alphas

Once(parts, kind) == \A i, j \in DOMAIN parts : i # j => parts[i][kind] \cap parts[j][kind] = {}
Held(parts, kind) == UNION {parts[i][kind] : i \in DOMAIN parts}

\* No row is with two clients.  Of an even partition each is with one; of an
\* uneven one each normal row is, and fewer fraudulent rows than there are
\* clients are with none (int cuts off).  If every proportion is good for a
\* whole row, then every client has a fraudulent row to be trained on, although
\* each slice begins where the sizes before it add up to, not where the last
\* slice ended (partition_iid, partition_non_iid).
RowsAreShared ==
    /\ even # <<>> => /\ Once(even, "fraud") /\ Once(even, "normal")
                      /\ Cardinality(Held(even, "fraud") \cup Held(even, "normal")) = Length
    /\ uneven # <<>> =>
          /\ Once(uneven, "fraud") /\ Once(uneven, "normal")
          /\ Cardinality(Held(uneven, "normal")) = rows.normal
          /\ Held(uneven, "fraud") \subseteq Fraud
          /\ Cardinality(Fraud \ Held(uneven, "fraud")) < clients
          /\ (\A i \in 1..clients : rows.fraud * tenths[i] >= 10) =>
                 \A i \in 1..clients : uneven[i].fraud # {}

\* Between clients of equal parts the masks cancel out: what the server adds up
\* is off by the masks that the clients drew for themselves, and by nothing else
\* (secagg_aggregate).
OnlyOwnMasksStay ==
    (masks # <<>> /\ \A i, j \in 1..clients : RowsWith(i) = RowsWith(j)) =>
        aggregated - Average = RowsWith(1) * SumFunction([i \in 1..clients |-> masks[<<i, i>>]])

\* Whatever the order in which they enter, what the clients contribute adds up
\* to what the whole federation scores above none at all (compute_cci_scores).
SharesAddUp ==
    LET all == IF clients = 0 THEN 50 ELSE score[1..clients]
    IN  SumFunction(shapley)
            = permuted * (all - 50) + IF perm = <<>> THEN 0 ELSE prevScore - 50

\* Rows, masks and contributions each come out even.
FederationHolds == RowsAreShared /\ OnlyOwnMasksStay /\ SharesAddUp

\* The studies measure what they say: approval at the edge with the same
\* outcome as in the cloud, and a federation that loses and invents nothing.
StudiesHold == EdgeHolds /\ FederationHolds
=============================================================================
