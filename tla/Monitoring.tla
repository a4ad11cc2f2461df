----------------------------- MODULE Monitoring -----------------------------
(***************************************************************************)
(* What fraud-service counts while it evaluates: the actions of each       *)
(* variant (app/scoring/ab_test.py), the live values of a feature          *)
(* (app/services/drift_detector.py) and the evaluations themselves         *)
(* (stats_collector.py), each under a lock of its own, in the order of     *)
(* _evaluate_one; the reports of fraud that come in later                  *)
(* (feedback_store.py); and what the dashboards make of them.  Latencies,  *)
(* scenario labels and the distributions by day are left out.              *)
(***************************************************************************)
EXTENDS Integers, Sequences, FiniteSets

CONSTANTS Scored,       \* requests that are past their decision
          About,        \* [Scored -> what each brings]
          MaxEntries,   \* evaluations kept
          LiveWindow, RefLimit,  \* values kept of a feature
          References,   \* the samples that set_reference may get
          NoVariant     \* the empty string of ab_variant

Action3 == {"BLOCK", "REVIEW", "SOFT_REVIEW", "PASS"}
Variant == {"a", "b"}

ASSUME MonitoringConstants ==
    /\ \A r \in Scored : /\ About[r].action \in Action3 /\ About[r].value \in Nat
                         /\ About[r].variant \in Variant \cup {NoVariant}
    /\ MaxEntries \in Nat \ {0} /\ LiveWindow \in Nat \ {0} /\ RefLimit \in Nat \ {0}
    /\ References \subseteq Seq(Nat) /\ NoVariant \notin Variant

VARIABLES
    counted,      \* [Variant -> [Action3 -> Nat]]: _stats
    live, ref,    \* _live and _reference of the feature
    entries,      \* _entries
    chargebacks,  \* the transactions of _by_tx
    tally,        \* [Scored -> "variant" ... "done"]: the next call of each
    resets,       \* history: which counters an administrator has reset
    dropped       \* history: whether the deque was ever full

monitorVars == <<counted, live, ref, entries, chargebacks, tally, resets, dropped>>

MonitorInit ==
    /\ counted = [v \in Variant |-> [x \in Action3 |-> 0]]
    /\ live = <<>> /\ ref = <<>> /\ entries = <<>> /\ chargebacks = {}
    /\ tally = [r \in Scored |-> "variant"] /\ resets = {} /\ dropped = FALSE

\* deque(maxlen)
Pushed(s, x, limit) == IF Len(s) = limit THEN Append(Tail(s), x) ELSE Append(s, x)

\* str(... or "a").lower() of _evaluate_one
VariantOf(r) == IF About[r].variant = NoVariant THEN "a" ELSE About[r].variant

Mut_OnlyDecisive(r) ==
    IF About[r].action = "SOFT_REVIEW" THEN counted
    ELSE [counted EXCEPT ![VariantOf(r)][About[r].action] = @ + 1]

\* ab_test._record
Counted(r) == [counted EXCEPT ![VariantOf(r)][About[r].action] = @ + 1]

CountVariant(r) ==
    /\ tally[r] = "variant" /\ tally' = [tally EXCEPT ![r] = "drift"]
    /\ counted' = Counted(r)
    /\ UNCHANGED <<live, ref, entries, chargebacks, resets, dropped>>

RecordLive(r) ==
    /\ tally[r] = "drift" /\ tally' = [tally EXCEPT ![r] = "stats"]
    /\ live' = Pushed(live, About[r].value, LiveWindow)
    /\ UNCHANGED <<counted, ref, entries, chargebacks, resets, dropped>>

\* stats_collector.record: without a variant the entry has none.
RecordStat(r) ==
    /\ tally[r] = "stats" /\ tally' = [tally EXCEPT ![r] = "done"]
    /\ entries' = Pushed(entries, About[r], MaxEntries)
    /\ dropped' = (dropped \/ Len(entries) = MaxEntries)
    /\ UNCHANGED <<counted, live, ref, chargebacks, resets>>

\* feedback_chargeback: one label for each transaction, whether evaluated or not.
Chargeback(tx) ==
    /\ tx \notin chargebacks /\ chargebacks' = chargebacks \cup {tx}
    /\ UNCHANGED <<counted, live, ref, entries, tally, resets, dropped>>

ResetStats ==
    /\ entries # <<>> /\ entries' = <<>> /\ resets' = resets \cup {"stats"}
    /\ UNCHANGED <<counted, live, ref, chargebacks, tally, dropped>>

Total(v) == counted[v]["BLOCK"] + counted[v]["REVIEW"] + counted[v]["SOFT_REVIEW"] + counted[v]["PASS"]

ResetVariants ==
    /\ \E v \in Variant : Total(v) > 0
    /\ counted' = [v \in Variant |-> [x \in Action3 |-> 0]] /\ resets' = resets \cup {"variants"}
    /\ UNCHANGED <<live, ref, entries, chargebacks, tally, dropped>>

\* set_reference: every step-th sample where there are too many.
SetReference(samples) ==
    /\ ref' = IF Len(samples) <= RefLimit THEN samples
              ELSE [i \in 1..RefLimit |-> samples[1 + ((i - 1) * Len(samples)) \div RefLimit]]
    /\ UNCHANGED <<counted, live, entries, chargebacks, tally, resets, dropped>>

MonitorNext ==
    \/ \E r \in Scored : CountVariant(r) \/ RecordLive(r) \/ RecordStat(r)
    \/ \E r \in Scored : Chargeback(About[r].tx)
    \/ ResetStats \/ ResetVariants
    \/ \E samples \in References : SetReference(samples)

MonitorSpec == MonitorInit /\ [][MonitorNext]_monitorVars
-----------------------------------------------------------------------------
(***************************************************************************)
(* precision_recall_summary and precision_recall_by_variant                *)
(***************************************************************************)
Detects(e) == e.action \in {"BLOCK", "REVIEW"}

Cell(e) == IF e.tx \in chargebacks THEN IF Detects(e) THEN "tp" ELSE "fn"
           ELSE IF Detects(e) THEN "fp" ELSE "tn"
-----------------------------------------------------------------------------
(***************************************************************************)
(* The Kolmogorov-Smirnov statistic of two samples, as a fraction of the   *)
(* product of their sizes                                                  *)
(***************************************************************************)
Distance(m, n) == IF m < n THEN n - m ELSE m - n
Below(s, x) == Cardinality({i \in 1..Len(s) : s[i] <= x})
Ascending(s) ==
    LET place(i) == Cardinality({j \in 1..Len(s) : s[j] < s[i] \/ (s[j] = s[i] /\ j <= i)})
    IN  [k \in 1..Len(s) |-> s[CHOOSE i \in 1..Len(s) : place(i) = k]]

\* The loop of _ks_two_sample over the sorted samples: it looks at the
\* distance after each value that it passes.
Merge2(a, b) ==
    LET d[p \in (0..Len(a)) \X (0..Len(b))] ==
            IF p[1] = Len(a) \/ p[2] = Len(b) THEN 0
            ELSE LET next == IF a[p[1] + 1] <= b[p[2] + 1] THEN <<p[1] + 1, p[2]>> ELSE <<p[1], p[2] + 1>>
                     here == Distance(next[1] * Len(b), next[2] * Len(a))
                 IN  IF here > d[next] THEN here ELSE d[next]
    IN  d[<<0, 0>>]

KS(a, b) == IF a = <<>> \/ b = <<>> THEN 0 ELSE Merge2(Ascending(a), Ascending(b))

\* max |F_ref(x) - F_live(x)|
Supremum(a, b) ==
    LET values == {a[i] : i \in 1..Len(a)} \cup {b[i] : i \in 1..Len(b)}
        at == {Distance(Below(a, x) * Len(b), Below(b, x) * Len(a)) : x \in values}
    IN  IF a = <<>> \/ b = <<>> THEN 0 ELSE CHOOSE d \in at : \A e \in at : e <= d

Share(a, b) == {a[i] : i \in 1..Len(a)} \cap {b[i] : i \in 1..Len(b)} # {}
-----------------------------------------------------------------------------
MonitorTypeOK ==
    /\ counted \in [Variant -> [Action3 -> Nat]]
    /\ live \in Seq(Nat) /\ Len(live) <= LiveWindow /\ ref \in Seq(Nat) /\ Len(ref) <= RefLimit
    /\ entries \in Seq({About[r] : r \in Scored}) /\ Len(entries) <= MaxEntries
    /\ tally \in [Scored -> {"variant", "drift", "stats", "done"}]

Waiting(v) == Cardinality({r \in Scored : VariantOf(r) = v /\ tally[r] \in {"drift", "stats"}})

\* The significance of the variants and the precision of each are about the
\* same evaluations: unless one of the two was reset or the list is full, the
\* detections of a variant are as many as its true and its false positives, but
\* for the requests that are between the two locks, and those without a
\* variant, which are under "a" in one and "unlabeled" in the other.
VariantsAgree ==
    resets = {} /\ ~dropped =>
        \A v \in Variant :
            LET labels == IF v = "a" THEN {"a", NoVariant} ELSE {v}
                In(cells) == Cardinality({i \in 1..Len(entries) :
                                 entries[i].variant \in labels /\ Cell(entries[i]) \in cells})
                detected == counted[v]["BLOCK"] + counted[v]["REVIEW"]
            IN  /\ Total(v) = In({"tp", "fn", "fp", "tn"}) + Waiting(v)
                /\ detected - In({"tp", "fp"}) \in 0..Waiting(v)

\* No drift is missed: the statistic is at least the distance of the two
\* distributions, and exactly that where no value is in both samples.
DriftNotMissed ==
    /\ KS(ref, live) >= Supremum(ref, live)
    /\ ~Share(ref, live) => KS(ref, live) = Supremum(ref, live)

\* What is counted is counted once, and no drift is missed.
MonitoringAgrees == VariantsAgree /\ DriftNotMissed

\* drift_detector.py:24 calls D the largest distance of the distributions.
DistanceIsExact == KS(ref, live) = Supremum(ref, live)
=============================================================================
