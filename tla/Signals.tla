------------------------------- MODULE Signals -------------------------------
(***************************************************************************)
(* The two scores that fraud-service reports beside its decision: the      *)
(* risk of the signals that the client sends                               *)
(* (app/services/behavioral_signals.py) and how unusual a payment is for   *)
(* its user (app/scoring/sequence_score.py), whose history grows with      *)
(* every evaluation.  Risks are in hundredths.  Whether a signature is the *)
(* right one is an input.                                                  *)
(***************************************************************************)
EXTENDS Integers, Sequences, FiniteSets, FiniteSetsExt

CONSTANTS Amounts3,     \* amounts of payments
          Hours,        \* their hours; -1: none given
          MaxSequence,  \* SEQUENCE_MAX_HISTORY
          MinSequence,  \* MIN_HISTORY_FOR_SCORE
          MaxAge,       \* BEHAVIOR_SIGNAL_MAX_AGE_S
          Ages,         \* ages of a signature in seconds, below 0 from the future
          MaxScored     \* bound

Given == {"slow mouse", "fast form", "paste", "tabs", "short dwell"}
Network == {"tor", "vpn", "proxy"}

ASSUME SignalConstants ==
    /\ Amounts3 \subseteq Nat /\ Hours \subseteq -1..23
    /\ MinSequence \in Nat /\ MaxSequence \in Nat \ {0} /\ MaxAge \in Nat /\ Ages \subseteq Int
    /\ MaxScored \in Nat

VARIABLES
    heard,    \* whether the next request brings signals
    signals,  \* what of them is out of its bounds
    server,   \* what the server says of its network: a function on some of Network
    signed,   \* its signature: "none", "wrong" or "right"
    age,      \* its age
    sequence, \* the payments of the user, oldest first
    scoredSeq \* history: how many there were

signalVars == <<heard, signals, server, signed, age, sequence, scoredSeq>>

Payments == [amount : Amounts3, hour : Hours \cup {-1}]

SignalInit ==
    /\ heard = FALSE /\ signals = {} /\ server = <<>> /\ signed = "none" /\ age = 0
    /\ sequence = <<>> /\ scoredSeq = 0
-----------------------------------------------------------------------------
\* verify_signal_signature
Verified == heard /\ signed = "right" /\ age \in -MaxAge..MaxAge

Mut_ClientFirst(given) == given \cup {n \in DOMAIN server : server[n]}

\* merge_server_context: what the server observed takes the place of what the
\* client says.
Merged(given) == (given \ DOMAIN server) \cup {n \in DOMAIN server : server[n]}

Weight(flag) ==
    CASE flag = "slow mouse" -> 30 [] flag = "fast form" -> 40 [] flag = "paste" -> 20
      [] flag = "tabs" -> 10 [] flag = "short dwell" -> 15
      [] flag = "tor" -> 50 [] flag = "vpn" -> 20 [] flag = "proxy" -> 15

RawRisk(given) == MapThenSumSet(Weight, given)

Clipped(risk, limit) == IF risk > limit THEN limit ELSE risk

\* analyze_signals, in two hundredths: a request that brings no signals is not
\* analysed, whatever the server observed; what is not verified counts half,
\* before it is cut to one.
Risk(given, verified) ==
    IF ~heard THEN 0
    ELSE LET raw == RawRisk(Merged(given)) IN Clipped(IF verified THEN 2 * raw ELSE raw, 200)
-----------------------------------------------------------------------------
\* int(hour or -1): midnight is no hour.
EnteredHour(h) == IF h = 0 THEN -1 ELSE h

Cold == Len(sequence) < MinSequence

\* The amounts of the history added up, and their squares.
Added   == MapThenSumSet(LAMBDA i : sequence[i].amount, DOMAIN sequence)
Squared == MapThenSumSet(LAMBDA i : sequence[i].amount * sequence[i].amount, DOMAIN sequence)

\* |z| >= k, for the z-score of an amount: (x - mu)^2 >= k^2 var, times n^2.
AtLeast(x, k) ==
    LET n   == Len(sequence)
        s   == Added
        var == n * Squared - s * s
    IN  var > 0 /\ (n * x - s) * (n * x - s) >= k * k * var

\* _zscore, cut to four and down to an integer
AmountZ(x) == CHOOSE k \in 0..4 : (k = 0 \/ AtLeast(x, k)) /\ (k = 4 \/ ~AtLeast(x, k + 1))

\* _hour_anomaly, in hundredths
HourAnomaly(h) ==
    LET valid == {i \in 1..Len(sequence) : sequence[i].hour >= 0}
        same  == {i \in valid : sequence[i].hour = h}
    IN  IF h < 0 \/ valid = {} THEN 0
        ELSE 100 - (100 * Cardinality(same)) \div Cardinality(valid)

\* score_sequence, in hundredths
SequenceScore(x, h) ==
    IF Cold THEN 0 ELSE (70 * AmountZ(x)) \div 4 + (30 * HourAnomaly(EnteredHour(h))) \div 100

\* score_sequence and sequence_store.append of _evaluate_one, which share
\* nothing with the signals: a behaviour is about one of the two scores.
ScorePayment(x, h) ==
    LET entry == [amount |-> x, hour |-> EnteredHour(h)]
    IN  /\ ~heard /\ DOMAIN server = {} /\ signed = "none"
        /\ scoredSeq < MaxScored /\ scoredSeq' = scoredSeq + 1
        /\ sequence' = IF Len(sequence) = MaxSequence THEN Append(Tail(sequence), entry)
                       ELSE Append(sequence, entry)
        /\ UNCHANGED <<heard, signals, server, signed, age>>

\* The client sends signals, none of them out of its bounds at first.
Speak ==
    /\ sequence = <<>> /\ heard' = TRUE /\ UNCHANGED <<signals, server, signed, age, sequence, scoredSeq>>

Signal(flag) ==
    /\ sequence = <<>> /\ heard /\ UNCHANGED heard /\ signals' = signals \cup {flag}
    /\ UNCHANGED <<server, signed, age, sequence, scoredSeq>>

Observe(n, says) ==
    /\ sequence = <<>> /\ n \notin DOMAIN server
    /\ server' = [m \in DOMAIN server \cup {n} |-> IF m = n THEN says ELSE server[m]]
    /\ UNCHANGED <<heard, signals, signed, age, sequence, scoredSeq>>

Sign(kind, a) ==
    /\ sequence = <<>> /\ signed = "none" /\ signed' = kind /\ age' = a
    /\ UNCHANGED <<heard, signals, server, sequence, scoredSeq>>

SignalNext ==
    \/ \E x \in Amounts3, h \in Hours : ScorePayment(x, h)
    \/ Speak
    \/ \E flag \in Given \cup Network : Signal(flag)
    \/ \E n \in Network \ {"vpn"}, says \in BOOLEAN : Observe(n, says)
    \/ \E kind \in {"wrong", "right"}, a \in Ages : Sign(kind, a)

SignalSpec == SignalInit /\ [][SignalNext]_signalVars
-----------------------------------------------------------------------------
SignalTypeOK ==
    /\ heard \in BOOLEAN /\ signals \subseteq Given \cup Network /\ DOMAIN server \subseteq Network
    /\ signed \in {"none", "wrong", "right"} /\ age \in Ages \cup {0}
    /\ sequence \in Seq(Payments) /\ Len(sequence) <= MaxSequence /\ scoredSeq \in 0..MaxScored
    /\ \A verified \in BOOLEAN : Risk(signals, verified) \in 0..200

\* While a client sends signals at all, one thing more that is out of its bounds
\* never lowers the risk, a signature never does either, and half of what is
\* verified is not lost; what the server observed of the network counts, and not
\* what the client says of it (behavioral_signals.py:121), so that nothing a
\* client says or leaves out takes the risk below that of what the server saw.
\* One that sends no signals has none, whatever the server saw (line 151).
RiskIsMonotone ==
    /\ heard =>
          /\ \A flag \in Given \cup Network, verified \in BOOLEAN :
                Risk(signals, verified) <= Risk(signals \cup {flag}, verified)
          /\ Risk(signals, FALSE) <= Risk(signals, TRUE) /\ Risk(signals, TRUE) <= 2 * Risk(signals, FALSE)
          /\ \A n \in DOMAIN server : Risk(signals \cup {n}, Verified) = Risk(signals \ {n}, Verified)
          /\ Clipped(RawRisk({n \in DOMAIN server : server[n]}), 200) <= Risk(signals, Verified)
    /\ ~heard => Risk(signals, Verified) = 0

\* A payment as all of the user's payments before is not unusual; one at an
\* hour that none of them had is at least 30 hundredths, unless it or all of
\* them are at midnight, which the service takes for no hour.
HabitIsQuiet ==
    ~Cold =>
        /\ \A p \in Payments : (\A i \in 1..Len(sequence) : sequence[i] = p)
               => SequenceScore(p.amount, p.hour) = 0
        /\ \A x \in Amounts3, h \in Hours \ {-1, 0} :
               /\ \A i \in 1..Len(sequence) : sequence[i].hour # h
               /\ \E i \in 1..Len(sequence) : sequence[i].hour # -1
               => SequenceScore(x, h) >= 30
        /\ \A x \in Amounts3, h \in Hours :
               SequenceScore(x, h) <= 100

\* Both scores mean what they say: the risk of signals and that of a sequence.
ScoresMeanIt == RiskIsMonotone /\ HabitIsQuiet
=============================================================================
