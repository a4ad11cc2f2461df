----------------------------- MODULE RateLimit -----------------------------
(***************************************************************************)
(* The sliding window of fraud-service's RateLimitMiddleware               *)
(* (app/middleware/rate_limit.py), for one caller; the windows of others   *)
(* are apart.  The clock has Second ticks to the second, because the       *)
(* seconds that a refused caller is told to wait are cut to an integer.    *)
(***************************************************************************)
EXTENDS Integers, Sequences

CONSTANTS Limit,    \* RATE_LIMIT_RPM
          Second,   \* ticks of a second
          Span,     \* _WINDOW, in ticks
          MaxTicks  \* bound

ASSUME RateConstants ==
    /\ Limit \in Nat \ {0} /\ Second \in Nat \ {0} /\ Span \in Nat \ {0} /\ MaxTicks \in Nat

VARIABLES
    tick,
    window,    \* the times of the requests let through, oldest first
    retryAt,   \* history: when the caller that was refused last may come again, or -1
    passed     \* history: the times of all requests let through

rateVars == <<tick, window, retryAt, passed>>

RateInit == tick = 0 /\ window = <<>> /\ retryAt = -1 /\ passed = <<>>

\* Times are dropped from the left up to the first that is in the window.
InWindow(w) ==
    LET stays == {i \in 1..Len(w) : tick - w[i] <= Span}
    IN  IF stays = {} THEN <<>>
        ELSE SubSeq(w, CHOOSE i \in stays : \A j \in stays : i <= j, Len(w))

Mut_NoSecondMore(w) == tick + Second * ((Span - (tick - w[1])) \div Second)

\* Retry-After, from the oldest time that stays.
RetryAfter(w) == tick + Second * ((Span - (tick - w[1])) \div Second + 1)

\* dispatch
AskLimiter ==
    LET w == InWindow(window)
    IN  \/ /\ Len(w) < Limit
           /\ window' = Append(w, tick) /\ passed' = Append(passed, tick) /\ retryAt' = -1
           /\ UNCHANGED tick
        \/ /\ Len(w) >= Limit
           /\ window' = w /\ retryAt' = RetryAfter(w)
           /\ UNCHANGED <<tick, passed>>

Tick == tick < MaxTicks /\ tick' = tick + 1 /\ UNCHANGED <<window, retryAt, passed>>

RateNext == AskLimiter \/ Tick

RateSpec == RateInit /\ [][RateNext]_rateVars
-----------------------------------------------------------------------------
RateTypeOK ==
    /\ tick \in 0..MaxTicks /\ window \in Seq(0..MaxTicks) /\ Len(window) <= Limit
    /\ passed \in Seq(0..MaxTicks) /\ retryAt \in {-1} \cup 0..(MaxTicks + Span + Second)

\* No span of the window's length lets more than the limit through, wherever
\* it begins; and who waits as long as the refusal said, and let no other
\* request of the same caller come in between, is let through
\* (rate_limit.py:60).
LimitKept ==
    /\ \A i \in 1..Len(passed) - Limit : passed[i + Limit] - passed[i] > Span
    /\ retryAt # -1 /\ tick >= retryAt => Len(InWindow(window)) < Limit
=============================================================================
