--------------------------- MODULE RuntimeSettings ---------------------------
(***************************************************************************)
(* What administrators change in a running fraud-service, and what is left *)
(* of it after a restart.                                                  *)
(*                                                                         *)
(* Rule switches (app/services/rule_engine.py): a switch is flipped in     *)
(* memory under the engine's lock and written to the Redis hash            *)
(* rule:toggles after the lock is released; a start loads the hash.        *)
(*                                                                         *)
(* Ensemble weights (app/scoring/ensemble.py) and the alarm that rolls     *)
(* them back (app/services/alarm_manager.py): two globals, written one     *)
(* after the other.  The alarm reads and writes them under its own lock,   *)
(* an administrator's PATCH without it.                                    *)
(*                                                                         *)
(* Each request runs in a thread of the only process.                      *)
(***************************************************************************)
EXTENDS Integers

CONSTANTS Rule,
          Flip, Turns,   \* toggle requests, and the rule that each flips
          Patch, Bodies,   \* PATCH /api/ensemble-weights requests, and their bodies
          Check, Lift,   \* alarm checks, and restores
          Default,       \* ENSEMBLE_ALPHA and ENSEMBLE_BETA, in tenths
          NoOne          \* who holds the alarm's lock while nobody does

Part    == {"alpha", "beta"}
Top     == 15            \* the clip at 1.5
Weights == [Part -> 0..Top]
Request == Flip \cup Patch \cup Check \cup Lift

ASSUME RuntimeConstants ==
    /\ Turns \in [Flip -> Rule]
    /\ Bodies \in [Patch -> [given : SUBSET Part, value : [Part -> Int]]]
    /\ Default \in Weights
    /\ NoOne \notin Request
    /\ Flip \cap (Patch \cup Check \cup Lift) = {}
    /\ Patch \cap (Check \cup Lift) = {} /\ Check \cap Lift = {}

VARIABLES
    enabled,   \* [Rule -> BOOLEAN]: rule.enabled
    saved,     \* [Rule -> {"none", "1", "0"}]: the hash rule:toggles
    weights,   \* ALPHA and BETA
    rolled,    \* rolled_back
    kept,      \* saved_alpha and saved_beta, where holds
    holds,     \* whether they are not None
    lock,      \* the request that holds the alarm's lock
    point,     \* [Request -> Point]
    value,     \* [Flip -> BOOLEAN]: new_enabled
    crossed,   \* history: flips that another of the same rule overlapped
    troubled,  \* history: rules whose memory and hash may disagree
    chosen,    \* history: the weights that PATCHes chose last, before them the default
    undone,    \* history: parts that a restart, or a restore when nothing was rolled
               \* back, has set to the default since
    meddled    \* history: whether a PATCH wrote during a rollback or a restore

switches == <<enabled, saved, value, crossed, troubled>>
alarm    == <<weights, rolled, kept, holds, lock, chosen, undone, meddled>>
settingsVars     == <<switches, alarm, point>>

Point == {"new", "persist", "signals", "alpha", "beta", "zero", "flag", "done"}

Moves(q, from, to) == point[q] = from /\ point' = [point EXCEPT ![q] = to]

\* What _load_toggles_from_redis makes of a rule's switch, on by default.
Loaded(r) == saved[r] # "0"

InFlight(r) == {f \in Flip : Turns[f] = r /\ point[f] = "persist"}

Clip(x) == IF x < 0 THEN 0 ELSE IF x > Top THEN Top ELSE x
-----------------------------------------------------------------------------
SettingsInit ==
    /\ enabled = [r \in Rule |-> TRUE] /\ saved = [r \in Rule |-> "none"]
    /\ weights = Default /\ chosen = Default /\ undone = {}
    /\ rolled = FALSE /\ holds = FALSE /\ meddled = FALSE
    /\ kept = Default /\ lock = NoOne
    /\ point = [q \in Request |-> "new"]
    /\ value = [f \in Flip |-> FALSE]
    /\ crossed = {} /\ troubled = {}

(***************************************************************************)
(* Switches                                                                *)
(***************************************************************************)
\* toggle_rule under the lock.
Turn(f) ==
    LET r == Turns[f]
        others == InFlight(r)
    IN  /\ Moves(f, "new", "persist")
        /\ enabled' = [enabled EXCEPT ![r] = ~@]
        /\ value' = [value EXCEPT ![f] = ~enabled[r]]
        /\ crossed' = IF others = {} THEN crossed ELSE crossed \cup others \cup {f}
        /\ UNCHANGED <<saved, troubled, alarm>>

Mut_NotPersisted(f) ==
    /\ Moves(f, "persist", "done")
    /\ troubled' = IF f \in crossed THEN troubled \cup {Turns[f]} ELSE troubled \ {Turns[f]}
    /\ UNCHANGED <<saved, enabled, value, crossed, alarm>>

\* _persist_toggle, after the lock is released; a failure is logged.
Persist(f) ==
    LET r == Turns[f]
    IN  /\ Moves(f, "persist", "done")
        /\ \/ /\ saved' = [saved EXCEPT ![r] = IF value[f] THEN "1" ELSE "0"]
              /\ troubled' = IF f \in crossed THEN troubled \cup {r} ELSE troubled \ {r}
           \/ /\ troubled' = troubled \cup {r}
              /\ UNCHANGED saved
        /\ UNCHANGED <<enabled, value, crossed, alarm>>

(***************************************************************************)
(* Weights and their alarm                                                 *)
(***************************************************************************)
Mut_NoClip(c, x) == weights' = [weights EXCEPT ![c] = x]

\* One assignment of set_weights.
SetPart(c, x) == weights' = [weights EXCEPT ![c] = Clip(x)]

\* set_weights for a PATCH: the parts that its body gives, alpha first.
WriteWeights(p) ==
    \E c \in Part :
        /\ Moves(p, IF c = "alpha" THEN "new" ELSE "beta", IF c = "alpha" THEN "beta" ELSE "done")
        /\ \/ /\ c \in Bodies[p].given
              /\ SetPart(c, Bodies[p].value[c])
              /\ chosen' = [chosen EXCEPT ![c] = Clip(Bodies[p].value[c])]
              /\ undone' = undone \ {c} /\ meddled' = (meddled \/ rolled \/ lock # NoOne)
           \/ /\ c \notin Bodies[p].given
              /\ UNCHANGED <<weights, chosen, undone, meddled>>
        /\ UNCHANGED <<switches, rolled, kept, holds, lock>>

\* _collect_signals, before the lock: without a reason the check ends there.
Collect(k) ==
    /\ Moves(k, "new", "signals") \/ Moves(k, "new", "done")
    /\ UNCHANGED <<switches, alarm>>

Mut_TriggersAgain(k) ==
    /\ lock = NoOne /\ lock' = k
    /\ Moves(k, "signals", "alpha")
    /\ UNCHANGED <<switches, weights, rolled, kept, holds, chosen, undone, meddled>>

\* check_and_act takes the lock.
Trigger(k) ==
    /\ lock = NoOne
    /\ \/ rolled /\ Moves(k, "signals", "done") /\ UNCHANGED lock
       \/ ~rolled /\ Moves(k, "signals", "alpha") /\ lock' = k
    /\ UNCHANGED <<switches, weights, rolled, kept, holds, chosen, undone, meddled>>

\* It saves the weights, read one after the other,
Save(k) ==
    /\ \/ Moves(k, "alpha", "beta") /\ kept' = [kept EXCEPT !["alpha"] = weights["alpha"]]
          /\ UNCHANGED holds
       \/ Moves(k, "beta", "zero") /\ kept' = [kept EXCEPT !["beta"] = weights["beta"]]
          /\ holds' = TRUE
    /\ UNCHANGED <<switches, weights, rolled, lock, chosen, undone, meddled>>

\* and sets them to zero.
Zero(k) ==
    /\ \/ /\ Moves(k, "zero", "flag") /\ SetPart("alpha", 0)
          /\ UNCHANGED <<rolled, lock>>
       \/ /\ Moves(k, "flag", "done") /\ SetPart("beta", 0)
          /\ rolled' = TRUE /\ lock' = NoOne
    /\ UNCHANGED <<switches, kept, holds, chosen, undone, meddled>>

\* restore_default_weights takes the lock,
Restore(l) ==
    /\ lock = NoOne /\ lock' = l
    /\ Moves(l, "new", "alpha")
    /\ UNCHANGED <<switches, weights, rolled, kept, holds, chosen, undone, meddled>>

\* sets the weights that were saved, or the default where none were, whatever
\* is in force.
PutBack(l) ==
    LET Put(c) == /\ SetPart(c, IF holds THEN kept[c] ELSE Default[c])
                  /\ undone' = IF rolled THEN undone ELSE undone \cup {c}
    IN  /\ \/ /\ Moves(l, "alpha", "beta") /\ Put("alpha")
              /\ UNCHANGED <<rolled, holds, lock>>
           \/ /\ Moves(l, "beta", "done") /\ Put("beta")
              /\ rolled' = FALSE /\ holds' = FALSE /\ lock' = NoOne
        /\ UNCHANGED <<switches, kept, chosen, meddled>>

\* The process restarts: weights, alarm and requests in flight are gone, and
\* the switches are loaded from Redis, or all on if that fails.
RestartSettings ==
    /\ \/ enabled' = [r \in Rule |-> Loaded(r)] /\ troubled' = {}
       \/ enabled' = [r \in Rule |-> TRUE] /\ troubled' = Rule
    /\ weights' = Default /\ undone' = Part
    /\ rolled' = FALSE /\ holds' = FALSE /\ meddled' = FALSE
    /\ lock' = NoOne
    /\ point' = [q \in Request |-> IF point[q] = "new" THEN "new" ELSE "done"]
    /\ crossed' = {} /\ UNCHANGED <<saved, value, kept, chosen>>

SwitchNext == \E f \in Flip : Turn(f) \/ Persist(f)

WeightNext ==
    \/ \E p \in Patch : WriteWeights(p)
    \/ \E k \in Check : Collect(k) \/ Trigger(k) \/ Save(k) \/ Zero(k)
    \/ \E l \in Lift : Restore(l) \/ PutBack(l)

SettingsNext == SwitchNext \/ WeightNext \/ RestartSettings

SettingsSpec == SettingsInit /\ [][SettingsNext]_settingsVars
-----------------------------------------------------------------------------
SettingsTypeOK ==
    /\ enabled \in [Rule -> BOOLEAN] /\ saved \in [Rule -> {"none", "1", "0"}]
    /\ weights \in Weights /\ kept \in Weights /\ chosen \in Weights /\ undone \in SUBSET Part
    /\ rolled \in BOOLEAN /\ holds \in BOOLEAN /\ meddled \in BOOLEAN
    /\ lock \in Check \cup Lift \cup {NoOne}
    /\ point \in [Request -> Point]
    /\ value \in [Flip -> BOOLEAN]
    /\ crossed \in SUBSET Flip /\ troubled \in SUBSET Rule

\* A restart would find every switch as it is (rule_engine.py:11), once no
\* request is turning it, unless the last that did was overlapped by another
\* or failed to write, or the last start failed to load.
SwitchesSurvive ==
    \A r \in Rule \ troubled : InFlight(r) = {} => Loaded(r) = enabled[r]

\* What administrators chose, but for what was since set to the default.
Wanted == [c \in Part |-> IF c \in undone THEN Default[c] ELSE chosen[c]]

\* While the alarm's lock is free and no PATCH has come between, a rollback
\* holds the weights at zero and has saved those that administrators chose, and
\* without one these are in force, however many checks and restores there were,
\* at the same time or one after the other: only a restart, or a restore while
\* nothing is rolled back, as the second of two restores is, replaces them, and
\* by the default (check_and_act and restore_default_weights).
WeightsRemembered ==
    lock = NoOne /\ ~meddled =>
        IF rolled THEN weights = [c \in Part |-> 0] /\ holds /\ kept = Wanted
                  ELSE weights = Wanted
=============================================================================
