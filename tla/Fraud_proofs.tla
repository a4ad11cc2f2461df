----------------------------- MODULE Fraud_proofs -----------------------------
(***************************************************************************)
(* Proofs of what modules MCFraud and AuditChain check of components of    *)
(* fraud-service on a few values, for every value of their constants: the  *)
(* switches and the weights, the step-up store, the rate limit, the cache  *)
(* of the models, the protocols, the shared entries, the audit chain, the  *)
(* lines of the audit log and the access by attributes.                    *)
(***************************************************************************)
EXTENDS RuntimeSettings, StepUp, RateLimit, Sums, ModelCache, Protocols,
        Intelligence, AuditChain, SequenceTheorems, AuditLines, Access,
        FiniteSetTheorems, TLAPS

(***************************************************************************)
(* The switches and the weights, for any rules and requests                *)
(***************************************************************************)

LEMMA ClipRange == \A x \in Int : Clip(x) \in 0..Top
BY DEF Clip, Top

LEMMA ClipKeeps == \A x \in 0..Top : Clip(x) = x
BY DEF Clip, Top

\* A step of one request leaves the others where they are.
LEMMA MovesOne ==
    ASSUME SettingsTypeOK, NEW q \in Request, NEW a, NEW b \in Point, Moves(q, a, b)
    PROVE  /\ point' \in [Request -> Point]
           /\ point[q] = a /\ point'[q] = b
           /\ \A o \in Request \ {q} : point'[o] = point[o]
BY DEF Moves, SettingsTypeOK

LEMMA SetPartType ==
    ASSUME SettingsTypeOK, NEW c \in Part, NEW x \in Int, SetPart(c, x)
    PROVE  /\ weights' \in Weights
           /\ weights'[c] = Clip(x) /\ \A d \in Part \ {c} : weights'[d] = weights[d]
BY ClipRange DEF SetPart, SettingsTypeOK, Weights

\* Every variable keeps its type.
THEOREM SettingsTypeCorrect == SettingsSpec => []SettingsTypeOK
<1>1. SettingsInit => SettingsTypeOK
  BY RuntimeConstants DEF SettingsInit, SettingsTypeOK, Point
<1>2. SettingsTypeOK /\ [SettingsNext]_settingsVars => SettingsTypeOK'
  <2> SUFFICES ASSUME SettingsTypeOK, [SettingsNext]_settingsVars PROVE SettingsTypeOK' OBVIOUS
  <2>0. \A c \in Part : weights[c] \in Int /\ kept[c] \in Int /\ Default[c] \in 0..Top
    BY RuntimeConstants DEF SettingsTypeOK, Weights, Top
  <2>p. "alpha" \in Part /\ "beta" \in Part BY DEF Part
  <2>1. ASSUME NEW f \in Flip, Turn(f) PROVE SettingsTypeOK'
    <3>1. f \in Request BY DEF Request
    <3>2. point' \in [Request -> Point] BY <2>1, <3>1, MovesOne DEF Turn, Point
    <3>3. Turns[f] \in Rule BY RuntimeConstants
    <3>4. enabled' \in [Rule -> BOOLEAN] /\ value' \in [Flip -> BOOLEAN]
      BY <2>1, <3>3 DEF Turn, SettingsTypeOK
    <3>5. crossed' \in SUBSET Flip BY <2>1 DEF Turn, InFlight, SettingsTypeOK
    <3> QED BY <2>1, <3>2, <3>4, <3>5 DEF Turn, SettingsTypeOK, alarm
  <2>2. ASSUME NEW f \in Flip, Persist(f) PROVE SettingsTypeOK'
    <3>1. f \in Request /\ Turns[f] \in Rule BY RuntimeConstants DEF Request
    <3>2. point' \in [Request -> Point] BY <2>2, <3>1, MovesOne DEF Persist, Point
    <3>3. (saved' \in [Rule -> {"none", "1", "0"}]) /\ (troubled' \in SUBSET Rule)
      BY <2>2, <3>1 DEF Persist, SettingsTypeOK
    <3> QED BY <2>2, <3>2, <3>3 DEF Persist, SettingsTypeOK, alarm
  <2>3. ASSUME NEW p \in Patch, WriteWeights(p) PROVE SettingsTypeOK'
    <3>1. PICK c \in Part :
            /\ Moves(p, IF c = "alpha" THEN "new" ELSE "beta", IF c = "alpha" THEN "beta" ELSE "done")
            /\ \/ /\ SetPart(c, Bodies[p].value[c])
                  /\ chosen' = [chosen EXCEPT ![c] = Clip(Bodies[p].value[c])]
                  /\ undone' = undone \ {c} /\ meddled' = (meddled \/ rolled \/ lock # NoOne)
               \/ UNCHANGED <<weights, chosen, undone, meddled>>
      BY <2>3 DEF WriteWeights
    <3>2. point' \in [Request -> Point]
      <4>1. p \in Request BY DEF Request
      <4> QED BY <3>1, <4>1, MovesOne DEF Point
    <3>3. Bodies[p].value[c] \in Int BY RuntimeConstants
    <3>4. weights' \in Weights BY <3>1, <3>3, SetPartType DEF SettingsTypeOK
    <3>5. chosen' \in Weights BY <3>1, <3>3, ClipRange DEF SettingsTypeOK, Weights
    <3>6. meddled' \in BOOLEAN /\ undone' \in SUBSET Part BY <3>1 DEF SettingsTypeOK
    <3> QED BY <2>3, <3>2, <3>4, <3>5, <3>6 DEF WriteWeights, SettingsTypeOK, switches
  <2>4. ASSUME NEW k \in Check, Collect(k) PROVE SettingsTypeOK'
    <3>1. k \in Request BY DEF Request
    <3> QED BY <2>4, <3>1, MovesOne DEF Collect, SettingsTypeOK, Point, switches, alarm
  <2>5. ASSUME NEW k \in Check, Trigger(k) PROVE SettingsTypeOK'
    <3>1. k \in Request BY DEF Request
    <3>2. point' \in [Request -> Point] BY <2>5, <3>1, MovesOne DEF Trigger, Point
    <3> QED BY <2>5, <3>2 DEF Trigger, SettingsTypeOK, switches
  <2>6. ASSUME NEW k \in Check, Save(k) PROVE SettingsTypeOK'
    <3>1. k \in Request BY DEF Request
    <3>2. point' \in [Request -> Point] BY <2>6, <3>1, MovesOne DEF Save, Point
    <3>3. kept' \in Weights BY <2>6, <2>p DEF Save, SettingsTypeOK, Weights
    <3>4. holds' \in BOOLEAN BY <2>6 DEF Save, SettingsTypeOK
    <3> QED BY <2>6, <3>2, <3>3, <3>4 DEF Save, SettingsTypeOK, switches
  <2>7. ASSUME NEW k \in Check, Zero(k) PROVE SettingsTypeOK'
    <3>1. k \in Request BY DEF Request
    <3>2. point' \in [Request -> Point] BY <2>7, <3>1, MovesOne DEF Zero, Point
    <3>3. weights' \in Weights BY <2>7, <2>p, SetPartType DEF Zero
    <3>4. (rolled' \in BOOLEAN) /\ (lock' \in Check \cup Lift \cup {NoOne})
      BY <2>7 DEF Zero, SettingsTypeOK
    <3> QED BY <2>7, <3>2, <3>3, <3>4 DEF Zero, SettingsTypeOK, switches
  <2>8. ASSUME NEW l \in Lift, Restore(l) PROVE SettingsTypeOK'
    <3>1. l \in Request BY DEF Request
    <3>2. point' \in [Request -> Point] BY <2>8, <3>1, MovesOne DEF Restore, Point
    <3> QED BY <2>8, <3>2 DEF Restore, SettingsTypeOK, switches
  <2>9. ASSUME NEW l \in Lift, PutBack(l) PROVE SettingsTypeOK'
    <3>1. l \in Request BY DEF Request
    <3>2. point' \in [Request -> Point] BY <2>9, <3>1, MovesOne DEF PutBack, Point
    <3>3. \A c \in Part : (IF holds THEN kept[c] ELSE Default[c]) \in Int BY <2>0 DEF Top
    <3>4. weights' \in Weights BY <2>9, <2>p, <3>3, SetPartType DEF PutBack
    <3>5. undone' \in SUBSET Part BY <2>9, <2>p DEF PutBack, SettingsTypeOK
    <3>6. /\ rolled' \in BOOLEAN /\ holds' \in BOOLEAN
          /\ lock' \in Check \cup Lift \cup {NoOne}
      BY <2>9 DEF PutBack, SettingsTypeOK
    <3> QED BY <2>9, <3>2, <3>4, <3>5, <3>6 DEF PutBack, SettingsTypeOK, switches
  <2>10. ASSUME RestartSettings PROVE SettingsTypeOK'
    <3>1. point' \in [Request -> Point] BY <2>10 DEF RestartSettings, Point
    <3>2. (enabled' \in [Rule -> BOOLEAN]) /\ (troubled' \in SUBSET Rule)
      BY <2>10 DEF RestartSettings, Loaded
    <3>3. weights' \in Weights /\ undone' \in SUBSET Part BY <2>10, RuntimeConstants DEF RestartSettings
    <3> QED BY <2>10, <3>1, <3>2, <3>3 DEF RestartSettings, SettingsTypeOK
  <2>11. ASSUME UNCHANGED settingsVars PROVE SettingsTypeOK'
    BY <2>11 DEF settingsVars, switches, alarm, SettingsTypeOK
  <2> QED BY <2>1, <2>2, <2>3, <2>4, <2>5, <2>6, <2>7, <2>8, <2>9, <2>10, <2>11 DEF SettingsNext, SwitchNext, WeightNext
<1> QED BY <1>1, <1>2, PTL DEF SettingsSpec
-----------------------------------------------------------------------------
(***************************************************************************)
(* Switches                                                                *)
(***************************************************************************)
\* A flip in flight that no other has overlapped is alone, and brings to the
\* hash what is in memory.
FlipsCarry ==
    \A r \in Rule : \A f \in InFlight(r) \ crossed :
        value[f] = enabled[r] /\ InFlight(r) = {f}

LEMMA AloneFlip ==
    ASSUME NEW f \in Flip, SettingsTypeOK, point[f] = "persist"
    PROVE  Turns[f] \in Rule /\ f \in InFlight(Turns[f])
BY RuntimeConstants DEF InFlight

\* The requests about weights and the alarm's leave flips and switches alone.
LEMMA AlarmStep ==
    ASSUME SettingsTypeOK, NEW q \in Patch \cup Check \cup Lift, NEW a, NEW b \in Point,
           Moves(q, a, b), UNCHANGED switches, FlipsCarry, SwitchesSurvive
    PROVE  FlipsCarry' /\ SwitchesSurvive'
<1>1. q \in Request /\ q \notin Flip BY RuntimeConstants DEF Request
<1>2. \A f \in Flip : point'[f] = point[f] BY <1>1, MovesOne DEF Request
<1>3. \A r : InFlight(r)' = InFlight(r) BY <1>2 DEF InFlight
<1> QED BY <1>3 DEF switches, FlipsCarry, SwitchesSurvive, Loaded

LEMMA NextSwitches == SettingsTypeOK /\ FlipsCarry /\ SwitchesSurvive /\ [SettingsNext]_settingsVars
                        => FlipsCarry' /\ SwitchesSurvive'
<1> SUFFICES ASSUME SettingsTypeOK, FlipsCarry, SwitchesSurvive, [SettingsNext]_settingsVars
             PROVE  FlipsCarry' /\ SwitchesSurvive'
  OBVIOUS
<1>0. /\ DOMAIN enabled = Rule /\ DOMAIN saved = Rule /\ DOMAIN value = Flip
      /\ \A f \in Flip : value[f] \in BOOLEAN
      /\ \A r \in Rule : enabled[r] \in BOOLEAN
  BY DEF SettingsTypeOK
<1>1. ASSUME NEW f \in Flip, Turn(f) PROVE FlipsCarry' /\ SwitchesSurvive'
  <2> DEFINE r == Turns[f]
             others == InFlight(r)
  <2>1. r \in Rule /\ f \in Request BY RuntimeConstants DEF Request
  <2>2. point[f] = "new" /\ point'[f] = "persist" /\ \A g \in Flip \ {f} : point'[g] = point[g]
    BY <1>1, <2>1, MovesOne DEF Turn, Point, Request
  <2>3. InFlight(r)' = others \cup {f} /\ \A s \in Rule \ {r} : InFlight(s)' = InFlight(s)
    BY <2>2 DEF InFlight
  <2>4. /\ enabled' = [enabled EXCEPT ![r] = ~enabled[r]]
        /\ value' = [value EXCEPT ![f] = ~enabled[r]]
        /\ crossed' = IF others = {} THEN crossed ELSE crossed \cup others \cup {f}
        /\ UNCHANGED <<saved, troubled>>
    BY <1>1 DEF Turn
  <2>5. f \notin others /\ \A s \in Rule : f \notin InFlight(s) BY <2>2 DEF InFlight
  <2>n. \A s \in Rule : \A g \in InFlight(s) : g \in Flip BY DEF InFlight
  <2> HIDE DEF r, others
  <2>6. ASSUME NEW s \in Rule, NEW g \in InFlight(s)' \ crossed'
        PROVE  value'[g] = enabled'[s] /\ InFlight(s)' = {g}
    <3>1. CASE s = r
      <4>1. others = {} /\ g = f BY <2>3, <2>4, <2>6, <3>1
      <4>2. value'[f] = (~enabled[r]) /\ enabled'[r] = (~enabled[r]) BY <1>0, <2>1, <2>4
      <4> QED BY <2>3, <3>1, <4>1, <4>2
    <3>2. CASE s # r
      <4>1. g \in InFlight(s) \ crossed /\ g # f BY <2>3, <2>4, <2>5, <2>6, <3>2
      <4>2. value[g] = enabled[s] /\ InFlight(s) = {g} BY <4>1 DEF FlipsCarry
      <4>3. value'[g] = value[g] /\ enabled'[s] = enabled[s]
        BY <1>0, <2>n, <2>4, <3>2, <4>1
      <4> QED BY <2>3, <3>2, <4>2, <4>3
    <3> QED BY <3>1, <3>2
  <2>7. FlipsCarry' BY <2>6 DEF FlipsCarry
  <2>8. SwitchesSurvive'
    <3>1. \A s \in Rule \ {r} : enabled'[s] = enabled[s] BY <1>0, <2>4
    <3> QED BY <2>3, <2>4, <3>1 DEF SwitchesSurvive, Loaded
  <2> QED BY <2>7, <2>8
<1>2. ASSUME NEW f \in Flip, Persist(f) PROVE FlipsCarry' /\ SwitchesSurvive'
  <2> DEFINE r == Turns[f]
  <2>1. r \in Rule /\ f \in Request BY RuntimeConstants DEF Request
  <2>2. point[f] = "persist" /\ point'[f] = "done" /\ \A g \in Flip \ {f} : point'[g] = point[g]
    BY <1>2, <2>1, MovesOne DEF Persist, Point, Request
  <2>3. InFlight(r)' = InFlight(r) \ {f} /\ \A s \in Rule \ {r} : InFlight(s)' = InFlight(s)
    BY <2>2 DEF InFlight
  <2>4. f \in InFlight(r) BY <2>2 DEF InFlight
  <2>5. UNCHANGED <<enabled, value, crossed>> BY <1>2 DEF Persist
  <2>6. \/ /\ saved' = [saved EXCEPT ![r] = IF value[f] THEN "1" ELSE "0"]
           /\ troubled' = IF f \in crossed THEN troubled \cup {r} ELSE troubled \ {r}
        \/ troubled' = troubled \cup {r} /\ saved' = saved
    BY <1>2 DEF Persist
  <2> HIDE DEF r
  <2>7. FlipsCarry' BY <2>1, <2>3, <2>4, <2>5 DEF FlipsCarry
  <2>8. ASSUME NEW s \in Rule \ troubled', InFlight(s)' = {} PROVE Loaded(s)' <=> enabled'[s]
    <3>1. CASE s = r
      <4>1. f \notin crossed /\ saved' = [saved EXCEPT ![r] = IF value[f] THEN "1" ELSE "0"]
        BY <2>6, <2>8, <3>1
      <4>2. value[f] = enabled[r] BY <2>1, <2>4, <4>1 DEF FlipsCarry
      <4>3. saved'[r] = IF value[f] THEN "1" ELSE "0" BY <1>0, <2>1, <4>1
      <4>4. Loaded(r)' <=> value[f] BY <4>3 DEF Loaded
      <4> QED BY <2>5, <3>1, <4>2, <4>4
    <3>2. CASE s # r
      <4>1. s \notin troubled /\ InFlight(s) = {} BY <2>3, <2>6, <2>8, <3>2
      <4>2. saved'[s] = saved[s] BY <1>0, <2>1, <2>6, <3>2
      <4> QED BY <2>5, <4>1, <4>2 DEF SwitchesSurvive, Loaded
    <3> QED BY <3>1, <3>2
  <2>9. \A s \in Rule : Loaded(s)' \in BOOLEAN /\ enabled'[s] \in BOOLEAN
    BY <1>0, <2>5 DEF Loaded
  <2>10. SwitchesSurvive' BY <2>8, <2>9 DEF SwitchesSurvive
  <2> QED BY <2>7, <2>10
<1>3. ASSUME NEW p \in Patch, WriteWeights(p) PROVE FlipsCarry' /\ SwitchesSurvive'
  BY <1>3, AlarmStep DEF WriteWeights, Point
<1>4. ASSUME NEW k \in Check, Collect(k) \/ Trigger(k) \/ Save(k) \/ Zero(k)
      PROVE  FlipsCarry' /\ SwitchesSurvive'
  BY <1>4, AlarmStep DEF Collect, Trigger, Save, Zero, Point
<1>5. ASSUME NEW l \in Lift, Restore(l) \/ PutBack(l) PROVE FlipsCarry' /\ SwitchesSurvive'
  BY <1>5, AlarmStep DEF Restore, PutBack, Point
<1>6. ASSUME RestartSettings PROVE FlipsCarry' /\ SwitchesSurvive'
  <2>1. \A r : InFlight(r)' = {} BY <1>6 DEF RestartSettings, InFlight, Request
  <2>2. \/ troubled' = Rule
        \/ \A r \in Rule : enabled'[r] = Loaded(r) /\ Loaded(r)' = Loaded(r)
    BY <1>6 DEF RestartSettings, Loaded
  <2> QED BY <2>1, <2>2 DEF FlipsCarry, SwitchesSurvive
<1>7. ASSUME UNCHANGED settingsVars PROVE FlipsCarry' /\ SwitchesSurvive'
  <2>1. \A r : InFlight(r)' = InFlight(r) BY <1>7 DEF settingsVars, InFlight
  <2> QED BY <1>7, <2>1 DEF settingsVars, switches, FlipsCarry, SwitchesSurvive, Loaded
<1> QED BY <1>1, <1>2, <1>3, <1>4, <1>5, <1>6, <1>7 DEF SettingsNext, SwitchNext, WeightNext

\* A restart finds every switch as it was left, unless two requests crossed
\* over it or Redis failed, for any rules and any number of requests.
THEOREM SwitchesKept == SettingsSpec => []SwitchesSurvive
<1>1. SettingsInit => FlipsCarry /\ SwitchesSurvive
  BY DEF SettingsInit, FlipsCarry, SwitchesSurvive, InFlight, Loaded, Request
<1> QED BY <1>1, NextSwitches, SettingsTypeCorrect, PTL DEF SettingsSpec
-----------------------------------------------------------------------------
(***************************************************************************)
(* Weights                                                                 *)
(***************************************************************************)
\* A request is at work under the alarm's lock.
AtWork(q) ==
    \/ q \in Check /\ point[q] \in {"alpha", "beta", "zero", "flag"}
    \/ q \in Lift /\ point[q] \in {"alpha", "beta"}

\* Only the holder of the lock is at work, a check only where nothing is
\* rolled back; saved weights go with a rollback, except half way through one.
LockGuards ==
    /\ \A q \in Check \cup Lift : AtWork(q) <=> lock = q
    /\ lock \in Check => /\ ~rolled
                         /\ holds <=> point[lock] \in {"zero", "flag"}
    /\ lock \notin Check => (holds <=> rolled)

\* Where a check or a restore is between its writes, what is written and what
\* is saved are the administrators' weights.
HalfWay ==
    ~meddled =>
        /\ lock \in Check =>
              /\ point[lock] \in {"alpha", "beta", "zero"} => weights = Wanted
              /\ point[lock] = "beta" => kept["alpha"] = Wanted["alpha"]
              /\ point[lock] \in {"zero", "flag"} => kept = Wanted
              /\ point[lock] = "flag" => weights["alpha"] = 0
        /\ lock \in Lift =>
              /\ holds => kept = Wanted
              /\ point[lock] = "alpha" /\ ~holds => weights = Wanted
              /\ point[lock] = "beta" => weights["alpha"] = Wanted["alpha"]

WeightsInv == LockGuards /\ HalfWay /\ WeightsRemembered

LEMMA WeightsEqual ==
    \A v, w \in Weights : v["alpha"] = w["alpha"] /\ v["beta"] = w["beta"] => v = w
BY DEF Weights, Part

\* What is wanted changes with what it is made of, one part at a time.
LEMMA WantedKept == UNCHANGED <<chosen, undone>> => Wanted' = Wanted
BY DEF Wanted

LEMMA WantedType == SettingsTypeOK => Wanted \in Weights
BY RuntimeConstants DEF SettingsTypeOK, Wanted, Weights

LEMMA WantedGiven ==
    ASSUME SettingsTypeOK, NEW c \in Part, NEW x,
           chosen' = [chosen EXCEPT ![c] = x], undone' = undone \ {c}
    PROVE  Wanted' = [Wanted EXCEPT ![c] = x]
BY DEF SettingsTypeOK, Wanted, Weights

LEMMA WantedUndone ==
    ASSUME SettingsTypeOK, NEW c \in Part, chosen' = chosen, undone' = undone \cup {c}
    PROVE  Wanted' = [Wanted EXCEPT ![c] = Default[c]]
BY DEF SettingsTypeOK, Wanted, Weights

\* A step that concerns neither the alarm nor one of its requests.
LEMMA OtherStep ==
    ASSUME WeightsInv, UNCHANGED alarm,
           \A q \in Check \cup Lift : point'[q] = point[q]
    PROVE  WeightsInv'
<1>1. \A q \in Check \cup Lift : AtWork(q)' <=> AtWork(q) BY DEF AtWork
<1>2. Wanted' = Wanted BY WantedKept DEF alarm
<1> QED BY <1>1, <1>2 DEF WeightsInv, LockGuards, HalfWay, WeightsRemembered, alarm

LEMMA NextWeights == SettingsTypeOK /\ WeightsInv /\ [SettingsNext]_settingsVars => WeightsInv'
<1> SUFFICES ASSUME SettingsTypeOK, WeightsInv, [SettingsNext]_settingsVars PROVE WeightsInv' OBVIOUS
<1>0. /\ "alpha" \in Part /\ "beta" \in Part /\ Part = {"alpha", "beta"}
      /\ DOMAIN weights = Part /\ DOMAIN kept = Part /\ DOMAIN Wanted = Part
      /\ \A c \in Part : /\ weights[c] \in 0..Top /\ kept[c] \in 0..Top
                         /\ Wanted[c] \in 0..Top /\ Default[c] \in 0..Top
  BY RuntimeConstants, WantedType DEF SettingsTypeOK, Weights, Part
<1>d. /\ \A q \in Check \cup Lift : q # NoOne /\ q \in Request /\ q \notin Flip \cup Patch
      /\ Check \cap Lift = {} /\ NoOne \notin Check \cup Lift
      /\ lock \in Check \cup Lift \cup {NoOne}
      /\ (rolled \in BOOLEAN) /\ (holds \in BOOLEAN)
  BY RuntimeConstants DEF Request, SettingsTypeOK
<1>1. ASSUME NEW f \in Flip, Turn(f) \/ Persist(f) PROVE WeightsInv'
  <2>1. f \in Request BY DEF Request
  <2>2. \A q \in Check \cup Lift : point'[q] = point[q]
    BY <1>1, <1>d, <2>1, MovesOne DEF Turn, Persist, Point
  <2> QED BY <1>1, <2>2, OtherStep DEF Turn, Persist
<1>2. ASSUME NEW p \in Patch, WriteWeights(p) PROVE WeightsInv'
  <2>1. p \in Request BY DEF Request
  <2>2. PICK c \in Part :
          /\ Moves(p, IF c = "alpha" THEN "new" ELSE "beta", IF c = "alpha" THEN "beta" ELSE "done")
          /\ \/ /\ SetPart(c, Bodies[p].value[c])
                /\ chosen' = [chosen EXCEPT ![c] = Clip(Bodies[p].value[c])]
                /\ undone' = undone \ {c} /\ meddled' = (meddled \/ rolled \/ lock # NoOne)
             \/ UNCHANGED <<weights, chosen, undone, meddled>>
    BY <1>2 DEF WriteWeights
  <2>3. \A q \in Check \cup Lift : point'[q] = point[q]
    BY <1>d, <2>1, <2>2, MovesOne DEF Point
  <2>4. UNCHANGED <<rolled, kept, holds, lock>> BY <1>2 DEF WriteWeights
  <2>5. CASE UNCHANGED <<weights, chosen, undone, meddled>>
    BY <2>3, <2>4, <2>5, OtherStep DEF alarm
  <2>6. CASE /\ SetPart(c, Bodies[p].value[c])
             /\ chosen' = [chosen EXCEPT ![c] = Clip(Bodies[p].value[c])]
             /\ undone' = undone \ {c} /\ meddled' = (meddled \/ rolled \/ lock # NoOne)
    <3>1. \A q \in Check \cup Lift : AtWork(q)' <=> AtWork(q) BY <2>3 DEF AtWork
    <3>2. LockGuards' BY <1>d, <2>3, <2>4, <3>1 DEF LockGuards, WeightsInv
    <3>3. HalfWay' BY <1>d, <2>4, <2>6 DEF HalfWay
    <3>4. weights = Wanted => weights' = Wanted' BY <2>6, WantedGiven DEF SetPart
    <3>5. WeightsRemembered' BY <2>4, <2>6, <3>4 DEF WeightsRemembered, WeightsInv
    <3> QED BY <3>2, <3>3, <3>5 DEF WeightsInv
  <2> QED BY <2>2, <2>5, <2>6
<1>s. ASSUME NEW q \in Check \cup Lift, NEW a, NEW b \in Point, Moves(q, a, b)
      PROVE  /\ point[q] = a /\ point'[q] = b
             /\ \A o \in Check \cup Lift : o # q => point'[o] = point[o] /\ (AtWork(o)' <=> AtWork(o))
  <2>1. q \in Request BY <1>d
  <2>2. /\ point[q] = a /\ point'[q] = b
        /\ \A o \in Request \ {q} : point'[o] = point[o]
    BY <1>s, <2>1, MovesOne
  <2> QED BY <1>d, <2>2 DEF AtWork
<1>3. ASSUME NEW k \in Check, Collect(k) PROVE WeightsInv'
  <2>1. /\ point[k] = "new" /\ point'[k] \in {"signals", "done"}
        /\ \A o \in Check \cup Lift : o # k => point'[o] = point[o] /\ (AtWork(o)' <=> AtWork(o))
    BY <1>3, <1>s DEF Collect, Point
  <2>2. UNCHANGED alarm BY <1>3 DEF Collect
  <2>3. ~AtWork(k) /\ ~AtWork(k)' BY <1>d, <2>1 DEF AtWork
  <2>4. lock # k BY <2>3 DEF WeightsInv, LockGuards
  <2>5. Wanted' = Wanted BY <2>2, WantedKept DEF alarm
  <2> QED BY <1>d, <2>1, <2>2, <2>3, <2>4, <2>5
          DEF WeightsInv, LockGuards, HalfWay, WeightsRemembered, alarm
<1>4. ASSUME NEW k \in Check, Trigger(k) PROVE WeightsInv'
  <2>1. /\ point[k] = "signals" /\ lock = NoOne
        /\ \A o \in Check \cup Lift : o # k => point'[o] = point[o] /\ (AtWork(o)' <=> AtWork(o))
        /\ UNCHANGED <<weights, rolled, kept, holds, meddled>> /\ Wanted' = Wanted
        /\ \/ rolled /\ point'[k] = "done" /\ lock' = lock
           \/ ~rolled /\ point'[k] = "alpha" /\ lock' = k
    BY <1>4, <1>s, WantedKept DEF Trigger, Point
  <2>2. AtWork(k)' <=> lock' = k BY <1>d, <2>1 DEF AtWork
  <2>3. \A o \in Check \cup Lift : AtWork(o) <=> lock = o BY DEF WeightsInv, LockGuards
  <2>4. \A o \in Check \cup Lift : AtWork(o)' <=> lock' = o BY <1>d, <2>1, <2>2, <2>3
  <2>5. LockGuards' BY <1>d, <2>1, <2>4 DEF WeightsInv, LockGuards
  <2>6. HalfWay' BY <1>d, <2>1 DEF HalfWay, WeightsInv, WeightsRemembered
  <2>7. WeightsRemembered' BY <1>d, <2>1 DEF WeightsInv, WeightsRemembered
  <2> QED BY <2>5, <2>6, <2>7 DEF WeightsInv
<1>5. ASSUME NEW k \in Check, Save(k) PROVE WeightsInv'
  <2>1. /\ \A o \in Check \cup Lift : o # k => point'[o] = point[o] /\ (AtWork(o)' <=> AtWork(o))
        /\ UNCHANGED <<weights, rolled, lock, meddled>> /\ Wanted' = Wanted
        /\ \/ /\ point[k] = "alpha" /\ point'[k] = "beta" /\ holds' = holds
              /\ kept' = [kept EXCEPT !["alpha"] = weights["alpha"]]
           \/ /\ point[k] = "beta" /\ point'[k] = "zero" /\ holds' = TRUE
              /\ kept' = [kept EXCEPT !["beta"] = weights["beta"]]
    BY <1>5, <1>s, WantedKept DEF Save, Point
  <2>2. AtWork(k) /\ AtWork(k)' BY <1>d, <2>1 DEF AtWork
  <2>3. lock = k BY <2>2 DEF WeightsInv, LockGuards
  <2>g. \A o \in Check \cup Lift : AtWork(o)' <=> lock' = o
    <3>1. \A o \in Check \cup Lift : AtWork(o) <=> o = k BY <2>3 DEF WeightsInv, LockGuards
    <3> QED BY <2>1, <2>2, <2>3, <3>1
  <2>4. LockGuards'
    <3>0. lock \in Check BY <2>3
    <3>1. ~rolled BY <3>0 DEF WeightsInv, LockGuards
    <3>2. holds <=> point[lock] \in {"zero", "flag"} BY <3>0 DEF WeightsInv, LockGuards
    <3>3. (holds' <=> point'[k] \in {"zero", "flag"}) /\ lock' = k /\ rolled' = rolled
      BY <2>1, <2>3, <3>2
    <3> QED BY <2>g, <3>0, <3>1, <3>3 DEF LockGuards
  <2>5. HalfWay'
    <3>1. CASE point[k] = "alpha"
      BY <1>0, <1>d, <2>1, <2>3, <3>1 DEF HalfWay, WeightsInv
    <3>2. CASE point[k] = "beta"
      <4>1. SUFFICES ASSUME ~meddled PROVE weights = Wanted /\ kept' = Wanted
        BY <1>d, <2>1, <2>3, <3>2 DEF HalfWay
      <4>2. weights = Wanted /\ kept["alpha"] = Wanted["alpha"]
        BY <2>3, <3>2, <4>1 DEF HalfWay, WeightsInv
      <4>3. kept'["alpha"] = Wanted["alpha"] /\ kept'["beta"] = Wanted["beta"]
        BY <1>0, <2>1, <3>2, <4>2
      <4>4. kept' \in Weights /\ Wanted \in Weights BY <1>0, <2>1, <3>2, WantedType DEF SettingsTypeOK, Weights
      <4> QED BY <4>2, <4>3, <4>4, WeightsEqual
    <3> QED BY <2>1, <3>1, <3>2
  <2>6. WeightsRemembered' BY <1>d, <2>1, <2>3 DEF WeightsRemembered
  <2> QED BY <2>4, <2>5, <2>6 DEF WeightsInv
<1>6. ASSUME NEW k \in Check, Zero(k) PROVE WeightsInv'
  <2>0. Clip(0) = 0 BY DEF Clip, Top
  <2>1. /\ \A o \in Check \cup Lift : o # k => point'[o] = point[o] /\ (AtWork(o)' <=> AtWork(o))
        /\ UNCHANGED <<kept, holds, meddled>> /\ Wanted' = Wanted
        /\ \/ /\ point[k] = "zero" /\ point'[k] = "flag" /\ UNCHANGED <<rolled, lock>>
              /\ weights' = [weights EXCEPT !["alpha"] = 0]
           \/ /\ point[k] = "flag" /\ point'[k] = "done" /\ rolled' = TRUE /\ lock' = NoOne
              /\ weights' = [weights EXCEPT !["beta"] = 0]
    BY <1>6, <1>s, <2>0, WantedKept DEF Zero, Point, SetPart
  <2>2. AtWork(k) BY <1>d, <2>1 DEF AtWork
  <2>3. lock = k /\ holds BY <2>1, <2>2 DEF WeightsInv, LockGuards
  <2>4. AtWork(k)' <=> lock' = k BY <1>d, <2>1, <2>3 DEF AtWork
  <2>5. \A o \in Check \cup Lift : AtWork(o)' <=> lock' = o
    <3>1. \A o \in Check \cup Lift : AtWork(o) <=> o = k BY <2>3 DEF WeightsInv, LockGuards
    <3> QED BY <1>d, <2>1, <2>3, <2>4, <3>1
  <2>6. LockGuards' BY <1>d, <2>1, <2>3, <2>5 DEF WeightsInv, LockGuards
  <2>7. ~meddled => kept = Wanted /\ (point[k] = "flag" => weights["alpha"] = 0)
    BY <2>1, <2>3 DEF WeightsInv, HalfWay
  <2>8. HalfWay' BY <1>0, <1>d, <2>1, <2>3, <2>7 DEF HalfWay
  <2>9. WeightsRemembered'
    <3>1. SUFFICES ASSUME ~meddled, point[k] = "flag"
                   PROVE  weights' = [c \in Part |-> 0]
      BY <1>d, <2>1, <2>3, <2>7 DEF WeightsRemembered
    <3> QED BY <1>0, <2>1, <2>7, <3>1
  <2> QED BY <2>6, <2>8, <2>9 DEF WeightsInv
<1>7. ASSUME NEW l \in Lift, Restore(l) PROVE WeightsInv'
  <2>1. /\ point[l] = "new" /\ point'[l] = "alpha" /\ lock = NoOne /\ lock' = l
        /\ \A o \in Check \cup Lift : o # l => point'[o] = point[o] /\ (AtWork(o)' <=> AtWork(o))
        /\ UNCHANGED <<weights, rolled, kept, holds, meddled>> /\ Wanted' = Wanted
    BY <1>7, <1>s, WantedKept DEF Restore, Point
  <2>2. AtWork(l)' BY <2>1 DEF AtWork
  <2>3. \A o \in Check \cup Lift : AtWork(o)' <=> lock' = o
    BY <1>d, <2>1, <2>2 DEF WeightsInv, LockGuards
  <2>4. LockGuards' BY <1>d, <2>1, <2>3 DEF WeightsInv, LockGuards
  <2>5. HalfWay'
    BY <1>d, <2>1 DEF HalfWay, WeightsInv, WeightsRemembered, LockGuards
  <2>6. WeightsRemembered' BY <1>d, <2>1 DEF WeightsRemembered
  <2> QED BY <2>4, <2>5, <2>6 DEF WeightsInv
<1>8. ASSUME NEW l \in Lift, PutBack(l) PROVE WeightsInv'
  <2> DEFINE x(c) == IF holds THEN kept[c] ELSE Default[c]
  <2>0. \A c \in Part : Clip(x(c)) = x(c) BY <1>0, ClipKeeps
  <2>1. /\ \A o \in Check \cup Lift : o # l => point'[o] = point[o] /\ (AtWork(o)' <=> AtWork(o))
        /\ UNCHANGED <<kept, chosen, meddled>>
        /\ \/ /\ point[l] = "alpha" /\ point'[l] = "beta" /\ UNCHANGED <<rolled, holds, lock>>
              /\ weights' = [weights EXCEPT !["alpha"] = x("alpha")]
              /\ undone' = IF rolled THEN undone ELSE undone \cup {"alpha"}
           \/ /\ point[l] = "beta" /\ point'[l] = "done"
              /\ rolled' = FALSE /\ holds' = FALSE /\ lock' = NoOne
              /\ weights' = [weights EXCEPT !["beta"] = x("beta")]
              /\ undone' = IF rolled THEN undone ELSE undone \cup {"beta"}
    BY <1>0, <1>8, <1>s, <2>0 DEF PutBack, Point, SetPart
  <2>2. AtWork(l) BY <2>1 DEF AtWork
  <2>3. lock = l /\ (holds <=> rolled) BY <1>d, <2>2 DEF WeightsInv, LockGuards
  <2>4. AtWork(l)' <=> lock' = l BY <1>d, <2>1, <2>3 DEF AtWork
  <2>5. \A o \in Check \cup Lift : AtWork(o)' <=> lock' = o
    <3>1. \A o \in Check \cup Lift : AtWork(o) <=> o = l BY <2>3 DEF WeightsInv, LockGuards
    <3> QED BY <1>d, <2>1, <2>3, <2>4, <3>1
  <2>6. LockGuards' BY <1>d, <2>1, <2>3, <2>5 DEF WeightsInv, LockGuards
  <2>7. ~meddled => /\ holds => kept = Wanted
                    /\ point[l] = "beta" => weights["alpha"] = Wanted["alpha"]
    BY <1>d, <2>3 DEF WeightsInv, HalfWay
  <2>8. /\ holds => Wanted' = Wanted
        /\ ~holds /\ point[l] = "alpha" => Wanted' = [Wanted EXCEPT !["alpha"] = Default["alpha"]]
        /\ ~holds /\ point[l] = "beta" => Wanted' = [Wanted EXCEPT !["beta"] = Default["beta"]]
    BY <1>0, <2>1, <2>3, WantedKept, WantedUndone
  <2>w. Wanted' \in Weights
    BY <1>0, <2>1, <2>3, <2>8, WantedType, RuntimeConstants DEF Weights
  <2>9. CASE point[l] = "alpha"
    <3>1. ~meddled => weights'["alpha"] = Wanted'["alpha"]
      BY <1>0, <2>1, <2>7, <2>8, <2>9
    <3>2. HalfWay' BY <1>d, <2>1, <2>3, <2>7, <2>8, <2>9, <3>1 DEF HalfWay
    <3>3. WeightsRemembered' BY <1>d, <2>1, <2>3, <2>9 DEF WeightsRemembered
    <3> QED BY <2>6, <3>2, <3>3 DEF WeightsInv
  <2>10. CASE point[l] = "beta"
    <3>1. ~meddled => weights'["beta"] = Wanted'["beta"] /\ weights'["alpha"] = Wanted'["alpha"]
      BY <1>0, <2>1, <2>7, <2>8, <2>10
    <3>2. weights' \in Weights /\ Wanted' \in Weights
      BY <1>0, <2>1, <2>10, <2>w DEF SettingsTypeOK, Weights
    <3>3. ~meddled => weights' = Wanted' BY <3>1, <3>2, WeightsEqual
    <3>4. HalfWay' BY <1>d, <2>1, <2>10 DEF HalfWay
    <3>5. WeightsRemembered' BY <2>1, <2>10, <3>3 DEF WeightsRemembered
    <3> QED BY <2>6, <3>4, <3>5 DEF WeightsInv
  <2> QED BY <2>1, <2>9, <2>10
<1>9. ASSUME RestartSettings PROVE WeightsInv'
  <2>1. \A q \in Check \cup Lift : point'[q] \in {"new", "done"} BY <1>9, <1>d DEF RestartSettings
  <2>2. \A q \in Check \cup Lift : ~AtWork(q)' BY <2>1 DEF AtWork
  <2>3. lock' = NoOne /\ ~rolled' /\ ~holds' /\ weights' = Default /\ undone' = Part BY <1>9 DEF RestartSettings
  <2>4. weights' = Wanted' BY <2>3, RuntimeConstants DEF Wanted, Weights
  <2> QED BY <1>d, <2>2, <2>3, <2>4 DEF WeightsInv, LockGuards, HalfWay, WeightsRemembered
<1>10. ASSUME UNCHANGED settingsVars PROVE WeightsInv'
  <2>1. UNCHANGED alarm /\ UNCHANGED point BY <1>10 DEF settingsVars
  <2> QED BY <2>1, OtherStep
<1> QED BY <1>1, <1>2, <1>3, <1>4, <1>5, <1>6, <1>7, <1>8, <1>9, <1>10 DEF SettingsNext, SwitchNext, WeightNext

\* No checks and restores, however many and however interleaved, lose the
\* weights that administrators chose, but those after a restart or a restore
\* while nothing is rolled back; while no PATCH comes between.
THEOREM WeightsKept == SettingsSpec => []WeightsRemembered
<1>1. SettingsInit => WeightsInv
  <2> SUFFICES ASSUME SettingsInit PROVE WeightsInv
    OBVIOUS
  <2>1. Wanted = Default
    BY RuntimeConstants DEF SettingsInit, Wanted, Weights
  <2> QED BY <2>1, RuntimeConstants DEF SettingsInit, WeightsInv, LockGuards, HalfWay, WeightsRemembered, AtWork, Request
<1>2. WeightsInv => WeightsRemembered BY DEF WeightsInv
<1> QED BY <1>1, <1>2, NextWeights, SettingsTypeCorrect, PTL DEF SettingsSpec

-----------------------------------------------------------------------------
(***************************************************************************)
(* The step-up store, for any nodes, transactions and answers              *)
(***************************************************************************)

LEMMA SaysFields ==
    ASSUME NEW a \in Answer
    PROVE  /\ Says[a].node \in Node /\ Says[a].tx \in Tx
           /\ Decision(a) \in {"PASS", "BLOCK"}
BY StepUpConstants DEF Decision

LEMMA EntryParts ==
    /\ \A s \in {"absent", "pending", "resolved"}, x \in {"none", "PASS", "BLOCK"}, b \in BOOLEAN :
          [status |-> s, action |-> x, ttl |-> b] \in Entry
    /\ \A e \in Entry : /\ e = [status |-> e.status, action |-> e.action, ttl |-> e.ttl]
                        /\ e.status \in {"absent", "pending", "resolved"}
                        /\ e.action \in {"none", "PASS", "BLOCK"} /\ e.ttl \in BOOLEAN
BY DEF Entry

\* A step either fails a call or leaves the history of failures alone.
LEMMA FailedType ==
    ASSUME StepUpTypeOK, [StepUpNext]_stepUpVars
    PROVE  failed' \in BOOLEAN /\ (failed => failed')
<1>1. ASSUME NEW n \in Node, NEW t \in Tx, Open(n, t)
      PROVE  failed' = failed \/ failed' = TRUE
  BY <1>1 DEF Open, Fail
<1>2. ASSUME NEW a \in Answer, Read(a) \/ Ask(a) \/ Write(a)
      PROVE  failed' = failed \/ failed' = TRUE
  BY <1>2 DEF Read, Gets, Ask, Write, Fail
<1>3. ASSUME NEW t \in Tx, Expire(t) PROVE failed' = failed BY <1>3 DEF Expire
<1>4. ASSUME NEW n \in Node, Restart(n) PROVE failed' = failed BY <1>4 DEF Restart
<1>5. UNCHANGED stepUpVars => failed' = failed BY DEF stepUpVars
<1>6. failed' = failed \/ failed' = TRUE BY <1>1, <1>2, <1>3, <1>4, <1>5 DEF StepUpNext
<1> QED BY <1>6 DEF StepUpTypeOK

LEMMA TellType ==
    ASSUME StepUpTypeOK, NEW a \in Answer, NEW k \in {"missing", "already", "decided"},
           NEW x \in {"none", "PASS", "BLOCK"}, Tell(a, k, x)
    PROVE  reply' \in [Answer -> Reply]
BY DEF Tell, StepUpTypeOK, Reply

LEMMA LocalExcept ==
    ASSUME NEW f \in [Node -> [Tx -> Entry]], NEW n \in Node, NEW t \in Tx, NEW e \in Entry
    PROVE  [f EXCEPT ![n][t] = e] \in [Node -> [Tx -> Entry]]
<1>1. [f[n] EXCEPT ![t] = e] \in [Tx -> Entry] OBVIOUS
<1> QED BY <1>1

LEMMA LocalType ==
    ASSUME StepUpTypeOK, NEW a \in Answer, UpdateLocally(a)
    PROVE  local' \in [Node -> [Tx -> Entry]]
<1> DEFINE n == Says[a].node  t == Says[a].tx
<1>1. n \in Node /\ t \in Tx /\ Decision(a) \in {"none", "PASS", "BLOCK"} BY SaysFields
<1> DEFINE e == [status |-> "resolved", action |-> Decision(a), ttl |-> FALSE]
<1>2. e \in Entry BY <1>1, EntryParts
<1>3. local' = local \/ local' = [local EXCEPT ![n][t] = e] BY DEF UpdateLocally
<1> HIDE DEF e
<1>4. local \in [Node -> [Tx -> Entry]] BY DEF StepUpTypeOK
<1>5. [local EXCEPT ![n][t] = e] \in [Node -> [Tx -> Entry]]
  BY <1>1, <1>2, <1>4, LocalExcept
<1> QED BY <1>3, <1>4, <1>5

LEMMA RedisType ==
    ASSUME StepUpTypeOK, NEW a \in Answer, UpdateInRedis(a)
    PROVE  redis' \in [Tx -> Entry]
<1> DEFINE t == Says[a].tx
           e == [status |-> "resolved", action |-> Decision(a), ttl |-> redis[t].ttl]
<1>1. t \in Tx /\ Decision(a) \in {"none", "PASS", "BLOCK"} BY SaysFields
<1>2. redis[t].ttl \in BOOLEAN BY <1>1, EntryParts DEF StepUpTypeOK
<1>3. e \in Entry BY <1>1, <1>2, EntryParts
<1>4. redis' = [redis EXCEPT ![t] = e] BY <1>1 DEF UpdateInRedis, StepUpTypeOK
<1> HIDE DEF e
<1> QED BY <1>1, <1>3, <1>4 DEF StepUpTypeOK

LEMMA DecideType ==
    ASSUME StepUpTypeOK, NEW a \in Answer, Decide(a)
    PROVE  /\ reply' \in [Answer -> Reply] /\ stage' \in [Answer -> Stage]
           /\ decided' \in [Tx -> SUBSET Answer]
<1>1. Decision(a) \in {"none", "PASS", "BLOCK"} /\ Says[a].tx \in Tx BY SaysFields
<1>2. reply' \in [Answer -> Reply] BY <1>1, TellType DEF Decide
<1> QED BY <1>1, <1>2 DEF Decide, StepUpTypeOK, Stage

\* Entries, answers and replies keep their types, with or without failures.
THEOREM StepUpTypeCorrect == StepUpSpec => []StepUpTypeOK
<1>1. StepUpInit => StepUpTypeOK
  <2>1. Absent \in Entry BY EntryParts DEF Absent
  <2>2. NoReply \in Reply BY DEF NoReply, Reply
  <2>3. 0 \in 0..MaxOpens BY StepUpConstants
  <2>4. StepUpInit => (redis \in [Tx -> Entry]) /\ (local \in [Node -> [Tx -> Entry]])
    BY <2>1 DEF StepUpInit
  <2>5. StepUpInit => (stage \in [Answer -> Stage]) /\ (reply \in [Answer -> Reply])
    BY <2>2 DEF StepUpInit, Stage
  <2>6. StepUpInit => (decided \in [Tx -> SUBSET Answer]) /\ (earlier \in [Answer -> SUBSET Answer])
    BY DEF StepUpInit
  <2>7. StepUpInit => (opens \in [Tx -> 0..MaxOpens]) /\ (failed \in BOOLEAN) BY <2>3 DEF StepUpInit
  <2> QED BY <2>4, <2>5, <2>6, <2>7 DEF StepUpTypeOK
<1>2. StepUpTypeOK /\ [StepUpNext]_stepUpVars => StepUpTypeOK'
  <2> SUFFICES ASSUME StepUpTypeOK, [StepUpNext]_stepUpVars PROVE StepUpTypeOK' OBVIOUS
  <2>0. failed' \in BOOLEAN BY FailedType
  <2>1. ASSUME NEW n \in Node, NEW t \in Tx, Open(n, t) PROVE StepUpTypeOK'
    <3>1. OpenInRedis(t) => redis' \in [Tx -> Entry]
      <4> DEFINE e == [status |-> "pending", action |-> redis[t].action, ttl |-> TRUE]
      <4>1. e \in Entry BY EntryParts DEF StepUpTypeOK
      <4>2. OpenInRedis(t) => redis' = [redis EXCEPT ![t] = e] BY DEF OpenInRedis, StepUpTypeOK
      <4> HIDE DEF e
      <4> QED BY <4>1, <4>2 DEF StepUpTypeOK
    <3>2. OpenLocally(n, t) => local' \in [Node -> [Tx -> Entry]]
      <4> DEFINE e == [status |-> "pending", action |-> "none", ttl |-> FALSE]
      <4>1. e \in Entry BY EntryParts
      <4>2. OpenLocally(n, t) => local' = [local EXCEPT ![n][t] = e] BY DEF OpenLocally
      <4> HIDE DEF e
      <4>3. local \in [Node -> [Tx -> Entry]] BY DEF StepUpTypeOK
      <4>4. [local EXCEPT ![n][t] = e] \in [Node -> [Tx -> Entry]] BY <4>1, <4>3, LocalExcept
      <4> QED BY <4>2, <4>4
    <3>3. (redis' \in [Tx -> Entry]) /\ (local' \in [Node -> [Tx -> Entry]])
      BY <2>1, <3>1, <3>2 DEF Open, StepUpTypeOK
    <3>4. opens' \in [Tx -> 0..MaxOpens] /\ decided' \in [Tx -> SUBSET Answer]
      BY <2>1, StepUpConstants DEF Open, StepUpTypeOK
    <3> QED BY <2>0, <2>1, <3>3, <3>4 DEF Open, StepUpTypeOK
  <2>2. ASSUME NEW a \in Answer, Read(a) PROVE StepUpTypeOK'
    <3>1. PICK e \in {redis[Says[a].tx], local[Says[a].node][Says[a].tx]} :
            \/ /\ e.status = "absent"
               /\ Tell(a, "missing", "none") /\ stage' = [stage EXCEPT ![a] = "done"]
            \/ /\ e.status = "resolved"
               /\ Tell(a, "already", e.action) /\ stage' = [stage EXCEPT ![a] = "done"]
            \/ /\ e.status = "pending"
               /\ stage' = [stage EXCEPT ![a] = "ask"] /\ UNCHANGED reply
      BY <2>2 DEF Read
    <3>2. e.action \in {"none", "PASS", "BLOCK"} BY SaysFields, EntryParts DEF StepUpTypeOK
    <3>3. reply' \in [Answer -> Reply] BY <3>1, <3>2, TellType DEF StepUpTypeOK
    <3>4. stage' \in [Answer -> Stage] BY <3>1 DEF StepUpTypeOK, Stage
    <3>5. earlier' \in [Answer -> SUBSET Answer] BY <2>2, SaysFields DEF Read, StepUpTypeOK
    <3> QED BY <2>0, <2>2, <3>3, <3>4, <3>5 DEF Read, StepUpTypeOK
  <2>3. ASSUME NEW a \in Answer, Ask(a) PROVE StepUpTypeOK'
    <3>1. CASE stage' = [stage EXCEPT ![a] = "write"] /\ UNCHANGED <<local, reply, decided>>
      BY <2>0, <2>3, <3>1 DEF Ask, StepUpTypeOK, Stage
    <3>2. CASE UpdateLocally(a) /\ Decide(a)
      BY <2>0, <2>3, <3>2, LocalType, DecideType DEF Ask, StepUpTypeOK
    <3> QED BY <2>3, <3>1, <3>2 DEF Ask
  <2>4. ASSUME NEW a \in Answer, Write(a) PROVE StepUpTypeOK'
    <3>1. (redis' \in [Tx -> Entry]) /\ (local' \in [Node -> [Tx -> Entry]])
      BY <2>4, RedisType, LocalType DEF Write, StepUpTypeOK
    <3> QED BY <2>0, <2>4, <3>1, DecideType DEF Write, StepUpTypeOK
  <2>5. ASSUME NEW t \in Tx, Expire(t) PROVE StepUpTypeOK'
    BY <2>5, EntryParts DEF Expire, StepUpTypeOK, Absent
  <2>6. ASSUME NEW n \in Node, Restart(n) PROVE StepUpTypeOK'
    <3>1. local' \in [Node -> [Tx -> Entry]]
      BY <2>6, EntryParts DEF Restart, StepUpTypeOK, Absent
    <3> QED BY <2>6, <3>1 DEF Restart, StepUpTypeOK, Stage
  <2>7. ASSUME UNCHANGED stepUpVars PROVE StepUpTypeOK' BY <2>7 DEF stepUpVars, StepUpTypeOK
  <2> QED BY <2>1, <2>2, <2>3, <2>4, <2>5, <2>6, <2>7 DEF StepUpNext
<1> QED BY <1>1, <1>2, PTL DEF StepUpSpec
-----------------------------------------------------------------------------
(***************************************************************************)
(* Answers after answers                                                   *)
(***************************************************************************)
\* While no call fails the dictionaries are empty.  Once an answer has
\* decided, the hash is gone or holds its decision or that of another, until
\* the transaction is opened again; a hash that is resolved holds the decision
\* of an answer; and an answer that found one stops there.
Settled ==
    /\ \A n \in Node, t \in Tx : local[n][t].status = "absent"
    /\ \A t \in Tx :
          /\ decided[t] # {} => redis[t].status # "pending"
          /\ redis[t].status = "resolved" =>
                \E b \in decided[t] : redis[t].action = Decision(b)
    /\ \A a \in Answer :
          /\ stage[a] = "new" => earlier[a] = {} /\ reply[a].kind = "none"
          /\ stage[a] \in {"ask", "write"} => earlier[a] = {} /\ reply[a].kind = "none"

\* It holds until a call of Redis fails.
SettledInv == ~failed => Settled /\ LateAnswerRepeats

LEMMA InitSettled == StepUpInit => SettledInv
BY DEF StepUpInit, SettledInv, Settled, LateAnswerRepeats, Absent, NoReply

LEMMA NextSettled == StepUpTypeOK /\ SettledInv /\ [StepUpNext]_stepUpVars => SettledInv'
<1> SUFFICES ASSUME StepUpTypeOK, Settled, LateAnswerRepeats, [StepUpNext]_stepUpVars, ~failed, ~failed'
             PROVE  Settled' /\ LateAnswerRepeats'
  BY FailedType DEF SettledInv
<1>f. ~Fail BY DEF Fail
<1>0. /\ DOMAIN redis = Tx /\ DOMAIN decided = Tx /\ DOMAIN stage = Answer
      /\ DOMAIN reply = Answer /\ DOMAIN earlier = Answer
      /\ \A t \in Tx : redis[t] \in Entry
  BY DEF StepUpTypeOK
<1>1. ASSUME NEW n \in Node, NEW t \in Tx, Open(n, t) PROVE Settled' /\ LateAnswerRepeats'
  <2>1. redis'[t].status = "pending" /\ \A u \in Tx \ {t} : redis'[u] = redis[u]
    BY <1>0, <1>1, <1>f, EntryParts DEF Open, OpenInRedis
  <2> QED BY <1>0, <1>1, <1>f, <2>1 DEF Open, Settled, LateAnswerRepeats
<1>2. ASSUME NEW a \in Answer, Read(a) PROVE Settled' /\ LateAnswerRepeats'
  <2> DEFINE t == Says[a].tx
             e == redis[t]
  <2>1. t \in Tx /\ Says[a].node \in Node /\ e \in Entry BY <1>0, SaysFields
  <2>2. \A x : Gets(Says[a].node, t, x) => x.status = e.status /\ (x.status # "absent" => x = e)
    BY <1>f, <2>1 DEF Gets, Settled
  <2>3. \/ e.status = "absent" /\ reply' = [reply EXCEPT ![a] = [kind |-> "missing", action |-> "none"]]
           /\ stage' = [stage EXCEPT ![a] = "done"]
        \/ e.status = "resolved" /\ reply' = [reply EXCEPT ![a] = [kind |-> "already", action |-> e.action]]
           /\ stage' = [stage EXCEPT ![a] = "done"]
        \/ e.status = "pending" /\ reply' = reply /\ stage' = [stage EXCEPT ![a] = "ask"]
    BY <1>2, <2>2 DEF Read, Tell
  <2>4. /\ earlier' = [earlier EXCEPT ![a] = decided[t]] /\ stage[a] = "new"
        /\ UNCHANGED <<redis, local, decided>>
    BY <1>2 DEF Read
  <2>5. /\ e.status = "pending" => decided[t] = {}
        /\ e.status = "resolved" => \E b \in decided[t] : e.action = Decision(b)
    BY <2>1 DEF Settled
  <2> HIDE DEF t, e
  <2>6. Settled' BY <1>0, <2>3, <2>4, <2>5 DEF Settled
  <2>7. LateAnswerRepeats'
    <3>1. ASSUME NEW c \in Answer, c # a
          PROVE  earlier'[c] = earlier[c] /\ reply'[c] = reply[c]
      BY <1>0, <2>3, <2>4, <3>1
    <3>2. earlier'[a] = decided[t] BY <1>0, <2>4
    <3>3. CASE e.status = "absent"
      <4>1. reply'[a].kind = "missing" BY <1>0, <2>3, <3>3
      <4> QED BY <3>1, <4>1 DEF LateAnswerRepeats
    <3>4. CASE e.status = "resolved"
      <4>1. reply'[a].kind = "already" /\ reply'[a].action = e.action BY <1>0, <2>3, <3>4
      <4> QED BY <2>5, <3>1, <3>2, <3>4, <4>1 DEF LateAnswerRepeats
    <3>5. CASE e.status = "pending"
      <4>1. reply'[a].kind = "none" BY <1>0, <2>3, <2>4, <3>5 DEF Settled
      <4> QED BY <3>1, <4>1 DEF LateAnswerRepeats
    <3> QED BY <2>3, <3>3, <3>4, <3>5
  <2> QED BY <2>6, <2>7
<1>3. ASSUME NEW a \in Answer, Decide(a), stage[a] \in {"ask", "write"},
             UNCHANGED <<local, earlier>>,
             LET t == Says[a].tx
             IN  /\ redis'[t].status # "pending"
                 /\ redis'[t].status = "resolved" => redis'[t].action = Decision(a)
                 /\ \A u \in Tx \ {t} : redis'[u] = redis[u]
      PROVE  Settled' /\ LateAnswerRepeats'
  <2> DEFINE t == Says[a].tx
  <2>1. /\ t \in Tx /\ decided' = [decided EXCEPT ![t] = @ \cup {a}]
        /\ reply' = [reply EXCEPT ![a] = [kind |-> "decided", action |-> Decision(a)]]
        /\ stage' = [stage EXCEPT ![a] = "done"]
    BY <1>3, SaysFields DEF Decide, Tell
  <2>2. earlier[a] = {} BY <1>3 DEF Settled
  <2> HIDE DEF t
  <2>3. redis'[t].status # "pending" /\ (redis'[t].status = "resolved" => redis'[t].action = Decision(a))
        /\ \A u \in Tx \ {t} : redis'[u] = redis[u]
    BY <1>3 DEF t
  <2>4. a \in decided'[t] /\ \A u \in Tx \ {t} : decided'[u] = decided[u]
    BY <1>0, <2>1
  <2>5. Settled' BY <1>0, <1>3, <2>1, <2>3, <2>4 DEF Settled
  <2>6. LateAnswerRepeats' BY <1>0, <1>3, <2>1, <2>2 DEF LateAnswerRepeats
  <2> QED BY <2>5, <2>6
<1>4. ASSUME NEW a \in Answer, Ask(a) PROVE Settled' /\ LateAnswerRepeats'
  <2>1. CASE UpdateLocally(a) /\ Decide(a)
    <3>1. local' = local BY <2>1, SaysFields DEF UpdateLocally, Settled
    <3>2. stage'[a] = "done" BY <1>0, <2>1 DEF Decide
    <3>3. redis[Says[a].tx].status = "absent" BY <1>0, <1>4, <1>f, <3>2 DEF Ask
    <3> QED BY <1>3, <1>4, <2>1, <3>1, <3>3 DEF Ask
  <2>2. CASE stage' = [stage EXCEPT ![a] = "write"] /\ UNCHANGED <<local, reply, decided>>
    BY <1>0, <1>4, <2>2 DEF Ask, Settled, LateAnswerRepeats
  <2> QED BY <1>4, <2>1, <2>2 DEF Ask
<1>5. ASSUME NEW a \in Answer, Write(a) PROVE Settled' /\ LateAnswerRepeats'
  <2>1. UpdateInRedis(a) /\ UNCHANGED <<local, earlier>> /\ Decide(a) /\ stage[a] = "write"
    BY <1>5, <1>f DEF Write
  <2>2. /\ redis'[Says[a].tx].status = "resolved"
        /\ redis'[Says[a].tx].action = Decision(a)
        /\ \A u \in Tx \ {Says[a].tx} : redis'[u] = redis[u]
    BY <1>0, <2>1, SaysFields, EntryParts DEF UpdateInRedis
  <2> QED BY <1>3, <2>1, <2>2
<1>6. ASSUME NEW t \in Tx, Expire(t) PROVE Settled' /\ LateAnswerRepeats'
  BY <1>0, <1>6 DEF Expire, Absent, Settled, LateAnswerRepeats
<1>7. ASSUME NEW n \in Node, Restart(n) PROVE Settled' /\ LateAnswerRepeats'
  <2>1. \A m \in Node, t \in Tx : local'[m][t].status = "absent"
    BY <1>7 DEF Restart, Absent, Settled, StepUpTypeOK
  <2>2. \A a \in Answer : stage'[a] \in {"lost", stage[a]} BY <1>0, <1>7 DEF Restart
  <2> QED BY <1>7, <2>1, <2>2 DEF Restart, Settled, LateAnswerRepeats
<1>8. ASSUME UNCHANGED stepUpVars PROVE Settled' /\ LateAnswerRepeats'
  BY <1>8 DEF stepUpVars, Settled, LateAnswerRepeats
<1> QED BY <1>1, <1>2, <1>4, <1>5, <1>6, <1>7, <1>8 DEF StepUpNext

\* Until a call of Redis fails, an answer after another never decides anew,
\* whatever expires, restarts or is opened again.
THEOREM AnswersSettle == StepUpSpec => []LateAnswerRepeats
<1>1. SettledInv => LateAnswerRepeats BY DEF SettledInv, LateAnswerRepeats
<1> QED BY InitSettled, NextSettled, <1>1, StepUpTypeCorrect, PTL DEF StepUpSpec
-----------------------------------------------------------------------------
(***************************************************************************)
(* What answers are told                                                   *)
(***************************************************************************)
\* An answer to transaction t that was accepted says x.
Made(t, x) ==
    \E b \in Answer : Says[b].tx = t /\ reply[b].kind = "decided" /\ x = Decision(b)

\* Resolved entries, in Redis and in the dictionaries, hold a decision made;
\* an answer that has yet to decide has not been told anything.
EntriesWereMade ==
    /\ \A t \in Tx : redis[t].status = "resolved" => Made(t, redis[t].action)
    /\ \A n \in Node, t \in Tx : local[n][t].status = "resolved" => Made(t, local[n][t].action)
    /\ \A a \in Answer : stage[a] \in {"new", "ask", "write"} => reply[a].kind = "none"

LEMMA InitMade == StepUpInit => EntriesWereMade /\ RepeatsWereMade
BY DEF StepUpInit, EntriesWereMade, RepeatsWereMade, Absent, NoReply

LEMMA NextMade == StepUpTypeOK /\ EntriesWereMade /\ RepeatsWereMade /\ [StepUpNext]_stepUpVars
                    => EntriesWereMade' /\ RepeatsWereMade'
<1> SUFFICES ASSUME StepUpTypeOK, EntriesWereMade, RepeatsWereMade, [StepUpNext]_stepUpVars
             PROVE  EntriesWereMade' /\ RepeatsWereMade'
  OBVIOUS
<1>0. /\ DOMAIN redis = Tx /\ DOMAIN stage = Answer /\ DOMAIN reply = Answer
      /\ \A t \in Tx : redis[t] \in Entry
      /\ \A n \in Node, t \in Tx : local[n][t] \in Entry
      /\ DOMAIN local = Node /\ \A n \in Node : DOMAIN local[n] = Tx
  BY DEF StepUpTypeOK
<1>r. \A a \in Answer : \A x : reply[a].kind = "already" /\ x = reply[a].action => Made(Says[a].tx, x)
  BY DEF RepeatsWereMade, Made
<1>R. (\A a \in Answer : \A x :
          reply'[a].kind = "already" /\ x = reply'[a].action => Made(Says[a].tx, x)')
        => RepeatsWereMade'
  BY DEF RepeatsWereMade, Made, Decision
<1>1. ASSUME NEW n \in Node, NEW t \in Tx, Open(n, t) PROVE EntriesWereMade' /\ RepeatsWereMade'
  <2>1. UNCHANGED <<stage, reply>> BY <1>1 DEF Open
  <2>2. \A u \in Tx : \A x : Made(u, x)' <=> Made(u, x) BY <2>1 DEF Made
  <2>3. \A u \in Tx : redis'[u].status = "resolved" => redis'[u] = redis[u]
    BY <1>0, <1>1 DEF Open, OpenInRedis
  <2>4. \A m \in Node, u \in Tx : local'[m][u].status = "resolved" => local'[m][u] = local[m][u]
    BY <1>0, <1>1 DEF Open, OpenLocally
  <2>5. EntriesWereMade' BY <2>1, <2>2, <2>3, <2>4 DEF EntriesWereMade
  <2>6. RepeatsWereMade' BY <2>1 DEF RepeatsWereMade
  <2> QED BY <2>5, <2>6
<1>2. ASSUME NEW a \in Answer, Read(a) PROVE EntriesWereMade' /\ RepeatsWereMade'
  <2> DEFINE t == Says[a].tx  n == Says[a].node
  <2>1. t \in Tx /\ n \in Node BY SaysFields
  <2>2. stage[a] = "new" /\ reply[a].kind = "none" /\ UNCHANGED <<redis, local>>
    BY <1>2 DEF Read, EntriesWereMade
  <2>3. PICK e \in {redis[t], local[n][t]} :
          \/ /\ e.status = "absent" /\ stage' = [stage EXCEPT ![a] = "done"]
             /\ reply' = [reply EXCEPT ![a] = [kind |-> "missing", action |-> "none"]]
          \/ /\ e.status = "resolved" /\ stage' = [stage EXCEPT ![a] = "done"]
             /\ reply' = [reply EXCEPT ![a] = [kind |-> "already", action |-> e.action]]
          \/ stage' = [stage EXCEPT ![a] = "ask"] /\ reply' = reply
    BY <1>2 DEF Read, Tell
  <2>4. e.status = "resolved" => Made(t, e.action) BY <2>1 DEF EntriesWereMade
  <2> HIDE DEF t, n
  <2>5. \A b \in Answer : reply[b].kind = "decided" => reply'[b] = reply[b]
    BY <1>0, <2>2, <2>3
  <2>6. \A u \in Tx : \A x : Made(u, x) => Made(u, x)' BY <2>5 DEF Made
  <2>7. \A b \in Answer \ {a} : reply'[b] = reply[b] /\ stage'[b] = stage[b] BY <1>0, <2>3
  <2>8. reply'[a].kind = "already" => Made(t, reply'[a].action)
    BY <1>0, <2>2, <2>3, <2>4
  <2>9. stage'[a] \in {"new", "ask", "write"} => reply'[a].kind = "none" BY <1>0, <2>2, <2>3
  <2>10. EntriesWereMade' BY <2>2, <2>6, <2>7, <2>9 DEF EntriesWereMade
  <2>11. RepeatsWereMade'
    <3>1. \A b \in Answer \ {a} : \A x : reply'[b].kind = "already" /\ x = reply'[b].action
            => Made(Says[b].tx, x)'
      BY <1>r, <2>6, <2>7, SaysFields
    <3>2. \A x : reply'[a].kind = "already" /\ x = reply'[a].action => Made(Says[a].tx, x)'
      BY <2>1, <2>6, <2>8 DEF t
    <3> QED BY <1>R, <3>1, <3>2
  <2> QED BY <2>10, <2>11
<1>3. ASSUME NEW a \in Answer, stage[a] \in {"ask", "write"}, Decide(a),
             redis' = redis \/ UpdateInRedis(a), local' = local \/ UpdateLocally(a)
      PROVE  EntriesWereMade' /\ RepeatsWereMade'
  <2> DEFINE t == Says[a].tx  n == Says[a].node
  <2>1. t \in Tx /\ n \in Node /\ Decision(a) \in {"PASS", "BLOCK"} BY SaysFields
  <2>2. /\ reply' = [reply EXCEPT ![a] = [kind |-> "decided", action |-> Decision(a)]]
        /\ stage' = [stage EXCEPT ![a] = "done"]
    BY <1>3 DEF Decide, Tell
  <2>3. \A b \in Answer : reply[b].kind = "decided" => reply'[b].kind = "decided"
    BY <1>0, <2>2
  <2>4. \A u \in Tx : \A x : Made(u, x) => Made(u, x)' BY <2>3 DEF Made
  <2>5. Made(t, Decision(a))' BY <1>0, <2>2 DEF Made, Decision
  <2>6. \A u \in Tx : redis'[u] = redis[u] \/ (u = t /\ redis'[u].action = Decision(a))
    <3> DEFINE e == [status |-> "resolved", action |-> Decision(a), ttl |-> redis[t].ttl]
    <3>1. redis' = redis \/ redis' = [redis EXCEPT ![t] = e] BY <1>0, <1>3, <2>1 DEF UpdateInRedis
    <3>2. e.action = Decision(a) OBVIOUS
    <3> HIDE DEF e, t
    <3> QED BY <1>0, <2>1, <3>1, <3>2
  <2>7. \A m \in Node, u \in Tx :
            local'[m][u] = local[m][u] \/ (u = t /\ local'[m][u].action = Decision(a))
    <3> DEFINE e == [status |-> "resolved", action |-> Decision(a), ttl |-> FALSE]
    <3>1. local' = local \/ local' = [local EXCEPT ![n][t] = e] BY <1>3 DEF UpdateLocally
    <3>2. e.action = Decision(a) OBVIOUS
    <3> HIDE DEF e, t, n
    <3>3. CASE local' = [local EXCEPT ![n][t] = e]
      <4>1. local'[n] = [local[n] EXCEPT ![t] = e] /\ \A m \in Node \ {n} : local'[m] = local[m]
        BY <1>0, <2>1, <3>3
      <4>2. local'[n][t] = e /\ \A u \in Tx \ {t} : local'[n][u] = local[n][u]
        BY <1>0, <2>1, <4>1
      <4> QED BY <3>2, <4>1, <4>2
    <3> QED BY <3>1, <3>3
  <2> HIDE DEF t, n
  <2>8. \A b \in Answer \ {a} : reply'[b] = reply[b] /\ stage'[b] = stage[b] BY <1>0, <2>2
  <2>9. reply'[a].kind = "decided" /\ stage'[a] = "done" BY <1>0, <2>2
  <2>10. EntriesWereMade' BY <2>1, <2>4, <2>5, <2>6, <2>7, <2>8, <2>9 DEF EntriesWereMade
  <2>11. RepeatsWereMade'
    <3>1. \A b \in Answer \ {a} : \A x : reply'[b].kind = "already" /\ x = reply'[b].action
            => Made(Says[b].tx, x)'
      BY <1>r, <2>4, <2>8, SaysFields
    <3> QED BY <1>R, <2>9, <3>1
  <2> QED BY <2>10, <2>11
<1>4. ASSUME NEW a \in Answer, Ask(a) PROVE EntriesWereMade' /\ RepeatsWereMade'
  <2>1. CASE UpdateLocally(a) /\ Decide(a) BY <1>3, <1>4, <2>1 DEF Ask
  <2>2. CASE stage' = [stage EXCEPT ![a] = "write"] /\ UNCHANGED <<local, reply, decided>>
    <3>1. UNCHANGED redis /\ stage[a] = "ask" BY <1>4 DEF Ask
    <3>2. \A u \in Tx : \A x : Made(u, x)' <=> Made(u, x) BY <2>2 DEF Made
    <3>3. EntriesWereMade' BY <1>0, <2>2, <3>1, <3>2 DEF EntriesWereMade
    <3>4. RepeatsWereMade' BY <2>2 DEF RepeatsWereMade
    <3> QED BY <3>3, <3>4
  <2> QED BY <1>4, <2>1, <2>2 DEF Ask
<1>5. ASSUME NEW a \in Answer, Write(a) PROVE EntriesWereMade' /\ RepeatsWereMade'
  BY <1>3, <1>5 DEF Write
<1>6. ASSUME NEW t \in Tx, Expire(t) PROVE EntriesWereMade' /\ RepeatsWereMade'
  <2>1. UNCHANGED <<local, stage, reply>> BY <1>6 DEF Expire
  <2>2. \A u \in Tx : \A x : Made(u, x)' <=> Made(u, x) BY <2>1 DEF Made
  <2>3. \A u \in Tx : redis'[u].status = "resolved" => redis'[u] = redis[u]
    BY <1>0, <1>6 DEF Expire, Absent
  <2>4. EntriesWereMade' BY <2>1, <2>2, <2>3 DEF EntriesWereMade
  <2>5. RepeatsWereMade' BY <2>1 DEF RepeatsWereMade
  <2> QED BY <2>4, <2>5
<1>7. ASSUME NEW n \in Node, Restart(n) PROVE EntriesWereMade' /\ RepeatsWereMade'
  <2>1. UNCHANGED <<redis, reply>> BY <1>7 DEF Restart
  <2>2. \A u \in Tx : \A x : Made(u, x)' <=> Made(u, x) BY <2>1 DEF Made
  <2>3. \A m \in Node, u \in Tx : local'[m][u].status = "resolved" => local'[m][u] = local[m][u]
    BY <1>0, <1>7 DEF Restart, Absent
  <2>4. \A a \in Answer : stage'[a] \in {"lost", stage[a]} BY <1>0, <1>7 DEF Restart
  <2>5. EntriesWereMade' BY <2>1, <2>2, <2>3, <2>4 DEF EntriesWereMade
  <2>6. RepeatsWereMade' BY <2>1 DEF RepeatsWereMade
  <2> QED BY <2>5, <2>6
<1>8. ASSUME UNCHANGED stepUpVars PROVE EntriesWereMade' /\ RepeatsWereMade'
  BY <1>8 DEF stepUpVars, EntriesWereMade, RepeatsWereMade, Made
<1> QED BY <1>1, <1>2, <1>4, <1>5, <1>6, <1>7, <1>8 DEF StepUpNext

\* Whatever fails, expires, restarts or is opened again, an answer is only told
\* of a decision that an answer to its transaction has made.
THEOREM RepeatsGenuine == StepUpSpec => []RepeatsWereMade
BY InitMade, NextMade, StepUpTypeCorrect, PTL DEF StepUpSpec

-----------------------------------------------------------------------------
(***************************************************************************)
(* The rate limit, for any limit and any span of the window                *)
(***************************************************************************)

\* What is dropped is older than the window, and the first that stays is not.
LEMMA DropsOld ==
    ASSUME tick \in Nat, Span \in Nat, NEW w \in Seq(Nat)
    PROVE  LET k == Len(w) - Len(InWindow(w))
           IN  /\ InWindow(w) \in Seq(Nat) /\ k \in 0..Len(w)
               /\ \A i \in 1..Len(w) - k : InWindow(w)[i] = w[k + i]
               /\ \A i \in 1..k : tick - w[i] > Span
               /\ k < Len(w) => tick - w[k + 1] <= Span
<1> DEFINE stays == {i \in 1..Len(w) : tick - w[i] <= Span}
<1>1. CASE stays = {}
  <2>1. InWindow(w) = <<>> BY <1>1 DEF InWindow
  <2>2. \A i \in 1..Len(w) : tick - w[i] > Span BY <1>1
  <2> QED BY <2>1, <2>2
<1>2. CASE stays # {}
  <2> DEFINE m == CHOOSE i \in stays : \A j \in stays : i <= j
  <2>1. \E i \in stays : \A j \in stays : i <= j
    <3>1. stays \in SUBSET Nat OBVIOUS
    <3> QED BY <1>2, <3>1, LeastNumber
  <2>2. m \in stays /\ \A j \in stays : m <= j BY <2>1
  <2>3. InWindow(w) = SubSeq(w, m, Len(w)) BY <1>2 DEF InWindow
  <2> HIDE DEF m
  <2>4. m \in 1..Len(w) /\ tick - w[m] <= Span BY <2>2
  <2>5. \A i \in 1..(m - 1) : tick - w[i] > Span
    <3> SUFFICES ASSUME NEW i \in 1..(m - 1), ~(tick - w[i] > Span) PROVE FALSE OBVIOUS
    <3>1. w[i] \in Nat /\ i \in 1..Len(w) BY <2>4
    <3>2. i \in stays BY <3>1
    <3> QED BY <2>2, <2>4, <3>2
  <2>6. /\ Len(InWindow(w)) = Len(w) - m + 1 /\ InWindow(w) \in Seq(Nat)
        /\ \A i \in 1..Len(w) - m + 1 : InWindow(w)[i] = w[m - 1 + i]
    <3> HIDE DEF stays
    <3> QED BY <2>3, <2>4
  <2> QED BY <2>4, <2>5, <2>6
<1> QED BY <1>1, <1>2

\* The window is the end of what was let through: all before it is too old.
WindowIsTail ==
    LET gone == Len(passed) - Len(window)
    IN  /\ gone >= 0
        /\ \A i \in 1..Len(window) : window[i] = passed[gone + i]
        /\ \A i \in 1..gone : tick - passed[i] > Span
        /\ \A i, j \in 1..Len(passed) : i <= j => passed[i] <= passed[j]
        /\ \A i \in 1..Len(passed) : passed[i] <= tick

\* A caller that was refused is told to come when the oldest time has left.
RetryIsLate == retryAt # -1 => Len(window) = Limit /\ retryAt > window[1] + Span

SpacedOut == \A i \in 1..Len(passed) - Limit : passed[i + Limit] - passed[i] > Span

RateInv == RateTypeOK /\ WindowIsTail /\ RetryIsLate /\ SpacedOut

LEMMA Narrowed ==
    ASSUME NEW S, NEW T, NEW w \in Seq(S), \A i \in 1..Len(w) : w[i] \in T PROVE w \in Seq(T)
OBVIOUS

LEMMA Rounded ==
    ASSUME NEW x \in Nat, Second \in Nat \ {0}
    PROVE  Second * (x \div Second + 1) \in (x + 1)..(x + Second)
<1> DEFINE q == x \div Second
<1>1. q \in Int OBVIOUS
<1>2. Second * q <= x /\ x < Second * (q + 1) OBVIOUS
<1>3. Second * (q + 1) = Second * q + Second BY <1>1
<1>4. Second * q \in Int BY <1>1
<1> HIDE DEF q
<1>5. Second * (q + 1) \in (x + 1)..(x + Second) BY <1>1, <1>2, <1>3, <1>4
<1> QED BY <1>5 DEF q

LEMMA NextRate == RateInv /\ [RateNext]_rateVars => RateInv'
<1> SUFFICES ASSUME RateInv, [RateNext]_rateVars PROVE RateInv' OBVIOUS
<1> USE RateConstants
<1>1. CASE AskLimiter
  <2> DEFINE w == InWindow(window)
             k == Len(window) - Len(w)
             g == Len(passed) - Len(window)
  <2>1. tick \in 0..MaxTicks /\ tick \in Nat /\ window \in Seq(0..MaxTicks) /\ window \in Seq(Nat)
        /\ passed \in Seq(0..MaxTicks) /\ Len(window) <= Limit
    BY DEF RateInv, RateTypeOK
  <2>2. /\ w \in Seq(Nat) /\ k \in 0..Len(window)
        /\ \A i \in 1..Len(window) - k : w[i] = window[k + i]
        /\ \A i \in 1..k : tick - window[i] > Span
        /\ k < Len(window) => tick - window[k + 1] <= Span
    BY <2>1, DropsOld
  <2>3. Len(w) = Len(window) - k /\ Len(w) \in Nat BY <2>1, <2>2
  <2>4. w \in Seq(0..MaxTicks)
    <3>1. ASSUME NEW i \in 1..Len(w) PROVE w[i] \in 0..MaxTicks
      <4>1. k + i \in 1..Len(window) /\ w[i] = window[k + i] BY <2>2, <2>3
      <4>2. window[k + i] \in 0..MaxTicks
        <5>1. window \in Seq(0..MaxTicks) BY <2>1
        <5> QED BY <4>1, <5>1
      <4> QED BY <4>1, <4>2
    <3> HIDE DEF w
    <3> QED BY <2>2, <3>1, Narrowed
  <2>5. /\ g >= 0 /\ g \in Nat
        /\ \A i \in 1..Len(w) : w[i] = passed[g + k + i]
        /\ \A i \in 1..g + k : tick - passed[i] > Span
    <3>1. g >= 0 /\ \A i \in 1..Len(window) : window[i] = passed[g + i]
      BY DEF RateInv, WindowIsTail
    <3>2. \A i \in 1..g : tick - passed[i] > Span BY DEF RateInv, WindowIsTail
    <3>3. g \in Nat BY <2>1, <3>1
    <3>4. ASSUME NEW i \in 1..g + k PROVE tick - passed[i] > Span
      <4>1. CASE i <= g BY <3>2, <3>3, <4>1, <2>2
      <4>2. CASE i > g
        <5>1. i - g \in 1..k /\ i - g \in 1..Len(window) BY <2>2, <3>3, <4>2
        <5>2. window[i - g] = passed[g + (i - g)] BY <3>1, <5>1
        <5>3. g + (i - g) = i BY <3>3, <2>2
        <5> QED BY <2>2, <5>1, <5>2, <5>3
      <4> QED BY <3>3, <2>2, <4>1, <4>2
    <3>5. ASSUME NEW i \in 1..Len(w) PROVE w[i] = passed[g + k + i]
      <4>1. k + i \in 1..Len(window) /\ w[i] = window[k + i] BY <2>2, <2>3
      <4>2. window[k + i] = passed[g + (k + i)] BY <3>1, <4>1
      <4> QED BY <4>1, <4>2, <3>3, <2>2, <2>3
    <3> QED BY <3>1, <3>3, <3>4, <3>5
  <2> HIDE DEF w, k, g
  <2>s. /\ \A i, j \in 1..Len(passed) : i <= j => passed[i] <= passed[j]
        /\ \A i \in 1..Len(passed) : passed[i] <= tick
    BY DEF RateInv, WindowIsTail
  <2>g. g + k + Len(w) = Len(passed) BY <2>1, <2>2, <2>3 DEF g
  <2>n. /\ Len(passed) \in Nat /\ Len(window) \in Nat /\ g \in Nat /\ k \in Nat /\ Len(w) \in Nat
        /\ g + k + Len(w) = Len(passed)
    BY <2>1, <2>2, <2>3, <2>5, <2>g
  <2>6. CASE Len(w) < Limit /\ window' = Append(w, tick) /\ passed' = Append(passed, tick)
             /\ retryAt' = -1 /\ tick' = tick
    <3>1. Len(passed') = Len(passed) + 1 /\ Len(window') = Len(w) + 1
          /\ passed' \in Seq(0..MaxTicks) /\ window' \in Seq(0..MaxTicks)
      BY <2>1, <2>4, <2>6
    <3>2. (\A i \in 1..Len(passed) : passed'[i] = passed[i]) /\ passed'[Len(passed) + 1] = tick
      BY <2>1, <2>6
    <3>3. (\A i \in 1..Len(w) : window'[i] = w[i]) /\ window'[Len(w) + 1] = tick
      BY <2>4, <2>6
    <3>4. RateTypeOK'
      <4>1. tick' \in 0..MaxTicks /\ Len(window') <= Limit BY <2>1, <2>3, <2>6, <3>1
      <4>2. retryAt' \in {-1} \cup 0..(MaxTicks + Span + Second) BY <2>6
      <4> QED BY <3>1, <4>1, <4>2 DEF RateTypeOK
    <3>5. Len(passed') - Len(window') = g + k BY <2>n, <3>1
    <3>6. \A i \in 1..Len(window') : window'[i] = passed'[g + k + i]
      <4> SUFFICES ASSUME NEW i \in 1..Len(window') PROVE window'[i] = passed'[g + k + i] OBVIOUS
      <4>0. i \in 1..Len(w) + 1 BY <2>3, <3>1
      <4>1. CASE i = Len(w) + 1
        <5>1. g + k + i = Len(passed) + 1 BY <2>n, <4>1
        <5> QED BY <3>2, <3>3, <4>1, <5>1
      <4>2. CASE i \in 1..Len(w)
        <5>1. g + k + i \in 1..Len(passed) BY <2>n, <4>2
        <5> QED BY <2>5, <3>2, <3>3, <4>2, <5>1
      <4> QED BY <2>n, <4>0, <4>1, <4>2
    <3>7. \A i \in 1..g + k : tick' - passed'[i] > Span
      <4>1. \A i \in 1..g + k : i \in 1..Len(passed) BY <2>n
      <4> QED BY <2>5, <2>6, <3>2, <4>1
    <3>8. /\ \A i, j \in 1..Len(passed') : i <= j => passed'[i] <= passed'[j]
          /\ \A i \in 1..Len(passed') : passed'[i] <= tick'
      <4>1. \A i \in 1..Len(passed) : passed[i] \in Nat /\ passed[i] <= tick BY <2>1, <2>s
      <4>2. \A i \in 1..Len(passed') : i \in 1..Len(passed) \/ i = Len(passed) + 1 BY <2>n, <3>1
      <4>3. \A i \in 1..Len(passed') : passed'[i] <= tick
        <5>1. tick <= tick BY <2>1
        <5> QED BY <3>2, <4>1, <4>2, <5>1
      <4>4. ASSUME NEW i \in 1..Len(passed'), NEW j \in 1..Len(passed'), i <= j
            PROVE  passed'[i] <= passed'[j]
        <5>1. CASE j = Len(passed) + 1 BY <3>2, <4>3, <5>1
        <5>2. CASE j \in 1..Len(passed) /\ i \in 1..Len(passed) BY <2>s, <3>2, <4>4, <5>2
        <5>3. i \in Nat /\ j \in Nat BY <2>n, <3>1
        <5> QED BY <2>n, <4>2, <4>4, <5>1, <5>2, <5>3
      <4> QED BY <2>6, <4>3, <4>4
    <3>9. WindowIsTail'
      <4> DEFINE G == Len(passed') - Len(window')
      <4>1. G = g + k /\ G >= 0 BY <2>n, <3>5
      <4>2. /\ \A i \in 1..Len(window') : window'[i] = passed'[G + i]
            /\ \A i \in 1..G : tick' - passed'[i] > Span
        BY <3>6, <3>7, <4>1
      <4> QED BY <3>8, <4>1, <4>2 DEF WindowIsTail
    <3>10. SpacedOut'
      <4> SUFFICES ASSUME NEW i \in 1..Len(passed) + 1 - Limit PROVE passed'[i + Limit] - passed'[i] > Span
        BY <3>1 DEF SpacedOut
      <4>1. CASE i <= Len(passed) - Limit
        <5>0. i \in 1..Len(passed) - Limit BY <2>n, <4>1
        <5>1. i \in 1..Len(passed) /\ i + Limit \in 1..Len(passed) BY <2>n, <5>0
        <5>2. passed[i + Limit] - passed[i] > Span BY <5>0 DEF RateInv, SpacedOut
        <5> QED BY <3>2, <5>1, <5>2
      <4>2. CASE i = Len(passed) + 1 - Limit
        <5>1. i \in 1..g + k BY <2>n, <2>6, <4>2
        <5>2. i + Limit = Len(passed) + 1 BY <2>n, <4>2
        <5>3. tick' - passed'[i] > Span BY <3>7, <5>1
        <5> QED BY <2>6, <3>2, <5>2, <5>3
      <4> QED BY <2>n, <4>1, <4>2
    <3>11. RetryIsLate' BY <2>6 DEF RetryIsLate
    <3> QED BY <3>4, <3>9, <3>10, <3>11 DEF RateInv
  <2>7. CASE Len(w) >= Limit /\ window' = w /\ retryAt' = RetryAfter(w) /\ tick' = tick /\ passed' = passed
    <3>1. k = 0 /\ Len(w) = Limit /\ Len(w) = Len(window) BY <2>1, <2>2, <2>3, <2>7
    <3>2. w[1] = window[1] /\ tick - w[1] <= Span /\ w[1] \in 0..MaxTicks
      BY <2>1, <2>2, <2>4, <3>1
    <3>w. w[1] <= tick
      <4>1. 1 \in 1..Len(w) /\ g + k + 1 \in 1..Len(passed) BY <2>1, <2>5, <2>g, <3>1
      <4> QED BY <2>5, <2>s, <4>1
    <3>3. Span - (tick - w[1]) \in Nat BY <2>1, <3>2, <3>w
    <3> DEFINE x == Span - (tick - w[1])
    <3>4. RetryAfter(w) = tick + Second * (x \div Second + 1) BY DEF RetryAfter
    <3>5. Second * (x \div Second + 1) \in (x + 1)..(x + Second) BY <3>3, Rounded
    <3>6. RetryAfter(w) \in 0..(MaxTicks + Span + Second) /\ RetryAfter(w) > w[1] + Span
      <4> DEFINE y == Second * (x \div Second + 1)
      <4>1. y \in (x + 1)..(x + Second) BY <3>5
      <4>2. RetryAfter(w) = tick + y BY <3>4
      <4>3. y >= x + 1 /\ y <= x + Second /\ y \in Int BY <3>3, <4>1
      <4> HIDE DEF y
      <4>4. tick \in Int /\ w[1] \in Int /\ w[1] <= tick /\ tick <= MaxTicks BY <2>1, <3>2, <3>w
      <4>5. w[1] >= 0 BY <3>2
      <4>6. tick + y > w[1] + Span BY <4>3, <4>4
      <4>7. tick + y <= MaxTicks + Span + Second /\ tick + y >= 0 BY <4>3, <4>4, <4>5
      <4> QED BY <4>2, <4>3, <4>4, <4>6, <4>7
    <3>7. RateTypeOK' BY <2>1, <2>4, <2>7, <3>1, <3>6 DEF RateTypeOK
    <3>8. WindowIsTail' BY <2>2, <2>5, <2>7, <2>g, <2>s, <3>1 DEF WindowIsTail, g
    <3>9. RetryIsLate' BY <2>7, <3>1, <3>2, <3>6 DEF RetryIsLate
    <3>10. SpacedOut' BY <2>7 DEF SpacedOut, RateInv
    <3> QED BY <3>7, <3>8, <3>9, <3>10 DEF RateInv
  <2> QED BY <1>1, <2>6, <2>7 DEF AskLimiter, w
<1>2. CASE Tick
  <2>1. tick \in 0..MaxTicks /\ passed \in Seq(0..MaxTicks) /\ tick' = tick + 1 /\ tick < MaxTicks
        /\ UNCHANGED <<window, retryAt, passed>>
    BY <1>2 DEF Tick, RateInv, RateTypeOK
  <2>2. RateTypeOK' BY <2>1 DEF RateInv, RateTypeOK
  <2>3. WindowIsTail'
    <3> DEFINE g == Len(passed) - Len(window)
    <3>1. g \in Int /\ g <= Len(passed) BY <2>1 DEF RateInv, RateTypeOK
    <3>0. \A i \in 1..g : tick - passed[i] > Span BY DEF RateInv, WindowIsTail
    <3>2. \A i \in 1..g : passed[i] \in Int /\ tick' - passed[i] > Span
      BY <2>1, <3>0, <3>1
    <3>3. \A i \in 1..Len(passed) : passed[i] \in Int /\ passed[i] <= tick'
      BY <2>1 DEF RateInv, WindowIsTail
    <3> QED BY <2>1, <3>2, <3>3 DEF RateInv, WindowIsTail
  <2>4. RetryIsLate' /\ SpacedOut' BY <2>1 DEF RateInv, RetryIsLate, SpacedOut
  <2> QED BY <2>2, <2>3, <2>4 DEF RateInv
<1>3. CASE UNCHANGED rateVars
  BY <1>3 DEF rateVars, RateInv, RateTypeOK, WindowIsTail, RetryIsLate, SpacedOut
<1> QED BY <1>1, <1>2, <1>3 DEF RateNext

LEMMA RateHolds == RateSpec => []RateInv
<1>1. RateInit => RateInv
  BY RateConstants DEF RateInit, RateInv, RateTypeOK, WindowIsTail, RetryIsLate, SpacedOut
<1> QED BY <1>1, NextRate, PTL DEF RateSpec

LEMMA RateTypes == RateSpec => []RateTypeOK
<1>1. RateInv => RateTypeOK
  BY DEF RateInv
<1> QED BY <1>1, RateHolds, PTL

\* For every limit, window and clock: no span of the window's length lets more
\* than the limit through, and who waits as told is let through.
THEOREM LimitIsKept == RateSpec => []LimitKept
<1>2. RateInv => LimitKept
  <2> SUFFICES ASSUME RateInv PROVE LimitKept OBVIOUS
  <2>1. SpacedOut BY DEF RateInv
  <2>2. ASSUME retryAt # -1, tick >= retryAt PROVE Len(InWindow(window)) < Limit
    <3>1. window \in Seq(Nat) /\ tick \in Nat /\ Limit \in Nat \ {0} /\ Span \in Nat /\ retryAt \in Int
      BY RateConstants DEF RateInv, RateTypeOK
    <3>2. Len(window) = Limit /\ retryAt > window[1] + Span BY <2>2 DEF RateInv, RetryIsLate
    <3>3. window[1] \in Nat /\ tick - window[1] > Span BY <2>2, <3>1, <3>2
    <3> DEFINE k == Len(window) - Len(InWindow(window))
    <3>4. k \in 0..Len(window) /\ (k < Len(window) => tick - window[k + 1] <= Span)
          /\ Len(InWindow(window)) \in Nat
      BY <3>1, DropsOld
    <3>5. k # 0 BY <3>1, <3>2, <3>3, <3>4
    <3> QED BY <3>1, <3>2, <3>4, <3>5
  <2> QED BY <2>1, <2>2 DEF LimitKept, SpacedOut
<1> QED BY <1>2, RateHolds, PTL

-----------------------------------------------------------------------------
(***************************************************************************)
(* The cache of the trained models, for any scorers and files              *)
(***************************************************************************)

\* What is kept and what is scored with is valid or nothing, and a read that is
\* not early has read what was there at the last clear or later.
CacheInv ==
    /\ CacheTypeOK
    /\ cleared <= bundleFile.version
    /\ \A o \in cached : (o.bundle = NoBundle \/ Valid(o)) /\ (~overtaken => o.version >= cleared)
    /\ \A s \in Scorer :
        /\ scoring[s] = "has" => result[s].bundle = NoBundle \/ Valid(result[s])
        /\ scoring[s] = "has" => result[s].bundle # Missing
        /\ scoring[s] = "reading" => result[s].bundle # Missing
        /\ scoring[s] = "reading" /\ s \notin early => result[s].version >= cleared

LEMMA FewKept == \A o : Cardinality({o}) <= 1 /\ Cardinality({}) <= 1
<1>1. \A o : Cardinality({o}) = 1 BY FS_Singleton
<1>2. Cardinality({}) = 0 BY FS_EmptySet
<1> QED BY <1>1, <1>2

LEMMA CacheBegins == CacheInit => CacheInv
<1> SUFFICES ASSUME CacheInit PROVE CacheInv OBVIOUS
<1>1. 0 \in 0..MaxReplaced BY CacheConstants
<1>2. bundleFile \in [version : 0..MaxReplaced, bundle : Files] BY <1>1 DEF CacheInit, Files
<1>3. result \in [Scorer -> [version : 0..MaxReplaced, bundle : Files]] BY <1>1 DEF CacheInit, Files
<1>4. CacheTypeOK BY <1>1, <1>2, <1>3, FewKept DEF CacheInit, CacheTypeOK
<1> QED BY <1>4 DEF CacheInit, CacheInv

LEMMA CacheKept == ASSUME CacheInv, [CacheNext]_cacheVars PROVE CacheInv'
<1> USE DEF CacheInv, CacheTypeOK
<1>a. NoBundle \in Files /\ NoBundle # Missing BY CacheConstants DEF Files
<1>1. ASSUME NEW s \in Scorer, NoFile(s) PROVE CacheInv'
  <2>1. result' \in [Scorer -> [version : 0..MaxReplaced, bundle : Files]] /\ result'[s].bundle = NoBundle
        /\ \A q \in Scorer \ {s} : result'[q] = result[q]
    BY <1>1, <1>a DEF NoFile
  <2>2. scoring' \in [Scorer -> {"idle", "reading", "has"}] /\ scoring'[s] = "has"
        /\ \A q \in Scorer \ {s} : scoring'[q] = scoring[q]
    BY <1>1 DEF NoFile
  <2> QED BY <1>1, <1>a, <2>1, <2>2 DEF NoFile, Valid
<1>2. ASSUME NEW s \in Scorer, Hit(s) PROVE CacheInv'
  <2> DEFINE o == CHOOSE o \in cached : TRUE
  <2>1. o \in cached BY <1>2 DEF Hit
  <2>2. result' = [result EXCEPT ![s] = o] BY <1>2 DEF Hit
  <2> HIDE DEF o
  <2>3. o \in [version : 0..MaxReplaced, bundle : Files] /\ o.bundle # Missing
    BY <2>1, <1>a, CacheConstants DEF Outcome, Files
  <2>4. result' \in [Scorer -> [version : 0..MaxReplaced, bundle : Files]] /\ result'[s] = o
        /\ \A q \in Scorer \ {s} : result'[q] = result[q]
    BY <2>2, <2>3
  <2>5. scoring' \in [Scorer -> {"idle", "reading", "has"}] /\ scoring'[s] = "has"
        /\ \A q \in Scorer \ {s} : scoring'[q] = scoring[q]
    BY <1>2 DEF Hit
  <2> QED BY <1>2, <2>1, <2>3, <2>4, <2>5 DEF Hit, Valid
<1>3. ASSUME NEW s \in Scorer, ReadFiles(s) PROVE CacheInv'
  <2>1. result' \in [Scorer -> [version : 0..MaxReplaced, bundle : Files]] /\ result'[s] = bundleFile
        /\ \A q \in Scorer \ {s} : result'[q] = result[q]
    BY <1>3 DEF ReadFiles
  <2>2. scoring' \in [Scorer -> {"idle", "reading", "has"}] /\ scoring'[s] = "reading"
        /\ \A q \in Scorer \ {s} : scoring'[q] = scoring[q]
    BY <1>3 DEF ReadFiles
  <2> QED BY <1>3, <2>1, <2>2 DEF ReadFiles, Valid
<1>4. ASSUME NEW s \in Scorer, Checked(s) PROVE CacheInv'
  <2>1. /\ scoring[s] = "reading" /\ early' = early \ {s} /\ UNCHANGED <<strict, bundleFile, cleared>>
    BY <1>4 DEF Checked
  <2>2. CASE scoring' = [scoring EXCEPT ![s] = "idle"] /\ UNCHANGED <<cached, result, overtaken>>
    <3>1. scoring' \in [Scorer -> {"idle", "reading", "has"}] /\ scoring'[s] = "idle"
          /\ \A q \in Scorer \ {s} : scoring'[q] = scoring[q]
      BY <2>2
    <3> QED BY <2>1, <2>2, <3>1 DEF Valid
  <2>3. CASE /\ cached' = FirstKept(s) /\ overtaken' = (overtaken \/ s \in early)
             /\ scoring' = [scoring EXCEPT ![s] = "has"]
             /\ result' = [result EXCEPT ![s].bundle = IF Valid(result[s]) THEN @ ELSE NoBundle]
    <3> DEFINE bundle == IF Valid(result[s]) THEN result[s].bundle ELSE NoBundle
               outcome == [version |-> result[s].version, bundle |-> bundle]
    <3>1. /\ bundle \in Files /\ bundle # Missing /\ bundle \in Bundles \cup {NoBundle}
          /\ bundle # NoBundle => Valid(result[s]) /\ bundle = result[s].bundle
      BY <1>a, <2>1 DEF Files
    <3>2. result' = [result EXCEPT ![s].bundle = bundle] BY <2>3
    <3>3. cached' = IF cached # {} THEN cached ELSE {outcome} BY <2>3 DEF FirstKept
    <3> HIDE DEF bundle
    <3>4. result' \in [Scorer -> [version : 0..MaxReplaced, bundle : Files]] /\ result'[s].bundle = bundle
          /\ \A q \in Scorer \ {s} : result'[q] = result[q]
      BY <3>1, <3>2
    <3>5. scoring' \in [Scorer -> {"idle", "reading", "has"}] /\ scoring'[s] = "has"
          /\ \A q \in Scorer \ {s} : scoring'[q] = scoring[q]
      BY <2>3
    <3>6. bundle = NoBundle \/ (Valid(outcome) /\ \A x : x.bundle = bundle => Valid(x)) BY <3>1 DEF Valid
    <3>7. outcome \in Outcome BY <3>1 DEF Outcome
    <3>8. cached' \subseteq Outcome /\ Cardinality(cached') <= 1 BY <3>3, <3>7, FewKept
    <3>9. \A o \in cached' : (o.bundle = NoBundle \/ Valid(o)) /\ (~overtaken' => o.version >= cleared)
      <4>1. CASE cached # {} BY <4>1, <3>3, <2>3 
      <4>2. CASE cached = {}
        <5>1. ~overtaken' => outcome.version >= cleared BY <2>1, <2>3
        <5> QED BY <4>2, <5>1, <3>3, <3>6
      <4> QED BY <4>1, <4>2
    <3>10. overtaken' \in BOOLEAN BY <2>3
    <3>11. result'[s].bundle = NoBundle \/ Valid(result'[s]) BY <3>4, <3>6
    <3>12. \A q \in Scorer :
             /\ scoring'[q] = "has" => result'[q].bundle = NoBundle \/ Valid(result'[q])
             /\ scoring'[q] = "has" => result'[q].bundle # Missing
             /\ scoring'[q] = "reading" => result'[q].bundle # Missing
             /\ scoring'[q] = "reading" /\ q \notin early' => result'[q].version >= cleared
      BY <2>1, <3>1, <3>4, <3>5, <3>11
    <3>13. /\ \A o : Valid(o)' <=> Valid(o)
           /\ \A q \in Scorer : Valid(result[q])' <=> Valid(result'[q])
      BY DEF Valid, Sound, GoodEnough, Required
    <3> QED BY <2>1, <3>4, <3>5, <3>8, <3>9, <3>10, <3>12, <3>13
  <2> QED BY <1>4, <2>2, <2>3 DEF Checked
<1>5. ASSUME NEW s \in Scorer, ScoreWith(s) PROVE CacheInv'
  <2>1. scoring' \in [Scorer -> {"idle", "reading", "has"}] /\ scoring'[s] = "idle"
        /\ \A q \in Scorer \ {s} : scoring'[q] = scoring[q]
    BY <1>5 DEF ScoreWith
  <2> QED BY <1>5, <2>1 DEF ScoreWith, Valid
<1>6. ASSUME NEW b \in Bundles \cup {NoBundle}, Replace(b) PROVE CacheInv'
  <2>1. bundleFile' \in [version : 0..MaxReplaced, bundle : Files] /\ bundleFile'.version >= bundleFile.version
    BY <1>6, CacheConstants DEF Replace, Files
  <2>2. cleared <= bundleFile'.version BY <2>1
  <2> QED BY <1>6, <2>1, <2>2 DEF Replace, Valid
<1>7. CASE Clear
  <2>1. cleared' \in 0..MaxReplaced /\ cleared' <= bundleFile'.version BY <1>7 DEF Clear
  <2>2. cached' \subseteq Outcome /\ Cardinality(cached') <= 1 BY <1>7, FewKept DEF Clear
  <2> QED BY <1>7, <2>1, <2>2 DEF Clear, Valid
<1>8. CASE UNCHANGED cacheVars BY <1>8 DEF cacheVars, Valid
<1> QED BY <1>1, <1>2, <1>3, <1>4, <1>5, <1>6, <1>7, <1>8 DEF CacheNext

\* Every variable keeps its type.
THEOREM CacheTypeCorrect == CacheSpec => []CacheTypeOK
<1>1. CacheInv => CacheTypeOK BY DEF CacheInv
<1> QED BY <1>1, CacheBegins, CacheKept, PTL DEF CacheSpec

\* Scores come from a model that is good enough, and after a clear of the cache
\* from one no older (load_model_bundle, clear_model_cache).
THEOREM ScoresAreOfTheFile == CacheSpec => []ScoresAreFresh
<1>1. CacheInv => ScoresAreFresh
  <2> SUFFICES ASSUME CacheInv PROVE ScoresAreFresh OBVIOUS
  <2>1. ASSUME NEW s \in Scorer, scoring[s] = "has", result[s].bundle # NoBundle
        PROVE  LET b == result[s].bundle
               IN  /\ b.domain = "paysim" => {"if_model", "rf_model"} \subseteq b.keys /\ b.predicts
                   /\ b.domain = "open" => "model" \in b.keys /\ b.predicts
                   /\ MinAuc > 0 => b.auc \in MinAuc..100
    <3> DEFINE b == result[s].bundle
    <3>1. Sound(b) /\ GoodEnough(b) /\ b \in Bundles
      BY <2>1 DEF CacheInv, CacheTypeOK, Valid, Files
    <3>2. b.auc \in 0..100 \cup {NoBundle} BY <3>1, CacheConstants DEF Shape
    <3> HIDE DEF b
    <3>3. MinAuc > 0 => b.auc \in MinAuc..100
      BY <3>1, <3>2, CacheConstants DEF GoodEnough
    <3>4. /\ b.domain = "paysim" => {"if_model", "rf_model"} \subseteq b.keys /\ b.predicts
          /\ b.domain = "open" => "model" \in b.keys /\ b.predicts
      BY <3>1 DEF Sound, Required
    <3> QED BY <3>3, <3>4 DEF b
  <2> QED BY <2>1 DEF CacheInv, ScoresAreFresh
<1> QED BY <1>1, CacheBegins, CacheKept, PTL DEF CacheSpec

-----------------------------------------------------------------------------
(***************************************************************************)
(* The protocols that are shown, for any devices and segments              *)
(***************************************************************************)

LEMMA OfTwo ==
    \A a \in Int, b \in Int : /\ Min({a, b}) = IF a <= b THEN a ELSE b
                              /\ Max({a, b}) = IF a >= b THEN a ELSE b
<1> SUFFICES ASSUME NEW a \in Int, NEW b \in Int
             PROVE  /\ Min({a, b}) = IF a <= b THEN a ELSE b
                    /\ Max({a, b}) = IF a >= b THEN a ELSE b
  OBVIOUS
<1>1. \E x \in {a, b} : \A y \in {a, b} : x <= y BY SMT
<1>2. \E x \in {a, b} : \A y \in {a, b} : x >= y BY SMT
<1>3. Min({a, b}) \in {a, b} /\ \A y \in {a, b} : Min({a, b}) <= y BY <1>1 DEF Min
<1>4. Max({a, b}) \in {a, b} /\ \A y \in {a, b} : Max({a, b}) >= y BY <1>2 DEF Max
<1> QED BY <1>3, <1>4

LEMMA Capped == ASSUME NEW x \in Nat, NEW y \in Nat, NEW z \in Nat
                PROVE  Min({x + y, z}) \in 0..z /\ Min({z, x + y}) \in 0..z
<1> DEFINE sum == x + y
<1>1. sum \in Nat OBVIOUS
<1> HIDE DEF sum
<1>2. /\ Min({sum, z}) = IF sum <= z THEN sum ELSE z
      /\ Min({z, sum}) = IF z <= sum THEN z ELSE sum
  BY <1>1, OfTwo
<1>3. Min({sum, z}) \in 0..z /\ Min({z, sum}) \in 0..z BY <1>1, <1>2
<1> QED BY <1>3 DEF sum

ProtocolInv == ProtocolTypeOK /\ TrustWearsOff

LEMMA ProtocolBegins == ProtocolInit => ProtocolInv
<1> SUFFICES ASSUME ProtocolInit PROVE ProtocolInv OBVIOUS
<1>1. segment \in [Device -> Segments] BY ProtocolConstants DEF ProtocolInit
<1>2. ProtocolTypeOK BY <1>1, ProtocolConstants DEF ProtocolInit, ProtocolTypeOK, KeyAge
<1>3. TrustWearsOff BY DEF ProtocolInit, TrustWearsOff
<1> QED BY <1>2, <1>3 DEF ProtocolInv

LEMMA ProtocolKept == ASSUME ProtocolInv, [ZeroTrustNext \/ BeaconNext]_protocolVars PROVE ProtocolInv'
<1> USE DEF ProtocolInv, ProtocolTypeOK, TrustWearsOff, Fresh, KeyAge
<1>1. ASSUME NEW d \in Device, NEW s \in Segments, RegisterDevice(d, s) PROVE ProtocolInv'
  BY <1>1 DEF RegisterDevice, BeaconKept, SealedKept
<1>2. ASSUME NEW d \in Device, NEW evidence \in BOOLEAN, AttestDevice(d, evidence) PROVE ProtocolInv'
  <2> DEFINE gain == IF evidence THEN 20 ELSE 5
             new == Min({100, trust[d] + gain})
  <2>1. trust[d] \in 0..100 /\ gain \in 5..20 BY <1>2 DEF AttestDevice
  <2>2. new \in 0..100
    <3>1. trust[d] \in Nat /\ gain \in Nat /\ 100 \in Nat BY <2>1
    <3> HIDE DEF gain
    <3> QED BY <3>1, Capped
  <2>3. trust' = [trust EXCEPT ![d] = new] BY <1>2 DEF AttestDevice
  <2> HIDE DEF new, gain
  <2>4. trust' \in [Device -> -1..100] /\ trust'[d] = new /\ \A e \in Device \ {d} : trust'[e] = trust[e]
    BY <2>2, <2>3
  <2>5. stale' = [stale EXCEPT ![d] = 0] /\ attested' = [attested EXCEPT ![d] = 0] BY <1>2 DEF AttestDevice
  <2>6. UNCHANGED <<segment, issued, responded, nonces, logins, sealed, decrypted, waited>>
    BY <1>2 DEF AttestDevice, BeaconKept, SealedKept
  <2>7. \A e \in Device : stale'[e] <= 4 /\ trust'[e] <= 100 - 10 * stale'[e] BY <2>2, <2>4, <2>5
  <2> QED BY <2>4, <2>5, <2>6, <2>7
<1>3. ASSUME NEW d \in Device, NEW s \in Segments, EvaluateAccess(d, s) PROVE ProtocolInv'
  <2> DEFINE low == Lowered(d)
  <2>1. trust[d] \in 0..100 /\ attested[d] \in 0..61 BY <1>3 DEF EvaluateAccess
  <2>2. low \in 0..100 /\ low <= trust[d] /\ (attested[d] > 5 /\ low > 0 => low = trust[d] - 10)
    <3> DEFINE less == trust[d] - 10
    <3>1. less \in Int BY <2>1
    <3>2. low = IF attested[d] > 5 THEN Max({0, less}) ELSE trust[d] BY DEF Lowered
    <3> HIDE DEF less, low
    <3>3. Max({0, less}) = IF 0 >= less THEN 0 ELSE less BY <3>1, OfTwo
    <3>4. CASE attested[d] > 5 BY <2>1, <3>2, <3>3, <3>4 DEF less
    <3>5. CASE ~(attested[d] > 5) BY <2>1, <3>2, <3>5
    <3> QED BY <3>4, <3>5
  <2>3. PICK allowed \in BOOLEAN :
          /\ low < 60 => ~allowed
          /\ stale' = [stale EXCEPT ![d] = IF allowed /\ attested[d] > 5 THEN @ + 1 ELSE @]
          /\ trust' = [trust EXCEPT ![d] = low]
    <3>1. PICK allowed \in BOOLEAN :
          /\ low < (IF s = segment[d] THEN 60 ELSE 70) => ~allowed
          /\ stale' = [stale EXCEPT ![d] = IF allowed /\ attested[d] > 5 THEN @ + 1 ELSE @]
          /\ trust' = [trust EXCEPT ![d] = low]
      BY <1>3 DEF EvaluateAccess
    <3> DEFINE required == IF s = segment[d] THEN 60 ELSE 70
    <3>2. required >= 60 /\ required \in Nat OBVIOUS
    <3>3. low < required => ~allowed BY <3>1
    <3> HIDE DEF low, required
    <3>4. low < 60 => ~allowed BY <2>2, <3>2, <3>3
    <3> QED BY <3>1, <3>4
  <2>4. UNCHANGED <<segment, attested, issued, responded, nonces, logins, sealed, decrypted, waited>>
    BY <1>3 DEF EvaluateAccess, BeaconKept, SealedKept
  <2> HIDE DEF low
  <2>5. /\ trust'[d] = low /\ \A e \in Device \ {d} : trust'[e] = trust[e] /\ stale'[e] = stale[e]
        /\ stale'[d] = IF allowed /\ attested[d] > 5 THEN stale[d] + 1 ELSE stale[d]
        /\ trust' \in [Device -> -1..100] /\ stale' \in [Device -> Nat]
    BY <2>2, <2>3
  <2>6. stale[d] \in 0..4 /\ trust[d] <= 100 - 10 * stale[d] BY DEF TrustWearsOff
  <2>7. stale'[d] <= 4 /\ trust'[d] <= 100 - 10 * stale'[d]
    <3>1. CASE allowed /\ attested[d] > 5
      <4>1. low >= 60 /\ low = trust[d] - 10 /\ stale'[d] = stale[d] + 1 BY <3>1, <2>2, <2>3, <2>5
      <4>2. stale'[d] \in Nat /\ stale[d] \in Nat /\ trust'[d] = low /\ low \in Int BY <2>2, <2>5
      <4>3. \A a \in Int, b \in 0..4 : a <= 100 - 10 * b /\ a - 10 >= 60
                => a - 10 <= 100 - 10 * (b + 1) /\ b + 1 <= 4
        BY SMT
      <4>4. trust[d] \in Int /\ stale[d] \in 0..4 /\ trust[d] <= 100 - 10 * stale[d] BY <2>1, <2>6
      <4>5. trust[d] - 10 >= 60 BY <4>1, <4>2
      <4>6. trust[d] - 10 <= 100 - 10 * (stale[d] + 1) /\ stale[d] + 1 <= 4 BY <4>3, <4>4, <4>5
      <4> QED BY <4>1, <4>2, <4>6
    <3>2. CASE ~(allowed /\ attested[d] > 5) BY <3>2, <2>1, <2>2, <2>5, <2>6
    <3> QED BY <3>1, <3>2
  <2> QED BY <2>4, <2>5, <2>7
<1>4. ASSUME NEW c \in Challenge, GenerateChallenge(c) PROVE ProtocolInv'
  BY <1>4 DEF GenerateChallenge, DevicesKept, SealedKept
<1>5. ASSUME NEW c \in Challenge, RespondToChallenge(c) PROVE ProtocolInv'
  BY <1>5 DEF RespondToChallenge, DevicesKept, SealedKept
<1>6. ASSUME NEW c \in Challenge, NEW good \in BOOLEAN, VerifyResponse(c, good) PROVE ProtocolInv'
  BY <1>6 DEF VerifyResponse, Spent, DevicesKept, SealedKept
<1>7. CASE ShuffleAndEncrypt BY <1>7 DEF ShuffleAndEncrypt, DevicesKept, BeaconKept
<1>8. CASE ProxyDecrypt BY <1>8 DEF ProxyDecrypt, DevicesKept, BeaconKept
<1>9. ASSUME NEW minutes \in {5, 6, 60}, TimePasses(minutes) PROVE ProtocolInv'
  <2>0. minutes \in Nat /\ 61 \in Nat /\ 1 \in Nat OBVIOUS
  <2>1. \A x \in Nat : Min({x + minutes, 61}) \in 0..61 BY <2>0, Capped, ZenonT(60)
  <2>2. \A x \in Nat : Min({x + minutes, 1}) \in 0..1 BY <2>0, Capped, ZenonT(60)
  <2>3. attested' \in [Device -> 0..61]
    <3>0. \A d \in Device : attested[d] \in Nat OBVIOUS
    <3>1. \A d \in Device : Min({attested[d] + minutes, 61}) \in 0..61 BY <2>1, <3>0
    <3> QED BY <1>9, <3>1 DEF TimePasses
  <2>4. issued' \in [Challenge -> -1..1]
    <3>1. \A c \in Challenge : issued[c] # -1 => issued[c] \in Nat OBVIOUS
    <3>2. \A c \in Challenge : issued[c] # -1 => Min({issued[c] + minutes, 1}) \in -1..1
      <4>1. \A x \in 0..1 : x \in -1..1 OBVIOUS
      <4> QED BY <2>2, <3>1, <4>1
    <3> QED BY <1>9, <3>2 DEF TimePasses
  <2>5. sealed' \in -1..61
    <3>1. sealed = -1 \/ sealed \in 0..61 OBVIOUS
    <3>2. CASE sealed = -1 BY <1>9, <3>2 DEF TimePasses
    <3>3. CASE sealed \in 0..61
      <4>1. sealed' = Min({sealed + minutes, 61}) BY <1>9, <3>3 DEF TimePasses
      <4>0. sealed \in Nat BY <3>3
      <4>2. Min({sealed + minutes, 61}) \in 0..61 BY <2>1, <4>0
      <4> QED BY <4>1, <4>2
    <3> QED BY <3>1, <3>2, <3>3
  <2>6. waited' \in 0..MaxWaits BY <1>9, ProtocolConstants DEF TimePasses
  <2> QED BY <1>9, <2>3, <2>4, <2>5, <2>6 DEF TimePasses
<1>10. CASE UNCHANGED protocolVars BY <1>10 DEF protocolVars
<1> QED BY <1>1, <1>2, <1>3, <1>4, <1>5, <1>6, <1>7, <1>8, <1>9, <1>10 DEF ZeroTrustNext, BeaconNext

\* Every variable keeps its type.
THEOREM ProtocolTypeCorrect == ProtocolSpec => []ProtocolTypeOK
<1>1. ProtocolInv => ProtocolTypeOK BY DEF ProtocolInv
<1> QED BY <1>1, ProtocolBegins, ProtocolKept, PTL DEF ProtocolSpec

\* Trust wears off without attestations, and a response logs in once
\* (evaluate_access, verify_response).
THEOREM TrustIsBounded == ProtocolSpec => []TrustWearsOff
<1>1. ProtocolInv => TrustWearsOff BY DEF ProtocolInv
<1> QED BY <1>1, ProtocolBegins, ProtocolKept, PTL DEF ProtocolSpec

-----------------------------------------------------------------------------
(***************************************************************************)
(* The shared entries, for any processes and publications                  *)
(***************************************************************************)

\* Redis has the latest entries, newest first, as they were numbered.
SharedIsPushed ==
    /\ Len(shared) = IF Len(pushed) < MaxShared THEN Len(pushed) ELSE MaxShared
    /\ \A i \in 1..Len(shared) : shared[i] = SharedEntry(pushed[Len(pushed) + 1 - i])
PushedOnce ==
    /\ \A i \in 1..Len(pushed) : posting[pushed[i]] = "done"
    /\ \A i, j \in 1..Len(pushed) : i # j => pushed[i] # pushed[j]

\* So has a process, of the posts that reached it.
OwnAt(s) ==
    /\ \A i \in 1..Len(own[s]) : /\ own[s][i].id = number[own[s][i].post]
                                 /\ At[own[s][i].post] = s /\ posting[own[s][i].post] = "done"
    /\ \A i, j \in 1..Len(own[s]) : i # j => own[s][i].post # own[s][j].post

\* Numbers of Redis are given once.
HandedTo(p) == posting[p] # "new" /\ p \notin fallback
GivenOnce ==
    /\ \A p \in Post : HandedTo(p) => number[p] <= counter
    /\ \A p, q \in Post : HandedTo(p) /\ HandedTo(q) /\ number[p] = number[q] => p = q

\* An answered entry is in one of the lists, or was.
Shown(p) ==
    posting[p] = "done" =>
        \/ p \in ended
        \/ \E i \in 1..Len(own[At[p]]) : own[At[p]][i].post = p
        \/ \E i \in 1..Len(pushed) : pushed[i] = p

IntelInv ==
    /\ IntelTypeOK /\ SharedIsPushed /\ PushedOnce /\ GivenOnce
    /\ \A s \in Server : OwnAt(s)
    /\ \A p \in Post : Shown(p)

-----------------------------------------------------------------------------
LEMMA Rows ==
    ASSUME number \in [Post -> Nat], NEW p \in Post
    PROVE  SharedEntry(p) \in SharedRow /\ SharedEntry(p).post = p /\ SharedEntry(p).id = number[p]
BY DEF SharedEntry, SharedRow

LEMMA Fields == \A r \in SharedRow : r.post \in Post /\ r.id \in Nat
BY DEF SharedRow

LEMMA Pushes ==
    ASSUME IntelTypeOK, NEW p \in Post, PushShared(p)
    PROVE  /\ shared' \in Seq(SharedRow)
           /\ Len(shared') = IF Len(shared) < MaxShared THEN Len(shared) + 1 ELSE MaxShared
           /\ shared'[1] = SharedEntry(p)
           /\ \A i \in 2..Len(shared') : shared'[i] = shared[i - 1]
           /\ pushed' \in Seq(Post) /\ Len(pushed') = Len(pushed) + 1
           /\ pushed'[Len(pushed) + 1] = p
           /\ \A i \in 1..Len(pushed) : pushed'[i] = pushed[i]
<1> DEFINE e == SharedEntry(p)
           s == <<e>> \o shared
<1>0. /\ pushed' \in Seq(Post) /\ Len(pushed') = Len(pushed) + 1
      /\ pushed'[Len(pushed) + 1] = p /\ \A i \in 1..Len(pushed) : pushed'[i] = pushed[i]
  BY DEF PushShared, IntelTypeOK
<1>1. e \in SharedRow BY Rows DEF IntelTypeOK
<1>2. shared \in Seq(SharedRow) /\ Len(shared) <= MaxShared /\ MaxShared \in Nat \ {0}
  BY IntelligenceConstants DEF IntelTypeOK
<1> HIDE DEF e
<1>3. /\ s \in Seq(SharedRow) /\ Len(s) = Len(shared) + 1 /\ s[1] = e
      /\ \A i \in 2..Len(s) : s[i] = shared[i - 1]
  BY <1>1, <1>2
<1>4. shared' = First(s) BY DEF PushShared, e
<1> HIDE DEF s
<1>5. CASE Len(shared) < MaxShared
  <2>1. shared' = s BY <1>2, <1>3, <1>4, <1>5 DEF First
  <2> QED BY <1>0, <1>2, <1>3, <1>5, <2>1 DEF e
<1>6. CASE Len(shared) = MaxShared
  <2>1. shared' = SubSeq(s, 1, MaxShared) BY <1>2, <1>3, <1>4, <1>6 DEF First
  <2>2. /\ shared' \in Seq(SharedRow) /\ Len(shared') = MaxShared
        /\ \A i \in 1..MaxShared : shared'[i] = s[i]
    BY <1>2, <1>3, <1>6, <2>1
  <2> QED BY <1>0, <1>2, <1>3, <1>6, <2>2 DEF e
<1> QED BY <1>2, <1>5, <1>6

LEMMA PushKeeps ==
    ASSUME IntelInv, NEW p \in Post, posting[p] = "numbered", PushShared(p), number' = number,
           posting' = [posting EXCEPT ![p] = "done"]
    PROVE  SharedIsPushed' /\ PushedOnce'
<1> USE DEF IntelInv
<1>1. /\ Len(shared') = IF Len(shared) < MaxShared THEN Len(shared) + 1 ELSE MaxShared
      /\ shared'[1] = SharedEntry(p) /\ \A i \in 2..Len(shared') : shared'[i] = shared[i - 1]
      /\ Len(pushed') = Len(pushed) + 1 /\ pushed'[Len(pushed) + 1] = p
      /\ \A i \in 1..Len(pushed) : pushed'[i] = pushed[i]
  BY Pushes
<1>2. Len(shared) \in Nat /\ Len(pushed) \in Nat /\ MaxShared \in Nat \ {0}
      /\ \A i \in 1..Len(pushed) : pushed[i] \in Post
  BY IntelligenceConstants DEF IntelTypeOK
<1>3. \A q \in Post : SharedEntry(q)' = SharedEntry(q) BY DEF SharedEntry
<1>4. Len(shared') = IF Len(pushed') < MaxShared THEN Len(pushed') ELSE MaxShared
  BY <1>1, <1>2 DEF SharedIsPushed
<1>5. ASSUME NEW i \in 1..Len(shared') PROVE shared'[i] = SharedEntry(pushed[Len(pushed) + 1 - i])'
  <2>1. CASE i = 1 BY <2>1, <1>1, <1>2, <1>3
  <2>2. CASE i # 1
    <3>1. i - 1 \in 1..Len(shared) /\ i \in 2..Len(shared') BY <2>2, <1>1, <1>2
    <3>2. shared'[i] = SharedEntry(pushed[Len(pushed) + 1 - (i - 1)])
      BY <3>1, <1>1 DEF SharedIsPushed
    <3>3. Len(pushed) + 1 - (i - 1) = Len(pushed') + 1 - i
          /\ Len(pushed) + 1 - (i - 1) \in 1..Len(pushed)
      BY <3>1, <2>2, <1>1, <1>2 DEF SharedIsPushed
    <3> QED BY <3>2, <3>3, <1>1, <1>2, <1>3
  <2> QED BY <2>1, <2>2
<1>6. PushedOnce'
  <2>1. \A i \in 1..Len(pushed) : pushed[i] # p /\ posting[pushed[i]] = "done" BY DEF PushedOnce
  <2>2. \A i \in 1..Len(pushed') : posting'[pushed'[i]] = "done"
    <3> TAKE i \in 1..Len(pushed')
    <3>1. posting'[p] = "done" /\ \A q \in Post : posting[q] = "done" => posting'[q] = "done"
      BY DEF IntelTypeOK
    <3>2. CASE i = Len(pushed) + 1 BY <3>1, <3>2, <1>1
    <3>3. CASE i \in 1..Len(pushed) BY <3>1, <3>3, <2>1, <1>1, <1>2
    <3> QED BY <3>2, <3>3, <1>1, <1>2
  <2>3. \A i, j \in 1..Len(pushed') : i # j => pushed'[i] # pushed'[j]
    BY <2>1, <1>1, <1>2, SMTT(20) DEF PushedOnce
  <2> QED BY <2>2, <2>3 DEF PushedOnce
<1> QED BY <1>4, <1>5, <1>6 DEF SharedIsPushed

-----------------------------------------------------------------------------
LEMMA NumberKeeps ==
    ASSUME IntelInv, NEW p \in Post, TakeNumber(p)
    PROVE  IntelInv'
<1> USE DEF IntelInv
<1>1. /\ posting[p] = "new" /\ posting' = [posting EXCEPT ![p] = "numbered"]
      /\ UNCHANGED <<shared, own, intelRestarts, pushed, ended>>
  BY DEF TakeNumber
<1>2. \/ counter' = counter + 1 /\ number' = [number EXCEPT ![p] = counter + 1]
         /\ UNCHANGED <<ownCounter, intelFaults, fallback>>
      \/ /\ counter' \in {counter, counter + 1} /\ ownCounter' = [ownCounter EXCEPT ![At[p]] = @ + 1]
         /\ number' = [number EXCEPT ![p] = ownCounter[At[p]] + 1] /\ fallback' = fallback \cup {p}
  BY DEF TakeNumber
<1>3. At[p] \in Server BY IntelligenceConstants
<1>4. IntelTypeOK' BY <1>1, <1>2, <1>3, SMTT(20) DEF IntelTypeOK
<1>5. \A q \in Post : q # p => number'[q] = number[q] /\ posting'[q] = posting[q]
                               /\ SharedEntry(q)' = SharedEntry(q)
  BY <1>1, <1>2 DEF IntelTypeOK, SharedEntry
<1>6. SharedIsPushed' /\ PushedOnce'
  <2>1. \A i \in 1..Len(pushed) : pushed[i] \in Post /\ pushed[i] # p BY <1>1 DEF PushedOnce, IntelTypeOK
  <2>2. PushedOnce' BY <2>1, <1>1, <1>5 DEF PushedOnce
  <2>3. \A i \in 1..Len(shared) : Len(pushed) + 1 - i \in 1..Len(pushed)
    BY IntelligenceConstants DEF SharedIsPushed, IntelTypeOK
  <2>4. SharedIsPushed' BY <2>1, <2>3, <1>1, <1>5 DEF SharedIsPushed
  <2> QED BY <2>2, <2>4
<1>7. ASSUME NEW s \in Server PROVE OwnAt(s)'
  <2>1. \A i \in 1..Len(own[s]) : own[s][i].post \in Post /\ own[s][i].post # p
    BY <1>1, Fields DEF OwnAt, IntelTypeOK
  <2> QED BY <2>1, <1>1, <1>5 DEF OwnAt
<1>8. \A q \in Post : Shown(q)'
  BY <1>1, <1>5 DEF Shown, IntelTypeOK
<1>9. GivenOnce'
  <2>1. \A q \in Post : q # p => (HandedTo(q)' <=> HandedTo(q)) /\ number'[q] = number[q]
    BY <1>2, <1>5 DEF HandedTo
  <2>2. HandedTo(p)' => counter' = counter + 1 /\ number'[p] = counter + 1
    BY <1>2 DEF HandedTo, IntelTypeOK
  <2>3. counter \in Nat /\ counter <= counter' /\ \A q \in Post : number[q] \in Nat
    BY <1>2 DEF IntelTypeOK
  <2>4. \A q \in Post : HandedTo(q) => number[q] <= counter BY DEF GivenOnce
  <2>5. \A q \in Post : HandedTo(q)' => number'[q] <= counter'
    <3> TAKE q \in Post
    <3>1. CASE q = p
      <4>1. HandedTo(p)' => number'[p] = counter' /\ counter' \in Nat BY <2>2, <1>4 DEF IntelTypeOK
      <4> QED BY <4>1, <3>1
    <3>2. CASE q # p
      <4>1. HandedTo(q)' => number'[q] <= counter /\ number'[q] \in Nat BY <3>2, <2>1, <2>3, <2>4
      <4>2. counter' \in Nat BY <1>4 DEF IntelTypeOK
      <4> QED BY <4>1, <4>2, <2>3
    <3> QED BY <3>1, <3>2
  <2>6. ASSUME NEW q \in Post, NEW r \in Post, HandedTo(q)', HandedTo(r)', number'[q] = number'[r]
        PROVE  q = r
    <3>1. CASE q # p /\ r # p BY <2>1, <2>6, <3>1 DEF GivenOnce
    <3>2. CASE q = p /\ r # p BY <2>1, <2>2, <2>3, <2>4, <2>6, <3>2
    <3>3. CASE q # p /\ r = p BY <2>1, <2>2, <2>3, <2>4, <2>6, <3>3
    <3> QED BY <3>1, <3>2, <3>3
  <2> QED BY <2>5, <2>6 DEF GivenOnce
<1> QED BY <1>4, <1>6, <1>7, <1>8, <1>9

LEMMA EnterKeeps ==
    ASSUME IntelInv, NEW p \in Post, EnterPost(p)
    PROVE  IntelInv'
<1> USE DEF IntelInv
<1> DEFINE s == At[p]
           longer == Append(own[s], SharedEntry(p))
<1>1. /\ posting[p] = "numbered" /\ posting' = [posting EXCEPT ![p] = "done"]
      /\ UNCHANGED <<counter, ownCounter, number, intelRestarts, fallback, ended>>
  BY DEF EnterPost
<1>2. PushShared(p) \/ UNCHANGED <<shared, pushed>> BY DEF EnterPost
<1>3. own' = own \/ own' = [own EXCEPT ![s] = longer] BY DEF EnterPost
<1>4. own' = [own EXCEPT ![s] = longer] \/ PushShared(p) BY DEF EnterPost
<1>5. s \in Server BY IntelligenceConstants
<1>6. /\ longer \in Seq(SharedRow) /\ Len(longer) = Len(own[s]) + 1 /\ longer[Len(longer)] = SharedEntry(p)
      /\ \A i \in 1..Len(own[s]) : longer[i] = own[s][i]
  BY <1>5, Rows DEF IntelTypeOK
<1>7. Len(own[s]) \in Nat BY <1>5 DEF IntelTypeOK
<1> HIDE DEF longer
<1>8. /\ own' \in [Server -> Seq(SharedRow)] /\ \A t \in Server \ {s} : own'[t] = own[t]
      /\ own'[s] \in {own[s], longer}
  BY <1>3, <1>5, <1>6 DEF IntelTypeOK
<1>9. shared' \in Seq(SharedRow) /\ Len(shared') <= MaxShared /\ pushed' \in Seq(Post)
  <2>1. CASE PushShared(p)
    BY <2>1, Pushes, IntelligenceConstants DEF IntelTypeOK
  <2>2. CASE UNCHANGED <<shared, pushed>> BY <2>2 DEF IntelTypeOK
  <2> QED BY <1>2, <2>1, <2>2
<1>10. IntelTypeOK' BY <1>1, <1>8, <1>9 DEF IntelTypeOK
<1>11. \A q \in Post : /\ SharedEntry(q)' = SharedEntry(q) /\ (q # p => posting'[q] = posting[q])
                       /\ (posting[q] = "done" => posting'[q] = "done")
  BY <1>1 DEF SharedEntry, IntelTypeOK
<1>12. SharedIsPushed' /\ PushedOnce'
  <2>1. CASE PushShared(p) BY <2>1, <1>1, PushKeeps
  <2>2. CASE UNCHANGED <<shared, pushed>>
    <3>1. \A i \in 1..Len(pushed) : pushed[i] \in Post BY DEF IntelTypeOK
    <3>2. \A i \in 1..Len(shared) : Len(pushed) + 1 - i \in 1..Len(pushed)
      BY IntelligenceConstants DEF SharedIsPushed, IntelTypeOK
    <3> QED BY <2>2, <3>1, <3>2, <1>11 DEF SharedIsPushed, PushedOnce
  <2> QED BY <1>2, <2>1, <2>2
<1>13. ASSUME NEW t \in Server PROVE OwnAt(t)'
  <2>1. \A i \in 1..Len(own[t]) : own[t][i].post \in Post /\ own[t][i].post # p
    BY <1>1, Fields DEF OwnAt, IntelTypeOK
  <2>2. CASE own'[t] = own[t] BY <2>1, <2>2, <1>1, <1>11 DEF OwnAt
  <2>3. CASE t = s /\ own'[s] = longer
    <3>1. Len(longer) \in 1..Len(longer) /\ \A i \in 1..Len(longer) : i \in 1..Len(own[s]) \/ i = Len(longer)
      BY <1>6, <1>7
    <3>2. longer[Len(longer)].post = p /\ longer[Len(longer)].id = number[p]
      BY <1>6, Rows DEF IntelTypeOK
    <3>3. posting'[p] = "done" BY <1>1 DEF IntelTypeOK
    <3>4. \A i \in 1..Len(own[s]) : longer[i] = own[s][i] /\ longer[i].post # p BY <1>6, <2>1, <2>3
    <3>5. \A i \in 1..Len(own[s]) : /\ longer[i].id = number'[longer[i].post]
                                    /\ At[longer[i].post] = s /\ posting'[longer[i].post] = "done"
      BY <1>1, <1>11, <2>1, <2>3, <3>4 DEF OwnAt
    <3>6. \A i \in 1..Len(longer) : /\ longer[i].id = number'[longer[i].post]
                                    /\ At[longer[i].post] = s /\ posting'[longer[i].post] = "done"
      BY <3>1, <3>2, <3>3, <3>5, <1>1
    <3>7. \A i, j \in 1..Len(own[s]) : i # j => longer[i].post # longer[j].post
      BY <3>4, <2>3 DEF OwnAt
    <3>8. \A i, j \in 1..Len(longer) : i # j => longer[i].post # longer[j].post
      BY <3>1, <3>2, <3>4, <3>7
    <3> QED BY <2>3, <3>6, <3>8 DEF OwnAt
  <2>4. CASE t # s BY <1>8, <2>2, <2>4
  <2>5. CASE t = s
    <3>1. own'[s] = own[s] \/ own'[s] = longer BY <1>8
    <3>2. own'[t] = own[t] \/ (t = s /\ own'[s] = longer) BY <3>1, <2>5
    <3> QED BY <3>2, <2>2, <2>3
  <2> QED BY <2>4, <2>5
<1>14. ASSUME NEW q \in Post PROVE Shown(q)'
  <2> SUFFICES ASSUME posting'[q] = "done" PROVE Shown(q)'
    BY DEF Shown
  <2>1. CASE q = p
    <3>1. CASE own' = [own EXCEPT ![s] = longer]
      <4>1. own'[s] = longer /\ Len(longer) \in 1..Len(longer) /\ longer[Len(longer)].post = p
        BY <3>1, <1>5, <1>6, <1>7, Rows DEF IntelTypeOK
      <4> QED BY <4>1, <2>1 DEF Shown
    <3>2. CASE PushShared(p)
      <4>1. pushed'[Len(pushed) + 1] = p /\ Len(pushed') = Len(pushed) + 1 /\ Len(pushed) \in Nat
        BY <3>2, Pushes DEF IntelTypeOK
      <4>2. Len(pushed) + 1 \in 1..Len(pushed') BY <4>1
      <4> QED BY <4>1, <4>2, <2>1 DEF Shown
    <3> QED BY <1>4, <3>1, <3>2
  <2>2. CASE q # p
    <3>1. posting[q] = "done" BY <2>2, <1>11
    <3>2. CASE q \in ended BY <3>2, <1>1 DEF Shown
    <3>3. CASE \E i \in 1..Len(own[At[q]]) : own[At[q]][i].post = q
      <4>1. PICK i \in 1..Len(own[At[q]]) : own[At[q]][i].post = q BY <3>3
      <4>2. i \in 1..Len(own'[At[q]]) /\ own'[At[q]][i] = own[At[q]][i]
        <5>1. At[q] \in Server BY IntelligenceConstants
        <5>2. CASE At[q] # s BY <5>1, <5>2, <4>1, <1>8
        <5>3. CASE At[q] = s
          <6>1. i \in 1..Len(longer) /\ longer[i] = own[s][i] BY <5>3, <4>1, <1>6, <1>7
          <6>2. own'[s] = own[s] \/ own'[s] = longer BY <1>8
          <6> QED BY <6>1, <6>2, <5>3, <4>1
        <5> QED BY <5>2, <5>3
      <4> QED BY <4>1, <4>2 DEF Shown
    <3>4. CASE \E i \in 1..Len(pushed) : pushed[i] = q
      <4>1. PICK i \in 1..Len(pushed) : pushed[i] = q BY <3>4
      <4>2. i \in 1..Len(pushed') /\ pushed'[i] = q
        <5>1. CASE PushShared(p)
          <6>1. Len(pushed') = Len(pushed) + 1 /\ pushed'[i] = pushed[i] /\ Len(pushed) \in Nat
            BY <5>1, Pushes DEF IntelTypeOK
          <6> QED BY <6>1, <4>1
        <5>2. CASE pushed' = pushed BY <5>2, <4>1
        <5> QED BY <1>2, <5>1, <5>2
      <4> QED BY <4>2 DEF Shown
    <3> QED BY <3>1, <3>2, <3>3, <3>4 DEF Shown
  <2> QED BY <2>1, <2>2
<1>15. GivenOnce'
  <2>1. \A q \in Post : (HandedTo(q)' <=> HandedTo(q)) /\ number'[q] = number[q]
    BY <1>1, <1>11 DEF HandedTo, IntelTypeOK
  <2> QED BY <2>1, <1>1 DEF GivenOnce
<1> QED BY <1>10, <1>12, <1>13, <1>14, <1>15

LEMMA RestartKeeps ==
    ASSUME IntelInv, NEW s \in Server, RestartServer(s)
    PROVE  IntelInv'
<1> USE DEF IntelInv
<1>1. /\ own' = [own EXCEPT ![s] = <<>>] /\ ownCounter' = [ownCounter EXCEPT ![s] = 0]
      /\ posting' = [p \in Post |-> IF At[p] = s /\ posting[p] = "numbered" THEN "lost" ELSE posting[p]]
      /\ ended' = ended \cup {own[s][i].post : i \in 1..Len(own[s])}
      /\ UNCHANGED <<shared, counter, number, intelFaults, fallback, pushed>>
  BY DEF RestartServer
<1>2. \A i \in 1..Len(own[s]) : own[s][i].post \in Post BY Fields DEF IntelTypeOK
<1>3. IntelTypeOK' BY <1>1, <1>2 DEF IntelTypeOK
<1>4. \A q \in Post : /\ SharedEntry(q)' = SharedEntry(q) /\ (posting'[q] = "done" <=> posting[q] = "done")
                      /\ (HandedTo(q)' <=> HandedTo(q))
  BY <1>1 DEF SharedEntry, IntelTypeOK, HandedTo
<1>5. SharedIsPushed' /\ PushedOnce'
  <2>1. \A i \in 1..Len(pushed) : pushed[i] \in Post BY DEF IntelTypeOK
  <2>2. \A i \in 1..Len(shared) : Len(pushed) + 1 - i \in 1..Len(pushed)
    BY IntelligenceConstants DEF SharedIsPushed, IntelTypeOK
  <2> QED BY <2>1, <2>2, <1>1, <1>4 DEF SharedIsPushed, PushedOnce
<1>6. ASSUME NEW t \in Server PROVE OwnAt(t)'
  <2>1. CASE t = s
    <3>1. own'[t] = <<>> BY <2>1, <1>1 DEF IntelTypeOK
    <3> QED BY <3>1 DEF OwnAt
  <2>2. CASE t # s
    <3>1. own'[t] = own[t] /\ \A i \in 1..Len(own[t]) : own[t][i].post \in Post
      BY <2>2, <1>1, Fields DEF IntelTypeOK
    <3> QED BY <3>1, <1>1, <1>4 DEF OwnAt
  <2> QED BY <2>1, <2>2
<1>7. ASSUME NEW q \in Post PROVE Shown(q)'
  <2>1. At[q] \in Server BY IntelligenceConstants
  <2>2. CASE At[q] = s BY <2>2, <1>1, <1>4 DEF Shown
  <2>3. CASE At[q] # s
    <3>1. own'[At[q]] = own[At[q]] BY <2>1, <2>3, <1>1 DEF IntelTypeOK
    <3> QED BY <3>1, <1>1, <1>4 DEF Shown
  <2> QED BY <2>2, <2>3
<1>8. GivenOnce' BY <1>1, <1>4 DEF GivenOnce
<1> QED BY <1>3, <1>5, <1>6, <1>7, <1>8

LEMMA IntelStart == IntelInit => IntelInv
<1> SUFFICES ASSUME IntelInit PROVE IntelInv
  OBVIOUS
<1> USE DEF IntelInit
<1>1. IntelTypeOK BY IntelligenceConstants DEF IntelTypeOK
<1>2. SharedIsPushed BY IntelligenceConstants DEF SharedIsPushed
<1>3. PushedOnce BY DEF PushedOnce
<1>4. GivenOnce BY DEF GivenOnce, HandedTo
<1>5. \A s \in Server : OwnAt(s) BY DEF OwnAt
<1>6. \A p \in Post : Shown(p) BY DEF Shown
<1> QED BY <1>1, <1>2, <1>3, <1>4, <1>5, <1>6 DEF IntelInv

LEMMA IntelStep == IntelInv /\ [IntelNext]_intelVars => IntelInv'
<1> SUFFICES ASSUME IntelInv, [IntelNext]_intelVars PROVE IntelInv'
  OBVIOUS
<1>1. ASSUME NEW p \in Post, TakeNumber(p) PROVE IntelInv' BY <1>1, NumberKeeps
<1>2. ASSUME NEW p \in Post, EnterPost(p) PROVE IntelInv' BY <1>2, EnterKeeps
<1>3. ASSUME NEW s \in Server, RestartServer(s) PROVE IntelInv' BY <1>3, RestartKeeps
<1>4. CASE UNCHANGED intelVars
  BY <1>4 DEF intelVars, IntelInv, IntelTypeOK, SharedIsPushed, PushedOnce, GivenOnce, HandedTo, OwnAt, Shown,
              SharedEntry
<1> QED BY <1>1, <1>2, <1>3, <1>4 DEF IntelNext

\* Every variable of the shared entries keeps its type, for any processes,
\* publications and length of the list.
THEOREM IntelTypeCorrect == IntelSpec => []IntelTypeOK
<1>1. IntelInv => IntelTypeOK BY DEF IntelInv
<1> QED BY <1>1, IntelStart, IntelStep, PTL DEF IntelSpec

\* An answered entry is served, once and under its number, unless its process
\* ended or newer ones pushed it out (publish, _all_entries), for any processes
\* and publications.
THEOREM PublishedStays == IntelSpec => []PublishedIsServed
<1>1. IntelInv => PublishedIsServed
  <2> SUFFICES ASSUME IntelInv PROVE PublishedIsServed
    OBVIOUS
  <2> USE DEF IntelInv
  <2>1. MaxShared \in Nat \ {0} /\ Len(shared) \in Nat /\ Len(pushed) \in Nat
    BY IntelligenceConstants DEF IntelTypeOK
  <2>2. ASSUME NEW p \in Post, posting[p] = "done"
        PROVE  p \in ended \/ Serves(At[p], TRUE, p) \/ \E i \in 1..Len(pushed) : pushed[i] = p
    <3>1. ASSUME NEW i \in 1..Len(own[At[p]]), own[At[p]][i].post = p PROVE Serves(At[p], TRUE, p)
      <4> DEFINE n == Len(own[At[p]])
      <4>1. n \in Nat BY IntelligenceConstants DEF IntelTypeOK
      <4>2. n + 1 - i \in 1..n /\ n + 1 - (n + 1 - i) = i BY <4>1
      <4>3. AllEntries(At[p], TRUE)[n + 1 - i] = own[At[p]][i] BY <4>1, <4>2 DEF AllEntries
      <4> QED BY <3>1, <4>2, <4>3 DEF Serves, CountEntries
    <3> QED BY <2>2, <3>1 DEF Shown
  <2>3. ASSUME NEW i \in 1..Len(pushed), i > Len(pushed) - MaxShared
        PROVE  Serves(At[pushed[i]], FALSE, pushed[i])
    <3> DEFINE k == Len(pushed) + 1 - i
    <3>1. k \in 1..Len(shared) /\ Len(pushed) + 1 - k = i BY <2>1, <2>3 DEF SharedIsPushed
    <3>2. pushed[i] \in Post BY DEF IntelTypeOK
    <3>3. shared[k].post = pushed[i] BY <3>1, <3>2, Rows DEF SharedIsPushed, IntelTypeOK
    <3> QED BY <3>1, <3>3 DEF Serves, AllEntries, CountEntries
  <2>4. \A p, q \in Post : posting[p] = "done" /\ posting[q] = "done" /\ number[p] = number[q] /\ p # q
           => {p, q} \cap fallback # {}
    BY DEF GivenOnce, HandedTo
  <2>5. ASSUME NEW s \in Server, NEW i \in 1..Len(own[s]), NEW j \in 1..Len(own[s]), i # j
        PROVE  /\ own[s][i].post # own[s][j].post
               /\ own[s][i].id = own[s][j].id => {own[s][i].post, own[s][j].post} \cap fallback # {}
    <3>1. own[s][i].post \in Post /\ own[s][j].post \in Post BY Fields DEF IntelTypeOK
    <3> QED BY <2>4, <2>5, <3>1 DEF OwnAt
  <2>6. ASSUME NEW i \in 1..Len(shared), NEW j \in 1..Len(shared), i # j
        PROVE  /\ shared[i].post # shared[j].post
               /\ shared[i].id = shared[j].id => {shared[i].post, shared[j].post} \cap fallback # {}
    <3> DEFINE a == Len(pushed) + 1 - i
               b == Len(pushed) + 1 - j
    <3>1. a \in 1..Len(pushed) /\ b \in 1..Len(pushed) /\ a # b BY <2>1, <2>6 DEF SharedIsPushed
    <3>2. pushed[a] \in Post /\ pushed[b] \in Post BY <3>1 DEF IntelTypeOK
    <3>3. shared[i] = SharedEntry(pushed[a]) /\ shared[j] = SharedEntry(pushed[b]) BY DEF SharedIsPushed
    <3> HIDE DEF a, b
    <3>4. /\ shared[i].post = pushed[a] /\ shared[i].id = number[pushed[a]]
          /\ shared[j].post = pushed[b] /\ shared[j].id = number[pushed[b]]
      BY <3>2, <3>3, Rows DEF IntelTypeOK
    <3>5. posting[pushed[a]] = "done" /\ posting[pushed[b]] = "done" /\ pushed[a] # pushed[b]
      BY <3>1 DEF PushedOnce
    <3> QED BY <2>4, <3>2, <3>4, <3>5
  <2>7. ASSUME NEW s \in Server, NEW fails \in BOOLEAN,
               NEW i \in 1..CountEntries(s, fails), NEW j \in 1..CountEntries(s, fails), i # j
        PROVE  LET read == AllEntries(s, fails)
               IN  /\ read[i].post # read[j].post
                   /\ read[i].id = read[j].id => {read[i].post, read[j].post} \cap fallback # {}
    <3>1. CASE fails
      <4> DEFINE n == Len(own[s])
                 a == n + 1 - i
                 b == n + 1 - j
      <4>1. i \in 1..n /\ j \in 1..n /\ n \in Nat BY <3>1 DEF CountEntries, IntelTypeOK
      <4>2. a \in 1..n /\ b \in 1..n /\ a # b BY <4>1, <2>7
      <4>3. AllEntries(s, fails)[i] = own[s][a] /\ AllEntries(s, fails)[j] = own[s][b]
        BY <3>1, <4>1 DEF AllEntries
      <4> HIDE DEF a, b
      <4> QED BY <4>2, <4>3, <2>5
    <3>2. CASE ~fails BY <3>2, <2>6, <2>7 DEF AllEntries, CountEntries
    <3> QED BY <3>1, <3>2
  <2> QED BY <2>2, <2>3, <2>7 DEF PublishedIsServed
<1> QED BY <1>1, IntelStart, IntelStep, PTL DEF IntelSpec

-----------------------------------------------------------------------------
(***************************************************************************)
(* The audit chain, for any bound, way to persist, legacy file and faults  *)
(***************************************************************************)

(***************************************************************************)
(* Sequences, as the chain uses them.                                      *)
(***************************************************************************)
LEMMA LegacyType == Legacy \in Seq(Block) /\ Len(Legacy) = LegacyLength
<1>1. LegacyLength \in Nat
  BY ChainConstants
<1>2. \A i \in 1..LegacyLength : NewBlock(i - 1, i - 1, i) \in Block
  BY <1>1 DEF NewBlock, Block
<1> QED
  BY <1>1, <1>2 DEF Legacy

LEMMA GenesisType == Genesis \in Block
  BY DEF Genesis, NewBlock, Block

LEMMA PrefixType ==
    ASSUME NEW S, NEW s \in Seq(S), NEW n \in 0..Len(s)
    PROVE  /\ SubSeq(s, 1, n) \in Seq(S)
           /\ Len(SubSeq(s, 1, n)) = n
           /\ \A i \in 1..n : SubSeq(s, 1, n)[i] = s[i]
<1>1. \A i \in 1..n : s[i] \in S
  OBVIOUS
<1> QED
  BY <1>1, SubSeqProperties

(***************************************************************************)
(* The ways a file changes.                                                *)
(***************************************************************************)
LEMMA WrittenType ==
    ASSUME NEW f \in File, NEW blk \in Block
    PROVE  Written(f, blk) \in File
<1>1. CASE f.end = "line"
  <2>1. Front(f.blocks) \in Seq(Block)
    BY <1>1, PrefixType DEF Front, File
  <2> QED
    BY <1>1, <2>1 DEF Written, File
<1>2. CASE f.end # "line"
  BY <1>2 DEF Written, File
<1> QED
  BY <1>1, <1>2

LEMMA TornType ==
    ASSUME NEW f \in File, NEW blk \in Block, NEW g \in Torn(f, blk)
    PROVE  g \in File
<1>1. CASE f.end = "line"
  <2>1. Front(f.blocks) \in Seq(Block)
    BY <1>1, PrefixType DEF Front, File
  <2> QED
    BY <1>1, <2>1 DEF Torn, File
<1>2. CASE f.end = "newline"
  <2>1. Append(f.blocks, blk) \in Seq(Block) /\ Append(f.blocks, blk) # <<>>
    BY DEF File
  <2> QED
    BY <1>2, <2>1 DEF Torn, File
<1>3. CASE f.end = "fragment"
  BY <1>3 DEF Torn, File
<1> QED
  BY <1>1, <1>2, <1>3 DEF File

LEMMA CutShortType ==
    ASSUME NEW f \in File, NEW g \in CutShort(f)
    PROVE  g \in File /\ \E n \in 0..Len(f.blocks) : g.blocks = SubSeq(f.blocks, 1, n)
<1>1. PICK n \in 0..Len(f.blocks), e \in {"newline", "fragment", "line"},
           j \in {FALSE, f.junk} :
        g = [blocks |-> SubSeq(f.blocks, 1, n), end |-> e, junk |-> j]
  BY DEF CutShort
<1>2. g \in File
  BY DEF CutShort
<1> QED
  BY <1>1, <1>2
-----------------------------------------------------------------------------
(***************************************************************************)
(* The inductive invariant.  Genuineness is about where blocks come from,  *)
(* so it is told of every place a block can be, and the promises about a   *)
(* running service need the matching facts about the file of a stopped     *)
(* one, from which the next service is built.                              *)
(***************************************************************************)
\* A process that does not run keeps nothing; without a writer thread, and
\* without a sentinel, the corresponding queues are empty.
Idle ==
    /\ phase # "up" => /\ chain = <<>> /\ queue = <<>> /\ stray = <<>>
                       /\ holding = <<>> /\ stop = "no"
    /\ ~Async => queue = <<>> /\ stray = <<>> /\ holding = <<>> /\ stop = "no"
    /\ stop = "no" => stray = <<>>

\* Digests identify blocks, and a block's index follows its predecessor's.
HistoryIsTree ==
    /\ minted > 0
    /\ Genesis \in hist
    /\ legacy => \A i \in 1..LegacyLength : Legacy[i] \in hist
    /\ \A b \in hist : b.intact /\ b.prev < b.hash /\ b.hash <= minted
    /\ \A b, c \in hist : b.hash = c.hash => b = c
    /\ \A b, c \in hist : c.prev = b.hash => c.index = b.index + 1

Genuine ==
    /\ \A i \in 1..Len(file.blocks) :
          file.blocks[i].intact => file.blocks[i] \in hist
    /\ \A i \in 1..Len(chain) : chain[i] \in hist
    /\ \A i \in 1..Len(queue) : queue[i] \in hist
    /\ \A i \in 1..Len(stray) : stray[i] \in hist
    /\ \A i \in 1..Len(holding) : holding[i] \in hist

Linked ==
    phase = "up" => /\ chain # <<>>
                    /\ \A i \in 2..Len(chain) : chain[i].prev = chain[i - 1].hash

\* As long as nothing was spoiled, what is on disk can be started from.
Unspoiled ==
    ~lossy =>
      /\ phase # "refused"
      /\ file.end = "newline" /\ file.junk = FALSE
      /\ file.blocks # <<>> => Verifies(file.blocks)
      /\ \A i \in 1..Len(file.blocks) : file.blocks[i].index = i - 1
      /\ phase = "up" =>
           /\ file.blocks # <<>>
           /\ chain = file.blocks \o holding \o queue \o stray
           /\ \A i \in 1..Len(chain) : chain[i].index = i - 1

IInv == AuditTypeOK /\ Idle /\ HistoryIsTree /\ Genuine /\ Linked /\ Unspoiled
-----------------------------------------------------------------------------
(***************************************************************************)
(* Type correctness: every variable keeps its type, the file included,     *)
(* whose last line is unterminated only if there is one.                   *)
(***************************************************************************)
LEMMA InitType == AuditInit => AuditTypeOK
<1>1. EmptyFile \in File
  BY DEF EmptyFile, File
<1>2. {Genesis} \cup {Legacy[i] : i \in 1..LegacyLength} \subseteq Block
  BY LegacyType, GenesisType, ElementOfSeq, ChainConstants
<1>3. LegacyLength \in Nat
  BY ChainConstants
<1>4. <<>> \in Seq(Block) /\ Len(<<>>) = 0
  BY EmptySeq
<1> SUFFICES ASSUME AuditInit PROVE AuditTypeOK
  OBVIOUS
<1>5. file \in File /\ hist \subseteq Block /\ minted \in Nat
  BY <1>1, <1>2, <1>3 DEF AuditInit
<1>6. /\ phase = "down" /\ stop = "no"
      /\ chain = <<>> /\ queue = <<>> /\ stray = <<>> /\ holding = <<>>
  BY DEF AuditInit
<1>7. lossy \in BOOLEAN /\ legacy \in BOOLEAN /\ (legacy => LegacyLength > 0)
  BY DEF AuditInit
<1>8. chain \in Seq(Block) /\ queue \in Seq(Block) /\ stray \in Seq(Block)
      /\ holding \in Seq(Block) /\ Len(holding) <= 1
  BY <1>4, <1>6
<1> QED
  BY <1>5, <1>6, <1>7, <1>8 DEF AuditTypeOK

LEMMA NextType == IInv /\ [AuditNext]_auditVars => AuditTypeOK'
<1> SUFFICES ASSUME AuditTypeOK, Linked, [AuditNext]_auditVars PROVE AuditTypeOK'
  BY DEF IInv
<1> USE DEF AuditTypeOK
<1>1. CASE Start
  <2>1. Written(file, Genesis) \in File
    BY WrittenType, GenesisType
  <2>2. \A g \in Torn(file, Genesis) : g \in File
    BY TornType, GenesisType
  <2>3. [EmptyFile EXCEPT !.blocks = Legacy] \in File
    BY LegacyType DEF EmptyFile, File
  <2>4. \A g \in CutShort([EmptyFile EXCEPT !.blocks = Legacy]) : g \in File
    BY <2>3, CutShortType
  <2>5. <<Genesis>> \in Seq(Block)
    BY GenesisType
  <2>6. file.blocks \in Seq(Block)
    BY DEF File
  <2>7. CASE StartLoad
    BY <2>7, <2>6 DEF StartLoad, Serve
  <2>8. CASE StartRefuse
    BY <2>8 DEF StartRefuse, Refuse, memory
  <2>9. CASE StartFresh
    BY <2>9, <2>1, <2>5 DEF StartFresh, Serve
  <2>10. CASE StartFreshFail
    BY <2>10, <2>2 DEF StartFreshFail, Refuse, memory
  <2>11. CASE StartMigrate
    BY <2>11, <2>3, LegacyType DEF StartMigrate, Serve
  <2>12. CASE StartMigrateFail
    BY <2>12, <2>4 DEF StartMigrateFail, Refuse, memory
  <2> QED
    BY <1>1, <2>7, <2>8, <2>9, <2>10, <2>11, <2>12 DEF Start
<1>2. CASE AppendBlock
  <2> DEFINE blk == NewBlock(Last(chain).index + 1, Last(chain).hash, minted + 1)
  <2>1. chain # <<>> /\ Last(chain) \in Block
    BY <1>2, ElementOfSeq, LenProperties DEF AppendBlock, Linked, Last
  <2>2. blk \in Block
    BY <2>1 DEF NewBlock, Block
  <2>3. /\ phase' = phase /\ stop' = stop /\ holding' = holding
        /\ minted' = minted + 1
        /\ chain' = Append(chain, blk) /\ hist' = hist \cup {blk}
        /\ Enqueue(blk) \/ WriteThrough(blk)
    BY <1>2 DEF AppendBlock
  <2> HIDE DEF blk
  <2>4. /\ phase' \in {"down", "up", "refused"}
        /\ stop' \in {"no", "queued", "taken"}
        /\ chain' \in Seq(Block) /\ hist' \subseteq Block /\ minted' \in Nat
        /\ holding' \in Seq(Block) /\ Len(holding') <= 1
    BY <2>2, <2>3
  <2>5. ASSUME Enqueue(blk)
        PROVE  /\ queue' \in Seq(Block) /\ stray' \in Seq(Block)
               /\ file' \in File /\ lossy' \in BOOLEAN
    <3>1. file' \in File /\ lossy' \in BOOLEAN
      BY <2>5 DEF Enqueue
    <3>2. queue' \in Seq(Block) /\ stray' \in Seq(Block)
      <4>1. \/ queue' = Append(queue, blk) /\ stray' = stray
            \/ stray' = Append(stray, blk) /\ queue' = queue
        BY <2>5 DEF Enqueue
      <4>2. /\ queue \in Seq(Block) /\ Append(queue, blk) \in Seq(Block)
            /\ stray \in Seq(Block) /\ Append(stray, blk) \in Seq(Block)
        BY <2>2
      <4> QED
        BY <4>1, <4>2
    <3> QED
      BY <3>1, <3>2
  <2>6. ASSUME WriteThrough(blk)
        PROVE  /\ queue' \in Seq(Block) /\ stray' \in Seq(Block)
               /\ file' \in File /\ lossy' \in BOOLEAN
    BY <2>2, <2>6, WrittenType, TornType DEF WriteThrough
  <2>7. /\ queue' \in Seq(Block) /\ stray' \in Seq(Block)
        /\ file' \in File /\ lossy' \in BOOLEAN
    BY <2>3, <2>5, <2>6
  <2>8. legacy' \in BOOLEAN /\ (legacy' => LegacyLength > 0)
    BY <1>2 DEF AppendBlock
  <2> HIDE DEF AuditTypeOK
  <2> QED
    BY <2>4, <2>7, <2>8 DEF AuditTypeOK
<1>3. CASE Shutdown
  BY <1>3 DEF Shutdown
<1>4. CASE Writer
  <2>1. CASE WriterTake
    BY <2>1 DEF WriterTake
  <2>2. CASE WriterAppend
    BY <2>2, WrittenType DEF WriterAppend
  <2>3. CASE WriterAppendFail
    BY <2>3, TornType DEF WriterAppendFail
  <2>4. CASE WriterExit
    BY <2>4 DEF WriterExit
  <2> QED
    BY <1>4, <2>1, <2>2, <2>3, <2>4 DEF Writer
<1>5. CASE Exit
  BY <1>5 DEF Exit, Forget
<1>6. CASE PowerLoss
  BY <1>6, CutShortType DEF PowerLoss, Forget
<1>7. ASSUME NEW i \in 1..Len(file.blocks), Damage(i) PROVE AuditTypeOK'
  <2> DEFINE whole == SubSeq(file.blocks, 1, i - 1)
                     \o SubSeq(file.blocks, i + 1, Len(file.blocks))
  <2>1. whole \in Seq(Block)
    BY SubSeqProperties, ConcatProperties DEF File
  <2>2. file.end = "line" /\ i # Len(file.blocks) => whole # <<>>
    <3> DEFINE n == Len(file.blocks)
               before == SubSeq(file.blocks, 1, i - 1)
               after  == SubSeq(file.blocks, i + 1, n)
    <3>1. /\ before \in Seq(Block) /\ Len(before) = i - 1
          /\ after \in Seq(Block) /\ Len(after) = n - i
      BY SubSeqProperties DEF File
    <3>2. n \in Nat
      BY LenProperties DEF File
    <3> HIDE DEF before, after, n
    <3>3. Len(before \o after) = Len(before) + Len(after)
      BY <3>1, ConcatProperties
    <3>4. i # n => Len(before \o after) > 0
      BY <3>1, <3>2, <3>3 DEF n
    <3>5. before \o after = <<>> => Len(before \o after) = 0
      BY EmptySeq
    <3>6. i # n => before \o after # <<>>
      BY <3>4, <3>5
    <3> QED
      BY <3>6 DEF before, after, n
  <2> HIDE DEF whole
  <2>3. file' = [blocks |-> whole,
                 end |-> IF file.end = "line" /\ i = Len(file.blocks)
                         THEN "fragment" ELSE file.end,
                 junk |-> TRUE]
    BY <1>7 DEF Damage, whole
  <2>4. file' \in File
    BY <2>1, <2>2, <2>3 DEF File
  <2> QED
    BY <1>7, <2>4 DEF Damage, memory
<1>8. ASSUME NEW i \in 1..Len(file.blocks), Tamper(i) PROVE AuditTypeOK'
  <2> DEFINE edited == [file.blocks EXCEPT ![i] = [@ EXCEPT !.intact = FALSE]]
  <2>1. file.blocks[i] \in Block
    BY ElementOfSeq DEF File
  <2>2. edited \in Seq(Block) /\ Len(edited) = Len(file.blocks)
    <3>1. [file.blocks[i] EXCEPT !.intact = FALSE] \in Block
      BY <2>1 DEF Block
    <3>2. file.blocks \in Seq(Block)
      BY DEF File
    <3> QED
      BY <3>1, <3>2, ExceptSeq
  <2>3. edited # <<>>
    BY <2>2
  <2>4. file' = [file EXCEPT !.blocks = edited]
    BY <1>8 DEF Tamper
  <2> HIDE DEF edited
  <2>5. file' \in File
    BY <2>2, <2>3, <2>4 DEF File
  <2> QED
    BY <1>8, <2>5 DEF Tamper, memory
<1>9. CASE UNCHANGED auditVars
  BY <1>9 DEF auditVars, memory
<1> QED
  BY <1>1, <1>2, <1>3, <1>4, <1>5, <1>6, <1>7, <1>8, <1>9 DEF AuditNext
-----------------------------------------------------------------------------
(***************************************************************************)
(* The history: a new block's digest is fresh, and its index follows that  *)
(* of the only block whose digest is its prev_hash.                        *)
(***************************************************************************)
LEMMA AppendFacts ==
    ASSUME NEW S, NEW s \in Seq(S), NEW e \in S
    PROVE  /\ Append(s, e) \in Seq(S)
           /\ Append(s, e) # <<>>
           /\ Len(Append(s, e)) = Len(s) + 1
           /\ \A i \in 1..Len(s) : Append(s, e)[i] = s[i]
           /\ Append(s, e)[Len(s) + 1] = e
  OBVIOUS

\* What an append by the service does to the chain and to the history.
FreshBlock == NewBlock(Last(chain).index + 1, Last(chain).hash, minted + 1)

LEMMA AppendedBlock ==
    ASSUME IInv, AppendBlock
    PROVE  /\ chain # <<>> /\ Len(chain) \in Nat \ {0}
           /\ Last(chain) = chain[Len(chain)]
           /\ Last(chain) \in hist
           /\ FreshBlock \in Block
           /\ chain' = Append(chain, FreshBlock)
           /\ hist' = hist \cup {FreshBlock}
           /\ minted' = minted + 1
           /\ phase = "up" /\ phase' = "up" /\ UNCHANGED <<stop, holding, legacy>>
           /\ (Async /\ Enqueue(FreshBlock)) \/ (~Async /\ WriteThrough(FreshBlock))
<1>1. phase = "up" /\ chain \in Seq(Block) /\ minted \in Nat
  BY DEF AppendBlock, IInv, AuditTypeOK
<1>2. chain # <<>> /\ Len(chain) \in Nat \ {0}
  BY <1>1, EmptySeq DEF IInv, Linked
<1>3. Last(chain) = chain[Len(chain)] /\ Last(chain) \in hist /\ Last(chain) \in Block
  BY <1>1, <1>2, ElementOfSeq DEF Last, IInv, Genuine
<1>4. FreshBlock \in Block
  BY <1>1, <1>3 DEF FreshBlock, NewBlock, Block
<1>5. /\ chain' = Append(chain, FreshBlock) /\ hist' = hist \cup {FreshBlock}
      /\ minted' = minted + 1 /\ phase' = phase /\ UNCHANGED <<stop, holding, legacy>>
      /\ (Async /\ Enqueue(FreshBlock)) \/ (~Async /\ WriteThrough(FreshBlock))
  BY DEF AppendBlock, FreshBlock
<1> QED
  BY <1>1, <1>2, <1>3, <1>4, <1>5

LEMMA SameHistory ==
    ASSUME [AuditNext]_auditVars, ~AppendBlock
    PROVE  hist' = hist /\ minted' = minted /\ legacy' = legacy
  BY DEF AuditNext, Start, StartLoad, StartRefuse, StartFresh, StartFreshFail, StartMigrate,
         StartMigrateFail, Serve, Refuse, Shutdown, Writer, WriterTake, WriterAppend,
         WriterAppendFail, WriterExit, Exit, PowerLoss, Forget, Damage, Tamper, auditVars

LEMMA NextHistory == IInv /\ [AuditNext]_auditVars => HistoryIsTree'
<1> SUFFICES ASSUME IInv, [AuditNext]_auditVars PROVE HistoryIsTree'
  OBVIOUS
<1>1. CASE ~AppendBlock
  BY <1>1, SameHistory DEF IInv, HistoryIsTree
<1>2. CASE AppendBlock
  <2> DEFINE blk == FreshBlock
             p == Last(chain)
  <2>1. p \in hist /\ hist' = hist \cup {blk} /\ minted' = minted + 1
    BY <1>2, AppendedBlock
  <2>2. /\ blk.index = p.index + 1 /\ blk.hash = minted + 1 /\ blk.prev = p.hash
        /\ blk.intact
    BY DEF NewBlock, FreshBlock
  <2> HIDE DEF blk, p
  <2>3. /\ minted \in Nat \ {0}
        /\ \A b \in hist : /\ b \in Block /\ b.hash \in Nat /\ b.prev \in Nat
                           /\ b.index \in Nat
                           /\ b.intact /\ b.prev < b.hash /\ b.hash <= minted
    BY DEF IInv, HistoryIsTree, AuditTypeOK, Block
  <2>4. \A b, c \in hist : b.hash = c.hash => b = c
    BY DEF IInv, HistoryIsTree
  <2>9. \A b, c \in hist : c.prev = b.hash => c.index = b.index + 1
    BY DEF IInv, HistoryIsTree
  <2>5. /\ minted' > 0 /\ Genesis \in hist'
        /\ legacy' => \A i \in 1..LegacyLength : Legacy[i] \in hist'
    <3>1. legacy' = legacy
      BY <1>2, AppendedBlock
    <3> QED
      BY <2>1, <2>3, <3>1 DEF IInv, HistoryIsTree
  <2>6. \A b \in hist' : b.intact /\ b.prev < b.hash /\ b.hash <= minted'
    BY <2>1, <2>2, <2>3
  <2>7. \A b, c \in hist' : b.hash = c.hash => b = c
    <3>1. \A b \in hist : b.hash # blk.hash
      BY <2>2, <2>3
    <3>2. TAKE b, c \in hist'
    <3>3. CASE b \in hist /\ c \in hist
      BY <2>4, <3>3
    <3>4. CASE b = blk \/ c = blk
      BY <2>1, <3>1, <3>4
    <3> QED
      BY <2>1, <3>3, <3>4
  <2>8. \A b, c \in hist' : c.prev = b.hash => c.index = b.index + 1
    <3>1. ASSUME NEW b \in hist, blk.prev = b.hash PROVE blk.index = b.index + 1
      <4>1. p.hash = b.hash /\ p \in hist
        BY <2>1, <2>2, <3>1
      <4>2. p = b
        BY <2>4, <4>1
      <4> QED
        BY <2>2, <4>2
    <3>2. \A c \in hist' : c.prev # blk.hash
      BY <2>1, <2>2, <2>3
    <3>3. TAKE b, c \in hist'
    <3>4. CASE b \in hist /\ c \in hist
      BY <2>9, <3>4
    <3>5. CASE b \in hist /\ c = blk
      BY <3>1, <3>5
    <3>6. CASE b = blk
      BY <3>2, <3>6
    <3> QED
      BY <2>1, <3>4, <3>5, <3>6
  <2> QED
    BY <2>5, <2>6, <2>7, <2>8 DEF HistoryIsTree
<1> QED
  BY <1>1, <1>2

LEMMA NextIdle == IInv /\ [AuditNext]_auditVars => Idle'
<1> SUFFICES ASSUME IInv, [AuditNext]_auditVars PROVE Idle'
  OBVIOUS
<1> USE DEF Idle
<1>0. Idle
  BY DEF IInv
<1>1. CASE Start
  BY <1>0, <1>1 DEF Start, StartLoad, StartRefuse, StartFresh, StartFreshFail, StartMigrate,
       StartMigrateFail, Serve, Refuse, memory
<1>2. CASE AppendBlock
  BY <1>0, <1>2, AppendedBlock DEF Enqueue, WriteThrough
<1>3. CASE Shutdown
  BY <1>0, <1>3 DEF Shutdown
<1>4. CASE Writer
  BY <1>0, <1>4, EmptySeq DEF Writer, WriterTake, WriterAppend, WriterAppendFail, WriterExit
<1>5. CASE Exit \/ PowerLoss
  BY <1>0, <1>5 DEF Exit, PowerLoss, Forget
<1>6. CASE \E i \in 1..Len(file.blocks) : Damage(i) \/ Tamper(i)
  BY <1>0, <1>6 DEF Damage, Tamper, memory
<1>7. CASE UNCHANGED auditVars
  BY <1>0, <1>7 DEF auditVars, memory
<1> QED
  BY <1>1, <1>2, <1>3, <1>4, <1>5, <1>6, <1>7 DEF AuditNext
-----------------------------------------------------------------------------
(***************************************************************************)
(* Genuineness: no place ever holds an intact block that append did not    *)
(* create, whatever a write, a power loss or a damaged line leaves behind. *)
(***************************************************************************)
AllIn(s, h)    == \A i \in 1..Len(s) : s[i] \in h
IntactIn(s, h) == \A i \in 1..Len(s) : s[i].intact => s[i] \in h

LEMMA PrefixIntact ==
    ASSUME NEW s \in Seq(Block), NEW h, IntactIn(s, h), NEW n \in 0..Len(s)
    PROVE  IntactIn(SubSeq(s, 1, n), h)
  BY PrefixType DEF IntactIn

LEMMA AppendIntact ==
    ASSUME NEW s \in Seq(Block), NEW h, IntactIn(s, h), NEW blk \in Block, blk \in h
    PROVE  IntactIn(Append(s, blk), h)
  BY AppendFacts DEF IntactIn

LEMMA WrittenIntact ==
    ASSUME NEW f \in File, NEW h, IntactIn(f.blocks, h), NEW blk \in Block, blk \in h
    PROVE  IntactIn(Written(f, blk).blocks, h)
<1>1. f.blocks \in Seq(Block) /\ Len(f.blocks) \in Nat
  BY LenProperties DEF File
<1>2. CASE f.end = "newline"
  <2>1. Written(f, blk).blocks = Append(f.blocks, blk)
    BY <1>2 DEF Written, File
  <2> QED
    BY <1>1, <2>1, AppendIntact
<1>3. CASE f.end = "line"
  <2>1. Written(f, blk).blocks = SubSeq(f.blocks, 1, Len(f.blocks) - 1)
    BY <1>3 DEF Written, Front
  <2>2. Len(f.blocks) - 1 \in 0..Len(f.blocks)
    BY <1>1, <1>3, EmptySeq DEF File
  <2> QED
    BY <1>1, <2>1, <2>2, PrefixIntact
<1>4. CASE f.end = "fragment"
  <2>1. Written(f, blk).blocks = f.blocks
    BY <1>4 DEF Written
  <2> QED
    BY <2>1
<1> QED
  BY <1>2, <1>3, <1>4 DEF File

LEMMA TornIntact ==
    ASSUME NEW f \in File, NEW h, IntactIn(f.blocks, h), NEW blk \in Block, blk \in h,
           NEW g \in Torn(f, blk)
    PROVE  IntactIn(g.blocks, h)
<1>1. f.blocks \in Seq(Block) /\ Len(f.blocks) \in Nat
  BY LenProperties DEF File
<1>2. \/ g.blocks = f.blocks
      \/ g.blocks = Append(f.blocks, blk)
      \/ g.blocks = SubSeq(f.blocks, 1, Len(f.blocks) - 1) /\ f.end = "line"
  BY DEF Torn, File, Front
<1>3. f.end = "line" => Len(f.blocks) - 1 \in 0..Len(f.blocks)
  BY <1>1, EmptySeq DEF File
<1> QED
  BY <1>1, <1>2, <1>3, AppendIntact, PrefixIntact

LEMMA RemoveIntact ==
    ASSUME NEW s \in Seq(Block), NEW h, IntactIn(s, h), NEW i \in 1..Len(s)
    PROVE  IntactIn(SubSeq(s, 1, i - 1) \o SubSeq(s, i + 1, Len(s)), h)
<1> DEFINE before == SubSeq(s, 1, i - 1)
           after  == SubSeq(s, i + 1, Len(s))
<1>1. /\ before \in Seq(Block) /\ Len(before) = i - 1
      /\ \A j \in 1..(i - 1) : before[j] = s[j]
      /\ after \in Seq(Block) /\ Len(after) = Len(s) - i
      /\ \A j \in 1..(Len(s) - i) : after[j] = s[i + j]
  BY SubSeqProperties
<1>2. Len(s) \in Nat /\ i \in Nat
  BY LenProperties
<1> HIDE DEF before, after
<1>c. /\ Len(before \o after) = Len(before) + Len(after)
      /\ \A j \in 1..(Len(before) + Len(after)) :
            (before \o after)[j] = IF j <= Len(before) THEN before[j]
                                  ELSE after[j - Len(before)]
  BY <1>1, ConcatProperties
<1>3. /\ Len(before \o after) = Len(s) - 1
      /\ \A j \in 1..(Len(s) - 1) :
            (before \o after)[j] = IF j <= i - 1 THEN s[j] ELSE s[j + 1]
  <2>1. Len(before) + Len(after) = Len(s) - 1
    BY <1>1, <1>2
  <2>2. ASSUME NEW j \in 1..(Len(s) - 1), j <= i - 1
        PROVE  (before \o after)[j] = s[j]
    BY <1>1, <1>2, <1>c, <2>1, <2>2
  <2>3. ASSUME NEW j \in 1..(Len(s) - 1), ~(j <= i - 1)
        PROVE  (before \o after)[j] = s[j + 1]
    <3>1. j - (i - 1) \in 1..(Len(s) - i) /\ i + (j - (i - 1)) = j + 1
      BY <1>2, <2>3
    <3>2. (before \o after)[j] = after[j - (i - 1)]
      BY <1>1, <1>2, <1>c, <2>1, <2>3
    <3>3. after[j - (i - 1)] = s[i + (j - (i - 1))]
      BY <1>1, <3>1
    <3> QED
      BY <3>1, <3>2, <3>3
  <2> QED
    BY <1>c, <2>1, <2>2, <2>3
<1>4. IntactIn(before \o after, h)
  BY <1>2, <1>3 DEF IntactIn
<1> QED
  BY <1>4 DEF before, after

LEMMA GenuineMeans ==
    Genuine <=> /\ IntactIn(file.blocks, hist)
                /\ AllIn(chain, hist) /\ AllIn(queue, hist)
                /\ AllIn(stray, hist) /\ AllIn(holding, hist)
  BY DEF Genuine, IntactIn, AllIn

LEMMA NextGenuine == IInv /\ [AuditNext]_auditVars => Genuine'
<1> SUFFICES ASSUME IInv, [AuditNext]_auditVars
             PROVE  /\ IntactIn(file'.blocks, hist')
                    /\ AllIn(chain', hist') /\ AllIn(queue', hist')
                    /\ AllIn(stray', hist') /\ AllIn(holding', hist')
  BY DEF Genuine, IntactIn, AllIn
<1>0. /\ IntactIn(file.blocks, hist)
      /\ AllIn(chain, hist) /\ AllIn(queue, hist)
      /\ AllIn(stray, hist) /\ AllIn(holding, hist)
  BY GenuineMeans DEF IInv
<1>t. AuditTypeOK /\ file \in File /\ file.blocks \in Seq(Block) /\ Len(file.blocks) \in Nat
  BY LenProperties DEF IInv, AuditTypeOK, File
<1>e. AllIn(<<>>, hist)
  BY EmptySeq DEF AllIn
<1>g. Genesis \in hist /\ Genesis \in Block /\ AllIn(<<Genesis>>, hist)
  BY GenesisType DEF IInv, HistoryIsTree, AllIn
<1>l. /\ Legacy \in Seq(Block)
      /\ legacy => AllIn(Legacy, hist) /\ IntactIn(Legacy, hist)
      /\ [EmptyFile EXCEPT !.blocks = Legacy] \in File
      /\ [EmptyFile EXCEPT !.blocks = Legacy].blocks = Legacy
  BY LegacyType DEF IInv, HistoryIsTree, AllIn, IntactIn, EmptyFile, File
<1>1. CASE Start
  <2>1. UNCHANGED <<queue, stray, holding, hist>>
    BY <1>1 DEF Start, StartLoad, StartRefuse, StartFresh, StartFreshFail, StartMigrate,
            StartMigrateFail, Serve, Refuse, memory
  <2>2. CASE StartLoad
    <3>1. AllIn(file.blocks, hist)
      BY <1>0, <2>2 DEF StartLoad, Verifies, AllIn, IntactIn
    <3> QED
      BY <1>0, <2>1, <2>2, <3>1 DEF StartLoad, Serve
  <2>3. CASE StartRefuse
    BY <1>0, <2>1, <2>3 DEF StartRefuse, Refuse, memory
  <2>4. CASE StartFresh
    BY <1>0, <1>g, <1>t, <2>1, <2>4, WrittenIntact DEF StartFresh, Serve
  <2>5. CASE StartFreshFail
    BY <1>0, <1>g, <1>t, <2>1, <2>5, TornIntact DEF StartFreshFail, Refuse, memory
  <2>6. CASE StartMigrate
    BY <1>0, <1>l, <2>1, <2>6 DEF StartMigrate, Serve
  <2>7. CASE StartMigrateFail
    <3>1. \E n \in 0..Len(Legacy) : file'.blocks = SubSeq(Legacy, 1, n)
      BY <1>l, <2>7, CutShortType DEF StartMigrateFail
    <3>2. IntactIn(file'.blocks, hist)
      BY <1>l, <2>7, <3>1, PrefixIntact DEF StartMigrateFail
    <3> QED
      BY <1>0, <2>1, <2>7, <3>2 DEF StartMigrateFail, Refuse, memory
  <2> QED
    BY <1>1, <2>2, <2>3, <2>4, <2>5, <2>6, <2>7 DEF Start
<1>2. CASE AppendBlock
  <2>1. /\ FreshBlock \in Block /\ chain' = Append(chain, FreshBlock)
        /\ hist' = hist \cup {FreshBlock} /\ UNCHANGED holding
        /\ Enqueue(FreshBlock) \/ WriteThrough(FreshBlock)
    BY <1>2, AppendedBlock
  <2>2. /\ IntactIn(file.blocks, hist') /\ FreshBlock \in hist'
        /\ AllIn(chain, hist') /\ AllIn(queue, hist')
        /\ AllIn(stray, hist') /\ AllIn(holding, hist')
    BY <1>0, <2>1 DEF AllIn, IntactIn
  <2>3. ASSUME NEW s \in Seq(Block), AllIn(s, hist')
        PROVE  AllIn(Append(s, FreshBlock), hist')
    BY <2>1, <2>2, <2>3, AppendFacts DEF AllIn
  <2>4. AllIn(chain', hist')
    BY <1>t, <2>1, <2>2, <2>3 DEF AuditTypeOK
  <2>5. CASE Enqueue(FreshBlock)
    <3>1. /\ queue' = Append(queue, FreshBlock) \/ queue' = queue
          /\ stray' = Append(stray, FreshBlock) \/ stray' = stray
          /\ file' = file
      BY <2>5 DEF Enqueue
    <3> QED
      BY <1>t, <2>1, <2>2, <2>3, <2>4, <3>1 DEF AuditTypeOK
  <2>6. CASE WriteThrough(FreshBlock)
    <3>1. /\ queue' = queue /\ stray' = stray
          /\ file' = Written(file, FreshBlock) \/ file' \in Torn(file, FreshBlock)
      BY <2>6 DEF WriteThrough
    <3>2. IntactIn(file'.blocks, hist')
      BY <1>t, <2>1, <2>2, <3>1, WrittenIntact, TornIntact
    <3> QED
      BY <2>1, <2>2, <2>4, <3>1, <3>2
  <2> QED
    BY <2>1, <2>5, <2>6
<1>3. CASE Shutdown
  BY <1>0, <1>3 DEF Shutdown
<1>4. CASE Writer
  <2>1. CASE WriterTake
    <3>1. queue \in Seq(Block) /\ queue # <<>>
      BY <1>t, <2>1 DEF WriterTake, AuditTypeOK
    <3>2. AllIn(Tail(queue), hist) /\ AllIn(<<Head(queue)>>, hist)
      BY <1>0, <3>1 DEF AllIn
    <3> QED
      BY <1>0, <2>1, <3>2 DEF WriterTake
  <2>2. ASSUME WriterAppend \/ WriterAppendFail
        PROVE  IntactIn(file'.blocks, hist)
    <3>1. holding # <<>>
      BY <2>2 DEF WriterAppend, WriterAppendFail
    <3>2. holding[1] \in Block /\ holding[1] \in hist
      BY <1>0, <1>t, <3>1 DEF AuditTypeOK, AllIn
    <3> QED
      BY <1>0, <1>t, <2>2, <3>2, WrittenIntact, TornIntact DEF WriterAppend, WriterAppendFail
  <2>3. CASE WriterAppend \/ WriterAppendFail
    BY <1>0, <1>e, <2>2, <2>3 DEF WriterAppend, WriterAppendFail
  <2>4. CASE WriterExit
    BY <1>0, <2>4 DEF WriterExit
  <2> QED
    BY <1>4, <2>1, <2>3, <2>4 DEF Writer
<1>5. CASE Exit
  BY <1>0, <1>e, <1>5 DEF Exit, Forget
<1>6. CASE PowerLoss
  <2>1. \E n \in 0..Len(file.blocks) : file'.blocks = SubSeq(file.blocks, 1, n)
    BY <1>t, <1>6, CutShortType DEF PowerLoss
  <2>2. IntactIn(file'.blocks, hist)
    BY <1>0, <1>t, <2>1, PrefixIntact
  <2> QED
    BY <1>e, <1>6, <2>2 DEF PowerLoss, Forget
<1>7. ASSUME NEW i \in 1..Len(file.blocks), Damage(i)
      PROVE  IntactIn(file'.blocks, hist) /\ UNCHANGED <<memory, hist>>
  <2>1. file'.blocks = SubSeq(file.blocks, 1, i - 1)
                       \o SubSeq(file.blocks, i + 1, Len(file.blocks))
    BY <1>7 DEF Damage
  <2> QED
    BY <1>0, <1>t, <1>7, <2>1, RemoveIntact DEF Damage
<1>8. ASSUME NEW i \in 1..Len(file.blocks), Tamper(i)
      PROVE  IntactIn(file'.blocks, hist) /\ UNCHANGED <<memory, hist>>
  <2>0. file.blocks[i] \in Block
    BY <1>t, ElementOfSeq
  <2>1. file.blocks[i] \in Block /\ [file.blocks[i] EXCEPT !.intact = FALSE] \in Block
    BY <2>0 DEF Block
  <2>2. file'.blocks = [file.blocks EXCEPT ![i] = [file.blocks[i] EXCEPT !.intact = FALSE]]
    BY <1>8 DEF Tamper, File, IInv, AuditTypeOK
  <2>3. /\ Len(file'.blocks) = Len(file.blocks)
        /\ \A j \in 1..Len(file.blocks) :
             file'.blocks[j] = IF j = i THEN [file.blocks[i] EXCEPT !.intact = FALSE]
                               ELSE file.blocks[j]
    BY <1>t, <2>1, <2>2, ExceptSeq
  <2>4. ~[file.blocks[i] EXCEPT !.intact = FALSE].intact
    BY <2>1 DEF Block
  <2> QED
    BY <1>0, <1>8, <2>3, <2>4 DEF Tamper, IntactIn
<1>9. CASE UNCHANGED auditVars
  BY <1>0, <1>9 DEF auditVars, memory
<1>10. CASE \E i \in 1..Len(file.blocks) : Damage(i) \/ Tamper(i)
  BY <1>0, <1>7, <1>8, <1>10 DEF memory
<1> QED
  BY <1>1, <1>2, <1>3, <1>4, <1>5, <1>6, <1>9, <1>10 DEF AuditNext
-----------------------------------------------------------------------------
(***************************************************************************)
(* The running service: links of its chain, and the file as its mirror.    *)
(***************************************************************************)
LEMMA LegacyVerifies ==
    ASSUME LegacyLength > 0
    PROVE  Verifies(Legacy) /\ \A i \in 1..Len(Legacy) : Legacy[i].index = i - 1
<1>1. LegacyLength \in Nat /\ Len(Legacy) = LegacyLength /\ Legacy # <<>>
  BY LegacyType, ChainConstants, EmptySeq
<1>2. \A i \in 1..LegacyLength : /\ Legacy[i].intact /\ Legacy[i].hash = i
                                 /\ Legacy[i].prev = i - 1 /\ Legacy[i].index = i - 1
  BY DEF Legacy, NewBlock
<1> QED
  BY <1>1, <1>2 DEF Verifies

LEMMA GenesisVerifies == Verifies(<<Genesis>>) /\ <<Genesis>>[1].index = 0
  BY DEF Verifies, Genesis, NewBlock

LEMMA NextLinked == IInv /\ [AuditNext]_auditVars => Linked'
<1> SUFFICES ASSUME IInv, [AuditNext]_auditVars, phase' = "up" PROVE Verifies(chain') \/ Linked'
  BY DEF Linked, Verifies
<1>1. CASE Start
  BY <1>1, LegacyVerifies, GenesisVerifies DEF IInv, AuditTypeOK, Start, StartLoad, StartRefuse, StartFresh,
     StartFreshFail, StartMigrate, StartMigrateFail, Serve, Refuse
<1>2. CASE AppendBlock
  <2>1. /\ chain \in Seq(Block) /\ FreshBlock \in Block /\ chain' = Append(chain, FreshBlock)
        /\ Len(chain) \in Nat \ {0} /\ FreshBlock.prev = chain[Len(chain)].hash
        /\ \A i \in 2..Len(chain) : chain[i].prev = chain[i - 1].hash
    BY <1>2, AppendedBlock DEF IInv, AuditTypeOK, Linked, FreshBlock, NewBlock
  <2>2. /\ chain' # <<>> /\ Len(chain') = Len(chain) + 1
        /\ \A i \in 1..Len(chain) : chain'[i] = chain[i]
        /\ chain'[Len(chain) + 1] = FreshBlock
    BY <2>1, AppendFacts
  <2>3. ASSUME NEW i \in 2..Len(chain') PROVE chain'[i].prev = chain'[i - 1].hash
    BY <2>1, <2>2
  <2> QED
    BY <2>2, <2>3 DEF Linked
<1>3. CASE UNCHANGED <<phase, chain>>
  BY <1>3 DEF IInv, Linked
<1> QED
  BY <1>1, <1>2, <1>3 DEF AuditNext, Shutdown, Writer, WriterTake, WriterAppend,
     WriterAppendFail, WriterExit, Exit, PowerLoss, Forget, Damage, Tamper, memory, auditVars

LEMMA ServedVerifies == IInv /\ phase = "up" => Verifies(chain)
  BY DEF IInv, Linked, Genuine, HistoryIsTree, Verifies

LEMMA PrefixVerifies ==
    ASSUME NEW s \in Seq(Block), NEW t \in Seq(Block), Verifies(t),
           s # <<>>, Len(s) <= Len(t), \A i \in 1..Len(s) : s[i] = t[i]
    PROVE  Verifies(s)
<1>1. Len(s) \in Nat /\ Len(t) \in Nat
  BY LenProperties
<1>2. \A i \in 1..Len(s) : s[i].intact
  BY <1>1 DEF Verifies
<1>3. ASSUME NEW i \in 2..Len(s) PROVE s[i].prev = s[i - 1].hash
  <2>1. i \in 1..Len(s) /\ i - 1 \in 1..Len(s) /\ i \in 2..Len(t)
    BY <1>1
  <2>2. t[i].prev = t[i - 1].hash
    BY <2>1 DEF Verifies
  <2>3. s[i] = t[i] /\ s[i - 1] = t[i - 1]
    BY <2>1
  <2> QED
    BY <2>2, <2>3
<1> QED
  BY <1>2, <1>3 DEF Verifies

LEMMA AppendConcatenates ==
    ASSUME NEW s \in Seq(Block), NEW e \in Block
    PROVE  Append(s, e) = s \o <<e>> /\ Append(s, e) \in Seq(Block) /\ Append(s, e) # <<>>
  OBVIOUS

LEMMA ConcatAppend ==
    ASSUME NEW s \in Seq(Block), NEW t \in Seq(Block), NEW e \in Block
    PROVE  s \o Append(t, e) = Append(s \o t, e)
<1>1. <<e>> \in Seq(Block) /\ s \o t \in Seq(Block)
  BY ConcatProperties
<1>2. Append(t, e) = t \o <<e>>
  OBVIOUS
<1>3. Append(s \o t, e) = (s \o t) \o <<e>>
  BY <1>1
<1> QED
  BY <1>1, <1>2, <1>3, ConcatAssociative

LEMMA HeadThenTail ==
    ASSUME NEW s \in Seq(Block), NEW t \in Seq(Block), t # <<>>
    PROVE  s \o <<Head(t)>> \o Tail(t) = s \o t
<1>1. <<Head(t)>> \in Seq(Block) /\ Tail(t) \in Seq(Block) /\ <<Head(t)>> \o Tail(t) = t
  BY HeadTailProperties
<1> QED
  BY <1>1, ConcatAssociative

LEMMA Singleton ==
    ASSUME NEW s \in Seq(Block), s # <<>>, Len(s) <= 1
    PROVE  s = <<s[1]>> /\ s[1] \in Block
<1>1. Len(s) \in Nat \ {0}
  BY EmptySeq
<1>2. Len(s) = 1
  BY <1>1
<1> QED
  BY <1>2

LaidOut(s, t, u, v) == s \o t \o u \o v
LeadsIn(s, c) == Len(s) <= Len(c) /\ \A i \in 1..Len(s) : c[i] = s[i]

LEMMA MirrorPrefix ==
    ASSUME NEW s \in Seq(Block), NEW t \in Seq(Block), NEW u \in Seq(Block),
           NEW v \in Seq(Block)
    PROVE  LeadsIn(s, LaidOut(s, t, u, v))
<1>1. /\ s \o t \in Seq(Block) /\ s \o t \o u \in Seq(Block)
      /\ s \o t \o u \o v \in Seq(Block)
  BY ConcatProperties
<1>2. /\ Len(s) \in Nat /\ Len(t) \in Nat /\ Len(u) \in Nat /\ Len(v) \in Nat
  BY LenProperties
<1>3. /\ Len(s \o t) = Len(s) + Len(t)
      /\ \A i \in 1..Len(s) : (s \o t)[i] = s[i]
  BY <1>2, ConcatProperties
<1>4. /\ Len(s \o t \o u) = Len(s \o t) + Len(u)
      /\ \A i \in 1..Len(s) : (s \o t \o u)[i] = (s \o t)[i]
  BY <1>1, <1>2, <1>3, ConcatProperties
<1>5. /\ Len(s \o t \o u \o v) = Len(s \o t \o u) + Len(v)
      /\ \A i \in 1..Len(s) : (s \o t \o u \o v)[i] = (s \o t \o u)[i]
  BY <1>1, <1>2, <1>3, <1>4, ConcatProperties
<1> QED
  BY <1>1, <1>2, <1>3, <1>4, <1>5 DEF LaidOut, LeadsIn

LEMMA WrittenClean ==
    ASSUME NEW f \in File, NEW blk, f.end = "newline", f.junk = FALSE
    PROVE  /\ Written(f, blk).blocks = Append(f.blocks, blk)
           /\ Written(f, blk).end = "newline" /\ Written(f, blk).junk = FALSE
  BY DEF Written, File

\* The mirror and the places, of a running service to which nothing happened.
FileMirrors == /\ file.end = "newline" /\ file.junk = FALSE
            /\ file.blocks # <<>>
            /\ chain = file.blocks \o holding \o queue \o stray
            /\ \A i \in 1..Len(chain) : chain[i].index = i - 1

\* A file that mirrors a chain that verifies can be started from.
InPlaces(c) == \A i \in 1..Len(c) : c[i].index = i - 1

LEMMA PrefixStarts ==
    ASSUME NEW d \in Seq(Block), NEW c \in Seq(Block), d # <<>>, Verifies(c), InPlaces(c),
           LeadsIn(d, c)
    PROVE  Verifies(d) /\ InPlaces(d)
<1>1. Len(d) <= Len(c) /\ \A i \in 1..Len(d) : d[i] = c[i]
  BY DEF LeadsIn
<1>2. Verifies(d)
  BY <1>1, PrefixVerifies
<1>3. \A i \in 1..Len(d) : i \in 1..Len(c)
  BY <1>1, LenProperties
<1> QED
  BY <1>1, <1>2, <1>3 DEF InPlaces

LEMMA NextUnspoiled == IInv /\ AuditTypeOK' /\ Linked' /\ Genuine' /\ HistoryIsTree' /\ [AuditNext]_auditVars
                       => Unspoiled'
<1> SUFFICES ASSUME IInv, AuditTypeOK', Linked', Genuine', HistoryIsTree', [AuditNext]_auditVars, ~lossy'
             PROVE  Unspoiled'
  BY DEF Unspoiled
<1>0. /\ ~lossy
      /\ phase # "refused"
      /\ file.end = "newline" /\ file.junk = FALSE
      /\ file.blocks # <<>> => Verifies(file.blocks)
      /\ \A i \in 1..Len(file.blocks) : file.blocks[i].index = i - 1
      /\ phase = "up" => FileMirrors
  <2>1. ~lossy
    BY DEF AuditNext, Start, StartLoad, StartRefuse, StartFresh, StartFreshFail, StartMigrate,
       StartMigrateFail, Serve, Refuse, AppendBlock, Enqueue, WriteThrough, Shutdown, Writer,
       WriterTake, WriterAppend, WriterAppendFail, WriterExit, Exit, PowerLoss, Damage,
       Tamper, auditVars
  <2> QED
    BY <2>1 DEF IInv, Unspoiled, FileMirrors
<1>t. /\ file \in File /\ file.blocks \in Seq(Block) /\ holding \in Seq(Block)
      /\ queue \in Seq(Block) /\ stray \in Seq(Block) /\ chain \in Seq(Block)
      /\ Len(chain) \in Nat
  BY LenProperties DEF IInv, AuditTypeOK, File
<1>v. phase' = "up" => Verifies(chain')
  BY DEF Linked, Genuine, HistoryIsTree, Verifies
<1>u. ASSUME phase' = "up", FileMirrors' PROVE Unspoiled'
  <2>1. Verifies(file'.blocks) /\ \A i \in 1..Len(file'.blocks) : file'.blocks[i].index = i - 1
    <3>1. /\ file'.blocks \in Seq(Block) /\ holding' \in Seq(Block) /\ queue' \in Seq(Block)
          /\ stray' \in Seq(Block) /\ chain' \in Seq(Block)
      BY DEF AuditTypeOK, File
    <3>2. /\ chain' = LaidOut(file'.blocks, holding', queue', stray') /\ file'.blocks # <<>>
          /\ Verifies(chain') /\ InPlaces(chain')
      BY <1>u, <1>v DEF FileMirrors, InPlaces, LaidOut
    <3>3. LeadsIn(file'.blocks, LaidOut(file'.blocks, holding', queue', stray'))
      BY <3>1, MirrorPrefix
    <3>4. LeadsIn(file'.blocks, chain')
      BY <3>2, <3>3
    <3>5. Verifies(file'.blocks) /\ InPlaces(file'.blocks)
      BY <3>1, <3>2, <3>4, PrefixStarts
    <3> QED
      BY <3>5 DEF InPlaces
  <2> QED
    BY <1>u, <2>1 DEF FileMirrors, Unspoiled
<1>1. CASE Start
  <2>i. phase # "up" => holding = <<>> /\ queue = <<>> /\ stray = <<>>
    BY DEF IInv, Idle
  <2>e. \A s \in Seq(Block) : s \o <<>> \o <<>> \o <<>> = s
    BY ConcatEmptySeq
  <2>g. <<Genesis>> \in Seq(Block) /\ <<Genesis>> # <<>> /\ Append(<<>>, Genesis) = <<Genesis>>
    BY GenesisType
  <2>1. CASE StartLoad
    <3>1. file.blocks # <<>>
      BY <2>1 DEF StartLoad, Verifies
    <3>2. phase' = "up" /\ FileMirrors'
      BY <1>0, <1>t, <2>1, <2>e, <2>i, <3>1 DEF StartLoad, Serve, FileMirrors
    <3> QED
      BY <1>u, <3>2
  <2>2. CASE StartRefuse
    <3>1. file.blocks # <<>>
      BY <1>0, <1>t, <2>2 DEF StartRefuse, FileEmpty, EmptyFile, File
    <3> QED
      BY <1>0, <2>2, <3>1 DEF StartRefuse
  <2>3. CASE StartFresh
    <3>1. file' = Written(EmptyFile, Genesis) /\ EmptyFile \in File
      BY <1>t, <2>3 DEF StartFresh, FileEmpty
    <3>2. /\ file'.blocks = <<Genesis>> /\ file'.end = "newline" /\ file'.junk = FALSE
      BY <2>g, <3>1, WrittenClean DEF EmptyFile
    <3>3. phase' = "up" /\ FileMirrors'
      BY <2>3, <2>e, <2>g, <2>i, <3>2, GenesisVerifies DEF StartFresh, Serve, FileMirrors
    <3> QED
      BY <1>u, <3>3
  <2>4. CASE StartMigrate
    <3>1. LegacyLength > 0 /\ Legacy # <<>>
      BY <2>4, LegacyVerifies DEF StartMigrate, Verifies, IInv, AuditTypeOK
    <3>2. file'.blocks = Legacy /\ file'.end = "newline" /\ file'.junk = FALSE
      BY <2>4 DEF StartMigrate, EmptyFile
    <3>3. phase' = "up" /\ FileMirrors'
      BY <2>4, <2>e, <2>i, <3>1, <3>2, LegacyVerifies, LegacyType
         DEF StartMigrate, Serve, FileMirrors
    <3> QED
      BY <1>u, <3>3
  <2>5. CASE StartFreshFail \/ StartMigrateFail
    BY <2>5 DEF StartFreshFail, StartMigrateFail
  <2> QED
    BY <1>1, <2>1, <2>2, <2>3, <2>4, <2>5 DEF Start
<1>2. CASE AppendBlock
  <2>1. /\ phase = "up" /\ phase' = "up" /\ FileMirrors
        /\ FreshBlock \in Block /\ chain' = Append(chain, FreshBlock)
        /\ holding' = holding /\ stop' = stop
        /\ Len(chain) \in Nat \ {0} /\ FreshBlock.index = chain[Len(chain)].index + 1
        /\ (Async /\ Enqueue(FreshBlock)) \/ (~Async /\ WriteThrough(FreshBlock))
    BY <1>0, <1>2, AppendedBlock DEF FreshBlock, NewBlock
  <2>2. \A i \in 1..Len(chain') : chain'[i].index = i - 1
    <3>1. /\ Len(chain') = Len(chain) + 1 /\ chain'[Len(chain) + 1] = FreshBlock
          /\ \A i \in 1..Len(chain) : chain'[i] = chain[i]
      BY <1>t, <2>1, AppendFacts
    <3>2. \A i \in 1..Len(chain) : chain[i].index = i - 1
      BY <2>1 DEF FileMirrors
    <3>3. chain[Len(chain)].index = Len(chain) - 1
      BY <2>1, <3>2
    <3>4. FreshBlock.index = Len(chain)
      BY <2>1, <3>3
    <3>5. ASSUME NEW i \in 1..Len(chain) PROVE chain'[i].index = i - 1
      BY <3>1, <3>2
    <3> QED
      BY <2>1, <3>1, <3>4, <3>5
  <2>c. /\ file.blocks \o holding \in Seq(Block)
        /\ file.blocks \o holding \o queue \in Seq(Block)
    BY <1>t, ConcatProperties
  <2>3. CASE Enqueue(FreshBlock) /\ stop = "no"
    <3>1. stray = <<>>
      BY <2>3 DEF IInv, Idle
    <3>2. file' = file /\ queue' = Append(queue, FreshBlock) /\ stray' = <<>>
      BY <2>3, <3>1 DEF Enqueue
    <3>3. chain = file.blocks \o holding \o queue
      BY <1>t, <2>1, <2>c, <3>1, ConcatEmptySeq DEF FileMirrors
    <3>4. chain' = file.blocks \o holding \o Append(queue, FreshBlock)
      <4>1. chain' = Append(file.blocks \o holding \o queue, FreshBlock)
        BY <2>1, <3>3
      <4>2. Append(file.blocks \o holding \o queue, FreshBlock)
              = file.blocks \o holding \o Append(queue, FreshBlock)
        BY <1>t, <2>1, <2>c, ConcatAppend
      <4> QED
        BY <4>1, <4>2
    <3>5. file.blocks \o holding \o Append(queue, FreshBlock) \in Seq(Block)
      BY <1>t, <2>1, <2>c, ConcatProperties, AppendFacts
    <3>6. chain' = file'.blocks \o holding' \o queue' \o stray'
      BY <2>1, <3>2, <3>4, <3>5, ConcatEmptySeq
    <3> QED
      BY <1>u, <2>1, <2>2, <3>2, <3>6 DEF FileMirrors
  <2>4. CASE Enqueue(FreshBlock) /\ stop # "no"
    <3>1. file' = file /\ queue' = queue /\ stray' = Append(stray, FreshBlock)
      BY <2>4 DEF Enqueue
    <3>2. chain' = file.blocks \o holding \o queue \o Append(stray, FreshBlock)
      <4>1. chain' = Append(file.blocks \o holding \o queue \o stray, FreshBlock)
        BY <2>1 DEF FileMirrors
      <4>2. Append(file.blocks \o holding \o queue \o stray, FreshBlock)
              = file.blocks \o holding \o queue \o Append(stray, FreshBlock)
        BY <1>t, <2>1, <2>c, ConcatAppend
      <4> QED
        BY <4>1, <4>2
    <3> QED
      BY <1>u, <2>1, <2>2, <3>1, <3>2 DEF FileMirrors
  <2>5. CASE ~Async /\ WriteThrough(FreshBlock)
    <3>1. holding = <<>> /\ queue = <<>> /\ stray = <<>>
      BY <2>5 DEF IInv, Idle
    <3>2. file' = Written(file, FreshBlock) /\ queue' = queue /\ stray' = stray
      BY <2>5 DEF WriteThrough
    <3>3. /\ file'.blocks = Append(file.blocks, FreshBlock)
          /\ file'.end = "newline" /\ file'.junk = FALSE
      BY <1>0, <1>t, <3>2, WrittenClean
    <3>4. chain = file.blocks
      BY <1>t, <2>1, <3>1, ConcatEmptySeq DEF FileMirrors
    <3>5. file'.blocks \in Seq(Block) /\ file'.blocks # <<>> /\ chain' = file'.blocks
      <4>1. Append(file.blocks, FreshBlock) \in Seq(Block) /\ Append(file.blocks, FreshBlock) # <<>>
        <5>1. file.blocks \in Seq(Block) /\ FreshBlock \in Block
          BY <1>t, <2>1
        <5> QED
          BY <5>1, AppendConcatenates
      <4> QED
        BY <2>1, <3>3, <3>4, <4>1
    <3>6. chain' = file'.blocks \o holding' \o queue' \o stray'
      BY <2>1, <3>1, <3>2, <3>5, ConcatEmptySeq
    <3> QED
      BY <1>u, <2>1, <2>2, <3>3, <3>5, <3>6 DEF FileMirrors
  <2> QED
    BY <2>1, <2>3, <2>4, <2>5
<1>3. CASE Shutdown
  BY <1>0, <1>3, <1>u DEF Shutdown, FileMirrors
<1>4. CASE Writer
  <2>1. CASE WriterTake
    <3>1. /\ queue # <<>> /\ holding = <<>> /\ FileMirrors /\ phase' = "up"
          /\ holding' = <<Head(queue)>> /\ queue' = Tail(queue)
          /\ UNCHANGED <<chain, stray, file>>
      BY <1>0, <2>1 DEF WriterTake
    <3>2. file.blocks \o <<Head(queue)>> \o Tail(queue) = file.blocks \o queue
      BY <1>t, <3>1, HeadThenTail
    <3>3. file.blocks \o holding = file.blocks
      BY <1>t, <3>1, ConcatEmptySeq
    <3>4. file.blocks \o <<Head(queue)>> \o Tail(queue) = file.blocks \o holding \o queue
      BY <3>2, <3>3
    <3> QED
      BY <1>u, <3>1, <3>4 DEF FileMirrors
  <2>2. CASE WriterAppend
    <3>1. /\ holding # <<>> /\ FileMirrors /\ phase' = "up"
          /\ file' = Written(file, holding[1]) /\ holding' = <<>>
          /\ UNCHANGED <<chain, queue, stray>>
      BY <1>0, <2>2 DEF WriterAppend
    <3>2. /\ holding = <<holding[1]>> /\ holding[1] \in Block
      <4>1. holding \in Seq(Block) /\ holding # <<>> /\ Len(holding) <= 1
        BY <3>1 DEF IInv, AuditTypeOK
      <4> QED
        BY <4>1, Singleton
    <3>3. /\ file'.blocks = Append(file.blocks, holding[1])
          /\ file'.end = "newline" /\ file'.junk = FALSE
      BY <1>0, <1>t, <3>1, WrittenClean
    <3>4. /\ file'.blocks = file.blocks \o holding /\ file'.blocks \in Seq(Block)
          /\ file'.blocks # <<>>
      <4>1. file.blocks \in Seq(Block) /\ holding[1] \in Block
        BY <1>t, <3>2
      <4>2. /\ Append(file.blocks, holding[1]) \in Seq(Block)
            /\ Append(file.blocks, holding[1]) # <<>>
            /\ Append(file.blocks, holding[1]) = file.blocks \o <<holding[1]>>
        BY <4>1, AppendConcatenates
      <4> QED
        BY <3>2, <3>3, <4>2
    <3>5. file'.blocks \o holding' = file.blocks \o holding
      BY <3>1, <3>4, ConcatEmptySeq
    <3> QED
      BY <1>u, <3>1, <3>3, <3>4, <3>5 DEF FileMirrors
  <2>3. CASE WriterAppendFail
    BY <2>3 DEF WriterAppendFail
  <2>4. CASE WriterExit
    BY <1>0, <1>u, <2>4 DEF WriterExit, FileMirrors
  <2> QED
    BY <1>4, <2>1, <2>2, <2>3, <2>4 DEF Writer
<1>5. CASE Exit
  BY <1>0, <1>5 DEF Exit, Forget, Unspoiled
<1>6. CASE PowerLoss \/ \E i \in 1..Len(file.blocks) : Damage(i) \/ Tamper(i)
  BY <1>6 DEF PowerLoss, Damage, Tamper
<1>7. CASE UNCHANGED auditVars
  BY <1>7 DEF auditVars, memory, Unspoiled, IInv
<1> QED
  BY <1>1, <1>2, <1>3, <1>4, <1>5, <1>6, <1>7 DEF AuditNext
-----------------------------------------------------------------------------
(***************************************************************************)
(* The theorems.                                                           *)
(***************************************************************************)
LEMMA InitIInv == AuditInit => IInv
<1> SUFFICES ASSUME AuditInit PROVE IInv
  OBVIOUS
<1>1. AuditTypeOK
  BY InitType
<1>2. /\ phase = "down" /\ stop = "no"
      /\ chain = <<>> /\ queue = <<>> /\ stray = <<>> /\ holding = <<>>
      /\ file = EmptyFile
  BY DEF AuditInit
<1>3. Idle /\ Linked
  BY <1>2 DEF Idle, Linked
<1>4. Unspoiled
  BY <1>2, EmptySeq DEF Unspoiled, EmptyFile
<1>5. LegacyLength \in Nat
  BY ChainConstants
<1>6. \A i \in 1..LegacyLength : /\ Legacy[i].intact /\ Legacy[i].hash = i
                                 /\ Legacy[i].prev = i - 1 /\ Legacy[i].index = i - 1
  BY DEF Legacy, NewBlock
<1>7. Genesis.intact /\ Genesis.hash = 1 /\ Genesis.prev = 0 /\ Genesis.index = 0
  BY DEF Genesis, NewBlock
<1>8. /\ hist = {Genesis} \cup IF legacy THEN {Legacy[i] : i \in 1..LegacyLength} ELSE {}
      /\ minted = (IF legacy THEN LegacyLength ELSE 1) /\ (legacy => LegacyLength > 0)
  BY DEF AuditInit
<1>9. \A i \in 1..LegacyLength : Legacy[i] = NewBlock(i - 1, i - 1, i)
  BY DEF Legacy
<1>10. HistoryIsTree
  <2>1. \A b \in hist : /\ b.intact /\ b.prev < b.hash /\ b.hash <= minted
                        /\ b = NewBlock(b.hash - 1, b.hash - 1, b.hash)
                        /\ b.index = b.hash - 1 /\ b.prev = b.hash - 1 /\ b.hash \in Nat
    BY <1>5, <1>6, <1>7, <1>8, <1>9 DEF Genesis
  <2>2. minted > 0 /\ Genesis \in hist /\ (legacy => \A i \in 1..LegacyLength : Legacy[i] \in hist)
    BY <1>5, <1>8
  <2>3. \A b, c \in hist : b.hash = c.hash => b = c
    BY <2>1
  <2>4. \A b, c \in hist : c.prev = b.hash => c.index = b.index + 1
    BY <2>1
  <2> QED
    BY <2>1, <2>2, <2>3, <2>4 DEF HistoryIsTree
<1>11. Genuine
  BY <1>2, EmptySeq DEF Genuine, EmptyFile
<1> QED
  BY <1>1, <1>3, <1>4, <1>10, <1>11 DEF IInv

LEMMA NextIInv == IInv /\ [AuditNext]_auditVars => IInv'
  BY NextType, NextIdle, NextHistory, NextGenuine, NextLinked, NextUnspoiled DEF IInv

THEOREM AuditChainInvariant == AuditSpec => []IInv
  BY InitIInv, NextIInv, PTL DEF AuditSpec

\* Every variable keeps its type.
THEOREM AuditTypeCorrect == AuditSpec => []AuditTypeOK
<1>1. IInv => AuditTypeOK
  BY DEF IInv
<1> QED
  BY <1>1, AuditChainInvariant, PTL

\* Whatever the disk did, a running service serves an unbroken run of blocks
\* that append created, with consecutive indices.
THEOREM GenuineRunServed == AuditSpec => []ServesGenuineRun
<1>1. IInv => ServesGenuineRun
  <2> SUFFICES ASSUME IInv, phase = "up", NEW i \in 2..Len(chain)
               PROVE  chain[i].index = chain[i - 1].index + 1
    BY DEF IInv, Linked, Genuine, ServesGenuineRun
  <2>1. i \in 1..Len(chain) /\ i - 1 \in 1..Len(chain)
    BY LenProperties DEF IInv, AuditTypeOK
  <2>2. chain[i] \in hist /\ chain[i - 1] \in hist
    BY <2>1 DEF IInv, Genuine
  <2>3. chain[i].prev = chain[i - 1].hash
    BY DEF IInv, Linked
  <2> QED
    BY <2>2, <2>3 DEF IInv, HistoryIsTree
<1> QED
  BY <1>1, AuditChainInvariant, PTL

\* The file and the writer's backlog make up the chain, in order.
THEOREM DiskMirrored == AuditSpec => []DiskMirrorsChain
<1>1. IInv => DiskMirrorsChain
  BY DEF IInv, Unspoiled, DiskMirrorsChain
<1> QED
  BY <1>1, AuditChainInvariant, PTL

\* A block's place in the list is its index.
THEOREM PlacesAreIndices == AuditSpec => []PlaceIsIndex
<1>1. IInv => PlaceIsIndex
  BY DEF IInv, Unspoiled, PlaceIsIndex
<1> QED
  BY <1>1, AuditChainInvariant, PTL

\* Stopping the process at any moment never makes a later start refuse.
THEOREM StopsAreHarmless == AuditSpec => []RefusesOnlyAfterLoss
<1>1. IInv => RefusesOnlyAfterLoss
  BY DEF IInv, Unspoiled, RefusesOnlyAfterLoss
<1> QED
  BY <1>1, AuditChainInvariant, PTL
-----------------------------------------------------------------------------
(***************************************************************************)
(* The chain implements the log of module AuditLog.                        *)
(***************************************************************************)
Log     == IF phase = "up" THEN chain ELSE file.blocks
Durable == Len(file.blocks)

LEMMA SomethingSpoiled == [AuditNext]_auditVars /\ ~lossy' => ~lossy
  BY DEF AuditNext, Start, StartLoad, StartRefuse, StartFresh, StartFreshFail, StartMigrate,
     StartMigrateFail, Serve, Refuse, AppendBlock, Enqueue, WriteThrough, Shutdown, Writer,
     WriterTake, WriterAppend, WriterAppendFail, WriterExit, Exit, PowerLoss, Damage,
     Tamper, auditVars

\* A leading part of a sequence is what is left of it at that length.
LEMMA LeadsInPrefix ==
    ASSUME NEW s \in Seq(Block), NEW c \in Seq(Block), LeadsIn(s, c)
    PROVE  s = SubSeq(c, 1, Len(s))
<1>1. Len(s) \in 0..Len(c)
  BY LenProperties DEF LeadsIn
<1>2. /\ SubSeq(c, 1, Len(s)) \in Seq(Block) /\ Len(SubSeq(c, 1, Len(s))) = Len(s)
      /\ \A i \in 1..Len(s) : SubSeq(c, 1, Len(s))[i] = c[i]
  BY <1>1, PrefixType
<1> QED
  BY <1>2, SeqEqual DEF LeadsIn

LEMMA StepRefines ==
    ASSUME IInv, IInv', [AuditNext]_auditVars, ~lossy'
    PROVE  Abstract!LogNext \/ UNCHANGED <<Log, Durable>>
<1>f. ASSUME Log = <<>>, Log' \in Seq(Block), Log' # <<>>, Durable' = Len(Log')
      PROVE  Abstract!LogNext
  BY <1>f DEF Abstract!LogNext, Abstract!Found, Log, Durable
<1>r. ASSUME Log # <<>>, Log' \in Seq(Block), Len(Log') = Len(Log) + 1,
             SubSeq(Log', 1, Len(Log)) = Log,
             Durable' = Durable \/ (Durable = Len(Log) /\ Durable' = Durable + 1)
      PROVE  Abstract!LogNext
  BY <1>r DEF Abstract!LogNext, Abstract!Record, Log, Durable
<1>u. ASSUME Durable < Len(Log), Durable' = Durable + 1, Log' = Log PROVE Abstract!LogNext
  BY <1>u DEF Abstract!LogNext, Abstract!Flush, Log, Durable
<1>s. ASSUME Log' = SubSeq(Log, 1, Durable), Durable' = Durable PROVE Abstract!LogNext
  BY <1>s DEF Abstract!LogNext, Abstract!Stop, Log, Durable
<1>0. ~lossy
  BY SomethingSpoiled
<1>t. /\ file \in File /\ file.blocks \in Seq(Block) /\ chain \in Seq(Block)
      /\ holding \in Seq(Block) /\ queue \in Seq(Block) /\ stray \in Seq(Block)
      /\ Len(file.blocks) \in Nat /\ Len(chain) \in Nat
  BY LenProperties DEF IInv, AuditTypeOK, File
<1>p. /\ file'.blocks \in Seq(Block) /\ chain' \in Seq(Block) /\ holding' \in Seq(Block)
      /\ queue' \in Seq(Block) /\ stray' \in Seq(Block)
  BY DEF IInv, AuditTypeOK, File
<1>c. file.end = "newline" /\ file.junk = FALSE /\ phase' # "refused"
  BY <1>0 DEF IInv, Unspoiled
<1>m. phase = "up" => LeadsIn(file.blocks, chain)
  BY <1>0, <1>t, MirrorPrefix DEF IInv, Unspoiled, LaidOut
<1>n. phase' = "up" => LeadsIn(file'.blocks, chain')
  <2>1. LeadsIn(file'.blocks, LaidOut(file'.blocks, holding', queue', stray'))
    BY <1>p, MirrorPrefix
  <2> QED
    BY <2>1 DEF IInv, Unspoiled, LaidOut
<1>1. CASE Start
  <2>1. CASE StartLoad
    BY <2>1 DEF StartLoad, Serve, Log, Durable
  <2>2. CASE StartRefuse \/ StartFreshFail \/ StartMigrateFail
    BY <1>c, <2>2 DEF StartRefuse, StartFreshFail, StartMigrateFail, Refuse
  <2>3. CASE StartFresh
    <3>1. /\ phase # "up" /\ file = EmptyFile /\ phase' = "up" /\ chain' = <<Genesis>>
          /\ file' = Written(file, Genesis)
      BY <2>3 DEF StartFresh, FileEmpty, Serve
    <3>2. file'.blocks = <<Genesis>>
      <4>1. file'.blocks = Append(file.blocks, Genesis)
        BY <1>c, <1>t, <3>1, WrittenClean
      <4> QED
        BY <3>1, <4>1 DEF EmptyFile
    <3>3. <<Genesis>> \in Seq(Block) /\ <<Genesis>> # <<>>
      BY GenesisType
    <3> QED
      BY <1>f, <3>1, <3>2, <3>3 DEF Log, Durable, EmptyFile
  <2>4. CASE StartMigrate
    <3>1. /\ phase # "up" /\ file = EmptyFile /\ phase' = "up" /\ chain' = Legacy
          /\ file'.blocks = Legacy
      BY <2>4 DEF StartMigrate, FileEmpty, Serve, EmptyFile
    <3>2. Legacy # <<>>
      BY <2>4, LegacyVerifies DEF StartMigrate, Verifies, IInv, AuditTypeOK
    <3> QED
      BY <1>f, <3>1, <3>2, LegacyType DEF Log, Durable, EmptyFile
  <2> QED
    BY <1>1, <2>1, <2>2, <2>3, <2>4 DEF Start
<1>2. CASE AppendBlock
  <2>1. /\ phase = "up" /\ phase' = "up" /\ chain # <<>>
        /\ FreshBlock \in Block /\ chain' = Append(chain, FreshBlock)
        /\ (Async /\ Enqueue(FreshBlock)) \/ (~Async /\ WriteThrough(FreshBlock))
    BY <1>2, AppendedBlock
  <2>2. /\ Len(chain') = Len(chain) + 1
        /\ \A i \in 1..Len(chain) : chain'[i] = chain[i]
    BY <1>t, <2>1, AppendFacts
  <2>3. SubSeq(chain', 1, Len(chain)) = chain
    <3>1. LeadsIn(chain, chain')
      BY <1>t, <2>2 DEF LeadsIn
    <3> QED
      BY <1>p, <1>t, <3>1, LeadsInPrefix
  <2>4. CASE Enqueue(FreshBlock)
    <3>1. file' = file
      BY <2>4 DEF Enqueue
    <3> QED
      BY <1>p, <1>r, <2>1, <2>2, <2>3, <3>1 DEF Log, Durable
  <2>5. CASE ~Async /\ WriteThrough(FreshBlock)
    <3>1. chain = file.blocks
      <4>1. holding = <<>> /\ queue = <<>> /\ stray = <<>>
        BY <2>5 DEF IInv, Idle
      <4> QED
        BY <1>0, <1>t, <2>1, <4>1, ConcatEmptySeq DEF IInv, Unspoiled
    <3>2. file' = Written(file, FreshBlock)
      BY <2>5 DEF WriteThrough
    <3>3. Len(file'.blocks) = Len(file.blocks) + 1
      <4>1. file'.blocks = Append(file.blocks, FreshBlock)
        BY <1>c, <1>t, <2>1, <3>2, WrittenClean
      <4> QED
        BY <1>t, <2>1, <4>1, AppendFacts
    <3> QED
      BY <1>p, <1>r, <2>1, <2>2, <2>3, <3>1, <3>3 DEF Log, Durable
  <2> QED
    BY <2>1, <2>4, <2>5
<1>3. CASE Shutdown \/ WriterTake \/ WriterExit
  BY <1>3 DEF Shutdown, WriterTake, WriterExit, Log, Durable
<1>4. CASE WriterAppend
  <2>1. /\ phase = "up" /\ phase' = "up" /\ chain' = chain
        /\ file' = Written(file, holding[1]) /\ holding # <<>>
    BY <1>4 DEF WriterAppend
  <2>2. holding[1] \in Block
    BY <1>t, <2>1, ElementOfSeq, EmptySeq, LenProperties
  <2>3. Len(file'.blocks) = Len(file.blocks) + 1
    <3>1. file'.blocks = Append(file.blocks, holding[1])
      BY <1>c, <1>t, <2>1, <2>2, WrittenClean
    <3> QED
      BY <1>t, <2>2, <3>1, AppendFacts
  <2>4. Len(file'.blocks) <= Len(chain)
    BY <1>n, <2>1 DEF LeadsIn
  <2> QED
    BY <1>t, <1>u, <2>1, <2>3, <2>4 DEF Log, Durable
<1>5. CASE WriterAppendFail
  BY <1>5 DEF WriterAppendFail
<1>6. CASE Exit
  <2>1. phase = "up" /\ phase' # "up" /\ file' = file
    BY <1>6 DEF Exit, Forget
  <2>2. file.blocks = SubSeq(chain, 1, Len(file.blocks))
    BY <1>m, <1>t, <2>1, LeadsInPrefix
  <2> QED
    BY <1>s, <2>1, <2>2 DEF Log, Durable
<1>7. CASE PowerLoss \/ \E i \in 1..Len(file.blocks) : Damage(i) \/ Tamper(i)
  BY <1>7 DEF PowerLoss, Damage, Tamper
<1>8. CASE UNCHANGED auditVars
  BY <1>8 DEF auditVars, memory, Log, Durable
<1> QED
  BY <1>1, <1>2, <1>3, <1>4, <1>5, <1>6, <1>7, <1>8 DEF AuditNext, Writer

\* Until the environment spoils something, threads, stops and restarts are those
\* of a log that grows and forgets only what was not durable, for every bound
\* and mode of persistence.
THEOREM ChainIsLog == AuditSpec => RefinesAuditLog
<1>1. AuditInit => Abstract!LogInit
  BY EmptySeq DEF AuditInit, EmptyFile, Abstract!LogInit
<1>2. ASSUME IInv, IInv', [AuditNext]_auditVars
      PROVE  [~lossy' => Abstract!LogNext]_(Abstract!logVars)
  BY <1>2, StepRefines DEF Log, Durable, Abstract!logVars
<1> QED
  BY <1>1, <1>2, AuditChainInvariant, PTL DEF AuditSpec, RefinesAuditLog

-----------------------------------------------------------------------------
(***************************************************************************)
(* The lines of the audit log, for any backups and rollovers               *)
(***************************************************************************)

-----------------------------------------------------------------------------
\* e[i] is the number of the last line in the i-th file, or of the one before
\* it: the files meet, and each is filled up to what faults have left out.
Meet(e) ==
    /\ e \in [0..Backups + 1 -> Nat] /\ e[0] = lines
    /\ \A i \in 0..Backups : e[i] = e[i + 1] + Len(logs[i])
    /\ \A i \in 0..Backups : \A k \in 1..Len(logs[i]) : logs[i][k] = e[i + 1] + k
    /\ \A i \in 0..Backups : \/ e[i + 1] = 0
                             \/ e[1] - e[i + 1] >= LinesPerFile * (i - rollFaults)

LinesTypes ==
    /\ logs \in [0..Backups -> Seq(Nat)] /\ opened \in BOOLEAN
    /\ lines \in 0..MaxLines /\ raised \in 0..MaxLines /\ rollFaults \in Nat

LinesInv == LinesTypes /\ \E e : Meet(e)

LEMMA LinesInitially == LinesInit => LinesInv
<1> SUFFICES ASSUME LinesInit PROVE LinesInv
  OBVIOUS
<1> USE LinesConstants
<1>1. LinesTypes
  BY DEF LinesInit, LinesTypes
<1> DEFINE e == [i \in 0..Backups + 1 |-> 0]
<1>2. Meet(e)
  <2>1. e \in [0..Backups + 1 -> Nat] /\ e[0] = lines
    BY DEF LinesInit
  <2>2. ASSUME NEW i \in 0..Backups PROVE e[i] = 0 /\ e[i + 1] = 0 /\ logs[i] = <<>>
    BY DEF LinesInit
  <2> HIDE DEF e
  <2> QED BY <2>1, <2>2 DEF Meet
<1> QED BY <1>1, <1>2 DEF LinesInv


LEMMA LinesKept == LinesInv /\ [LinesNext]_linesVars => LinesInv'
<1> SUFFICES ASSUME LinesInv, [LinesNext]_linesVars PROVE LinesInv'
  OBVIOUS
<1> USE LinesConstants
<1>1. PICK e : Meet(e)
  BY DEF LinesInv
<1>2. CASE UNCHANGED linesVars
  BY <1>2 DEF linesVars, LinesInv, LinesTypes, Meet
<1>0. LinesTypes
  BY DEF LinesInv
<1>6. ASSUME UNCHANGED <<logs, lines, rollFaults>>, opened' \in BOOLEAN, raised' \in 0..MaxLines
      PROVE  LinesInv'
  <2>1. LinesTypes'
    BY <1>0, <1>6 DEF LinesTypes
  <2>2. Meet(e)'
    BY <1>1, <1>6 DEF Meet
  <2> QED BY <2>1, <2>2 DEF LinesInv
<1>3. CASE WriteRaises
  <2>1. raised \in 0..MaxLines /\ opened \in BOOLEAN
    BY <1>0 DEF LinesTypes
  <2>2. raised' \in 0..MaxLines /\ opened' \in BOOLEAN /\ UNCHANGED <<logs, lines, rollFaults>>
    BY <1>3, <2>1 DEF WriteRaises
  <2> QED BY <1>6, <2>2
<1>4. CASE Reopen
  BY <1>0, <1>4, <1>6 DEF Reopen, LinesTypes
<1>5. CASE WriteLine
  <2> DEFINE files == [logs EXCEPT ![0] = Append(@, lines + 1)]
  <2>1. files \in [0..Backups -> Seq(Nat)] /\ files[0] = Append(logs[0], lines + 1)
           /\ \A i \in 1..Backups : files[i] = logs[i]
    BY DEF LinesInv, LinesTypes
  <2>2. lines' = lines + 1 /\ lines' \in 0..MaxLines /\ raised' \in 0..MaxLines
    BY <1>5 DEF WriteLine, LinesInv, LinesTypes
  <2>3. PICK f : /\ f \in [0..Backups + 1 -> Nat] /\ f[0] = lines + 1
                 /\ \A i \in 1..Backups + 1 : f[i] = e[i]
    <3> DEFINE f == [e EXCEPT ![0] = lines + 1]
    <3>1. e \in [0..Backups + 1 -> Nat] /\ lines + 1 \in Nat /\ 0 \in 0..Backups + 1
      BY <1>0, <1>1 DEF Meet, LinesTypes
    <3>2. /\ f \in [0..Backups + 1 -> Nat] /\ f[0] = lines + 1
          /\ \A i \in 1..Backups + 1 : f[i] = e[i]
      BY <3>1
    <3> HIDE DEF f
    <3> QED BY <3>2
  <2>4. \A i \in 0..Backups : f[i] = f[i + 1] + Len(files[i])
    <3>1. ASSUME NEW i \in 1..Backups PROVE f[i] = f[i + 1] + Len(files[i])
      BY <1>1, <2>1, <2>3 DEF Meet
    <3>2. f[0] = f[1] + Len(files[0])
      <4>1. 0 \in 0..Backups /\ Len(files[0]) = Len(logs[0]) + 1 /\ Len(logs[0]) \in Nat
        BY <2>1 DEF LinesInv, LinesTypes
      <4>2. e[0] = e[1] + Len(logs[0]) /\ e[0] = lines /\ e[1] \in Nat
        BY <1>1, <4>1 DEF Meet
      <4>3. f[1] = e[1] /\ f[0] = lines + 1
        BY <2>3
      <4> HIDE DEF files
      <4> QED BY <4>1, <4>2, <4>3
    <3> QED BY <3>1, <3>2
  <2>5. \A i \in 0..Backups : \A k \in 1..Len(files[i]) : files[i][k] = f[i + 1] + k
    <3>1. ASSUME NEW i \in 1..Backups PROVE \A k \in 1..Len(files[i]) : files[i][k] = f[i + 1] + k
      BY <1>1, <2>1, <2>3 DEF Meet
    <3>2. ASSUME NEW k \in 1..Len(files[0]) PROVE files[0][k] = f[1] + k
      <4>1. 0 \in 0..Backups /\ logs[0] \in Seq(Nat) /\ Len(logs[0]) \in Nat
        BY DEF LinesInv, LinesTypes
      <4>2. e[0] = e[1] + Len(logs[0]) /\ e[0] = lines /\ e[1] \in Nat /\ f[1] = e[1]
        BY <1>1, <2>3, <4>1 DEF Meet
      <4>3. CASE k \in 1..Len(logs[0])
        <5>1. files[0][k] = logs[0][k]
          BY <2>1, <4>1, <4>3
        <5>2. logs[0][k] = e[1] + k
          BY <1>1, <4>1, <4>3 DEF Meet
        <5> QED BY <4>2, <5>1, <5>2
      <4>4. CASE k = Len(logs[0]) + 1
        <5>1. files[0][k] = lines + 1
          BY <2>1, <4>1, <4>4
        <5>2. f[1] + k = lines + 1
          <6> DEFINE n == Len(logs[0])
          <6>1. n \in Nat /\ lines = e[1] + n /\ e[1] \in Nat /\ f[1] = e[1] /\ k = n + 1
            BY <4>1, <4>2, <4>4
          <6> HIDE DEF n
          <6> QED BY <6>1
        <5> QED BY <5>1, <5>2
      <4>5. Len(files[0]) = Len(logs[0]) + 1
        BY <2>1, <4>1
      <4> QED BY <4>1, <4>3, <4>4, <4>5
    <3> QED BY <3>1, <3>2
  <2>6. ASSUME Len(files[0]) < LinesPerFile, logs' = files, UNCHANGED <<opened, rollFaults>>
        PROVE  LinesInv'
    <3>1. LinesTypes'
      BY <2>1, <2>2, <2>6 DEF LinesInv, LinesTypes
    <3>2. ASSUME NEW i \in 0..Backups
          PROVE  f[i + 1] = 0 \/ f[1] - f[i + 1] >= LinesPerFile * (i - rollFaults)
      <4>1. f[i + 1] = e[i + 1] /\ f[1] = e[1]
        BY <2>3
      <4> QED BY <1>1, <4>1 DEF Meet
    <3>3. Meet(f)'
      <4> HIDE DEF files
      <4>1. f[0] = lines' /\ logs' = files /\ rollFaults' = rollFaults
        BY <2>2, <2>3, <2>6
      <4>2. \A i \in 0..Backups : f[i] = f[i + 1] + Len(logs'[i])
        BY <2>4, <4>1
      <4>3. \A i \in 0..Backups : \A k \in 1..Len(logs'[i]) : logs'[i][k] = f[i + 1] + k
        BY <2>5, <4>1
      <4>4. \A i \in 0..Backups : f[i + 1] = 0 \/ f[1] - f[i + 1] >= LinesPerFile * (i - rollFaults')
        BY <3>2, <4>1
      <4> QED BY <2>3, <4>1, <4>2, <4>3, <4>4 DEF Meet
    <3> QED BY <3>1, <3>3 DEF LinesInv
  <2>7. ASSUME Len(files[0]) >= LinesPerFile, NEW downto \in 0..Backups, logs' = Renamed(files, downto),
               rollFaults' = IF downto = 0 THEN rollFaults ELSE rollFaults + 1, opened' \in BOOLEAN
        PROVE  LinesInv'
    <3>0. PICK g : g = [i \in 0..Backups + 1 |-> IF i > downto THEN f[i - 1] ELSE f[i]]
      OBVIOUS
    <3>1. logs' \in [0..Backups -> Seq(Nat)]
      <4>1. ASSUME NEW i \in 0..Backups, i > downto PROVE files[i - 1] \in Seq(Nat)
        BY <2>1, <4>1
      <4>2. ASSUME NEW i \in 0..Backups
            PROVE (IF i > downto THEN files[i - 1] ELSE IF i = downto THEN <<>> ELSE files[i]) \in Seq(Nat)
        BY <2>1, <4>1
      <4> HIDE DEF files
      <4> QED BY <2>7, <4>2 DEF Renamed
    <3>2. LinesTypes'
      <4>1. rollFaults \in Nat
        BY <1>0 DEF LinesTypes
      <4>2. rollFaults' \in Nat
        BY <2>7, <4>1
      <4> QED BY <2>2, <2>7, <3>1, <4>2 DEF LinesTypes
    <3>3. g \in [0..Backups + 1 -> Nat] /\ g[0] = lines'
      <4>1. ASSUME NEW i \in 0..Backups + 1 PROVE g[i] \in Nat
        <5>1. CASE i > downto
          <6>1. i - 1 \in 0..Backups + 1 /\ g[i] = f[i - 1]
            BY <3>0, <5>1
          <6> QED BY <2>3, <6>1
        <5>2. CASE ~(i > downto)
          BY <2>3, <3>0, <5>2
        <5> QED BY <5>1, <5>2
      <4>2. g[0] = f[0]
        BY <3>0
      <4> QED BY <2>2, <2>3, <3>0, <4>1, <4>2
    <3>4. ASSUME NEW i \in 0..Backups
          PROVE  /\ g[i] = g[i + 1] + Len(logs'[i])
                 /\ \A k \in 1..Len(logs'[i]) : logs'[i][k] = g[i + 1] + k
      <4>1. CASE i > downto
        <5>1. logs'[i] = files[i - 1] /\ g[i] = f[i - 1] /\ g[i + 1] = f[i - 1 + 1] /\ i - 1 \in 0..Backups
          <6> HIDE DEF files
          <6> QED BY <2>7, <3>0, <4>1 DEF Renamed
        <5> HIDE DEF files
        <5> QED BY <2>4, <2>5, <5>1
      <4>2. CASE i = downto
        <5>1. logs'[i] = <<>> /\ g[i] = f[i] /\ g[i + 1] = f[i] /\ f[i] \in Nat
          <6> HIDE DEF files
          <6> QED BY <2>3, <2>7, <3>0, <4>2 DEF Renamed
        <5> HIDE DEF files
        <5> QED BY <5>1
      <4>3. CASE i < downto
        <5>1. logs'[i] = files[i] /\ g[i] = f[i] /\ g[i + 1] = f[i + 1]
          <6> HIDE DEF files
          <6> QED BY <2>7, <3>0, <4>3 DEF Renamed
        <5> HIDE DEF files
        <5> QED BY <2>4, <2>5, <5>1
      <4>4. i > downto \/ i = downto \/ i < downto
        OBVIOUS
      <4> QED BY <4>1, <4>2, <4>3, <4>4
    <3>5. ASSUME NEW i \in 0..Backups
          PROVE  g[i + 1] = 0 \/ g[1] - g[i + 1] >= LinesPerFile * (i - rollFaults')
      <4>1. rollFaults \in Nat /\ LinesPerFile \in Nat /\ \A j \in 0..Backups + 1 : f[j] \in Nat
        BY <2>3 DEF LinesInv, LinesTypes
      <4>2. \A j \in 0..Backups : f[j + 1] = 0 \/ f[1] - f[j + 1] >= LinesPerFile * (j - rollFaults)
        <5>1. ASSUME NEW j \in 0..Backups PROVE f[j + 1] = e[j + 1] /\ f[1] = e[1]
          BY <2>3
        <5> QED BY <1>1, <5>1 DEF Meet
      <4>3. f[0] - f[1] >= LinesPerFile
        <5>1. f[0] = f[0 + 1] + Len(files[0]) /\ f[1] \in Nat /\ Len(files[0]) \in Nat
          BY <2>1, <2>4, <4>1
        <5> HIDE DEF files
        <5> QED BY <2>7, <4>1, <5>1
      <4>4. CASE i < downto
        <5>1. g[i + 1] = f[i + 1] /\ g[1] = f[1] /\ rollFaults' = rollFaults + 1
          <6> QED BY <2>7, <3>0, <4>4
        <5>2. LinesPerFile * (i - (rollFaults + 1)) <= LinesPerFile * (i - rollFaults)
          BY <4>1
        <5>3. f[i + 1] \in Nat /\ f[1] \in Nat
          BY <4>1
        <5> DEFINE x == LinesPerFile * (i - (rollFaults + 1))
                   y == LinesPerFile * (i - rollFaults)
        <5>4. x \in Int /\ y \in Int
          BY <4>1
        <5>5. f[i + 1] = 0 \/ f[1] - f[i + 1] >= y
          BY <4>2
        <5> HIDE DEF x, y
        <5>6. g[i + 1] = 0 \/ g[1] - g[i + 1] >= x
          BY <5>1, <5>2, <5>3, <5>4, <5>5 DEF x, y
        <5> QED BY <5>1, <5>6 DEF x
      <4>5. CASE i >= downto /\ i > 0
        <5>1. g[i + 1] = f[i - 1 + 1] /\ i - 1 \in 0..Backups
          <6> QED BY <3>0, <4>5
        <5> DEFINE y == LinesPerFile * (i - 1 - rollFaults)
        <5>2. y \in Int /\ LinesPerFile * (i - (rollFaults + 1)) = y /\ LinesPerFile * (i - rollFaults) = y + LinesPerFile
          BY <4>1
        <5>3. f[i - 1 + 1] = 0 \/ f[1] - f[i - 1 + 1] >= y
          BY <4>2, <5>1
        <5>4. f[i - 1 + 1] \in Nat /\ f[1] \in Nat /\ f[0] \in Nat
          BY <4>1, <5>1
        <5>5. CASE downto = 0
          <6>1. g[1] = f[0] /\ rollFaults' = rollFaults
            <7> QED BY <2>7, <3>0, <5>5
          <6> HIDE DEF y
          <6> QED BY <4>1, <4>3, <5>1, <5>2, <5>3, <5>4, <6>1
        <5>6. CASE downto # 0
          <6>1. g[1] = f[1] /\ rollFaults' = rollFaults + 1
            <7> QED BY <2>7, <3>0, <5>6
          <6> HIDE DEF y
          <6> QED BY <4>1, <5>1, <5>2, <5>3, <5>4, <6>1
        <5> QED BY <5>5, <5>6
      <4>6. CASE i = 0
        <5>1. rollFaults' \in Nat
          BY <3>2 DEF LinesTypes
        <5>2. 1 \in 0..Backups + 1 /\ i + 1 = 1
          BY <4>6
        <5>3. g[1] \in Nat /\ g[i + 1] = g[1]
          BY <3>3, <5>2
        <5> DEFINE y == LinesPerFile * rollFaults'
        <5>4. y \in Nat /\ LinesPerFile * (i - rollFaults') = -y
          <6>1. rollFaults' \in Nat /\ i = 0 /\ LinesPerFile \in Nat
            BY <4>1, <4>6, <5>1
          <6>2. \A m, n \in Nat : m * n \in Nat /\ m * (0 - n) = -(m * n)
            OBVIOUS
          <6> HIDE LinesConstants
          <6> QED BY <6>1, <6>2
        <5>5. g[1] - g[i + 1] = 0
          BY <5>3
        <5> HIDE DEF y
        <5>6. g[1] - g[i + 1] >= -y
          BY <5>4, <5>5
        <5> QED BY <5>4, <5>6
      <4> QED BY <4>4, <4>5, <4>6
    <3>6. Meet(g)'
      <4>1. \A i \in 0..Backups : g[i] = g[i + 1] + Len(logs'[i])
        BY <3>4
      <4>2. \A i \in 0..Backups : \A k \in 1..Len(logs'[i]) : logs'[i][k] = g[i + 1] + k
        BY <3>4
      <4> QED BY <3>3, <3>5, <4>1, <4>2 DEF Meet
    <3> QED BY <3>2, <3>6 DEF LinesInv
  <2>8. CASE Len(files[0]) >= LinesPerFile /\ Rollover(files)
    <3>1. CASE logs' = Renamed(files, 0) /\ opened' = TRUE /\ UNCHANGED rollFaults
      <4>1. 0 \in 0..Backups
        OBVIOUS
      <4> HIDE DEF files
      <4> QED BY <2>7, <2>8, <3>1, <4>1
    <3>2. CASE rollFaults' = rollFaults + 1 /\ opened' = FALSE
                  /\ \E downto \in 1..Backups : logs' = Renamed(files, downto)
      <4>1. PICK downto \in 1..Backups : logs' = Renamed(files, downto)
        BY <3>2
      <4>2. downto \in 0..Backups /\ downto # 0
        OBVIOUS
      <4> HIDE DEF files
      <4> QED BY <2>7, <2>8, <3>2, <4>1, <4>2
    <3> QED BY <2>8, <3>1, <3>2 DEF Rollover
  <2> QED BY <1>5, <2>6, <2>8 DEF WriteLine
<1> QED BY <1>2, <1>3, <1>4, <1>5 DEF LinesNext

LEMMA LinesHold == LinesSpec => []LinesInv
  BY LinesInitially, LinesKept, PTL DEF LinesSpec
-----------------------------------------------------------------------------
\* From the oldest file to the i-th, the lines number on.
LEMMA MeetIs ==
    ASSUME LinesTypes, NEW e, Meet(e)
    PROVE  \A i \in 0..Backups :
               /\ e[i] \in Nat /\ e[i + 1] \in Nat /\ logs[i] \in Seq(Nat) /\ Len(logs[i]) \in Nat
               /\ e[i] = e[i + 1] + Len(logs[i])
               /\ \A k \in 1..Len(logs[i]) : logs[i][k] = e[i + 1] + k
<1> USE LinesConstants
<1>1. e \in [0..Backups + 1 -> Nat] /\ logs \in [0..Backups -> Seq(Nat)]
  BY DEF Meet, LinesTypes
<1>2. ASSUME NEW i \in 0..Backups
      PROVE  e[i] \in Nat /\ e[i + 1] \in Nat /\ logs[i] \in Seq(Nat) /\ Len(logs[i]) \in Nat
  <2>1. i \in 0..Backups + 1 /\ i + 1 \in 0..Backups + 1
    OBVIOUS
  <2> QED BY <1>1, <2>1
<1>3. \A i \in 0..Backups : e[i] = e[i + 1] + Len(logs[i])
  BY DEF Meet
<1>4. \A i \in 0..Backups : \A k \in 1..Len(logs[i]) : logs[i][k] = e[i + 1] + k
  BY DEF Meet
<1> QED BY <1>2, <1>3, <1>4

LEMMA TogetherIs ==
    ASSUME LinesTypes, NEW e, Meet(e)
    PROVE  /\ Together \in Seq(Nat) /\ Len(Together) = lines - e[Backups + 1]
           /\ \A k \in 1..Len(Together) : Together[k] = e[Backups + 1] + k
<1> USE LinesConstants
<1> DEFINE IsFrom(h) == h = [i \in 0..Backups |-> IF i = 0 THEN logs[0] ELSE logs[i] \o h[i - 1]]
           Right(i, s) == /\ s \in Seq(Nat) /\ Len(s) = lines - e[i + 1]
                          /\ \A k \in 1..Len(s) : s[k] = e[i + 1] + k
<1>1. \A i \in 0..Backups : e[i] \in Nat /\ e[i + 1] \in Nat /\ logs[i] \in Seq(Nat) /\ Len(logs[i]) \in Nat
                            /\ e[i] = e[i + 1] + Len(logs[i])
                            /\ \A k \in 1..Len(logs[i]) : logs[i][k] = e[i + 1] + k
  BY MeetIs
<1>2. e[0] = lines /\ lines \in Nat
  BY DEF Meet, LinesTypes
<1>3. Right(0, logs[0])
  <2>1. 0 \in 0..Backups
    OBVIOUS
  <2>2. e[0] = e[1] + Len(logs[0]) /\ e[1] \in Nat /\ Len(logs[0]) \in Nat /\ logs[0] \in Seq(Nat)
          /\ \A k \in 1..Len(logs[0]) : logs[0][k] = e[1] + k
    BY <1>1, <2>1
  <2> QED BY <1>2, <2>2
<1>4. ASSUME NEW i \in 1..Backups, NEW s, Right(i - 1, s)
      PROVE  Right(i, logs[i] \o s)
  <2>1. i - 1 + 1 = i /\ i \in 0..Backups
    OBVIOUS
  <2>2. s \in Seq(Nat) /\ Len(s) \in Nat /\ Len(s) = lines - e[i] /\ \A k \in 1..Len(s) : s[k] = e[i] + k
    BY <1>4, <2>1
  <2>3. e[i] \in Nat /\ e[i + 1] \in Nat /\ logs[i] \in Seq(Nat) /\ Len(logs[i]) \in Nat
          /\ e[i] = e[i + 1] + Len(logs[i])
          /\ \A k \in 1..Len(logs[i]) : logs[i][k] = e[i + 1] + k
    BY <1>1, <2>1
  <2> DEFINE t == logs[i]
             u == t \o s
  <2>4. u \in Seq(Nat) /\ Len(u) = Len(t) + Len(s)
    <3>1. t \in Seq(Nat) /\ s \in Seq(Nat)
      BY <2>2, <2>3
    <3> HIDE DEF t
    <3> QED BY <3>1
  <2>5. ASSUME NEW k \in 1..Len(u) PROVE u[k] = e[i + 1] + k
    <3>1. CASE k <= Len(t)
      <4>1. u[k] = t[k] /\ k \in 1..Len(t)
        BY <2>2, <2>3, <2>4, <3>1
      <4> QED BY <2>3, <4>1
    <3>2. CASE ~(k <= Len(t))
      <4>1. u[k] = s[k - Len(t)] /\ k - Len(t) \in 1..Len(s)
        BY <2>2, <2>3, <2>4, <3>2
      <4>2. s[k - Len(t)] = e[i] + (k - Len(t))
        BY <2>2, <4>1
      <4>3. e[i] = e[i + 1] + Len(t) /\ e[i + 1] \in Nat /\ Len(t) \in Nat /\ e[i] \in Nat /\ k \in Int
        BY <2>2, <2>3, <2>4
      <4> HIDE DEF u, t
      <4>4. e[i] + (k - Len(t)) = e[i + 1] + k
        BY <4>3
      <4> QED BY <4>1, <4>2, <4>4
    <3> QED BY <3>1, <3>2
  <2>6. Len(u) = lines - e[i + 1]
    <3>1. e[i] = e[i + 1] + Len(t) /\ e[i + 1] \in Nat /\ Len(t) \in Nat /\ e[i] \in Nat
            /\ Len(s) = lines - e[i] /\ lines \in Nat
      BY <1>2, <2>2, <2>3
    <3> HIDE DEF u, t
    <3> QED BY <2>4, <3>1
  <2> HIDE DEF u
  <2>7. Right(i, u)
    BY <2>4, <2>5, <2>6
  <2> QED BY <2>7 DEF u
<1>5. \E h : IsFrom(h)
  <2> DEFINE h == [i \in 0..Backups |-> [k \in 1..(lines - e[i + 1]) |-> e[i + 1] + k]]
  <2>1. ASSUME NEW i \in 0..Backups PROVE Right(i, h[i])
    <3>1. lines - e[i + 1] \in Nat
      <4> DEFINE S == {n \in Nat : n \in 0..Backups /\ ~(lines - e[n + 1] \in Nat)}
      <4>1. ASSUME S # {} PROVE FALSE
        <5>1. S \subseteq Nat
          OBVIOUS
        <5>2. PICK n \in S : \A m \in S : n <= m
          <6> HIDE DEF S
          <6> QED BY <4>1, <5>1, LeastNumber
        <5>3. n \in 0..Backups /\ n \in Nat /\ ~(lines - e[n + 1] \in Nat)
          OBVIOUS
        <5>4. n # 0
          <6>1. 0 \in 0..Backups /\ e[1] \in Nat /\ Len(logs[0]) \in Nat /\ e[0] = e[1] + Len(logs[0])
            BY <1>1
          <6>2. lines - e[1] = Len(logs[0])
            BY <1>2, <6>1
          <6> QED BY <5>3, <6>1, <6>2
        <5>5. n - 1 \in 0..Backups /\ n - 1 + 1 = n /\ ~(n <= n - 1)
          BY <5>3, <5>4
        <5>6. ~(n - 1 \in S)
          <6> HIDE DEF S
          <6> QED BY <5>2, <5>5
        <5>7. lines - e[n] \in Nat
          BY <5>5, <5>6
        <5>8. e[n] \in Nat /\ e[n + 1] \in Nat /\ Len(logs[n]) \in Nat /\ e[n] = e[n + 1] + Len(logs[n])
          BY <1>1, <5>3
        <5> QED BY <1>2, <5>3, <5>7, <5>8
      <4>2. ~(i \in S)
        <5> HIDE DEF S
        <5> QED BY <4>1
      <4>3. i \in Nat
        OBVIOUS
      <4> QED BY <4>2, <4>3
    <3>2. e[i + 1] \in Nat
      BY <1>1
    <3> DEFINE s == [k \in 1..(lines - e[i + 1]) |-> e[i + 1] + k]
    <3>3. h[i] = s
      OBVIOUS
    <3>4. s \in Seq(Nat) /\ Len(s) = lines - e[i + 1]
      BY <3>1, <3>2
    <3>5. \A k \in 1..Len(s) : s[k] = e[i + 1] + k
      BY <3>4
    <3> HIDE DEF s, h
    <3> QED BY <3>3, <3>4, <3>5
  <2>2. ASSUME NEW i \in 0..Backups, NEW s, NEW t, Right(i, s), Right(i, t) PROVE s = t
    <3>1. s \in Seq(Nat) /\ t \in Seq(Nat) /\ Len(s) = Len(t)
      BY <2>2
    <3>2. \A k \in 1..Len(s) : s[k] = t[k]
      BY <2>2
    <3> HIDE DEF Right
    <3>3. s = [k \in 1..Len(s) |-> s[k]] /\ t = [k \in 1..Len(t) |-> t[k]]
      BY ONLY <3>1
    <3> QED BY ONLY <3>1, <3>2, <3>3
  <2>3. ASSUME NEW i \in 0..Backups PROVE h[i] = IF i = 0 THEN logs[0] ELSE logs[i] \o h[i - 1]
    <3>1. CASE i = 0
      <4>1. Right(i, logs[0]) /\ Right(i, h[i])
        BY <1>3, <2>1, <3>1
      <4> HIDE DEF h, Right
      <4> QED BY <2>2, <3>1, <4>1
    <3>2. CASE i # 0
      <4>1. i \in 1..Backups /\ i - 1 \in 0..Backups
        BY <3>2
      <4>2. Right(i - 1, h[i - 1]) /\ Right(i, h[i])
        BY <2>1, <4>1
      <4>3. Right(i, logs[i] \o h[i - 1])
        <5> HIDE DEF h, Right
        <5> QED BY <1>4, <4>1, <4>2
      <4> HIDE DEF h, Right
      <4> QED BY <2>2, <3>2, <4>2, <4>3
    <3> QED BY <3>1, <3>2
  <2>4. h = [i \in 0..Backups |-> h[i]]
    OBVIOUS
  <2>5. IsFrom(h)
    <3> HIDE DEF h
    <3> QED BY <2>3, <2>4
  <2> QED BY <2>5
<1> DEFINE from == CHOOSE h : IsFrom(h)
<1>6. IsFrom(from)
  <2> HIDE DEF IsFrom
  <2> QED BY <1>5
<1>7. Together = from[Backups]
  BY DEF Together
<1>8. \A i \in 0..Backups : from[i] = IF i = 0 THEN logs[0] ELSE logs[i] \o from[i - 1]
  <2> HIDE DEF from
  <2> QED BY <1>6
<1>9. Right(Backups, from[Backups])
  <2> DEFINE S == {n \in Nat : n \in 0..Backups /\ ~Right(n, from[n])}
  <2> HIDE DEF Right, from
  <2>1. ASSUME S # {} PROVE FALSE
    <3>1. S \subseteq Nat
      OBVIOUS
    <3>2. PICK n \in S : \A m \in S : n <= m
      <4> HIDE DEF S
      <4> QED BY <2>1, <3>1, LeastNumber
    <3>3. n \in 0..Backups /\ ~Right(n, from[n])
      OBVIOUS
    <3>4. n # 0
      BY <1>3, <1>8, <3>3
    <3>5. n - 1 \in 0..Backups /\ n \in 1..Backups /\ ~(n <= n - 1) /\ n - 1 \in Nat
      BY <3>3, <3>4
    <3>6. ~(n - 1 \in S)
      <4> HIDE DEF S
      <4> QED BY <3>2, <3>5
    <3>7. Right(n - 1, from[n - 1])
      BY <3>5, <3>6
    <3>8. Right(n, logs[n] \o from[n - 1])
      BY <1>4, <3>5, <3>7
    <3> QED BY <1>8, <3>3, <3>4, <3>8
  <2>2. Backups \in 0..Backups /\ Backups \in Nat
    OBVIOUS
  <2> QED BY <2>1, <2>2
<1> HIDE DEF from
<1> QED BY <1>7, <1>9

LEMMA LinesMean == LinesInv => LinesAreTheLatest
<1> SUFFICES ASSUME LinesInv PROVE LinesAreTheLatest
  OBVIOUS
<1> USE LinesConstants
<1>1. PICK e : Meet(e)
  BY DEF LinesInv
<1>2. LinesTypes
  BY DEF LinesInv
<1> DEFINE s == Together
           last == e[Backups + 1]
<1>3. /\ s \in Seq(Nat) /\ Len(s) = lines - last
      /\ \A k \in 1..Len(s) : s[k] = last + k
  BY <1>1, <1>2, TogetherIs
<1>4. last \in Nat /\ lines \in Nat /\ e[1] \in Nat /\ e[0] = lines /\ e[0] = e[1] + Len(logs[0])
        /\ logs[0] \in Seq(Nat) /\ Len(logs[0]) \in Nat /\ \A k \in 1..Len(logs[0]) : logs[0][k] = e[1] + k
        /\ rollFaults \in Nat
  BY <1>1, <1>2 DEF Meet, LinesTypes
<1>5. last = 0 \/ e[1] - last >= LinesPerFile * (Backups - rollFaults)
  BY <1>1 DEF Meet
<1> HIDE DEF s, last
<1>6. \A i \in 1..Len(s) : s[i] = lines - Len(s) + i
  <2>1. lines - Len(s) = last
    BY <1>3, <1>4
  <2> QED BY <1>3, <2>1
<1>7. Len(s) >= (Backups - rollFaults) * LinesPerFile \/ Len(s) = lines
  <2> DEFINE y == LinesPerFile * (Backups - rollFaults)
  <2>1. y \in Int /\ y = (Backups - rollFaults) * LinesPerFile
    <3>1. rollFaults \in Nat
      BY <1>2 DEF LinesTypes
    <3> QED BY <3>1
  <2>2. e[1] <= lines
    BY <1>4
  <2>3. last = 0 \/ e[1] - last >= y
    BY <1>5
  <2> HIDE DEF y
  <2>4. last = 0 \/ lines - last >= y
    BY <1>4, <2>1, <2>2, <2>3
  <2> QED BY <1>3, <1>4, <2>1, <2>4
<1>8. ASSUME logs[0] # <<>> PROVE LastLines(1) = <<lines>>
  <2> DEFINE n == Len(logs[0])
  <2>1. n \in Nat /\ n >= 1
    BY <1>4, <1>8
  <2>2. (IF Len(logs[0]) > 1 THEN 1 ELSE Len(logs[0])) = 1
    <3>1. CASE n > 1
      BY <3>1
    <3>2. CASE ~(n > 1)
      <4>1. n = 1
        <5> HIDE DEF n
        <5> QED BY <2>1, <3>2
      <4> QED BY <4>1
    <3> QED BY <3>1, <3>2
  <2>3. LastLines(1) = [i \in 1..1 |-> logs[0][n + 1 - i]]
    BY <2>2 DEF LastLines
  <2>4. logs[0][n] = lines
    <3>1. n \in 1..n
      BY <2>1
    <3>2. logs[0][n] = e[1] + n
      BY <1>4, <3>1
    <3> QED BY <1>4, <3>2
  <2>5. ASSUME NEW i \in 1..1 PROVE logs[0][n + 1 - i] = lines
    <3>1. n + 1 - i = n
      BY <2>1
    <3> QED BY <2>4, <3>1
  <2> HIDE DEF n
  <2>6. LastLines(1) = [i \in 1..1 |-> lines]
    BY <2>3, <2>5
  <2>7. <<lines>> = [i \in 1..1 |-> lines]
    OBVIOUS
  <2> QED BY <2>6, <2>7
<1> QED BY <1>6, <1>7, <1>8 DEF LinesAreTheLatest, s

\* From the oldest backup to the log, the files hold the latest lines, in
\* order and each once, as many as rollovers that did not fail have left; and
\* a tail of one line is the line that was written last (write, tail).
THEOREM TailIsLatest == LinesSpec => []LinesAreTheLatest
  BY LinesHold, LinesMean, PTL
-----------------------------------------------------------------------------
\* The files hold numbers of lines that were written.
LEMMA FilesAreOfLines ==
    ASSUME LinesTypes, NEW e, Meet(e), NEW i \in 0..Backups, NEW k \in 1..Len(logs[i])
    PROVE  logs[i][k] \in 1..MaxLines
<1> USE LinesConstants
<1> DEFINE B == {j \in 0..Backups : ~(e[j] <= lines)}
<1>1. e[0] = lines
  BY DEF Meet
<1>2. lines \in Nat /\ lines <= MaxLines
  BY DEF LinesTypes
<1>3. B = {}
  <2> SUFFICES ASSUME B # {} PROVE FALSE
    OBVIOUS
  <2>1. B \in SUBSET Nat
    OBVIOUS
  <2>2. PICK j \in B : \A n \in B : j <= n
    BY <2>1, LeastNumber
  <2>3. j \in 0..Backups /\ ~(e[j] <= lines)
    OBVIOUS
  <2>4. j # 0
    BY <1>1, <1>2, <2>3
  <2>5. j - 1 \in 0..Backups /\ (j - 1) + 1 = j /\ ~(j <= j - 1)
    BY <2>3, <2>4
  <2>6. e[j - 1] <= lines
    BY <2>2, <2>5
  <2>7. e[j - 1] = e[j] + Len(logs[j - 1]) /\ Len(logs[j - 1]) \in Nat /\ e[j] \in Nat /\ e[j - 1] \in Nat
    BY <2>5, MeetIs
  <2> QED BY <1>2, <2>3, <2>6, <2>7
<1>4. e[i] <= lines
  BY <1>3
<1> HIDE DEF B
<1>5. e[i] = e[i + 1] + Len(logs[i]) /\ logs[i][k] = e[i + 1] + k /\ Len(logs[i]) \in Nat
        /\ e[i] \in Nat /\ e[i + 1] \in Nat
  BY MeetIs
<1> QED BY <1>2, <1>4, <1>5

LEMMA LineTypes == LinesSpec => []LinesTypeOK
<1> USE LinesConstants
<1>1. ASSUME LinesInv PROVE LinesTypeOK
  <2>1. PICK e : Meet(e)
    BY <1>1 DEF LinesInv
  <2>2. LinesTypes
    BY <1>1 DEF LinesInv
  <2>3. ASSUME NEW i \in 0..Backups PROVE logs[i] \in Seq(1..MaxLines)
    <3>1. \A k \in 1..Len(logs[i]) : logs[i][k] \in 1..MaxLines
      BY <2>1, <2>2, FilesAreOfLines
    <3>2. logs[i] \in Seq(Nat)
      BY <2>2 DEF LinesTypes
    <3> DEFINE f == logs[i]
    <3>3. f \in Seq(Nat) /\ \A k \in 1..Len(f) : f[k] \in 1..MaxLines
      BY <3>1, <3>2
    <3> HIDE DEF f
    <3>4. f = [k \in 1..Len(f) |-> f[k]] /\ Len(f) \in Nat
      BY ONLY <3>3
    <3>5. f \in [1..Len(f) -> 1..MaxLines]
      BY ONLY <3>3, <3>4
    <3>6. f \in Seq(1..MaxLines)
      BY <3>4, <3>5
    <3> QED BY <3>6 DEF f
  <2>4. logs \in [0..Backups -> Seq(1..MaxLines)]
    BY <2>2, <2>3 DEF LinesTypes
  <2> QED BY <2>2, <2>4 DEF LinesTypeOK, LinesTypes
<1> QED BY <1>1, LinesHold, PTL

-----------------------------------------------------------------------------
(***************************************************************************)
(* Access by attributes, for any policies and requests                     *)
(***************************************************************************)

\* What the rules mask are fields.
LEMMA MasksAreFields ==
    ASSUME NEW s, NEW r, NEW env
    PROVE  Evaluate(s, r, env).masks \subseteq Secret
<1> DEFINE said == UNION {ClearanceLevelRule(s, r, env), BusinessHoursRule(s, r, env),
                          LocationRestrictionRule(s, r, env), DeviceTypeRule(s, r, env),
                          MFARequirementRule(s, r, env), DepartmentSeparationRule(s, r, env),
                          ThreatLevelRule(s, r, env), SensitiveFieldMaskRule(s, r, env)}
<1>1. said \subseteq Secret \cup Deny
  <2> DEFINE F == Secret \cup Deny
  <2>1. ClearanceLevelRule(s, r, env) \subseteq F /\ MFARequirementRule(s, r, env) \subseteq F
    BY DEF ClearanceLevelRule, MFARequirementRule
  <2>2. BusinessHoursRule(s, r, env) \subseteq F
    BY DEF BusinessHoursRule, Secret
  <2>3. LocationRestrictionRule(s, r, env) \subseteq F
    BY DEF LocationRestrictionRule, Secret
  <2>4. DeviceTypeRule(s, r, env) \subseteq F
    BY DEF DeviceTypeRule, Secret
  <2>5. DepartmentSeparationRule(s, r, env) \subseteq F /\ ThreatLevelRule(s, r, env) \subseteq F
    BY DEF DepartmentSeparationRule, ThreatLevelRule, Secret
  <2>6. SensitiveFieldMaskRule(s, r, env) \subseteq F
    BY DEF SensitiveFieldMaskRule, Secret
  <2> HIDE DEF F
  <2>7. said \subseteq F
    BY <2>1, <2>2, <2>3, <2>4, <2>5, <2>6
  <2> QED BY <2>7 DEF F
<1>2. Evaluate(s, r, env).masks = IF said \cap Deny = {} THEN said ELSE {}
  BY DEF Evaluate
<1> HIDE DEF said
<1> QED BY <1>1, <1>2

LEMMA OnePolicy == ASSUME NEW path PROVE Cardinality(FindPolicy(path)) <= 1 /\ Cardinality({}) <= 1
<1>1. \E x : FindPolicy(path) \in {{}, {x}}
  BY DEF FindPolicy
<1>2. Cardinality({}) = 0 /\ \A x : Cardinality({x}) = 1
  BY FS_EmptySet, FS_Singleton
<1> QED BY <1>1, <1>2

\* Every variable keeps its type: what is masked is a field, and there is one
\* policy at most, whatever the policies, the tokens and the hours.
THEOREM AccessTypeCorrect == AccessSpec => []AccessTypeOK
<1>1. AccessInit => AccessTypeOK
  <2>1. Cardinality({}) <= 1
    BY OnePolicy
  <2> QED BY <2>1 DEF AccessInit, AccessTypeOK
<1>2. AccessTypeOK /\ [AccessNext]_accessVars => AccessTypeOK'
  <2> SUFFICES ASSUME AccessTypeOK, [AccessNext]_accessVars PROVE AccessTypeOK'
    OBVIOUS
  <2> USE DEF AccessTypeOK
  <2>1. ASSUME NEW path \in RequestPath, NEW token \in Token, NEW hour \in Clock, Dispatch(path, token, hour)
        PROVE  AccessTypeOK'
    <3>1. abePhase' \in {"running", "refused"} /\ holder' \in {"u", "anonymous"} /\ UNCHANGED <<revoked, shown>>
      BY <2>1 DEF Dispatch
    <3>2. policy' = {} \/ policy' = FindPolicy(path)
      BY <2>1 DEF Dispatch
    <3>3. Cardinality(policy') <= 1
      BY <3>2, OnePolicy
    <3>4. \E given : decision' = {} \/ decision' = Enter(given, path, hour).masks
      BY <2>1 DEF Dispatch
    <3>5. decision' \subseteq Secret
      BY <3>4, MasksAreFields DEF Enter
    <3> QED BY <3>1, <3>3, <3>5
  <2>2. ASSUME NEW body \in {"object", "list", "other"}, FilterAnswer(body) PROVE AccessTypeOK'
    BY <2>2 DEF FilterAnswer
  <2>3. ASSUME NEW user \in {"u", "anonymous"}, NEW k, NEW v, Revoke(user, k, v) PROVE AccessTypeOK'
    BY <2>3 DEF Revoke
  <2>4. ASSUME RestartAccess PROVE AccessTypeOK'
    <3>1. Cardinality({}) <= 1
      BY OnePolicy
    <3> QED BY <2>4, <3>1 DEF RestartAccess
  <2>5. CASE UNCHANGED accessVars
    BY <2>5 DEF accessVars
  <2> QED BY <2>1, <2>2, <2>3, <2>4, <2>5 DEF AccessNext
<1> QED BY <1>1, <1>2, PTL DEF AccessSpec

\* What the attributes that are left satisfy, they satisfy unrevoked.
LEMMA LeftAreUnrevoked ==
    ASSUME NEW structure, Satisfied(structure, Left(holder, attrs))
    PROVE  \E alternative \in structure : \A pair \in alternative :
              pair \in Pairs(attrs) /\ <<holder, pair[1], pair[2]>> \notin revoked
<1> DEFINE still == {k \in DOMAIN attrs : <<holder, k, attrs[k]>> \notin revoked}
<1>1. PICK alternative \in structure : alternative \subseteq Pairs(Left(holder, attrs))
  BY DEF Satisfied
<1>2. ASSUME NEW pair \in alternative
      PROVE  pair \in Pairs(attrs) /\ <<holder, pair[1], pair[2]>> \notin revoked
  <2>1. PICK k \in DOMAIN Left(holder, attrs) : pair = <<k, Left(holder, attrs)[k]>>
    BY <1>1 DEF Pairs
  <2>2. k \in still /\ Left(holder, attrs)[k] = attrs[k]
    BY <2>1 DEF Left, Restrict
  <2> QED BY <2>1, <2>2 DEF Pairs
<1> QED BY <1>2

\* The rules, of somebody and of somebody else who has less.
Weaker(few, all) ==
    /\ few.clearance \in 1..4 /\ all.clearance \in 1..4 /\ few.clearance <= all.clearance
    /\ few.role = all.role \/ few.role = "viewer"
    /\ few.location = all.location /\ few.device = all.device
    /\ few.mfa => all.mfa

LEMMA RulesAreMonotone ==
    ASSUME NEW few, NEW all, Weaker(few, all), NEW path, NEW hour
    PROVE  LET r == Resource(path)
               env == Environment(hour)
           IN  Evaluate(few, r, env).allowed =>
                   Evaluate(all, r, env).allowed /\ Evaluate(all, r, env).masks \subseteq Evaluate(few, r, env).masks
<1> DEFINE r == Resource(path)
           env == Environment(hour)
           said(s) == UNION {ClearanceLevelRule(s, r, env), BusinessHoursRule(s, r, env),
                             LocationRestrictionRule(s, r, env), DeviceTypeRule(s, r, env),
                             MFARequirementRule(s, r, env), DepartmentSeparationRule(s, r, env),
                             ThreatLevelRule(s, r, env), SensitiveFieldMaskRule(s, r, env)}
<1>1. r.level \in 1..3 /\ r.owner = "" /\ env.threat = "normal"
  BY DEF Resource, Environment
<1>2. \A s : Evaluate(s, r, env) = [allowed |-> said(s) \cap Deny = {},
                                    masks |-> IF said(s) \cap Deny = {} THEN said(s) ELSE {}]
  BY DEF Evaluate
<1> HIDE DEF r, env
<1>3. ClearanceLevelRule(all, r, env) \subseteq ClearanceLevelRule(few, r, env)
  <2> DEFINE a == all.clearance
             f == few.clearance
             l == r.level
  <2>0. a \in 1..4 /\ f \in 1..4 /\ f <= a /\ l \in 1..3
    BY <1>1, Zenon DEF Weaker
  <2> HIDE DEF a, f, l
  <2>1. a < l => f < l
    BY <2>0
  <2> USE DEF a, f, l
  <2> QED BY <2>1, Zenon DEF ClearanceLevelRule
<1>4. BusinessHoursRule(all, r, env) \subseteq BusinessHoursRule(few, r, env)
  BY <1>1 DEF BusinessHoursRule, Weaker
<1>5. LocationRestrictionRule(all, r, env) = LocationRestrictionRule(few, r, env)
  BY DEF LocationRestrictionRule, Weaker
<1>6. DeviceTypeRule(all, r, env) = DeviceTypeRule(few, r, env)
  BY DEF DeviceTypeRule, Weaker
<1>7. MFARequirementRule(all, r, env) \subseteq MFARequirementRule(few, r, env)
  BY DEF MFARequirementRule, Weaker
<1>8. DepartmentSeparationRule(all, r, env) = {} /\ ThreatLevelRule(all, r, env) = {}
  BY <1>1 DEF DepartmentSeparationRule, ThreatLevelRule
<1>9. SensitiveFieldMaskRule(all, r, env) \subseteq SensitiveFieldMaskRule(few, r, env)
  BY DEF SensitiveFieldMaskRule, Weaker
<1>10. said(all) \subseteq said(few)
  BY <1>3, <1>4, <1>5, <1>6, <1>7, <1>8, <1>9
<1> HIDE DEF said
<1>11. Evaluate(few, r, env).allowed =>
           Evaluate(all, r, env).allowed /\ Evaluate(all, r, env).masks \subseteq Evaluate(few, r, env).masks
  <2> DEFINE a == said(all)
             f == said(few)
             ea == Evaluate(all, r, env)
             ef == Evaluate(few, r, env)
  <2>1. ea.allowed = (a \cap Deny = {}) /\ ea.masks = IF a \cap Deny = {} THEN a ELSE {}
    BY <1>2
  <2>2. ef.allowed = (f \cap Deny = {}) /\ ef.masks = IF f \cap Deny = {} THEN f ELSE {}
    BY <1>2
  <2> HIDE DEF a, f, ea, ef
  <2>3. a \subseteq f
    BY <1>10 DEF a, f
  <2>4. ef.allowed => ea.allowed /\ ea.masks \subseteq ef.masks
    BY <2>1, <2>2, <2>3
  <2> QED BY <2>4 DEF ea, ef
<1> QED BY <1>11 DEF r, env

\* An attribute less makes nobody more than they were.
LEMMA LessIsWeaker ==
    ASSUME NEW given, NEW k \in DOMAIN given \ {"location", "device_type"}
    PROVE  Weaker(Subject(Restrict(given, DOMAIN given \ {k})), Subject(given))
<1> DEFINE less == Restrict(given, DOMAIN given \ {k})
           Get(f, x) == IF x \in DOMAIN f THEN f[x] ELSE Unsaid(x)
           level(c) == CASE c = "medium" -> 2 [] c = "high" -> 3 [] c \in {"top_secret", "critical"} -> 4 [] OTHER -> 1
<1>1. \A x : x # k => Get(less, x) = Get(given, x)
  BY DEF Restrict
<1>2. Get(less, k) = Unsaid(k)
  BY DEF Restrict
<1>3. \A f : Subject(f) = [role |-> Get(f, "role"), dept |-> Get(f, "dept"), location |-> Get(f, "location"),
                           device |-> Get(f, "device_type"), mfa |-> Get(f, "mfa_verified") = "true",
                           clearance |-> level(Get(f, "clearance"))]
  BY DEF Subject
<1>4. Unsaid("role") = "viewer" /\ Unsaid("clearance") = "low" /\ Unsaid("mfa_verified") = "false"
  BY DEF Unsaid
<1>5. \A c : level(c) \in 1..4
  OBVIOUS
<1>6. level("low") = 1
  OBVIOUS
<1> HIDE DEF less, Get, level
<1>7. Get(less, "location") = Get(given, "location") /\ Get(less, "device_type") = Get(given, "device_type")
  BY <1>1
<1>8. Get(less, "role") = Get(given, "role") \/ Get(less, "role") = "viewer"
  BY <1>1, <1>2, <1>4
<1>9. Get(less, "mfa_verified") = Get(given, "mfa_verified") \/ Get(less, "mfa_verified") = "false"
  BY <1>1, <1>2, <1>4
<1>10. Get(less, "clearance") = Get(given, "clearance") \/ Get(less, "clearance") = "low"
  BY <1>1, <1>2, <1>4
<1>11. level(Get(less, "clearance")) <= level(Get(given, "clearance"))
  BY <1>5, <1>6, <1>10
<1>12. Weaker(Subject(less), Subject(given))
  BY <1>3, <1>5, <1>7, <1>8, <1>9, <1>11 DEF Weaker
<1> QED BY <1>12 DEF less

LEMMA FewerAlways == FewerShowNoMore
<1> SUFFICES ASSUME NEW path \in RequestPath, NEW hour \in Clock,
                    NEW k \in DOMAIN attrs \ {"location", "device_type"}
             PROVE  LET all == Enter(attrs, path, hour)
                        fewer == Enter(Restrict(attrs, DOMAIN attrs \ {k}), path, hour)
                    IN  fewer.allowed => all.allowed /\ all.masks \subseteq fewer.masks
  BY DEF FewerShowNoMore
<1> DEFINE less == Restrict(attrs, DOMAIN attrs \ {k})
           r == Resource(path)
           env == Environment(hour)
<1>1. Pairs(less) \subseteq Pairs(attrs)
  BY DEF Pairs, Restrict
<1>2. \A structure : Satisfied(structure, less) => Satisfied(structure, attrs)
  BY <1>1 DEF Satisfied
<1>3. Weaker(Subject(less), Subject(attrs))
  BY LessIsWeaker
<1>4. Evaluate(Subject(less), r, env).allowed =>
          /\ Evaluate(Subject(attrs), r, env).allowed
          /\ Evaluate(Subject(attrs), r, env).masks \subseteq Evaluate(Subject(less), r, env).masks
  BY <1>3, RulesAreMonotone
<1>5. \A given : /\ Enter(given, path, hour).masks = Evaluate(Subject(given), r, env).masks
                 /\ Enter(given, path, hour).allowed =
                        ((\A p \in FindPolicy(path) : Satisfied(p.structure, given))
                            /\ Evaluate(Subject(given), r, env).allowed)
  BY DEF Enter
<1> HIDE DEF less, r, env
<1>6. Enter(less, path, hour).allowed =>
          Enter(attrs, path, hour).allowed /\ Enter(attrs, path, hour).masks \subseteq Enter(less, path, hour).masks
  BY <1>2, <1>4, <1>5
<1> QED BY <1>6 DEF less

\* A field that a policy hides is in no answer to somebody whose attributes, as
\* they are left when the answer is made, do not satisfy it, nor one that the
\* rules mask; and an attribute less lets in and shows nothing that was refused
\* or masked: for any policies, tokens, paths and hours, also when attributes
\* are revoked while the handler runs (abe_auth.py:302, abac_engine.py:94).
THEOREM LessNeverShowsMore == AccessSpec => LessShowsNoMore
<1>1. AccessTypeOK /\ [AccessNext]_accessVars =>
          [\A body \in {"object", "list"} : FilterAnswer(body) =>
              /\ body = "object" => \A p \in policy, f \in Secret :
                     (f \in p.fields /\ shown'[f] # "marker")
                         => \E alternative \in p.structure : \A pair \in alternative :
                                /\ pair \in Pairs(attrs)
                                /\ <<holder, pair[1], pair[2]>> \notin revoked
              /\ \A f \in decision : shown'[f] # "plain"]_accessVars
  <2> SUFFICES ASSUME AccessTypeOK, NEW body \in {"object", "list"}, FilterAnswer(body)
               PROVE  /\ body = "object" => \A p \in policy, f \in Secret :
                             (f \in p.fields /\ shown'[f] # "marker")
                                 => \E alternative \in p.structure : \A pair \in alternative :
                                        /\ pair \in Pairs(attrs)
                                        /\ <<holder, pair[1], pair[2]>> \notin revoked
                      /\ \A f \in decision : shown'[f] # "plain"
    OBVIOUS
  <2> DEFINE hidden(f) == \E p \in policy : f \in p.fields /\ ~Satisfied(p.structure, Left(holder, attrs))
  <2>1. \A f \in Secret : shown'[f] = IF body = "object" /\ hidden(f) THEN "marker"
                                      ELSE IF f \in decision THEN "masked" ELSE "plain"
    BY DEF FilterAnswer
  <2>2. decision \subseteq Secret
    BY DEF AccessTypeOK
  <2>3. ASSUME body = "object", NEW p \in policy, NEW f \in Secret, f \in p.fields, shown'[f] # "marker"
        PROVE  Satisfied(p.structure, Left(holder, attrs))
    BY <2>1, <2>3
  <2>4. \A f \in decision : shown'[f] # "plain"
    BY <2>1, <2>2
  <2> QED BY <2>3, <2>4, LeftAreUnrevoked
<1> QED BY <1>1, AccessTypeCorrect, FewerAlways, PTL DEF AccessSpec, LessShowsNoMore, HiddenNeedsAttributes

=============================================================================
