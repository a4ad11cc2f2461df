---------------------------- MODULE MCEvaluation ----------------------------
(***************************************************************************)
(* Instances of module Evaluation, and what the documents of the           *)
(* repository say of it that the code does not do.                         *)
(***************************************************************************)
EXTENDS Evaluation, TLC

Plain == [amount |-> 5, score |-> 100, hour |-> "none", foreign |-> FALSE,
          merchant |-> FALSE, drains |-> FALSE, user |-> "ann",
          device |-> NoDevice, token |-> FALSE]

\* Payments of one account that say the same; five are enough for two threads
\* to overshoot.
TxBurst == [r \in Request |-> Plain]
AnyOrder == Permutations(Request)

\* Two accounts: a small payment without a device, and one from abroad with one.
TxLists == (1 :> [Plain EXCEPT !.score = 4])
        @@ (2 :> [Plain EXCEPT !.amount = 30, !.foreign = TRUE, !.score = 660,
                                !.user = "bob", !.device = "phone", !.token = TRUE])

\* The documents' flow ends with one decision, which the response tells the
\* administrator and the user.
ToldTheDecision ==
    \A r \in Request : pc[r] = "done" => routed[r] = final[r] /\ told[r] = final[r]
=============================================================================
