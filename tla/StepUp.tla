------------------------------- MODULE StepUp -------------------------------
(***************************************************************************)
(* Step-up authentication of fraud-service: a transaction under review     *)
(* waits for its user's answer.  The entries live in Redis, shared by the  *)
(* nodes, and in a dictionary of each node when a call of Redis fails      *)
(* (app/services/stepup_store.py).  Answers come in by                     *)
(* POST /v1/fraud/auth/step-up/result (app/api/routes_fraud.py), each in a *)
(* thread of its node that reads the entry, asks whether it is there and   *)
(* writes to it in three calls.                                            *)
(*                                                                         *)
(* A call that fails may have taken effect.  A node that restarts loses    *)
(* its dictionary and its answers in flight.                               *)
(***************************************************************************)
EXTENDS Naturals

CONSTANTS Node, Tx,
          Answer, Says,  \* answers: the node each reaches, its transaction, what it says
          Faulty,        \* whether calls of Redis may fail
          Expires,       \* whether entries may outlive their 30 minutes
          Restarts,      \* whether nodes may restart
          MaxOpens       \* bound: evaluations that open an entry, of each transaction

ASSUME StepUpConstants ==
    /\ Says \in [Answer -> [node : Node, tx : Tx, approved : BOOLEAN]]
    /\ Faulty \in BOOLEAN /\ Expires \in BOOLEAN /\ Restarts \in BOOLEAN
    /\ MaxOpens \in Nat

VARIABLES
    redis,    \* [Tx -> Entry]: the hash stepup:{tx_id}
    local,    \* [Node -> [Tx -> Entry]]: _local_store
    stage,    \* [Answer -> Stage]
    reply,    \* [Answer -> what it was told]
    opens,    \* [Tx -> how often it was opened]
    decided,  \* history: [Tx -> answers that decided since it was last opened]
    earlier,  \* history: [Answer -> those that had when it read the entry]
    failed    \* history: whether a call of Redis has failed

stepUpVars == <<redis, local, stage, reply, opens, decided, earlier, failed>>

Entry == [status : {"absent", "pending", "resolved"}, action : {"none", "PASS", "BLOCK"},
          ttl : BOOLEAN]
Stage == {"new", "ask", "write", "done", "lost"}
Reply == [kind : {"none", "missing", "already", "decided"}, action : {"none", "PASS", "BLOCK"}]

Absent  == [status |-> "absent", action |-> "none", ttl |-> FALSE]
NoReply == [kind |-> "none", action |-> "none"]

\* final_action of the handler.
Decision(a) == IF Says[a].approved THEN "PASS" ELSE "BLOCK"
-----------------------------------------------------------------------------
StepUpInit ==
    /\ redis = [t \in Tx |-> Absent]
    /\ local = [n \in Node |-> [t \in Tx |-> Absent]]
    /\ stage = [a \in Answer |-> "new"]
    /\ reply = [a \in Answer |-> NoReply]
    /\ opens = [t \in Tx |-> 0]
    /\ decided = [t \in Tx |-> {}]
    /\ earlier = [a \in Answer |-> {}]
    /\ failed = FALSE

\* A call of Redis fails.
Fail == Faulty /\ failed' = TRUE

\* hset of the new fields on an old hash keeps its resolved_action.
OpenInRedis(t) ==
    redis' = [redis EXCEPT ![t] = [status |-> "pending", action |-> @.action, ttl |-> TRUE]]

OpenLocally(n, t) ==
    local' = [local EXCEPT ![n][t] = [status |-> "pending", action |-> "none", ttl |-> FALSE]]

\* set_pending, by an evaluation on node n.
Open(n, t) ==
    /\ opens[t] < MaxOpens
    /\ opens' = [opens EXCEPT ![t] = @ + 1]
    /\ decided' = [decided EXCEPT ![t] = {}]
    /\ \/ OpenInRedis(t) /\ UNCHANGED <<local, failed>>
       \/ Fail /\ OpenLocally(n, t) /\ (OpenInRedis(t) \/ UNCHANGED redis)
    /\ UNCHANGED <<stage, reply, earlier>>

\* get returns e on node n: the hash, or the dictionary's entry where the hash
\* is empty or the call fails.
Gets(n, t, e) ==
    \/ e = (IF redis[t].status = "absent" THEN local[n][t] ELSE redis[t]) /\ UNCHANGED failed
    \/ e = local[n][t] /\ Fail

Tell(a, kind, action) == reply' = [reply EXCEPT ![a] = [kind |-> kind, action |-> action]]

Mut_ReadForgets(a) ==
    /\ stage[a] = "new"
    /\ earlier' = [earlier EXCEPT ![a] = decided[Says[a].tx]]
    /\ stage' = [stage EXCEPT ![a] = "ask"]
    /\ UNCHANGED <<redis, local, reply, opens, decided, failed>>

\* entry = stepup_store.get(req.tx_id), and the early returns.
Read(a) ==
    /\ stage[a] = "new"
    /\ earlier' = [earlier EXCEPT ![a] = decided[Says[a].tx]]
    /\ \E e \in {redis[Says[a].tx], local[Says[a].node][Says[a].tx]} :
       /\ Gets(Says[a].node, Says[a].tx, e)
       /\ \/ /\ e.status = "absent"
             /\ Tell(a, "missing", "none") /\ stage' = [stage EXCEPT ![a] = "done"]
          \/ /\ e.status = "resolved"
             /\ Tell(a, "already", e.action) /\ stage' = [stage EXCEPT ![a] = "done"]
          \/ /\ e.status = "pending"
             /\ stage' = [stage EXCEPT ![a] = "ask"] /\ UNCHANGED reply
    /\ UNCHANGED <<redis, local, opens, decided>>

\* The handler replies with its decision, whatever update_status returns.
Decide(a) ==
    /\ Tell(a, "decided", Decision(a))
    /\ stage' = [stage EXCEPT ![a] = "done"]
    /\ decided' = [decided EXCEPT ![Says[a].tx] = @ \cup {a}]

\* update_status on the node's dictionary; nothing where it has no entry.
UpdateLocally(a) ==
    LET n == Says[a].node  t == Says[a].tx
    IN  local' = IF local[n][t].status = "absent" THEN local
                 ELSE [local EXCEPT ![n][t] =
                           [status |-> "resolved", action |-> Decision(a), ttl |-> FALSE]]

\* r.exists of update_status
Ask(a) ==
    /\ stage[a] = "ask"
    /\ \/ /\ redis[Says[a].tx].status # "absent"
          /\ stage' = [stage EXCEPT ![a] = "write"]
          /\ UNCHANGED <<local, reply, decided, failed>>
       \/ /\ Fail \/ (redis[Says[a].tx].status = "absent" /\ UNCHANGED failed)
          /\ UpdateLocally(a) /\ Decide(a)
    /\ UNCHANGED <<redis, opens, earlier>>

Mut_ActionForgotten(a) ==
    redis' = [redis EXCEPT ![Says[a].tx].status = "resolved"]

\* hset of the status and the action: a hash that has expired since is made
\* anew, without a time to live.
UpdateInRedis(a) ==
    redis' = [redis EXCEPT ![Says[a].tx] =
                 [status |-> "resolved", action |-> Decision(a), ttl |-> @.ttl]]

\* r.hset of update_status
Write(a) ==
    /\ stage[a] = "write"
    /\ Decide(a)
    /\ \/ UpdateInRedis(a) /\ UNCHANGED <<local, failed>>
       \/ Fail /\ UpdateLocally(a) /\ (UpdateInRedis(a) \/ UNCHANGED redis)
    /\ UNCHANGED <<opens, earlier>>

Expire(t) ==
    /\ Expires /\ redis[t].ttl
    /\ redis' = [redis EXCEPT ![t] = Absent]
    /\ UNCHANGED <<local, stage, reply, opens, decided, earlier, failed>>

Restart(n) ==
    /\ Restarts
    /\ local' = [local EXCEPT ![n] = [t \in Tx |-> Absent]]
    /\ stage' = [a \in Answer |->
                    IF Says[a].node = n /\ stage[a] \in {"ask", "write"} THEN "lost" ELSE stage[a]]
    /\ UNCHANGED <<redis, reply, opens, decided, earlier, failed>>

StepUpNext ==
    \/ \E n \in Node, t \in Tx : Open(n, t)
    \/ \E a \in Answer : Read(a) \/ Ask(a) \/ Write(a)
    \/ \E t \in Tx : Expire(t)
    \/ \E n \in Node : Restart(n)

StepUpSpec == StepUpInit /\ [][StepUpNext]_stepUpVars
-----------------------------------------------------------------------------
StepUpTypeOK ==
    /\ redis \in [Tx -> Entry] /\ local \in [Node -> [Tx -> Entry]]
    /\ stage \in [Answer -> Stage] /\ reply \in [Answer -> Reply]
    /\ opens \in [Tx -> 0..MaxOpens]
    /\ decided \in [Tx -> SUBSET Answer] /\ earlier \in [Answer -> SUBSET Answer]
    /\ failed \in BOOLEAN

\* Until a call of Redis fails, an answer that arrives after another has
\* decided never decides anew, on whichever node it arrives: it repeats a
\* decision made since the entry was opened, or is told that there is no entry
\* any more (the early returns of step_up_result).
LateAnswerRepeats ==
    ~failed => \A a \in Answer :
        /\ earlier[a] # {} => reply[a].kind # "decided"
        /\ reply[a].kind = "already" => \E b \in earlier[a] : reply[a].action = Decision(b)

\* Whatever fails, expires, restarts or is opened again, an answer is only
\* told of a decision that an answer to its transaction has made (the
\* already_resolved reply of step_up_result).
RepeatsWereMade ==
    \A a \in Answer : reply[a].kind = "already" =>
        \E b \in Answer : /\ Says[b].tx = Says[a].tx /\ reply[b].kind = "decided"
                          /\ reply[a].action = Decision(b)

\* A transaction opened once is decided one way.
OneDecision ==
    \A a, b \in Answer :
        /\ Says[a].tx = Says[b].tx /\ opens[Says[a].tx] <= 1
        /\ reply[a].kind = "decided" /\ reply[b].kind = "decided"
        => Decision(a) = Decision(b)
=============================================================================
