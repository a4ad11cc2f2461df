---------------------------- MODULE KafkaConsumer ----------------------------
(***************************************************************************)
(* The Kafka side of fraud-service (app/kafka/consumer.py, producer.py):   *)
(* one consumer takes requests from the partitions of                      *)
(* fraud.transaction.requested, evaluates each in a worker thread, and     *)
(* publishes its decision on fraud.decision.result, or, when something     *)
(* fails, the request on fraud.transaction.deadletter.  A supervisor       *)
(* starts the consumer again when it raises.                               *)
(*                                                                         *)
(* The brokers and the client library are modelled from how the service    *)
(* configures them: offsets are committed by a timer, at the position of   *)
(* the iterator, and when the consumer is stopped; a start without a       *)
(* committed offset begins at the end (AUTO_OFFSET_RESET latest).          *)
(***************************************************************************)
EXTENDS Integers, Sequences

CONSTANTS Partition, Message,
          Home,       \* [Message -> Partition]: by the key, the user (W4-#7)
          Garbage,    \* requests that json.loads refuses
          None,       \* no request
          MaxStarts,  \* bound: starts of the process
          MaxBreaks   \* bound: connections that break

ASSUME KafkaConstants ==
    /\ Home \in [Message -> Partition]
    /\ Garbage \subseteq Message
    /\ None \notin Message
    /\ MaxStarts \in Nat /\ MaxBreaks \in Nat

VARIABLES
    log,        \* [Partition -> Seq(Message)]: the request topic
    committed,  \* [Partition -> offset, or NoOffset]
    position,   \* [Partition -> offset]: what the iterator has returned
    status,      \* "down", "waiting" (before a connection) or "running"
    producer,   \* whether _producer is not None
    work,       \* the request in the body of the loop, or None
    body,      \* where the body is: "idle", "thread", "send" or "dlq"
    results,    \* Seq(Message): the decision topic
    dead,       \* requests on the dead-letter topic
    entered,    \* [Message -> how often it has entered its user's profile]
    starts, breaks,
    lost,       \* history: requests that will get neither
    rewound     \* history: whether a start went back over what had entered

broker == <<log, committed, results, dead>>
kafkaVars   == <<broker, position, status, producer, work, body, entered, starts, breaks, lost, rewound>>

NoOffset == -1

Published == {r \in Message : \E i \in 1..Len(log[Home[r]]) : log[Home[r]][i] = r}

\* r lies behind the position at which q's values stand.
Behind(r, q) == \E i \in 1..Len(log[Home[r]]) : i <= q[Home[r]] /\ log[Home[r]][i] = r

Decided == {results[x] : x \in 1..Len(results)}
-----------------------------------------------------------------------------
KafkaInit ==
    /\ log = [p \in Partition |-> <<>>] /\ results = <<>> /\ dead = {}
    /\ committed = [p \in Partition |-> NoOffset]
    /\ position = [p \in Partition |-> 0]
    /\ status = "down" /\ producer = FALSE /\ work = None /\ body = "idle"
    /\ entered = [r \in Message |-> 0]
    /\ starts = 0 /\ breaks = 0 /\ lost = {} /\ rewound = FALSE

\* The payment system publishes a request, keyed by its user.
Publish(r) ==
    /\ r \notin Published
    /\ log' = [log EXCEPT ![Home[r]] = Append(@, r)]
    /\ UNCHANGED <<committed, results, dead, position, status, producer, work, body, entered,
                   starts, breaks, lost, rewound>>

\* The process starts: start_producer, which may fail for good, and
\* start_consumer.
StartService ==
    /\ status = "down" /\ starts < MaxStarts
    /\ status' = "waiting" /\ starts' = starts + 1
    /\ producer' \in BOOLEAN
    /\ UNCHANGED <<broker, position, work, body, entered, breaks, lost, rewound>>

\* _consume_loop connects.
Connect ==
    /\ status = "waiting" /\ status' = "running"
    /\ position' = [p \in Partition |->
                       IF committed[p] = NoOffset THEN Len(log[p]) ELSE committed[p]]
    /\ lost' = lost \cup {r \in Published :
                             committed[Home[r]] = NoOffset /\ r \notin Decided \cup dead}
    /\ rewound' = (rewound \/ \E r \in Published : entered[r] > 0 /\ ~Behind(r, position'))
    /\ UNCHANGED <<broker, producer, work, body, entered, starts, breaks>>

\* The timer of the client commits the position.
Commit ==
    /\ status = "running"
    /\ committed' = position
    /\ UNCHANGED <<log, results, dead, position, status, producer, work, body, entered,
                   starts, breaks, lost, rewound>>

\* The request that the iterator returns next from p.
NextOf(p) == log[p][position[p] + 1]

Ready(p) == status = "running" /\ work = None /\ position[p] < Len(log[p])

\* async for: the next request of a partition goes to a worker thread.
Take(p) ==
    /\ Ready(p) /\ NextOf(p) \notin Garbage
    /\ work' = NextOf(p) /\ body' = "thread"
    /\ position' = [position EXCEPT ![p] = @ + 1]
    /\ UNCHANGED <<broker, status, producer, entered, starts, breaks, lost, rewound>>

Mut_FailuresSwallowed ==
    /\ body = "thread"
    /\ entered' = [entered EXCEPT ![work] = @ + 1]
    /\ \/ work' = None /\ body' = "idle"
       \/ work' = work /\ body' = "send"
    /\ UNCHANGED <<broker, position, status, producer, starts, breaks, lost, rewound>>

\* _process_message returns or raises; it raises before or after the request
\* has entered the profile of its user.
Process ==
    /\ body = "thread"
    /\ \/ /\ body' = "send"
          /\ entered' = [entered EXCEPT ![work] = @ + 1]
       \/ /\ body' = "dlq"
          /\ entered' \in {entered, [entered EXCEPT ![work] = @ + 1]}
    /\ UNCHANGED <<broker, position, status, producer, work, starts, breaks, lost, rewound>>

\* The body of the loop ends.
Finish == work' = None /\ body' = "idle"

Mut_SentInBackground ==
    /\ body = "send" /\ producer
    /\ \E x \in 0..Len(results) :
          results' = SubSeq(results, 1, x) \o <<work>> \o SubSeq(results, x + 1, Len(results))
    /\ Finish
    /\ UNCHANGED <<log, committed, dead, position, status, producer, entered, starts, breaks,
                   lost, rewound>>

\* send_decision: the result is published, or the send fails, delivered or
\* not, and send_dlq is next; without a producer it is as well.
Send ==
    /\ body = "send"
    /\ \/ /\ producer /\ results' = Append(results, work)
          /\ Finish
       \/ /\ body' = "dlq" /\ UNCHANGED work
          /\ \/ producer /\ results' = Append(results, work)
             \/ UNCHANGED results
    /\ UNCHANGED <<log, committed, dead, position, status, producer, entered, starts, breaks,
                   lost, rewound>>

Mut_TriesAgain ==
    /\ body = "dlq"
    /\ \/ producer /\ dead' = dead \cup {work} /\ lost' = lost /\ Finish
       \/ dead' = dead /\ lost' = lost /\ body' = "thread" /\ UNCHANGED work
    /\ UNCHANGED <<log, committed, results, position, status, producer, entered, starts, breaks,
                   rewound>>

Mut_WaitsForProducer ==
    /\ body = "dlq" /\ producer /\ Finish
    /\ dead' = dead \cup {work} /\ UNCHANGED lost
    /\ UNCHANGED <<log, committed, results, position, status, producer, entered, starts, breaks,
                   rewound>>

\* send_dlq: without a producer, and when it fails, the request is dropped.
SendDlq ==
    /\ body = "dlq" /\ Finish
    /\ \/ producer /\ dead' = dead \cup {work} /\ UNCHANGED lost
       \/ lost' = lost \cup ({work} \ Decided) /\ UNCHANGED dead
    /\ UNCHANGED <<log, committed, results, position, status, producer, entered, starts, breaks,
                   rewound>>

\* The loop ends, with what the consumer commits; a request in its body that
\* has been committed is not delivered again.
Leave ==
    /\ work' = None /\ body' = "idle"
    /\ lost' = lost \cup {r \in {work} \ {None} :
                             r \notin Decided \cup dead /\ Behind(r, committed')}

\* The iterator raises, on a request that is no JSON or on a broken
\* connection; consumer.stop commits, or fails to, and the supervisor waits.
Raise ==
    /\ status = "running" /\ work = None
    /\ \/ /\ \E p \in Partition : Ready(p) /\ NextOf(p) \in Garbage
          /\ committed' = position /\ UNCHANGED breaks
       \/ /\ breaks < MaxBreaks /\ breaks' = breaks + 1
          /\ committed' \in {committed, position}
    /\ status' = "waiting" /\ Leave
    /\ UNCHANGED <<log, results, dead, position, producer, entered, starts, rewound>>

\* stop_consumer cancels the loop, whose consumer commits or fails to; the
\* worker thread runs to its end, and stop_producer follows.
StopService ==
    /\ status # "down" /\ status' = "down"
    /\ committed' \in IF status = "running" THEN {committed, position} ELSE {committed}
    /\ Leave /\ producer' = FALSE
    /\ entered' \in IF body = "thread" THEN {entered, [entered EXCEPT ![work] = @ + 1]}
                    ELSE {entered}
    /\ UNCHANGED <<log, results, dead, position, starts, breaks, rewound>>

\* The process dies.
CrashService ==
    /\ status # "down" /\ status' = "down"
    /\ UNCHANGED committed
    /\ Leave /\ producer' = FALSE
    /\ UNCHANGED <<log, results, dead, position, entered, starts, breaks, rewound>>

KafkaNext ==
    \/ \E r \in Message : Publish(r)
    \/ StartService \/ Connect \/ Commit
    \/ \E p \in Partition : Take(p)
    \/ Process \/ Send \/ SendDlq
    \/ Raise \/ StopService \/ CrashService

\* The process is started again (docker-compose), a connection is made, and the
\* loop goes on: its awaits end, each with an answer or a timeout.
KafkaFairness ==
    /\ WF_kafkaVars(StartService) /\ WF_kafkaVars(Connect)
    /\ WF_kafkaVars(\E p \in Partition : Take(p))
    /\ WF_kafkaVars(Process) /\ WF_kafkaVars(Send) /\ WF_kafkaVars(SendDlq)

KafkaSpec == KafkaInit /\ [][KafkaNext]_kafkaVars /\ KafkaFairness
-----------------------------------------------------------------------------
KafkaTypeOK ==
    /\ log \in [Partition -> Seq(Message)] /\ results \in Seq(Message)
    /\ dead \in SUBSET Message /\ lost \in SUBSET Message
    /\ committed \in [Partition -> Nat \cup {NoOffset}] /\ position \in [Partition -> Nat]
    /\ status \in {"down", "waiting", "running"} /\ producer \in BOOLEAN
    /\ work \in Message \cup {None} /\ body \in {"idle", "thread", "send", "dlq"}
    /\ work = None <=> body = "idle"
    /\ entered \in [Message -> Nat]
    /\ starts \in 0..MaxStarts /\ breaks \in 0..MaxBreaks /\ rewound \in BOOLEAN

\* A request has an outcome: a decision, or a dead letter, or it was dropped in
\* one of the ways the code knows of.
Accounted(r) == r \in Decided \cup dead \cup lost

\* The service never passes over a request in silence: behind the offsets that
\* it has committed, and behind its position, every request has an outcome,
\* but the one in the loop (W4-#4).
NoneSkipped ==
    \A r \in Message :
        /\ Behind(r, committed) => Accounted(r) \/ work = r
        /\ status = "running" /\ Behind(r, position) => Accounted(r) \/ work = r

\* A request enters its user's profile once, unless a start has gone back over
\* it (W5.5-#8, and the velocity rules that count the profile's entries).
EnteredOnce == ~rewound => \A r \in Message : entered[r] <= 1

\* The decisions of a partition, so of a user, come in the order of the
\* requests: before one that came later is decided the first time, one that
\* came earlier has been, unless it is dead or lost (W4-#7).
DecidedInOrder ==
    \A p \in Partition : \A i, j \in 1..Len(log[p]) : \A x \in 1..Len(results) :
        i < j /\ results[x] = log[p][j] =>
            \/ \E y \in 1..(x - 1) : results[y] = log[p][i]
            \/ log[p][i] \in dead \cup lost

\* A partition stands before a request that cannot be parsed: each connection
\* raises there anew.
Stuck == \E p \in Partition : position[p] < Len(log[p]) /\ NextOf(p) \in Garbage

\* Every request that is published gets an outcome in the end, over crashes,
\* stops and broken connections, unless a garbled one holds up the consumer or
\* the process is not started again.
RequestsSettle ==
    \A r \in Message :
        r \in Published ~> Accounted(r) \/ Stuck \/ (status = "down" /\ starts = MaxStarts)
=============================================================================
