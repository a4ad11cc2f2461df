--------------------------- MODULE Notifications ---------------------------
(***************************************************************************)
(* Notifications of one user of the backend                                *)
(* (app/services/notification_service.py): a row in the session of the     *)
(* request, a message on the Redis channel notify:{user_id}, the           *)
(* subscriber that takes it and sends it to each WebSocket, and the direct *)
(* send where the publish fails.  The only caller is check_and_notify      *)
(* (app/services/emotion_engine.py) at the end of POST /v1/emotion/tag.    *)
(*                                                                         *)
(* A send suspends its task after each WebSocket.  It goes on over the     *)
(* list object it began with: connect adds to the object, disconnect puts  *)
(* a new one in its place.  The order of a list is left open.              *)
(***************************************************************************)
EXTENDS Naturals, Sequences, SequencesExt

CONSTANTS Note, Conn,
          MaxFaults   \* bound: times that Redis goes away or fails to reply

ASSUME NoteConstants == MaxFaults \in Nat /\ "subscriber" \notin Note

VARIABLES
    socket,     \* [Conn -> Socket]
    conns,      \* _connections[user_id]
    sending,    \* [Agent -> its send_to_user, if it is in one]
    redis,      \* whether Redis answers, whether the subscriber listens, what it has yet to take
    notePhase,      \* [Note -> how far its request is]
    row,        \* [Note -> its row in table notifications]
    faults,
    received,   \* history: [Conn -> [Note -> how often it came]]
    unsure,     \* history: notifications whose publish took effect and failed
    dropped     \* history: notifications that the subscriber lost with its connection

noteVars == <<socket, conns, sending, redis, notePhase, row, faults, received, unsure, dropped>>

Agent  == Note \cup {"subscriber"}
Socket == {"new", "open", "broken", "closed"}
NotePhase  == {"new", "direct", "ended"}
NoteRow    == {"none", "flushed", "committed"}

Sending == [busy : BOOLEAN, note : SUBSET Note, list : SUBSET Conn, shared : BOOLEAN, dead : SUBSET Conn]

\* shared: the list is still the one that connect appends to.
Idle == [busy |-> FALSE, note |-> {}, list |-> {}, shared |-> FALSE, dead |-> {}]

NoteInit ==
    /\ socket = [c \in Conn |-> "new"] /\ conns = {}
    /\ sending = [a \in Agent |-> Idle]
    /\ redis = [up |-> TRUE, listens |-> FALSE, queue |-> <<>>]
    /\ notePhase = [n \in Note |-> "new"] /\ row = [n \in Note |-> "none"]
    /\ faults = 0
    /\ received = [c \in Conn |-> [n \in Note |-> 0]]
    /\ unsure = {} /\ dropped = {}
-----------------------------------------------------------------------------
\* connect appends to the list, which the sends that hold it go on to.
Connect(c) ==
    /\ socket[c] = "new" /\ socket' = [socket EXCEPT ![c] = "open"]
    /\ conns' = conns \cup {c}
    /\ sending' = [a \in Agent |-> IF sending[a].shared
                                   THEN [sending[a] EXCEPT !.list = @ \cup {c}] ELSE sending[a]]
    /\ UNCHANGED <<redis, notePhase, row, faults, received, unsure, dropped>>

Mut_RemovedInPlace(s, gone) ==
    /\ conns' = conns \ gone
    /\ sending' = [a \in Agent |-> IF s[a].busy /\ s[a].list # {} /\ gone # {}
                                   THEN [s[a] EXCEPT !.list = @ \ {CHOOSE c \in @ : TRUE}] ELSE s[a]]

\* disconnect of each of them makes a new list; where none goes, none is made.
Unlist(s, gone) ==
    /\ conns' = conns \ gone
    /\ sending' = [a \in Agent |-> [s[a] EXCEPT !.shared = @ /\ gone = {}]]

\* The client goes; the handler of the WebSocket notices.
Break(c) ==
    /\ socket[c] = "open" /\ socket' = [socket EXCEPT ![c] = "broken"]
    /\ UNCHANGED <<conns, sending, redis, notePhase, row, faults, received, unsure, dropped>>

Disconnect(c) ==
    /\ socket[c] = "broken" /\ socket' = [socket EXCEPT ![c] = "closed"]
    /\ Unlist(sending, {c})
    /\ UNCHANGED <<redis, notePhase, row, faults, received, unsure, dropped>>
-----------------------------------------------------------------------------
\* send_to_user begins with the list as it is; without connections it is over.
Begin(n) == [busy |-> TRUE, note |-> {n}, list |-> conns, shared |-> conns # {}, dead |-> {}]

Enqueued(n) == [redis EXCEPT !.queue = IF redis.listens THEN Append(@, n) ELSE @]

\* The request ends: tag_emotion has committed its tag before it notifies, and
\* the session closes without another commit.
End(n) == notePhase' = [notePhase EXCEPT ![n] = "ended"] /\ row' = [row EXCEPT ![n] = "none"]

Mut_PublishedAndSent(n) ==
    /\ notePhase[n] = "new" /\ redis.up
    /\ redis' = Enqueued(n)
    /\ notePhase' = [notePhase EXCEPT ![n] = "direct"] /\ row' = [row EXCEPT ![n] = "flushed"]
    /\ sending' = [sending EXCEPT ![n] = Begin(n)]
    /\ UNCHANGED <<socket, conns, faults, received, unsure, dropped>>

\* The row is flushed, which fails where there is no such user, and published:
\* Redis hands the message to whoever listens.  A publish that fails, after it
\* has taken effect or before, makes the request send the message itself.
Publish(n) ==
    /\ notePhase[n] = "new"
    /\ \/ End(n) /\ UNCHANGED <<sending, redis, unsure, faults>>
       \/ redis.up /\ redis' = Enqueued(n) /\ End(n) /\ UNCHANGED <<sending, unsure, faults>>
       \/ /\ \/ ~redis.up /\ UNCHANGED <<redis, unsure, faults>>
             \/ /\ redis.up /\ faults < MaxFaults /\ faults' = faults + 1
                /\ redis' = Enqueued(n) /\ unsure' = unsure \cup {n}
          /\ notePhase' = [notePhase EXCEPT ![n] = "direct"] /\ row' = [row EXCEPT ![n] = "flushed"]
          /\ sending' = [sending EXCEPT ![n] = Begin(n)]
    /\ UNCHANGED <<socket, conns, received, dropped>>

\* The subscriber takes a message; one that has ended listens again.
Take ==
    /\ ~sending["subscriber"].busy /\ redis.queue # <<>>
    /\ redis' = [redis EXCEPT !.queue = Tail(@)]
    /\ sending' = [sending EXCEPT !["subscriber"] = Begin(Head(redis.queue))]
    /\ UNCHANGED <<socket, conns, notePhase, row, faults, received, unsure, dropped>>

Listen ==
    /\ ~sending["subscriber"].busy /\ redis.up /\ ~redis.listens
    /\ redis' = [redis EXCEPT !.listens = TRUE]
    /\ UNCHANGED <<socket, conns, sending, notePhase, row, faults, received, unsure, dropped>>

\* send_json to another of the list; one that fails is dead.
Send(a) ==
    /\ sending[a].busy
    /\ \E c \in sending[a].list :
        LET s == [sending EXCEPT ![a].list = @ \ {c}]
        IN  \/ /\ socket[c] = "open"
               /\ received' = [received EXCEPT ![c] =
                     [n \in Note |-> IF n \in sending[a].note THEN @[n] + 1 ELSE @[n]]]
               /\ sending' = s
            \/ /\ socket[c] # "open" /\ UNCHANGED received
               /\ sending' = [s EXCEPT ![a].dead = @ \cup {c}]
    /\ UNCHANGED <<socket, conns, redis, notePhase, row, faults, unsure, dropped>>

\* The end of send_to_user disconnects the dead.
EndSend(a) ==
    /\ sending[a].busy /\ sending[a].list = {}
    /\ Unlist([sending EXCEPT ![a] = Idle], sending[a].dead)
    /\ IF a \in Note THEN End(a) ELSE UNCHANGED <<notePhase, row>>
    /\ UNCHANGED <<socket, redis, faults, received, unsure, dropped>>

\* Redis goes away, and the subscriber's connection with what it had not taken.
Away ==
    /\ redis.up /\ faults < MaxFaults /\ faults' = faults + 1
    /\ redis' = [up |-> FALSE, listens |-> FALSE, queue |-> <<>>]
    /\ dropped' = dropped \cup ToSet(redis.queue)
    /\ UNCHANGED <<socket, conns, sending, notePhase, row, received, unsure>>

Back ==
    /\ ~redis.up /\ redis' = [redis EXCEPT !.up = TRUE]
    /\ UNCHANGED <<socket, conns, sending, notePhase, row, faults, received, unsure, dropped>>

SubscriberStep == Take \/ Send("subscriber") \/ EndSend("subscriber")

NoteNext ==
    \/ \E c \in Conn : Connect(c) \/ Break(c) \/ Disconnect(c)
    \/ \E n \in Note : Publish(n)
    \/ \E a \in Agent : Send(a) \/ EndSend(a)
    \/ Take \/ Listen \/ Away \/ Back

NoteSpec == NoteInit /\ [][NoteNext]_noteVars /\ WF_noteVars(SubscriberStep)
-----------------------------------------------------------------------------
NoteTypeOK ==
    /\ socket \in [Conn -> Socket] /\ conns \subseteq Conn
    /\ sending \in [Agent -> Sending]
    /\ redis \in [up : BOOLEAN, listens : BOOLEAN, queue : Seq(Note)]
    /\ notePhase \in [Note -> NotePhase] /\ row \in [Note -> NoteRow]
    /\ faults \in 0..MaxFaults
    /\ received \in [Conn -> [Note -> Nat]]
    /\ unsure \subseteq Note /\ dropped \subseteq Note

\* A connection gets a notification once, by the subscriber or directly, however
\* connections come and go during the sends: twice only where a publish took
\* effect and yet failed (the single path of create_and_push).
OncePerConnection ==
    \A c \in Conn, n \in Note : received[c][n] > 1 => n \in unsure

\* What the subscriber has yet to take reaches every connection that is open by
\* then and stays open, unless the subscriber loses it with Redis, whichever
\* other connections come, break and go meanwhile (the loop of send_to_user).
OpenIsReached ==
    \A c \in Conn, n \in Note :
        (socket[c] = "open" /\ n \in ToSet(redis.queue))
            ~> (received[c][n] > 0 \/ socket[c] # "open" \/ n \in dropped)

=============================================================================
