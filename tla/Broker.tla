-------------------------------- MODULE Broker --------------------------------
(***************************************************************************)
(* AsyncMQTTBroker around one MQTTBrokerStateMachine: a task per           *)
(* connection feeds its session's state machine, handles the packets,      *)
(* hands published messages to the sessions of other connections and       *)
(* flushes them, under each session's lock, from its own task group.       *)
(*                                                                         *)
(* A step is what one connection's task does between two points where it   *)
(* awaits; an authenticator or authorizer, a lock and a send() are such    *)
(* points.  No exception is caught: one that leaves serve_client ends the  *)
(* whole server, `crash' names it, and nothing happens afterwards.         *)
(*                                                                         *)
(* The clients keep to the protocol.  What AsyncMQTTBroker leaves to an    *)
(* application that embeds it (Embedded) is external: it registers the     *)
(* sessions it can flush and answers the SUBSCRIBE requests.               *)
(***************************************************************************)
EXTENDS Integers, FiniteSets, SequencesExt

CONSTANTS
  Connections,
  Client,          \* Client[c]: the client id in the CONNECT of connection c
  Request,         \* Request[c]: what c subscribes to, a set of [pattern, max_qos,
                   \* no_local]
  Publishers, Subscribers,   \* the connections that publish and subscribe
  Messages,        \* 1 .. n: the k-th PUBLISH of all clients carries message k
  Matching,        \* Matching[m]: the patterns that match message m
  Topic,           \* Topic[m]: its topic
  Retain,          \* Retain[m]: "no", "store" or "clear" (an empty payload)
  QoSLevels,       \* QoSLevels[m]: the QoS levels m may be published with
  Embedded,        \* whether an application completes the broker
  Refusals,        \* what an authenticator and an authorizer may answer
  Departures,      \* Departures[c]: what c may do of "unsubscribe", "disconnect",
                   \* "eof" and "partial"
  MaxBatch         \* MaxBatch[c]: bound on the packets of a chunk of c

ASSUME BrokerAssumption ==
  /\ Publishers \subseteq Connections /\ Subscribers \subseteq Connections
  /\ Embedded \in BOOLEAN
  /\ "SUCCESS" \in Refusals
  /\ \A c \in Connections :
       /\ Client[c] # "none"
       /\ \A x, y \in Request[c] : x.pattern = y.pattern => x = y
  /\ IsFiniteSet(Messages) /\ Messages = 1 .. Cardinality(Messages)
  /\ \A m \in Messages : Retain[m] \in {"no", "store", "clear"}

VARIABLES
  sm,              \* per connection: its MQTTBrokerClientStateMachine
  ack_state,       \* per message: that of its packet object, which sessions share
  table,           \* client_state_machines: from client ids to connections
  retained,        \* retained_messages: from topics to messages
  sessions,        \* _client_sessions: from client ids to connections
  phase,           \* per connection: where serve_client is
  inbox,           \* per connection: the packets of its chunk not yet handled
  lock,            \* per session: the lock's holder, then those that wait for it
  sending,         \* per session: what the lock's holder is sending
  client,          \* per connection: what its client did, and its next packet id
  received,        \* per connection: what its client received
  called,          \* how many PUBLISH packets the clients sent
  owed,            \* per connection: the messages its client can count on
  crash

sessionVars == <<sm, ack_state>>
brokerVars  == <<table, retained, sessions>>
ioVars      == <<phase, inbox, lock, sending>>
clientVars  == <<client, received, called>>
vars == <<sessionVars, brokerVars, ioVars, clientVars, owed, crash>>

NoClient == "none"

Publish(m, q, id) == [type |-> "PUBLISH", id |-> id, msg |-> m, qos |-> q]
Ack(type, id, reason) == [type |-> type, id |-> id, reason |-> reason]

Init ==
  /\ sm = [c \in Connections |-> [state |-> "DISCONNECTED", client |-> NoClient,
                                  pending |-> <<>>, subscriptions |-> {}, out |-> <<>>]]
  /\ ack_state = [m \in Messages |-> "UNACKNOWLEDGED"]
  /\ table = <<>> /\ retained = <<>> /\ sessions = <<>>
  /\ phase = [c \in Connections |-> "reading"]
  /\ inbox = [c \in Connections |-> <<>>]
  /\ lock = [c \in Connections |-> <<>>]
  /\ sending = [c \in Connections |-> <<>>]
  /\ client = [c \in Connections |-> [done |-> {}, answered |-> 0, sent |-> <<>>,
                                      next_id |-> 1]]
  /\ received = [c \in Connections |-> <<>>]
  /\ called = 0
  /\ owed = [c \in Connections |-> {}]
  /\ crash = "none"

-----------------------------------------------------------------------------
(* MQTTBrokerClientStateMachine, as functions from a session's state to    *)
(* the next one: what BrokerClientStateMachine says in full                *)

\* entries[key] = value
Put(entries, key, value) ==
  [x \in DOMAIN entries \cup {key} |-> IF x = key THEN value ELSE entries[x]]

Encode(s, p) == [s EXCEPT !.out = Append(@, p)]

Pop(s, id) == [s EXCEPT !.pending = Restrict(@, DOMAIN @ \ {id})]

\* What _add_pending_packet answers when the packet id is taken
InUse(p) ==
  Ack(CASE p.type # "PUBLISH" -> "SUBACK"
        [] p.type = "PUBLISH" /\ p.qos = 1 -> "PUBACK"
        [] p.type = "PUBLISH" /\ p.qos = 2 -> "PUBREC",
      p.id, "IN_USE")

\* A packet id is not taken by the same packet object.
AddPending(s, p) ==
  CASE p.id = 0 \/ (p.id \in DOMAIN s.pending /\ s.pending[p.id] = p) -> s
    [] p.id # 0 /\ p.id \notin DOMAIN s.pending ->
         [s EXCEPT !.pending = Put(@, p.id, p)]
    [] OTHER -> Encode(s, InUse(p))

Unsubscribe(s, p) ==
  IF p.id \in DOMAIN s.pending
    THEN AddPending(s, p)
    ELSE Encode([AddPending(s, p) EXCEPT
                   !.subscriptions = {x \in @ : x.pattern \notin p.patterns}],
                Ack("UNSUBACK", p.id, "SUCCESS"))

\* _handle_packet, but for the ack_state of a QoS 2 message
Receive(c, s, p) ==
  CASE p.type = "CONNECT"     -> [s EXCEPT !.state = "CONNECTING", !.client = Client[c]]
    [] p.type = "DISCONNECT"  -> [s EXCEPT !.state = "DISCONNECTED"]
    [] p.type \in {"PUBLISH", "SUBSCRIBE"} -> AddPending(s, p)
    [] p.type = "UNSUBSCRIBE" -> Unsubscribe(s, p)
    [] p.type = "PUBACK"      -> Pop(s, p.id)
    [] p.type \in {"PUBREC", "PUBREL"} /\ p.id \in DOMAIN s.pending -> s
    [] p.type = "PUBREC" /\ p.id \notin DOMAIN s.pending ->
         Encode(s, Ack("PUBREL", p.id, "NOT_FOUND"))
    [] p.type = "PUBREL" /\ p.id \notin DOMAIN s.pending ->
         Encode(s, Ack("PUBCOMP", p.id, "NOT_FOUND"))

\* The step of the QoS 2 handshake that p takes: the ack_state before and after
Acknowledges ==
  "PUBREC" :> <<"UNACKNOWLEDGED", "ACKNOWLEDGED">>
  @@ "PUBREL" :> <<"ACKNOWLEDGED", "RELEASED">>

Takes(s, p) == p.type \in DOMAIN Acknowledges /\ p.id \in DOMAIN s.pending

\* Mutant of Matches: no_local is not looked at.
MatchesEcho(s, source, p) ==
  \E x \in s.subscriptions : x.pattern \in Matching[p.msg] /\ p.qos <= x.max_qos

\* Mutant of Matches: a message of the maximum QoS is held back.
MatchesBelow(s, source, p) ==
  \E x \in s.subscriptions : /\ x.pattern \in Matching[p.msg] /\ p.qos < x.max_qos
                             /\ x.no_local => source # s.client

\* A subscription of session s takes the packet of client `source'.
Matches(s, source, p) ==
  \E x \in s.subscriptions : /\ x.pattern \in Matching[p.msg] /\ p.qos <= x.max_qos
                             /\ x.no_local => source # s.client

(* The packet is encoded once, with the packet id its publisher gave it,   *)
(* however many subscriptions match.                                       *)
Deliver(s, p) == AddPending(Encode(s, p), p)

-----------------------------------------------------------------------------
(* MQTTBrokerStateMachine: the tables                                      *)

\* client_disconnected
Removed(entries, id) == Restrict(entries, DOMAIN entries \ {id})

\* The sessions in the table, whatever has become of their connection
InTable == Range(table)

Retained(p) ==
  CASE Retain[p.msg] = "no"    -> retained
    [] Retain[p.msg] = "store" -> Put(retained, Topic[p.msg], p.msg)
    [] Retain[p.msg] = "clear" -> Restrict(retained, DOMAIN retained \ {Topic[p.msg]})

-----------------------------------------------------------------------------
(* serve_client: a chunk is fed to the state machine                       *)

Running == \E c \in Connections : phase[c] \in {"feeding", "handling"}

(* A packet of the client's next chunk.  A PUBREC or PUBREL that does not  *)
(* fit the ack_state of the message's packet object raises.                *)
Feed(c, p) ==
  /\ phase[c] = "feeding" \/ (phase[c] = "reading" /\ ~Running)
  /\ Len(inbox[c]) < MaxBatch[c]
  /\ phase' = [phase EXCEPT ![c] = "feeding"]
  /\ inbox' = [inbox EXCEPT ![c] = Append(@, p)]
  /\ sm' = [sm EXCEPT ![c] = Receive(c, @, p)]
  /\ \/ /\ ~Takes(sm[c], p)
        /\ UNCHANGED <<ack_state, crash>>
     \/ /\ Takes(sm[c], p)
        /\ LET m == sm[c].pending[p.id].msg
           IN  IF ack_state[m] = Acknowledges[p.type][1]
                 THEN /\ ack_state' = [ack_state EXCEPT ![m] = Acknowledges[p.type][2]]
                      /\ UNCHANGED crash
                 ELSE /\ crash' = "MQTTProtocolError"
                      /\ UNCHANGED ack_state
  /\ UNCHANGED <<brokerVars, lock, sending, received, owed>>

EndOfChunk(c) ==
  /\ phase[c] = "feeding"
  /\ phase' = [phase EXCEPT ![c] = "handling"]
  /\ UNCHANGED <<sessionVars, brokerVars, inbox, lock, sending, clientVars, owed, crash>>

-----------------------------------------------------------------------------
(* What the clients send                                                   *)

Got(c, type) == \E k \in DOMAIN received[c] : received[c][k].type = type

GotSuccess(c, type) ==
  \E p \in Range(received[c]) : p.type = type /\ p.reason = "SUCCESS"

Does(c, what) ==
  /\ what \notin client[c].done
  /\ client' = [client EXCEPT ![c].done = @ \cup {what}]
  /\ UNCHANGED <<received, called>>

\* A request takes the client's next packet id.
Requests(c, what) ==
  /\ what \notin client[c].done
  /\ client' = [client EXCEPT ![c].done = @ \cup {what}, ![c].next_id = @ + 1]
  /\ UNCHANGED <<received, called>>

Connected(c) == GotSuccess(c, "CONNACK") /\ "disconnect" \notin client[c].done

SendConnect(c) == Does(c, "connect") /\ Feed(c, [type |-> "CONNECT"])

SendSubscribe(c) ==
  /\ Connected(c) /\ c \in Subscribers
  /\ Requests(c, "subscribe")
  /\ Feed(c, [type |-> "SUBSCRIBE", id |-> client[c].next_id,
              subscriptions |-> Request[c]])

SendUnsubscribe(c) ==
  /\ "unsubscribe" \in Departures[c]
  /\ Connected(c) /\ Got(c, "SUBACK")
  /\ Requests(c, "unsubscribe")
  /\ Feed(c, [type |-> "UNSUBSCRIBE", id |-> client[c].next_id,
              patterns |-> {x.pattern : x \in Request[c]}])

SendPublish(c, q) ==
  /\ Connected(c) /\ c \in Publishers
  /\ called < Cardinality(Messages)
  /\ called' = called + 1
  /\ q \in QoSLevels[called']
  /\ \/ /\ q = 0
        /\ Feed(c, Publish(called', 0, 0))
        /\ client' = [client EXCEPT ![c].sent = Put(@, called', 0)]
     \/ /\ q > 0
        /\ Feed(c, Publish(called', q, client[c].next_id))
        /\ client' = [client EXCEPT ![c].sent = Put(@, called', client[c].next_id),
                                    ![c].next_id = @ + 1]
  /\ UNCHANGED received

Answer(p) ==
  CASE p.type = "PUBLISH" /\ p.qos = 1 -> {Ack("PUBACK", p.id, "SUCCESS")}
    [] p.type = "PUBLISH" /\ p.qos = 2 -> {Ack("PUBREC", p.id, "SUCCESS")}
    [] p.type = "PUBREC"                -> {Ack("PUBREL", p.id, "SUCCESS")}
    [] OTHER                            -> {}

\* The answer to the first packet the client got and has not answered
SendAnswer(c) ==
  /\ Connected(c)
  /\ LET answers == [k \in DOMAIN received[c] |-> Answer(received[c][k])]
     IN  \E k \in DOMAIN answers : \E p \in answers[k] :
           /\ \A j \in client[c].answered + 1 .. k - 1 : answers[j] = {}
           /\ k > client[c].answered
           /\ client' = [client EXCEPT ![c].answered = k]
           /\ Feed(c, p)
  /\ UNCHANGED <<received, called>>

SendDisconnect(c) ==
  /\ "disconnect" \in Departures[c]
  /\ Connected(c)
  /\ Does(c, "disconnect")
  /\ Feed(c, [type |-> "DISCONNECT"])

-----------------------------------------------------------------------------
(* handle_packet                                                           *)

NextPacket(c) ==
  /\ phase' = [phase EXCEPT ![c] = "handling"]
  /\ inbox' = [inbox EXCEPT ![c] = Tail(@)]

\* A PUBLISH or CONNECT packet waits for the authorizers or authenticators.
Ask(c) ==
  /\ phase[c] = "handling" /\ inbox[c] # <<>>
  /\ Head(inbox[c]).type \in {"PUBLISH", "CONNECT"}
  /\ phase' = [phase EXCEPT ![c] = "asking"]
  /\ UNCHANGED <<sessionVars, brokerVars, inbox, lock, sending, clientVars, owed, crash>>

(* The session goes into the table whatever the answer.  An embedding      *)
(* application registers the session for flushing when it is accepted.     *)
AuthorizeConnect(c, reason) ==
  /\ phase[c] = "asking"
  /\ Head(inbox[c]).type = "CONNECT"
  /\ sm' = [sm EXCEPT ![c] =
              [Encode(@, Ack("CONNACK", 0, reason)) EXCEPT
                 !.state = IF reason = "SUCCESS" THEN "CONNECTED" ELSE "DISCONNECTED"]]
  /\ table' = Put(table, sm[c].client, c)
  /\ sessions' = IF Embedded /\ reason = "SUCCESS" THEN Put(sessions, sm[c].client, c)
                                                   ELSE sessions
  /\ NextPacket(c)
  /\ UNCHANGED <<ack_state, retained, lock, sending, clientVars, owed, crash>>

\* Mutant of Acknowledge: a refused message is not answered.
AcknowledgeAccepted(s, p, reason) ==
  CASE p.qos = 0 \/ reason # "SUCCESS" -> s
    [] p.qos = 1 /\ reason = "SUCCESS" -> Encode(Pop(s, p.id), Ack("PUBACK", p.id, reason))
    [] p.qos = 2 /\ reason = "SUCCESS" -> Encode(s, Ack("PUBREC", p.id, reason))

\* acknowledge_publish: a QoS 2 message stays in pending.
Acknowledge(s, p, reason) ==
  CASE p.qos = 0 -> s
    [] p.qos = 1 -> Encode(Pop(s, p.id), Ack("PUBACK", p.id, reason))
    [] p.qos = 2 -> Encode(s, Ack("PUBREC", p.id, reason))

Acknowledgeable(s, p) ==
  p.qos > 0 => /\ s.state = "CONNECTED"
               /\ p.id \in DOMAIN s.pending /\ s.pending[p.id].type = "PUBLISH"

\* The sessions that take the packet, once its publisher has been answered
Recipients(c, p) == {s \in InTable : Matches(sm[s], sm[c].client, p)}

(* What the client of s can count on, from what it was told.  Messages     *)
(* above the maximum QoS of its subscription are to be downgraded          *)
(* (async_client.py:537), so that it can count on those too.               *)
Counts(s, c, p) ==
  /\ GotSuccess(s, "SUBACK") /\ {"unsubscribe", "disconnect"} \cap client[s].done = {}
  /\ phase[s] # "ended"
  /\ \E x \in Request[s] :
       /\ x.pattern \in Matching[p.msg]
       /\ x.no_local => Client[s] # Client[c]

(* The publisher is answered, and an accepted message goes to every        *)
(* session in the table.  One that is not connected makes deliver_publish  *)
(* raise, one that is not registered the look-up in _client_sessions; what *)
(* was encoded before is not sent any more.  The recipients are flushed by *)
(* this connection's task group.                                           *)
AuthorizePublish(c, reason) ==
  /\ phase[c] = "asking"
  /\ LET p  == Head(inbox[c])
         to == Recipients(c, p)
     IN  /\ p.type = "PUBLISH"
         /\ \/ /\ ~Acknowledgeable(sm[c], p)
               /\ crash' = "MQTTProtocolError"
               /\ UNCHANGED <<sessionVars, retained, phase, inbox, lock, owed>>
            \/ /\ Acknowledgeable(sm[c], p)
               /\ ack_state' = IF p.qos = 0 THEN ack_state
                                            ELSE [ack_state EXCEPT ![p.msg] = "ACKNOWLEDGED"]
               /\ \/ /\ reason # "SUCCESS"
                     /\ sm' = [sm EXCEPT ![c] = Acknowledge(@, p, reason)]
                     /\ NextPacket(c)
                     /\ UNCHANGED <<retained, lock, owed, crash>>
                  \/ /\ reason = "SUCCESS"
                     /\ retained' = Retained(p)
                     /\ \E s \in InTable : sm[s].state # "CONNECTED"
                     /\ crash' = "MQTTProtocolError"
                     /\ UNCHANGED <<sm, phase, inbox, lock, owed>>
                  \/ /\ reason = "SUCCESS"
                     /\ retained' = Retained(p)
                     /\ \A s \in InTable : sm[s].state = "CONNECTED"
                     /\ sm' = [s \in Connections |->
                          LET own == IF s = c THEN Acknowledge(sm[s], p, reason) ELSE sm[s]
                          IN  IF s \in to THEN Deliver(own, p) ELSE own]
                     /\ owed' = [s \in Connections |->
                          IF Counts(s, c, p) THEN owed[s] \cup {p.msg} ELSE owed[s]]
                     /\ \/ /\ {sm[s].client : s \in to} \subseteq DOMAIN sessions
                           /\ phase' = [phase EXCEPT ![c] = "publishing"]
                           /\ lock' = [s \in Connections |->
                                IF s \in {sessions[sm[x].client] : x \in to}
                                  THEN Append(lock[s], c) ELSE lock[s]]
                           /\ UNCHANGED crash
                        \/ /\ ~({sm[s].client : s \in to} \subseteq DOMAIN sessions)
                           /\ crash' = "KeyError"
                           /\ UNCHANGED <<phase, lock>>
                     /\ UNCHANGED inbox
  /\ UNCHANGED <<table, sessions, sending, clientVars>>

\* Mutant of Published: the task group is left while its flushes go on.
PublishedEarly(c) ==
  /\ phase[c] = "publishing"
  /\ NextPacket(c)
  /\ UNCHANGED <<sessionVars, brokerVars, lock, sending, clientVars, owed, crash>>

\* The task group is left when its last flush is done.
Published(c) ==
  /\ phase[c] = "publishing"
  /\ \A s \in Connections : c \notin Range(lock[s])
  /\ NextPacket(c)
  /\ UNCHANGED <<sessionVars, brokerVars, lock, sending, clientVars, owed, crash>>

\* External: an embedding application grants the SUBSCRIBE p.
Grant(s, p) ==
  LET patterns == {x.pattern : x \in p.subscriptions}
  IN  [Encode(Pop(s, p.id), Ack("SUBACK", p.id, "SUCCESS")) EXCEPT
         !.subscriptions = {x \in @ : x.pattern \notin patterns} \cup p.subscriptions]

AnswerSubscribe(c) ==
  /\ Embedded
  /\ phase[c] = "handling" /\ inbox[c] # <<>>
  /\ LET p == Head(inbox[c])
     IN  /\ p.type = "SUBSCRIBE"
         /\ p.id \in DOMAIN sm[c].pending
         /\ sm[c].pending[p.id] = p
         /\ sm' = [sm EXCEPT ![c] = Grant(@, p)]
  /\ NextPacket(c)
  /\ UNCHANGED <<ack_state, brokerVars, lock, sending, clientVars, owed, crash>>

(* The other packets need nothing but what the state machine has done.  A  *)
(* DISCONNECT would leave the table, were the state not DISCONNECTED by    *)
(* then.                                                                   *)
Skip(c) ==
  /\ phase[c] = "handling" /\ inbox[c] # <<>>
  /\ LET p == Head(inbox[c])
     IN  /\ p.type \notin {"PUBLISH", "CONNECT"}
         /\ p.type = "SUBSCRIBE" /\ Embedded =>
              ~(p.id \in DOMAIN sm[c].pending /\ sm[c].pending[p.id] = p)
         /\ table' = IF p.type = "DISCONNECT" /\ sm[c].state = "CONNECTED"
                       THEN Removed(table, sm[c].client) ELSE table
  /\ NextPacket(c)
  /\ UNCHANGED <<sessionVars, retained, sessions, lock, sending, clientVars, owed, crash>>

(* After the chunk: a session that is DISCONNECTED, by a refusal or by the *)
(* client, is left without a flush and without client_disconnected.        *)
Finish(c) ==
  /\ phase[c] = "handling" /\ inbox[c] = <<>>
  /\ \/ /\ sm[c].state = "DISCONNECTED"
        /\ phase' = [phase EXCEPT ![c] = "ended"]
        /\ UNCHANGED lock
     \/ /\ sm[c].state # "DISCONNECTED"
        /\ phase' = [phase EXCEPT ![c] = "flushing"]
        /\ lock' = [lock EXCEPT ![c] = Append(@, c)]
  /\ UNCHANGED <<sessionVars, brokerVars, inbox, sending, clientVars, owed, crash>>

-----------------------------------------------------------------------------
(* flush_outbound_data                                                     *)

\* The lock's holder is done; its own loop goes on if that is what it flushed for.
Release(s) ==
  /\ lock' = [lock EXCEPT ![s] = Tail(@)]
  /\ phase' = IF Head(lock[s]) = s /\ phase[s] = "flushing"
                THEN [phase EXCEPT ![s] = "reading"] ELSE phase

\* Mutant of TakeOutbound: without the lock, later data overtakes what is being sent.
TakeOutboundUnlocked(s) ==
  /\ lock[s] # <<>>
  /\ \/ /\ sm[s].out = <<>> /\ sending[s] = <<>>
        /\ Release(s)
        /\ UNCHANGED <<sm, sending>>
     \/ /\ sm[s].out # <<>>
        /\ sending' = [sending EXCEPT ![s] = sm[s].out \o @]
        /\ sm' = [sm EXCEPT ![s].out = <<>>]
        /\ UNCHANGED <<lock, phase>>
  /\ UNCHANGED <<ack_state, brokerVars, inbox, clientVars, owed, crash>>

TakeOutbound(s) ==
  /\ lock[s] # <<>> /\ sending[s] = <<>>
  /\ \/ /\ sm[s].out = <<>>
        /\ Release(s)
        /\ UNCHANGED <<sm, sending>>
     \/ /\ sm[s].out # <<>>
        /\ sending' = [sending EXCEPT ![s] = sm[s].out]
        /\ sm' = [sm EXCEPT ![s].out = <<>>]
        /\ UNCHANGED <<lock, phase>>
  /\ UNCHANGED <<ack_state, brokerVars, inbox, clientVars, owed, crash>>

SendOutbound(s) ==
  /\ sending[s] # <<>>
  /\ \/ /\ phase[s] # "ended"
        /\ received' = [received EXCEPT ![s] = @ \o sending[s]]
        /\ sending' = [sending EXCEPT ![s] = <<>>]
        /\ Release(s)
        /\ UNCHANGED crash
     \/ /\ phase[s] = "ended"
        /\ crash' = "ClosedResourceError"
        /\ UNCHANGED <<received, sending, lock, phase>>
  /\ UNCHANGED <<sessionVars, brokerVars, inbox, client, called, owed>>

-----------------------------------------------------------------------------
(* How a connection ends                                                   *)

(* The client closes its end.  client_disconnected is called when the      *)
(* state is DISCONNECTED, which it is only before a CONNECT: there is no   *)
(* client id then to read.                                                 *)
EndOfStream(c) ==
  /\ "eof" \in Departures[c]
  /\ phase[c] = "reading"
  /\ phase' = [phase EXCEPT ![c] = "ended"]
  /\ crash' = IF sm[c].state = "DISCONNECTED" /\ sm[c].client = NoClient
                THEN "AttributeError" ELSE crash
  /\ table' = IF sm[c].state = "DISCONNECTED" THEN Removed(table, sm[c].client) ELSE table
  /\ UNCHANGED <<sessionVars, retained, sessions, inbox, lock, sending, clientVars, owed>>

\* A chunk that ends inside the CONNECT packet leaves the state DISCONNECTED.
FeedPartialConnect(c) ==
  /\ "partial" \in Departures[c]
  /\ phase[c] = "reading"
  /\ Does(c, "connect")
  /\ phase' = [phase EXCEPT ![c] = "ended"]
  /\ UNCHANGED <<sessionVars, brokerVars, inbox, lock, sending, owed, crash>>

(* External: an embedding application removes the session that has ended.  *)
(* It leaves _client_sessions, and is put into the table once more.        *)
RemoveSession(c) ==
  /\ Embedded
  /\ phase[c] = "ended"
  /\ sm[c].client \in DOMAIN sessions /\ sessions[sm[c].client] = c
  /\ table' = Put(table, sm[c].client, c)
  /\ sessions' = Restrict(sessions, DOMAIN sessions \ {sm[c].client})
  /\ UNCHANGED <<sessionVars, retained, ioVars, clientVars, owed, crash>>

-----------------------------------------------------------------------------
Alive   == crash = "none"
Yielded == Alive /\ ~Running

\* What the task of c does before it awaits again
Handle(c) ==
  \/ EndOfChunk(c)
  \/ Ask(c)
  \/ AnswerSubscribe(c)
  \/ Skip(c)
  \/ Finish(c)

ClientSends(c) ==
  \/ SendConnect(c) \/ SendSubscribe(c) \/ SendUnsubscribe(c) \/ SendDisconnect(c)
  \/ \E q \in 0 .. 2 : SendPublish(c, q)
  \/ SendAnswer(c)

Resume(c) ==
  \/ \E reason \in Refusals : AuthorizeConnect(c, reason) \/ AuthorizePublish(c, reason)
  \/ Published(c)

Flush(c) == TakeOutbound(c) \/ SendOutbound(c)

Leave(c) == EndOfStream(c) \/ FeedPartialConnect(c) \/ RemoveSession(c)

Next ==
  /\ Alive
  /\ \E c \in Connections :
       \/ Handle(c)
       \/ ClientSends(c)
       \/ ~Running /\ (Resume(c) \/ Flush(c) \/ Leave(c))

(* The event loop runs every task that is ready, authorizers answer, and   *)
(* the clients read what is sent to them.  Nothing makes a client send.    *)
Fairness ==
  \A c \in Connections : /\ WF_vars(Alive /\ Handle(c))
                         /\ WF_vars(Yielded /\ Resume(c))
                         /\ WF_vars(Yielded /\ Flush(c))

Spec == Init /\ [][Next]_vars
FairSpec == Spec /\ Fairness

-----------------------------------------------------------------------------
(* Properties                                                              *)

Packet(p) ==
  CASE p.type \in {"CONNECT", "DISCONNECT"} -> DOMAIN p = {"type"}
    [] p.type \in {"SUBSCRIBE", "UNSUBSCRIBE"} -> p.id \in Nat \ {0}
    [] p.type = "PUBLISH" -> p.msg \in Messages /\ p.qos \in 0 .. 2 /\ (p.id = 0 <=> p.qos = 0)
    [] OTHER -> p.id \in Nat /\ p.reason \in Refusals \cup {"IN_USE", "NOT_FOUND"}

IsMessage(p) == p.type = "PUBLISH"

(* Every variable has its type; both tables hold a session under the       *)
(* client id it has taken from its CONNECT, and nobody queues twice for a  *)
(* session's lock.                                                         *)
TypeOK ==
  /\ \A c \in Connections :
       /\ sm[c].state \in {"DISCONNECTED", "CONNECTING", "CONNECTED"}
       /\ sm[c].client \in {NoClient, Client[c]}
       /\ \A id \in DOMAIN sm[c].pending : /\ Packet(sm[c].pending[id])
                                           /\ sm[c].pending[id].id = id
       /\ \A p \in Range(sm[c].out \o sending[c] \o received[c] \o inbox[c]) : Packet(p)
       /\ phase[c] \in {"reading", "feeding", "handling", "asking", "publishing",
                        "flushing", "ended"}
       /\ IsInjective(lock[c])
  /\ \A id \in DOMAIN table : sm[table[id]].client = id
  /\ \A id \in DOMAIN sessions : sm[sessions[id]].client = id
  /\ Range(retained) \subseteq Messages

(* Any two subscribers that get the same messages get them in the same     *)
(* order, each once, though every publisher's task group flushes every     *)
(* subscriber on its own.  (With s = t: no message comes twice.)           *)
SameOrder ==
  \A s, t \in Connections :
    \A i, j \in DOMAIN received[s], k, l \in DOMAIN received[t] :
      /\ i < j
      /\ IsMessage(received[s][i]) /\ IsMessage(received[s][j])
      /\ IsMessage(received[t][k]) /\ IsMessage(received[t][l])
      /\ received[s][i].msg = received[t][k].msg
      /\ received[s][j].msg = received[t][l].msg
      => k < l

(* Whatever asks for a message is served by a subscription whose maximum   *)
(* QoS the message keeps to.  What is above it is not delivered, though    *)
(* the client's documentation and tests expect a downgrade.                *)
WithinMaxQoS ==
  \A s \in Connections, m \in Messages :
    \A q \in QoSLevels[m], x \in Request[s] :
      x.pattern \in Matching[m] =>
        \E y \in Request[s] :
          /\ y.pattern \in Matching[m]
          /\ q <= y.max_qos
          /\ y.no_local => x.no_local

\* What the client of session s has got or will get
Outbound(s) == received[s] \o sending[s] \o sm[s].out

(* A client that was told of its subscription, has not given it up and     *)
(* whose client id no other connection has used since, gets every message  *)
(* that is accepted from then on and matches: it has it, or it is in the   *)
(* session's outbound data.  The server's end, by an exception, ends the   *)
(* promise.  It is kept where WithinMaxQoS holds and not for a message     *)
(* above the maximum QoS.                                                  *)
SubscribersGetAll ==
  Alive =>
    \A s \in Connections :
      phase[s] # "ended" /\ s \in InTable =>
        \A m \in owed[s] :
          \E k \in DOMAIN Outbound(s) : IsMessage(Outbound(s)[k]) /\ Outbound(s)[k].msg = m

(* A client gets only what it has asked for: some subscription of its own  *)
(* matches the message and its QoS, and is not one with no_local if the    *)
(* message is its own.  It gets nothing more after the UNSUBACK.           *)
OnlyWhatIsAsked ==
  \A s \in Connections :
    \A k \in DOMAIN received[s] :
      LET p == received[s][k]
      IN  IsMessage(p) =>
            /\ \E x \in Request[s] :
                 /\ x.pattern \in Matching[p.msg]
                 /\ p.qos <= x.max_qos
                 /\ x.no_local => p.msg \notin DOMAIN client[s].sent
            /\ \A j \in 1 .. k - 1 : received[s][j].type # "UNSUBACK"

(* A client that publishes with QoS 1 or 2 gets its answer, whoever else   *)
(* holds the locks that its task group waits for.                          *)
PublishIsAnswered ==
  \A m \in Messages :
    (\E c \in Publishers : m \in DOMAIN client[c].sent /\ client[c].sent[m] > 0)
      ~> \/ ~Alive
         \/ \E c \in Publishers :
              /\ m \in DOMAIN client[c].sent
              /\ \/ phase[c] = "ended"
                 \/ \E p \in Range(received[c]) :
                      p.type \in {"PUBACK", "PUBREC"} /\ p.id = client[c].sent[m]

(* "Deliver a PUBLISH message to this client if the current state allows   *)
(* it" (broker_state_machine.py:165): a session that is not connected any  *)
(* more does not make publish() raise.                                     *)
DeliverDoesNotRaise == crash # "MQTTProtocolError"

=============================================================================
