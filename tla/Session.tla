------------------------------- MODULE Session -------------------------------
(***************************************************************************)
(* One client and the broker's session of it, connected by a byte stream   *)
(* in each direction: MQTTClientStateMachine and                           *)
(* MQTTBrokerClientStateMachine, driven as AsyncMQTTClient and             *)
(* AsyncMQTTBroker drive them.  AsyncMQTTBroker leaves the SUBSCRIBE       *)
(* packets to the application that embeds it; PUBREC and PUBREL it takes   *)
(* without an answer.                                                      *)
(*                                                                         *)
(* A step of a state machine is a step here as a whole.  What lies between *)
(* the steps is the hard part: packets queue in an out_buffer until a      *)
(* flush and in the stream until they are read, and the broker's I/O layer *)
(* handles the packets of one chunk (`inbox') only after feed_bytes has    *)
(* stepped its state machine through all of them.                          *)
(***************************************************************************)
EXTENDS Integers, SequencesExt

CONSTANTS
  MaxPacketId, Messages, Patterns, Matching,
  QoSLevels,       \* the QoS levels of the messages the client publishes
  DeliveryQoS,     \* the QoS levels of the messages the broker delivers
  DeliveryIds,     \* and their packet ids
  MaxPublishes,    \* bound on the messages the client publishes
  MaxInFlight,     \* bound on the requests an application has unanswered
  MaxDeliveries,   \* bound on the messages the broker delivers
  MaxRequests,     \* bound on subscribe() and unsubscribe() calls
  MaxConnects,     \* bound on the connections
  MaxBatch,        \* bound on the packets in one chunk
  SessionAnswers,  \* the session_present values the broker's I/O layer answers
  AwaitsSubAck     \* whether the application unsubscribes only when no SUBSCRIBE
                   \* for the pattern is pending, as AsyncMQTTClient's contexts do

ASSUME SessionAssumption ==
  /\ MaxPacketId \in Nat \ {0}
  /\ Matching \in [Messages -> SUBSET Patterns]
  /\ QoSLevels \subseteq 0 .. 2
  /\ DeliveryQoS \subseteq 0 .. 2
  /\ DeliveryIds \subseteq 1 .. MaxPacketId
  /\ SessionAnswers \subseteq BOOLEAN
  /\ AwaitsSubAck \in BOOLEAN
  /\ IsFiniteSet(Messages)
  /\ MaxPublishes \in 0 .. Cardinality(Messages)

VARIABLES
  c_state, c_pending, c_out, c_failure,
  c_next_packet_id, c_subscriptions, c_counts, c_maximum_qos,
  b_state, b_pending, b_out, b_failure, b_subscriptions,
  open,         \* whether the transport is open
  c2b, b2c,     \* the packets in the stream, in each direction
  phase,        \* where the broker's I/O layer is in its loop over the chunks it reads
  inbox,        \* the packets of the chunk that it has yet to handle
  connects, requests,      \* how many connections and (un)subscribe calls there were
  published, received,     \* what the application published, what the broker was given
  delivered, got           \* what the broker delivered, what the application was given

C == INSTANCE ClientStateMachine WITH
  AutoAck <- TRUE,
  state <- c_state, pending <- c_pending, out_buffer <- c_out, failure <- c_failure,
  next_packet_id <- c_next_packet_id, subscriptions <- c_subscriptions,
  subscription_counts <- c_counts, maximum_qos <- c_maximum_qos

B == INSTANCE BrokerClientStateMachine WITH
  AutoAck <- FALSE,
  state <- b_state, pending <- b_pending, out_buffer <- b_out, failure <- b_failure,
  subscriptions <- b_subscriptions

cVars     == <<c_state, c_pending, c_out, c_failure,
               c_next_packet_id, c_subscriptions, c_counts, c_maximum_qos>>
bVars     == <<b_state, b_pending, b_out, b_failure, b_subscriptions>>
streams   == <<c2b, b2c, phase, inbox>>
histories == <<published, received, delivered, got>>
vars == <<cVars, bVars, open, streams, connects, requests, histories>>

Init ==
  /\ C!Init
  /\ B!Init
  /\ open = FALSE
  /\ c2b = <<>> /\ b2c = <<>> /\ phase = "reading" /\ inbox = <<>>
  /\ connects = 0 /\ requests = 0
  /\ published = <<>> /\ received = <<>> /\ delivered = <<>> /\ got = <<>>

Publication(m, q) == [msg |-> m, qos |-> q]
Known(history) == {history[i].msg : i \in DOMAIN history}

-----------------------------------------------------------------------------
(* The client's application and I/O layer                                  *)

(* A transport is opened and CONNECT sent on it; the broker serves each    *)
(* transport with a session object of its own.                             *)
Open ==
  /\ ~open
  /\ connects < MaxConnects
  /\ C!Connect(TRUE)
  /\ open' = TRUE
  /\ connects' = connects + 1
  /\ b_state' = "DISCONNECTED" /\ b_pending' = <<>> /\ b_out' = <<>>
  /\ b_failure' = "none" /\ b_subscriptions' = {}
  /\ UNCHANGED <<streams, requests, histories>>

\* The transport is closed after the flush of DISCONNECT; what is in it is lost.
Close ==
  /\ open
  /\ c_state = "DISCONNECTED"
  /\ c_out = <<>>
  /\ open' = FALSE
  /\ c2b' = <<>> /\ b2c' = <<>> /\ phase' = "reading" /\ inbox' = <<>>
  /\ UNCHANGED <<cVars, bVars, connects, requests, histories>>

AppDisconnect ==
  /\ connects < MaxConnects
  /\ C!Disconnect
  /\ UNCHANGED <<bVars, open, streams, connects, requests, histories>>

\* Which of the messages that are left it publishes next makes no difference.
AppPublish ==
  /\ Len(published) < MaxPublishes
  /\ Len(c_pending) < MaxInFlight
  /\ LET m == CHOOSE m \in Messages : m \notin Known(published)
     IN  \E q \in QoSLevels :
           /\ C!Publish(m, q)
           /\ published' = Append(published, Publication(m, q))
  /\ UNCHANGED <<bVars, open, streams, connects, requests, received, delivered, got>>

\* No SUBSCRIBE for one of the patterns awaits its SUBACK.
SubscribesAnswered(S) ==
  \A i \in DOMAIN c_pending :
    c_pending[i].packet.type = "SUBSCRIBE" => c_pending[i].packet.patterns \cap S = {}

AppSubscriptions ==
  /\ requests < MaxRequests
  /\ Len(c_pending) < MaxInFlight
  /\ requests' = requests + 1
  /\ \E S \in (SUBSET Patterns) \ {{}} :
       \/ C!Subscribe(S)
       \/ /\ AwaitsSubAck => SubscribesAnswered(S)
          /\ C!Unsubscribe(S)
  /\ UNCHANGED <<bVars, open, streams, connects, histories>>

ClientFlush ==
  /\ open
  /\ C!Flush
  /\ c2b' = c2b \o c_out
  /\ UNCHANGED <<bVars, open, b2c, phase, inbox, connects, requests, histories>>

\* A client that has called disconnect() is taken to read no more.
ClientReceive ==
  /\ b2c # <<>>
  /\ c_state # "DISCONNECTED"
  /\ C!Receive(Head(b2c))
  /\ b2c' = Tail(b2c)
  /\ got' = IF Head(b2c).type = "PUBLISH"
              THEN Append(got, Publication(Head(b2c).msg, Head(b2c).qos))
              ELSE got
  /\ UNCHANGED <<bVars, open, c2b, phase, inbox, connects, requests,
                 published, received, delivered>>

-----------------------------------------------------------------------------
(* The broker's I/O layer                                                  *)

(* The loop: read a chunk, let feed_bytes step through its packets (MaxBatch *)
(* at most), handle them one by one, flush, read the next.  feed_bytes does  *)
(* not yield; in the other phases the tasks that serve other clients run,    *)
(* and may deliver to this one and flush.                                    *)
BrokerReceive ==
  /\ c2b # <<>>
  /\ phase \in {"reading", "feeding"}
  /\ Len(inbox) < MaxBatch
  /\ B!Receive(Head(c2b))
  /\ c2b' = Tail(c2b)
  /\ phase' = "feeding"
  /\ inbox' = Append(inbox, Head(c2b))
  /\ UNCHANGED <<cVars, open, b2c, connects, requests, histories>>

\* A session that is DISCONNECTED by now ends without a flush.
BrokerFlush ==
  /\ open
  /\ phase # "feeding"
  /\ b_state # "DISCONNECTED"
  /\ \/ /\ B!Flush
        /\ b2c' = b2c \o b_out
     \/ /\ b_out = <<>> /\ phase = "flushing"
        /\ UNCHANGED <<bVars, b2c>>
  /\ phase' = IF phase = "flushing" THEN "reading" ELSE phase
  /\ UNCHANGED <<cVars, open, c2b, inbox, connects, requests, histories>>

\* Mutant of Answer: a publish with QoS 2 is not acknowledged.
AnswerQos1(p) ==
  \/ /\ p.type = "CONNECT"
     /\ \E present \in SessionAnswers : B!AcknowledgeConnect("SUCCESS", present)
  \/ /\ p.type = "PUBLISH" /\ p.qos > 0
     /\ IF p.qos = 1 THEN B!AcknowledgePublish(p.packet_id, "SUCCESS") ELSE UNCHANGED bVars
     /\ UNCHANGED b_subscriptions

(* What handle_packet answers a packet with.  It has nothing but the       *)
(* packet to go by: whether the state machine has already answered it      *)
(* feed_bytes does not tell.                                               *)
Answer(p) ==
  \/ /\ p.type = "CONNECT"
     /\ \E present \in SessionAnswers : B!AcknowledgeConnect("SUCCESS", present)
  \/ /\ p.type = "PUBLISH" /\ p.qos > 0
     /\ B!AcknowledgePublish(p.packet_id, "SUCCESS")
     /\ UNCHANGED b_subscriptions

\* The embedding application grants every pattern of a SUBSCRIBE.
AnswerSubscribe(p) ==
  /\ p.type = "SUBSCRIBE"
  /\ B!AcknowledgeSubscribe(p.packet_id, [s \in Patterns |-> 0])

NeedsAnswer(p) ==
  \/ p.type \in {"CONNECT", "SUBSCRIBE"}
  \/ p.type = "PUBLISH" /\ p.qos > 0

\* _out_require_state refuses the answer.
AnswerRefused(p) ==
  /\ b_state # (IF p.type = "CONNECT" THEN "CONNECTING" ELSE "CONNECTED")
  /\ B!Fail
  /\ UNCHANGED b_subscriptions

BrokerHandle ==
  /\ inbox # <<>>
  /\ LET p == Head(inbox)
     IN  /\ IF NeedsAnswer(p)
              THEN Answer(p) \/ AnswerSubscribe(p) \/ AnswerRefused(p)
              ELSE UNCHANGED bVars
         /\ received' = IF p.type = "PUBLISH"
                          THEN Append(received, Publication(p.msg, p.qos))
                          ELSE received
  /\ inbox' = Tail(inbox)
  /\ phase' = IF inbox' = <<>> THEN "flushing" ELSE "handling"
  /\ UNCHANGED <<cVars, open, c2b, b2c, connects, requests, published, delivered, got>>

(* A message of another client, under a packet id that this session does   *)
(* not use.  handle_packet has acknowledged it to its publisher before, so *)
(* that it comes ACKNOWLEDGED; the publisher's PUBREL that moves it on to  *)
(* RELEASED is left out, a PUBREC finds it in the wrong state in either    *)
(* case.                                                                   *)
BrokerDeliver ==
  /\ phase # "feeding"
  /\ Len(delivered) < MaxDeliveries
  /\ \E m \in Messages \ Known(delivered), q \in DeliveryQoS, id \in DeliveryIds :
       /\ \A i \in DOMAIN b_pending : b_pending[i].packet.packet_id # id
       /\ B!DeliverPublish(m, q, id, "ACKNOWLEDGED")
       /\ delivered' = Append(delivered, Publication(m, q))
  /\ UNCHANGED <<cVars, open, streams, connects, requests, published, received, got>>

-----------------------------------------------------------------------------
Next ==
  /\ c_failure = "none" /\ b_failure = "none"
  /\ \/ Open
     \/ Close
     \/ AppDisconnect
     \/ AppPublish
     \/ AppSubscriptions
     \/ ClientFlush
     \/ ClientReceive
     \/ BrokerFlush
     \/ BrokerReceive
     \/ BrokerHandle
     \/ BrokerDeliver

(* The I/O layers flush after every packet they have handled and never     *)
(* stop reading (devguide.rst:73-84, 91-103); the application owes         *)
(* nothing, but that an embedding one answers each SUBSCRIBE.              *)
Proceed(A) == c_failure = "none" /\ b_failure = "none" /\ A

Fairness ==
  /\ WF_vars(Proceed(Open))
  /\ WF_vars(Proceed(Close))
  /\ WF_vars(Proceed(ClientFlush))
  /\ WF_vars(Proceed(ClientReceive))
  /\ WF_vars(Proceed(BrokerFlush))
  /\ WF_vars(Proceed(BrokerReceive))
  /\ WF_vars(Proceed(BrokerHandle))

Spec == Init /\ [][Next]_vars /\ Fairness

-----------------------------------------------------------------------------
(* Properties                                                              *)

(* "Raised when a violation of the MQTT v5 protocol is encountered"        *)
(* (_exceptions.py:43): as long as the broker delivers at QoS 0 and 1 and  *)
(* no QoS 2 handshake outlives its connection, two ends that the asyncio   *)
(* layers drive commit none, in whatever order the two directions, the     *)
(* calls and the flushes interleave.                                       *)
NoFailure == c_failure = "none" /\ b_failure = "none"


Carries(p, id) == "packet_id" \in DOMAIN p /\ p.packet_id = id

(* The packets of one exchange on its way: a flushed or unflushed packet,  *)
(* or one that the broker's I/O layer or the application that embeds it    *)
(* has yet to answer.                                                      *)
Tokens(id) ==
  LET queues == [c_out |-> c_out, c2b |-> c2b, inbox |-> inbox, b_out |-> b_out, b2c |-> b2c]
  IN  {t \in UNION {{place} \X DOMAIN queues[place] : place \in DOMAIN queues} :
         LET p == queues[t[1]][t[2]]
         IN  Carries(p, id) /\ (t[1] = "inbox" => NeedsAnswer(p))}

(* A QoS 2 publish whose PUBREL the broker has taken: AsyncMQTTBroker      *)
(* never calls complete_qos2_publish, so that no PUBCOMP comes.            *)
NeverCompleted(id) == \E i \in B!Slots(id) : B!Awaits(b_pending[i], "RELEASED")

(* While the client is connected each packet id that it has in use has     *)
(* exactly one packet on its way, and one that is free has none: a packet  *)
(* id is never given to a new request while an answer to an old one is     *)
(* still to come, and no request is left without an answer, unless it is a *)
(* QoS 2 publish that waits for its PUBCOMP only.  The guide promises      *)
(* "Keeping track of used packet IDs" (devguide.rst:41).  (The ids under   *)
(* which the broker delivers are the broker's.)                            *)
OneTokenPerRequest ==
  c_state = "CONNECTED" =>
    \A id \in (1 .. MaxPacketId) \ DeliveryIds :
      Cardinality(Tokens(id)) = (IF C!Slots(id) = {} \/ NeverCompleted(id) THEN 0 ELSE 1)

(* The handshake states of the two ends agree: the broker remembers a      *)
(* publish only as long as the client does, as the same message and at     *)
(* most one step apart.                                                    *)
HandshakesAgree ==
  open /\ c_state = "CONNECTED" =>
    \A i \in DOMAIN b_pending :
      LET e == b_pending[i]
      IN  ~e.own /\ e.packet.type = "PUBLISH" =>
            \E j \in DOMAIN c_pending :
              LET f == c_pending[j]
              IN  /\ f.own
                  /\ f.packet.packet_id = e.packet.packet_id
                  /\ f.packet.msg = e.packet.msg
                  /\ e.ack_state = "RELEASED" => f.ack_state = "RELEASED"
                  /\ f.ack_state = "RELEASED" => e.ack_state # "UNACKNOWLEDGED"

\* The first connection is not over.
First == connects = 0 \/ (connects = 1 /\ c_state # "DISCONNECTED")

\* Neither end has a request under the packet id, and the broker delivers
\* under others.
Unused(id) == id \notin DeliveryIds /\ C!Slots(id) = {} /\ B!Slots(id) = {}

(* A packet id that _generate_packet_id gives out is in use at neither     *)
(* end.  The code takes the next one without a look at _pending_packets    *)
(* (_base_client_state_machine.py:168): it is free as long as the ids go round   *)
(* more slowly than the requests are answered.                             *)
FreshIds ==
  [][First /\ (AppPublish \/ AppSubscriptions) /\ C!GeneratePacketId
       => Unused(c_next_packet_id)]_vars

Position(history, m) == CHOOSE i \in DOMAIN history : history[i].msg = m

(* The publishes that await an answer are in the order of the publish      *)
(* calls, which is the order a new connection resends them in.             *)
PendingInOrder ==
  \A i, j \in DOMAIN c_pending :
    /\ i < j
    /\ \A k \in {i, j} : c_pending[k].own /\ c_pending[k].packet.type = "PUBLISH"
    => Position(published, c_pending[i].packet.msg)
         < Position(published, c_pending[j].packet.msg)

\* Everything sent has been handled.
Quiescent == c_state = "CONNECTED" /\ c_out \o c2b \o inbox \o b_out \o b2c = <<>>

(* "Keeping track of the client's active subscriptions"                    *)
(* (devguide.rst:42): when everything sent has been handled the two ends   *)
(* agree on what the client is subscribed to, provided the application     *)
(* waits for the SUBACK before it unsubscribes (AwaitsSubAck): feed_bytes  *)
(* applies an UNSUBSCRIBE before a SUBSCRIBE that stands in front of it in *)
(* the same chunk.                                                         *)
SubscriptionsAgree == Quiescent => b_subscriptions = c_subscriptions

(* A message published with QoS 1 is received, and its publish             *)
(* acknowledged, also when the connection is given up in between: each     *)
(* reconnection resends it.  The broker's raise ends that (see             *)
(* RaisesAfterDisconnect).                                                 *)
EventuallyAcknowledged ==
  \A m \in Messages :
    (\E i \in DOMAIN published : published[i].msg = m /\ published[i].qos = 1)
      ~> \/ /\ m \in Known(received)
            /\ \A i \in DOMAIN c_pending : c_pending[i].packet.type = "PUBLISH"
                 => c_pending[i].packet.msg # m
         \/ b_failure # "none"

(* The messages of the own publishes in pending that the other end has not *)
(* answered, with a PUBACK or a PUBREC                                     *)
Unanswered(pending) ==
  {pending[i].packet.msg : i \in {k \in DOMAIN pending :
                                    /\ pending[k].own
                                    /\ pending[k].packet.type = "PUBLISH"
                                    /\ pending[k].ack_state # "RELEASED"}}

\* The publishes that were answered; of a QoS 2 publish the PUBCOMP may never come.
Acknowledged(history, pending) ==
  {x \in ToSet(history) : x.qos > 0 /\ x.msg \notin Unanswered(pending)}

Publishing == INSTANCE Delivery WITH
  acknowledged <- Acknowledged(published, c_pending)

Delivering == INSTANCE Delivery WITH
  QoSLevels <- DeliveryQoS,
  published <- delivered, received <- got,
  acknowledged <- Acknowledged(delivered, b_pending)

(* While the connection lasts what the client publishes arrives once and   *)
(* in order (Delivery), whatever the QoS, and a QoS 1 publish leaves       *)
(* _pending_packets and a QoS 2 publish becomes RELEASED only after its    *)
(* message has arrived, which is bound to happen.                          *)
PublishingDelivers == Publishing!Spec

(* The same of the messages that the broker delivers at QoS 0 and 1, while *)
(* the client's publishes and subscribe calls use the same table and       *)
(* streams.                                                                *)
DeliveringDelivers == Delivering!Spec

=============================================================================
