---------------------- MODULE BrokerClientStateMachine ----------------------
(***************************************************************************)
(* MQTTBrokerClientStateMachine: the broker's end of one client's session. *)
(* Spec lets the broker's I/O layer make every call it may, the network    *)
(* deliver every packet, and the sessions that share a packet object move  *)
(* its handshake.                                                          *)
(*                                                                         *)
(* Which subscriptions match a message is a constant here.  The messages   *)
(* delivered are those of other clients, which no_local never holds back.  *)
(***************************************************************************)
EXTENDS BaseStateMachine

CONSTANT Matching   \* Matching[m]: the patterns whose subscription matches m

ASSUME MatchingAssumption == Matching \in [Messages -> SUBSET Patterns]
ASSUME BrokerSessionAssumption == ~AutoAck

VARIABLE subscriptions   \* the patterns that are keys of _subscriptions

vars == <<baseVars, subscriptions>>

Init ==
  /\ state = "DISCONNECTED"
  /\ pending = <<>>
  /\ out_buffer = <<>>
  /\ failure = "none"
  /\ subscriptions = {}

-----------------------------------------------------------------------------
(* _handle_packet                                                          *)

BrokerAccepting ==
  [type \in DOMAIN BaseAccepting \cup {"CONNECT", "PINGREQ", "SUBSCRIBE", "UNSUBSCRIBE"} |->
     IF type \in DOMAIN BaseAccepting THEN BaseAccepting[type]
     ELSE IF type = "CONNECT" THEN {"DISCONNECTED"} ELSE {"CONNECTED"}]

ReceiveConnect(p) ==
  /\ p.type = "CONNECT"
  /\ state' = "CONNECTING"
  /\ UNCHANGED <<pending, out_buffer, failure, subscriptions>>

ReceivePingReq(p) ==
  /\ p.type = "PINGREQ"
  /\ Send(Signal("PINGRESP"))
  /\ UNCHANGED <<state, pending, failure, subscriptions>>

ReceiveSubscribe(p) ==
  /\ p.type = "SUBSCRIBE"
  /\ AddPending(p, FALSE)
  /\ UNCHANGED <<state, failure, subscriptions>>

\* Mutant of ReceiveUnsubscribe: the subscription is not deleted.
ReceiveUnsubscribeKeeping(p) ==
  /\ p.type = "UNSUBSCRIBE"
  /\ \/ /\ Slots(p.packet_id) # {}
        /\ AddPending(p, FALSE)
     \/ /\ Slots(p.packet_id) = {}
        /\ pending' = Append(pending, Entry(p, FALSE))
        /\ Send(Ack("UNSUBACK", p.packet_id, "SUCCESS"))
  /\ UNCHANGED <<state, failure, subscriptions>>

\* The request is answered at once and stays in pending.
ReceiveUnsubscribe(p) ==
  /\ p.type = "UNSUBSCRIBE"
  /\ \/ /\ Slots(p.packet_id) # {}
        /\ AddPending(p, FALSE)
        /\ UNCHANGED subscriptions
     \/ /\ Slots(p.packet_id) = {}
        /\ pending' = Append(pending, Entry(p, FALSE))
        /\ subscriptions' = subscriptions \ p.patterns
        /\ Send(Ack("UNSUBACK", p.packet_id, "SUCCESS"))
  /\ UNCHANGED <<state, failure>>

ReceiveAccepted(p) ==
  /\ Accepts(BrokerAccepting, p)
  /\ \/ ReceiveBase(p) /\ UNCHANGED subscriptions
     \/ ReceiveConnect(p)
     \/ ReceivePingReq(p)
     \/ ReceiveSubscribe(p)
     \/ ReceiveUnsubscribe(p)

ReceiveRefused(p) ==
  /\ ~Accepts(BrokerAccepting, p)
  /\ Fail
  /\ UNCHANGED subscriptions

Receive(p) == ReceiveAccepted(p) \/ ReceiveRefused(p)

-----------------------------------------------------------------------------
(* The calls of the broker's I/O layer                                     *)

AcknowledgeConnect(reason, session_present) ==
  /\ state = "CONNECTING"
  /\ state' = IF reason = "SUCCESS" THEN "CONNECTED" ELSE "DISCONNECTED"
  /\ Send([type |-> "CONNACK", reason |-> reason, session_present |-> session_present,
           maximum_qos |-> 2])
  /\ UNCHANGED <<pending, failure, subscriptions>>

\* Mutant of AcknowledgeSubscribe: refused subscriptions are recorded too.
AcknowledgeSubscribeAll(id, granted) ==
  /\ state = "CONNECTED"
  /\ \/ Slots(id) = {} /\ Fail /\ UNCHANGED subscriptions
     \/ \E i \in Slots(id) :
          LET request == pending[i].packet
          IN  /\ request.type = "SUBSCRIBE"
              /\ pending' = RemoveAt(pending, i)
              /\ subscriptions' = subscriptions \cup request.patterns
              /\ Send(SubAck(id, {p \in request.patterns : granted[p] >= 0}))
              /\ UNCHANGED <<state, failure>>

(* granted[p] is the QoS that is granted for pattern p, or -1 for a reason *)
(* code that refuses it.  Only the code 0x00, which grants QoS 0, makes    *)
(* the subscription.                                                       *)
AcknowledgeSubscribe(id, granted) ==
  /\ state = "CONNECTED"
  /\ \/ Slots(id) = {} /\ Fail /\ UNCHANGED subscriptions
     \/ \E i \in Slots(id) :
          LET request == pending[i].packet
          IN  /\ request.type = "SUBSCRIBE"
              /\ pending' = RemoveAt(pending, i)
              /\ subscriptions' =
                   subscriptions \cup {p \in request.patterns : granted[p] = 0}
              /\ Send(SubAck(id, {p \in request.patterns : granted[p] >= 0}))
              /\ UNCHANGED <<state, failure>>
     \/ \E i \in Slots(id) :
          /\ pending[i].packet.type # "SUBSCRIBE"
          /\ pending' = RemoveAt(pending, i)
          /\ failure' = "MQTTProtocolError"
          /\ UNCHANGED <<state, out_buffer, subscriptions>>

\* Mutant of DeliverPublish: a QoS 0 message is added to pending as well.
DeliverPublishPending(m, q, id, ack_state) ==
  /\ state = "CONNECTED"
  /\ Matching[m] \cap subscriptions # {}
  /\ AddPending(PublishPacket(m, q, IF q = 0 THEN 0 ELSE id), TRUE)
  /\ UNCHANGED <<state, failure, subscriptions>>

(* The packet is the object that was received from its publisher: it has   *)
(* the packet id that the publisher gave it, and its ack_state is what the *)
(* publisher's session has made of it by now.                              *)
DeliverPublish(m, q, id, ack_state) ==
  /\ state = "CONNECTED"
  /\ Matching[m] \cap subscriptions # {}
  /\ LET packet == PublishPacket(m, q, id)
     IN  \/ /\ q = 0
            /\ Send(PublishPacket(m, 0, 0))
            /\ UNCHANGED pending
         \/ /\ q > 0
            /\ Slots(id) # {}
            /\ AddPending(packet, TRUE)
         \/ /\ q > 0
            /\ Slots(id) = {}
            /\ Send(packet)
            /\ pending' = Append(pending,
                  [packet |-> packet, ack_state |-> ack_state, own |-> TRUE])
  /\ UNCHANGED <<state, failure, subscriptions>>

(* The session of the publisher and those of the other recipients hold the *)
(* same object in their tables: what they set its ack_state to is read     *)
(* here.                                                                   *)
MoveShared ==
  /\ \E i \in DOMAIN pending, ack_state \in {"ACKNOWLEDGED", "RELEASED"} :
       /\ IsPublish(pending[i], 2)
       /\ pending' = [pending EXCEPT ![i].ack_state = ack_state]
  /\ UNCHANGED <<state, out_buffer, failure, subscriptions>>

Flush == GetOutboundData /\ UNCHANGED subscriptions

-----------------------------------------------------------------------------
IOCall ==
  \/ \E reason \in {"SUCCESS", "REFUSED"}, session_present \in BOOLEAN :
       AcknowledgeConnect(reason, session_present)
  \/ \E id \in PacketIds, granted \in [Patterns -> {-1, 0, 1}] :
       AcknowledgeSubscribe(id, granted)
  \/ \E id \in PacketIds, reason \in ReceiveReasons :
       AcknowledgePublish(id, reason) /\ UNCHANGED subscriptions
  \/ \E id \in PacketIds, reason \in ReleaseReasons :
       \/ ReleaseQos2Publish(id, reason) /\ UNCHANGED subscriptions
       \/ CompleteQos2Publish(id, reason) /\ UNCHANGED subscriptions
  \/ \E m \in Messages, q \in QoS, id \in PacketIds, ack_state \in AckStates :
       DeliverPublish(m, q, id, ack_state)

Next ==
  /\ failure = "none"
  /\ \/ IOCall
     \/ \E p \in Packets : Receive(p)
     \/ Flush
     \/ MoveShared

Spec == Init /\ [][Next]_vars

-----------------------------------------------------------------------------
(* Properties                                                              *)

\* Every variable has its type.
TypeOK ==
  /\ state \in States
  /\ pending \in Seq(Entries)
  /\ out_buffer \in Seq(Packets)
  /\ failure \in {"none", "MQTTProtocolError"}
  /\ subscriptions \in SUBSET Patterns

(* A subscription is made only by a request of the client that is still    *)
(* pending, and that request is used up by the SUBACK that grants it: no   *)
(* order of requests and calls makes one that was refused or answered.     *)
SubscribedOnRequest ==
  [][\A p \in subscriptions' \ subscriptions :
       \E i \in DOMAIN pending :
         LET request == pending[i].packet
         IN  /\ request.type = "SUBSCRIBE"
             /\ p \in request.patterns
             /\ \A j \in DOMAIN pending' :
                  pending'[j].packet.packet_id # request.packet_id
             /\ \E granted \in SUBSET request.patterns :
                  /\ p \in granted
                  /\ out_buffer' = Append(out_buffer, SubAck(request.packet_id, granted))
    ]_vars

(* Each QoS 2 exchange is completed once: a PUBCOMP that reports success   *)
(* goes out only for a publish that was released, and uses it up.          *)
CompletedOnce ==
  [][\A id \in PacketIds :
       out_buffer' = Append(out_buffer, Ack("PUBCOMP", id, "SUCCESS"))
       => /\ \E i \in Slots(id) : Awaits(pending[i], "RELEASED")
          /\ \A j \in DOMAIN pending' : pending'[j].packet.packet_id # id]_vars

=============================================================================
