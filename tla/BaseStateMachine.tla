-------------------------- MODULE BaseStateMachine --------------------------
(***************************************************************************)
(* BaseMQTTClientStateMachine: what the two ends of one MQTT session have  *)
(* in common, the packet handlers of the QoS 1 and QoS 2 handshakes and    *)
(* the table of requests that await an answer.                             *)
(*                                                                         *)
(* Bytes are abstracted: out_buffer is the sequence of the packets that    *)
(* were encoded into _out_buffer, and feed_bytes is one Receive step per   *)
(* decoded packet.  An exception that a handler raises ends the session    *)
(* (feed_bytes leaves the packet in _in_buffer and the I/O layer gives     *)
(* up); `failure' records which one it was, after the state changes the    *)
(* code had made before it raised.                                         *)
(***************************************************************************)
EXTENDS Integers, SequencesExt

CONSTANTS
  MaxPacketId,   \* 65535 in the code
  Messages,      \* the (topic, payload) pairs that are published
  Patterns,      \* the topic patterns that are subscribed to
  AutoAck        \* _auto_ack_publishes: TRUE at a client, FALSE at a broker

ASSUME PacketIdAssumption == MaxPacketId \in Nat \ {0}
ASSUME AutoAckAssumption  == AutoAck \in BOOLEAN

VARIABLES
  state,         \* _state
  pending,       \* _pending_packets, as the sequence of its insertion order
  out_buffer,    \* _out_buffer, as the packets encoded into it
  failure        \* the exception that ended the session, "none" before

baseVars == <<state, pending, out_buffer, failure>>

States    == {"DISCONNECTED", "CONNECTING", "CONNECTED"}
AckStates == {"UNACKNOWLEDGED", "ACKNOWLEDGED", "RELEASED"}
QoS       == 0 .. 2
PacketIds == 1 .. MaxPacketId
Failures  == {"none", "MQTTProtocolError", "KeyError", "AssertionError"}

\* The reason codes a packet's class allows, all other refusals taken as one
ReceiveReasons == {"SUCCESS", "REFUSED", "PACKET_IDENTIFIER_IN_USE"}
ReleaseReasons == {"SUCCESS", "PACKET_IDENTIFIER_NOT_FOUND"}

(***************************************************************************)
(* Packets.  The packet_id None of a QoS 0 PUBLISH is 0; the packet id 0   *)
(* of the wire, which the protocol forbids, is left out.  The reason codes *)
(* of a SUBACK are the set of the patterns it grants, those of an UNSUBACK *)
(* are taken as one.                                                       *)
(***************************************************************************)
Publishes ==
  [type : {"PUBLISH"}, packet_id : {0}, qos : {0}, msg : Messages, duplicate : BOOLEAN]
  \cup
  [type : {"PUBLISH"}, packet_id : PacketIds, qos : {1, 2}, msg : Messages,
   duplicate : BOOLEAN]

Acks ==
  [type : {"PUBACK", "PUBREC", "UNSUBACK"}, packet_id : PacketIds,
   reason : ReceiveReasons]
  \cup
  [type : {"PUBREL", "PUBCOMP"}, packet_id : PacketIds, reason : ReleaseReasons]
  \cup
  [type : {"SUBACK"}, packet_id : PacketIds, granted : SUBSET Patterns]

SubscriptionRequests ==
  [type : {"SUBSCRIBE", "UNSUBSCRIBE"}, packet_id : PacketIds,
   patterns : (SUBSET Patterns) \ {{}}]

Signals == [type : {"PINGREQ", "PINGRESP", "DISCONNECT", "AUTH"}]

Handshakes ==
  [type : {"CONNECT"}, clean_start : BOOLEAN]
  \cup
  [type : {"CONNACK"}, reason : {"SUCCESS", "REFUSED"}, session_present : BOOLEAN,
   maximum_qos : QoS]

Packets == Publishes \cup Acks \cup SubscriptionRequests \cup Signals \cup Handshakes

PublishPacket(m, q, id) ==
  [type |-> "PUBLISH", packet_id |-> id, qos |-> q, msg |-> m, duplicate |-> FALSE]

Ack(type, id, reason) == [type |-> type, packet_id |-> id, reason |-> reason]

SubAck(id, granted) == [type |-> "SUBACK", packet_id |-> id, granted |-> granted]

Signal(type) == [type |-> type]

(***************************************************************************)
(* An entry of pending: the request packet, the ack_state the packet       *)
(* object carries, and whether this end made the request (own) or received *)
(* it.  The code does not record `own'; only properties read it.           *)
(***************************************************************************)
Entries == [packet : {p \in Publishes : p.qos > 0} \cup SubscriptionRequests,
            ack_state : AckStates, own : BOOLEAN]

Entry(p, own) == [packet |-> p, ack_state |-> "UNACKNOWLEDGED", own |-> own]

\* The positions of a packet id in pending: a dict holds at most one.
Slots(id) == {i \in DOMAIN pending : pending[i].packet.packet_id = id}

IsPublish(e, q) == e.packet.type = "PUBLISH" /\ e.packet.qos = q

\* A QoS 2 publish in the given state of its handshake
Awaits(e, ack_state) == IsPublish(e, 2) /\ e.ack_state = ack_state

Verdict(ok) == IF ok THEN failure ELSE "MQTTProtocolError"

Send(p) == out_buffer' = Append(out_buffer, p)

Fail ==
  /\ failure' = "MQTTProtocolError"
  /\ UNCHANGED <<state, pending, out_buffer>>

(***************************************************************************)
(* What _add_pending_packet answers when the packet id is taken.  It       *)
(* answers an UNSUBSCRIBE with a SUBACK too.                               *)
(***************************************************************************)
InUse(p) ==
  IF p.type # "PUBLISH" THEN SubAck(p.packet_id, {})
  ELSE Ack(IF p.qos = 1 THEN "PUBACK" ELSE "PUBREC", p.packet_id,
           "PACKET_IDENTIFIER_IN_USE")

(***************************************************************************)
(* Encode the request p (or nothing, when it was received) and add it to   *)
(* pending.  The refusal of a taken id goes to the own out_buffer also     *)
(* when p is a request of this end.                                        *)
(***************************************************************************)
AddPending(p, own) ==
  LET sent == IF own THEN Append(out_buffer, p) ELSE out_buffer
  IN  IF Slots(p.packet_id) = {}
        THEN /\ pending' = Append(pending, Entry(p, own))
             /\ out_buffer' = sent
        ELSE /\ UNCHANGED pending
             /\ out_buffer' = Append(sent, InUse(p))

(***************************************************************************)
(* _in_require_state: the states in which a received packet is accepted.   *)
(* A type outside the domain is one _handle_packet returns False for.      *)
(***************************************************************************)
BaseAccepting ==
  [type \in {"PUBLISH", "PUBACK", "PUBREC", "PUBREL", "PUBCOMP", "DISCONNECT", "AUTH"} |->
     IF type = "AUTH" THEN {"CONNECTED", "CONNECTING"} ELSE {"CONNECTED"}]

Accepts(accepting, p) ==
  p.type \in DOMAIN accepting /\ state \in accepting[p.type]

-----------------------------------------------------------------------------
(* _handle_packet, one action per packet type                              *)

(* With _auto_ack_publishes the handler acknowledges at once: a QoS 1      *)
(* publish leaves pending again, a QoS 2 publish stays as ACKNOWLEDGED.    *)
ReceivePublish(p) ==
  /\ p.type = "PUBLISH"
  /\ \/ /\ p.qos = 0
        /\ UNCHANGED <<pending, out_buffer>>
     \/ /\ p.qos > 0
        /\ AutoAck => Slots(p.packet_id) # {}
        /\ AddPending(p, FALSE)
     \/ /\ p.qos > 0
        /\ AutoAck
        /\ Slots(p.packet_id) = {}
        /\ IF p.qos = 1
             THEN /\ UNCHANGED pending
                  /\ Send(Ack("PUBACK", p.packet_id, "SUCCESS"))
             ELSE /\ pending' = Append(pending,
                       [packet |-> p, ack_state |-> "ACKNOWLEDGED", own |-> FALSE])
                  /\ Send(Ack("PUBREC", p.packet_id, "SUCCESS"))
  /\ UNCHANGED <<state, failure>>

\* Mutant of ReceivePubAck: the entry stays in pending (remove=False).
ReceivePubAckKeeping(p) ==
  /\ p.type = "PUBACK"
  /\ failure' = Verdict(\A i \in Slots(p.packet_id) : IsPublish(pending[i], 1))
  /\ UNCHANGED <<state, pending, out_buffer>>

\* The entry is popped before its class and QoS are checked.
ReceivePubAck(p) ==
  /\ p.type = "PUBACK"
  /\ \/ Slots(p.packet_id) = {} /\ UNCHANGED <<pending, failure>>
     \/ \E i \in Slots(p.packet_id) :
          /\ pending' = RemoveAt(pending, i)
          /\ failure' = Verdict(IsPublish(pending[i], 1))
  /\ UNCHANGED <<state, out_buffer>>

\* Mutant of ReceivePubRec: the publish is not moved on to RELEASED.
ReceivePubRecUnreleased(p) ==
  /\ p.type = "PUBREC"
  /\ \/ /\ Slots(p.packet_id) = {}
        /\ Send(Ack("PUBREL", p.packet_id, "PACKET_IDENTIFIER_NOT_FOUND"))
        /\ UNCHANGED <<state, pending, failure>>
     \/ \E i \in Slots(p.packet_id) :
          /\ Awaits(pending[i], "UNACKNOWLEDGED")
          /\ pending' = [pending EXCEPT ![i].ack_state = "ACKNOWLEDGED"]
          /\ IF AutoAck THEN Send(Ack("PUBREL", p.packet_id, "SUCCESS"))
                        ELSE UNCHANGED out_buffer
          /\ UNCHANGED <<state, failure>>
     \/ /\ \E i \in Slots(p.packet_id) : ~Awaits(pending[i], "UNACKNOWLEDGED")
        /\ Fail

\* The reason code of the PUBREC is not looked at.
ReceivePubRec(p) ==
  /\ p.type = "PUBREC"
  /\ \/ /\ Slots(p.packet_id) = {}
        /\ Send(Ack("PUBREL", p.packet_id, "PACKET_IDENTIFIER_NOT_FOUND"))
        /\ UNCHANGED <<state, pending, failure>>
     \/ \E i \in Slots(p.packet_id) :
          /\ Awaits(pending[i], "UNACKNOWLEDGED")
          /\ IF AutoAck
               THEN /\ pending' = [pending EXCEPT ![i].ack_state = "RELEASED"]
                    /\ Send(Ack("PUBREL", p.packet_id, "SUCCESS"))
               ELSE /\ pending' = [pending EXCEPT ![i].ack_state = "ACKNOWLEDGED"]
                    /\ UNCHANGED out_buffer
          /\ UNCHANGED <<state, failure>>
     \/ /\ \E i \in Slots(p.packet_id) : ~Awaits(pending[i], "UNACKNOWLEDGED")
        /\ Fail

ReceivePubRel(p) ==
  /\ p.type = "PUBREL"
  /\ \/ /\ Slots(p.packet_id) = {}
        /\ Send(Ack("PUBCOMP", p.packet_id, "PACKET_IDENTIFIER_NOT_FOUND"))
        /\ UNCHANGED <<state, pending, failure>>
     \/ \E i \in Slots(p.packet_id) :
          /\ Awaits(pending[i], "ACKNOWLEDGED")
          /\ IF AutoAck
               THEN /\ pending' = RemoveAt(pending, i)
                    /\ Send(Ack("PUBCOMP", p.packet_id, "SUCCESS"))
               ELSE /\ pending' = [pending EXCEPT ![i].ack_state = "RELEASED"]
                    /\ UNCHANGED out_buffer
          /\ UNCHANGED <<state, failure>>
     \/ /\ \E i \in Slots(p.packet_id) : ~Awaits(pending[i], "ACKNOWLEDGED")
        /\ Fail

ReceivePubComp(p) ==
  /\ p.type = "PUBCOMP"
  /\ \/ Slots(p.packet_id) = {} /\ Fail
     \/ \E i \in Slots(p.packet_id) :
          /\ pending' = RemoveAt(pending, i)
          /\ failure' = Verdict(Awaits(pending[i], "RELEASED"))
          /\ UNCHANGED <<state, out_buffer>>

ReceiveDisconnect(p) ==
  /\ p.type = "DISCONNECT"
  /\ state' = "DISCONNECTED"
  /\ UNCHANGED <<pending, out_buffer, failure>>

ReceiveAuth(p) ==
  /\ p.type = "AUTH"
  /\ UNCHANGED baseVars

ReceiveBase(p) ==
  \/ ReceivePublish(p)
  \/ ReceivePubAck(p)
  \/ ReceivePubRec(p)
  \/ ReceivePubRel(p)
  \/ ReceivePubComp(p)
  \/ ReceiveDisconnect(p)
  \/ ReceiveAuth(p)

-----------------------------------------------------------------------------
(* The acknowledgements that an I/O layer without _auto_ack_publishes      *)
(* makes.  Each raises, when its request is not the one that is pending;   *)
(* acknowledge_publish and complete_qos2_publish have popped it by then.   *)

\* Mutant of AcknowledgePublish: the ack_state is not moved on.
AcknowledgePublishUnmoved(id, reason) ==
  /\ state = "CONNECTED"
  /\ \/ Slots(id) = {} /\ Fail
     \/ \E i \in Slots(id) :
          LET e    == pending[i]
              rest == RemoveAt(pending, i)
          IN  /\ \/ /\ IsPublish(e, 1)
                    /\ pending' = rest
                    /\ Send(Ack("PUBACK", id, reason))
                 \/ /\ IsPublish(e, 2)
                    /\ pending' = Append(rest, e)
                    /\ Send(Ack("PUBREC", id, reason))
                 \/ /\ e.packet.type # "PUBLISH"
                    /\ pending' = rest
                    /\ UNCHANGED out_buffer
              /\ failure' = Verdict(e.packet.type = "PUBLISH")
              /\ UNCHANGED state

AcknowledgePublish(id, reason) ==
  /\ state = "CONNECTED"
  /\ \/ Slots(id) = {} /\ Fail
     \/ \E i \in Slots(id) :
          LET e    == pending[i]
              rest == RemoveAt(pending, i)
          IN  /\ \/ /\ IsPublish(e, 1)
                    /\ pending' = rest
                    /\ Send(Ack("PUBACK", id, reason))
                 \/ /\ IsPublish(e, 2)
                    /\ pending' = Append(rest, [e EXCEPT !.ack_state = "ACKNOWLEDGED"])
                    /\ Send(Ack("PUBREC", id, reason))
                 \/ /\ e.packet.type # "PUBLISH"
                    /\ pending' = rest
                    /\ UNCHANGED out_buffer
              /\ failure' = Verdict(e.packet.type = "PUBLISH")
              /\ UNCHANGED state

ReleaseQos2Publish(id, reason) ==
  /\ state = "CONNECTED"
  /\ \/ /\ reason = "PACKET_IDENTIFIER_NOT_FOUND"
        /\ Send(Ack("PUBREL", id, reason))
        /\ UNCHANGED <<state, pending, failure>>
     \/ /\ reason # "PACKET_IDENTIFIER_NOT_FOUND"
        /\ \E i \in Slots(id) :
             /\ Awaits(pending[i], "ACKNOWLEDGED")
             /\ pending' = [pending EXCEPT ![i].ack_state = "RELEASED"]
             /\ Send(Ack("PUBREL", id, reason))
        /\ UNCHANGED <<state, failure>>
     \/ /\ reason # "PACKET_IDENTIFIER_NOT_FOUND"
        /\ \A i \in Slots(id) : ~Awaits(pending[i], "ACKNOWLEDGED")
        /\ Fail

\* Mutant of CompleteQos2Publish: the completed publish stays (remove=False).
CompleteQos2PublishKeeping(id, reason) ==
  /\ state = "CONNECTED"
  /\ \/ /\ \/ reason = "PACKET_IDENTIFIER_NOT_FOUND"
           \/ \E i \in Slots(id) : Awaits(pending[i], "RELEASED")
        /\ Send(Ack("PUBCOMP", id, reason))
        /\ UNCHANGED <<state, pending, failure>>
     \/ /\ reason # "PACKET_IDENTIFIER_NOT_FOUND"
        /\ \A i \in Slots(id) : ~Awaits(pending[i], "RELEASED")
        /\ Fail

CompleteQos2Publish(id, reason) ==
  /\ state = "CONNECTED"
  /\ \/ /\ reason = "PACKET_IDENTIFIER_NOT_FOUND"
        /\ Send(Ack("PUBCOMP", id, reason))
        /\ UNCHANGED <<state, pending, failure>>
     \/ /\ reason # "PACKET_IDENTIFIER_NOT_FOUND"
        /\ Slots(id) = {}
        /\ Fail
     \/ /\ reason # "PACKET_IDENTIFIER_NOT_FOUND"
        /\ \E i \in Slots(id) :
             /\ pending' = RemoveAt(pending, i)
             /\ failure' = Verdict(Awaits(pending[i], "RELEASED"))
             /\ IF Awaits(pending[i], "RELEASED")
                  THEN Send(Ack("PUBCOMP", id, reason))
                  ELSE UNCHANGED out_buffer
        /\ UNCHANGED state

\* get_outbound_data: hand the buffer to the transport and start a new one.
GetOutboundData ==
  /\ out_buffer # <<>>
  /\ out_buffer' = <<>>
  /\ UNCHANGED <<state, pending, failure>>

=============================================================================
