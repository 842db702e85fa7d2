---------------------- MODULE ClientStateMachineProofs ----------------------
(***************************************************************************)
(* What holds of a client's end of a session for every packet id range,    *)
(* every set of messages and patterns, and every packet the network        *)
(* delivers.  The inductive invariant is Ind: TypeOK, with pending a       *)
(* sequence over the entries that HandshakeSides allows, so that each      *)
(* operation on a sequence needs one lemma about Seq, and the counts of    *)
(* the patterns.  OwnPublishKept follows from it one step at a time.       *)
(***************************************************************************)
EXTENDS ClientStateMachine, SequenceLemmas, FiniteSetTheorems, TLAPS

SidedEntries == {e \in Entries : Sided(e)}

-----------------------------------------------------------------------------
(* Lemmas about packets and entries                                        *)

LEMMA PacketTypes ==
  /\ \A id \in PacketIds, reason \in ReceiveReasons :
       \A type \in {"PUBACK", "PUBREC"} : Ack(type, id, reason) \in Packets
  /\ \A id \in PacketIds, reason \in ReleaseReasons :
       \A type \in {"PUBREL", "PUBCOMP"} : Ack(type, id, reason) \in Packets
  /\ \A id \in PacketIds : SubAck(id, {}) \in Packets
  /\ \A type \in {"PINGREQ", "PINGRESP", "DISCONNECT", "AUTH"} :
       Signal(type) \in Packets
BY DEF Packets, Acks, Signals, Ack, SubAck, Signal

LEMMA RequestTypes ==
  ASSUME NEW p \in {x \in Publishes : x.qos > 0} \cup SubscriptionRequests
  PROVE  /\ p \in Packets
         /\ p.packet_id \in PacketIds
         /\ InUse(p) \in Packets
         /\ Entry(p, TRUE) \in SidedEntries
<1>1. p \in Packets
  BY DEF Packets
<1>2. p.packet_id \in PacketIds
  BY DEF Publishes, SubscriptionRequests
<1>3. InUse(p) \in Packets
  BY <1>2, PacketTypes DEF InUse, ReceiveReasons
<1>4. Entry(p, TRUE) \in SidedEntries
  BY DEF Entry, SidedEntries, Entries, Sided, AckStates
<1> QED BY <1>1, <1>2, <1>3, <1>4

LEMMA SidedEntryType ==
  ASSUME NEW e \in SidedEntries
  PROVE  /\ e \in Entries
         /\ Sided(e)
         /\ e.own \in BOOLEAN
BY DEF SidedEntries, Entries

\* An entry is moved forward in its handshake: it stays an entry of its side.
LEMMA ReleasedType ==
  ASSUME NEW e \in SidedEntries, Awaits(e, "UNACKNOWLEDGED")
  PROVE  [e EXCEPT !.ack_state = "RELEASED"] \in SidedEntries
BY DEF SidedEntries, Entries, Sided, Awaits, IsPublish, AckStates

LEMMA ResentType ==
  ASSUME NEW e \in SidedEntries, e.packet.type = "PUBLISH"
  PROVE  /\ Resent(e) \in SidedEntries
         /\ Duplicate(e.packet) \in Packets
<1>1. e.packet \in {p \in Publishes : p.qos > 0}
  BY DEF SidedEntries, Entries, SubscriptionRequests
<1> DEFINE q == Duplicate(e.packet)
<1>2. q \in {p \in Publishes : p.qos > 0} /\ q.type = "PUBLISH" /\ q.qos = e.packet.qos
  BY <1>1 DEF Publishes, Duplicate
<1> HIDE DEF q
<1>3. Resent(e) = [packet |-> q, ack_state |-> e.ack_state, own |-> e.own]
  BY DEF Resent, SidedEntries, Entries, q
<1>4. Sided(Resent(e))
  BY <1>1, <1>2, <1>3, SidedEntryType DEF Sided, Awaits, IsPublish
<1> QED
  BY <1>2, <1>3, <1>4, SidedEntryType DEF SidedEntries, Entries, Packets, q

\* The part of the invariant that is about the variables of BaseStateMachine
BaseInv ==
  /\ state \in States
  /\ pending \in Seq(SidedEntries)
  /\ out_buffer \in Seq(Packets)
  /\ failure \in Failures

LEMMA VerdictType ==
  ASSUME BaseInv, NEW ok
  PROVE  Verdict(ok) \in Failures
BY DEF BaseInv, Verdict, Failures

LEMMA SendType ==
  ASSUME BaseInv, NEW p \in Packets, Send(p)
  PROVE  out_buffer' \in Seq(Packets)
BY AppendProperties DEF BaseInv, Send

LEMMA FailType ==
  ASSUME BaseInv, Fail
  PROVE  BaseInv'
BY DEF BaseInv, Fail, Failures

LEMMA AddPendingType ==
  ASSUME BaseInv,
         NEW p \in {x \in Publishes : x.qos > 0} \cup SubscriptionRequests,
         NEW own \in BOOLEAN,
         own \/ Slots(p.packet_id) # {},
         AddPending(p, own)
  PROVE  pending' \in Seq(SidedEntries) /\ out_buffer' \in Seq(Packets)
<1> DEFINE sent == IF own THEN Append(out_buffer, p) ELSE out_buffer
<1>1. sent \in Seq(Packets)
  BY RequestTypes, AppendProperties DEF BaseInv
<1>2. CASE Slots(p.packet_id) = {}
  <2>1. pending' = Append(pending, Entry(p, TRUE)) /\ out_buffer' = sent
    BY <1>2 DEF AddPending
  <2> QED BY <1>1, <2>1, RequestTypes, AppendProperties DEF BaseInv
<1>3. CASE Slots(p.packet_id) # {}
  <2>1. pending' = pending /\ out_buffer' = Append(sent, InUse(p))
    BY <1>3 DEF AddPending
  <2> HIDE DEF sent
  <2> QED BY <1>1, <2>1, RequestTypes, AppendProperties DEF BaseInv
<1> QED BY <1>2, <1>3

\* Popping a request keeps the type of pending.
LEMMA PopType ==
  ASSUME BaseInv, NEW id, NEW i \in Slots(id), pending' = RemoveAt(pending, i)
  PROVE  pending' \in Seq(SidedEntries)
BY RemoveAtType DEF BaseInv, Slots

-----------------------------------------------------------------------------
(* The handlers of BaseStateMachine                                        *)

LEMMA ReceivePublishStep ==
  ASSUME BaseInv, NEW p \in Packets, ReceivePublish(p)
  PROVE  BaseInv'
<1>1. p.type = "PUBLISH" /\ UNCHANGED <<state, failure>>
  BY DEF ReceivePublish
<1>2. p \in Publishes
  BY <1>1 DEF Packets, Acks, SubscriptionRequests, Signals, Handshakes
<1>3. CASE p.qos = 0
  BY <1>1, <1>3 DEF ReceivePublish, BaseInv
<1>4. CASE p.qos > 0 /\ Slots(p.packet_id) # {}
  <2>1. AddPending(p, FALSE)
    <3>1. ~(p.qos = 0) /\ ~(Slots(p.packet_id) = {})
      BY <1>4
    <3> QED BY <3>1, Zenon DEF ReceivePublish
  <2>2. p \in {x \in Publishes : x.qos > 0}
    BY <1>2, <1>4
  <2> QED BY <1>1, <1>4, <2>1, <2>2, AddPendingType DEF BaseInv
<1>5. CASE p.qos > 0 /\ Slots(p.packet_id) = {}
  <2> DEFINE e == [packet |-> p, ack_state |-> "ACKNOWLEDGED", own |-> FALSE]
  <2>1. p.packet_id \in PacketIds /\ p.qos \in {1, 2}
    BY <1>2, <1>5 DEF Publishes
  <2>2. CASE p.qos = 1
    <3>1. UNCHANGED pending /\ Send(Ack("PUBACK", p.packet_id, "SUCCESS"))
      BY <1>5, <2>2, ClientAssumption DEF ReceivePublish
    <3>2. Ack("PUBACK", p.packet_id, "SUCCESS") \in Packets
      BY <2>1, PacketTypes DEF ReceiveReasons
    <3> QED BY <1>1, <3>1, <3>2, SendType DEF BaseInv
  <2>3. CASE p.qos = 2
    <3>1. pending' = Append(pending, e) /\ Send(Ack("PUBREC", p.packet_id, "SUCCESS"))
      BY <1>5, <2>3, ClientAssumption DEF ReceivePublish
    <3>2. Ack("PUBREC", p.packet_id, "SUCCESS") \in Packets
      BY <2>1, PacketTypes DEF ReceiveReasons
    <3>3. e \in SidedEntries
      <4>1. e \in Entries
        BY <1>2, <2>3 DEF Entries, AckStates
      <4>2. Sided(e)
        BY <1>1, <2>3 DEF Sided, Awaits, IsPublish
      <4> QED BY <4>1, <4>2 DEF SidedEntries
    <3> HIDE DEF e
    <3> QED BY <1>1, <3>1, <3>2, <3>3, SendType, AppendProperties DEF BaseInv
  <2> QED BY <2>1, <2>2, <2>3
<1>6. p.qos \in QoS
  BY <1>2 DEF Publishes, QoS
<1> QED BY <1>3, <1>4, <1>5, <1>6 DEF QoS

LEMMA ReceivePubAckStep ==
  ASSUME BaseInv, NEW p \in Packets, ReceivePubAck(p)
  PROVE  BaseInv'
<1>1. CASE UNCHANGED <<pending, failure>>
  BY <1>1 DEF ReceivePubAck, BaseInv
<1>2. CASE \E i \in Slots(p.packet_id) :
             /\ pending' = RemoveAt(pending, i)
             /\ failure' = Verdict(IsPublish(pending[i], 1))
  BY <1>2, PopType, VerdictType DEF ReceivePubAck, BaseInv
<1> QED BY <1>1, <1>2 DEF ReceivePubAck

LEMMA ReceivePubRecStep ==
  ASSUME BaseInv, NEW p \in Packets, ReceivePubRec(p)
  PROVE  BaseInv'
<1>1. p.packet_id \in PacketIds
  BY DEF ReceivePubRec, Packets, Publishes, Acks, SubscriptionRequests, Signals,
         Handshakes
<1>2. CASE Fail
  BY <1>2, FailType
<1>3. CASE /\ Send(Ack("PUBREL", p.packet_id, "PACKET_IDENTIFIER_NOT_FOUND"))
           /\ UNCHANGED <<state, pending, failure>>
  BY <1>1, <1>3, PacketTypes, SendType DEF BaseInv, ReleaseReasons
<1>4. ASSUME NEW i \in Slots(p.packet_id),
             Awaits(pending[i], "UNACKNOWLEDGED"),
             pending' = [pending EXCEPT ![i].ack_state = "RELEASED"],
             Send(Ack("PUBREL", p.packet_id, "SUCCESS")),
             UNCHANGED <<state, failure>>
      PROVE  BaseInv'
  <2> DEFINE e == [pending[i] EXCEPT !.ack_state = "RELEASED"]
  <2>1. i \in DOMAIN pending
    BY DEF Slots
  <2>2. e \in SidedEntries
    BY <1>4, <2>1, ElementType, ReleasedType DEF BaseInv
  <2>3. pending' = [pending EXCEPT ![i] = e]
    BY <1>4
  <2> HIDE DEF e
  <2>4. pending' \in Seq(SidedEntries)
    BY <2>1, <2>2, <2>3, ReplaceType DEF BaseInv
  <2> QED BY <1>1, <1>4, <2>4, PacketTypes, SendType DEF BaseInv, ReleaseReasons
<1> QED
  BY <1>2, <1>3, <1>4, ClientAssumption DEF ReceivePubRec

LEMMA ReceivePubRelStep ==
  ASSUME BaseInv, NEW p \in Packets, ReceivePubRel(p)
  PROVE  BaseInv'
<1>1. p.packet_id \in PacketIds
  BY DEF ReceivePubRel, Packets, Publishes, Acks, SubscriptionRequests, Signals,
         Handshakes
<1>2. CASE Fail
  BY <1>2, FailType
<1>3. CASE /\ Send(Ack("PUBCOMP", p.packet_id, "PACKET_IDENTIFIER_NOT_FOUND"))
           /\ UNCHANGED <<state, pending, failure>>
  BY <1>1, <1>3, PacketTypes, SendType DEF BaseInv, ReleaseReasons
<1>4. ASSUME NEW i \in Slots(p.packet_id),
             pending' = RemoveAt(pending, i),
             Send(Ack("PUBCOMP", p.packet_id, "SUCCESS")),
             UNCHANGED <<state, failure>>
      PROVE  BaseInv'
  BY <1>1, <1>4, PopType, PacketTypes, SendType DEF BaseInv, ReleaseReasons
<1> QED
  BY <1>2, <1>3, <1>4, ClientAssumption DEF ReceivePubRel

LEMMA ReceivePubCompStep ==
  ASSUME BaseInv, NEW p \in Packets, ReceivePubComp(p)
  PROVE  BaseInv'
<1>1. CASE Fail
  BY <1>1, FailType
<1>2. CASE \E i \in Slots(p.packet_id) :
             /\ pending' = RemoveAt(pending, i)
             /\ failure' = Verdict(Awaits(pending[i], "RELEASED"))
             /\ UNCHANGED <<state, out_buffer>>
  BY <1>2, PopType, VerdictType DEF BaseInv
<1> QED BY <1>1, <1>2 DEF ReceivePubComp

LEMMA ReceiveBaseStep ==
  ASSUME BaseInv, NEW p \in Packets, ReceiveBase(p)
  PROVE  BaseInv'
<1>1. CASE ReceiveDisconnect(p)
  BY <1>1 DEF ReceiveDisconnect, BaseInv, States
<1>2. CASE ReceiveAuth(p)
  BY <1>2 DEF ReceiveAuth, BaseInv, baseVars
<1> QED
  BY <1>1, <1>2, ReceivePublishStep, ReceivePubAckStep, ReceivePubRecStep,
     ReceivePubRelStep, ReceivePubCompStep DEF ReceiveBase

-----------------------------------------------------------------------------
(* The actions of the client                                               *)

ClientInv ==
  /\ next_packet_id \in PacketIds
  /\ subscriptions \in SUBSET Patterns
  /\ subscription_counts \in [Patterns -> Int]
  /\ maximum_qos \in QoS
  /\ SubscribedCounted

Ind == BaseInv /\ ClientInv

LEMMA GeneratePacketIdType ==
  ASSUME ClientInv, GeneratePacketId
  PROVE  next_packet_id' \in PacketIds
BY PacketIdAssumption DEF ClientInv, GeneratePacketId, PacketIds

LEMMA ClientUnchanged ==
  ASSUME ClientInv, UNCHANGED clientVars
  PROVE  ClientInv'
BY DEF ClientInv, clientVars, SubscribedCounted

LEMMA ConnectStep ==
  ASSUME Ind, NEW clean_start \in BOOLEAN, Connect(clean_start)
  PROVE  Ind'
<1> DEFINE p == [type |-> "CONNECT", clean_start |-> clean_start]
<1>1. p \in Packets
  BY DEF Packets, Handshakes
<1> HIDE DEF p
<1>2. Send(p) /\ state' = "CONNECTING" /\ UNCHANGED <<pending, failure, clientVars>>
  BY DEF Connect, p
<1> QED BY <1>1, <1>2, SendType, ClientUnchanged DEF Ind, BaseInv, States

LEMMA DisconnectStep ==
  ASSUME Ind, Disconnect
  PROVE  Ind'
BY PacketTypes, SendType, ClientUnchanged DEF Ind, BaseInv, Disconnect, States

LEMMA PingStep ==
  ASSUME Ind, Ping
  PROVE  Ind'
BY PacketTypes, SendType, ClientUnchanged DEF Ind, BaseInv, Ping

LEMMA PublishStep ==
  ASSUME Ind, NEW m \in Messages, NEW q \in QoS, Publish(m, q)
  PROVE  Ind'
<1> DEFINE p == PublishPacket(m, q, next_packet_id)
<1>1. UNCHANGED <<state, failure, subscriptions, subscription_counts, maximum_qos>>
  BY DEF Publish
<1>2. CASE q = 0
  <2>1. PublishPacket(m, 0, 0) \in Packets
    BY DEF PublishPacket, Packets, Publishes
  <2>2. Send(PublishPacket(m, 0, 0)) /\ UNCHANGED <<pending, next_packet_id>>
    BY <1>2 DEF Publish
  <2> QED
    BY <1>1, <2>1, <2>2, SendType DEF Ind, BaseInv, ClientInv, SubscribedCounted
<1>3. CASE q > 0
  <2>1. AddPending(p, TRUE) /\ GeneratePacketId
    <3>1. ~(q = 0)
      BY <1>3
    <3> QED BY <3>1, Zenon DEF Publish
  <2>2. p \in {x \in Publishes : x.qos > 0}
    BY <1>3 DEF PublishPacket, Publishes, Ind, ClientInv, QoS
  <2> HIDE DEF p
  <2>3. pending' \in Seq(SidedEntries) /\ out_buffer' \in Seq(Packets)
    BY <2>1, <2>2, AddPendingType DEF Ind
  <2> QED
    BY <1>1, <2>1, <2>3, GeneratePacketIdType
    DEF Ind, BaseInv, ClientInv, SubscribedCounted
<1> QED BY <1>2, <1>3 DEF QoS

\* What SUBSCRIBE and UNSUBSCRIBE have in common: a request for some patterns.
LEMMA RequestStep ==
  ASSUME Ind,
         NEW type \in {"SUBSCRIBE", "UNSUBSCRIBE"},
         NEW S \in SUBSET Patterns, S # {},
         AddPending([type |-> type, packet_id |-> next_packet_id, patterns |-> S], TRUE),
         GeneratePacketId,
         UNCHANGED <<state, failure>>
  PROVE  BaseInv' /\ next_packet_id' \in PacketIds
<1> DEFINE p == [type |-> type, packet_id |-> next_packet_id, patterns |-> S]
<1>1. p \in SubscriptionRequests
  BY DEF SubscriptionRequests, Ind, ClientInv
<1>2. AddPending(p, TRUE)
  OBVIOUS
<1> HIDE DEF p
<1>3. pending' \in Seq(SidedEntries) /\ out_buffer' \in Seq(Packets)
  BY <1>1, <1>2, AddPendingType DEF Ind
<1> QED BY <1>3, GeneratePacketIdType DEF Ind, BaseInv

LEMMA SubscribeStep ==
  ASSUME Ind, NEW S \in SUBSET Patterns, Subscribe(S)
  PROVE  Ind'
<1> DEFINE new == S \ subscriptions
<1>1. /\ subscriptions' = subscriptions \cup S
      /\ subscription_counts' = [p \in Patterns |->
            IF p \in new THEN 1
            ELSE subscription_counts[p] + (IF p \in S THEN 1 ELSE 0)]
      /\ UNCHANGED <<state, failure, maximum_qos>>
  BY DEF Subscribe
<1>2. /\ subscriptions' \in SUBSET Patterns
      /\ subscription_counts' \in [Patterns -> Int]
  BY <1>1 DEF Ind, ClientInv
<1>3. SubscribedCounted'
  BY <1>1, <1>2 DEF Ind, ClientInv, SubscribedCounted
<1>4. CASE new = {}
  BY <1>1, <1>2, <1>3, <1>4 DEF Subscribe, Ind, BaseInv, ClientInv
<1>5. CASE new # {}
  <2>1. AddPending([type |-> "SUBSCRIBE", packet_id |-> next_packet_id,
                    patterns |-> new], TRUE) /\ GeneratePacketId
    BY <1>5 DEF Subscribe
  <2>2. BaseInv' /\ next_packet_id' \in PacketIds
    BY <1>1, <1>5, <2>1, RequestStep
  <2> QED BY <1>1, <1>2, <1>3, <2>2 DEF Ind, ClientInv
<1> QED BY <1>4, <1>5

LEMMA UnsubscribeStep ==
  ASSUME Ind, NEW S \in SUBSET Patterns, Unsubscribe(S)
  PROVE  Ind'
<1> DEFINE last   == {p \in S : subscription_counts[p] = 1}
           broken == last \ subscriptions
<1>1. UNCHANGED <<state, maximum_qos>>
  BY DEF Unsubscribe
<1>2. CASE /\ broken = {}
           /\ subscription_counts' = CountDown(S)
           /\ subscriptions' = subscriptions \ last
           /\ \/ /\ last = {}
                 /\ UNCHANGED <<pending, out_buffer, next_packet_id>>
              \/ /\ last # {}
                 /\ AddPending([type |-> "UNSUBSCRIBE", packet_id |-> next_packet_id,
                                patterns |-> last], TRUE)
                 /\ GeneratePacketId
           /\ UNCHANGED failure
  <2>1. /\ subscriptions' \in SUBSET Patterns
        /\ subscription_counts' \in [Patterns -> Int]
        /\ SubscribedCounted'
    BY <1>2 DEF Ind, ClientInv, SubscribedCounted, CountDown
  <2>2. BaseInv' /\ next_packet_id' \in PacketIds
    <3>1. CASE UNCHANGED <<pending, out_buffer, next_packet_id>>
      BY <1>1, <1>2, <3>1 DEF Ind, BaseInv, ClientInv
    <3>2. CASE /\ last # {}
               /\ AddPending([type |-> "UNSUBSCRIBE", packet_id |-> next_packet_id,
                              patterns |-> last], TRUE)
               /\ GeneratePacketId
      BY <1>1, <1>2, <3>2, RequestStep
    <3> QED BY <1>2, <3>1, <3>2
  <2> QED BY <1>1, <2>1, <2>2 DEF Ind, ClientInv
<1>3. ASSUME NEW p \in broken, NEW done \in SUBSET (S \ broken),
             subscription_counts' = CountDown(done \cup {p}),
             subscriptions' = subscriptions \ (done \cap last),
             failure' = "KeyError",
             UNCHANGED <<pending, out_buffer, next_packet_id>>
      PROVE  Ind'
  <2>1. BaseInv'
    BY <1>1, <1>3 DEF Ind, BaseInv, Failures
  <2>2. /\ subscriptions' \in SUBSET Patterns
        /\ subscription_counts' \in [Patterns -> Int]
    BY <1>3 DEF Ind, ClientInv, CountDown
  <2>3. SubscribedCounted'
    <3> SUFFICES ASSUME NEW r \in subscriptions'
                 PROVE  subscription_counts'[r] >= 1
      BY DEF SubscribedCounted
    <3>1. r \in subscriptions /\ r # p /\ subscription_counts[r] >= 1
      BY <1>3 DEF Ind, ClientInv, SubscribedCounted
    <3>2. r \in Patterns /\ subscription_counts[r] \in Int
      BY <3>1 DEF Ind, ClientInv
    <3>3. r \in done => subscription_counts[r] # 1
      BY <1>3, <3>1
    <3> QED BY <1>3, <3>1, <3>2, <3>3 DEF CountDown
  <2> QED BY <1>1, <1>3, <2>1, <2>2, <2>3 DEF Ind, ClientInv
<1> QED BY <1>2, <1>3 DEF Unsubscribe

LEMMA KeptType ==
  ASSUME BaseInv, NEW present \in BOOLEAN, NEW order \in Enumerations(Kept(present))
  PROVE  [i \in DOMAIN order |-> pending[order[i]]] \in Seq(SidedEntries)
<1> DEFINE I == Kept(present)
           n == Cardinality(I)
<1>1. DOMAIN pending = 1 .. Len(pending) /\ Len(pending) \in Nat
  BY LenProperties DEF BaseInv
<1>2. I \in SUBSET (1 .. Len(pending))
  BY <1>1 DEF Kept
<1>3. n \in Nat
  <2>1. IsFiniteSet(1 .. Len(pending))
    BY <1>1, FS_Interval
  <2>2. IsFiniteSet(I)
    BY <1>2, <2>1, FS_Subset
  <2> HIDE DEF I
  <2> QED BY <2>2, FS_CardinalityType
<1>4. order \in [1 .. n -> I]
  BY DEF Enumerations
<1> HIDE DEF n, I
<1>5. \A i \in 1 .. n : pending[order[i]] \in SidedEntries
  BY <1>1, <1>2, <1>4, ElementType DEF BaseInv
<1>6. [i \in DOMAIN order |-> pending[order[i]]] \in [1 .. n -> SidedEntries]
  BY <1>4, <1>5
<1> QED BY <1>3, <1>6, FunctionIsSeq

LEMMA ResendStep ==
  ASSUME BaseInv, NEW kept \in Seq(SidedEntries), NEW n \in 0 .. Len(kept),
         ResendPending(kept, n)
  PROVE  /\ pending' \in Seq(SidedEntries)
         /\ out_buffer' \in Seq(Packets)
         /\ failure' \in Failures
<1> DEFINE sent == [i \in 1 .. n |-> Duplicate(kept[i].packet)]
           next == [i \in DOMAIN kept |-> IF i <= n THEN Resent(kept[i]) ELSE kept[i]]
<1>1. DOMAIN kept = 1 .. Len(kept) /\ Len(kept) \in Nat /\ n \in Nat
  BY LenProperties
<1>2. \A i \in 1 .. n : kept[i] \in SidedEntries /\ kept[i].packet.type = "PUBLISH"
  BY <1>1, ElementType DEF ResendPending
<1>3. sent \in Seq(Packets)
  <2>1. sent \in [1 .. n -> Packets]
    BY <1>2, ResentType
  <2> QED BY <1>1, <2>1, FunctionIsSeq
<1>4. next \in Seq(SidedEntries)
  <2>1. \A i \in 1 .. Len(kept) : next[i] \in SidedEntries
    BY <1>1, <1>2, ElementType, ResentType
  <2>2. next \in [1 .. Len(kept) -> SidedEntries]
    BY <1>1, <2>1
  <2> QED BY <1>1, <2>2, FunctionIsSeq
<1>5. pending' = next /\ out_buffer' = out_buffer \o sent
  BY DEF ResendPending
<1>6. failure' \in Failures
  BY DEF ResendPending, BaseInv, Failures
<1> HIDE DEF sent, next
<1> QED BY <1>3, <1>4, <1>5, <1>6, ConcatProperties DEF BaseInv

LEMMA ReceiveConnAckStep ==
  ASSUME Ind, NEW p \in Packets, ReceiveConnAck(p)
  PROVE  Ind'
<1>1. p.session_present \in BOOLEAN /\ p.maximum_qos \in QoS
  BY DEF ReceiveConnAck, Packets, Publishes, Acks, SubscriptionRequests, Signals,
         Handshakes
<1>2. CASE p.reason = "SUCCESS"
  <2>1. /\ state' = "CONNECTED"
        /\ maximum_qos' = p.maximum_qos
        /\ \/ UNCHANGED <<next_packet_id, subscriptions>>
           \/ next_packet_id' = 1 /\ subscriptions' = {}
        /\ UNCHANGED subscription_counts
    BY <1>2 DEF ReceiveConnAck
  <2>2. ClientInv'
    BY <1>1, <2>1, PacketIdAssumption DEF Ind, ClientInv, SubscribedCounted, PacketIds
  <2>3. PICK order \in Enumerations(Kept(p.session_present)) :
          LET kept == [i \in DOMAIN order |-> pending[order[i]]]
          IN  \E n \in 0 .. Len(kept) : ResendPending(kept, n)
    BY <1>2 DEF ReceiveConnAck
  <2> DEFINE kept == [i \in DOMAIN order |-> pending[order[i]]]
  <2>4. kept \in Seq(SidedEntries)
    BY <1>1, <2>3, KeptType DEF Ind
  <2>5. PICK n \in 0 .. Len(kept) : ResendPending(kept, n)
    BY <2>3
  <2> HIDE DEF kept
  <2>6. /\ pending' \in Seq(SidedEntries)
        /\ out_buffer' \in Seq(Packets)
        /\ failure' \in Failures
    BY <2>4, <2>5, ResendStep DEF Ind
  <2> QED BY <2>1, <2>2, <2>6 DEF Ind, BaseInv, States
<1>3. CASE p.reason # "SUCCESS"
  <2>1. state' = "DISCONNECTED" /\ UNCHANGED <<pending, out_buffer, failure, clientVars>>
    BY <1>3 DEF ReceiveConnAck
  <2> QED BY <2>1, ClientUnchanged DEF Ind, BaseInv, States
<1> QED BY <1>2, <1>3

LEMMA ReceiveStep ==
  ASSUME Ind, NEW p \in Packets, Receive(p)
  PROVE  Ind'
<1>1. CASE ReceiveBase(p) /\ UNCHANGED clientVars
  BY <1>1, ReceiveBaseStep, ClientUnchanged DEF Ind
<1>2. CASE ReceivePingResp(p)
  BY <1>2, ClientUnchanged DEF ReceivePingResp, vars, baseVars, Ind, BaseInv
<1>3. ASSUME NEW ack, NEW request, ReceiveRequestAck(p, ack, request)
      PROVE  Ind'
  <2>1. UNCHANGED <<state, out_buffer, clientVars>>
    BY <1>3 DEF ReceiveRequestAck
  <2>2. CASE UNCHANGED <<pending, failure>>
    BY <2>1, <2>2, ClientUnchanged DEF Ind, BaseInv
  <2>3. ASSUME NEW i \in Slots(p.packet_id),
               pending' = RemoveAt(pending, i),
               failure' = Verdict(pending[i].packet.type = request)
        PROVE  Ind'
    BY <2>1, <2>3, PopType, VerdictType, ClientUnchanged DEF Ind, BaseInv
  <2> QED BY <1>3, <2>2, <2>3 DEF ReceiveRequestAck
<1>4. CASE ReceiveRefused(p)
  BY <1>4, FailType, ClientUnchanged DEF ReceiveRefused, Ind
<1> QED
  BY <1>1, <1>2, <1>3, <1>4, ReceiveConnAckStep
  DEF Receive, ReceiveAccepted, ReceiveSubAck, ReceiveUnsubAck

LEMMA FlushStep ==
  ASSUME Ind, Flush
  PROVE  Ind'
BY EmptySeq, ClientUnchanged DEF Flush, GetOutboundData, Ind, BaseInv

-----------------------------------------------------------------------------
(* The theorems                                                            *)

LEMMA InitInd == Init => Ind
<1> SUFFICES ASSUME Init PROVE Ind
  OBVIOUS
<1>1. BaseInv
  BY EmptySeq DEF Init, BaseInv, States, Failures
<1>2. ClientInv
  BY PacketIdAssumption DEF Init, ClientInv, PacketIds, QoS, SubscribedCounted
<1> QED BY <1>1, <1>2 DEF Ind

LEMMA NextInd == Ind /\ [Next]_vars => Ind'
<1> SUFFICES ASSUME Ind, [Next]_vars PROVE Ind'
  OBVIOUS
<1>1. CASE AppCall
  BY <1>1, ConnectStep, DisconnectStep, PingStep, PublishStep, SubscribeStep,
     UnsubscribeStep DEF AppCall
<1>2. CASE \E p \in Packets : Receive(p)
  BY <1>2, ReceiveStep
<1>3. CASE Flush
  BY <1>3, FlushStep
<1>4. CASE UNCHANGED vars
  BY <1>4, ClientUnchanged DEF vars, baseVars, Ind, BaseInv
<1> QED BY <1>1, <1>2, <1>3, <1>4 DEF Next

LEMMA Invariance == Spec => []Ind
BY InitInd, NextInd, PTL DEF Spec

(* Every variable keeps its type, whatever the application calls and the   *)
(* network delivers; in particular no packet id leaves 1 .. MaxPacketId.   *)
THEOREM TypeCorrectness == Spec => []TypeOK
<1>1. Ind => TypeOK
  <2>1. SidedEntries \subseteq Entries
    BY DEF SidedEntries
  <2> QED BY <2>1, SeqMonotonic DEF Ind, BaseInv, ClientInv, TypeOK
<1> QED BY <1>1, Invariance, PTL

(* No acknowledgement moves the handshake of the other direction forward   *)
(* in the table of pending packets that both directions share.             *)
THEOREM HandshakesKeptApart == Spec => []HandshakeSides
<1>1. Ind => HandshakeSides
  BY ElementType, SidedEntryType DEF Ind, BaseInv, HandshakeSides
<1> QED BY <1>1, Invariance, PTL

(* Every pattern that is subscribed to has a user that is counted, also    *)
(* after unsubscribe() raised half way through its patterns.               *)
THEOREM SubscriptionsCounted == Spec => []SubscribedCounted
<1>1. Ind => SubscribedCounted
  BY DEF Ind, ClientInv
<1> QED BY <1>1, Invariance, PTL

-----------------------------------------------------------------------------
(* OwnPublishKept: what each way to change pending does to one of its      *)
(* entries                                                                 *)

\* The enumeration of a finite set of numbers reaches each of them.
LEMMA EnumerationSurjective ==
  ASSUME NEW I \in SUBSET Nat, IsFiniteSet(I), NEW f \in Enumerations(I), NEW i \in I
  PROVE  \E j \in DOMAIN f : f[j] = i
<1>1. Cardinality(I) \in Nat
  BY FS_CardinalityType
<1> DEFINE n == Cardinality(I)
<1>2. f \in [1 .. n -> I] /\ \A a, b \in DOMAIN f : a < b => f[a] < f[b]
  BY DEF Enumerations
<1>3. f \in Injection(1 .. n, I)
  <2>0. n \in Nat
    BY <1>1
  <2> HIDE DEF n
  <2>1. \A a, b \in DOMAIN f : f[a] = f[b] => a = b
    <3> SUFFICES ASSUME NEW a \in DOMAIN f, NEW b \in DOMAIN f, f[a] = f[b], a # b
                 PROVE  FALSE
      OBVIOUS
    <3>1. a \in Int /\ b \in Int /\ f[a] \in Nat
      <4>1. DOMAIN f = 1 .. n
        BY <1>2
      <4>2. a \in 1 .. n /\ b \in 1 .. n
        BY <4>1
      <4>3. f[a] \in I
        BY <1>2, <4>2
      <4>4. a \in Int /\ b \in Int
        BY <2>0, <4>2
      <4>5. f[a] \in Nat
        BY <4>3
      <4> QED BY <4>4, <4>5
    <3>2. a < b \/ b < a
      BY <3>1
    <3> QED BY <1>2, <3>1, <3>2
  <2> QED BY <1>2, <2>1 DEF Injection, IsInjective
<1>4. Cardinality(1 .. n) = n
  BY <1>1, FS_Interval
<1>5. f \in Surjection(1 .. n, I)
  BY <1>3, <1>4, FS_Injection
<1> HIDE DEF n
<1> QED BY <1>2, <1>5 DEF Surjection

\* An own QoS 2 publish that awaits its PUBREC, at position i of pending
Waiting(i) ==
  i \in DOMAIN pending /\ pending[i].own /\ Awaits(pending[i], "UNACKNOWLEDGED")

\* What OwnPublishKept asks of a step for that publish
StaysAt(i) == failure' # "none" \/ HoldsPublish(pending', pending[i].packet)

LEMMA UnchangedKeeps ==
  ASSUME NEW i, Waiting(i), UNCHANGED pending
  PROVE  StaysAt(i)
BY DEF Waiting, StaysAt, HoldsPublish

LEMMA AppendKeeps ==
  ASSUME BaseInv, NEW i, Waiting(i), NEW e \in SidedEntries, pending' = Append(pending, e)
  PROVE  StaysAt(i)
<1>1. i \in 1 .. Len(pending)
  BY LenProperties DEF BaseInv, Waiting
<1>2. i \in DOMAIN pending' /\ pending'[i] = pending[i]
  BY <1>1, LenProperties, AppendProperties DEF BaseInv
<1> QED BY <1>2 DEF Waiting, StaysAt, HoldsPublish

LEMMA AddPendingKeeps ==
  ASSUME BaseInv, NEW i, Waiting(i),
         NEW p \in {x \in Publishes : x.qos > 0} \cup SubscriptionRequests,
         NEW own \in BOOLEAN,
         own \/ Slots(p.packet_id) # {},
         AddPending(p, own)
  PROVE  StaysAt(i)
<1>1. CASE Slots(p.packet_id) = {}
  <2>1. pending' = Append(pending, Entry(p, TRUE))
    BY <1>1 DEF AddPending
  <2> QED BY <2>1, RequestTypes, AppendKeeps
<1>2. CASE Slots(p.packet_id) # {}
  BY <1>2, UnchangedKeeps DEF AddPending
<1> QED BY <1>1, <1>2

\* A request is popped that is not the waiting one, or the session fails.
LEMMA PopKeeps ==
  ASSUME BaseInv, NEW i, Waiting(i), NEW k \in DOMAIN pending,
         pending' = RemoveAt(pending, k),
         k = i => failure' # "none"
  PROVE  StaysAt(i)
<1>1. CASE k = i
  BY <1>1 DEF StaysAt
<1>2. CASE k # i
  <2>1. \E j \in DOMAIN pending' : pending'[j] = pending[i]
    BY <1>2, RemoveAtKeeps DEF BaseInv, Waiting
  <2> QED BY <2>1 DEF Waiting, StaysAt, HoldsPublish
<1> QED BY <1>1, <1>2

LEMMA BaseKeeps ==
  ASSUME BaseInv, NEW i, Waiting(i), NEW p \in Packets, ReceiveBase(p)
  PROVE  StaysAt(i)
<1>1. CASE ReceivePublish(p)
  <2>1. p \in Publishes
    BY <1>1 DEF ReceivePublish, Packets, Acks, SubscriptionRequests, Signals, Handshakes
  <2>2. CASE UNCHANGED pending
    BY <2>2, UnchangedKeeps
  <2>3. CASE p.qos > 0 /\ Slots(p.packet_id) # {} /\ AddPending(p, FALSE)
    BY <2>1, <2>3, AddPendingKeeps
  <2>4. CASE /\ p.qos > 0
             /\ p.qos # 1
             /\ pending' = Append(pending,
                  [packet |-> p, ack_state |-> "ACKNOWLEDGED", own |-> FALSE])
    <3> DEFINE e == [packet |-> p, ack_state |-> "ACKNOWLEDGED", own |-> FALSE]
    <3>1. p.type = "PUBLISH" /\ p.qos = 2
      BY <2>1, <2>4 DEF Publishes
    <3>2. e \in Entries
      BY <2>1, <3>1 DEF Entries, AckStates
    <3>3. Sided(e)
      BY <3>1 DEF Sided, Awaits, IsPublish
    <3>4. e \in SidedEntries
      BY <3>2, <3>3 DEF SidedEntries
    <3>5. pending' = Append(pending, e)
      BY <2>4
    <3> HIDE DEF e
    <3> QED BY <3>4, <3>5, AppendKeeps
  <2> QED
    BY <1>1, <2>2, <2>3, <2>4, ClientAssumption, Zenon DEF ReceivePublish
<1>2. CASE ReceivePubAck(p)
  <2>1. CASE UNCHANGED pending
    BY <2>1, UnchangedKeeps
  <2>2. ASSUME NEW k \in Slots(p.packet_id),
               pending' = RemoveAt(pending, k),
               failure' = Verdict(IsPublish(pending[k], 1))
        PROVE  StaysAt(i)
    <3>1. k = i => failure' = "MQTTProtocolError"
      BY <2>2 DEF Waiting, Awaits, IsPublish, Verdict
    <3> QED BY <2>2, <3>1, PopKeeps DEF Slots
  <2> QED BY <1>2, <2>1, <2>2 DEF ReceivePubAck
<1>3. CASE ReceivePubRec(p)
  <2>1. CASE UNCHANGED pending
    BY <2>1, UnchangedKeeps
  <2>2. ASSUME NEW k \in Slots(p.packet_id),
               pending' = [pending EXCEPT ![k].ack_state = "RELEASED"]
        PROVE  StaysAt(i)
    <3> DEFINE e == [pending[k] EXCEPT !.ack_state = "RELEASED"]
    <3>1. pending' = [pending EXCEPT ![k] = e] /\ k \in DOMAIN pending
      BY <2>2 DEF Slots
    <3>2. e.own = pending[k].own /\ e.packet = pending[k].packet
      <4>1. pending[k] \in Entries
        BY <3>1, ElementType, SidedEntryType DEF BaseInv
      <4> QED BY <4>1 DEF Entries
    <3> HIDE DEF e
    <3>3. i \in DOMAIN pending' /\ pending'[i] = IF i = k THEN e ELSE pending[i]
      BY <3>1 DEF Waiting
    <3> QED BY <3>2, <3>3 DEF Waiting, StaysAt, HoldsPublish
  <2> QED BY <1>3, <2>1, <2>2, ClientAssumption DEF ReceivePubRec, Fail
<1>4. CASE ReceivePubRel(p)
  <2>1. CASE UNCHANGED pending
    BY <2>1, UnchangedKeeps
  <2>2. ASSUME NEW k \in Slots(p.packet_id),
               Awaits(pending[k], "ACKNOWLEDGED"),
               pending' = RemoveAt(pending, k)
        PROVE  StaysAt(i)
    <3>1. k # i
      BY <2>2 DEF Waiting, Awaits
    <3> QED BY <2>2, <3>1, PopKeeps DEF Slots
  <2> QED BY <1>4, <2>1, <2>2, ClientAssumption DEF ReceivePubRel, Fail
<1>5. CASE ReceivePubComp(p)
  <2>1. CASE UNCHANGED pending
    BY <2>1, UnchangedKeeps
  <2>2. ASSUME NEW k \in Slots(p.packet_id),
               pending' = RemoveAt(pending, k),
               failure' = Verdict(Awaits(pending[k], "RELEASED"))
        PROVE  StaysAt(i)
    <3>1. k = i => failure' = "MQTTProtocolError"
      BY <2>2 DEF Waiting, Awaits, Verdict
    <3> QED BY <2>2, <3>1, PopKeeps DEF Slots
  <2> QED BY <1>5, <2>1, <2>2 DEF ReceivePubComp, Fail
<1>6. CASE ReceiveDisconnect(p) \/ ReceiveAuth(p)
  BY <1>6, UnchangedKeeps DEF ReceiveDisconnect, ReceiveAuth, baseVars
<1> QED BY <1>1, <1>2, <1>3, <1>4, <1>5, <1>6 DEF ReceiveBase

LEMMA ConnAckKeeps ==
  ASSUME BaseInv, NEW i, Waiting(i), NEW p \in Packets, ReceiveConnAck(p)
  PROVE  StaysAt(i)
<1>1. CASE UNCHANGED pending
  BY <1>1, UnchangedKeeps
<1>2. ASSUME NEW order \in Enumerations(Kept(p.session_present)),
             NEW n,
             ResendPending([j \in DOMAIN order |-> pending[order[j]]], n)
      PROVE  StaysAt(i)
  <2> DEFINE I    == Kept(p.session_present)
             kept == [j \in DOMAIN order |-> pending[order[j]]]
  <2>1. DOMAIN pending = 1 .. Len(pending) /\ Len(pending) \in Nat
    BY LenProperties DEF BaseInv
  <2>2. i \in I
    BY DEF Kept, Waiting, Awaits, IsPublish
  <2>3. I \in SUBSET Nat /\ IsFiniteSet(I)
    <3>1. I \in SUBSET (1 .. Len(pending))
      BY <2>1 DEF Kept
    <3>2. IsFiniteSet(1 .. Len(pending))
      BY <2>1, FS_Interval
    <3>3. IsFiniteSet(I)
      BY <3>1, <3>2, FS_Subset
    <3> HIDE DEF I
    <3> QED BY <3>1, <3>3
  <2>4. PICK k \in DOMAIN order : order[k] = i
    BY <2>2, <2>3, EnumerationSurjective
  <2>5. kept[k] = pending[i] /\ DOMAIN kept = DOMAIN order
    BY <2>4
  <2>6. pending' = [j \in DOMAIN kept |-> IF j <= n THEN Resent(kept[j]) ELSE kept[j]]
    BY <1>2 DEF ResendPending
  <2> HIDE DEF kept, I
  <2>7. k \in DOMAIN pending' /\ pending'[k] \in {Resent(pending[i]), pending[i]}
    BY <2>4, <2>5, <2>6
  <2>8. /\ Resent(pending[i]).own = pending[i].own
        /\ Resent(pending[i]).packet.packet_id = pending[i].packet.packet_id
        /\ Resent(pending[i]).packet.msg = pending[i].packet.msg
    <3>1. pending[i] \in Entries /\ pending[i].packet.type = "PUBLISH"
      BY ElementType, SidedEntryType DEF BaseInv, Waiting, Awaits, IsPublish
    <3>2. pending[i].packet \in Publishes
      BY <3>1 DEF Entries, SubscriptionRequests
    <3> DEFINE q == Duplicate(pending[i].packet)
    <3>3. q.packet_id = pending[i].packet.packet_id /\ q.msg = pending[i].packet.msg
      BY <3>2 DEF Publishes, Duplicate
    <3> HIDE DEF q
    <3>4. /\ Resent(pending[i]).own = pending[i].own
          /\ Resent(pending[i]).packet = q
      BY <3>1 DEF Entries, Resent, q
    <3> QED BY <3>3, <3>4
  <2> QED BY <2>7, <2>8 DEF Waiting, StaysAt, HoldsPublish
<1> QED BY <1>1, <1>2 DEF ReceiveConnAck

LEMMA NextKeeps ==
  ASSUME Ind, [Next]_vars, NEW i, Waiting(i)
  PROVE  StaysAt(i)
<1>1. CASE UNCHANGED pending
  BY <1>1, UnchangedKeeps
<1>2. ASSUME NEW m \in Messages, NEW q \in QoS, Publish(m, q)
      PROVE  StaysAt(i)
  <2> DEFINE p == PublishPacket(m, q, next_packet_id)
  <2>1. CASE q > 0
    <3>1. AddPending(p, TRUE)
      <4>1. ~(q = 0)
        BY <2>1
      <4> QED BY <1>2, <4>1, Zenon DEF Publish
    <3>2. p \in {x \in Publishes : x.qos > 0}
      BY <2>1 DEF PublishPacket, Publishes, Ind, ClientInv, QoS
    <3> HIDE DEF p
    <3> QED BY <3>1, <3>2, AddPendingKeeps DEF Ind
  <2>2. CASE q = 0
    BY <1>1, <1>2, <2>2 DEF Publish
  <2> QED BY <2>1, <2>2 DEF QoS
<1>3. ASSUME NEW type \in {"SUBSCRIBE", "UNSUBSCRIBE"},
             NEW S \in SUBSET Patterns, S # {},
             AddPending([type |-> type, packet_id |-> next_packet_id, patterns |-> S],
                        TRUE)
      PROVE  StaysAt(i)
  <2> DEFINE p == [type |-> type, packet_id |-> next_packet_id, patterns |-> S]
  <2>1. p \in SubscriptionRequests
    BY <1>3 DEF SubscriptionRequests, Ind, ClientInv
  <2>2. AddPending(p, TRUE)
    BY <1>3
  <2> HIDE DEF p
  <2> QED BY <2>1, <2>2, AddPendingKeeps DEF Ind
<1>4. ASSUME NEW S \in SUBSET Patterns, Subscribe(S) \/ Unsubscribe(S)
      PROVE  StaysAt(i)
  <2>1. CASE Subscribe(S)
    BY <1>1, <1>3, <2>1 DEF Subscribe
  <2>2. CASE Unsubscribe(S)
    BY <1>1, <1>3, <2>2 DEF Unsubscribe
  <2> QED BY <1>4, <2>1, <2>2
<1>5. ASSUME NEW p \in Packets, Receive(p)
      PROVE  StaysAt(i)
  <2>1. ASSUME NEW ack, NEW request \in {"SUBSCRIBE", "UNSUBSCRIBE"},
               ReceiveRequestAck(p, ack, request)
        PROVE  StaysAt(i)
    <3>1. ASSUME NEW k \in Slots(p.packet_id),
                 pending' = RemoveAt(pending, k),
                 failure' = Verdict(pending[k].packet.type = request)
          PROVE  StaysAt(i)
      <4>1. k = i => failure' = "MQTTProtocolError"
        BY <2>1, <3>1 DEF Waiting, Awaits, IsPublish, Verdict
      <4> QED BY <3>1, <4>1, PopKeeps DEF Slots, Ind
    <3> QED BY <1>1, <2>1, <3>1 DEF ReceiveRequestAck
  <2>2. CASE ReceivePingResp(p) \/ ReceiveRefused(p)
    BY <1>1, <2>2 DEF ReceivePingResp, ReceiveRefused, Fail, vars, baseVars
  <2> QED
    BY <1>5, <2>1, <2>2, BaseKeeps, ConnAckKeeps
    DEF Receive, ReceiveAccepted, ReceiveSubAck, ReceiveUnsubAck, Ind
<1>6. CASE UNCHANGED vars
  BY <1>1, <1>6 DEF vars, baseVars
<1>7. CASE AppCall
  <2>1. ASSUME NEW clean_start \in BOOLEAN, Connect(clean_start) PROVE StaysAt(i)
    BY <1>1, <2>1 DEF Connect
  <2>2. CASE Disconnect \/ Ping
    BY <1>1, <2>2 DEF Disconnect, Ping
  <2> QED BY <1>2, <1>4, <1>7, <2>1, <2>2 DEF AppCall
<1>8. CASE Flush
  BY <1>1, <1>8 DEF Flush, GetOutboundData
<1> QED BY <1>5, <1>6, <1>7, <1>8 DEF Next

(* A QoS 2 publish of the application is not dropped before its PUBREL was *)
(* sent, in a session that no exception ends.                              *)
THEOREM OwnPublishesKept == Spec => OwnPublishKept
<1>1. Ind /\ [Next]_vars =>
        [\A i \in DOMAIN pending :
           pending[i].own /\ Awaits(pending[i], "UNACKNOWLEDGED")
             => failure' # "none" \/ HoldsPublish(pending', pending[i].packet)]_vars
  BY NextKeeps DEF Waiting, StaysAt
<1> QED BY <1>1, Invariance, PTL DEF Spec, OwnPublishKept

=============================================================================
