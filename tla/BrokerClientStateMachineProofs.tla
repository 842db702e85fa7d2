------------------- MODULE BrokerClientStateMachineProofs -------------------
(***************************************************************************)
(* What holds of the broker's session of a client for every packet id      *)
(* range, every set of messages and patterns, whatever the network         *)
(* delivers and in whatever order the I/O layer makes its calls.           *)
(*                                                                         *)
(* Both action properties say that a request is used up by its answer: no  *)
(* other entry of pending may have its packet id.  The inductive invariant *)
(* Ind is therefore TypeOK and that pending is what a dict is, a table     *)
(* with one entry for a packet id (IsTable).  Each step but                *)
(* complete_qos2_publish completes no exchange, and each but acknowledging *)
(* a SUBSCRIBE makes no subscription.                                      *)
(***************************************************************************)
EXTENDS BrokerClientStateMachine, SequenceLemmas, TLAPS

IdOf(e) == e.packet.packet_id

IsTable(q) ==
  /\ q \in Seq(Entries)
  /\ \A i, j \in DOMAIN q : IdOf(q[i]) = IdOf(q[j]) => i = j

\* The part of the invariant that is about the variables of BaseStateMachine
BaseInv ==
  /\ state \in States
  /\ IsTable(pending)
  /\ out_buffer \in Seq(Packets)
  /\ failure \in {"none", "MQTTProtocolError"}

Ind == BaseInv /\ subscriptions \in SUBSET Patterns

\* The step sends no PUBCOMP that completes an exchange.
CompletesNone ==
  \A id \in PacketIds : out_buffer' # Append(out_buffer, Ack("PUBCOMP", id, "SUCCESS"))

\* What CompletedOnce and SubscribedOnRequest say of a step
CompletesReleased ==
  \A id \in PacketIds :
    out_buffer' = Append(out_buffer, Ack("PUBCOMP", id, "SUCCESS"))
    => /\ \E i \in Slots(id) : Awaits(pending[i], "RELEASED")
       /\ \A j \in DOMAIN pending' : pending'[j].packet.packet_id # id

SubscribesRequested ==
  \A p \in subscriptions' \ subscriptions :
    \E i \in DOMAIN pending :
      LET request == pending[i].packet
      IN  /\ request.type = "SUBSCRIBE"
          /\ p \in request.patterns
          /\ \A j \in DOMAIN pending' :
               pending'[j].packet.packet_id # request.packet_id
          /\ \E granted \in SUBSET request.patterns :
               /\ p \in granted
               /\ out_buffer' = Append(out_buffer, SubAck(request.packet_id, granted))

Preserved == Ind' /\ CompletesReleased /\ SubscribesRequested

-----------------------------------------------------------------------------
(* Tables                                                                  *)

LEMMA TableRemove ==
  ASSUME NEW q, IsTable(q), NEW k \in DOMAIN q
  PROVE  /\ IsTable(RemoveAt(q, k))
         /\ \A j \in DOMAIN RemoveAt(q, k) : IdOf(RemoveAt(q, k)[j]) # IdOf(q[k])
<1> DEFINE t == RemoveAt(q, k)
<1>1. /\ Len(q) \in Nat /\ DOMAIN q = 1 .. Len(q) /\ k \in 1 .. Len(q)
      /\ \A i, j \in 1 .. Len(q) : IdOf(q[i]) = IdOf(q[j]) => i = j
  BY LenProperties DEF IsTable
<1>2. t \in Seq(Entries)
  BY RemoveAtType DEF IsTable
<1>3. /\ DOMAIN t = 1 .. Len(q) - 1
      /\ \A j \in 1 .. Len(q) - 1 : t[j] = IF j < k THEN q[j] ELSE q[j + 1]
  BY RemoveAtElements DEF IsTable
<1> HIDE DEF t
<1> DEFINE from(j) == IF j < k THEN j ELSE j + 1
<1>4. ASSUME NEW j \in 1 .. Len(q) - 1
      PROVE  from(j) \in 1 .. Len(q) /\ from(j) # k /\ t[j] = q[from(j)]
  <2>1. CASE j < k
    <3>1. from(j) = j /\ j \in 1 .. Len(q) /\ j # k
      BY <1>1, <2>1
    <3>2. t[j] = q[j]
      BY <1>3, <2>1
    <3> QED BY <3>1, <3>2
  <2>2. CASE ~(j < k)
    <3>1. from(j) = j + 1 /\ j + 1 \in 1 .. Len(q) /\ j + 1 # k
      BY <1>1, <2>2
    <3>2. t[j] = q[j + 1]
      BY <1>3, <2>2
    <3> QED BY <3>1, <3>2
  <2> QED BY <2>1, <2>2
<1>5. \A i, j \in 1 .. Len(q) - 1 : from(i) = from(j) => i = j
  BY <1>1
<1> HIDE DEF from
<1>6. ASSUME NEW i \in DOMAIN t, NEW j \in DOMAIN t, IdOf(t[i]) = IdOf(t[j])
      PROVE  i = j
  <2>1. from(i) = from(j)
    BY <1>1, <1>3, <1>4, <1>6
  <2> QED BY <1>3, <1>5, <2>1
<1>7. ASSUME NEW j \in DOMAIN t
      PROVE  IdOf(t[j]) # IdOf(q[k])
  BY <1>1, <1>3, <1>4
<1>8. IsTable(t)
  BY <1>2, <1>6 DEF IsTable
<1> QED BY <1>7, <1>8 DEF t

LEMMA TableReplace ==
  ASSUME NEW q, IsTable(q), NEW k \in DOMAIN q,
         NEW e \in Entries, IdOf(e) = IdOf(q[k])
  PROVE  IsTable([q EXCEPT ![k] = e])
<1> DEFINE t == [q EXCEPT ![k] = e]
<1>1. t \in Seq(Entries)
  BY ReplaceType DEF IsTable
<1>2. DOMAIN t = DOMAIN q
  OBVIOUS
<1>3. ASSUME NEW j \in DOMAIN q
      PROVE  IdOf(t[j]) = IdOf(q[j])
  OBVIOUS
<1> HIDE DEF t
<1>4. IsTable(t)
  BY <1>1, <1>2, <1>3 DEF IsTable
<1> QED BY <1>4 DEF t

LEMMA TableAppend ==
  ASSUME NEW q, IsTable(q), NEW e \in Entries, \A j \in DOMAIN q : IdOf(q[j]) # IdOf(e)
  PROVE  IsTable(Append(q, e))
<1> DEFINE t == Append(q, e)
<1>1. /\ Len(q) \in Nat /\ DOMAIN q = 1 .. Len(q)
      /\ t \in Seq(Entries) /\ Len(t) = Len(q) + 1
      /\ \A j \in 1 .. Len(q) : t[j] = q[j]
      /\ t[Len(q) + 1] = e
  BY AppendProperties, LenProperties DEF IsTable
<1>2. DOMAIN t = 1 .. Len(q) + 1
  BY <1>1, LenProperties
<1> HIDE DEF t
<1>3. ASSUME NEW i \in DOMAIN t, NEW j \in DOMAIN t, IdOf(t[i]) = IdOf(t[j])
      PROVE  i = j
  <2>1. CASE i \in 1 .. Len(q) /\ j \in 1 .. Len(q)
    BY <1>1, <1>3, <2>1 DEF IsTable
  <2>2. CASE i = Len(q) + 1 /\ j \in 1 .. Len(q)
    BY <1>1, <1>3, <2>2
  <2>3. CASE i \in 1 .. Len(q) /\ j = Len(q) + 1
    BY <1>1, <1>3, <2>3
  <2>4. CASE i = Len(q) + 1 /\ j = Len(q) + 1
    BY <2>4
  <2> QED BY <1>1, <1>2, <2>1, <2>2, <2>3, <2>4
<1>4. IsTable(t)
  BY <1>1, <1>3 DEF IsTable
<1> QED BY <1>4 DEF t

-----------------------------------------------------------------------------
(* Packets and entries                                                     *)

LEMMA PacketTypes ==
  /\ \A id \in PacketIds, reason \in ReceiveReasons :
       \A type \in {"PUBACK", "PUBREC", "UNSUBACK"} : Ack(type, id, reason) \in Packets
  /\ \A id \in PacketIds, reason \in ReleaseReasons :
       \A type \in {"PUBREL", "PUBCOMP"} : Ack(type, id, reason) \in Packets
  /\ \A id \in PacketIds, granted \in SUBSET Patterns : SubAck(id, granted) \in Packets
  /\ Signal("PINGRESP") \in Packets
BY DEF Packets, Acks, Signals, Ack, SubAck, Signal

LEMMA AckType ==
  ASSUME NEW p \in Packets, p.type \in {"PUBACK", "PUBREC", "PUBREL", "PUBCOMP"}
  PROVE  p.packet_id \in PacketIds
BY DEF Packets, Publishes, Acks, SubscriptionRequests, Signals, Handshakes

LEMMA RequestTypes ==
  ASSUME NEW p \in {x \in Publishes : x.qos > 0} \cup SubscriptionRequests,
         NEW own \in BOOLEAN
  PROVE  /\ p \in Packets
         /\ p.packet_id \in PacketIds
         /\ p.type # "PUBCOMP"
         /\ InUse(p) \in Packets
         /\ InUse(p).type # "PUBCOMP"
         /\ Entry(p, own) \in Entries
         /\ IdOf(Entry(p, own)) = p.packet_id
<1>1. p \in Packets
  BY DEF Packets
<1>2. p.packet_id \in PacketIds /\ p.type # "PUBCOMP"
  BY DEF Publishes, SubscriptionRequests
<1>3. InUse(p) \in Packets
  BY <1>2, PacketTypes DEF InUse, ReceiveReasons
<1>4. InUse(p).type # "PUBCOMP"
  BY DEF InUse, SubAck, Ack
<1>5. Entry(p, own) \in Entries /\ IdOf(Entry(p, own)) = p.packet_id
  BY DEF Entry, Entries, AckStates, IdOf
<1> QED BY <1>1, <1>2, <1>3, <1>4, <1>5

LEMMA MovedEntry ==
  ASSUME NEW e \in Entries, NEW ack_state \in AckStates
  PROVE  /\ [e EXCEPT !.ack_state = ack_state] \in Entries
         /\ IdOf([e EXCEPT !.ack_state = ack_state]) = IdOf(e)
BY DEF Entries, IdOf

LEMMA SlotType ==
  ASSUME BaseInv, NEW id, NEW i \in Slots(id)
  PROVE  /\ i \in DOMAIN pending
         /\ pending[i] \in Entries
         /\ IdOf(pending[i]) = id
BY ElementType DEF BaseInv, IsTable, Slots, IdOf

LEMMA VerdictType ==
  ASSUME BaseInv, NEW ok
  PROVE  Verdict(ok) \in {"none", "MQTTProtocolError"}
BY DEF BaseInv, Verdict

-----------------------------------------------------------------------------
(* What the handlers do to out_buffer and pending                          *)

LEMMA SendStep ==
  ASSUME BaseInv, NEW p \in Packets, Send(p)
  PROVE  out_buffer' \in Seq(Packets)
BY AppendProperties DEF BaseInv, Send

LEMMA SendCompletesNone ==
  ASSUME BaseInv, NEW p \in Packets, Send(p),
         \A id \in PacketIds : p # Ack("PUBCOMP", id, "SUCCESS")
  PROVE  CompletesNone
<1> SUFFICES ASSUME NEW id \in PacketIds,
                    out_buffer' = Append(out_buffer, Ack("PUBCOMP", id, "SUCCESS"))
             PROVE  FALSE
  BY DEF CompletesNone
<1> DEFINE completion == Ack("PUBCOMP", id, "SUCCESS")
<1>1. completion \in Packets
  BY PacketTypes DEF ReleaseReasons
<1>2. p # completion
  OBVIOUS
<1>3. Append(out_buffer, p) = Append(out_buffer, completion)
  BY DEF Send
<1> HIDE DEF completion
<1>4. out_buffer \in Seq(Packets)
  BY DEF BaseInv
<1>5. p = completion
  BY <1>1, <1>3, <1>4, AppendNewInjective
<1> QED BY <1>2, <1>5

LEMMA SilentStep ==
  ASSUME BaseInv, UNCHANGED out_buffer
  PROVE  CompletesNone
<1> SUFFICES ASSUME NEW id \in PacketIds
             PROVE  out_buffer # Append(out_buffer, Ack("PUBCOMP", id, "SUCCESS"))
  BY DEF CompletesNone
<1>1. Ack("PUBCOMP", id, "SUCCESS") \in Packets
  BY PacketTypes DEF ReleaseReasons
<1> QED BY <1>1, AppendLonger DEF BaseInv

LEMMA FailStep ==
  ASSUME BaseInv, Fail
  PROVE  BaseInv' /\ CompletesNone
<1>1. failure' = "MQTTProtocolError" /\ UNCHANGED <<state, pending, out_buffer>>
  BY DEF Fail
<1>2. BaseInv'
  BY <1>1 DEF BaseInv, IsTable
<1> QED BY <1>1, <1>2, SilentStep

\* An entry is moved on in its handshake.
LEMMA MoveStep ==
  ASSUME BaseInv, NEW id, NEW i \in Slots(id), NEW ack_state \in AckStates
  PROVE  IsTable([pending EXCEPT ![i].ack_state = ack_state])
<1> DEFINE e == [pending[i] EXCEPT !.ack_state = ack_state]
<1>1. i \in DOMAIN pending /\ pending[i] \in Entries
  BY SlotType
<1>2. e \in Entries /\ IdOf(e) = IdOf(pending[i])
  BY <1>1, MovedEntry
<1> HIDE DEF e
<1>3. IsTable([pending EXCEPT ![i] = e])
  BY <1>1, <1>2, TableReplace DEF BaseInv
<1> QED BY <1>3 DEF e

\* A request that is answered leaves no entry with its packet id.
LEMMA PopStep ==
  ASSUME BaseInv, NEW id, NEW i \in Slots(id)
  PROVE  /\ IsTable(RemoveAt(pending, i))
         /\ \A j \in DOMAIN RemoveAt(pending, i) : IdOf(RemoveAt(pending, i)[j]) # id
BY SlotType, TableRemove DEF BaseInv

\* The table grows by an entry whose packet id is free.
LEMMA InsertStep ==
  ASSUME BaseInv, NEW e \in Entries, Slots(IdOf(e)) = {}, pending' = Append(pending, e)
  PROVE  IsTable(pending')
<1>1. \A j \in DOMAIN pending : IdOf(pending[j]) # IdOf(e)
  BY DEF Slots, IdOf
<1> QED BY <1>1, TableAppend DEF BaseInv

LEMMA AddPendingStep ==
  ASSUME BaseInv,
         NEW p \in {x \in Publishes : x.qos > 0} \cup SubscriptionRequests,
         NEW own \in BOOLEAN,
         AddPending(p, own)
  PROVE  IsTable(pending') /\ out_buffer' \in Seq(Packets) /\ CompletesNone
<1> USE RequestTypes
<1>1. CASE Slots(p.packet_id) = {}
  <2>1. pending' = Append(pending, Entry(p, own))
        /\ out_buffer' = IF own THEN Append(out_buffer, p) ELSE out_buffer
    BY <1>1 DEF AddPending
  <2>2. IsTable(pending')
    BY <1>1, <2>1, InsertStep
  <2>3. CASE own
    <3>1. Send(p)
      BY <2>1, <2>3 DEF Send
    <3>2. \A id \in PacketIds : p # Ack("PUBCOMP", id, "SUCCESS")
      BY DEF Ack
    <3> QED BY <2>2, <3>1, <3>2, SendStep, SendCompletesNone
  <2>4. CASE ~own
    BY <2>1, <2>2, <2>4, SilentStep DEF BaseInv
  <2> QED BY <2>3, <2>4
<1>2. CASE Slots(p.packet_id) # {}
  <2>1. UNCHANGED pending
        /\ out_buffer' = Append(IF own THEN Append(out_buffer, p) ELSE out_buffer, InUse(p))
    BY <1>2 DEF AddPending
  <2>2. IsTable(pending')
    BY <2>1 DEF BaseInv
  <2>3. CASE own
    <3>1. out_buffer' = Append(Append(out_buffer, p), InUse(p))
      BY <2>1, <2>3
    <3>2. out_buffer' \in Seq(Packets)
      BY <3>1, AppendProperties DEF BaseInv
    <3>3. CompletesNone
      <4> SUFFICES ASSUME NEW id \in PacketIds,
                          out_buffer' = Append(out_buffer, Ack("PUBCOMP", id, "SUCCESS"))
                   PROVE  FALSE
        BY DEF CompletesNone
      <4>1. Ack("PUBCOMP", id, "SUCCESS") \in Packets
        BY PacketTypes DEF ReleaseReasons
      <4> QED BY <3>1, <4>1, AppendLonger DEF BaseInv
    <3> QED BY <2>2, <3>2, <3>3
  <2>4. CASE ~own
    <3>1. Send(InUse(p))
      BY <2>1, <2>4 DEF Send
    <3>2. \A id \in PacketIds : InUse(p) # Ack("PUBCOMP", id, "SUCCESS")
      BY DEF Ack
    <3> QED BY <2>2, <3>1, <3>2, SendStep, SendCompletesNone
  <2> QED BY <2>3, <2>4
<1> QED BY <1>1, <1>2

-----------------------------------------------------------------------------
(* The handlers of BaseStateMachine                                        *)

LEMMA ReceivePublishStep ==
  ASSUME BaseInv, NEW p \in Packets, ReceivePublish(p)
  PROVE  BaseInv' /\ CompletesNone
<1>1. p.type = "PUBLISH" /\ UNCHANGED <<state, failure>>
  BY DEF ReceivePublish
<1>2. p \in Publishes
  BY <1>1 DEF Packets, Acks, SubscriptionRequests, Signals, Handshakes
<1>3. CASE UNCHANGED <<pending, out_buffer>>
  <2>1. BaseInv'
    BY <1>1, <1>3 DEF BaseInv, IsTable
  <2> QED BY <1>3, <2>1, SilentStep
<1>4. CASE p.qos > 0 /\ AddPending(p, FALSE)
  <2>1. p \in {x \in Publishes : x.qos > 0}
    BY <1>2, <1>4
  <2>2. IsTable(pending') /\ out_buffer' \in Seq(Packets) /\ CompletesNone
    BY <1>4, <2>1, AddPendingStep
  <2> QED BY <1>1, <2>2 DEF BaseInv
<1> QED BY <1>3, <1>4, BrokerSessionAssumption DEF ReceivePublish

LEMMA ReceivePubAckStep ==
  ASSUME BaseInv, NEW p \in Packets, ReceivePubAck(p)
  PROVE  BaseInv' /\ CompletesNone
<1>1. UNCHANGED <<state, out_buffer>>
  BY DEF ReceivePubAck
<1>2. CASE UNCHANGED <<pending, failure>>
  BY <1>1, <1>2, SilentStep DEF BaseInv
<1>3. ASSUME NEW i \in Slots(p.packet_id),
             pending' = RemoveAt(pending, i),
             failure' = Verdict(IsPublish(pending[i], 1))
      PROVE  BaseInv' /\ CompletesNone
  BY <1>1, <1>3, PopStep, VerdictType, SilentStep DEF BaseInv
<1> QED BY <1>2, <1>3 DEF ReceivePubAck

LEMMA ReceivePubRecStep ==
  ASSUME BaseInv, NEW p \in Packets, ReceivePubRec(p)
  PROVE  BaseInv' /\ CompletesNone
<1>1. CASE Fail
  BY <1>1, FailStep
<1>2. CASE /\ Send(Ack("PUBREL", p.packet_id, "PACKET_IDENTIFIER_NOT_FOUND"))
           /\ UNCHANGED <<state, pending, failure>>
  <2> DEFINE answer == Ack("PUBREL", p.packet_id, "PACKET_IDENTIFIER_NOT_FOUND")
  <2>1. answer \in Packets
    BY AckType, PacketTypes DEF ReceivePubRec, ReleaseReasons
  <2>2. \A id \in PacketIds : answer # Ack("PUBCOMP", id, "SUCCESS")
    BY DEF Ack
  <2> HIDE DEF answer
  <2>3. Send(answer)
    BY <1>2 DEF answer
  <2> QED BY <1>2, <2>1, <2>2, <2>3, SendStep, SendCompletesNone DEF BaseInv
<1>3. ASSUME NEW i \in Slots(p.packet_id),
             pending' = [pending EXCEPT ![i].ack_state = "ACKNOWLEDGED"],
             UNCHANGED <<state, out_buffer, failure>>
      PROVE  BaseInv' /\ CompletesNone
  <2> DEFINE moved == [pending EXCEPT ![i].ack_state = "ACKNOWLEDGED"]
  <2>1. IsTable(moved)
    BY MoveStep DEF AckStates
  <2>2. pending' = moved
    BY <1>3
  <2>3. UNCHANGED <<state, out_buffer, failure>>
    BY <1>3
  <2> HIDE DEF moved
  <2> QED BY <2>1, <2>2, <2>3, SilentStep DEF BaseInv
<1> QED BY <1>1, <1>2, <1>3, BrokerSessionAssumption DEF ReceivePubRec

LEMMA ReceivePubRelStep ==
  ASSUME BaseInv, NEW p \in Packets, ReceivePubRel(p)
  PROVE  BaseInv' /\ CompletesNone
<1>1. CASE Fail
  BY <1>1, FailStep
<1>2. CASE /\ Send(Ack("PUBCOMP", p.packet_id, "PACKET_IDENTIFIER_NOT_FOUND"))
           /\ UNCHANGED <<state, pending, failure>>
  <2> DEFINE answer == Ack("PUBCOMP", p.packet_id, "PACKET_IDENTIFIER_NOT_FOUND")
  <2>1. answer \in Packets
    BY AckType, PacketTypes DEF ReceivePubRel, ReleaseReasons
  <2>2. \A id \in PacketIds : answer # Ack("PUBCOMP", id, "SUCCESS")
    BY DEF Ack
  <2> HIDE DEF answer
  <2>3. Send(answer)
    BY <1>2 DEF answer
  <2> QED BY <1>2, <2>1, <2>2, <2>3, SendStep, SendCompletesNone DEF BaseInv
<1>3. ASSUME NEW i \in Slots(p.packet_id),
             pending' = [pending EXCEPT ![i].ack_state = "RELEASED"],
             UNCHANGED <<state, out_buffer, failure>>
      PROVE  BaseInv' /\ CompletesNone
  <2> DEFINE moved == [pending EXCEPT ![i].ack_state = "RELEASED"]
  <2>1. IsTable(moved)
    BY MoveStep DEF AckStates
  <2>2. pending' = moved
    BY <1>3
  <2>3. UNCHANGED <<state, out_buffer, failure>>
    BY <1>3
  <2> HIDE DEF moved
  <2> QED BY <2>1, <2>2, <2>3, SilentStep DEF BaseInv
<1> QED BY <1>1, <1>2, <1>3, BrokerSessionAssumption DEF ReceivePubRel

LEMMA ReceivePubCompStep ==
  ASSUME BaseInv, NEW p \in Packets, ReceivePubComp(p)
  PROVE  BaseInv' /\ CompletesNone
<1>1. CASE Fail
  BY <1>1, FailStep
<1>2. ASSUME NEW i \in Slots(p.packet_id),
             pending' = RemoveAt(pending, i),
             failure' = Verdict(Awaits(pending[i], "RELEASED")),
             UNCHANGED <<state, out_buffer>>
      PROVE  BaseInv' /\ CompletesNone
  BY <1>2, PopStep, VerdictType, SilentStep DEF BaseInv
<1> QED BY <1>1, <1>2 DEF ReceivePubComp

LEMMA ReceiveBaseStep ==
  ASSUME BaseInv, NEW p \in Packets, ReceiveBase(p)
  PROVE  BaseInv' /\ CompletesNone
<1>1. CASE ReceiveDisconnect(p)
  BY <1>1, SilentStep DEF ReceiveDisconnect, BaseInv, States
<1>2. CASE ReceiveAuth(p)
  BY <1>2, SilentStep DEF ReceiveAuth, BaseInv, baseVars
<1> QED
  BY <1>1, <1>2, ReceivePublishStep, ReceivePubAckStep, ReceivePubRecStep,
     ReceivePubRelStep, ReceivePubCompStep DEF ReceiveBase

LEMMA AcknowledgePublishStep ==
  ASSUME BaseInv, NEW id \in PacketIds, NEW reason \in ReceiveReasons,
         AcknowledgePublish(id, reason)
  PROVE  BaseInv' /\ CompletesNone
<1>1. CASE Fail
  BY <1>1, FailStep
<1>2. ASSUME NEW i \in Slots(id), NEW type \in {"PUBACK", "PUBREC"},
             NEW table, IsTable(table), pending' = table,
             Send(Ack(type, id, reason)),
             UNCHANGED <<state, failure>>
      PROVE  BaseInv' /\ CompletesNone
  <2> DEFINE answer == Ack(type, id, reason)
  <2>1. answer \in Packets
    BY PacketTypes
  <2>2. \A x \in PacketIds : answer # Ack("PUBCOMP", x, "SUCCESS")
    BY DEF Ack
  <2> HIDE DEF answer
  <2>3. Send(answer)
    BY <1>2 DEF answer
  <2> QED BY <1>2, <2>1, <2>2, <2>3, SendStep, SendCompletesNone DEF BaseInv
<1>3. ASSUME NEW i \in Slots(id),
             IsPublish(pending[i], 1),
             pending' = RemoveAt(pending, i),
             Send(Ack("PUBACK", id, reason)),
             UNCHANGED <<state, failure>>
      PROVE  BaseInv' /\ CompletesNone
  <2>1. IsTable(RemoveAt(pending, i))
    BY PopStep
  <2> QED BY <1>2, <1>3, <2>1
<1>4. ASSUME NEW i \in Slots(id),
             pending' = Append(RemoveAt(pending, i),
                               [pending[i] EXCEPT !.ack_state = "ACKNOWLEDGED"]),
             Send(Ack("PUBREC", id, reason)),
             UNCHANGED <<state, failure>>
      PROVE  BaseInv' /\ CompletesNone
  <2> DEFINE rest  == RemoveAt(pending, i)
             moved == [pending[i] EXCEPT !.ack_state = "ACKNOWLEDGED"]
  <2>1. moved \in Entries /\ IdOf(moved) = id
    BY SlotType, MovedEntry DEF AckStates
  <2>2. IsTable(rest) /\ \A j \in DOMAIN rest : IdOf(rest[j]) # id
    BY PopStep
  <2>3. pending' = Append(rest, moved)
    BY <1>4
  <2> HIDE DEF rest, moved
  <2>4. IsTable(Append(rest, moved))
    BY <2>1, <2>2, TableAppend
  <2> QED BY <1>2, <1>4, <2>3, <2>4
<1>5. ASSUME NEW i \in Slots(id),
             pending' = RemoveAt(pending, i),
             failure' = "MQTTProtocolError",
             UNCHANGED <<state, out_buffer>>
      PROVE  BaseInv' /\ CompletesNone
  BY <1>5, PopStep, SilentStep DEF BaseInv
<1>6. CASE Slots(id) = {} /\ Fail
  BY <1>1, <1>6
<1>7. ASSUME NEW i \in Slots(id),
             \/ /\ IsPublish(pending[i], 1)
                /\ pending' = RemoveAt(pending, i)
                /\ Send(Ack("PUBACK", id, reason))
             \/ /\ IsPublish(pending[i], 2)
                /\ pending' = Append(RemoveAt(pending, i),
                                     [pending[i] EXCEPT !.ack_state = "ACKNOWLEDGED"])
                /\ Send(Ack("PUBREC", id, reason))
             \/ /\ pending[i].packet.type # "PUBLISH"
                /\ pending' = RemoveAt(pending, i)
                /\ UNCHANGED out_buffer,
             failure' = Verdict(pending[i].packet.type = "PUBLISH"),
             UNCHANGED state
      PROVE  BaseInv' /\ CompletesNone
  <2>1. CASE /\ IsPublish(pending[i], 1)
             /\ pending' = RemoveAt(pending, i)
             /\ Send(Ack("PUBACK", id, reason))
    BY <1>3, <1>7, <2>1 DEF IsPublish, Verdict
  <2>2. CASE /\ IsPublish(pending[i], 2)
             /\ pending' = Append(RemoveAt(pending, i),
                                  [pending[i] EXCEPT !.ack_state = "ACKNOWLEDGED"])
             /\ Send(Ack("PUBREC", id, reason))
    <3>1. UNCHANGED <<state, failure>>
      BY <1>7, <2>2, Zenon DEF IsPublish, Verdict
    <3> QED BY <1>4, <2>2, <3>1, Zenon
  <2>3. CASE /\ pending[i].packet.type # "PUBLISH"
             /\ pending' = RemoveAt(pending, i)
             /\ UNCHANGED out_buffer
    BY <1>5, <1>7, <2>3 DEF Verdict
  <2> QED BY <1>7, <2>1, <2>2, <2>3, Zenon
<1> QED BY <1>6, <1>7, Zenon DEF AcknowledgePublish

LEMMA ReleaseQos2PublishStep ==
  ASSUME BaseInv, NEW id \in PacketIds, NEW reason \in ReleaseReasons,
         ReleaseQos2Publish(id, reason)
  PROVE  BaseInv' /\ CompletesNone
<1>1. CASE Fail
  BY <1>1, FailStep
<1>2. ASSUME NEW table, IsTable(table), pending' = table,
             Send(Ack("PUBREL", id, reason)),
             UNCHANGED <<state, failure>>
      PROVE  BaseInv' /\ CompletesNone
  <2> DEFINE answer == Ack("PUBREL", id, reason)
  <2>1. answer \in Packets
    BY PacketTypes
  <2>2. \A x \in PacketIds : answer # Ack("PUBCOMP", x, "SUCCESS")
    BY DEF Ack
  <2> HIDE DEF answer
  <2>3. Send(answer)
    BY <1>2 DEF answer
  <2> QED BY <1>2, <2>1, <2>2, <2>3, SendStep, SendCompletesNone DEF BaseInv
<1>3. CASE /\ Send(Ack("PUBREL", id, reason))
           /\ UNCHANGED <<state, pending, failure>>
  <2>1. IsTable(pending)
    BY DEF BaseInv
  <2> QED BY <1>2, <1>3, <2>1
<1>4. ASSUME NEW i \in Slots(id),
             pending' = [pending EXCEPT ![i].ack_state = "RELEASED"],
             Send(Ack("PUBREL", id, reason)),
             UNCHANGED <<state, failure>>
      PROVE  BaseInv' /\ CompletesNone
  <2> DEFINE moved == [pending EXCEPT ![i].ack_state = "RELEASED"]
  <2>1. IsTable(moved)
    BY MoveStep DEF AckStates
  <2>2. pending' = moved
    BY <1>4
  <2> HIDE DEF moved
  <2> QED BY <1>2, <1>4, <2>1, <2>2, Zenon
<1> QED BY <1>1, <1>3, <1>4, Zenon DEF ReleaseQos2Publish

\* The one call that completes an exchange pops the entry it completes.
LEMMA CompleteQos2PublishStep ==
  ASSUME BaseInv, NEW id \in PacketIds, NEW reason \in ReleaseReasons,
         CompleteQos2Publish(id, reason)
  PROVE  BaseInv' /\ CompletesReleased
<1>1. CASE Fail
  BY <1>1, FailStep DEF CompletesNone, CompletesReleased
<1> DEFINE answer == Ack("PUBCOMP", id, reason)
<1>2. answer \in Packets /\ answer.packet_id = id /\ answer.reason = reason
  BY PacketTypes DEF Ack
<1> HIDE DEF answer
<1>3. CASE /\ reason = "PACKET_IDENTIFIER_NOT_FOUND"
           /\ Send(answer)
           /\ UNCHANGED <<state, pending, failure>>
  <2>1. \A x \in PacketIds : answer # Ack("PUBCOMP", x, "SUCCESS")
    BY <1>2, <1>3 DEF Ack
  <2>2. CompletesNone
    BY <1>2, <1>3, <2>1, SendCompletesNone
  <2>3. BaseInv'
    BY <1>2, <1>3, SendStep DEF BaseInv
  <2> QED BY <2>2, <2>3 DEF CompletesNone, CompletesReleased
<1>4. ASSUME NEW i \in Slots(id),
             pending' = RemoveAt(pending, i),
             failure' = Verdict(Awaits(pending[i], "RELEASED")),
             IF Awaits(pending[i], "RELEASED") THEN Send(answer)
                                               ELSE UNCHANGED out_buffer,
             UNCHANGED state
      PROVE  BaseInv' /\ CompletesReleased
  <2>1. IsTable(pending') /\ \A j \in DOMAIN pending' : IdOf(pending'[j]) # id
    BY <1>4, PopStep
  <2>2. failure' \in {"none", "MQTTProtocolError"}
    BY <1>4, VerdictType
  <2>3. CASE Awaits(pending[i], "RELEASED")
    <3>1. Send(answer)
      BY <1>4, <2>3
    <3>2. BaseInv'
      BY <1>2, <1>4, <2>1, <2>2, <3>1, SendStep DEF BaseInv
    <3>3. ASSUME NEW x \in PacketIds,
                 out_buffer' = Append(out_buffer, Ack("PUBCOMP", x, "SUCCESS"))
          PROVE  x = id
      <4> DEFINE completion == Ack("PUBCOMP", x, "SUCCESS")
      <4>1. completion \in Packets /\ completion.packet_id = x
        BY PacketTypes DEF Ack, ReleaseReasons
      <4>2. Append(out_buffer, answer) = Append(out_buffer, completion)
        BY <3>1, <3>3 DEF Send
      <4> HIDE DEF completion
      <4>3. out_buffer \in Seq(Packets)
        BY DEF BaseInv
      <4>4. answer = completion
        BY <1>2, <4>1, <4>2, <4>3, AppendNewInjective
      <4> QED BY <1>2, <4>1, <4>4
    <3>4. CompletesReleased
      BY <2>1, <2>3, <3>3 DEF CompletesReleased, IdOf
    <3> QED BY <3>2, <3>4
  <2>4. CASE ~Awaits(pending[i], "RELEASED")
    <3>1. UNCHANGED <<state, out_buffer>>
      BY <1>4, <2>4
    <3>2. BaseInv' /\ CompletesNone
      BY <2>1, <2>2, <3>1, SilentStep DEF BaseInv
    <3> QED BY <3>2 DEF CompletesNone, CompletesReleased
  <2> QED BY <2>3, <2>4
<1> QED BY <1>1, <1>3, <1>4, Zenon DEF CompleteQos2Publish, answer

-----------------------------------------------------------------------------
(* The actions of the broker's session                                     *)

LEMMA PlainStep ==
  ASSUME Ind, BaseInv', CompletesNone, subscriptions' \subseteq subscriptions
  PROVE  Preserved
BY DEF Ind, Preserved, CompletesNone, CompletesReleased, SubscribesRequested

LEMMA ReceiveConnectStep ==
  ASSUME Ind, NEW p \in Packets, ReceiveConnect(p)
  PROVE  Preserved
<1>1. state' = "CONNECTING" /\ UNCHANGED <<pending, out_buffer, failure, subscriptions>>
  BY DEF ReceiveConnect
<1>2. BaseInv' /\ CompletesNone
  BY <1>1, SilentStep DEF Ind, BaseInv, States
<1> QED BY <1>1, <1>2, PlainStep

LEMMA ReceivePingReqStep ==
  ASSUME Ind, NEW p \in Packets, ReceivePingReq(p)
  PROVE  Preserved
<1> DEFINE answer == Signal("PINGRESP")
<1>1. answer \in Packets /\ \A id \in PacketIds : answer # Ack("PUBCOMP", id, "SUCCESS")
  <2>1. answer \in Packets
    BY PacketTypes
  <2>2. answer.type # "PUBCOMP"
    BY DEF Signal
  <2> HIDE DEF answer
  <2>3. \A id \in PacketIds : answer # Ack("PUBCOMP", id, "SUCCESS")
    BY <2>2 DEF Ack
  <2> QED BY <2>1, <2>3
<1>2. Send(answer) /\ UNCHANGED <<state, pending, failure, subscriptions>>
  BY DEF ReceivePingReq
<1> HIDE DEF answer
<1>3. BaseInv' /\ CompletesNone
  BY <1>1, <1>2, SendStep, SendCompletesNone DEF Ind, BaseInv
<1> QED BY <1>2, <1>3, PlainStep

LEMMA RequestReceived ==
  ASSUME Ind, NEW p \in SubscriptionRequests, AddPending(p, FALSE),
         UNCHANGED <<state, failure, subscriptions>>
  PROVE  Preserved
<1>1. IsTable(pending') /\ out_buffer' \in Seq(Packets) /\ CompletesNone
  BY AddPendingStep DEF Ind
<1>2. BaseInv'
  BY <1>1 DEF Ind, BaseInv
<1> QED BY <1>1, <1>2, PlainStep

LEMMA ReceiveSubscribeStep ==
  ASSUME Ind, NEW p \in Packets, ReceiveSubscribe(p)
  PROVE  Preserved
<1>1. p \in SubscriptionRequests
  BY DEF ReceiveSubscribe, Packets, Publishes, Acks, Signals, Handshakes
<1> QED BY <1>1, RequestReceived DEF ReceiveSubscribe

LEMMA ReceiveUnsubscribeStep ==
  ASSUME Ind, NEW p \in Packets, ReceiveUnsubscribe(p)
  PROVE  Preserved
<1>1. p \in SubscriptionRequests
  BY DEF ReceiveUnsubscribe, Packets, Publishes, Acks, Signals, Handshakes
<1>2. UNCHANGED <<state, failure>>
  BY DEF ReceiveUnsubscribe
<1>3. CASE AddPending(p, FALSE) /\ UNCHANGED subscriptions
  BY <1>1, <1>2, <1>3, RequestReceived
<1>4. CASE /\ Slots(p.packet_id) = {}
           /\ pending' = Append(pending, Entry(p, FALSE))
           /\ subscriptions' = subscriptions \ p.patterns
           /\ Send(Ack("UNSUBACK", p.packet_id, "SUCCESS"))
  <2> DEFINE answer == Ack("UNSUBACK", p.packet_id, "SUCCESS")
  <2>1. /\ Entry(p, FALSE) \in Entries /\ IdOf(Entry(p, FALSE)) = p.packet_id
        /\ p.packet_id \in PacketIds
    BY <1>1, RequestTypes
  <2>2. answer \in Packets
    BY <2>1, PacketTypes DEF ReceiveReasons
  <2>3. \A id \in PacketIds : answer # Ack("PUBCOMP", id, "SUCCESS")
    BY DEF Ack
  <2>4. Send(answer)
    BY <1>4
  <2> HIDE DEF answer
  <2>5. IsTable(pending')
    BY <1>4, <2>1, InsertStep DEF Ind
  <2>6. BaseInv' /\ CompletesNone
    BY <1>2, <2>2, <2>3, <2>4, <2>5, SendStep, SendCompletesNone DEF Ind, BaseInv
  <2> QED BY <1>4, <2>6, PlainStep
<1> QED BY <1>3, <1>4 DEF ReceiveUnsubscribe

LEMMA ReceiveStep ==
  ASSUME Ind, NEW p \in Packets, Receive(p)
  PROVE  Preserved
<1>1. CASE ReceiveRefused(p)
  <2>1. BaseInv' /\ CompletesNone
    BY <1>1, FailStep DEF ReceiveRefused, Ind
  <2> QED BY <1>1, <2>1, PlainStep DEF ReceiveRefused
<1>2. CASE ReceiveBase(p) /\ UNCHANGED subscriptions
  <2>1. BaseInv' /\ CompletesNone
    BY <1>2, ReceiveBaseStep DEF Ind
  <2> QED BY <1>2, <2>1, PlainStep
<1> QED
  BY <1>1, <1>2, ReceiveConnectStep, ReceivePingReqStep, ReceiveSubscribeStep,
     ReceiveUnsubscribeStep DEF Receive, ReceiveAccepted

LEMMA AcknowledgeConnectStep ==
  ASSUME Ind, NEW reason \in {"SUCCESS", "REFUSED"}, NEW session_present \in BOOLEAN,
         AcknowledgeConnect(reason, session_present)
  PROVE  Preserved
<1> DEFINE answer == [type |-> "CONNACK", reason |-> reason,
                      session_present |-> session_present, maximum_qos |-> 2]
<1>1. answer \in Packets /\ answer.type # "PUBCOMP"
  BY DEF Packets, Handshakes, QoS
<1>2. Send(answer) /\ state' \in States /\ UNCHANGED <<pending, failure, subscriptions>>
  BY DEF AcknowledgeConnect, States
<1> HIDE DEF answer
<1>3. \A id \in PacketIds : answer # Ack("PUBCOMP", id, "SUCCESS")
  BY <1>1 DEF Ack
<1>4. BaseInv' /\ CompletesNone
  BY <1>1, <1>2, <1>3, SendStep, SendCompletesNone DEF Ind, BaseInv
<1> QED BY <1>2, <1>4, PlainStep

\* The one call that makes subscriptions pops the request that asked for them.
LEMMA AcknowledgeSubscribeStep ==
  ASSUME Ind, NEW id \in PacketIds, NEW granted \in [Patterns -> {-1, 0, 1}],
         AcknowledgeSubscribe(id, granted)
  PROVE  Preserved
<1>1. CASE Fail /\ UNCHANGED subscriptions
  <2>1. BaseInv' /\ CompletesNone
    BY <1>1, FailStep DEF Ind
  <2> QED BY <1>1, <2>1, PlainStep
<1>2. ASSUME NEW i \in Slots(id),
             pending[i].packet.type = "SUBSCRIBE",
             pending' = RemoveAt(pending, i),
             subscriptions' = subscriptions
               \cup {p \in pending[i].packet.patterns : granted[p] = 0},
             Send(SubAck(id, {p \in pending[i].packet.patterns : granted[p] >= 0})),
             UNCHANGED <<state, failure>>
      PROVE  Preserved
  <2> DEFINE request == pending[i].packet
             answer  == SubAck(id, {p \in request.patterns : granted[p] >= 0})
  <2>1. i \in DOMAIN pending /\ request.packet_id = id /\ request.type = "SUBSCRIBE"
    BY <1>2, SlotType DEF Ind, IdOf
  <2>2. request.patterns \in SUBSET Patterns
    <3>1. request \in {x \in Publishes : x.qos > 0} \cup SubscriptionRequests
      BY SlotType DEF Ind, Entries
    <3> QED BY <2>1, <3>1 DEF Publishes, SubscriptionRequests
  <2>3. {p \in request.patterns : granted[p] >= 0} \in SUBSET Patterns
    BY <2>2
  <2>4. answer \in Packets
    BY <2>3, PacketTypes
  <2>5. answer.type # "PUBCOMP"
    BY DEF SubAck
  <2>6. IsTable(pending') /\ \A j \in DOMAIN pending' : IdOf(pending'[j]) # id
    BY <1>2, PopStep DEF Ind
  <2>7. Send(answer)
    BY <1>2
  <2>8. BaseInv' /\ CompletesNone
    <3> HIDE DEF answer
    <3>1. \A x \in PacketIds : answer # Ack("PUBCOMP", x, "SUCCESS")
      BY <2>5 DEF Ack
    <3> QED
      BY <1>2, <2>4, <2>6, <2>7, <3>1, SendStep, SendCompletesNone DEF Ind, BaseInv
  <2>9. subscriptions' \in SUBSET Patterns
    BY <1>2, <2>2 DEF Ind
  <2>10. SubscribesRequested
    <3> SUFFICES ASSUME NEW p \in subscriptions' \ subscriptions
                 PROVE  /\ p \in request.patterns
                        /\ \A j \in DOMAIN pending' :
                             pending'[j].packet.packet_id # request.packet_id
                        /\ \E S \in SUBSET request.patterns :
                             /\ p \in S
                             /\ out_buffer' =
                                  Append(out_buffer, SubAck(request.packet_id, S))
      BY <2>1 DEF SubscribesRequested
    <3>1. p \in request.patterns /\ granted[p] = 0
      BY <1>2
    <3> DEFINE S == {x \in request.patterns : granted[x] >= 0}
    <3>2. p \in S /\ S \in SUBSET request.patterns
      BY <3>1
    <3>3. out_buffer' = Append(out_buffer, SubAck(request.packet_id, S))
      BY <2>1, <2>7 DEF Send
    <3> HIDE DEF S, request
    <3> QED BY <2>1, <2>6, <3>1, <3>2, <3>3 DEF IdOf, request
  <2> QED
    BY <2>8, <2>9, <2>10 DEF Preserved, Ind, CompletesNone, CompletesReleased
<1>3. ASSUME NEW i \in Slots(id),
             pending' = RemoveAt(pending, i),
             failure' = "MQTTProtocolError",
             UNCHANGED <<state, out_buffer, subscriptions>>
      PROVE  Preserved
  <2>1. BaseInv' /\ CompletesNone
    BY <1>3, PopStep, SilentStep DEF Ind, BaseInv
  <2> QED BY <1>3, <2>1, PlainStep
<1> QED BY <1>1, <1>2, <1>3, Zenon DEF AcknowledgeSubscribe

LEMMA DeliverPublishStep ==
  ASSUME Ind, NEW m \in Messages, NEW q \in QoS, NEW id \in PacketIds,
         NEW ack_state \in AckStates,
         DeliverPublish(m, q, id, ack_state)
  PROVE  Preserved
<1>1. UNCHANGED <<state, failure, subscriptions>>
  BY DEF DeliverPublish
<1> DEFINE p == PublishPacket(m, q, id)
           e == [packet |-> p, ack_state |-> ack_state, own |-> TRUE]
<1>2. CASE q = 0 /\ Send(PublishPacket(m, 0, 0)) /\ UNCHANGED pending
  <2> DEFINE p0 == PublishPacket(m, 0, 0)
  <2>1. p0 \in Packets /\ p0.type # "PUBCOMP"
    BY DEF PublishPacket, Packets, Publishes
  <2>2. Send(p0) /\ UNCHANGED pending
    BY <1>2
  <2> HIDE DEF p0
  <2>3. \A x \in PacketIds : p0 # Ack("PUBCOMP", x, "SUCCESS")
    BY <2>1 DEF Ack
  <2>4. BaseInv' /\ CompletesNone
    BY <1>1, <2>1, <2>2, <2>3, SendStep, SendCompletesNone DEF Ind, BaseInv
  <2> QED BY <1>1, <2>4, PlainStep
<1>3. CASE q > 0 /\ Slots(id) # {} /\ AddPending(p, TRUE)
  <2>1. p \in {x \in Publishes : x.qos > 0}
    BY <1>3 DEF PublishPacket, Publishes, QoS
  <2>2. AddPending(p, TRUE)
    BY <1>3
  <2> HIDE DEF p
  <2>3. IsTable(pending') /\ out_buffer' \in Seq(Packets) /\ CompletesNone
    BY <2>1, <2>2, AddPendingStep DEF Ind
  <2>4. BaseInv'
    BY <1>1, <2>3 DEF Ind, BaseInv
  <2> QED BY <1>1, <2>3, <2>4, PlainStep
<1>4. CASE q > 0 /\ Slots(id) = {} /\ Send(p) /\ pending' = Append(pending, e)
  <2>1. p \in {x \in Publishes : x.qos > 0} /\ p.packet_id = id /\ p.type = "PUBLISH"
    BY <1>4 DEF PublishPacket, Publishes, QoS
  <2>2. p \in Packets
    BY <2>1 DEF Packets
  <2> HIDE DEF p
  <2>3. \A x \in PacketIds : p # Ack("PUBCOMP", x, "SUCCESS")
    BY <2>1 DEF Ack
  <2>4. e \in Entries /\ IdOf(e) = id
    BY <2>1 DEF Entries, IdOf
  <2>5. pending' = Append(pending, e) /\ Send(p) /\ Slots(id) = {}
    BY <1>4
  <2> HIDE DEF e
  <2>6. IsTable(pending')
    BY <2>4, <2>5, InsertStep DEF Ind
  <2>7. BaseInv' /\ CompletesNone
    BY <1>1, <2>2, <2>3, <2>5, <2>6, SendStep, SendCompletesNone DEF Ind, BaseInv
  <2> QED BY <1>1, <2>7, PlainStep
<1> QED BY <1>2, <1>3, <1>4, Zenon DEF DeliverPublish

\* Another session moves the packet of an entry on in its handshake.
LEMMA MoveSharedStep ==
  ASSUME Ind, MoveShared
  PROVE  Preserved
<1>1. UNCHANGED <<state, out_buffer, failure, subscriptions>>
  BY DEF MoveShared
<1>2. PICK i \in DOMAIN pending, ack_state \in {"ACKNOWLEDGED", "RELEASED"} :
        pending' = [pending EXCEPT ![i].ack_state = ack_state]
  BY DEF MoveShared
<1>3. ack_state \in AckStates /\ i \in Slots(IdOf(pending[i]))
  BY DEF AckStates, Slots, IdOf
<1> DEFINE moved == [pending EXCEPT ![i].ack_state = ack_state]
<1>4. IsTable(moved)
  BY <1>3, MoveStep DEF Ind
<1>5. pending' = moved
  BY <1>2
<1> HIDE DEF moved
<1>6. BaseInv' /\ CompletesNone
  BY <1>1, <1>4, <1>5, SilentStep DEF Ind, BaseInv
<1> QED BY <1>1, <1>6, PlainStep

LEMMA FlushStep ==
  ASSUME Ind, Flush
  PROVE  Preserved
<1>1. out_buffer' = <<>> /\ UNCHANGED <<state, pending, failure, subscriptions>>
  BY DEF Flush, GetOutboundData
<1>2. BaseInv'
  BY <1>1, EmptySeq DEF Ind, BaseInv
<1>3. CompletesNone
  <2> SUFFICES ASSUME NEW id \in PacketIds
               PROVE  Append(out_buffer, Ack("PUBCOMP", id, "SUCCESS")) # <<>>
    BY <1>1 DEF CompletesNone
  <2>1. Ack("PUBCOMP", id, "SUCCESS") \in Packets
    BY PacketTypes DEF ReleaseReasons
  <2> QED BY <2>1, AppendLonger DEF Ind, BaseInv
<1> QED BY <1>1, <1>2, <1>3, PlainStep

LEMMA IOCallStep ==
  ASSUME Ind, IOCall
  PROVE  Preserved
<1>1. ASSUME BaseInv', CompletesNone, UNCHANGED subscriptions
      PROVE  Preserved
  BY <1>1, PlainStep
<1>2. ASSUME NEW id \in PacketIds, NEW reason \in ReceiveReasons,
             AcknowledgePublish(id, reason), UNCHANGED subscriptions
      PROVE  Preserved
  BY <1>1, <1>2, AcknowledgePublishStep DEF Ind
<1>3. ASSUME NEW id \in PacketIds, NEW reason \in ReleaseReasons,
             ReleaseQos2Publish(id, reason), UNCHANGED subscriptions
      PROVE  Preserved
  BY <1>1, <1>3, ReleaseQos2PublishStep DEF Ind
<1>4. ASSUME NEW id \in PacketIds, NEW reason \in ReleaseReasons,
             CompleteQos2Publish(id, reason), UNCHANGED subscriptions
      PROVE  Preserved
  <2>1. BaseInv' /\ CompletesReleased
    BY <1>4, CompleteQos2PublishStep DEF Ind
  <2> QED BY <1>4, <2>1 DEF Preserved, Ind, SubscribesRequested
<1> QED
  BY <1>2, <1>3, <1>4, AcknowledgeConnectStep, AcknowledgeSubscribeStep,
     DeliverPublishStep, Zenon DEF IOCall

LEMMA NextStep ==
  ASSUME Ind, Next
  PROVE  Preserved
BY IOCallStep, ReceiveStep, FlushStep, MoveSharedStep DEF Next

LEMMA InitInd ==
  ASSUME Init
  PROVE  Ind
<1>1. DOMAIN pending = {} /\ pending \in Seq(Entries) /\ out_buffer \in Seq(Packets)
  BY EmptySeq DEF Init
<1> QED BY <1>1 DEF Init, Ind, BaseInv, IsTable, States

LEMMA StutterInd ==
  ASSUME Ind, UNCHANGED vars
  PROVE  Ind'
BY DEF Ind, BaseInv, IsTable, vars, baseVars

(* Ind is inductive: pending never holds two requests with one packet id.  *)
THEOREM Invariance == Spec => []Ind
<1>1. Ind /\ [Next]_vars => Ind'
  BY NextStep, StutterInd DEF Preserved
<1> QED BY InitInd, <1>1, PTL DEF Spec

-----------------------------------------------------------------------------
(* The theorems                                                            *)

(* Whatever the client sends and the broker's I/O layer calls, in whatever *)
(* order, the variables of the session keep their types.                   *)
THEOREM BrokerTypeCorrect == Spec => []TypeOK
<1>1. Ind => TypeOK
  BY DEF Ind, BaseInv, IsTable, TypeOK
<1> QED BY Invariance, <1>1, PTL

(* A subscription is made only by a request of the client that is pending, *)
(* and the SUBACK that grants it uses the request up.                      *)
THEOREM SubscriptionsRequested == Spec => SubscribedOnRequest
<1>1. Ind /\ [Next]_vars => [SubscribesRequested]_vars
  BY NextStep DEF Preserved
<1> QED BY Invariance, <1>1, PTL DEF Spec, SubscribedOnRequest, SubscribesRequested

(* A QoS 2 exchange that the broker receives is completed once: the        *)
(* PUBCOMP that reports success uses up the released publish.              *)
THEOREM ExchangesCompletedOnce == Spec => CompletedOnce
<1>1. Ind /\ [Next]_vars => [CompletesReleased]_vars
  BY NextStep DEF Preserved
<1> QED BY Invariance, <1>1, PTL DEF Spec, CompletedOnce, CompletesReleased

=============================================================================
