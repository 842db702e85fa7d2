------------------------- MODULE ClientStateMachine -------------------------
(***************************************************************************)
(* MQTTClientStateMachine: a client's end of a session with a broker.      *)
(* Spec lets the application make every call it may and the network        *)
(* deliver every packet, conforming or not; Session composes the same      *)
(* actions with a broker's end.                                            *)
(*                                                                         *)
(* A call in a state _out_require_state refuses raises before it changes   *)
(* anything: it is no step of the model.                                   *)
(***************************************************************************)
EXTENDS BaseStateMachine

ASSUME ClientAssumption == AutoAck

VARIABLES
  next_packet_id,
  subscriptions,        \* the patterns that are keys of _subscriptions
  subscription_counts,  \* _subscription_counts, 0 for an absent key
  maximum_qos

clientVars == <<next_packet_id, subscriptions, subscription_counts, maximum_qos>>
vars == <<baseVars, clientVars>>

Init ==
  /\ state = "DISCONNECTED"
  /\ pending = <<>>
  /\ out_buffer = <<>>
  /\ failure = "none"
  /\ next_packet_id = 1
  /\ subscriptions = {}
  /\ subscription_counts = [p \in Patterns |-> 0]
  /\ maximum_qos = 2

\* Mutant of GeneratePacketId: the id wraps one step too late.
GeneratePacketIdLate ==
  next_packet_id' = IF next_packet_id > MaxPacketId THEN 1 ELSE next_packet_id + 1

\* Mutant of GeneratePacketId: the id wraps one step too early.
GeneratePacketIdEarly ==
  next_packet_id' = IF next_packet_id >= MaxPacketId - 1 THEN 1 ELSE next_packet_id + 1

\* _generate_packet_id: the id is not compared with those in pending.
GeneratePacketId ==
  next_packet_id' = IF next_packet_id = MaxPacketId THEN 1 ELSE next_packet_id + 1

-----------------------------------------------------------------------------
(* The calls of the application                                            *)

Connect(clean_start) ==
  /\ state = "DISCONNECTED"
  /\ state' = "CONNECTING"
  /\ Send([type |-> "CONNECT", clean_start |-> clean_start])
  /\ UNCHANGED <<pending, failure, clientVars>>

Disconnect ==
  /\ state = "CONNECTED"
  /\ state' = "DISCONNECTED"
  /\ Send(Signal("DISCONNECT"))
  /\ UNCHANGED <<pending, failure, clientVars>>

\* _ping_pending is left out: nothing reads it.
Ping ==
  /\ state = "CONNECTED"
  /\ Send(Signal("PINGREQ"))
  /\ UNCHANGED <<state, pending, failure, clientVars>>

\* Mutant of Publish: the request is not added to pending.
PublishUnrecorded(m, q) ==
  /\ state = "CONNECTED"
  /\ Send(PublishPacket(m, q, IF q = 0 THEN 0 ELSE next_packet_id))
  /\ GeneratePacketId
  /\ UNCHANGED <<state, pending, failure, subscriptions, subscription_counts, maximum_qos>>

\* The QoS goes out as asked for: maximum_qos is not looked at.
Publish(m, q) ==
  /\ state = "CONNECTED"
  /\ \/ /\ q = 0
        /\ Send(PublishPacket(m, 0, 0))
        /\ UNCHANGED <<pending, next_packet_id>>
     \/ /\ q > 0
        /\ AddPending(PublishPacket(m, q, next_packet_id), TRUE)
        /\ GeneratePacketId
  /\ UNCHANGED <<state, failure, subscriptions, subscription_counts, maximum_qos>>

\* Mutant of Subscribe: a further user of a pattern is not counted.
SubscribeUncounted(S) ==
  LET new == S \ subscriptions
  IN  /\ state = "CONNECTED"
      /\ subscriptions' = subscriptions \cup S
      /\ subscription_counts' = [p \in Patterns |->
            IF p \in S THEN 1 ELSE subscription_counts[p]]
      /\ \/ /\ new = {}
            /\ UNCHANGED <<pending, out_buffer, next_packet_id>>
         \/ /\ new # {}
            /\ AddPending([type |-> "SUBSCRIBE", packet_id |-> next_packet_id,
                           patterns |-> new], TRUE)
            /\ GeneratePacketId
      /\ UNCHANGED <<state, failure, maximum_qos>>

(* One call names each pattern once; a pattern that is already subscribed  *)
(* to is counted and not sent.                                             *)
Subscribe(S) ==
  LET new == S \ subscriptions
  IN  /\ state = "CONNECTED"
      /\ subscriptions' = subscriptions \cup S
      /\ subscription_counts' = [p \in Patterns |->
            IF p \in new THEN 1
            ELSE subscription_counts[p] + (IF p \in S THEN 1 ELSE 0)]
      /\ \/ /\ new = {}
            /\ UNCHANGED <<pending, out_buffer, next_packet_id>>
         \/ /\ new # {}
            /\ AddPending([type |-> "SUBSCRIBE", packet_id |-> next_packet_id,
                           patterns |-> new], TRUE)
            /\ GeneratePacketId
      /\ UNCHANGED <<state, failure, maximum_qos>>

\* Mutant of CountDown: a pattern with two users is dropped.
CountDownEarly(S) ==
  [p \in Patterns |->
     IF p \notin S THEN subscription_counts[p]
     ELSE IF subscription_counts[p] <= 2 THEN 0
     ELSE subscription_counts[p] - 1]

\* Drop the patterns of S whose count is 1, count down the others.
CountDown(S) ==
  [p \in Patterns |->
     IF p \notin S THEN subscription_counts[p]
     ELSE IF subscription_counts[p] = 1 THEN 0
     ELSE subscription_counts[p] - 1]

(* The patterns are processed one by one.  One that is counted once but is *)
(* no longer in _subscriptions raises KeyError from the second `del', with *)
(* any of the others processed before it.                                  *)
Unsubscribe(S) ==
  LET last   == {p \in S : subscription_counts[p] = 1}
      broken == last \ subscriptions
  IN  /\ state = "CONNECTED"
      /\ \/ /\ broken = {}
            /\ subscription_counts' = CountDown(S)
            /\ subscriptions' = subscriptions \ last
            /\ \/ /\ last = {}
                  /\ UNCHANGED <<pending, out_buffer, next_packet_id>>
               \/ /\ last # {}
                  /\ AddPending([type |-> "UNSUBSCRIBE", packet_id |-> next_packet_id,
                                 patterns |-> last], TRUE)
                  /\ GeneratePacketId
            /\ UNCHANGED failure
         \/ \E p \in broken, done \in SUBSET (S \ broken) :
              /\ subscription_counts' = CountDown(done \cup {p})
              /\ subscriptions' = subscriptions \ (done \cap last)
              /\ failure' = "KeyError"
              /\ UNCHANGED <<pending, out_buffer, next_packet_id>>
      /\ UNCHANGED <<state, maximum_qos>>

-----------------------------------------------------------------------------
(* _handle_packet                                                          *)

ClientAccepting ==
  [type \in DOMAIN BaseAccepting \cup {"CONNACK", "PINGRESP", "SUBACK", "UNSUBACK"} |->
     IF type \in DOMAIN BaseAccepting THEN BaseAccepting[type]
     ELSE IF type = "CONNACK" THEN {"CONNECTING"} ELSE {"CONNECTED"}]

\* Mutant of Enumerations: the decreasing ones.
EnumerationsDown(I) ==
  {f \in [1 .. Cardinality(I) -> I] : \A i, j \in DOMAIN f : i < j => f[i] > f[j]}

\* The increasing enumerations of a set of positions: there is one.
Enumerations(I) ==
  {f \in [1 .. Cardinality(I) -> I] : \A i, j \in DOMAIN f : i < j => f[i] < f[j]}

\* Mutant of Kept: the session keeps everything but the publishes.
KeptInverted(session_present) ==
  {i \in DOMAIN pending : session_present => pending[i].packet.type # "PUBLISH"}

(* reset(): what stays of pending.  A session the broker still has keeps   *)
(* the publishes, a new one keeps everything, SUBSCRIBEs included.         *)
Kept(session_present) ==
  {i \in DOMAIN pending : session_present => pending[i].packet.type = "PUBLISH"}

Duplicate(p) == [p EXCEPT !.duplicate = TRUE]
Resent(e) == [e EXCEPT !.packet = Duplicate(e.packet)]

\* Mutant of ResendPending: what is a duplicate already is not sent again.
ResendPendingOnce(kept, n) ==
  /\ n = Len(kept)
  /\ pending' = [i \in DOMAIN kept |-> Resent(kept[i])]
  /\ out_buffer' = out_buffer \o
       SelectSeq([i \in DOMAIN kept |-> kept[i].packet], LAMBDA p : ~p.duplicate)
  /\ UNCHANGED failure

(* The resend loop: the entries before the first one that is no publish    *)
(* are flagged as duplicates and encoded, whoever made them and whatever   *)
(* their ack_state is; the assertion fails at that first one.              *)
ResendPending(kept, n) ==
  /\ \A i \in 1 .. n : kept[i].packet.type = "PUBLISH"
  /\ n < Len(kept) => kept[n + 1].packet.type # "PUBLISH"
  /\ pending' = [i \in DOMAIN kept |-> IF i <= n THEN Resent(kept[i]) ELSE kept[i]]
  /\ out_buffer' = out_buffer \o [i \in 1 .. n |-> Duplicate(kept[i].packet)]
  /\ failure' = IF n < Len(kept) THEN "AssertionError" ELSE failure

ReceiveConnAck(p) ==
  /\ p.type = "CONNACK"
  /\ \/ /\ p.reason = "SUCCESS"
        /\ state' = "CONNECTED"
        /\ maximum_qos' = p.maximum_qos
        /\ IF p.session_present
             THEN UNCHANGED <<next_packet_id, subscriptions>>
             ELSE next_packet_id' = 1 /\ subscriptions' = {}
        /\ UNCHANGED subscription_counts
        /\ \E order \in Enumerations(Kept(p.session_present)) :
             LET kept == [i \in DOMAIN order |-> pending[order[i]]]
             IN  \E n \in 0 .. Len(kept) : ResendPending(kept, n)
     \/ /\ p.reason # "SUCCESS"
        /\ state' = "DISCONNECTED"
        /\ UNCHANGED <<pending, out_buffer, failure, clientVars>>

ReceivePingResp(p) ==
  /\ p.type = "PINGRESP"
  /\ UNCHANGED vars

\* SUBACK and UNSUBACK pop the request; an unknown id is ignored.
ReceiveRequestAck(p, ack, request) ==
  /\ p.type = ack
  /\ \/ Slots(p.packet_id) = {} /\ UNCHANGED <<pending, failure>>
     \/ \E i \in Slots(p.packet_id) :
          /\ pending' = RemoveAt(pending, i)
          /\ failure' = Verdict(pending[i].packet.type = request)
  /\ UNCHANGED <<state, out_buffer, clientVars>>

ReceiveSubAck(p)   == ReceiveRequestAck(p, "SUBACK", "SUBSCRIBE")
ReceiveUnsubAck(p) == ReceiveRequestAck(p, "UNSUBACK", "UNSUBSCRIBE")

ReceiveAccepted(p) ==
  /\ Accepts(ClientAccepting, p)
  /\ \/ ReceiveBase(p) /\ UNCHANGED clientVars
     \/ ReceiveConnAck(p)
     \/ ReceivePingResp(p)
     \/ ReceiveSubAck(p)
     \/ ReceiveUnsubAck(p)

ReceiveRefused(p) ==
  /\ ~Accepts(ClientAccepting, p)
  /\ Fail
  /\ UNCHANGED clientVars

Receive(p) == ReceiveAccepted(p) \/ ReceiveRefused(p)

Flush == GetOutboundData /\ UNCHANGED clientVars

-----------------------------------------------------------------------------
AppCall ==
  \/ \E clean_start \in BOOLEAN : Connect(clean_start)
  \/ Disconnect
  \/ Ping
  \/ \E m \in Messages, q \in QoS : Publish(m, q)
  \/ \E S \in (SUBSET Patterns) \ {{}} : Subscribe(S)
  \/ \E S \in (SUBSET Patterns) \ {{}} : Unsubscribe(S)

Next ==
  /\ failure = "none"
  /\ \/ AppCall
     \/ \E p \in Packets : Receive(p)
     \/ Flush

Spec == Init /\ [][Next]_vars

-----------------------------------------------------------------------------
(* Properties                                                              *)

(* Every variable has its type; in particular the entries of pending are   *)
(* requests with a packet id the protocol can carry.                       *)
TypeOK ==
  /\ state \in States
  /\ pending \in Seq(Entries)
  /\ out_buffer \in Seq(Packets)
  /\ failure \in Failures
  /\ next_packet_id \in PacketIds
  /\ subscriptions \in SUBSET Patterns
  /\ subscription_counts \in [Patterns -> Int]
  /\ maximum_qos \in QoS

\* An entry is in a handshake state of the end that made its request.
Sided(e) ==
  IF e.own THEN e.ack_state = "UNACKNOWLEDGED" \/ Awaits(e, "RELEASED")
           ELSE Awaits(e, "ACKNOWLEDGED")

(* The two directions of a session share _pending_packets.  Whatever the   *)
(* network delivers, an own request is in a state only an own request can  *)
(* reach (a publish waits for PUBACK, PUBREC or PUBCOMP, the rest is       *)
(* unacknowledged), and what the broker published stays only as a QoS 2    *)
(* message that waits for its PUBREL: no acknowledgement moves the         *)
(* handshake of the other direction forward.                               *)
HandshakeSides == \A i \in DOMAIN pending : Sided(pending[i])

(* A pattern that is subscribed to is counted, so that unsubscribe() finds *)
(* the last user of it.                                                    *)
SubscribedCounted ==
  \A p \in subscriptions : subscription_counts[p] >= 1

\* q holds the publish p as an own request, under the same packet id.
HoldsPublish(q, p) ==
  \E j \in DOMAIN q :
    q[j].own /\ q[j].packet.packet_id = p.packet_id /\ q[j].packet.msg = p.msg

(* A QoS 2 publish of the application stays in pending, under its packet   *)
(* id, until its PUBREL was sent, unless an exception ends the session:    *)
(* neither a new connection with or without the session, a stray           *)
(* acknowledgement, nor a packet id that is used twice drops or replaces   *)
(* it.                                                                     *)
OwnPublishKept ==
  [][\A i \in DOMAIN pending :
       pending[i].own /\ Awaits(pending[i], "UNACKNOWLEDGED")
         => failure' # "none" \/ HoldsPublish(pending', pending[i].packet)]_vars

=============================================================================
