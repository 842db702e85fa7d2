---------------------------- MODULE SessionProofs ----------------------------
(***************************************************************************)
(* For any number of messages, patterns and packet ids, and any bounds:    *)
(* on the first connection of a client the two ends never take a packet    *)
(* of one another for a violation of the protocol.                         *)
(*                                                                         *)
(* The invariant is a story per packet id (Exchange): which request it is  *)
(* used for, how far each end is with it, and where its one packet is.     *)
(* A story is a disjunction of stages, and a stage (Stage) says all there  *)
(* is about a packet id: the entries of both tables, the places its packet *)
(* may be in, and that no other packet carries the id.  A step of either   *)
(* end then is about the packet id of one packet: it takes that packet     *)
(* from the head of a queue, finds the entry of the one stage the packet   *)
(* belongs to, and leaves the next stage; all other packet ids keep theirs *)
(* (Others).  NoFailure follows since no stage is one that the handlers    *)
(* refuse, OneTokenPerRequest and HandshakesAgree read the stages off.     *)
(*                                                                         *)
(* What the stages cannot give is that a packet id is free when            *)
(* _generate_packet_id gives it out: the code does not look, it relies on  *)
(* there being enough.  The theorems assume this (FreshIds), and where the *)
(* packet ids are more than the calls it is itself a theorem               *)
(* (EnoughIdsStayFresh).  The order of the pending publishes needs neither *)
(* (ResentInOrder).                                                        *)
(*                                                                         *)
(* What the client is subscribed to needs the order of the requests, which *)
(* no story has: of what is on its way to the broker no UNSUBSCRIBE stands *)
(* behind a SUBSCRIBE for the same pattern (Agreeing).                     *)
(***************************************************************************)
EXTENDS Session, SequenceLemmas, FiniteSetTheorems, TLAPS

Ids == 1 .. MaxPacketId

Entry(r, own, ack) == [packet |-> r, ack_state |-> ack, own |-> own]

\* What the end that made the request r has for it, and what the other end has
Sent(r)          == {Entry(r, TRUE, "UNACKNOWLEDGED")}
SentAccepted(r)  == {Entry(r, TRUE, "ACKNOWLEDGED")}
SentReleased(r)  == {Entry(r, TRUE, "RELEASED")}
Taken(r)         == {Entry(r, FALSE, "UNACKNOWLEDGED")}
TakenAccepted(r) == {Entry(r, FALSE, "ACKNOWLEDGED")}
TakenReleased(r) == {Entry(r, FALSE, "RELEASED")}

\* A table is what a dict is: it has one entry for a packet id.
IsTable(q) ==
  /\ q \in Seq(C!Entries)
  /\ \A i, j \in DOMAIN q : q[i].packet.packet_id = q[j].packet.packet_id => i = j

\* What a table has for a packet id
Under(q, id) == {e \in Range(q) : e.packet.packet_id = id}

\* A queue has no packet of S, or has p as its only one.
None(q, S)    == \A k \in DOMAIN q : q[k] \notin S
Sole(q, S, p) == \E k \in DOMAIN q : /\ q[k] = p /\ p \in S
                                     /\ \A l \in DOMAIN q : l # k => q[l] \notin S

Of(id)  == {p \in C!Packets : Carries(p, id)}
Due(id) == {p \in Of(id) : NeedsAnswer(p)}

Holds(q, S, here, p) == IF here THEN Sole(q, S, p) ELSE None(q, S)

\* p, which is in that place, is the one packet on its way under the packet id.
OnWay(id, place, p) ==
  /\ Holds(c_out, Of(id), place = "c_out", p)
  /\ Holds(c2b, Of(id), place = "c2b", p)
  /\ Holds(inbox, Due(id), place = "inbox", p)
  /\ Holds(b_out, Of(id), place = "b_out", p)
  /\ Holds(b2c, Of(id), place = "b2c", p)

Up   == {"c_out", "c2b"}
Down == {"b_out", "b2c"}

\* What both ends have for the packet id, and what is on its way
Stage(id, X, Y, places, p) ==
  /\ Under(c_pending, id) = X /\ Under(b_pending, id) = Y
  /\ \E place \in places : OnWay(id, place, p)

Publishes(id, q) == {r \in C!Publishes : r.packet_id = id /\ r.qos = q}
Requests(id, type) == {r \in C!SubscriptionRequests : r.packet_id = id /\ r.type = type}
Ok(type, id) == C!Ack(type, id, "SUCCESS")

\* Neither end has anything for the packet id, and nothing is on its way.
Quiet(id) == Stage(id, {}, {}, {"nowhere"}, "none")

(* The packet id is free; an UNSUBSCRIBE that was answered stays in the    *)
(* broker's table.                                                         *)
Idle(id) ==
  \/ Quiet(id)
  \/ \E r \in Requests(id, "UNSUBSCRIBE") :
       Stage(id, {}, Taken(r), {"nowhere"}, "none")

Publish1(id, r) ==
  \/ Stage(id, Sent(r), {}, Up, r)
  \/ Stage(id, Sent(r), Taken(r), {"inbox"}, r)
  \/ Stage(id, Sent(r), {}, Down, Ok("PUBACK", id))

\* The last stage stays: AsyncMQTTBroker completes no exchange.
Publish2(id, r) ==
  \/ Stage(id, Sent(r), {}, Up, r)
  \/ Stage(id, Sent(r), Taken(r), {"inbox"}, r)
  \/ Stage(id, Sent(r), TakenAccepted(r), Down, Ok("PUBREC", id))
  \/ Stage(id, SentReleased(r), TakenAccepted(r), Up, Ok("PUBREL", id))
  \/ Stage(id, SentReleased(r), TakenReleased(r), {"nowhere"}, "none")

Subscribe(id, r) ==
  \/ Stage(id, Sent(r), {}, Up, r)
  \/ Stage(id, Sent(r), Taken(r), {"inbox"}, r)
  \/ \E granted \in SUBSET Patterns : Stage(id, Sent(r), {}, Down, C!SubAck(id, granted))

Unsubscribe(id, r) ==
  \/ Stage(id, Sent(r), {}, Up, r)
  \/ Stage(id, Sent(r), Taken(r), Down, Ok("UNSUBACK", id))

Request(id) ==
  \/ \E r \in Publishes(id, 1) : Publish1(id, r)
  \/ \E r \in Publishes(id, 2) : Publish2(id, r)
  \/ \E r \in Requests(id, "SUBSCRIBE") : Subscribe(id, r)
  \/ \E r \in Requests(id, "UNSUBSCRIBE") : Unsubscribe(id, r)

\* The delivered packet is the publisher's, which was acknowledged before.
Deliver(id, r) ==
  \/ Stage(id, {}, SentAccepted(r), Down, r)
  \/ Stage(id, {}, SentAccepted(r), Up, Ok("PUBACK", id))

Delivery(id) == \E r \in Publishes(id, 1) : Deliver(id, r)

Exchange(id) == Idle(id) \/ (IF id \in DeliveryIds THEN Delivery(id) ELSE Request(id))

\* The packets of a connection that is established
Traffic == C!Publishes \cup C!Acks \cup C!SubscriptionRequests

Queues ==
  /\ c_out \in Seq(Traffic) /\ c2b \in Seq(Traffic) /\ inbox \in Seq(Traffic)
  /\ b_out \in Seq(Traffic) /\ b2c \in Seq(Traffic)

\* A pattern that is subscribed to is counted.
Counted ==
  \A x \in Patterns : c_counts[x] \in Int /\ (x \in c_subscriptions <=> c_counts[x] >= 1)

Connected ==
  /\ c_state = "CONNECTED" /\ b_state = "CONNECTED"
  /\ IsTable(c_pending) /\ IsTable(b_pending)
  /\ Queues
  /\ \A id \in Ids : Exchange(id)
  /\ Counted

ConnectPacket == [type |-> "CONNECT", clean_start |-> TRUE]
ConnAckPacket(present) ==
  [type |-> "CONNACK", reason |-> "SUCCESS", session_present |-> present, maximum_qos |-> 2]

\* The packet p is the only one, and it is in that place.
Only(place, p) ==
  /\ c_out = IF place = "c_out" THEN <<p>> ELSE <<>>
  /\ c2b   = IF place = "c2b"   THEN <<p>> ELSE <<>>
  /\ inbox = IF place = "inbox" THEN <<p>> ELSE <<>>
  /\ b_out = IF place = "b_out" THEN <<p>> ELSE <<>>
  /\ b2c   = IF place = "b2c"   THEN <<p>> ELSE <<>>

\* The handshake: where CONNECT is, or the CONNACK that answers it
Handshake ==
  \/ b_state = "DISCONNECTED" /\ \E place \in Up : Only(place, ConnectPacket)
  \/ b_state = "CONNECTING" /\ Only("inbox", ConnectPacket)
  \/ /\ b_state = "CONNECTED"
     /\ \E place \in Down, present \in BOOLEAN : Only(place, ConnAckPacket(present))

\* Neither end has done anything yet.
Fresh ==
  /\ c_pending = <<>> /\ b_pending = <<>> /\ b_subscriptions = {}
  /\ c_subscriptions = {} /\ c_counts = [x \in Patterns |-> 0]

Connecting == c_state = "CONNECTING" /\ Fresh /\ Handshake

Unconnected ==
  /\ connects = 0 /\ ~open /\ c_state = "DISCONNECTED" /\ b_state = "DISCONNECTED"
  /\ Fresh /\ Only("nowhere", "none")

\* The broker delivers at QoS 0 and 1.
NoQoS2Delivery == 2 \notin DeliveryQoS

Chosen == published \in Seq([msg : Messages, qos : 0 .. 2])

Inv ==
  /\ connects \in Nat
  /\ First => /\ c_failure = "none" /\ b_failure = "none"
              /\ c_next_packet_id \in Ids /\ Chosen
              /\ Unconnected \/ (connects = 1 /\ open /\ (Connecting \/ Connected))

-----------------------------------------------------------------------------
(* Queues                                                                  *)

LEMMA EmptyQueue ==
  ASSUME NEW S, NEW p
  PROVE  None(<<>>, S) /\ Holds(<<>>, S, FALSE, p)
BY EmptySeq DEF None, Holds

LEMMA QueueAppend ==
  ASSUME NEW T, NEW q \in Seq(T), NEW e \in T, NEW S
  PROVE  /\ e \notin S => /\ None(q, S) => None(Append(q, e), S)
                          /\ \A p : Sole(q, S, p) => Sole(Append(q, e), S, p)
         /\ e \in S /\ None(q, S) => Sole(Append(q, e), S, e)
<1> DEFINE r == Append(q, e)
<1>1. /\ \A k \in DOMAIN q : k \in DOMAIN r /\ r[k] = q[k]
      /\ \A k \in DOMAIN r : k \in DOMAIN q \/ (k = Len(q) + 1 /\ r[k] = e)
      /\ Len(q) + 1 \in DOMAIN r /\ r[Len(q) + 1] = e
  BY AppendElements
<1> HIDE DEF r
<1>2. ASSUME e \notin S, None(q, S) PROVE None(r, S)
  BY <1>1, <1>2 DEF None
<1>3. ASSUME e \notin S, NEW p, Sole(q, S, p) PROVE Sole(r, S, p)
  BY <1>1, <1>3 DEF Sole
<1>4. ASSUME e \in S, None(q, S) PROVE Sole(r, S, e)
  BY <1>1, <1>4 DEF None, Sole
<1> QED BY <1>2, <1>3, <1>4 DEF r

LEMMA QueueTail ==
  ASSUME NEW T, NEW q \in Seq(T), q # <<>>, NEW S
  PROVE  /\ None(q, S) => Head(q) \notin S /\ None(Tail(q), S)
         /\ \A p : Sole(q, S, p) /\ Head(q) \notin S => Sole(Tail(q), S, p)
         /\ \A p : Sole(q, S, p) /\ Head(q) \in S => p = Head(q) /\ None(Tail(q), S)
<1> DEFINE r == Tail(q)
<1>1. /\ 1 \in DOMAIN q /\ Head(q) = q[1]
      /\ \A k \in DOMAIN r : k + 1 \in DOMAIN q /\ r[k] = q[k + 1]
      /\ \A k \in DOMAIN q : k # 1 => k - 1 \in DOMAIN r
      /\ r \in Seq(T)
  BY TailElements
<1> HIDE DEF r
<1>2. /\ \A k \in DOMAIN q : k \in Nat
      /\ \A k \in DOMAIN r : k \in Nat /\ k >= 1
  BY <1>1, DomainOfSeq
<1>3. ASSUME None(q, S) PROVE Head(q) \notin S /\ None(r, S)
  BY <1>1, <1>3 DEF None
<1>4. ASSUME NEW p, Sole(q, S, p), Head(q) \notin S PROVE Sole(r, S, p)
  <2>1. PICK k \in DOMAIN q : /\ q[k] = p /\ p \in S
                              /\ \A l \in DOMAIN q : l # k => q[l] \notin S
    BY <1>4 DEF Sole
  <2>2. k # 1 /\ k - 1 \in DOMAIN r /\ k - 1 + 1 = k
    BY <1>1, <1>2, <1>4, <2>1
  <2>3. r[k - 1] = p
    BY <1>1, <2>1, <2>2
  <2>4. ASSUME NEW l \in DOMAIN r, l # k - 1 PROVE r[l] \notin S
    <3>1. l + 1 # k /\ l + 1 \in DOMAIN q /\ r[l] = q[l + 1]
      BY <1>1, <1>2, <2>4
    <3> QED BY <2>1, <3>1
  <2> QED BY <2>1, <2>2, <2>3, <2>4 DEF Sole
<1>5. ASSUME NEW p, Sole(q, S, p), Head(q) \in S PROVE p = Head(q) /\ None(r, S)
  <2>1. PICK k \in DOMAIN q : /\ q[k] = p /\ p \in S
                              /\ \A l \in DOMAIN q : l # k => q[l] \notin S
    BY <1>5 DEF Sole
  <2>2. k = 1
    BY <1>1, <1>5, <2>1
  <2>3. ASSUME NEW l \in DOMAIN r PROVE r[l] \notin S
    <3>1. l + 1 # 1 /\ l + 1 \in DOMAIN q /\ r[l] = q[l + 1]
      BY <1>1, <1>2
    <3> QED BY <2>1, <2>2, <3>1
  <2> QED BY <1>1, <2>1, <2>2, <2>3 DEF None
<1> QED BY <1>3, <1>4, <1>5 DEF r

LEMMA QueueConcat ==
  ASSUME NEW T, NEW q \in Seq(T), NEW r \in Seq(T), NEW S
  PROVE  /\ None(q, S) /\ None(r, S) => None(q \o r, S)
         /\ \A p : Sole(q, S, p) /\ None(r, S) => Sole(q \o r, S, p)
         /\ \A p : None(q, S) /\ Sole(r, S, p) => Sole(q \o r, S, p)
<1> DEFINE s == q \o r
<1>1. /\ \A k \in DOMAIN q : k \in DOMAIN s /\ s[k] = q[k]
      /\ \A k \in DOMAIN r : Len(q) + k \in DOMAIN s \ DOMAIN q /\ s[Len(q) + k] = r[k]
      /\ \A k \in DOMAIN s \ DOMAIN q : k - Len(q) \in DOMAIN r /\ s[k] = r[k - Len(q)]
  BY ConcatElements
<1>2. /\ Len(q) \in Nat /\ \A k \in DOMAIN r : k \in Nat
      /\ \A k \in DOMAIN s : k \in Nat
  BY DomainOfSeq, ConcatElements
<1> HIDE DEF s
<1>3. ASSUME None(q, S), None(r, S) PROVE None(s, S)
  BY <1>1, <1>3 DEF None
<1>4. ASSUME NEW p, Sole(q, S, p), None(r, S) PROVE Sole(s, S, p)
  <2>1. PICK k \in DOMAIN q : /\ q[k] = p /\ p \in S
                              /\ \A l \in DOMAIN q : l # k => q[l] \notin S
    BY <1>4 DEF Sole
  <2>2. \A l \in DOMAIN s : l # k => s[l] \notin S
    BY <1>1, <1>4, <2>1 DEF None
  <2> QED BY <1>1, <2>1, <2>2 DEF Sole
<1>5. ASSUME NEW p, None(q, S), Sole(r, S, p) PROVE Sole(s, S, p)
  <2>1. PICK k \in DOMAIN r : /\ r[k] = p /\ p \in S
                              /\ \A l \in DOMAIN r : l # k => r[l] \notin S
    BY <1>5 DEF Sole
  <2>2. ASSUME NEW l \in DOMAIN s, l # Len(q) + k PROVE s[l] \notin S
    <3>1. CASE l \in DOMAIN q
      BY <1>1, <1>5, <3>1 DEF None
    <3>2. CASE l \notin DOMAIN q
      <4>1. l - Len(q) # k /\ l - Len(q) \in DOMAIN r /\ s[l] = r[l - Len(q)]
        BY <1>1, <1>2, <2>2, <3>2
      <4> QED BY <2>1, <4>1
    <3> QED BY <3>1, <3>2
  <2> QED BY <1>1, <2>1, <2>2 DEF Sole
<1> QED BY <1>3, <1>4, <1>5 DEF s

-----------------------------------------------------------------------------
(* Tables                                                                  *)

LEMMA EmptyTable == IsTable(<<>>) /\ \A id : Under(<<>>, id) = {}
BY EmptySeq DEF IsTable, Under, Range

LEMMA TableEntry ==
  ASSUME NEW q, IsTable(q), NEW k \in DOMAIN q
  PROVE  /\ q[k] \in C!Entries
         /\ Under(q, q[k].packet.packet_id) = {q[k]}
BY ElementType DEF IsTable, Under, Range

LEMMA TableAppend ==
  ASSUME NEW q, IsTable(q), NEW e \in C!Entries, Under(q, e.packet.packet_id) = {}
  PROVE  /\ IsTable(Append(q, e))
         /\ Under(Append(q, e), e.packet.packet_id) = {e}
         /\ \A id : id # e.packet.packet_id => Under(Append(q, e), id) = Under(q, id)
<1> DEFINE r == Append(q, e)
<1>1. /\ r \in Seq(C!Entries)
      /\ \A k \in DOMAIN q : k \in DOMAIN r /\ r[k] = q[k]
      /\ \A k \in DOMAIN r : k \in DOMAIN q \/ (k = Len(q) + 1 /\ r[k] = e)
      /\ Len(q) + 1 \in DOMAIN r /\ r[Len(q) + 1] = e
  BY AppendElements DEF IsTable
<1> HIDE DEF r
<1>2. \A k \in DOMAIN q : q[k].packet.packet_id # e.packet.packet_id
  BY DEF Under, Range
<1>3. IsTable(r)
  BY <1>1, <1>2 DEF IsTable
<1>4. Under(r, e.packet.packet_id) = {e}
  <2>1. \A k \in DOMAIN r : r[k].packet.packet_id = e.packet.packet_id => r[k] = e
    BY <1>1, <1>2
  <2>2. e \in Under(r, e.packet.packet_id)
    BY <1>1 DEF Under, Range
  <2> QED BY <2>1, <2>2 DEF Under, Range
<1>5. ASSUME NEW id, id # e.packet.packet_id PROVE Under(r, id) = Under(q, id)
  <2>1. \A k \in DOMAIN r : r[k].packet.packet_id = id => k \in DOMAIN q /\ r[k] = q[k]
    BY <1>1, <1>5
  <2> QED BY <1>1, <2>1 DEF Under, Range
<1> QED BY <1>3, <1>4, <1>5 DEF r

LEMMA TableRemove ==
  ASSUME NEW q, IsTable(q), NEW k \in DOMAIN q
  PROVE  /\ IsTable(RemoveAt(q, k))
         /\ Under(RemoveAt(q, k), q[k].packet.packet_id) = {}
         /\ \A id : id # q[k].packet.packet_id => Under(RemoveAt(q, k), id) = Under(q, id)
<1> DEFINE r == RemoveAt(q, k)
<1>1. /\ Len(q) \in Nat /\ DOMAIN q = 1 .. Len(q) /\ k \in 1 .. Len(q)
      /\ \A i, j \in 1 .. Len(q) :
           q[i].packet.packet_id = q[j].packet.packet_id => i = j
  BY LenProperties DEF IsTable
<1>2. r \in Seq(C!Entries)
  BY RemoveAtType DEF IsTable
<1>3. /\ DOMAIN r = 1 .. Len(q) - 1
      /\ \A j \in 1 .. Len(q) - 1 : r[j] = IF j < k THEN q[j] ELSE q[j + 1]
  BY RemoveAtElements DEF IsTable
<1> HIDE DEF r
<1>4. ASSUME NEW j \in DOMAIN r
      PROVE  \E i \in DOMAIN q \ {k} : /\ r[j] = q[i]
                                       /\ i = IF j < k THEN j ELSE j + 1
  <2>1. CASE j < k
    BY <1>1, <1>3, <2>1
  <2>2. CASE ~(j < k)
    BY <1>1, <1>3, <2>2
  <2> QED BY <2>1, <2>2
<1>5. ASSUME NEW i \in DOMAIN r, NEW j \in DOMAIN r,
             r[i].packet.packet_id = r[j].packet.packet_id
      PROVE  i = j
  <2>1. (IF i < k THEN i ELSE i + 1) = (IF j < k THEN j ELSE j + 1)
    BY <1>1, <1>4, <1>5
  <2> QED BY <1>1, <1>3, <2>1
<1>6. ASSUME NEW i \in DOMAIN q \ {k} PROVE \E j \in DOMAIN r : r[j] = q[i]
  <2>1. CASE i < k
    <3>1. i \in DOMAIN r /\ r[i] = q[i]
      BY <1>1, <1>3, <2>1
    <3> QED BY <3>1
  <2>2. CASE ~(i < k)
    <3>1. i - 1 \in DOMAIN r /\ ~(i - 1 < k) /\ i - 1 + 1 = i
      BY <1>1, <1>3, <2>2
    <3> QED BY <1>3, <3>1
  <2> QED BY <2>1, <2>2
<1>7. Under(r, q[k].packet.packet_id) = {}
  BY <1>1, <1>4 DEF Under, Range
<1>8. ASSUME NEW id, id # q[k].packet.packet_id PROVE Under(r, id) = Under(q, id)
  <2>1. Under(r, id) \subseteq Under(q, id)
    BY <1>4 DEF Under, Range
  <2>2. Under(q, id) \subseteq Under(r, id)
    BY <1>6, <1>8 DEF Under, Range
  <2> QED BY <2>1, <2>2
<1>9. IsTable(r)
  BY <1>2, <1>5 DEF IsTable
<1> QED BY <1>7, <1>8, <1>9 DEF r

LEMMA TableReplace ==
  ASSUME NEW q, IsTable(q), NEW r \in Seq(C!Entries), DOMAIN r = DOMAIN q,
         NEW k \in DOMAIN q, r[k].packet.packet_id = q[k].packet.packet_id,
         \A j \in DOMAIN q : j # k => r[j] = q[j]
  PROVE  /\ IsTable(r) /\ Under(r, q[k].packet.packet_id) = {r[k]}
         /\ \A id : id # q[k].packet.packet_id => Under(r, id) = Under(q, id)
<1>1. IsTable(r)
  BY DEF IsTable
<1>2. Under(r, q[k].packet.packet_id) = {r[k]}
  BY <1>1, TableEntry
<1>3. ASSUME NEW id, id # q[k].packet.packet_id PROVE Under(r, id) = Under(q, id)
  BY <1>3 DEF Under, Range
<1> QED BY <1>1, <1>2, <1>3

\* Both ends look an id up in the same way.
LEMMA ClientSlots ==
  ASSUME NEW id
  PROVE  /\ C!Slots(id) = {} <=> Under(c_pending, id) = {}
         /\ \A i \in C!Slots(id) : i \in DOMAIN c_pending /\ c_pending[i] \in Under(c_pending, id)
                                   /\ c_pending[i].packet.packet_id = id
BY DEF C!Slots, Under, Range

LEMMA BrokerSlots ==
  ASSUME NEW id
  PROVE  /\ B!Slots(id) = {} <=> Under(b_pending, id) = {}
         /\ \A i \in B!Slots(id) : i \in DOMAIN b_pending /\ b_pending[i] \in Under(b_pending, id)
                                   /\ b_pending[i].packet.packet_id = id
BY DEF B!Slots, Under, Range

LEMMA RemoveAtOfEnds ==
  \A q, k : C!RemoveAt(q, k) = RemoveAt(q, k) /\ B!RemoveAt(q, k) = RemoveAt(q, k)
BY DEF RemoveAt, C!RemoveAt, B!RemoveAt

-----------------------------------------------------------------------------
(* Packets and what is on its way                                          *)

LEMMA TrafficKinds ==
  ASSUME NEW p \in Traffic
  PROVE  \/ /\ p.type = "PUBLISH" /\ p.qos = 0 /\ p.packet_id = 0
            /\ p \in Of(0) /\ 0 \notin Ids /\ ~NeedsAnswer(p)
         \/ /\ p.packet_id \in Ids /\ p \in Of(p.packet_id)
            /\ \A id : id # p.packet_id => p \notin Of(id)
<1>1. p \in C!Packets
  BY DEF Traffic, C!Packets
<1>2. CASE p \in [type : {"PUBLISH"}, packet_id : {0}, qos : {0}, msg : Messages,
                  duplicate : BOOLEAN]
  BY <1>1, <1>2 DEF Of, Carries, Ids, NeedsAnswer
<1>3. CASE p \in [type : {"PUBLISH"}, packet_id : C!PacketIds, qos : {1, 2}, msg : Messages,
                  duplicate : BOOLEAN]
  BY <1>1, <1>3 DEF Of, Carries, Ids, C!PacketIds
<1>4. CASE p \in C!Acks
  BY <1>1, <1>4 DEF Of, Carries, Ids, C!PacketIds, C!Acks
<1>5. CASE p \in C!SubscriptionRequests
  BY <1>1, <1>5 DEF Of, Carries, Ids, C!PacketIds, C!SubscriptionRequests
<1> QED BY <1>2, <1>3, <1>4, <1>5 DEF Traffic, C!Publishes

LEMMA OfDifferent ==
  ASSUME NEW i, NEW j, i # j, NEW p \in Of(i)
  PROVE  p \notin Of(j) /\ p \notin Due(j)
BY DEF Of, Due, Carries

LEMMA DueOf == \A id : Due(id) \subseteq Of(id)
BY DEF Due

LEMMA AckKinds ==
  ASSUME NEW id \in Ids
  PROVE  /\ \A type \in {"PUBACK", "PUBREC", "UNSUBACK", "PUBREL", "PUBCOMP"} :
              /\ Ok(type, id) \in Traffic /\ Ok(type, id) \in Of(id)
              /\ Ok(type, id).type = type /\ Ok(type, id).packet_id = id
         /\ \A granted \in SUBSET Patterns :
              /\ C!SubAck(id, granted) \in Traffic /\ C!SubAck(id, granted) \in Of(id)
              /\ C!SubAck(id, granted).type = "SUBACK" /\ C!SubAck(id, granted).packet_id = id
BY DEF Ok, C!Ack, C!SubAck, Traffic, C!Acks, C!Packets, Of, Carries, Ids, C!PacketIds,
   C!ReceiveReasons, C!ReleaseReasons

LEMMA PublishKinds ==
  ASSUME NEW id \in Ids, NEW q \in {1, 2}, NEW r \in Publishes(id, q)
  PROVE  /\ r \in Traffic /\ r \in Of(id) /\ r \in Due(id)
         /\ r.type = "PUBLISH" /\ r.packet_id = id /\ r.qos = q /\ r.msg \in Messages
         /\ \A own \in BOOLEAN, ack \in {"UNACKNOWLEDGED", "ACKNOWLEDGED", "RELEASED"} :
              Entry(r, own, ack) \in C!Entries
<1>1. r \in [type : {"PUBLISH"}, packet_id : C!PacketIds, qos : {1, 2}, msg : Messages,
             duplicate : BOOLEAN]
  BY DEF Publishes, C!Publishes
<1>2. r \in C!Publishes /\ r.packet_id = id /\ r.qos = q /\ r.qos > 0
  BY DEF Publishes
<1>3. r \in Of(id)
  BY <1>1, <1>2 DEF Of, Carries, C!Packets
<1> QED BY <1>1, <1>2, <1>3 DEF Traffic, Due, NeedsAnswer, Entry, C!Entries, C!AckStates

LEMMA RequestKinds ==
  ASSUME NEW id \in Ids, NEW type \in {"SUBSCRIBE", "UNSUBSCRIBE"},
         NEW r \in Requests(id, type)
  PROVE  /\ r \in Traffic /\ r \in Of(id) /\ r.type = type /\ r.packet_id = id
         /\ r \in Due(id) <=> type = "SUBSCRIBE"
         /\ r.patterns \subseteq Patterns
         /\ \A own \in BOOLEAN : Entry(r, own, "UNACKNOWLEDGED") \in C!Entries
<1>1. r \in C!SubscriptionRequests /\ r.packet_id = id /\ r.type = type
  BY DEF Requests
<1>2. r \in Of(id)
  BY <1>1 DEF Of, Carries, C!Packets, C!SubscriptionRequests
<1>3. r \in Due(id) <=> type = "SUBSCRIBE"
  BY <1>1, <1>2 DEF Due, NeedsAnswer
<1>4. r.patterns \subseteq Patterns
  BY <1>1 DEF C!SubscriptionRequests
<1> QED BY <1>1, <1>2, <1>3, <1>4 DEF Traffic, Entry, C!Entries, C!AckStates

\* Whatever r has of S, q has it too.
Keeps(q, r, S) == \A p : (None(q, S) => None(r, S)) /\ (Sole(q, S, p) => Sole(r, S, p))

LEMMA KeepsSame == \A q, S : Keeps(q, q, S)
BY DEF Keeps

LEMMA KeepsAppend ==
  ASSUME NEW T, NEW q \in Seq(T), NEW e \in T, NEW S, e \notin S
  PROVE  Keeps(q, Append(q, e), S)
BY QueueAppend DEF Keeps

LEMMA KeepsTail ==
  ASSUME NEW T, NEW q \in Seq(T), q # <<>>, NEW S, Head(q) \notin S
  PROVE  Keeps(q, Tail(q), S)
BY QueueTail DEF Keeps

LEMMA HoldsKeeps ==
  ASSUME NEW q, NEW r, NEW S, Keeps(q, r, S), NEW here, NEW p, Holds(q, S, here, p)
  PROVE  Holds(r, S, here, p)
BY DEF Keeps, Holds

\* No queue has lost or gained a packet of the id.
QueuesKeep(id) ==
  /\ Keeps(c_out, c_out', Of(id)) /\ Keeps(c2b, c2b', Of(id))
  /\ Keeps(inbox, inbox', Due(id))
  /\ Keeps(b_out, b_out', Of(id)) /\ Keeps(b2c, b2c', Of(id))

TablesKeep(id) ==
  /\ Under(c_pending', id) = Under(c_pending, id)
  /\ Under(b_pending', id) = Under(b_pending, id)

LEMMA OnWayKept ==
  ASSUME NEW id, QueuesKeep(id), NEW place, NEW p, OnWay(id, place, p)
  PROVE  OnWay(id, place, p)'
<1>1. Holds(c_out', Of(id), place = "c_out", p)
  BY HoldsKeeps DEF QueuesKeep, OnWay
<1>2. Holds(c2b', Of(id), place = "c2b", p)
  BY HoldsKeeps DEF QueuesKeep, OnWay
<1>3. Holds(inbox', Due(id), place = "inbox", p)
  BY HoldsKeeps DEF QueuesKeep, OnWay
<1>4. Holds(b_out', Of(id), place = "b_out", p)
  BY HoldsKeeps DEF QueuesKeep, OnWay
<1>5. Holds(b2c', Of(id), place = "b2c", p)
  BY HoldsKeeps DEF QueuesKeep, OnWay
<1> QED BY <1>1, <1>2, <1>3, <1>4, <1>5 DEF OnWay

\* Its stage is then the one it was ...
LEMMA StageKept ==
  ASSUME NEW id, TablesKeep(id),
         \A place, p : OnWay(id, place, p) => OnWay(id, place, p)',
         NEW X, NEW Y, NEW places, NEW p, Stage(id, X, Y, places, p)
  PROVE  Stage(id, X, Y, places, p)'
BY DEF Stage, TablesKeep

\* ... or is in a place further on, which is still the same stage.
LEMMA ExchangeKept ==
  ASSUME NEW id,
         \A X, Y, places, p :
           Stage(id, X, Y, places, p) /\ places \in {Up, Down, {"inbox"}, {"nowhere"}}
             => Stage(id, X, Y, places, p)',
         Exchange(id)
  PROVE  Exchange(id)'
<1>1. Idle(id) => Idle(id)'
  BY DEF Idle, Quiet
<1>2. ASSUME NEW r, Publish1(id, r) PROVE Publish1(id, r)'
  BY <1>2 DEF Publish1
<1>3. ASSUME NEW r, Publish2(id, r) PROVE Publish2(id, r)'
  BY <1>3 DEF Publish2
<1>4. ASSUME NEW r, Subscribe(id, r) PROVE Subscribe(id, r)'
  BY <1>4 DEF Subscribe
<1>5. ASSUME NEW r, Unsubscribe(id, r) PROVE Unsubscribe(id, r)'
  BY <1>5 DEF Unsubscribe
<1>6. ASSUME NEW r, Deliver(id, r) PROVE Deliver(id, r)'
  BY <1>6 DEF Deliver
<1>8. Request(id) => Request(id)'
  BY <1>2, <1>3, <1>4, <1>5 DEF Request
<1>9. Delivery(id) => Delivery(id)'
  BY <1>6 DEF Delivery
<1> QED BY <1>1, <1>8, <1>9 DEF Exchange

LEMMA Bystander ==
  ASSUME NEW id, TablesKeep(id), QueuesKeep(id)
  PROVE  (Exchange(id) => Exchange(id)') /\ (Quiet(id) => Quiet(id)')
<1>1. \A place, p : OnWay(id, place, p) => OnWay(id, place, p)'
  BY OnWayKept
<1>2. \A X, Y, places, p : Stage(id, X, Y, places, p) => Stage(id, X, Y, places, p)'
  BY <1>1, StageKept
<1>3. Exchange(id) => Exchange(id)'
  BY <1>2, ExchangeKept
<1>4. Quiet(id) => Quiet(id)'
  BY <1>2 DEF Quiet
<1> QED BY <1>3, <1>4

-----------------------------------------------------------------------------
(* What the head of a queue can be                                         *)

\* The exchange of the packet id whose packet arrives at the client ...
ArrivesDown(id, p) ==
  \/ /\ id \notin DeliveryIds
     /\ \/ \E r \in Publishes(id, 1) :
             /\ p = Ok("PUBACK", id)
             /\ Stage(id, Sent(r), {}, {"b2c"}, p)
        \/ \E r \in Publishes(id, 2) :
             /\ p = Ok("PUBREC", id)
             /\ Stage(id, Sent(r), TakenAccepted(r), {"b2c"}, p)
        \/ \E r \in Requests(id, "SUBSCRIBE"), granted \in SUBSET Patterns :
             /\ p = C!SubAck(id, granted)
             /\ Stage(id, Sent(r), {}, {"b2c"}, p)
        \/ \E r \in Requests(id, "UNSUBSCRIBE") :
             /\ p = Ok("UNSUBACK", id)
             /\ Stage(id, Sent(r),
                          Taken(r), {"b2c"}, p)
  \/ /\ id \in DeliveryIds
     /\ p \in Publishes(id, 1)
     /\ Stage(id, {}, SentAccepted(p), {"b2c"}, p)

\* ... at the broker ...
ArrivesUp(id, p) ==
  \/ /\ id \notin DeliveryIds
     /\ \/ /\ p \in Publishes(id, 1) \cup Publishes(id, 2)
                 \cup Requests(id, "SUBSCRIBE") \cup Requests(id, "UNSUBSCRIBE")
           /\ Stage(id, Sent(p), {}, {"c2b"}, p)
        \/ \E r \in Publishes(id, 2) :
             /\ p = Ok("PUBREL", id)
             /\ Stage(id, SentReleased(r),
                          TakenAccepted(r), {"c2b"}, p)
  \/ /\ id \in DeliveryIds
     /\ \E r \in Publishes(id, 1) :
          /\ p = Ok("PUBACK", id)
          /\ Stage(id, {}, SentAccepted(r), {"c2b"}, p)

\* ... and is due to be answered by handle_packet or the application.
Waits(id, p) ==
  /\ id \notin DeliveryIds
  /\ p \in Publishes(id, 1) \cup Publishes(id, 2) \cup Requests(id, "SUBSCRIBE")
  /\ Stage(id, Sent(p), Taken(p), {"inbox"}, p)

\* No packet of the id is on its way.
Clear(id, q1, q2, q3, q4, q5) ==
  /\ None(q1, Of(id)) /\ None(q2, Of(id)) /\ None(q3, Due(id))
  /\ None(q4, Of(id)) /\ None(q5, Of(id))

LEMMA HeadInB2C ==
  ASSUME Queues, NEW id, b2c # <<>>, Head(b2c) \in Of(id)
  PROVE  /\ \A X, Y, places, p : Stage(id, X, Y, places, p) =>
              /\ "b2c" \in places /\ p = Head(b2c)
              /\ Stage(id, X, Y, {"b2c"}, Head(b2c))
              /\ Clear(id, c_out, c2b, inbox, b_out, Tail(b2c))
<1> SUFFICES ASSUME NEW X, NEW Y, NEW places, NEW p, Stage(id, X, Y, places, p)
             PROVE  /\ "b2c" \in places /\ p = Head(b2c)
                    /\ Stage(id, X, Y, {"b2c"}, Head(b2c))
                    /\ Clear(id, c_out, c2b, inbox, b_out, Tail(b2c))
  OBVIOUS
<1>1. PICK place \in places : OnWay(id, place, p)
  BY DEF Stage
<1>2. ~None(b2c, Of(id))
  BY QueueTail DEF Queues
<1>3. place = "b2c" /\ Sole(b2c, Of(id), p)
  BY <1>1, <1>2 DEF OnWay, Holds
<1>4. p = Head(b2c) /\ None(Tail(b2c), Of(id))
  BY <1>3, QueueTail DEF Queues
<1>5. Stage(id, X, Y, {"b2c"}, Head(b2c))
  BY <1>1, <1>3, <1>4 DEF Stage
<1>6. None(c_out, Of(id)) /\ None(c2b, Of(id)) /\ None(inbox, Due(id)) /\ None(b_out, Of(id))
  BY <1>1, <1>3 DEF OnWay, Holds
<1> QED BY <1>1, <1>3, <1>4, <1>5, <1>6 DEF Clear

LEMMA HeadInC2B ==
  ASSUME Queues, NEW id, c2b # <<>>, Head(c2b) \in Of(id)
  PROVE  /\ \A X, Y, places, p : Stage(id, X, Y, places, p) =>
              /\ "c2b" \in places /\ p = Head(c2b)
              /\ Stage(id, X, Y, {"c2b"}, Head(c2b))
              /\ Clear(id, c_out, Tail(c2b), inbox, b_out, b2c)
<1> SUFFICES ASSUME NEW X, NEW Y, NEW places, NEW p, Stage(id, X, Y, places, p)
             PROVE  /\ "c2b" \in places /\ p = Head(c2b)
                    /\ Stage(id, X, Y, {"c2b"}, Head(c2b))
                    /\ Clear(id, c_out, Tail(c2b), inbox, b_out, b2c)
  OBVIOUS
<1>1. PICK place \in places : OnWay(id, place, p)
  BY DEF Stage
<1>2. ~None(c2b, Of(id))
  BY QueueTail DEF Queues
<1>3. place = "c2b" /\ Sole(c2b, Of(id), p)
  BY <1>1, <1>2 DEF OnWay, Holds
<1>4. p = Head(c2b) /\ None(Tail(c2b), Of(id))
  BY <1>3, QueueTail DEF Queues
<1>5. Stage(id, X, Y, {"c2b"}, Head(c2b))
  BY <1>1, <1>3, <1>4 DEF Stage
<1>6. None(c_out, Of(id)) /\ None(inbox, Due(id)) /\ None(b_out, Of(id)) /\ None(b2c, Of(id))
  BY <1>1, <1>3 DEF OnWay, Holds
<1> QED BY <1>1, <1>3, <1>4, <1>5, <1>6 DEF Clear

LEMMA HeadInInbox ==
  ASSUME Queues, NEW id, inbox # <<>>, Head(inbox) \in Due(id)
  PROVE  /\ \A X, Y, places, p : Stage(id, X, Y, places, p) =>
              /\ "inbox" \in places /\ p = Head(inbox)
              /\ Stage(id, X, Y, {"inbox"}, Head(inbox))
              /\ Clear(id, c_out, c2b, Tail(inbox), b_out, b2c)
<1> SUFFICES ASSUME NEW X, NEW Y, NEW places, NEW p, Stage(id, X, Y, places, p)
             PROVE  /\ "inbox" \in places /\ p = Head(inbox)
                    /\ Stage(id, X, Y, {"inbox"}, Head(inbox))
                    /\ Clear(id, c_out, c2b, Tail(inbox), b_out, b2c)
  OBVIOUS
<1>1. PICK place \in places : OnWay(id, place, p)
  BY DEF Stage
<1>2. ~None(inbox, Due(id))
  BY QueueTail DEF Queues
<1>3. place = "inbox" /\ Sole(inbox, Due(id), p)
  BY <1>1, <1>2 DEF OnWay, Holds
<1>4. p = Head(inbox) /\ None(Tail(inbox), Due(id))
  BY <1>3, QueueTail DEF Queues
<1>5. Stage(id, X, Y, {"inbox"}, Head(inbox))
  BY <1>1, <1>3, <1>4 DEF Stage
<1>6. None(c_out, Of(id)) /\ None(c2b, Of(id)) /\ None(b_out, Of(id)) /\ None(b2c, Of(id))
  BY <1>1, <1>3 DEF OnWay, Holds
<1> QED BY <1>1, <1>3, <1>4, <1>5, <1>6 DEF Clear

LEMMA ClientArrival ==
  ASSUME Queues, NEW id, b2c # <<>>, Head(b2c) \in Of(id), Exchange(id)
  PROVE  ArrivesDown(id, Head(b2c)) /\ Clear(id, c_out, c2b, inbox, b_out, Tail(b2c))
<1> DEFINE p == Head(b2c)
           clear == Clear(id, c_out, c2b, inbox, b_out, Tail(b2c))
<1>1. /\ \A X, Y, places, x : Stage(id, X, Y, places, x) => "b2c" \in places
      /\ \A X, Y, places, x : Stage(id, X, Y, places, x) =>
           x = p /\ Stage(id, X, Y, {"b2c"}, p) /\ clear
  BY HeadInB2C
<1>2. \A X, Y, x : /\ ~Stage(id, X, Y, Up, x)
                  /\ ~Stage(id, X, Y, {"inbox"}, x)
                  /\ ~Stage(id, X, Y, {"nowhere"}, x)
  BY <1>1 DEF Up, Down
<1>3. \A X, Y, x : Stage(id, X, Y, Down, x) =>
        x = p /\ Stage(id, X, Y, {"b2c"}, p) /\ clear
  BY <1>1
<1> HIDE DEF p, clear
<1>4. ~Idle(id)
  BY <1>2 DEF Idle, Quiet
<1>5. ASSUME id \notin DeliveryIds, NEW r \in Publishes(id, 1), Publish1(id, r)
      PROVE  ArrivesDown(id, p) /\ clear
  <2>1. Stage(id, Sent(r), {}, Down, Ok("PUBACK", id))
    BY <1>2, <1>5 DEF Publish1
  <2>2. p = Ok("PUBACK", id) /\ Stage(id, Sent(r), {}, {"b2c"}, p) /\ clear
    BY <1>3, <2>1
  <2> QED BY <1>5, <2>2 DEF ArrivesDown
<1>6. ASSUME id \notin DeliveryIds, NEW r \in Publishes(id, 2), Publish2(id, r)
      PROVE  ArrivesDown(id, p) /\ clear
  <2>1. Stage(id, Sent(r), TakenAccepted(r), Down, Ok("PUBREC", id))
    BY <1>2, <1>6 DEF Publish2
  <2>2. p = Ok("PUBREC", id) /\ Stage(id, Sent(r), TakenAccepted(r), {"b2c"}, p) /\ clear
    BY <1>3, <2>1
  <2> QED BY <1>6, <2>2 DEF ArrivesDown
<1>7. ASSUME id \notin DeliveryIds, NEW r \in Requests(id, "SUBSCRIBE"), Subscribe(id, r)
      PROVE  ArrivesDown(id, p) /\ clear
  <2>1. PICK granted \in SUBSET Patterns :
          Stage(id, Sent(r), {}, Down, C!SubAck(id, granted))
    BY <1>2, <1>7 DEF Subscribe
  <2>2. p = C!SubAck(id, granted) /\ Stage(id, Sent(r), {}, {"b2c"}, p) /\ clear
    BY <1>3, <2>1
  <2> QED BY <1>7, <2>2 DEF ArrivesDown
<1>8. ASSUME id \notin DeliveryIds, NEW r \in Requests(id, "UNSUBSCRIBE"), Unsubscribe(id, r)
      PROVE  ArrivesDown(id, p) /\ clear
  <2>1. Stage(id, Sent(r), Taken(r), Down, Ok("UNSUBACK", id))
    BY <1>2, <1>8 DEF Unsubscribe
  <2>2. p = Ok("UNSUBACK", id) /\ Stage(id, Sent(r), Taken(r), {"b2c"}, p) /\ clear
    BY <1>3, <2>1
  <2> QED BY <1>8, <2>2 DEF ArrivesDown
<1>9. ASSUME id \in DeliveryIds, NEW r \in Publishes(id, 1), Deliver(id, r)
      PROVE  ArrivesDown(id, p) /\ clear
  <2>1. Stage(id, {}, SentAccepted(r), Down, r)
    BY <1>2, <1>9 DEF Deliver
  <2>2. p = r /\ Stage(id, {}, SentAccepted(r), {"b2c"}, p) /\ clear
    BY <1>3, <2>1
  <2> QED BY <1>9, <2>2 DEF ArrivesDown
<1> QED
  BY <1>4, <1>5, <1>6, <1>7, <1>8, <1>9 DEF Exchange, Request, Delivery, p, clear

LEMMA BrokerArrival ==
  ASSUME Queues, NEW id, c2b # <<>>, Head(c2b) \in Of(id), Exchange(id)
  PROVE  ArrivesUp(id, Head(c2b)) /\ Clear(id, c_out, Tail(c2b), inbox, b_out, b2c)
<1> DEFINE p == Head(c2b)
           clear == Clear(id, c_out, Tail(c2b), inbox, b_out, b2c)
<1>1. /\ \A X, Y, places, x : Stage(id, X, Y, places, x) => "c2b" \in places
      /\ \A X, Y, places, x : Stage(id, X, Y, places, x) =>
           x = p /\ Stage(id, X, Y, {"c2b"}, p) /\ clear
  BY HeadInC2B
<1>2. \A X, Y, x : /\ ~Stage(id, X, Y, Down, x)
                  /\ ~Stage(id, X, Y, {"inbox"}, x)
                  /\ ~Stage(id, X, Y, {"nowhere"}, x)
  BY <1>1 DEF Up, Down
<1>3. \A X, Y, x : Stage(id, X, Y, Up, x) =>
        x = p /\ Stage(id, X, Y, {"c2b"}, p) /\ clear
  BY <1>1
<1> HIDE DEF p, clear
<1>4. ~Idle(id)
  BY <1>2 DEF Idle, Quiet
<1>5. ASSUME id \notin DeliveryIds, NEW r \in Publishes(id, 1), Publish1(id, r)
      PROVE  ArrivesUp(id, p) /\ clear
  <2>1. Stage(id, Sent(r), {}, Up, r)
    BY <1>2, <1>5 DEF Publish1
  <2>2. p = r /\ Stage(id, Sent(r), {}, {"c2b"}, p) /\ clear
    BY <1>3, <2>1
  <2> QED BY <1>5, <2>2 DEF ArrivesUp
<1>6. ASSUME id \notin DeliveryIds, NEW r \in Publishes(id, 2), Publish2(id, r)
      PROVE  ArrivesUp(id, p) /\ clear
  <2>1. \/ Stage(id, Sent(r), {}, Up, r)
        \/ Stage(id, SentReleased(r), TakenAccepted(r), Up, Ok("PUBREL", id))
    BY <1>2, <1>6 DEF Publish2
  <2>2. \/ p = r /\ Stage(id, Sent(r), {}, {"c2b"}, p)
        \/ p = Ok("PUBREL", id) /\ Stage(id, SentReleased(r), TakenAccepted(r), {"c2b"}, p)
    BY <1>3, <2>1
  <2>3. clear
    BY <1>3, <2>1
  <2> QED BY <1>6, <2>2, <2>3 DEF ArrivesUp
<1>7. ASSUME id \notin DeliveryIds, NEW r \in Requests(id, "SUBSCRIBE"), Subscribe(id, r)
      PROVE  ArrivesUp(id, p) /\ clear
  <2>1. Stage(id, Sent(r), {}, Up, r)
    BY <1>2, <1>7 DEF Subscribe
  <2>2. p = r /\ Stage(id, Sent(r), {}, {"c2b"}, p) /\ clear
    BY <1>3, <2>1
  <2> QED BY <1>7, <2>2 DEF ArrivesUp
<1>8. ASSUME id \notin DeliveryIds, NEW r \in Requests(id, "UNSUBSCRIBE"), Unsubscribe(id, r)
      PROVE  ArrivesUp(id, p) /\ clear
  <2>1. Stage(id, Sent(r), {}, Up, r)
    BY <1>2, <1>8 DEF Unsubscribe
  <2>2. p = r /\ Stage(id, Sent(r), {}, {"c2b"}, p) /\ clear
    BY <1>3, <2>1
  <2> QED BY <1>8, <2>2 DEF ArrivesUp
<1>9. ASSUME id \in DeliveryIds, NEW r \in Publishes(id, 1), Deliver(id, r)
      PROVE  ArrivesUp(id, p) /\ clear
  <2>1. Stage(id, {}, SentAccepted(r), Up, Ok("PUBACK", id))
    BY <1>2, <1>9 DEF Deliver
  <2>2. p = Ok("PUBACK", id) /\ Stage(id, {}, SentAccepted(r), {"c2b"}, p) /\ clear
    BY <1>3, <2>1
  <2> QED BY <1>9, <2>2 DEF ArrivesUp
<1> QED
  BY <1>4, <1>5, <1>6, <1>7, <1>8, <1>9 DEF Exchange, Request, Delivery, p, clear

LEMMA InboxWaits ==
  ASSUME Queues, NEW id, inbox # <<>>, Head(inbox) \in Due(id), Exchange(id)
  PROVE  Waits(id, Head(inbox)) /\ Clear(id, c_out, c2b, Tail(inbox), b_out, b2c)
<1> DEFINE p == Head(inbox)
           clear == Clear(id, c_out, c2b, Tail(inbox), b_out, b2c)
<1>1. /\ \A X, Y, places, x : Stage(id, X, Y, places, x) => "inbox" \in places
      /\ \A X, Y, places, x : Stage(id, X, Y, places, x) =>
           x = p /\ Stage(id, X, Y, {"inbox"}, p) /\ clear
  BY HeadInInbox
<1>2. \A X, Y, x : /\ ~Stage(id, X, Y, Up, x)
                  /\ ~Stage(id, X, Y, Down, x)
                  /\ ~Stage(id, X, Y, {"nowhere"}, x)
  BY <1>1 DEF Up, Down
<1>3. \A X, Y, x : Stage(id, X, Y, {"inbox"}, x) =>
        x = p /\ Stage(id, X, Y, {"inbox"}, p) /\ clear
  BY <1>1
<1> HIDE DEF p, clear
<1>4. ~Idle(id)
  BY <1>2 DEF Idle, Quiet
<1>5. ASSUME id \notin DeliveryIds, NEW r \in Publishes(id, 1), Publish1(id, r)
      PROVE  Waits(id, p) /\ clear
  <2>1. Stage(id, Sent(r), Taken(r), {"inbox"}, r)
    BY <1>2, <1>5 DEF Publish1
  <2>2. p = r /\ Stage(id, Sent(r), Taken(r), {"inbox"}, p) /\ clear
    BY <1>3, <2>1
  <2> QED BY <1>5, <2>2 DEF Waits
<1>6. ASSUME id \notin DeliveryIds, NEW r \in Publishes(id, 2), Publish2(id, r)
      PROVE  Waits(id, p) /\ clear
  <2>1. Stage(id, Sent(r), Taken(r), {"inbox"}, r)
    BY <1>2, <1>6 DEF Publish2
  <2>2. p = r /\ Stage(id, Sent(r), Taken(r), {"inbox"}, p) /\ clear
    BY <1>3, <2>1
  <2> QED BY <1>6, <2>2 DEF Waits
<1>7. ASSUME id \notin DeliveryIds, NEW r \in Requests(id, "SUBSCRIBE"), Subscribe(id, r)
      PROVE  Waits(id, p) /\ clear
  <2>1. Stage(id, Sent(r), Taken(r), {"inbox"}, r)
    BY <1>2, <1>7 DEF Subscribe
  <2>2. p = r /\ Stage(id, Sent(r), Taken(r), {"inbox"}, p) /\ clear
    BY <1>3, <2>1
  <2> QED BY <1>7, <2>2 DEF Waits
<1>8. ASSUME id \notin DeliveryIds, NEW r \in Requests(id, "UNSUBSCRIBE"), Unsubscribe(id, r)
      PROVE  Waits(id, p) /\ clear
  BY <1>2, <1>8 DEF Unsubscribe
<1>9. ASSUME id \in DeliveryIds, NEW r \in Publishes(id, 1), Deliver(id, r)
      PROVE  Waits(id, p) /\ clear
  BY <1>2, <1>9 DEF Deliver
<1> QED
  BY <1>4, <1>5, <1>6, <1>7, <1>8, <1>9 DEF Exchange, Request, Delivery, p, clear

-----------------------------------------------------------------------------
(* A packet moves on                                                       *)

LEMMA PutInClientOut ==
  ASSUME NEW id, NEW q \in Seq(Traffic), NEW a \in Traffic, a \in Of(id),
         c_out' = Append(q, a), Clear(id, q, c2b', inbox', b_out', b2c')
  PROVE  OnWay(id, "c_out", a)'
<1>1. Sole(c_out', Of(id), a)
  BY QueueAppend DEF Clear
<1> QED BY <1>1 DEF Clear, OnWay, Holds

LEMMA PutInBrokerOut ==
  ASSUME NEW id, NEW q \in Seq(Traffic), NEW a \in Traffic, a \in Of(id),
         b_out' = Append(q, a), Clear(id, c_out', c2b', inbox', q, b2c')
  PROVE  OnWay(id, "b_out", a)'
<1>1. Sole(b_out', Of(id), a)
  BY QueueAppend DEF Clear
<1> QED BY <1>1 DEF Clear, OnWay, Holds

LEMMA PutInInbox ==
  ASSUME NEW id, NEW q \in Seq(Traffic), NEW a \in Traffic, a \in Due(id),
         inbox' = Append(q, a), Clear(id, c_out', c2b', q, b_out', b2c')
  PROVE  OnWay(id, "inbox", a)'
<1>1. Sole(inbox', Due(id), a)
  BY QueueAppend DEF Clear
<1> QED BY <1>1 DEF Clear, OnWay, Holds

LEMMA PutNowhere ==
  ASSUME NEW id, NEW p, Clear(id, c_out', c2b', inbox', b_out', b2c')
  PROVE  OnWay(id, "nowhere", p)'
BY DEF Clear, OnWay, Holds

LEMMA NewStage ==
  ASSUME NEW id, NEW X, NEW Y, NEW places, NEW place \in places, NEW p,
         Under(c_pending', id) = X, Under(b_pending', id) = Y, OnWay(id, place, p)'
  PROVE  Stage(id, X, Y, places, p)'
BY DEF Stage

\* From the queue q a packet of the id was taken, or one was added to it.
Touch(q, r, id) ==
  \/ r = q
  \/ q # <<>> /\ Head(q) \in Of(id) /\ r = Tail(q)
  \/ \E a \in Of(id) \cap Traffic : r = Append(q, a)

LEMMA Touched ==
  ASSUME NEW q \in Seq(Traffic), NEW r, NEW id, Touch(q, r, id)
  PROVE  /\ r \in Seq(Traffic)
         /\ \A j : j # id => Keeps(q, r, Of(j)) /\ Keeps(q, r, Due(j))
<1>1. CASE r = q
  BY <1>1, KeepsSame
<1>2. CASE q # <<>> /\ Head(q) \in Of(id) /\ r = Tail(q)
  <2>1. r \in Seq(Traffic)
    BY <1>2, TailElements
  <2>2. ASSUME NEW j, j # id PROVE Keeps(q, r, Of(j)) /\ Keeps(q, r, Due(j))
    <3>1. Head(q) \notin Of(j) /\ Head(q) \notin Due(j)
      BY <1>2, <2>2, OfDifferent
    <3>2. Keeps(q, Tail(q), Of(j))
      BY <1>2, <3>1, KeepsTail
    <3>3. Keeps(q, Tail(q), Due(j))
      BY <1>2, <3>1, KeepsTail
    <3> QED BY <1>2, <3>2, <3>3
  <2> QED BY <2>1, <2>2
<1>3. ASSUME NEW a \in Of(id) \cap Traffic, r = Append(q, a)
      PROVE  /\ r \in Seq(Traffic)
             /\ \A j : j # id => Keeps(q, r, Of(j)) /\ Keeps(q, r, Due(j))
  <2>1. r \in Seq(Traffic)
    BY <1>3, AppendElements
  <2>2. ASSUME NEW j, j # id PROVE Keeps(q, r, Of(j)) /\ Keeps(q, r, Due(j))
    <3>1. a \notin Of(j) /\ a \notin Due(j)
      BY <2>2, OfDifferent
    <3>2. Keeps(q, Append(q, a), Of(j))
      BY <3>1, KeepsAppend
    <3>3. Keeps(q, Append(q, a), Due(j))
      BY <3>1, KeepsAppend
    <3> QED BY <1>3, <3>2, <3>3
  <2> QED BY <2>1, <2>2
<1> QED BY <1>1, <1>2, <1>3 DEF Touch

\* The tables q and r differ in what they have for the id, at most.
SameBut(q, r, id) == \A j : j # id => Under(r, j) = Under(q, j)

\* A step that concerns one packet id
Concerns(id) ==
  /\ Touch(c_out, c_out', id) /\ Touch(c2b, c2b', id) /\ Touch(inbox, inbox', id)
  /\ Touch(b_out, b_out', id) /\ Touch(b2c, b2c', id)
  /\ SameBut(c_pending, c_pending', id) /\ SameBut(b_pending, b_pending', id)

StaysQuiet(S) == \A j \in S : Quiet(j) => Quiet(j)'

\* It leaves the exchanges of all others as they are.
LEMMA Others ==
  ASSUME Queues, NEW id, Concerns(id), \A j \in Ids : Exchange(j)
  PROVE  /\ Queues'
         /\ \A j \in Ids : j # id => Exchange(j)'
         /\ StaysQuiet(Ids \ {id})
<1>1. Queues'
  BY Touched DEF Queues, Concerns
<1>2. ASSUME NEW j \in Ids, j # id
      PROVE  Exchange(j)' /\ (Quiet(j) => Quiet(j)')
  <2>1. QueuesKeep(j)
    BY <1>2, Touched DEF Queues, Concerns, QueuesKeep
  <2>2. TablesKeep(j)
    BY <1>2 DEF Concerns, SameBut, TablesKeep
  <2> QED BY <2>1, <2>2, Bystander
<1> QED BY <1>1, <1>2 DEF StaysQuiet

LEMMA TouchKinds ==
  ASSUME NEW q, NEW id
  PROVE  /\ Touch(q, q, id)
         /\ q # <<>> /\ Head(q) \in Of(id) => Touch(q, Tail(q), id)
         /\ \A a : a \in Of(id) /\ a \in Traffic => Touch(q, Append(q, a), id)
BY DEF Touch

LEMMA TableHas ==
  ASSUME NEW q, IsTable(q), NEW id, NEW e, Under(q, id) = {e},
         NEW k \in DOMAIN q, q[k].packet.packet_id = id
  PROVE  q[k] = e
BY TableEntry

LEMMA TableDrops ==
  ASSUME NEW q, IsTable(q), NEW id, NEW k \in DOMAIN q, q[k].packet.packet_id = id
  PROVE  /\ IsTable(RemoveAt(q, k)) /\ Under(RemoveAt(q, k), id) = {}
         /\ SameBut(q, RemoveAt(q, k), id)
BY TableRemove DEF SameBut

LEMMA TableGains ==
  ASSUME NEW q, IsTable(q), NEW id, NEW e \in C!Entries, e.packet.packet_id = id,
         Under(q, id) = {}
  PROVE  /\ IsTable(Append(q, e)) /\ e \in Under(Append(q, e), id)
         /\ SameBut(q, Append(q, e), id)
BY TableAppend DEF SameBut

LEMMA TableSole ==
  ASSUME NEW q, IsTable(q), NEW id, NEW e \in Under(q, id)
  PROVE  Under(q, id) = {e}
BY DEF IsTable, Under, Range

Moved(q, k, b) == [q EXCEPT ![k].ack_state = b]

LEMMA TableMoves ==
  ASSUME NEW q, IsTable(q), NEW id, NEW r, NEW own, NEW a, NEW b,
         NEW k \in DOMAIN q, q[k] = Entry(r, own, a),
         r.packet_id = id, Entry(r, own, b) \in C!Entries
  PROVE  /\ IsTable(Moved(q, k, b)) /\ Entry(r, own, b) \in Under(Moved(q, k, b), id)
         /\ SameBut(q, Moved(q, k, b), id)
<1> DEFINE new == [q EXCEPT ![k].ack_state = b]
<1>1. q[k].packet.packet_id = id
  BY DEF Entry
<1>2. [q[k] EXCEPT !.ack_state = b] = Entry(r, own, b)
  BY DEF Entry
<1>3. /\ DOMAIN new = DOMAIN q /\ new[k] = Entry(r, own, b)
      /\ \A j \in DOMAIN q : j # k => new[j] = q[j]
  BY <1>2
<1>4. new \in Seq(C!Entries)
  BY <1>2, ReplaceType DEF IsTable
<1>5. new[k].packet.packet_id = q[k].packet.packet_id
  BY <1>1, <1>3 DEF Entry
<1>6. new = Moved(q, k, b)
  BY DEF Moved
<1> HIDE DEF new
<1>7. /\ IsTable(new) /\ Under(new, q[k].packet.packet_id) = {new[k]}
      /\ \A j : j # q[k].packet.packet_id => Under(new, j) = Under(q, j)
  BY <1>3, <1>4, <1>5, TableReplace
<1> QED BY <1>1, <1>3, <1>6, <1>7 DEF SameBut

-----------------------------------------------------------------------------
(* The client receives                                                     *)

\* What the head of b2c does at the client for the exchange it belongs to.
ClientDone(id) ==
  /\ Exchange(id)'
  /\ Concerns(id)
  /\ IsTable(c_pending')
  /\ c_state' = c_state /\ c_failure' = c_failure
  /\ UNCHANGED <<c_next_packet_id, c_subscriptions, c_counts>>

LEMMA ClientAccepts ==
  ASSUME c_state = "CONNECTED", NEW p,
         p.type \in {"PUBLISH", "PUBACK", "PUBREC", "PUBREL", "PUBCOMP", "SUBACK", "UNSUBACK"},
         C!Receive(p)
  PROVE  \/ /\ \/ p.type = "PUBLISH" /\ C!ReceivePublish(p)
               \/ p.type = "PUBACK" /\ C!ReceivePubAck(p)
               \/ p.type = "PUBREC" /\ C!ReceivePubRec(p)
               \/ p.type = "PUBREL" /\ C!ReceivePubRel(p)
               \/ p.type = "PUBCOMP" /\ C!ReceivePubComp(p)
            /\ UNCHANGED <<c_next_packet_id, c_subscriptions, c_counts>>
         \/ p.type = "SUBACK" /\ C!ReceiveSubAck(p)
         \/ p.type = "UNSUBACK" /\ C!ReceiveUnsubAck(p)
<1>1. C!Accepts(C!ClientAccepting, p)
  BY DEF C!Accepts, C!ClientAccepting, C!BaseAccepting
<1>2. C!ReceiveAccepted(p)
  BY <1>1 DEF C!Receive, C!ReceiveRefused
<1> QED
  BY <1>2 DEF C!ReceiveAccepted, C!ReceiveBase, C!ReceivePublish, C!ReceivePubAck,
     C!ReceivePubRec, C!ReceivePubRel, C!ReceivePubComp, C!ReceiveDisconnect, C!ReceiveAuth,
     C!ReceiveConnAck, C!ReceivePingResp, C!ReceiveSubAck, C!ReceiveUnsubAck,
     C!ReceiveRequestAck, C!clientVars

LEMMA ClientHandles ==
  ASSUME Queues, IsTable(c_pending), c_state = "CONNECTED",
         NEW id \in Ids, NEW p \in Traffic, b2c # <<>>, p = Head(b2c),
         ArrivesDown(id, p), Clear(id, c_out, c2b, inbox, b_out, Tail(b2c)),
         C!Receive(p), b2c' = Tail(b2c),
         UNCHANGED <<b_pending, b_out, c2b, inbox>>
  PROVE  ClientDone(id)
<1> DEFINE C1(q) == Clear(id, q, c2b', inbox', b_out', b2c')
           others == SameBut(c_pending, c_pending', id)
           rest == UNCHANGED <<c_state, c_failure, c_next_packet_id, c_subscriptions, c_counts>>
<1>1. C1(c_out) /\ c_out \in Seq(Traffic)
  BY DEF Queues
<1>2. p \in Of(id)
  BY AckKinds, PublishKinds DEF ArrivesDown
<1>3. ASSUME IsTable(c_pending'), others, rest, c_out' = c_out, Exchange(id)'
      PROVE  ClientDone(id)
  <2>1. Concerns(id)
    BY <1>2, <1>3, TouchKinds DEF Concerns, SameBut
  <2> QED BY <1>3, <2>1 DEF ClientDone
<1>4. ASSUME IsTable(c_pending'), others, rest, Exchange(id)',
             NEW a, a \in Of(id), a \in Traffic, c_out' = Append(c_out, a)
      PROVE  ClientDone(id)
  <2>1. Concerns(id)
    BY <1>2, <1>4, TouchKinds DEF Concerns, SameBut
  <2> QED BY <1>4, <2>1 DEF ClientDone
<1>5. ASSUME C1(c_out'), NEW Y, Under(c_pending', id) = {}, Under(b_pending, id) = Y
      PROVE  Stage(id, {}, Y, {"nowhere"}, "none")'
  <2>1. OnWay(id, "nowhere", "none")'
    BY <1>5, PutNowhere
  <2> QED BY <1>5, <2>1, NewStage
<1>6. ASSUME NEW a, a \in Of(id), a \in Traffic, c_out' = Append(c_out, a),
             NEW X, NEW Y, Under(c_pending', id) = X, Under(b_pending, id) = Y
      PROVE  Stage(id, X, Y, Up, a)'
  <2>1. OnWay(id, "c_out", a)'
    BY <1>1, <1>6, PutInClientOut
  <2>2. "c_out" \in Up
    BY DEF Up
  <2> QED BY <1>6, <2>1, <2>2, NewStage
<1>7. /\ C!Slots(id) = {} <=> Under(c_pending, id) = {}
      /\ \A i \in C!Slots(id) : i \in DOMAIN c_pending /\ c_pending[i].packet.packet_id = id
  BY ClientSlots
<1>8. /\ \A e, i : Under(c_pending, id) = {e} /\ i \in C!Slots(id) => c_pending[i] = e
      /\ \A e : Under(c_pending, id) = {e} => C!Slots(id) # {}
  BY <1>7, TableHas
<1>9. ASSUME NEW i \in C!Slots(id), c_pending' = C!RemoveAt(c_pending, i)
      PROVE  IsTable(c_pending') /\ Under(c_pending', id) = {} /\ others
  <2>1. c_pending' = RemoveAt(c_pending, i)
    BY <1>9, RemoveAtOfEnds
  <2>2. i \in DOMAIN c_pending /\ c_pending[i].packet.packet_id = id
    BY <1>7
  <2>3. /\ IsTable(RemoveAt(c_pending, i)) /\ Under(RemoveAt(c_pending, i), id) = {}
        /\ SameBut(c_pending, RemoveAt(c_pending, i), id)
    BY <2>2, TableDrops
  <2> QED BY <2>1, <2>3
<1> HIDE DEF C1, others, rest
<1>10. ASSUME NEW i \in C!Slots(id), c_pending' = C!RemoveAt(c_pending, i),
              c_out' = c_out, rest, Under(b_pending, id) = {}
       PROVE  ClientDone(id)
  <2>1. IsTable(c_pending') /\ Under(c_pending', id) = {} /\ others
    BY <1>9, <1>10
  <2>2. Idle(id)'
    BY <1>1, <1>5, <1>10, <2>1 DEF Idle, Quiet
  <2> QED BY <1>3, <1>10, <2>1, <2>2 DEF Exchange
<1>11. ASSUME NEW r \in Publishes(id, 1), p = Ok("PUBACK", id),
              Stage(id, Sent(r), {}, {"b2c"}, p)
       PROVE  ClientDone(id)
  <2> DEFINE e == Entry(r, TRUE, "UNACKNOWLEDGED")
  <2>1. Under(c_pending, id) = {e} /\ Under(b_pending, id) = {}
    BY <1>11 DEF Stage, Sent
  <2>2. C!IsPublish(e, 1)
    BY PublishKinds DEF Entry, C!IsPublish
  <2>3. p.type = "PUBACK" /\ p.packet_id = id
    BY <1>11, AckKinds
  <2> HIDE DEF e
  <2>4. C!Slots(id) # {} /\ \A i \in C!Slots(id) : c_pending[i] = e
    BY <1>8, <2>1
  <2>5. C!ReceivePubAck(p) /\ UNCHANGED <<c_next_packet_id, c_subscriptions, c_counts>>
    BY <2>3, ClientAccepts
  <2>6. PICK i \in C!Slots(id) : /\ c_pending' = C!RemoveAt(c_pending, i)
                                 /\ c_failure' = C!Verdict(C!IsPublish(c_pending[i], 1))
    BY <2>3, <2>4, <2>5 DEF C!ReceivePubAck
  <2>7. c_failure' = c_failure
    BY <2>2, <2>4, <2>6 DEF C!Verdict
  <2>8. c_out' = c_out /\ rest
    BY <2>5, <2>7 DEF C!ReceivePubAck, rest
  <2> QED BY <1>10, <2>1, <2>6, <2>8
<1>13. ASSUME NEW r \in Requests(id, "SUBSCRIBE"), NEW granted \in SUBSET Patterns,
              p = C!SubAck(id, granted), Stage(id, Sent(r), {}, {"b2c"}, p)
       PROVE  ClientDone(id)
  <2> DEFINE e == Entry(r, TRUE, "UNACKNOWLEDGED")
  <2>1. Under(c_pending, id) = {e} /\ Under(b_pending, id) = {}
    BY <1>13 DEF Stage, Sent
  <2>2. e.packet.type = "SUBSCRIBE"
    BY RequestKinds DEF Entry
  <2>3. p.type = "SUBACK" /\ p.packet_id = id
    BY <1>13, AckKinds
  <2> HIDE DEF e
  <2>4. C!Slots(id) # {} /\ \A i \in C!Slots(id) : c_pending[i] = e
    BY <1>8, <2>1
  <2>5. C!ReceiveSubAck(p)
    BY <2>3, ClientAccepts
  <2>6. PICK i \in C!Slots(id) : /\ c_pending' = C!RemoveAt(c_pending, i)
                                 /\ c_failure' = C!Verdict(c_pending[i].packet.type = "SUBSCRIBE")
    BY <2>3, <2>4, <2>5 DEF C!ReceiveSubAck, C!ReceiveRequestAck
  <2>7. c_failure' = c_failure
    BY <2>2, <2>4, <2>6 DEF C!Verdict
  <2>8. c_out' = c_out /\ rest
    BY <2>5, <2>7 DEF C!ReceiveSubAck, C!ReceiveRequestAck, C!clientVars, rest
  <2> QED BY <1>10, <2>1, <2>6, <2>8
<1>14. ASSUME NEW r \in Requests(id, "UNSUBSCRIBE"), p = Ok("UNSUBACK", id),
              Stage(id, Sent(r), Taken(r), {"b2c"}, p)
       PROVE  ClientDone(id)
  <2> DEFINE e == Entry(r, TRUE, "UNACKNOWLEDGED")
  <2>1. Under(c_pending, id) = {e} /\ Under(b_pending, id) = Taken(r)
    BY <1>14 DEF Stage, Sent
  <2>2. e.packet.type = "UNSUBSCRIBE"
    BY RequestKinds DEF Entry
  <2>3. p.type = "UNSUBACK" /\ p.packet_id = id
    BY <1>14, AckKinds
  <2> HIDE DEF e
  <2>4. C!Slots(id) # {} /\ \A i \in C!Slots(id) : c_pending[i] = e
    BY <1>8, <2>1
  <2>5. C!ReceiveUnsubAck(p)
    BY <2>3, ClientAccepts
  <2>6. PICK i \in C!Slots(id) : /\ c_pending' = C!RemoveAt(c_pending, i)
                                 /\ c_failure' = C!Verdict(c_pending[i].packet.type = "UNSUBSCRIBE")
    BY <2>3, <2>4, <2>5 DEF C!ReceiveUnsubAck, C!ReceiveRequestAck
  <2>7. c_failure' = c_failure
    BY <2>2, <2>4, <2>6 DEF C!Verdict
  <2>8. c_out' = c_out /\ rest
    BY <2>5, <2>7 DEF C!ReceiveUnsubAck, C!ReceiveRequestAck, C!clientVars, rest
  <2>9. IsTable(c_pending') /\ Under(c_pending', id) = {} /\ others
    BY <1>9, <2>6
  <2>10. Idle(id)'
    BY <1>1, <1>5, <2>1, <2>8, <2>9 DEF Idle, Quiet
  <2> QED BY <1>3, <2>8, <2>9, <2>10 DEF Exchange
<1>15. ASSUME NEW r \in Publishes(id, 2), id \notin DeliveryIds, p = Ok("PUBREC", id),
              Stage(id, Sent(r), TakenAccepted(r), {"b2c"}, p)
       PROVE  ClientDone(id)
  <2> DEFINE e == Entry(r, TRUE, "UNACKNOWLEDGED")
             a == Ok("PUBREL", id)
  <2>1. Under(c_pending, id) = {e} /\ Under(b_pending, id) = TakenAccepted(r)
    BY <1>15 DEF Stage, Sent
  <2>2. C!Awaits(e, "UNACKNOWLEDGED")
    BY PublishKinds DEF Entry, C!Awaits, C!IsPublish
  <2>3. p.type = "PUBREC" /\ p.packet_id = id
    BY <1>15, AckKinds
  <2> HIDE DEF e
  <2>4. C!Slots(id) # {} /\ \A i \in C!Slots(id) : c_pending[i] = e
    BY <1>8, <2>1
  <2>5. C!ReceivePubRec(p) /\ UNCHANGED <<c_next_packet_id, c_subscriptions, c_counts>>
    BY <2>3, ClientAccepts
  <2>6. PICK i \in C!Slots(id) : /\ c_pending' = [c_pending EXCEPT ![i].ack_state = "RELEASED"]
                                 /\ c_out' = Append(c_out, C!Ack("PUBREL", id, "SUCCESS"))
                                 /\ c_state' = c_state /\ c_failure' = c_failure
    BY <2>2, <2>3, <2>4, <2>5 DEF C!ReceivePubRec, C!Send
  <2>7. rest /\ c_out' = Append(c_out, a) /\ a \in Of(id) /\ a \in Traffic
    BY <2>5, <2>6, AckKinds DEF rest, Ok
  <2>8. IsTable(c_pending') /\ Under(c_pending', id) = SentReleased(r) /\ others
    <3>1. r.packet_id = id /\ Entry(r, TRUE, "RELEASED") \in C!Entries
      BY PublishKinds
    <3>2. i \in DOMAIN c_pending /\ c_pending[i].packet.packet_id = id
      BY <1>7
    <3>3. c_pending' = Moved(c_pending, i, "RELEASED")
      BY <2>6 DEF Moved
    <3>4. c_pending[i] = Entry(r, TRUE, "UNACKNOWLEDGED")
      BY <2>4 DEF e
    <3>5. /\ IsTable(Moved(c_pending, i, "RELEASED"))
          /\ Entry(r, TRUE, "RELEASED") \in Under(Moved(c_pending, i, "RELEASED"), id)
          /\ SameBut(c_pending, Moved(c_pending, i, "RELEASED"), id)
      BY <3>1, <3>2, <3>4, TableMoves
    <3>6. IsTable(c_pending') /\ Under(c_pending', id) = {Entry(r, TRUE, "RELEASED")}
      BY <3>3, <3>5, TableSole
    <3> QED BY <3>3, <3>5, <3>6 DEF others, SentReleased
  <2> HIDE DEF a
  <2>9. Stage(id, SentReleased(r), TakenAccepted(r), Up, a)'
    BY <1>6, <2>1, <2>7, <2>8
  <2>10. Exchange(id)'
    BY <1>15, <2>9 DEF a, Exchange, Request, Publish2
  <2> QED BY <1>4, <2>7, <2>8, <2>10
<1>16. ASSUME p \in Publishes(id, 1), id \in DeliveryIds,
              Stage(id, {}, SentAccepted(p), {"b2c"}, p)
       PROVE  ClientDone(id)
  <2> DEFINE a == Ok("PUBACK", id)
  <2>1. Under(c_pending, id) = {} /\ Under(b_pending, id) = SentAccepted(p)
    BY <1>16 DEF Stage
  <2>2. p.type = "PUBLISH" /\ p.packet_id = id /\ p.qos = 1
    BY <1>16, PublishKinds
  <2>3. C!ReceivePublish(p) /\ UNCHANGED <<c_next_packet_id, c_subscriptions, c_counts>>
    BY <2>2, ClientAccepts
  <2>4. C!Slots(p.packet_id) = {} /\ p.qos > 0 /\ p.qos # 0
    BY <1>7, <2>1, <2>2
  <2>5. c_pending' = c_pending /\ c_out' = Append(c_out, C!Ack("PUBACK", id, "SUCCESS"))
    BY <2>2, <2>3, <2>4 DEF C!ReceivePublish, C!Send
  <2>5a. rest /\ c_out' = Append(c_out, a)
    BY <2>3, <2>5 DEF C!ReceivePublish, Ok, rest
  <2>6. a \in Of(id) /\ a \in Traffic
    BY AckKinds
  <2> HIDE DEF a
  <2>7. Stage(id, {}, SentAccepted(p), Up, a)'
    BY <1>6, <2>1, <2>5, <2>5a, <2>6
  <2>8. Exchange(id)'
    BY <1>16, <2>7 DEF a, Exchange, Delivery, Deliver
  <2>9. IsTable(c_pending') /\ others
    BY <2>5 DEF others, SameBut
  <2> QED BY <1>4, <2>5, <2>5a, <2>6, <2>8, <2>9
<1> QED
  BY <1>11, <1>13, <1>14, <1>15, <1>16 DEF ArrivesDown

-----------------------------------------------------------------------------
(* The broker receives                                                     *)

\* What the head of c2b, or of inbox, does at the broker
BrokerDone(id) ==
  /\ Exchange(id)'
  /\ Concerns(id)
  /\ IsTable(b_pending')
  /\ b_state' = b_state /\ b_failure' = b_failure

LEMMA BrokerAccepts ==
  ASSUME b_state = "CONNECTED", NEW p,
         p.type \in {"PUBLISH", "PUBACK", "PUBREC", "PUBREL", "PUBCOMP",
                     "SUBSCRIBE", "UNSUBSCRIBE"},
         B!Receive(p)
  PROVE  \/ p.type = "PUBLISH" /\ B!ReceivePublish(p)
         \/ p.type = "PUBACK" /\ B!ReceivePubAck(p)
         \/ p.type = "PUBREC" /\ B!ReceivePubRec(p)
         \/ p.type = "PUBREL" /\ B!ReceivePubRel(p)
         \/ p.type = "PUBCOMP" /\ B!ReceivePubComp(p)
         \/ p.type = "SUBSCRIBE" /\ B!ReceiveSubscribe(p)
         \/ p.type = "UNSUBSCRIBE" /\ B!ReceiveUnsubscribe(p)
<1>1. B!Accepts(B!BrokerAccepting, p)
  BY DEF B!Accepts, B!BrokerAccepting, B!BaseAccepting
<1>2. B!ReceiveAccepted(p)
  BY <1>1 DEF B!Receive, B!ReceiveRefused
<1> QED
  BY <1>2 DEF B!ReceiveAccepted, B!ReceiveBase, B!ReceivePublish, B!ReceivePubAck,
     B!ReceivePubRec, B!ReceivePubRel, B!ReceivePubComp, B!ReceiveDisconnect, B!ReceiveAuth,
     B!ReceiveConnect, B!ReceivePingReq, B!ReceiveSubscribe, B!ReceiveUnsubscribe

LEMMA AcksDue ==
  ASSUME NEW id \in Ids
  PROVE  \A type \in {"PUBACK", "PUBREC", "PUBREL", "PUBCOMP", "UNSUBACK"} :
           Ok(type, id) \notin Due(id)
BY AckKinds DEF Due, NeedsAnswer

LEMMA BrokerHandles ==
  ASSUME Queues, IsTable(b_pending), b_state = "CONNECTED",
         NEW id \in Ids, NEW p \in Traffic, c2b # <<>>, p = Head(c2b),
         ArrivesUp(id, p), Clear(id, c_out, Tail(c2b), inbox, b_out, b2c),
         B!Receive(p), c2b' = Tail(c2b), inbox' = Append(inbox, p),
         UNCHANGED <<c_pending, c_out, b2c>>
  PROVE  BrokerDone(id)
<1> DEFINE C1(q, r) == Clear(id, c_out', c2b', q, r, b2c')
           others == SameBut(b_pending, b_pending', id)
           rest == UNCHANGED <<b_state, b_failure>>
<1>1. C1(inbox, b_out) /\ b_out \in Seq(Traffic) /\ inbox \in Seq(Traffic)
  BY DEF Queues
<1>2. p \in Of(id)
  BY AckKinds, PublishKinds, RequestKinds DEF ArrivesUp
<1>3. ASSUME IsTable(b_pending'), others, rest, b_out' = b_out, Exchange(id)'
      PROVE  BrokerDone(id)
  <2>1. Concerns(id)
    BY <1>2, <1>3, TouchKinds DEF Concerns, SameBut
  <2> QED BY <1>3, <2>1 DEF BrokerDone
<1>4. ASSUME IsTable(b_pending'), others, rest, Exchange(id)',
             NEW a, a \in Of(id), a \in Traffic, b_out' = Append(b_out, a)
      PROVE  BrokerDone(id)
  <2>1. Concerns(id)
    BY <1>2, <1>4, TouchKinds DEF Concerns, SameBut
  <2> QED BY <1>4, <2>1 DEF BrokerDone
<1>5. ASSUME p \notin Due(id), b_out' = b_out, NEW X, NEW Y,
             Under(c_pending, id) = X, Under(b_pending', id) = Y
      PROVE  Stage(id, X, Y, {"nowhere"}, "none")'
  <2>1. C1(inbox', b_out')
    BY <1>1, <1>5, QueueAppend DEF Clear
  <2>2. OnWay(id, "nowhere", "none")'
    BY <2>1, PutNowhere
  <2> QED BY <1>5, <2>2, NewStage
<1>6. ASSUME p \in Due(id), b_out' = b_out, NEW X, NEW Y,
             Under(c_pending, id) = X, Under(b_pending', id) = Y
      PROVE  Stage(id, X, Y, {"inbox"}, p)'
  <2>1. OnWay(id, "inbox", p)'
    BY <1>1, <1>6, PutInInbox
  <2> QED BY <1>6, <2>1, NewStage
<1>7. ASSUME p \notin Due(id), NEW a, a \in Of(id), a \in Traffic, b_out' = Append(b_out, a),
             NEW X, NEW Y, Under(c_pending, id) = X, Under(b_pending', id) = Y
      PROVE  Stage(id, X, Y, Down, a)'
  <2>1. C1(inbox', b_out)
    BY <1>1, <1>7, QueueAppend DEF Clear
  <2>2. OnWay(id, "b_out", a)'
    BY <1>1, <1>7, <2>1, PutInBrokerOut
  <2>3. "b_out" \in Down
    BY DEF Down
  <2> QED BY <1>7, <2>2, <2>3, NewStage
<1>8. /\ B!Slots(id) = {} <=> Under(b_pending, id) = {}
      /\ \A i \in B!Slots(id) : i \in DOMAIN b_pending /\ b_pending[i].packet.packet_id = id
  BY BrokerSlots
<1>9. /\ \A e, i : Under(b_pending, id) = {e} /\ i \in B!Slots(id) => b_pending[i] = e
      /\ \A e : Under(b_pending, id) = {e} => B!Slots(id) # {}
  BY <1>8, TableHas
<1>10. ASSUME NEW i \in B!Slots(id), b_pending' = B!RemoveAt(b_pending, i)
       PROVE  IsTable(b_pending') /\ Under(b_pending', id) = {} /\ others
  <2>1. b_pending' = RemoveAt(b_pending, i)
    BY <1>10, RemoveAtOfEnds
  <2>2. i \in DOMAIN b_pending /\ b_pending[i].packet.packet_id = id
    BY <1>8
  <2>3. /\ IsTable(RemoveAt(b_pending, i)) /\ Under(RemoveAt(b_pending, i), id) = {}
        /\ SameBut(b_pending, RemoveAt(b_pending, i), id)
    BY <2>2, TableDrops
  <2> QED BY <2>1, <2>3
<1>11. ASSUME Under(b_pending, id) = {}, p.packet_id = id,
              Entry(p, FALSE, "UNACKNOWLEDGED") \in C!Entries
       PROVE  /\ IsTable(Append(b_pending, B!Entry(p, FALSE)))
              /\ Under(Append(b_pending, B!Entry(p, FALSE)), id) = Taken(p)
              /\ SameBut(b_pending, Append(b_pending, B!Entry(p, FALSE)), id)
  <2> DEFINE e == Entry(p, FALSE, "UNACKNOWLEDGED")
  <2>1. e = B!Entry(p, FALSE) /\ e.packet.packet_id = id /\ Taken(p) = {e}
    BY <1>11 DEF Entry, B!Entry, Taken
  <2> HIDE DEF e
  <2>2. e \in C!Entries
    BY <1>11 DEF e
  <2>3. /\ IsTable(Append(b_pending, e)) /\ e \in Under(Append(b_pending, e), id)
        /\ SameBut(b_pending, Append(b_pending, e), id)
    BY <1>11, <2>1, <2>2, TableGains
  <2>4. Under(Append(b_pending, e), id) = {e}
    BY <2>3, TableSole
  <2> QED BY <2>1, <2>3, <2>4
<1>12. ASSUME Under(b_pending, id) = {}, B!AddPending(p, FALSE), p.packet_id = id,
              Entry(p, FALSE, "UNACKNOWLEDGED") \in C!Entries
       PROVE  IsTable(b_pending') /\ Under(b_pending', id) = Taken(p) /\ others /\ b_out' = b_out
  <2>1. B!Slots(p.packet_id) = {}
    BY <1>8, <1>12
  <2>2. b_pending' = Append(b_pending, B!Entry(p, FALSE)) /\ b_out' = b_out
    BY <1>12, <2>1 DEF B!AddPending
  <2> QED BY <1>11, <1>12, <2>2
<1> HIDE DEF C1, others, rest
<1>13. ASSUME NEW q \in {1, 2}, p \in Publishes(id, q), id \notin DeliveryIds,
              Stage(id, Sent(p), {}, {"c2b"}, p)
       PROVE  BrokerDone(id)
  <2>1. Under(c_pending, id) = Sent(p) /\ Under(b_pending, id) = {}
    BY <1>13 DEF Stage
  <2>2. /\ p.type = "PUBLISH" /\ p.packet_id = id /\ p.qos = q /\ p \in Due(id)
        /\ Entry(p, FALSE, "UNACKNOWLEDGED") \in C!Entries
    BY <1>13, PublishKinds
  <2>3. B!ReceivePublish(p)
    BY <2>2, BrokerAccepts
  <2>4. B!AddPending(p, FALSE) /\ rest
    <3>1. p.qos > 0 /\ p.qos # 0
      BY <2>2
    <3>2. B!AddPending(p, FALSE)
      BY <2>3, <3>1 DEF B!ReceivePublish
    <3>3. rest
      BY <2>3 DEF B!ReceivePublish, rest
    <3> QED BY <3>2, <3>3
  <2>5. IsTable(b_pending') /\ Under(b_pending', id) = Taken(p) /\ others /\ b_out' = b_out
    BY <1>12, <2>1, <2>2, <2>4
  <2>6. Stage(id, Sent(p), Taken(p), {"inbox"}, p)'
    BY <1>6, <2>1, <2>2, <2>5
  <2>7. Exchange(id)'
    BY <1>13, <2>6 DEF Exchange, Request, Publish1, Publish2
  <2> QED BY <1>3, <2>4, <2>5, <2>7
<1>14. ASSUME p \in Requests(id, "SUBSCRIBE"), id \notin DeliveryIds,
              Stage(id, Sent(p), {}, {"c2b"}, p)
       PROVE  BrokerDone(id)
  <2>1. Under(c_pending, id) = Sent(p) /\ Under(b_pending, id) = {}
    BY <1>14 DEF Stage
  <2>2. /\ p.type = "SUBSCRIBE" /\ p.packet_id = id /\ p \in Due(id)
        /\ Entry(p, FALSE, "UNACKNOWLEDGED") \in C!Entries
    BY <1>14, RequestKinds
  <2>3. B!ReceiveSubscribe(p)
    BY <2>2, BrokerAccepts
  <2>4. B!AddPending(p, FALSE) /\ rest
    BY <2>2, <2>3 DEF B!ReceiveSubscribe, rest
  <2>5. IsTable(b_pending') /\ Under(b_pending', id) = Taken(p) /\ others /\ b_out' = b_out
    BY <1>12, <2>1, <2>2, <2>4
  <2>6. Stage(id, Sent(p), Taken(p), {"inbox"}, p)'
    BY <1>6, <2>1, <2>2, <2>5
  <2>7. Exchange(id)'
    BY <1>14, <2>6 DEF Exchange, Request, Subscribe
  <2> QED BY <1>3, <2>4, <2>5, <2>7
<1>15. ASSUME p \in Requests(id, "UNSUBSCRIBE"), id \notin DeliveryIds,
              Stage(id, Sent(p), {}, {"c2b"}, p)
       PROVE  BrokerDone(id)
  <2> DEFINE a == Ok("UNSUBACK", id)
  <2>1. Under(c_pending, id) = Sent(p) /\ Under(b_pending, id) = {}
    BY <1>15 DEF Stage
  <2>2. /\ p.type = "UNSUBSCRIBE" /\ p.packet_id = id /\ p \notin Due(id)
        /\ Entry(p, FALSE, "UNACKNOWLEDGED") \in C!Entries
    BY <1>15, RequestKinds
  <2>3. B!ReceiveUnsubscribe(p)
    BY <2>2, BrokerAccepts
  <2>4. B!Slots(p.packet_id) = {}
    BY <1>8, <2>1, <2>2
  <2>5. /\ b_pending' = Append(b_pending, B!Entry(p, FALSE))
        /\ b_out' = Append(b_out, B!Ack("UNSUBACK", p.packet_id, "SUCCESS")) /\ rest
    BY <2>3, <2>4 DEF B!ReceiveUnsubscribe, B!Send, rest
  <2>6. b_out' = Append(b_out, a) /\ a \in Of(id) /\ a \in Traffic
    BY <2>2, <2>5, AckKinds DEF Ok, C!Ack, B!Ack
  <2>7. IsTable(b_pending') /\ Under(b_pending', id) = Taken(p) /\ others
    BY <1>11, <2>1, <2>2, <2>5 DEF others
  <2> HIDE DEF a
  <2>8. Stage(id, Sent(p), Taken(p), Down, a)'
    BY <1>7, <2>1, <2>2, <2>6, <2>7
  <2>9. Exchange(id)'
    BY <1>15, <2>8 DEF a, Exchange, Request, Unsubscribe
  <2> QED BY <1>4, <2>5, <2>6, <2>7, <2>9
<1>16. ASSUME NEW r \in Publishes(id, 2), id \notin DeliveryIds, p = Ok("PUBREL", id),
              Stage(id, SentReleased(r), TakenAccepted(r), {"c2b"}, p)
       PROVE  BrokerDone(id)
  <2> DEFINE e == Entry(r, FALSE, "ACKNOWLEDGED")
  <2>1. Under(c_pending, id) = SentReleased(r) /\ Under(b_pending, id) = {e}
    BY <1>16 DEF Stage, TakenAccepted
  <2>2. B!Awaits(e, "ACKNOWLEDGED")
    BY PublishKinds DEF Entry, B!Awaits, B!IsPublish
  <2>3. p.type = "PUBREL" /\ p.packet_id = id /\ p \notin Due(id)
    BY <1>16, AckKinds, AcksDue
  <2> HIDE DEF e
  <2>4. B!Slots(id) # {} /\ \A i \in B!Slots(id) : b_pending[i] = e
    BY <1>9, <2>1
  <2>5. B!ReceivePubRel(p)
    BY <2>3, BrokerAccepts
  <2>6. PICK i \in B!Slots(id) : /\ b_pending' = [b_pending EXCEPT ![i].ack_state = "RELEASED"]
                                 /\ b_out' = b_out
                                 /\ b_state' = b_state /\ b_failure' = b_failure
    BY <2>2, <2>3, <2>4, <2>5 DEF B!ReceivePubRel
  <2>7. IsTable(b_pending') /\ Under(b_pending', id) = TakenReleased(r) /\ others
    <3>1. r.packet_id = id /\ Entry(r, FALSE, "RELEASED") \in C!Entries
      BY PublishKinds
    <3>2. i \in DOMAIN b_pending /\ b_pending[i].packet.packet_id = id
      BY <1>8
    <3>3. b_pending' = Moved(b_pending, i, "RELEASED")
      BY <2>6 DEF Moved
    <3>4. b_pending[i] = Entry(r, FALSE, "ACKNOWLEDGED")
      BY <2>4 DEF e
    <3>5. /\ IsTable(Moved(b_pending, i, "RELEASED"))
          /\ Entry(r, FALSE, "RELEASED") \in Under(Moved(b_pending, i, "RELEASED"), id)
          /\ SameBut(b_pending, Moved(b_pending, i, "RELEASED"), id)
      BY <3>1, <3>2, <3>4, TableMoves
    <3>6. IsTable(b_pending') /\ Under(b_pending', id) = {Entry(r, FALSE, "RELEASED")}
      BY <3>3, <3>5, TableSole
    <3> QED BY <3>3, <3>5, <3>6 DEF others, TakenReleased
  <2>8. Stage(id, SentReleased(r), TakenReleased(r), {"nowhere"}, "none")'
    BY <1>5, <2>1, <2>3, <2>6, <2>7
  <2>9. Exchange(id)'
    BY <1>16, <2>8 DEF Exchange, Request, Publish2
  <2> QED BY <1>3, <2>6, <2>7, <2>9 DEF rest
<1>17. ASSUME NEW r \in Publishes(id, 1), id \in DeliveryIds, p = Ok("PUBACK", id),
              Stage(id, {}, SentAccepted(r), {"c2b"}, p)
       PROVE  BrokerDone(id)
  <2> DEFINE e == Entry(r, TRUE, "ACKNOWLEDGED")
  <2>1. Under(c_pending, id) = {} /\ Under(b_pending, id) = {e}
    BY <1>17 DEF Stage, SentAccepted
  <2>2. B!IsPublish(e, 1)
    BY PublishKinds DEF Entry, B!IsPublish
  <2>3. p.type = "PUBACK" /\ p.packet_id = id /\ p \notin Due(id)
    BY <1>17, AckKinds, AcksDue
  <2> HIDE DEF e
  <2>4. B!Slots(id) # {} /\ \A i \in B!Slots(id) : b_pending[i] = e
    BY <1>9, <2>1
  <2>5. B!ReceivePubAck(p)
    BY <2>3, BrokerAccepts
  <2>6. PICK i \in B!Slots(id) : /\ b_pending' = B!RemoveAt(b_pending, i)
                                 /\ b_failure' = B!Verdict(B!IsPublish(b_pending[i], 1))
    BY <2>3, <2>4, <2>5 DEF B!ReceivePubAck
  <2>7. b_failure' = b_failure
    BY <2>2, <2>4, <2>6 DEF B!Verdict
  <2>8. b_out' = b_out /\ rest
    BY <2>5, <2>7 DEF B!ReceivePubAck, rest
  <2>9. IsTable(b_pending') /\ Under(b_pending', id) = {} /\ others
    BY <1>10, <2>6
  <2>10. Idle(id)'
    BY <1>5, <2>1, <2>3, <2>8, <2>9 DEF Idle, Quiet
  <2> QED BY <1>3, <2>8, <2>9, <2>10 DEF Exchange
<1> QED
  BY <1>13, <1>14, <1>15, <1>16, <1>17 DEF ArrivesUp

-----------------------------------------------------------------------------
(* The broker's I/O layer answers                                          *)

LEMMA BrokerAnswers ==
  ASSUME Queues, IsTable(b_pending), b_state = "CONNECTED",
         NEW id \in Ids, NEW p \in Traffic, inbox # <<>>, p = Head(inbox), p \in Due(id),
         Waits(id, p), Clear(id, c_out, c2b, Tail(inbox), b_out, b2c),
         Answer(p) \/ AnswerSubscribe(p), inbox' = Tail(inbox),
         UNCHANGED <<c_pending, c_out, c2b, b2c>>
  PROVE  BrokerDone(id)
<1> DEFINE C1(q) == Clear(id, c_out', c2b', inbox', q, b2c')
           others == SameBut(b_pending, b_pending', id)
           rest == UNCHANGED <<b_state, b_failure>>
<1>1. C1(b_out) /\ b_out \in Seq(Traffic)
  BY DEF Queues
<1>2. p \in Of(id)
  BY DueOf
<1>3. ASSUME IsTable(b_pending'), others, rest, Exchange(id)',
             NEW a, a \in Of(id), a \in Traffic, b_out' = Append(b_out, a)
      PROVE  BrokerDone(id)
  <2>1. Concerns(id)
    BY <1>2, <1>3, TouchKinds DEF Concerns, SameBut
  <2> QED BY <1>3, <2>1 DEF BrokerDone
<1>4. ASSUME NEW a, a \in Of(id), a \in Traffic, b_out' = Append(b_out, a),
             NEW X, NEW Y, Under(c_pending, id) = X, Under(b_pending', id) = Y
      PROVE  Stage(id, X, Y, Down, a)'
  <2>1. OnWay(id, "b_out", a)'
    BY <1>1, <1>4, PutInBrokerOut
  <2>2. "b_out" \in Down
    BY DEF Down
  <2> QED BY <1>4, <2>1, <2>2, NewStage
<1>5. /\ B!Slots(id) = {} <=> Under(b_pending, id) = {}
      /\ \A i \in B!Slots(id) : i \in DOMAIN b_pending /\ b_pending[i].packet.packet_id = id
  BY BrokerSlots
<1>6. /\ \A e, i : Under(b_pending, id) = {e} /\ i \in B!Slots(id) => b_pending[i] = e
      /\ \A e : Under(b_pending, id) = {e} => B!Slots(id) # {}
  BY <1>5, TableHas
<1>7. ASSUME NEW i \in B!Slots(id)
      PROVE  LET r == B!RemoveAt(b_pending, i)
             IN  IsTable(r) /\ Under(r, id) = {} /\ SameBut(b_pending, r, id)
  <2>1. i \in DOMAIN b_pending /\ b_pending[i].packet.packet_id = id
    BY <1>5
  <2>2. /\ IsTable(RemoveAt(b_pending, i)) /\ Under(RemoveAt(b_pending, i), id) = {}
        /\ SameBut(b_pending, RemoveAt(b_pending, i), id)
    BY <2>1, TableDrops
  <2> QED BY <2>2, RemoveAtOfEnds
<1> HIDE DEF C1, others, rest
<1>8. ASSUME p \in Publishes(id, 1), id \notin DeliveryIds,
             Stage(id, Sent(p), Taken(p), {"inbox"}, p)
      PROVE  BrokerDone(id)
  <2> DEFINE e == Entry(p, FALSE, "UNACKNOWLEDGED")
             a == Ok("PUBACK", id)
  <2>1. Under(c_pending, id) = Sent(p) /\ Under(b_pending, id) = {e}
    BY <1>8 DEF Stage, Taken
  <2>2. p.type = "PUBLISH" /\ p.packet_id = id
    BY <1>8, PublishKinds
  <2>3. B!IsPublish(e, 1) /\ ~B!IsPublish(e, 2) /\ e.packet.type = "PUBLISH"
    BY <1>8, PublishKinds DEF Entry, B!IsPublish
  <2> HIDE DEF e
  <2>4. B!Slots(id) # {} /\ \A i \in B!Slots(id) : b_pending[i] = e
    BY <1>6, <2>1
  <2>5. B!AcknowledgePublish(id, "SUCCESS")
    BY <2>2 DEF Answer, AnswerSubscribe
  <2>6. PICK i \in B!Slots(id) : /\ b_pending' = B!RemoveAt(b_pending, i)
                                 /\ b_out' = Append(b_out, B!Ack("PUBACK", id, "SUCCESS"))
                                 /\ b_failure' = B!Verdict(TRUE) /\ b_state' = b_state
    BY <2>3, <2>4, <2>5 DEF B!AcknowledgePublish, B!Send
  <2>7. rest /\ b_out' = Append(b_out, a) /\ a \in Of(id) /\ a \in Traffic
    BY <2>6, AckKinds DEF rest, B!Verdict, Ok, C!Ack, B!Ack
  <2>8. IsTable(b_pending') /\ Under(b_pending', id) = {} /\ others
    BY <1>7, <2>6 DEF others
  <2> HIDE DEF a
  <2>9. Stage(id, Sent(p), {}, Down, a)'
    BY <1>4, <2>1, <2>7, <2>8
  <2>10. Exchange(id)'
    BY <1>8, <2>9 DEF a, Exchange, Request, Publish1
  <2> QED BY <1>3, <2>7, <2>8, <2>10
<1>9. ASSUME p \in Publishes(id, 2), id \notin DeliveryIds,
             Stage(id, Sent(p), Taken(p), {"inbox"}, p)
      PROVE  BrokerDone(id)
  <2> DEFINE e == Entry(p, FALSE, "UNACKNOWLEDGED")
             f == Entry(p, FALSE, "ACKNOWLEDGED")
             a == Ok("PUBREC", id)
  <2>1. Under(c_pending, id) = Sent(p) /\ Under(b_pending, id) = {e}
    BY <1>9 DEF Stage, Taken
  <2>2. p.type = "PUBLISH" /\ p.packet_id = id /\ f \in C!Entries
    BY <1>9, PublishKinds
  <2>3. B!IsPublish(e, 2) /\ ~B!IsPublish(e, 1) /\ e.packet.type = "PUBLISH"
    BY <1>9, PublishKinds DEF Entry, B!IsPublish
  <2>4. [e EXCEPT !.ack_state = "ACKNOWLEDGED"] = f /\ f.packet.packet_id = id
    <3>1. \A own : [Entry(p, own, "UNACKNOWLEDGED") EXCEPT !.ack_state = "ACKNOWLEDGED"]
                     = Entry(p, own, "ACKNOWLEDGED")
      BY DEF Entry
    <3>2. f.packet.packet_id = id
      BY <2>2 DEF Entry
    <3> QED BY <3>1, <3>2
  <2> HIDE DEF e, f
  <2>5. B!Slots(id) # {} /\ \A i \in B!Slots(id) : b_pending[i] = e
    BY <1>6, <2>1
  <2>6. B!AcknowledgePublish(id, "SUCCESS")
    BY <2>2 DEF Answer, AnswerSubscribe
  <2>7. PICK i \in B!Slots(id) :
          /\ b_pending' = Append(B!RemoveAt(b_pending, i),
                                 [b_pending[i] EXCEPT !.ack_state = "ACKNOWLEDGED"])
          /\ b_out' = Append(b_out, B!Ack("PUBREC", id, "SUCCESS"))
          /\ b_failure' = B!Verdict(TRUE) /\ b_state' = b_state
    BY <2>3, <2>5, <2>6 DEF B!AcknowledgePublish, B!Send
  <2>8. rest /\ b_out' = Append(b_out, a) /\ a \in Of(id) /\ a \in Traffic
    BY <2>7, AckKinds DEF rest, B!Verdict, Ok, C!Ack, B!Ack
  <2>9. IsTable(b_pending') /\ Under(b_pending', id) = TakenAccepted(p) /\ others
    <3> DEFINE q == B!RemoveAt(b_pending, i)
    <3>1. b_pending' = Append(q, f)
      BY <2>4, <2>5, <2>7
    <3>2. IsTable(q) /\ Under(q, id) = {} /\ SameBut(b_pending, q, id)
      BY <1>7
    <3> HIDE DEF q
    <3>3. IsTable(Append(q, f)) /\ f \in Under(Append(q, f), id) /\ SameBut(q, Append(q, f), id)
      BY <2>2, <2>4, <3>2, TableGains
    <3>4. Under(Append(q, f), id) = {f}
      BY <3>3, TableSole
    <3>5. SameBut(b_pending, Append(q, f), id)
      BY <3>2, <3>3 DEF SameBut
    <3> QED BY <3>1, <3>3, <3>4, <3>5 DEF others, TakenAccepted, f
  <2> HIDE DEF a
  <2>10. Stage(id, Sent(p), TakenAccepted(p), Down, a)'
    BY <1>4, <2>1, <2>8, <2>9
  <2>11. Exchange(id)'
    BY <1>9, <2>10 DEF a, Exchange, Request, Publish2
  <2> QED BY <1>3, <2>8, <2>9, <2>11
<1>10. ASSUME p \in Requests(id, "SUBSCRIBE"), id \notin DeliveryIds,
              Stage(id, Sent(p), Taken(p), {"inbox"}, p)
       PROVE  BrokerDone(id)
  <2> DEFINE e == Entry(p, FALSE, "UNACKNOWLEDGED")
  <2>1. Under(c_pending, id) = Sent(p) /\ Under(b_pending, id) = {e}
    BY <1>10 DEF Stage, Taken
  <2>2. p.type = "SUBSCRIBE" /\ p.packet_id = id /\ p.patterns \subseteq Patterns
    BY <1>10, RequestKinds
  <2>3. e.packet = p
    BY DEF Entry
  <2> HIDE DEF e
  <2>4. B!Slots(id) # {} /\ \A i \in B!Slots(id) : b_pending[i] = e
    BY <1>6, <2>1
  <2>5. B!AcknowledgeSubscribe(id, [s \in Patterns |-> 0])
    BY <2>2 DEF Answer, AnswerSubscribe
  <2>6. PICK i \in B!Slots(id) :
          /\ b_pending' = B!RemoveAt(b_pending, i)
          /\ b_out' = Append(b_out, B!SubAck(id, {x \in b_pending[i].packet.patterns :
                                                    [s \in Patterns |-> 0][x] >= 0}))
          /\ b_state' = b_state /\ b_failure' = b_failure
    BY <2>2, <2>3, <2>4, <2>5 DEF B!AcknowledgeSubscribe, B!Send
  <2>7. PICK granted \in SUBSET Patterns : b_out' = Append(b_out, C!SubAck(id, granted))
    <3> DEFINE g == {x \in b_pending[i].packet.patterns : [s \in Patterns |-> 0][x] >= 0}
    <3>1. g \in SUBSET Patterns
      BY <2>2, <2>3, <2>4, <2>6
    <3>2. b_out' = Append(b_out, C!SubAck(id, g))
      BY <2>6 DEF C!SubAck, B!SubAck
    <3> QED BY <3>1, <3>2
  <2> DEFINE a == C!SubAck(id, granted)
  <2>8. rest /\ b_out' = Append(b_out, a) /\ a \in Of(id) /\ a \in Traffic
    BY <2>6, <2>7, AckKinds DEF rest
  <2>9. IsTable(b_pending') /\ Under(b_pending', id) = {} /\ others
    BY <1>7, <2>6 DEF others
  <2> HIDE DEF a
  <2>10. Stage(id, Sent(p), {}, Down, a)'
    BY <1>4, <2>1, <2>8, <2>9
  <2>11. Exchange(id)'
    BY <1>10, <2>10 DEF a, Exchange, Request, Subscribe
  <2> QED BY <1>3, <2>8, <2>9, <2>11
<1> QED
  BY <1>8, <1>9, <1>10 DEF Waits

-----------------------------------------------------------------------------
(* Requests are made                                                       *)

\* A packet id that neither table knows has nothing on its way.
LEMMA Clears ==
  ASSUME NEW id, Exchange(id), Under(b_pending, id) = {},
         Under(c_pending, id) = {} \/ id \in DeliveryIds
  PROVE  Under(c_pending, id) = {} /\ Clear(id, c_out, c2b, inbox, b_out, b2c)
<1> DEFINE clear == Clear(id, c_out, c2b, inbox, b_out, b2c)
<1>1. \A X, Y, places, p : Stage(id, X, Y, places, p) =>
        Under(c_pending, id) = X /\ Under(b_pending, id) = Y
  BY DEF Stage
<1>2. ASSUME NEW X, NEW Y, NEW p, Stage(id, X, Y, {"nowhere"}, p) PROVE clear
  <2>1. OnWay(id, "nowhere", p)
    BY <1>2 DEF Stage
  <2> QED BY <2>1 DEF OnWay, Holds, Clear
<1> HIDE DEF clear
<1>3. Idle(id) => Under(c_pending, id) = {} /\ clear
  BY <1>1, <1>2 DEF Idle, Quiet, Taken
<1>4. \A r : Sent(r) # {} /\ SentReleased(r) # {} /\ SentAccepted(r) # {}
  BY DEF Sent, SentReleased, SentAccepted
<1>5. ASSUME id \notin DeliveryIds PROVE ~Request(id)
  <2>1. Under(c_pending, id) = {}
    BY <1>5
  <2>2. \A r : ~Publish1(id, r)
    BY <1>1, <1>4, <2>1 DEF Publish1
  <2>3. \A r : ~Publish2(id, r)
    BY <1>1, <1>4, <2>1 DEF Publish2
  <2>4. \A r : ~Subscribe(id, r)
    BY <1>1, <1>4, <2>1 DEF Subscribe
  <2>5. \A r : ~Unsubscribe(id, r)
    BY <1>1, <1>4, <2>1 DEF Unsubscribe
  <2> QED BY <2>2, <2>3, <2>4, <2>5 DEF Request
<1>6. ~Delivery(id)
  BY <1>1, <1>4 DEF Delivery, Deliver
<1> QED BY <1>3, <1>5, <1>6 DEF Exchange, clear

\* A new entry of an own request
LEMMA OwnEntry ==
  ASSUME NEW q, IsTable(q), NEW id, Under(q, id) = {},
         NEW e \in C!Entries, e.packet.packet_id = id
  PROVE  /\ IsTable(Append(q, e)) /\ SameBut(q, Append(q, e), id)
         /\ Under(Append(q, e), id) = {e}
<1>1. /\ IsTable(Append(q, e)) /\ e \in Under(Append(q, e), id)
      /\ SameBut(q, Append(q, e), id)
  BY TableGains
<1>2. Under(Append(q, e), id) = {e}
  BY <1>1, TableSole
<1> QED BY <1>1, <1>2

\* The client makes a request.
LEMMA NewRequest ==
  ASSUME Queues, IsTable(c_pending),
         NEW id \in Ids, id \notin DeliveryIds, Exchange(id),
         Under(c_pending, id) = {}, Under(b_pending, id) = {},
         NEW p, p \in Publishes(id, 1) \cup Publishes(id, 2)
                  \cup Requests(id, "SUBSCRIBE") \cup Requests(id, "UNSUBSCRIBE"),
         C!AddPending(p, TRUE), UNCHANGED <<b_pending, c2b, inbox, b_out, b2c>>
  PROVE  Exchange(id)' /\ Concerns(id) /\ IsTable(c_pending')
<1>1. /\ p \in Traffic /\ p \in Of(id) /\ p.packet_id = id
      /\ Entry(p, TRUE, "UNACKNOWLEDGED") \in C!Entries
  <2>1. ASSUME NEW q \in {1, 2}, p \in Publishes(id, q)
        PROVE  /\ p \in Traffic /\ p \in Of(id) /\ p.packet_id = id
               /\ Entry(p, TRUE, "UNACKNOWLEDGED") \in C!Entries
    BY <2>1, PublishKinds
  <2>2. ASSUME NEW type \in {"SUBSCRIBE", "UNSUBSCRIBE"}, p \in Requests(id, type)
        PROVE  /\ p \in Traffic /\ p \in Of(id) /\ p.packet_id = id
               /\ Entry(p, TRUE, "UNACKNOWLEDGED") \in C!Entries
    BY <2>2, RequestKinds
  <2> QED BY <2>1, <2>2
<1>2. C!Slots(p.packet_id) = {}
  BY <1>1, ClientSlots
<1>3. c_pending' = Append(c_pending, C!Entry(p, TRUE)) /\ c_out' = Append(c_out, p)
  BY <1>2 DEF C!AddPending
<1>4. C!Entry(p, TRUE) = Entry(p, TRUE, "UNACKNOWLEDGED")
  BY DEF C!Entry, Entry
<1>5. /\ IsTable(c_pending') /\ SameBut(c_pending, c_pending', id)
      /\ Under(c_pending', id) = Sent(p)
  <2> DEFINE e == C!Entry(p, TRUE)
  <2>1. e \in C!Entries /\ e.packet.packet_id = id
    <3>1. e \in C!Entries
      BY <1>1, <1>4
    <3>2. e.packet = p
      BY DEF C!Entry
    <3> QED BY <1>1, <3>1, <3>2
  <2>2. Sent(p) = {e}
    BY <1>4 DEF Sent
  <2> HIDE DEF e
  <2>3. /\ IsTable(Append(c_pending, e)) /\ SameBut(c_pending, Append(c_pending, e), id)
        /\ Under(Append(c_pending, e), id) = {e}
    BY <2>1, OwnEntry
  <2> QED BY <1>3, <2>2, <2>3 DEF e
<1>6. Concerns(id)
  BY <1>1, <1>3, <1>5, TouchKinds DEF Concerns, SameBut
<1>7. Clear(id, c_out, c2b', inbox', b_out', b2c')
  BY Clears
<1>8. OnWay(id, "c_out", p)'
  BY <1>1, <1>3, <1>7, PutInClientOut DEF Queues
<1>9. Stage(id, Sent(p), {}, Up, p)'
  <2>1. "c_out" \in Up /\ Under(b_pending', id) = {}
    BY DEF Up
  <2> QED BY <1>5, <1>8, <2>1, NewStage
<1>10. Exchange(id)'
  BY <1>9 DEF Exchange, Request, Publish1, Publish2, Subscribe, Unsubscribe
<1> QED BY <1>5, <1>6, <1>10

\* The broker delivers a message.
LEMMA NewDelivery ==
  ASSUME Queues, IsTable(b_pending),
         NEW id \in Ids, id \in DeliveryIds, Exchange(id), Under(b_pending, id) = {},
         NEW p \in Publishes(id, 1),
         b_pending' = Append(b_pending, Entry(p, TRUE, "ACKNOWLEDGED")),
         b_out' = Append(b_out, p),
         UNCHANGED <<c_pending, c_out, c2b, inbox, b2c>>
  PROVE  Exchange(id)' /\ Concerns(id) /\ IsTable(b_pending')
<1>1. /\ p \in Traffic /\ p \in Of(id) /\ p.packet_id = id
      /\ Entry(p, TRUE, "ACKNOWLEDGED") \in C!Entries
  BY PublishKinds
<1>2. /\ IsTable(b_pending') /\ SameBut(b_pending, b_pending', id)
      /\ Under(b_pending', id) = SentAccepted(p)
  <2> DEFINE e == Entry(p, TRUE, "ACKNOWLEDGED")
  <2>1. e \in C!Entries /\ e.packet.packet_id = id
    BY <1>1 DEF Entry
  <2>2. SentAccepted(p) = {e} /\ b_pending' = Append(b_pending, e)
    BY DEF SentAccepted
  <2> HIDE DEF e
  <2>3. /\ IsTable(Append(b_pending, e)) /\ SameBut(b_pending, Append(b_pending, e), id)
        /\ Under(Append(b_pending, e), id) = {e}
    BY <2>1, OwnEntry
  <2> QED BY <2>2, <2>3
<1>3. Concerns(id)
  BY <1>1, <1>2, TouchKinds DEF Concerns, SameBut
<1>4. Under(c_pending', id) = {} /\ Clear(id, c_out', c2b', inbox', b_out, b2c')
  BY Clears
<1>5. OnWay(id, "b_out", p)'
  BY <1>1, <1>4, PutInBrokerOut DEF Queues
<1>6. Stage(id, {}, SentAccepted(p), Down, p)'
  <2>1. "b_out" \in Down
    BY DEF Down
  <2> QED BY <1>2, <1>4, <1>5, <2>1, NewStage
<1>7. Exchange(id)'
  BY <1>6 DEF Exchange, Delivery, Deliver
<1> QED BY <1>2, <1>3, <1>7

\* A message of QoS 0 concerns no exchange.
LEMMA PublishPackets ==
  ASSUME NEW m \in Messages
  PROVE  /\ C!PublishPacket(m, 0, 0) \in Traffic /\ C!PublishPacket(m, 0, 0) \in Of(0)
         /\ \A id \in Ids, q \in {1, 2} : C!PublishPacket(m, q, id) \in Publishes(id, q)
         /\ \A id, q : B!PublishPacket(m, q, id) = C!PublishPacket(m, q, id)
BY DEF C!PublishPacket, B!PublishPacket, Publishes, C!Publishes, Ids, C!PacketIds,
   Traffic, Of, Carries, C!Packets

-----------------------------------------------------------------------------
(* Flushes                                                                 *)

LEMMA ClientFlushed ==
  ASSUME Queues, c_out' = <<>>, c2b' = c2b \o c_out,
         UNCHANGED <<c_pending, b_pending, inbox, b_out, b2c>>
  PROVE  /\ Queues'
         /\ \A id : (Exchange(id) => Exchange(id)') /\ (Quiet(id) => Quiet(id)')
<1>1. Queues'
  BY ConcatElements, EmptySeq DEF Queues
<1>2. ASSUME NEW id, NEW p, OnWay(id, "c_out", p) PROVE OnWay(id, "c2b", p)'
  <2>1. Sole(c2b', Of(id), p)
    BY <1>2, QueueConcat DEF OnWay, Holds, Queues
  <2> QED BY <1>2, <2>1, EmptyQueue DEF OnWay, Holds
<1>3. ASSUME NEW id, NEW p, NEW place, place # "c_out", OnWay(id, place, p)
      PROVE  OnWay(id, place, p)'
  <2>1. Holds(c2b', Of(id), place = "c2b", p)
    BY <1>3, QueueConcat DEF OnWay, Holds, Queues
  <2>2. Holds(c_out', Of(id), place = "c_out", p)
    BY <1>3, EmptyQueue
  <2> QED BY <1>3, <2>1, <2>2 DEF OnWay
<1>4. ASSUME NEW id, NEW X, NEW Y, NEW places, NEW p, Stage(id, X, Y, places, p),
             places \in {Up, Down, {"inbox"}, {"nowhere"}}
      PROVE  Stage(id, X, Y, places, p)'
  <2>1. PICK place \in places : OnWay(id, place, p)
    BY <1>4 DEF Stage
  <2>2. Under(c_pending', id) = X /\ Under(b_pending', id) = Y
    BY <1>4 DEF Stage
  <2>3. CASE place = "c_out"
    <3>1. "c2b" \in places
      BY <1>4, <2>3 DEF Up, Down
    <3> QED BY <1>2, <2>1, <2>2, <2>3, <3>1, NewStage
  <2>4. CASE place # "c_out"
    BY <1>3, <2>1, <2>2, <2>4, NewStage
  <2> QED BY <2>3, <2>4
<1>5. ASSUME NEW id PROVE Quiet(id) => Quiet(id)'
  BY <1>4 DEF Quiet
<1> QED BY <1>1, <1>4, <1>5, ExchangeKept

LEMMA BrokerFlushed ==
  ASSUME Queues, b_out' = <<>>, b2c' = b2c \o b_out,
         UNCHANGED <<c_pending, b_pending, inbox, c_out, c2b>>
  PROVE  /\ Queues'
         /\ \A id : (Exchange(id) => Exchange(id)') /\ (Quiet(id) => Quiet(id)')
<1>1. Queues'
  BY ConcatElements, EmptySeq DEF Queues
<1>2. ASSUME NEW id, NEW p, OnWay(id, "b_out", p) PROVE OnWay(id, "b2c", p)'
  <2>1. Sole(b2c', Of(id), p)
    BY <1>2, QueueConcat DEF OnWay, Holds, Queues
  <2> QED BY <1>2, <2>1, EmptyQueue DEF OnWay, Holds
<1>3. ASSUME NEW id, NEW p, NEW place, place # "b_out", OnWay(id, place, p)
      PROVE  OnWay(id, place, p)'
  <2>1. Holds(b2c', Of(id), place = "b2c", p)
    BY <1>3, QueueConcat DEF OnWay, Holds, Queues
  <2>2. Holds(b_out', Of(id), place = "b_out", p)
    BY <1>3, EmptyQueue
  <2> QED BY <1>3, <2>1, <2>2 DEF OnWay
<1>4. ASSUME NEW id, NEW X, NEW Y, NEW places, NEW p, Stage(id, X, Y, places, p),
             places \in {Up, Down, {"inbox"}, {"nowhere"}}
      PROVE  Stage(id, X, Y, places, p)'
  <2>1. PICK place \in places : OnWay(id, place, p)
    BY <1>4 DEF Stage
  <2>2. Under(c_pending', id) = X /\ Under(b_pending', id) = Y
    BY <1>4 DEF Stage
  <2>3. CASE place = "b_out"
    <3>1. "b2c" \in places
      BY <1>4, <2>3 DEF Up, Down
    <3> QED BY <1>2, <2>1, <2>2, <2>3, <3>1, NewStage
  <2>4. CASE place # "b_out"
    BY <1>3, <2>1, <2>2, <2>4, NewStage
  <2> QED BY <2>3, <2>4
<1>5. ASSUME NEW id PROVE Quiet(id) => Quiet(id)'
  BY <1>4 DEF Quiet
<1> QED BY <1>1, <1>4, <1>5, ExchangeKept

-----------------------------------------------------------------------------
(* The steps of an established connection                                  *)

\* A step that concerns one packet id, or a packet without one (0)
LEMMA ConnectedStays ==
  ASSUME Connected, NEW id, Concerns(id), id \in Ids => Exchange(id)',
         IsTable(c_pending'), IsTable(b_pending'), Counted',
         c_state' = c_state, b_state' = b_state
  PROVE  Connected' /\ StaysQuiet(Ids \ {id})
<1>1. Queues' /\ (\A j \in Ids : j # id => Exchange(j)') /\ StaysQuiet(Ids \ {id})
  BY Others DEF Connected
<1>2. \A j \in Ids : Exchange(j)'
  BY <1>1
<1> QED BY <1>1, <1>2 DEF Connected

\* A step that is about no packet of an exchange
LEMMA ConnectedStaysSame ==
  ASSUME Connected, Concerns(0), Counted',
         UNCHANGED <<c_state, b_state, c_pending, b_pending>>
  PROVE  Connected' /\ StaysQuiet(Ids)
<1>1. 0 \notin Ids
  BY DEF Ids
<1>2. IsTable(c_pending') /\ IsTable(b_pending')
  BY DEF Connected
<1>3. Connected' /\ StaysQuiet(Ids \ {0})
  BY <1>1, <1>2, ConnectedStays
<1> QED BY <1>1, <1>3 DEF StaysQuiet

\* A packet id that something is on its way under is not quiet.
LEMMA NotQuiet ==
  ASSUME Queues, NEW id,
         \/ b2c # <<>> /\ Head(b2c) \in Of(id)
         \/ c2b # <<>> /\ Head(c2b) \in Of(id)
         \/ inbox # <<>> /\ Head(inbox) \in Due(id)
  PROVE  ~Quiet(id)
<1>1. "b2c" \notin {"nowhere"} /\ "c2b" \notin {"nowhere"} /\ "inbox" \notin {"nowhere"}
  OBVIOUS
<1> QED BY <1>1, HeadInB2C, HeadInC2B, HeadInInbox DEF Quiet

\* The packet ids that are the client's are quiet until it uses them.
LEMMA QuietRequests ==
  /\ StaysQuiet(Ids) => StaysQuiet(Ids \ DeliveryIds)
  /\ \A id : StaysQuiet(Ids \ {id}) /\ (~Quiet(id) \/ id \in DeliveryIds \/ (Quiet(id) => Quiet(id)'))
       => StaysQuiet(Ids \ DeliveryIds)
BY DEF StaysQuiet

LEMMA CountedSame ==
  ASSUME Counted, UNCHANGED <<c_subscriptions, c_counts>> PROVE Counted'
BY DEF Counted

LEMMA ClientReceiveKeeps ==
  ASSUME Connected, ClientReceive
  PROVE  /\ Connected' /\ StaysQuiet(Ids \ DeliveryIds)
         /\ UNCHANGED <<c_failure, b_failure, c_next_packet_id>>
<1> DEFINE p == Head(b2c)
<1>1. /\ Queues /\ IsTable(c_pending) /\ IsTable(b_pending) /\ Counted
      /\ c_state = "CONNECTED" /\ \A id \in Ids : Exchange(id)
  BY DEF Connected
<1>2. /\ b2c # <<>> /\ C!Receive(p) /\ b2c' = Tail(b2c)
      /\ UNCHANGED <<b_state, b_pending, b_out, b_failure, c2b, inbox>>
  BY DEF ClientReceive, bVars
<1>3. p \in Traffic
  BY <1>1, <1>2, TailElements DEF Queues
<1>4. CASE p.type = "PUBLISH" /\ p.qos = 0 /\ p.packet_id = 0 /\ p \in Of(0)
  <2>1. C!ReceivePublish(p) /\ UNCHANGED <<c_next_packet_id, c_subscriptions, c_counts>>
    BY <1>1, <1>2, <1>4, ClientAccepts
  <2>2. UNCHANGED <<c_pending, c_out, c_state, c_failure>>
    <3>1. ~(p.qos > 0)
      BY <1>4
    <3> HIDE DEF p
    <3> QED BY <2>1, <3>1 DEF C!ReceivePublish
  <2>3. Concerns(0)
    BY <1>2, <1>4, <2>2, TouchKinds DEF Concerns, SameBut
  <2> QED BY <1>1, <1>2, <2>1, <2>2, <2>3, ConnectedStaysSame, CountedSame, QuietRequests
<1>5. CASE p.packet_id \in Ids /\ p \in Of(p.packet_id)
  <2>1. PICK id : id = p.packet_id
    OBVIOUS
  <2>2. ArrivesDown(id, p) /\ Clear(id, c_out, c2b, inbox, b_out, Tail(b2c))
    BY <2>1, <1>1, <1>2, <1>5, ClientArrival
  <2>3. ClientDone(id)
    BY <1>1, <1>2, <1>3, <1>5, <2>1, <2>2, ClientHandles
  <2>4. Exchange(id)' /\ Concerns(id) /\ IsTable(c_pending') /\ Counted' /\ c_state' = c_state
    BY <1>1, <2>3, CountedSame DEF ClientDone
  <2>5. IsTable(b_pending') /\ b_state' = b_state
    BY <1>1, <1>2
  <2>6. Connected' /\ StaysQuiet(Ids \ {id})
    BY <2>4, <2>5, ConnectedStays
  <2>7. StaysQuiet(Ids \ DeliveryIds)
    BY <1>1, <1>2, <1>5, <2>1, <2>6, NotQuiet, QuietRequests
  <2> QED BY <1>2, <2>3, <2>6, <2>7 DEF ClientDone
<1> QED BY <1>3, <1>4, <1>5, TrafficKinds

LEMMA BrokerReceiveKeeps ==
  ASSUME Connected, BrokerReceive
  PROVE  /\ Connected' /\ StaysQuiet(Ids \ DeliveryIds)
         /\ UNCHANGED <<c_failure, b_failure, c_next_packet_id>>
<1> DEFINE p == Head(c2b)
<1>1. /\ Queues /\ IsTable(c_pending) /\ IsTable(b_pending) /\ Counted
      /\ b_state = "CONNECTED" /\ \A id \in Ids : Exchange(id)
  BY DEF Connected
<1>2. /\ c2b # <<>> /\ B!Receive(p) /\ c2b' = Tail(c2b) /\ inbox' = Append(inbox, p)
      /\ UNCHANGED <<c_state, c_pending, c_out, c_failure, c_next_packet_id,
                     c_subscriptions, c_counts, b2c>>
  BY DEF BrokerReceive, cVars
<1>3. p \in Traffic
  BY <1>1, <1>2, TailElements DEF Queues
<1>4. CASE p.type = "PUBLISH" /\ p.qos = 0 /\ p.packet_id = 0 /\ p \in Of(0)
  <2>1. B!ReceivePublish(p)
    BY <1>1, <1>2, <1>4, BrokerAccepts
  <2>2. UNCHANGED <<b_pending, b_out, b_state, b_failure>>
    <3>1. ~(p.qos > 0)
      BY <1>4
    <3> HIDE DEF p
    <3> QED BY <2>1, <3>1 DEF B!ReceivePublish
  <2>3. Concerns(0)
    BY <1>2, <1>3, <1>4, <2>2, TouchKinds DEF Concerns, SameBut
  <2> QED BY <1>1, <1>2, <2>2, <2>3, ConnectedStaysSame, CountedSame, QuietRequests
<1>5. CASE p.packet_id \in Ids /\ p \in Of(p.packet_id)
  <2>1. PICK id : id = p.packet_id
    OBVIOUS
  <2>2. ArrivesUp(id, p) /\ Clear(id, c_out, Tail(c2b), inbox, b_out, b2c)
    BY <2>1, <1>1, <1>2, <1>5, BrokerArrival
  <2>3. BrokerDone(id)
    BY <1>1, <1>2, <1>3, <1>5, <2>1, <2>2, BrokerHandles
  <2>4. Exchange(id)' /\ Concerns(id) /\ IsTable(b_pending') /\ b_state' = b_state
    BY <2>3 DEF BrokerDone
  <2>5. IsTable(c_pending') /\ c_state' = c_state /\ Counted'
    BY <1>1, <1>2, CountedSame
  <2>6. Connected' /\ StaysQuiet(Ids \ {id})
    BY <2>4, <2>5, ConnectedStays
  <2>7. StaysQuiet(Ids \ DeliveryIds)
    BY <1>1, <1>2, <1>5, <2>1, <2>6, NotQuiet, QuietRequests
  <2> QED BY <1>2, <2>3, <2>6, <2>7 DEF BrokerDone
<1> QED BY <1>3, <1>4, <1>5, TrafficKinds

LEMMA BrokerHandleKeeps ==
  ASSUME Connected, BrokerHandle
  PROVE  /\ Connected' /\ StaysQuiet(Ids \ DeliveryIds)
         /\ UNCHANGED <<c_failure, b_failure, c_next_packet_id>>
<1> DEFINE p == Head(inbox)
<1>1. /\ Queues /\ IsTable(c_pending) /\ IsTable(b_pending) /\ Counted
      /\ b_state = "CONNECTED" /\ \A id \in Ids : Exchange(id)
  BY DEF Connected
<1>2. /\ inbox # <<>> /\ inbox' = Tail(inbox)
      /\ IF NeedsAnswer(p) THEN Answer(p) \/ AnswerSubscribe(p) \/ AnswerRefused(p)
                           ELSE UNCHANGED bVars
      /\ UNCHANGED <<c_state, c_pending, c_out, c_failure, c_next_packet_id,
                     c_subscriptions, c_counts, c2b, b2c>>
  BY DEF BrokerHandle, cVars
<1>3. p \in Traffic
  BY <1>1, <1>2, TailElements DEF Queues
<1>4. /\ IsTable(c_pending') /\ c_state' = c_state /\ Counted'
  BY <1>1, <1>2, CountedSame
<1>5. CASE NeedsAnswer(p)
  <2>1. PICK id : id = p.packet_id
    OBVIOUS
  <2>2. id \in Ids /\ p \in Of(id)
    BY <1>3, <1>5, <2>1, TrafficKinds
  <2>3. p \in Due(id)
    BY <1>5, <2>2 DEF Due
  <2>4. p.type # "CONNECT"
    BY <1>3 DEF Traffic, C!Publishes, C!Acks, C!SubscriptionRequests
  <2>5. Answer(p) \/ AnswerSubscribe(p)
    BY <1>1, <1>2, <1>5, <2>4 DEF AnswerRefused
  <2>6. Waits(id, p) /\ Clear(id, c_out, c2b, Tail(inbox), b_out, b2c)
    BY <1>1, <1>2, <2>2, <2>3, InboxWaits
  <2>7. BrokerDone(id)
    BY <1>1, <1>2, <1>3, <2>2, <2>3, <2>5, <2>6, BrokerAnswers
  <2>8. Exchange(id)' /\ Concerns(id) /\ IsTable(b_pending') /\ b_state' = b_state
    BY <2>7 DEF BrokerDone
  <2>9. Connected' /\ StaysQuiet(Ids \ {id})
    BY <1>4, <2>8, ConnectedStays
  <2>10. StaysQuiet(Ids \ DeliveryIds)
    BY <1>1, <1>2, <2>3, <2>9, NotQuiet, QuietRequests
  <2> QED BY <1>2, <2>7, <2>9, <2>10 DEF BrokerDone
<1>6. CASE ~NeedsAnswer(p)
  <2>1. UNCHANGED <<b_state, b_pending, b_out, b_failure>>
    BY <1>2, <1>6 DEF bVars
  <2>2. PICK id : p \in Of(id)
    BY <1>3, TrafficKinds
  <2>3. Concerns(id)
    BY <1>2, <2>1, <2>2, TouchKinds DEF Concerns, SameBut
  <2>4. ASSUME id \in Ids PROVE Exchange(id)' /\ (Quiet(id) => Quiet(id)')
    <3>1. p \notin Due(id)
      BY <1>6 DEF Due
    <3>2. Keeps(inbox, inbox', Due(id))
      BY <1>1, <1>2, <3>1, KeepsTail DEF Queues
    <3>3. QueuesKeep(id) /\ TablesKeep(id)
      BY <1>2, <2>1, <3>2, KeepsSame DEF QueuesKeep, TablesKeep
    <3> QED BY <1>1, <2>4, <3>3, Bystander
  <2>5. IsTable(b_pending') /\ b_state' = b_state
    BY <1>1, <2>1
  <2>6. Connected' /\ StaysQuiet(Ids \ {id})
    BY <1>4, <2>3, <2>4, <2>5, ConnectedStays
  <2>7. StaysQuiet(Ids \ DeliveryIds)
    BY <2>4, <2>6 DEF StaysQuiet
  <2> QED BY <1>2, <2>1, <2>6, <2>7
<1> QED BY <1>5, <1>6

LEMMA FlushesKeep ==
  ASSUME Connected, ClientFlush \/ BrokerFlush
  PROVE  /\ Connected' /\ StaysQuiet(Ids \ DeliveryIds)
         /\ UNCHANGED <<c_failure, b_failure, c_next_packet_id>>
<1>1. /\ Queues /\ IsTable(c_pending) /\ IsTable(b_pending) /\ Counted
      /\ \A id \in Ids : Exchange(id)
  BY DEF Connected
<1>2. CASE ClientFlush
  <2>1. /\ c_out' = <<>> /\ c2b' = c2b \o c_out
        /\ UNCHANGED <<c_pending, b_pending, inbox, b_out, b2c>>
    BY <1>2 DEF ClientFlush, C!Flush, C!GetOutboundData, bVars
  <2>2. /\ UNCHANGED <<c_state, b_state, c_failure, b_failure, c_next_packet_id>>
        /\ UNCHANGED <<c_subscriptions, c_counts>>
    BY <1>2 DEF ClientFlush, C!Flush, C!GetOutboundData, C!clientVars, bVars
  <2>3. Queues' /\ (\A id \in Ids : Exchange(id)') /\ StaysQuiet(Ids)
    BY <1>1, <2>1, ClientFlushed DEF StaysQuiet
  <2>4. IsTable(c_pending') /\ IsTable(b_pending') /\ Counted'
    BY <1>1, <2>1, <2>2, CountedSame
  <2> QED BY <2>2, <2>3, <2>4, QuietRequests DEF Connected
<1>3. CASE BrokerFlush /\ B!Flush /\ b2c' = b2c \o b_out
  <2>1. /\ b_out' = <<>> /\ b2c' = b2c \o b_out
        /\ UNCHANGED <<c_pending, b_pending, inbox, c_out, c2b>>
    BY <1>3 DEF BrokerFlush, B!Flush, B!GetOutboundData, cVars
  <2>2. /\ UNCHANGED <<c_state, b_state, c_failure, b_failure, c_next_packet_id>>
        /\ UNCHANGED <<c_subscriptions, c_counts>>
    BY <1>3 DEF BrokerFlush, B!Flush, B!GetOutboundData, cVars
  <2>3. Queues' /\ (\A id \in Ids : Exchange(id)') /\ StaysQuiet(Ids)
    BY <1>1, <2>1, BrokerFlushed DEF StaysQuiet
  <2>4. IsTable(c_pending') /\ IsTable(b_pending') /\ Counted'
    BY <1>1, <2>1, <2>2, CountedSame
  <2> QED BY <2>2, <2>3, <2>4, QuietRequests DEF Connected
<1>4. CASE BrokerFlush /\ UNCHANGED <<bVars, b2c>>
  <2>1. /\ UNCHANGED <<c_pending, b_pending, inbox, c_out, c2b, b_out, b2c>>
        /\ UNCHANGED <<c_state, b_state, c_failure, b_failure, c_next_packet_id>>
        /\ UNCHANGED <<c_subscriptions, c_counts>>
    BY <1>4 DEF BrokerFlush, cVars, bVars
  <2>2. Concerns(0)
    BY <2>1, TouchKinds DEF Concerns, SameBut
  <2> QED BY <1>1, <2>1, <2>2, ConnectedStaysSame, CountedSame, QuietRequests
<1> QED BY <1>2, <1>3, <1>4 DEF BrokerFlush

LEMMA BrokerDeliverKeeps ==
  ASSUME NoQoS2Delivery, Connected, BrokerDeliver
  PROVE  /\ Connected' /\ StaysQuiet(Ids \ DeliveryIds)
         /\ UNCHANGED <<c_failure, b_failure, c_next_packet_id>>
<1>1. /\ Queues /\ IsTable(c_pending) /\ IsTable(b_pending) /\ Counted
      /\ \A id \in Ids : Exchange(id)
  BY DEF Connected
<1>2. PICK m \in Messages, q \in DeliveryQoS, id \in DeliveryIds :
        /\ \A i \in DOMAIN b_pending : b_pending[i].packet.packet_id # id
        /\ B!DeliverPublish(m, q, id, "ACKNOWLEDGED")
  BY DEF BrokerDeliver
<1>3. /\ UNCHANGED <<c_state, c_pending, c_out, c_failure, c_next_packet_id,
                     c_subscriptions, c_counts>>
      /\ UNCHANGED <<c2b, inbox, b2c>>
  BY DEF BrokerDeliver, cVars, streams
<1>4. UNCHANGED <<b_state, b_failure>> /\ q \in {0, 1} /\ id \in Ids
  BY <1>2, SessionAssumption DEF B!DeliverPublish, Ids, NoQoS2Delivery
<1>5. /\ IsTable(c_pending') /\ c_state' = c_state /\ Counted'
  BY <1>1, <1>3, CountedSame
<1>6. CASE q = 0
  <2>1. b_pending' = b_pending /\ b_out' = Append(b_out, B!PublishPacket(m, 0, 0))
    BY <1>2, <1>6 DEF B!DeliverPublish, B!Send
  <2>2. B!PublishPacket(m, 0, 0) \in Of(0) /\ B!PublishPacket(m, 0, 0) \in Traffic
    BY PublishPackets
  <2>3. Concerns(0)
    BY <1>3, <2>1, <2>2, TouchKinds DEF Concerns, SameBut
  <2> QED BY <1>3, <1>4, <1>5, <2>1, <2>3, ConnectedStaysSame, QuietRequests
<1>7. CASE q # 0
  <2> DEFINE p == B!PublishPacket(m, q, id)
  <2>1. p \in Publishes(id, 1)
    BY <1>4, <1>7, PublishPackets
  <2>2. Under(b_pending, id) = {} /\ B!Slots(id) = {}
    BY <1>2 DEF Under, Range, B!Slots
  <2>3. /\ b_pending' = Append(b_pending, Entry(p, TRUE, "ACKNOWLEDGED"))
        /\ b_out' = Append(b_out, p)
    BY <1>2, <1>4, <1>7, <2>2 DEF B!DeliverPublish, B!Send, Entry
  <2> HIDE DEF p
  <2>4. Exchange(id)' /\ Concerns(id) /\ IsTable(b_pending')
    BY <1>1, <1>3, <1>4, <2>1, <2>2, <2>3, NewDelivery
  <2>5. Connected' /\ StaysQuiet(Ids \ {id})
    BY <1>4, <1>5, <2>4, ConnectedStays
  <2> QED BY <1>3, <1>4, <2>5, QuietRequests
<1> QED BY <1>6, <1>7

-----------------------------------------------------------------------------
(* The calls of the client's application                                   *)

LEMMA UnusedId ==
  ASSUME NEW id, Unused(id)
  PROVE  id \notin DeliveryIds /\ Under(c_pending, id) = {} /\ Under(b_pending, id) = {}
BY ClientSlots, BrokerSlots DEF Unused

\* There is a message left to publish.
LEMMA MessageLeft ==
  ASSUME Chosen, Len(published) < MaxPublishes
  PROVE  \E m \in Messages : m \notin Known(published)
<1> DEFINE n == Len(published)
           f == [i \in 1 .. n |-> published[i].msg]
<1>1. n \in Nat /\ DOMAIN published = 1 .. n
  BY LenProperties DEF Chosen
<1>2. IsFiniteSet(1 .. n) /\ Cardinality(1 .. n) = n
  <2> HIDE DEF n
  <2>1. /\ IsFiniteSet(1 .. n)
        /\ Cardinality(1 .. n) = IF 1 > n THEN 0 ELSE n - 1 + 1
    BY <1>1, FS_Interval
  <2> QED BY <1>1, <2>1
<1>3. f \in Surjection(1 .. n, Known(published))
  <2>1. ASSUME NEW i \in 1 .. n PROVE f[i] \in Known(published)
    BY <1>1 DEF Known
  <2>2. ASSUME NEW x \in Known(published) PROVE \E i \in 1 .. n : f[i] = x
    BY <1>1 DEF Known
  <2>3. f \in [1 .. n -> Known(published)]
    BY <2>1
  <2> HIDE DEF f
  <2> QED BY <2>2, <2>3 DEF Surjection
<1> HIDE DEF n, f
<1>4. IsFiniteSet(Known(published)) /\ Cardinality(Known(published)) <= n
  BY <1>2, <1>3, FS_Surjection
<1>5. SUFFICES ASSUME Messages \subseteq Known(published) PROVE FALSE
  OBVIOUS
<1>6. Cardinality(Messages) <= Cardinality(Known(published))
  BY <1>4, <1>5, FS_Subset
<1>7. /\ Cardinality(Messages) \in Nat /\ Cardinality(Known(published)) \in Nat
      /\ MaxPublishes \in 0 .. Cardinality(Messages)
  BY <1>4, SessionAssumption, FS_CardinalityType
<1> QED BY <1>1, <1>4, <1>6, <1>7 DEF n

\* A packet id is given out, or none is.
GivesOut ==
  \/ UNCHANGED c_next_packet_id /\ StaysQuiet(Ids)
  \/ C!GeneratePacketId /\ StaysQuiet(Ids \ {c_next_packet_id})

LEMMA NextId ==
  ASSUME c_next_packet_id \in Ids, C!GeneratePacketId
  PROVE  c_next_packet_id' \in Ids
BY SessionAssumption DEF C!GeneratePacketId, Ids

LEMMA AppPublishKeeps ==
  ASSUME Connected, Chosen, c_next_packet_id \in Ids, AppPublish,
         C!GeneratePacketId => Unused(c_next_packet_id)
  PROVE  /\ Connected' /\ Chosen' /\ c_next_packet_id' \in Ids /\ GivesOut
         /\ UNCHANGED <<c_failure, b_failure>>
<1>1. /\ Queues /\ IsTable(c_pending) /\ IsTable(b_pending) /\ Counted
      /\ \A id \in Ids : Exchange(id)
  BY DEF Connected
<1>2. PICK m : m = CHOOSE x \in Messages : x \notin Known(published)
  OBVIOUS
<1>3. PICK q \in QoSLevels :
        /\ C!Publish(m, q)
        /\ published' = Append(published, Publication(m, q))
  BY <1>2 DEF AppPublish
<1>4. m \in Messages
  BY <1>2, MessageLeft DEF AppPublish
<1>5. q \in 0 .. 2
  BY SessionAssumption
<1>6. Chosen'
  <2>1. Publication(m, q) \in [msg : Messages, qos : 0 .. 2]
    BY <1>4, <1>5 DEF Publication
  <2> QED BY <1>3, <2>1, AppendElements DEF Chosen
<1>7. UNCHANGED <<b_state, b_pending, b_out, b_failure, c2b, b2c, inbox>>
  BY DEF AppPublish, bVars, streams
<1>8. UNCHANGED <<c_state, c_failure, c_subscriptions, c_counts>>
  BY <1>3 DEF C!Publish
<1>9. IsTable(b_pending') /\ Counted'
  BY <1>1, <1>7, <1>8, CountedSame
<1>10. CASE q = 0
  <2>1. /\ c_pending' = c_pending /\ c_next_packet_id' = c_next_packet_id
        /\ c_out' = Append(c_out, C!PublishPacket(m, 0, 0))
    BY <1>3, <1>10 DEF C!Publish, C!Send
  <2>2. C!PublishPacket(m, 0, 0) \in Of(0) /\ C!PublishPacket(m, 0, 0) \in Traffic
    BY <1>4, PublishPackets
  <2>3. Concerns(0)
    BY <1>7, <2>1, <2>2, TouchKinds DEF Concerns, SameBut
  <2>4. Connected' /\ StaysQuiet(Ids)
    BY <1>7, <1>8, <1>9, <2>1, <2>3, ConnectedStaysSame
  <2> QED BY <1>6, <1>7, <1>8, <2>1, <2>4 DEF GivesOut
<1>11. CASE q # 0
  <2>1. PICK id : id = c_next_packet_id
    OBVIOUS
  <2>2. PICK p : p = C!PublishPacket(m, q, id)
    OBVIOUS
  <2>3. C!AddPending(p, TRUE) /\ C!GeneratePacketId
    BY <1>3, <1>11, <2>1, <2>2 DEF C!Publish
  <2>4. /\ id \in Ids /\ id \notin DeliveryIds
        /\ Under(c_pending, id) = {} /\ Under(b_pending, id) = {}
    BY <2>1, <2>3, UnusedId
  <2>5. p \in Publishes(id, 1) \cup Publishes(id, 2)
    BY <1>4, <1>5, <1>11, <2>2, <2>4, PublishPackets
  <2>6. Exchange(id)' /\ Concerns(id) /\ IsTable(c_pending')
    BY <1>1, <1>7, <2>3, <2>4, <2>5, NewRequest
  <2>7. Connected' /\ StaysQuiet(Ids \ {id})
    BY <1>7, <1>8, <1>9, <2>6, ConnectedStays
  <2> QED BY <1>6, <1>7, <1>8, <2>1, <2>3, <2>7, NextId DEF GivesOut
<1> QED BY <1>10, <1>11

LEMMA SubscribeKeeps ==
  ASSUME Connected, c_next_packet_id \in Ids, NEW S \in (SUBSET Patterns) \ {{}}, C!Subscribe(S),
         UNCHANGED <<bVars, streams>>,
         C!GeneratePacketId => Unused(c_next_packet_id)
  PROVE  /\ Connected' /\ c_next_packet_id' \in Ids /\ GivesOut
         /\ UNCHANGED <<c_failure, b_failure>>
<1> DEFINE new == S \ c_subscriptions
<1>1. /\ Queues /\ IsTable(c_pending) /\ IsTable(b_pending) /\ Counted
      /\ \A id \in Ids : Exchange(id)
  BY DEF Connected
<1>2. UNCHANGED <<b_state, b_pending, b_out, b_failure, c2b, b2c, inbox>>
  BY DEF bVars, streams
<1>3. UNCHANGED <<c_state, c_failure>>
  BY DEF C!Subscribe
<1>4. Counted'
  <2> SUFFICES ASSUME NEW x \in Patterns
               PROVE  /\ c_counts'[x] \in Int
                      /\ x \in c_subscriptions' <=> c_counts'[x] >= 1
    BY DEF Counted
  <2>1. c_counts[x] \in Int /\ (x \in c_subscriptions <=> c_counts[x] >= 1)
    BY <1>1 DEF Counted
  <2>2. x \in c_subscriptions' <=> x \in c_subscriptions \/ x \in S
    BY DEF C!Subscribe
  <2>3. c_counts'[x] = IF x \in S \ c_subscriptions THEN 1
                       ELSE c_counts[x] + (IF x \in S THEN 1 ELSE 0)
    BY DEF C!Subscribe
  <2> QED BY <2>1, <2>2, <2>3
<1>5. IsTable(b_pending')
  BY <1>1, <1>2
<1>6. CASE new = {}
  <2>1. UNCHANGED <<c_pending, c_out, c_next_packet_id>>
    BY <1>6 DEF C!Subscribe
  <2>2. Concerns(0)
    BY <1>2, <2>1, TouchKinds DEF Concerns, SameBut
  <2>3. Connected' /\ StaysQuiet(Ids)
    BY <1>2, <1>3, <1>4, <2>1, <2>2, ConnectedStaysSame
  <2> QED BY <1>2, <1>3, <2>1, <2>3 DEF GivesOut
<1>7. CASE new # {}
  <2>1. PICK id : id = c_next_packet_id
    OBVIOUS
  <2>2. PICK p : p = [type |-> "SUBSCRIBE", packet_id |-> id, patterns |-> new]
    OBVIOUS
  <2>3. C!AddPending(p, TRUE) /\ C!GeneratePacketId
    BY <1>7, <2>1, <2>2 DEF C!Subscribe
  <2>4. /\ id \in Ids /\ id \notin DeliveryIds
        /\ Under(c_pending, id) = {} /\ Under(b_pending, id) = {}
    BY <2>1, <2>3, UnusedId
  <2>5. p \in Requests(id, "SUBSCRIBE")
    BY <1>7, <2>2, <2>4 DEF Requests, C!SubscriptionRequests, C!PacketIds, Ids
  <2>6. Exchange(id)' /\ Concerns(id) /\ IsTable(c_pending')
    BY <1>1, <1>2, <2>3, <2>4, <2>5, NewRequest
  <2>7. Connected' /\ StaysQuiet(Ids \ {id})
    BY <1>2, <1>3, <1>4, <1>5, <2>6, ConnectedStays
  <2> QED BY <1>2, <1>3, <2>1, <2>3, <2>7, NextId DEF GivesOut
<1> QED BY <1>6, <1>7

LEMMA UnsubscribeKeeps ==
  ASSUME Connected, c_next_packet_id \in Ids, NEW S \in (SUBSET Patterns) \ {{}}, C!Unsubscribe(S),
         UNCHANGED <<bVars, streams>>,
         C!GeneratePacketId => Unused(c_next_packet_id)
  PROVE  /\ Connected' /\ c_next_packet_id' \in Ids /\ GivesOut
         /\ UNCHANGED <<c_failure, b_failure>>
<1> DEFINE last == {x \in S : c_counts[x] = 1}
<1>1. /\ Queues /\ IsTable(c_pending) /\ IsTable(b_pending) /\ Counted
      /\ \A id \in Ids : Exchange(id)
  BY DEF Connected
<1>2. UNCHANGED <<b_state, b_pending, b_out, b_failure, c2b, b2c, inbox>>
  BY DEF bVars, streams
<1>3. last \ c_subscriptions = {}
  BY <1>1 DEF Counted
<1>4. /\ c_counts' = C!CountDown(S) /\ c_subscriptions' = c_subscriptions \ last
      /\ \/ /\ last = {} /\ UNCHANGED <<c_pending, c_out, c_next_packet_id>>
         \/ /\ last # {} /\ C!GeneratePacketId
            /\ C!AddPending([type |-> "UNSUBSCRIBE", packet_id |-> c_next_packet_id,
                             patterns |-> last], TRUE)
      /\ UNCHANGED <<c_state, c_failure>>
  BY <1>3 DEF C!Unsubscribe
<1>5. Counted'
  <2> SUFFICES ASSUME NEW x \in Patterns
               PROVE  /\ c_counts'[x] \in Int
                      /\ x \in c_subscriptions' <=> c_counts'[x] >= 1
    BY DEF Counted
  <2>1. c_counts[x] \in Int /\ (x \in c_subscriptions <=> c_counts[x] >= 1)
    BY <1>1 DEF Counted
  <2>2. x \in c_subscriptions' <=> x \in c_subscriptions /\ ~(x \in S /\ c_counts[x] = 1)
    BY <1>4
  <2>3. c_counts'[x] = IF x \notin S THEN c_counts[x]
                       ELSE IF c_counts[x] = 1 THEN 0 ELSE c_counts[x] - 1
    BY <1>4 DEF C!CountDown
  <2> QED BY <2>1, <2>2, <2>3
<1>6. IsTable(b_pending')
  BY <1>1, <1>2
<1>7. CASE last = {}
  <2>1. UNCHANGED <<c_pending, c_out, c_next_packet_id>>
    BY <1>4, <1>7
  <2>2. Concerns(0)
    BY <1>2, <2>1, TouchKinds DEF Concerns, SameBut
  <2>3. Connected' /\ StaysQuiet(Ids)
    BY <1>2, <1>4, <1>5, <2>1, <2>2, ConnectedStaysSame
  <2> QED BY <1>2, <1>4, <2>1, <2>3 DEF GivesOut
<1>8. CASE last # {}
  <2>1. PICK id : id = c_next_packet_id
    OBVIOUS
  <2>2. PICK p : p = [type |-> "UNSUBSCRIBE", packet_id |-> id, patterns |-> last]
    OBVIOUS
  <2>3. C!AddPending(p, TRUE) /\ C!GeneratePacketId
    BY <1>4, <1>8, <2>1, <2>2
  <2>4. /\ id \in Ids /\ id \notin DeliveryIds
        /\ Under(c_pending, id) = {} /\ Under(b_pending, id) = {}
    BY <2>1, <2>3, UnusedId
  <2>5. p \in Requests(id, "UNSUBSCRIBE")
    BY <1>8, <2>2, <2>4 DEF Requests, C!SubscriptionRequests, C!PacketIds, Ids
  <2>6. Exchange(id)' /\ Concerns(id) /\ IsTable(c_pending')
    BY <1>1, <1>2, <2>3, <2>4, <2>5, NewRequest
  <2>7. Connected' /\ StaysQuiet(Ids \ {id})
    BY <1>2, <1>4, <1>5, <1>6, <2>6, ConnectedStays
  <2> QED BY <1>2, <1>4, <2>1, <2>3, <2>7, NextId DEF GivesOut
<1> QED BY <1>7, <1>8

-----------------------------------------------------------------------------
(* The handshake                                                           *)

LEMMA OneElement ==
  \A x : /\ <<x>> # <<>> /\ Head(<<x>>) = x /\ Tail(<<x>>) = <<>>
         /\ Append(<<>>, x) = <<x>> /\ <<>> \o <<x>> = <<x>>
OBVIOUS

\* Where the only packet is
LEMMA OnlyPlaces ==
  ASSUME NEW place, NEW p, Only(place, p)
  PROVE  /\ c_out # <<>> => place = "c_out" /\ c_out = <<p>>
         /\ c2b # <<>> => place = "c2b" /\ c2b = <<p>>
         /\ inbox # <<>> => place = "inbox" /\ inbox = <<p>>
         /\ b_out # <<>> => place = "b_out" /\ b_out = <<p>>
         /\ b2c # <<>> => place = "b2c" /\ b2c = <<p>>
BY DEF Only

LEMMA OpenKeeps ==
  ASSUME Unconnected, Open
  PROVE  /\ Connecting' /\ connects' = 1 /\ open'
         /\ c_failure' = c_failure /\ b_failure' = "none"
         /\ UNCHANGED <<c_next_packet_id, published>>
<1>1. /\ c_out = <<>> /\ c2b = <<>> /\ inbox = <<>> /\ b2c = <<>>
      /\ connects = 0 /\ c_pending = <<>>
      /\ c_subscriptions = {} /\ c_counts = [x \in Patterns |-> 0]
  BY DEF Unconnected, Only, Fresh
<1>2. C!Connect(TRUE)
  BY DEF Open
<1>3. /\ c_state' = "CONNECTING" /\ c_out' = Append(c_out, ConnectPacket)
      /\ UNCHANGED <<c_pending, c_failure, c_next_packet_id, c_subscriptions, c_counts>>
  BY <1>2 DEF C!Connect, C!Send, ConnectPacket, C!clientVars
<1>4. c_out' = <<ConnectPacket>>
  BY <1>1, <1>3, OneElement
<1>5. /\ b_state' = "DISCONNECTED" /\ b_pending' = <<>> /\ b_out' = <<>>
      /\ b_failure' = "none" /\ b_subscriptions' = {}
      /\ UNCHANGED <<c2b, b2c, inbox, published>> /\ connects' = connects + 1 /\ open'
  BY DEF Open, streams, histories
<1>6. Only("c_out", ConnectPacket)'
  BY <1>1, <1>4, <1>5 DEF Only, ConnectPacket
<1>7. Handshake'
  BY <1>5, <1>6 DEF Handshake, Up
<1> QED BY <1>1, <1>3, <1>5, <1>7 DEF Connecting, Fresh

LEMMA BrokerTakesConnect ==
  ASSUME b_state = "DISCONNECTED", B!Receive(ConnectPacket)
  PROVE  b_state' = "CONNECTING" /\ UNCHANGED <<b_pending, b_out, b_failure, b_subscriptions>>
<1>1. ConnectPacket.type = "CONNECT"
  BY DEF ConnectPacket
<1> HIDE DEF ConnectPacket
<1>2. B!Accepts(B!BrokerAccepting, ConnectPacket)
  BY <1>1 DEF B!Accepts, B!BrokerAccepting, B!BaseAccepting
<1>3. B!ReceiveConnect(ConnectPacket)
  BY <1>1, <1>2 DEF B!Receive, B!ReceiveRefused, B!ReceiveAccepted, B!ReceiveBase,
     B!ReceivePublish, B!ReceivePubAck, B!ReceivePubRec, B!ReceivePubRel, B!ReceivePubComp,
     B!ReceiveDisconnect, B!ReceiveAuth, B!ReceivePingReq, B!ReceiveSubscribe,
     B!ReceiveUnsubscribe
<1> QED BY <1>3 DEF B!ReceiveConnect

LEMMA ClientTakesConnAck ==
  ASSUME c_state = "CONNECTING", c_pending = <<>>, c_out = <<>>, c_subscriptions = {},
         c_next_packet_id \in Ids,
         NEW present, C!Receive(ConnAckPacket(present))
  PROVE  /\ c_state' = "CONNECTED" /\ c_pending' = <<>> /\ c_out' = <<>>
         /\ c_failure' = c_failure /\ c_next_packet_id' \in Ids
         /\ c_next_packet_id' \in {c_next_packet_id, 1}
         /\ UNCHANGED <<c_subscriptions, c_counts>>
<1> DEFINE p == ConnAckPacket(present)
<1>1. p.type = "CONNACK" /\ p.reason = "SUCCESS"
  BY DEF ConnAckPacket
<1> HIDE DEF p
<1>2. C!Accepts(C!ClientAccepting, p)
  BY <1>1 DEF C!Accepts, C!ClientAccepting, C!BaseAccepting
<1>3. C!Receive(p)
  BY DEF p
<1>4. C!ReceiveConnAck(p)
  BY <1>1, <1>2, <1>3 DEF C!Receive, C!ReceiveRefused, C!ReceiveAccepted, C!ReceiveBase,
     C!ReceivePublish, C!ReceivePubAck, C!ReceivePubRec, C!ReceivePubRel, C!ReceivePubComp,
     C!ReceiveDisconnect, C!ReceiveAuth, C!ReceivePingResp, C!ReceiveSubAck,
     C!ReceiveUnsubAck, C!ReceiveRequestAck
<1>5. /\ c_state' = "CONNECTED" /\ c_counts' = c_counts
      /\ IF p.session_present THEN UNCHANGED <<c_next_packet_id, c_subscriptions>>
                              ELSE c_next_packet_id' = 1 /\ c_subscriptions' = {}
  BY <1>1, <1>4 DEF C!ReceiveConnAck
<1>6. PICK order \in C!Enumerations(C!Kept(p.session_present)) :
        \E n \in 0 .. Len([i \in DOMAIN order |-> c_pending[order[i]]]) :
          C!ResendPending([i \in DOMAIN order |-> c_pending[order[i]]], n)
  BY <1>1, <1>4 DEF C!ReceiveConnAck
<1>7. DOMAIN order = {}
  <2>1. DOMAIN c_pending = {}
    BY EmptySeq
  <2>2. C!Kept(p.session_present) = {}
    <3>1. C!Kept(p.session_present) \subseteq DOMAIN c_pending
      BY DEF C!Kept
    <3> QED BY <2>1, <3>1
  <2>3. order \in [1 .. C!Cardinality(C!Kept(p.session_present)) -> {}]
    BY <1>6, <2>2 DEF C!Enumerations
  <2> QED BY <2>3
<1> DEFINE kept == [i \in DOMAIN order |-> c_pending[order[i]]]
<1>8. kept = <<>>
  BY <1>7
<1>9. Len(kept) = 0 /\ DOMAIN kept = {}
  BY <1>8
<1> HIDE DEF kept
<1>10. C!ResendPending(kept, 0)
  BY <1>6, <1>9 DEF kept
<1>11. c_failure' = c_failure
  BY <1>9, <1>10 DEF C!ResendPending
<1>12. c_pending' = <<>>
  BY <1>9, <1>10 DEF C!ResendPending
<1>13. c_out' = <<>>
  <2>1. [i \in 1 .. 0 |-> C!Duplicate(kept[i].packet)] = <<>>
    OBVIOUS
  <2>2. c_out' = c_out \o <<>>
    BY <1>10, <2>1 DEF C!ResendPending
  <2> QED BY <2>2
<1>14. c_next_packet_id' \in Ids
  BY <1>5, SessionAssumption DEF Ids
<1> QED BY <1>5, <1>11, <1>12, <1>13, <1>14

\* The step of a connection that is being established, in which CONNECT or
\* CONNACK moves on
Advances ==
  /\ Connecting' /\ UNCHANGED <<c_failure, b_failure, c_next_packet_id>>

LEMMA ConnectingFlushes ==
  ASSUME Connecting, ClientFlush \/ BrokerFlush
  PROVE  Advances
<1>1. Fresh /\ Handshake /\ c_state = "CONNECTING"
  BY DEF Connecting
<1>2. CASE ClientFlush
  <2>1. /\ c_out # <<>> /\ c_out' = <<>> /\ c2b' = c2b \o c_out
        /\ UNCHANGED <<c_state, c_pending, c_failure, c_next_packet_id, c_subscriptions, c_counts>>
        /\ UNCHANGED <<b_state, b_pending, b_out, b_failure, b_subscriptions, b2c, inbox>>
    BY <1>2 DEF ClientFlush, C!Flush, C!GetOutboundData, C!clientVars, bVars
  <2>2. Only("c_out", ConnectPacket) /\ b_state = "DISCONNECTED"
    <3>1. "c_out" \notin Down /\ "inbox" # "c_out"
      BY DEF Down
    <3> QED BY <1>1, <2>1, <3>1, OnlyPlaces DEF Handshake
  <2>3. c2b' = <<ConnectPacket>>
    BY <2>1, <2>2, OneElement DEF Only
  <2>4. Only("c2b", ConnectPacket)'
    BY <2>1, <2>2, <2>3 DEF Only, ConnectPacket
  <2>5. Handshake'
    BY <2>1, <2>2, <2>4 DEF Handshake, Up
  <2>6. Fresh'
    BY <1>1, <2>1 DEF Fresh
  <2> QED BY <1>1, <2>1, <2>5, <2>6 DEF Connecting, Advances
<1>3. CASE BrokerFlush /\ B!Flush /\ b2c' = b2c \o b_out
  <2>1. /\ b_out # <<>> /\ b_out' = <<>> /\ b2c' = b2c \o b_out
        /\ UNCHANGED <<c_state, c_pending, c_failure, c_next_packet_id, c_subscriptions, c_counts>>
        /\ UNCHANGED <<b_state, b_pending, c_out, b_failure, b_subscriptions, c2b, inbox>>
    BY <1>3 DEF BrokerFlush, B!Flush, B!GetOutboundData, cVars
  <2>2. PICK present \in BOOLEAN : Only("b_out", ConnAckPacket(present)) /\ b_state = "CONNECTED"
    <3>1. "b_out" \notin Up /\ "inbox" # "b_out"
      BY DEF Up
    <3> QED BY <1>1, <2>1, <3>1, OnlyPlaces DEF Handshake
  <2>3. b2c' = <<ConnAckPacket(present)>>
    BY <2>1, <2>2, OneElement DEF Only
  <2>4. Only("b2c", ConnAckPacket(present))'
    BY <2>1, <2>2, <2>3 DEF Only
  <2>5. Handshake'
    BY <2>1, <2>2, <2>4 DEF Handshake, Down
  <2>6. Fresh'
    BY <1>1, <2>1 DEF Fresh
  <2> QED BY <1>1, <2>1, <2>5, <2>6 DEF Connecting, Advances
<1>4. CASE BrokerFlush /\ UNCHANGED <<bVars, b2c>>
  <2>1. UNCHANGED <<c_state, c_pending, c_out, c_failure, c_next_packet_id, c_subscriptions,
                    c_counts, b_state, b_pending, b_out, b_failure, b_subscriptions,
                    c2b, b2c, inbox>>
    BY <1>4 DEF BrokerFlush, cVars, bVars
  <2>2. \A place, p : Only(place, p) => Only(place, p)'
    BY <2>1 DEF Only
  <2>3. Handshake'
    BY <1>1, <2>1, <2>2 DEF Handshake, ConnectPacket
  <2>4. Fresh'
    BY <1>1, <2>1 DEF Fresh
  <2> QED BY <1>1, <2>1, <2>3, <2>4 DEF Connecting, Advances
<1> QED BY <1>2, <1>3, <1>4 DEF BrokerFlush

LEMMA ConnectingReceives ==
  ASSUME Connecting, BrokerReceive
  PROVE  Advances
<1>1. Fresh /\ Handshake /\ c_state = "CONNECTING"
  BY DEF Connecting
<1>2. /\ c2b # <<>> /\ B!Receive(Head(c2b)) /\ c2b' = Tail(c2b)
      /\ inbox' = Append(inbox, Head(c2b))
      /\ UNCHANGED <<c_state, c_pending, c_out, c_failure, c_next_packet_id,
                     c_subscriptions, c_counts, b2c>>
  BY DEF BrokerReceive, cVars
<1>3. Only("c2b", ConnectPacket) /\ b_state = "DISCONNECTED"
  <2>1. "c2b" \notin Down /\ "inbox" # "c2b"
    BY DEF Down
  <2> QED BY <1>1, <1>2, <2>1, OnlyPlaces DEF Handshake
<1>4. c2b = <<ConnectPacket>> /\ inbox = <<>> /\ c_out = <<>> /\ b_out = <<>> /\ b2c = <<>>
  BY <1>3 DEF Only
<1>5. Head(c2b) = ConnectPacket /\ c2b' = <<>> /\ inbox' = <<ConnectPacket>>
  BY <1>2, <1>4, OneElement
<1>6. b_state' = "CONNECTING" /\ UNCHANGED <<b_pending, b_out, b_failure, b_subscriptions>>
  BY <1>2, <1>3, <1>5, BrokerTakesConnect
<1>7. Only("inbox", ConnectPacket)'
  BY <1>2, <1>4, <1>5, <1>6 DEF Only, ConnectPacket
<1>8. Handshake'
  BY <1>6, <1>7 DEF Handshake
<1>9. Fresh'
  BY <1>1, <1>2, <1>6 DEF Fresh
<1> QED BY <1>1, <1>2, <1>6, <1>8, <1>9 DEF Connecting, Advances

LEMMA ConnectingAnswers ==
  ASSUME Connecting, BrokerHandle
  PROVE  Advances
<1>1. Fresh /\ Handshake /\ c_state = "CONNECTING"
  BY DEF Connecting
<1>2. /\ inbox # <<>> /\ inbox' = Tail(inbox)
      /\ NeedsAnswer(Head(inbox)) =>
           Answer(Head(inbox)) \/ AnswerSubscribe(Head(inbox)) \/ AnswerRefused(Head(inbox))
      /\ UNCHANGED <<c_state, c_pending, c_out, c_failure, c_next_packet_id,
                     c_subscriptions, c_counts, c2b, b2c>>
  BY DEF BrokerHandle, cVars
<1>3. Only("inbox", ConnectPacket) /\ b_state = "CONNECTING"
  <2>1. "inbox" \notin Down /\ "inbox" \notin Up
    BY DEF Down, Up
  <2> QED BY <1>1, <1>2, <2>1, OnlyPlaces DEF Handshake
<1>4. inbox = <<ConnectPacket>> /\ c2b = <<>> /\ c_out = <<>> /\ b_out = <<>> /\ b2c = <<>>
  BY <1>3 DEF Only
<1>5. Head(inbox) = ConnectPacket /\ inbox' = <<>> /\ ConnectPacket.type = "CONNECT"
  BY <1>2, <1>4, OneElement DEF ConnectPacket
<1> HIDE DEF ConnectPacket
<1>6. PICK present \in SessionAnswers : B!AcknowledgeConnect("SUCCESS", present)
  <2>1. Answer(ConnectPacket)
    BY <1>2, <1>3, <1>5 DEF NeedsAnswer, AnswerSubscribe, AnswerRefused
  <2> QED BY <1>5, <2>1 DEF Answer
<1>7. present \in BOOLEAN
  BY SessionAssumption
<1>8. /\ b_state' = "CONNECTED" /\ b_out' = Append(b_out, ConnAckPacket(present))
      /\ UNCHANGED <<b_pending, b_failure, b_subscriptions>>
  BY <1>6 DEF B!AcknowledgeConnect, B!Send, ConnAckPacket
<1>9. b_out' = <<ConnAckPacket(present)>>
  BY <1>4, <1>8, OneElement
<1>10. Only("b_out", ConnAckPacket(present))'
  BY <1>2, <1>4, <1>5, <1>9 DEF Only
<1>11. Handshake'
  BY <1>7, <1>8, <1>10 DEF Handshake, Down
<1>12. Fresh'
  BY <1>1, <1>2, <1>8 DEF Fresh
<1> QED BY <1>1, <1>2, <1>8, <1>11, <1>12 DEF Connecting, Advances

\* The client reads the CONNACK: the connection is established, no packet id
\* is in use.
LEMMA ConnectingEnds ==
  ASSUME Connecting, c_next_packet_id \in Ids, ClientReceive
  PROVE  /\ Connected' /\ (\A id \in Ids : Quiet(id)') /\ UNCHANGED <<c_failure, b_failure>>
         /\ c_next_packet_id' \in Ids /\ c_next_packet_id' \in {c_next_packet_id, 1}
         /\ c_out' = <<>> /\ c2b' = <<>> /\ inbox' = <<>> /\ b_out' = <<>> /\ b2c' = <<>>
         /\ c_subscriptions' = {} /\ b_subscriptions' = {}
<1>1. Fresh /\ Handshake /\ c_state = "CONNECTING"
  BY DEF Connecting
<1>2. /\ b2c # <<>> /\ C!Receive(Head(b2c)) /\ b2c' = Tail(b2c)
      /\ UNCHANGED <<b_state, b_pending, b_out, b_failure, c2b, inbox>>
  BY DEF ClientReceive, bVars
<1>3. PICK present \in BOOLEAN : Only("b2c", ConnAckPacket(present)) /\ b_state = "CONNECTED"
  <2>1. "b2c" \notin Up /\ "inbox" # "b2c"
    BY DEF Up
  <2> QED BY <1>1, <1>2, <2>1, OnlyPlaces DEF Handshake
<1>4. /\ b2c = <<ConnAckPacket(present)>>
      /\ c_out = <<>> /\ c2b = <<>> /\ inbox = <<>> /\ b_out = <<>>
  BY <1>3 DEF Only
<1>5. Head(b2c) = ConnAckPacket(present) /\ b2c' = <<>>
  BY <1>2, <1>4, OneElement
<1>6. /\ c_state' = "CONNECTED" /\ c_pending' = <<>> /\ c_out' = <<>>
      /\ c_failure' = c_failure /\ c_next_packet_id' \in Ids \cap {c_next_packet_id, 1}
      /\ UNCHANGED <<c_subscriptions, c_counts>>
  BY <1>1, <1>2, <1>4, <1>5, ClientTakesConnAck DEF Fresh
<1>7. c2b' = <<>> /\ inbox' = <<>> /\ b_out' = <<>> /\ b_pending' = <<>>
  BY <1>1, <1>2, <1>4 DEF Fresh
<1>8. Queues'
  BY <1>5, <1>6, <1>7, EmptySeq DEF Queues
<1>9. ASSUME NEW id PROVE Exchange(id)' /\ Quiet(id)'
  <2>1. Clear(id, c_out', c2b', inbox', b_out', b2c')
    BY <1>5, <1>6, <1>7, EmptyQueue DEF Clear
  <2>2. OnWay(id, "nowhere", "none")'
    BY <2>1, PutNowhere
  <2>3. Under(c_pending', id) = {} /\ Under(b_pending', id) = {}
    BY <1>6, <1>7, EmptyTable
  <2>4. Stage(id, {}, {}, {"nowhere"}, "none")'
    BY <2>2, <2>3, NewStage
  <2> QED BY <2>4 DEF Exchange, Idle, Quiet
<1>10. Counted'
  BY <1>1, <1>6 DEF Fresh, Counted
<1>11. IsTable(c_pending') /\ IsTable(b_pending')
  BY <1>6, <1>7, EmptyTable
<1>12. c_subscriptions' = {} /\ b_subscriptions' = {}
  BY <1>1, <1>6 DEF Fresh, ClientReceive, bVars
<1> QED BY <1>2, <1>3, <1>5, <1>6, <1>7, <1>8, <1>9, <1>10, <1>11, <1>12 DEF Connected

-----------------------------------------------------------------------------
(* The invariant                                                           *)

LEMMA InitInv == Init => Inv
<1> SUFFICES ASSUME Init PROVE Inv
  OBVIOUS
<1>1. connects = 0 /\ ~open /\ c_state = "DISCONNECTED" /\ b_state = "DISCONNECTED"
  BY DEF Init, C!Init, B!Init
<1>2. Fresh
  BY DEF Init, C!Init, B!Init, Fresh
<1>3. Only("nowhere", "none")
  BY DEF Init, C!Init, B!Init, Only
<1>4. Chosen
  BY EmptySeq DEF Init, Chosen
<1>5. c_failure = "none" /\ b_failure = "none" /\ c_next_packet_id \in Ids
  BY SessionAssumption DEF Init, C!Init, B!Init, Ids
<1> QED BY <1>1, <1>2, <1>3, <1>4, <1>5 DEF Inv, Unconnected

\* Steps that leave the counts of calls and connections as they are
LEMMA SameConnection ==
  ASSUME Close \/ AppDisconnect \/ AppPublish \/ AppSubscriptions \/ ClientFlush
           \/ ClientReceive \/ BrokerFlush \/ BrokerReceive \/ BrokerHandle \/ BrokerDeliver
  PROVE  /\ connects' = connects
         /\ c_state = "DISCONNECTED" => c_state' = "DISCONNECTED"
         /\ ~Close => open' = open
         /\ ~AppPublish => published' = published
         /\ ~AppSubscriptions => requests' = requests
<1>1. CASE Close
  BY <1>1 DEF Close, cVars, histories
<1>2. CASE AppDisconnect
  BY <1>2 DEF AppDisconnect, C!Disconnect, histories
<1>3. CASE AppPublish
  BY <1>3 DEF AppPublish, C!Publish
<1>4. CASE AppSubscriptions
  BY <1>4 DEF AppSubscriptions, C!Subscribe, C!Unsubscribe, histories
<1>5. CASE ClientFlush
  BY <1>5 DEF ClientFlush, C!Flush, C!GetOutboundData, histories
<1>6. CASE ClientReceive
  BY <1>6 DEF ClientReceive
<1>7. CASE BrokerFlush
  BY <1>7 DEF BrokerFlush, cVars, histories
<1>8. CASE BrokerReceive
  BY <1>8 DEF BrokerReceive, cVars, histories
<1>9. CASE BrokerHandle
  BY <1>9 DEF BrokerHandle, cVars
<1>10. CASE BrokerDeliver
  BY <1>10 DEF BrokerDeliver, cVars
<1> QED
  BY <1>1, <1>2, <1>3, <1>4, <1>5, <1>6, <1>7, <1>8, <1>9, <1>10

\* A first connection that is over does not come back.
LEMMA OverStaysOver ==
  ASSUME Inv, ~First, Next
  PROVE  Inv' /\ ~First'
<1>1. connects \in Nat /\ connects # 0 /\ (connects = 1 => c_state = "DISCONNECTED")
  BY DEF Inv, First
<1>2. CASE Open
  <2>1. connects' = connects + 1
    BY <1>2 DEF Open
  <2> QED BY <1>1, <2>1 DEF Inv, First
<1>3. CASE ~Open
  <2>1. connects' = connects /\ (c_state = "DISCONNECTED" => c_state' = "DISCONNECTED")
    BY <1>3, SameConnection DEF Next
  <2> QED BY <1>1, <2>1 DEF Inv, First
<1> QED BY <1>2, <1>3

LEMMA UnconnectedStep ==
  ASSUME Inv, First, Unconnected, Next
  PROVE  Inv' /\ Connecting' /\ UNCHANGED <<c_next_packet_id, published, requests>>
<1>1. /\ c_failure = "none" /\ b_failure = "none" /\ c_next_packet_id \in Ids /\ Chosen
      /\ ~open /\ c_state = "DISCONNECTED" /\ b_state = "DISCONNECTED"
      /\ Only("nowhere", "none")
  BY DEF Inv, Unconnected
<1>2. b2c = <<>> /\ c2b = <<>> /\ inbox = <<>>
  BY <1>1, OnlyPlaces
<1>3. /\ ~Close /\ ~AppDisconnect /\ ~AppPublish /\ ~AppSubscriptions /\ ~ClientFlush
      /\ ~ClientReceive /\ ~BrokerFlush
  BY <1>1, <1>2 DEF Close, AppDisconnect, AppPublish, AppSubscriptions, ClientFlush,
     ClientReceive, BrokerFlush, C!Disconnect, C!Publish, C!Subscribe, C!Unsubscribe
<1>4. ~BrokerReceive /\ ~BrokerHandle /\ ~BrokerDeliver
  BY <1>1, <1>2 DEF BrokerReceive, BrokerHandle, BrokerDeliver, B!DeliverPublish
<1>5. Open
  BY <1>3, <1>4 DEF Next
<1>6. /\ Connecting' /\ connects' = 1 /\ open'
      /\ c_failure' = c_failure /\ b_failure' = "none"
      /\ UNCHANGED <<c_next_packet_id, published>>
  BY <1>5, OpenKeeps
<1>7. requests' = requests
  BY <1>5 DEF Open
<1> QED BY <1>1, <1>6, <1>7 DEF Inv, Chosen

LEMMA ConnectingStep ==
  ASSUME Inv, First, connects = 1, open, Connecting, Next
  PROVE  Inv' /\ UNCHANGED <<published, requests>> /\ (Advances \/ ClientReceive)
<1>1. c_failure = "none" /\ b_failure = "none" /\ c_next_packet_id \in Ids /\ Chosen
  BY DEF Inv
<1>2. c_state = "CONNECTING" /\ b_subscriptions = {}
  BY DEF Connecting, Fresh
<1>3. ~Open /\ ~Close /\ ~AppDisconnect /\ ~AppPublish /\ ~AppSubscriptions /\ ~BrokerDeliver
  BY <1>2 DEF Open, Close, AppDisconnect, AppPublish, AppSubscriptions, BrokerDeliver,
     C!Disconnect, C!Publish, C!Subscribe, C!Unsubscribe, B!DeliverPublish
<1>4. connects' = connects /\ open' = open /\ UNCHANGED <<published, requests>>
  BY <1>3, SameConnection DEF Next
<1>5. CASE ClientReceive
  <2>1. Connected' /\ c_next_packet_id' \in Ids /\ UNCHANGED <<c_failure, b_failure>>
    BY <1>1, <1>5, ConnectingEnds
  <2> QED BY <1>1, <1>4, <1>5, <2>1 DEF Inv, Chosen
<1>6. CASE ~ClientReceive
  <2>1. Advances
    BY <1>3, <1>6, ConnectingFlushes, ConnectingReceives, ConnectingAnswers DEF Next
  <2> QED BY <1>1, <1>4, <2>1 DEF Inv, Chosen, Advances
<1> QED BY <1>5, <1>6

LEMMA ConnectedStep ==
  ASSUME NoQoS2Delivery, Inv, First, connects = 1, open, Connected, Next,
         (AppPublish \/ AppSubscriptions) /\ C!GeneratePacketId => Unused(c_next_packet_id)
  PROVE  Inv'
<1>1. /\ c_failure = "none" /\ b_failure = "none" /\ c_next_packet_id \in Ids /\ Chosen
      /\ c_state = "CONNECTED"
  BY DEF Inv, Connected
<1>2. ~Open /\ ~Close
  BY <1>1 DEF Open, Close
<1>3. connects' = connects /\ open' = open /\ (~AppPublish => published' = published)
  BY <1>2, SameConnection DEF Next
<1>4. CASE AppDisconnect
  <2>1. ~First'
    BY <1>3, <1>4 DEF First, AppDisconnect, C!Disconnect
  <2> QED BY <1>3, <2>1 DEF Inv
<1>5. CASE AppPublish
  BY <1>1, <1>3, <1>5, AppPublishKeeps DEF Inv
<1>6. CASE AppSubscriptions
  <2>1. PICK S \in (SUBSET Patterns) \ {{}} : C!Subscribe(S) \/ C!Unsubscribe(S)
    BY <1>6 DEF AppSubscriptions
  <2>2. UNCHANGED <<bVars, streams>> /\ published' = published
    BY <1>6 DEF AppSubscriptions, histories
  <2>3. Connected' /\ c_next_packet_id' \in Ids /\ UNCHANGED <<c_failure, b_failure>>
    BY <1>1, <1>6, <2>1, <2>2, SubscribeKeeps, UnsubscribeKeeps
  <2> QED BY <1>1, <1>3, <2>2, <2>3 DEF Inv, Chosen
<1>7. CASE ClientFlush \/ ClientReceive \/ BrokerFlush \/ BrokerReceive \/ BrokerHandle
             \/ BrokerDeliver
  <2>1. Connected' /\ UNCHANGED <<c_failure, b_failure, c_next_packet_id>>
    BY <1>7, ClientReceiveKeeps, FlushesKeep, BrokerReceiveKeeps, BrokerHandleKeeps,
       BrokerDeliverKeeps
  <2>2. published' = published
    BY <1>7 DEF ClientFlush, ClientReceive, BrokerFlush, BrokerReceive, BrokerHandle,
       BrokerDeliver, histories
  <2> QED BY <1>1, <1>3, <2>1, <2>2 DEF Inv, Chosen
<1> QED BY <1>2, <1>4, <1>5, <1>6, <1>7 DEF Next

LEMMA StutterInv == Inv /\ UNCHANGED vars => Inv'
<1> SUFFICES ASSUME Inv, UNCHANGED vars PROVE Inv'
  OBVIOUS
<1>1. /\ UNCHANGED <<c_state, c_pending, c_out, c_failure, c_next_packet_id,
                     c_subscriptions, c_counts>>
      /\ UNCHANGED <<b_state, b_pending, b_out, b_failure, b_subscriptions>>
      /\ UNCHANGED <<open, c2b, b2c, inbox, connects, published>>
  BY DEF vars, cVars, bVars, streams, histories
<1>2. (First' => First) /\ (Unconnected => Unconnected') /\ (Chosen => Chosen')
  BY <1>1 DEF First, Unconnected, Fresh, Only, Chosen
<1>3. Connecting => Connecting'
  <2>1. \A place, p : Only(place, p) => Only(place, p)'
    BY <1>1 DEF Only
  <2>2. Handshake => Handshake'
    BY <1>1, <2>1 DEF Handshake, ConnectPacket
  <2> QED BY <1>1, <2>2 DEF Connecting, Fresh
<1>4. Connected => Connected'
  <2> SUFFICES ASSUME Connected PROVE Connected'
    OBVIOUS
  <2>1. Concerns(0) /\ Counted'
    BY <1>1, TouchKinds DEF Concerns, SameBut, Connected, Counted
  <2> QED BY <1>1, <2>1, ConnectedStaysSame
<1> QED BY <1>1, <1>2, <1>3, <1>4 DEF Inv

LEMMA NextInv ==
  ASSUME NoQoS2Delivery, Inv, [Next]_vars,
         First /\ (AppPublish \/ AppSubscriptions) /\ C!GeneratePacketId
           => Unused(c_next_packet_id)
  PROVE  Inv'
<1>1. CASE UNCHANGED vars
  BY <1>1, StutterInv
<1>2. CASE Next /\ ~First
  BY <1>2, OverStaysOver
<1>3. CASE Next /\ First
  <2>1. Unconnected \/ (connects = 1 /\ open /\ (Connecting \/ Connected))
    BY <1>3 DEF Inv
  <2> QED BY <1>3, <2>1, UnconnectedStep, ConnectingStep, ConnectedStep
<1> QED BY <1>1, <1>2, <1>3

-----------------------------------------------------------------------------
(* What the exchanges say of the two tables                                *)

LEMMA Agreement ==
  ASSUME Connected PROVE HandshakesAgree
<1> SUFFICES ASSUME NEW i \in DOMAIN b_pending,
                    ~b_pending[i].own, b_pending[i].packet.type = "PUBLISH"
             PROVE  \E j \in DOMAIN c_pending :
                      LET e == b_pending[i]
                          f == c_pending[j]
                      IN  /\ f.own
                          /\ f.packet.packet_id = e.packet.packet_id
                          /\ f.packet.msg = e.packet.msg
                          /\ e.ack_state = "RELEASED" => f.ack_state = "RELEASED"
                          /\ f.ack_state = "RELEASED" => e.ack_state # "UNACKNOWLEDGED"
  BY DEF HandshakesAgree
<1>1. PICK e : e = b_pending[i]
  OBVIOUS
<1>2. PICK id : id = e.packet.packet_id
  OBVIOUS
<1>3. e \in C!Entries /\ Under(b_pending, id) = {e}
  BY <1>1, <1>2, TableEntry DEF Connected
<1>4. id \in Ids
  BY <1>2, <1>3 DEF C!Entries, C!Publishes, C!SubscriptionRequests, C!PacketIds, Ids
<1>5. Exchange(id)
  BY <1>4 DEF Connected
<1>6. \A X, Y, places, p : Stage(id, X, Y, places, p) =>
        Under(c_pending, id) = X /\ Y = {e}
  BY <1>3 DEF Stage
<1>7. \A r : /\ Sent(r) # {e} /\ SentAccepted(r) # {e} /\ SentReleased(r) # {e}
  BY <1>1 DEF Sent, SentAccepted, SentReleased, Entry
<1>8. \A id2 : \A r \in Requests(id2, "UNSUBSCRIBE") \cup Requests(id2, "SUBSCRIBE") : Taken(r) # {e}
  BY <1>1 DEF Taken, Entry, Requests
<1>9. ~Idle(id)
  BY <1>6, <1>8 DEF Idle, Quiet
<1>10. ~Delivery(id)
  BY <1>6, <1>7 DEF Delivery, Deliver
<1>11. Request(id)
  BY <1>5, <1>9, <1>10 DEF Exchange
<1>12. PICK r : \/ Under(c_pending, id) = Sent(r) /\ (Taken(r) = {e} \/ TakenAccepted(r) = {e})
                \/ Under(c_pending, id) = SentReleased(r)
                     /\ (TakenAccepted(r) = {e} \/ TakenReleased(r) = {e})
  <2>1. \A r : Publish1(id, r) =>
          Under(c_pending, id) = Sent(r) /\ Taken(r) = {e}
    BY <1>6 DEF Publish1
  <2>2. \A r : Publish2(id, r) =>
          \/ Under(c_pending, id) = Sent(r) /\ (Taken(r) = {e} \/ TakenAccepted(r) = {e})
          \/ Under(c_pending, id) = SentReleased(r)
               /\ (TakenAccepted(r) = {e} \/ TakenReleased(r) = {e})
    BY <1>6 DEF Publish2
  <2>3. \A r \in Requests(id, "SUBSCRIBE") : ~Subscribe(id, r)
    BY <1>6, <1>8 DEF Subscribe
  <2>4. \A r \in Requests(id, "UNSUBSCRIBE") : ~Unsubscribe(id, r)
    BY <1>6, <1>8 DEF Unsubscribe
  <2> QED BY <1>11, <2>1, <2>2, <2>3, <2>4 DEF Request
<1>13. PICK f \in Under(c_pending, id) :
         \/ f = Entry(r, TRUE, "UNACKNOWLEDGED")
              /\ (e = Entry(r, FALSE, "UNACKNOWLEDGED") \/ e = Entry(r, FALSE, "ACKNOWLEDGED"))
         \/ f = Entry(r, TRUE, "RELEASED")
              /\ (e = Entry(r, FALSE, "ACKNOWLEDGED") \/ e = Entry(r, FALSE, "RELEASED"))
  BY <1>12 DEF Sent, SentReleased, Taken, TakenAccepted, TakenReleased
<1>14. PICK j \in DOMAIN c_pending : c_pending[j] = f
  BY DEF Under, Range
<1>15. /\ f.own /\ f.packet = e.packet
       /\ e.ack_state = "RELEASED" => f.ack_state = "RELEASED"
       /\ f.ack_state = "RELEASED" => e.ack_state # "UNACKNOWLEDGED"
  BY <1>13 DEF Entry
<1> QED BY <1>1, <1>14, <1>15

Places == {"c_out", "c2b", "inbox", "b_out", "b2c"}
QueueAt == [c_out |-> c_out, c2b |-> c2b, inbox |-> inbox, b_out |-> b_out, b2c |-> b2c]
Counts(place, id) == IF place = "inbox" THEN Due(id) ELSE Of(id)

LEMMA TokensAt ==
  ASSUME Queues, NEW id
  PROVE  \A t : t \in Tokens(id) <=>
           \E place \in Places : \E k \in DOMAIN QueueAt[place] :
             t = <<place, k>> /\ QueueAt[place][k] \in Counts(place, id)
<1>1. DOMAIN QueueAt = Places
  BY DEF QueueAt, Places
<1>2. \A place \in Places : QueueAt[place] \in Seq(Traffic)
  BY DEF QueueAt, Places, Queues
<1>3. ASSUME NEW place \in Places, NEW k \in DOMAIN QueueAt[place]
      PROVE  QueueAt[place][k] \in Counts(place, id) <=>
               /\ Carries(QueueAt[place][k], id)
               /\ place = "inbox" => NeedsAnswer(QueueAt[place][k])
  <2>1. QueueAt[place] \in Seq(Traffic)
    BY <1>2
  <2>2. QueueAt[place][k] \in Traffic
    BY <2>1, ElementType
  <2>3. QueueAt[place][k] \in C!Packets
    BY <2>2 DEF Traffic, C!Packets
  <2> QED BY <2>3 DEF Counts, Due, Of
<1>4. Tokens(id) = {t \in UNION {{place} \X DOMAIN QueueAt[place] : place \in Places} :
                      /\ Carries(QueueAt[t[1]][t[2]], id)
                      /\ t[1] = "inbox" => NeedsAnswer(QueueAt[t[1]][t[2]])}
  BY <1>1 DEF Tokens, QueueAt
<1> HIDE DEF QueueAt
<1>5. ASSUME NEW t \in Tokens(id)
      PROVE  \E place \in Places : \E k \in DOMAIN QueueAt[place] :
               t = <<place, k>> /\ QueueAt[place][k] \in Counts(place, id)
  <2>1. PICK place \in Places : t \in {place} \X DOMAIN QueueAt[place]
    BY <1>4
  <2>2. PICK k \in DOMAIN QueueAt[place] : t = <<place, k>>
    BY <2>1
  <2>3. /\ Carries(QueueAt[place][k], id)
        /\ place = "inbox" => NeedsAnswer(QueueAt[place][k])
    BY <1>4, <2>2
  <2> QED BY <1>3, <2>2, <2>3
<1>6. ASSUME NEW t, NEW place \in Places, NEW k \in DOMAIN QueueAt[place],
             t = <<place, k>>, QueueAt[place][k] \in Counts(place, id)
      PROVE  t \in Tokens(id)
  <2>1. t \in {place} \X DOMAIN QueueAt[place] /\ t[1] = place /\ t[2] = k
    BY <1>6
  <2>2. t \in UNION {{pl} \X DOMAIN QueueAt[pl] : pl \in Places}
    BY <2>1
  <2> QED BY <1>3, <1>4, <1>6, <2>1, <2>2
<1> QED BY <1>5, <1>6

LEMMA TokensOnWay ==
  ASSUME Queues, NEW id, NEW place, NEW p, OnWay(id, place, p)
  PROVE  /\ place \in Places => Cardinality(Tokens(id)) = 1
         /\ place \notin Places => Cardinality(Tokens(id)) = 0
<1>1. \A pl \in Places : Holds(QueueAt[pl], Counts(pl, id), place = pl, p)
  BY DEF OnWay, QueueAt, Places, Counts
<1> HIDE DEF QueueAt, Places, Counts
<1>2. ASSUME NEW pl \in Places, pl # place PROVE None(QueueAt[pl], Counts(pl, id))
  BY <1>1, <1>2 DEF Holds
<1>3. CASE place \in Places
  <2>1. Sole(QueueAt[place], Counts(place, id), p)
    BY <1>1, <1>3 DEF Holds
  <2>2. PICK k \in DOMAIN QueueAt[place] :
          /\ QueueAt[place][k] \in Counts(place, id)
          /\ \A l \in DOMAIN QueueAt[place] :
               l # k => QueueAt[place][l] \notin Counts(place, id)
    BY <2>1 DEF Sole
  <2>3. Tokens(id) = {<<place, k>>}
    BY <1>2, <1>3, <2>2, TokensAt DEF None
  <2> QED BY <1>3, <2>3, FS_Singleton
<1>4. CASE place \notin Places
  <2>1. Tokens(id) = {}
    BY <1>2, <1>4, TokensAt DEF None
  <2> QED BY <1>4, <2>1, FS_EmptySet
<1> QED BY <1>3, <1>4

LEMMA OneToken ==
  ASSUME Connected PROVE OneTokenPerRequest
<1> DEFINE none(id) == C!Slots(id) = {} \/ NeverCompleted(id)
<1> SUFFICES ASSUME NEW id \in Ids, id \notin DeliveryIds
             PROVE  Cardinality(Tokens(id)) = (IF none(id) THEN 0 ELSE 1)
  BY DEF OneTokenPerRequest, Ids
<1> DEFINE goal == Cardinality(Tokens(id)) = (IF none(id) THEN 0 ELSE 1)
           stuck(Y) == \E e \in Y : B!Awaits(e, "RELEASED")
<1>1. Queues /\ Exchange(id)
  BY DEF Connected
<1>2. none(id) <=> Under(c_pending, id) = {} \/ stuck(Under(b_pending, id))
  BY ClientSlots DEF NeverCompleted, B!Slots, Under, Range
<1> HIDE DEF none, stuck
<1>3. ASSUME NEW X, NEW Y, NEW places, NEW p, Stage(id, X, Y, places, p),
             \/ (X = {} \/ stuck(Y)) /\ places \cap Places = {}
             \/ X # {} /\ ~stuck(Y) /\ places \subseteq Places
      PROVE  goal
  <2>1. PICK place \in places : OnWay(id, place, p)
    BY <1>3 DEF Stage
  <2>2. Under(c_pending, id) = X /\ Under(b_pending, id) = Y
    BY <1>3 DEF Stage
  <2> QED BY <1>1, <1>2, <1>3, <2>1, <2>2, TokensOnWay
<1>4. /\ Up \subseteq Places /\ Down \subseteq Places /\ {"inbox"} \subseteq Places
      /\ {"nowhere"} \cap Places = {}
  BY DEF Up, Down, Places
<1>5. /\ \A r : Sent(r) # {} /\ SentReleased(r) # {}
      /\ \A r : ~stuck({}) /\ ~stuck(Taken(r)) /\ ~stuck(TakenAccepted(r))
  BY DEF Sent, SentReleased, Taken, TakenAccepted, Entry, B!Awaits, stuck
<1> HIDE DEF goal
<1>6. /\ \A Y, p : Stage(id, {}, Y, {"nowhere"}, p) => goal
      /\ \A r, Y, places, p : places \in {Up, Down, {"inbox"}}
                                 /\ Y \in {{}, Taken(r), TakenAccepted(r)} =>
           /\ Stage(id, Sent(r), Y, places, p) => goal
           /\ Stage(id, SentReleased(r), Y, places, p) => goal
  <2>1. \A Y, p : Stage(id, {}, Y, {"nowhere"}, p) => goal
    BY <1>3, <1>4
  <2>2. ASSUME NEW r, NEW Y, NEW places, NEW p, places \in {Up, Down, {"inbox"}},
               Y \in {{}, Taken(r), TakenAccepted(r)},
               Stage(id, Sent(r), Y, places, p) \/ Stage(id, SentReleased(r), Y, places, p)
        PROVE  goal
    <3>1. places \subseteq Places /\ ~stuck(Y)
      BY <1>4, <1>5, <2>2
    <3> QED BY <1>3, <1>5, <2>2, <3>1
  <2> QED BY <2>1, <2>2
<1>7. Idle(id) => goal
  BY <1>6 DEF Idle, Quiet
<1>8. \A r : Publish1(id, r) => goal
  BY <1>6 DEF Publish1
<1>9. ASSUME NEW r \in Publishes(id, 2), Publish2(id, r) PROVE goal
  <2>1. stuck(TakenReleased(r))
    BY PublishKinds DEF TakenReleased, Entry, B!Awaits, B!IsPublish, stuck
  <2>2. ASSUME Stage(id, SentReleased(r), TakenReleased(r), {"nowhere"}, "none") PROVE goal
    BY <1>3, <1>4, <2>1, <2>2
  <2> QED BY <1>6, <1>9, <2>2 DEF Publish2
<1>10. \A r : Subscribe(id, r) \/ Unsubscribe(id, r) => goal
  BY <1>6 DEF Subscribe, Unsubscribe
<1>11. goal
  BY <1>1, <1>7, <1>8, <1>9, <1>10 DEF Exchange, Request
<1> QED BY <1>11 DEF goal

-----------------------------------------------------------------------------
(* The theorems                                                            *)

LEMMA FirstConnection ==
  Inv => (First => NoFailure /\ HandshakesAgree /\ OneTokenPerRequest)
<1> SUFFICES ASSUME Inv, First PROVE NoFailure /\ HandshakesAgree /\ OneTokenPerRequest
  OBVIOUS
<1>1. NoFailure
  BY DEF Inv, NoFailure
<1>2. c_state = "CONNECTED" => Connected
  BY DEF Inv, Unconnected, Connecting
<1>3. HandshakesAgree /\ OneTokenPerRequest
  <2>1. CASE c_state = "CONNECTED"
    BY <1>2, <2>1, Agreement, OneToken
  <2>2. CASE c_state # "CONNECTED"
    BY <2>2 DEF HandshakesAgree, OneTokenPerRequest
  <2> QED BY <2>1, <2>2
<1> QED BY <1>1, <1>3

LEMMA FreshInv == ASSUME NoQoS2Delivery PROVE Spec /\ FreshIds => []Inv
<1>1. Init => Inv
  BY InitInv
<1>2. Inv /\ [Next]_vars
        /\ [First /\ (AppPublish \/ AppSubscriptions) /\ C!GeneratePacketId
              => Unused(c_next_packet_id)]_vars
      => Inv'
  <2> SUFFICES ASSUME Inv, [Next]_vars,
                      [First /\ (AppPublish \/ AppSubscriptions) /\ C!GeneratePacketId
                         => Unused(c_next_packet_id)]_vars
               PROVE  Inv'
    OBVIOUS
  <2>1. CASE UNCHANGED vars
    BY <2>1, StutterInv
  <2>2. CASE ~UNCHANGED vars
    BY <2>2, NextInv
  <2> QED BY <2>1, <2>2
<1> QED BY <1>1, <1>2, PTL DEF Spec, FreshIds

-----------------------------------------------------------------------------
(* Where the packet ids are enough                                         *)

\* The requests of a connection are fewer than the packet ids, and those
\* under which the broker delivers are not among the first.
EnoughIds ==
  /\ MaxRequests \in Nat
  /\ MaxPublishes + MaxRequests < MaxPacketId
  /\ \A id \in DeliveryIds : id > MaxPublishes + MaxRequests

\* The packet ids that were not given out yet are quiet.
Untouched ==
  IF c_state = "CONNECTED"
    THEN \A id \in Ids \ DeliveryIds : id >= c_next_packet_id => Quiet(id)
    ELSE c_next_packet_id = 1

Plenty ==
  First => /\ requests \in 0 .. MaxRequests /\ Len(published) <= MaxPublishes
           /\ c_next_packet_id - 1 <= Len(published) + requests
           /\ Untouched

LEMMA PlentyInit == EnoughIds /\ Init => Plenty
<1> SUFFICES ASSUME EnoughIds, Init PROVE Plenty
  OBVIOUS
<1>1. /\ c_state = "DISCONNECTED" /\ c_next_packet_id = 1 /\ requests = 0
      /\ published = <<>>
  BY DEF Init, C!Init
<1>2. Len(published) = 0 /\ 0 <= MaxPublishes
  BY <1>1, SessionAssumption
<1> QED BY <1>1, <1>2 DEF Plenty, Untouched, EnoughIds

\* There is a packet id left, and it is not in use.
LEMMA PlentyUnused ==
  ASSUME EnoughIds, Inv, Plenty, First, AppPublish \/ AppSubscriptions
  PROVE  c_next_packet_id < MaxPacketId /\ Unused(c_next_packet_id)
<1>1. /\ c_next_packet_id \in Ids /\ Len(published) \in Nat
      /\ MaxPacketId \in Nat /\ MaxPublishes \in Int
  BY LenProperties, SessionAssumption DEF Inv, Chosen
<1>2. Len(published) < MaxPublishes \/ requests < MaxRequests
  BY DEF AppPublish, AppSubscriptions
<1>3. c_next_packet_id <= MaxPublishes + MaxRequests
  BY <1>1, <1>2 DEF EnoughIds, Plenty, Ids
<1>4. c_next_packet_id \notin DeliveryIds
  BY <1>1, <1>3 DEF EnoughIds, Ids
<1>5. c_state = "CONNECTED"
  BY DEF AppPublish, AppSubscriptions, C!Publish, C!Subscribe, C!Unsubscribe
<1>6. Quiet(c_next_packet_id)
  BY <1>1, <1>4, <1>5 DEF Plenty, Untouched, Ids
<1>7. Unused(c_next_packet_id)
  BY <1>4, <1>6, ClientSlots, BrokerSlots DEF Unused, Quiet, Stage
<1> QED BY <1>1, <1>3, <1>7 DEF EnoughIds, Ids

\* A call of the application takes the next packet id, or none.
LEMMA PlentyCall ==
  ASSUME EnoughIds, Inv, Plenty, First, AppPublish \/ AppSubscriptions,
         GivesOut, c_next_packet_id < MaxPacketId, c_state = "CONNECTED", c_state' = "CONNECTED"
  PROVE  /\ Untouched'
         /\ c_next_packet_id' \in {c_next_packet_id, c_next_packet_id + 1}
<1>1. c_next_packet_id \in Nat /\ Ids \subseteq Nat
  BY DEF Inv, Ids
<1>2. \A id \in Ids \ DeliveryIds : id >= c_next_packet_id => Quiet(id)
  BY DEF Plenty, Untouched
<1>3. CASE UNCHANGED c_next_packet_id /\ StaysQuiet(Ids)
  BY <1>2, <1>3 DEF StaysQuiet, Untouched
<1>4. CASE C!GeneratePacketId /\ StaysQuiet(Ids \ {c_next_packet_id})
  <2>1. c_next_packet_id' = c_next_packet_id + 1
    BY <1>1, <1>4 DEF C!GeneratePacketId
  <2>2. ASSUME NEW id \in Ids \ DeliveryIds, id >= c_next_packet_id + 1
        PROVE  Quiet(id)'
    <3>1. id >= c_next_packet_id /\ id # c_next_packet_id
      BY <1>1, <2>2
    <3> QED BY <1>2, <1>4, <3>1 DEF StaysQuiet
  <2> QED BY <2>1, <2>2 DEF Untouched
<1> QED BY <1>3, <1>4 DEF GivesOut

LEMMA PlentyStep ==
  ASSUME NoQoS2Delivery, EnoughIds, Inv, Plenty, Next, First, First'
  PROVE  Plenty'
<1>1. /\ c_next_packet_id \in Ids /\ Chosen /\ Len(published) \in Nat
      /\ MaxPublishes \in Int /\ MaxRequests \in Nat
  BY LenProperties, SessionAssumption DEF Inv, Chosen, EnoughIds
<1>2. /\ requests \in 0 .. MaxRequests /\ Len(published) <= MaxPublishes
      /\ c_next_packet_id - 1 <= Len(published) + requests
      /\ Untouched
  BY DEF Plenty
<1>3. CASE Unconnected
  <2>1. Connecting' /\ UNCHANGED <<c_next_packet_id, published, requests>>
    BY <1>3, UnconnectedStep
  <2>2. c_next_packet_id = 1 /\ c_state' = "CONNECTING"
    BY <1>2, <1>3, <2>1 DEF Untouched, Unconnected, Connecting
  <2> QED BY <1>2, <2>1, <2>2 DEF Plenty, Untouched
<1>4. CASE connects = 1 /\ open /\ Connecting
  <2>1. UNCHANGED <<published, requests>> /\ (Advances \/ ClientReceive)
    BY <1>4, ConnectingStep
  <2>2. c_next_packet_id = 1
    BY <1>2, <1>4 DEF Untouched, Connecting
  <2>3. c_next_packet_id' = 1 /\ Untouched'
    <3>1. CASE Advances
      BY <2>2, <3>1 DEF Advances, Connecting, Untouched
    <3>2. CASE ClientReceive
      <4>1. Connected' /\ (\A id \in Ids : Quiet(id)') /\ c_next_packet_id' = 1
        BY <1>1, <1>4, <2>2, <3>2, ConnectingEnds
      <4> QED BY <4>1 DEF Connected, Untouched
    <3> QED BY <2>1, <3>1, <3>2
  <2> QED BY <1>2, <2>1, <2>2, <2>3 DEF Plenty
<1>5. CASE connects = 1 /\ open /\ Connected
  <2>1. /\ c_state = "CONNECTED" /\ ~Open /\ ~Close
    BY <1>5 DEF Connected, Open, Close
  <2>2. ~AppDisconnect
    <3>1. AppDisconnect => c_state' = "DISCONNECTED" /\ connects' = 1
      BY <1>5 DEF AppDisconnect, C!Disconnect
    <3> QED BY <3>1 DEF First
  <2>3. CASE AppPublish \/ AppSubscriptions
    <3>1. c_next_packet_id < MaxPacketId /\ Unused(c_next_packet_id)
      BY <2>3, PlentyUnused
    <3>2. GivesOut /\ Connected'
      <4>1. CASE AppPublish
        BY <1>1, <1>5, <3>1, <4>1, AppPublishKeeps
      <4>2. CASE AppSubscriptions
        <5>1. PICK S \in (SUBSET Patterns) \ {{}} : C!Subscribe(S) \/ C!Unsubscribe(S)
          BY <4>2 DEF AppSubscriptions
        <5>2. UNCHANGED <<bVars, streams>>
          BY <4>2 DEF AppSubscriptions
        <5> QED BY <1>1, <1>5, <3>1, <5>1, <5>2, SubscribeKeeps, UnsubscribeKeeps
      <4> QED BY <2>3, <4>1, <4>2
    <3>3. /\ Untouched' /\ c_next_packet_id' \in {c_next_packet_id, c_next_packet_id + 1}
      BY <2>1, <2>3, <3>1, <3>2, PlentyCall DEF Connected
    <3>4. \/ /\ Len(published') = Len(published) + 1 /\ Len(published) < MaxPublishes
             /\ requests' = requests
          \/ published' = published /\ requests' = requests + 1 /\ requests < MaxRequests
      <4>1. CASE AppPublish
        <5>1. PICK m, q : published' = Append(published, Publication(m, q))
          BY <4>1 DEF AppPublish
        <5>2. Len(published') = Len(published) + 1
          BY <1>1, <5>1 DEF Chosen
        <5> QED BY <4>1, <5>2 DEF AppPublish
      <4>2. CASE AppSubscriptions
        BY <4>2 DEF AppSubscriptions, histories
      <4> QED BY <2>3, <4>1, <4>2
    <3> QED BY <1>1, <1>2, <3>3, <3>4 DEF Plenty, Ids
  <2>4. CASE ~(AppPublish \/ AppSubscriptions)
    <3>1. /\ Connected' /\ StaysQuiet(Ids \ DeliveryIds) /\ c_next_packet_id' = c_next_packet_id
      BY <1>5, <2>1, <2>2, <2>4, ClientReceiveKeeps, FlushesKeep, BrokerReceiveKeeps,
         BrokerHandleKeeps, BrokerDeliverKeeps DEF Next
    <3>2. UNCHANGED <<published, requests>>
      BY <2>1, <2>4, SameConnection DEF Next
    <3>3. Untouched'
      BY <1>2, <2>1, <3>1 DEF Untouched, StaysQuiet, Connected
    <3> QED BY <1>2, <3>1, <3>2, <3>3 DEF Plenty
  <2> QED BY <2>3, <2>4
<1> QED BY <1>3, <1>4, <1>5 DEF Inv

LEMMA PlentyStutter == Plenty /\ UNCHANGED vars => Plenty'
<1> SUFFICES ASSUME Plenty, UNCHANGED vars PROVE Plenty'
  OBVIOUS
<1>1. /\ UNCHANGED <<c_state, c_pending, c_out, c_next_packet_id>>
      /\ UNCHANGED <<b_pending, b_out, c2b, b2c, inbox, connects, published, requests>>
  BY DEF vars, cVars, bVars, streams, histories
<1>2. ASSUME NEW id, Quiet(id) PROVE Quiet(id)'
  BY <1>1, <1>2 DEF Quiet, Stage, OnWay
<1> QED BY <1>1, <1>2 DEF Plenty, Untouched, First

LEMMA PlentyNext ==
  ASSUME NoQoS2Delivery, EnoughIds, Inv /\ Plenty, [Next]_vars
  PROVE  /\ (Inv /\ Plenty)'
         /\ First /\ (AppPublish \/ AppSubscriptions) /\ C!GeneratePacketId
              => Unused(c_next_packet_id)
<1>1. First /\ (AppPublish \/ AppSubscriptions) /\ C!GeneratePacketId
        => Unused(c_next_packet_id)
  BY PlentyUnused
<1>2. Inv'
  BY <1>1, NextInv
<1>3. Plenty'
  <2>1. CASE UNCHANGED vars
    BY <2>1, PlentyStutter
  <2>2. CASE Next /\ ~First
    BY <2>2, OverStaysOver DEF Plenty
  <2>3. CASE Next /\ First
    <3>1. CASE First'
      BY <2>3, <3>1, PlentyStep
    <3>2. CASE ~First'
      BY <3>2 DEF Plenty
    <3> QED BY <3>1, <3>2
  <2> QED BY <2>1, <2>2, <2>3
<1> QED BY <1>1, <1>2, <1>3

(* Where a connection has fewer requests than there are packet ids each    *)
(* one that _generate_packet_id gives out is in use at neither end: the    *)
(* assumption of the theorems below holds there.                           *)
THEOREM EnoughIdsStayFresh == ASSUME NoQoS2Delivery, EnoughIds PROVE Spec => FreshIds
<1>1. Init => Inv /\ Plenty
  BY InitInv, PlentyInit
<1>2. Inv /\ Plenty /\ [Next]_vars => (Inv /\ Plenty)'
  BY PlentyNext
<1>3. Inv /\ Plenty /\ [Next]_vars
        => [First /\ (AppPublish \/ AppSubscriptions) /\ C!GeneratePacketId
              => Unused(c_next_packet_id)]_vars
  BY PlentyNext
<1> QED BY <1>1, <1>2, <1>3, PTL DEF Spec, FreshIds

(* On a first connection neither end ever raises for a packet of the other *)
(* one, however the directions, the calls and the flushes interleave: the  *)
(* entry that on_packet looks up in _pending_packets is there, in the      *)
(* state that the packet answers, and no packet id is entered twice        *)
(* (_base_client_state_machine.py, _pop_pending_packet, _add_pending_packet). *)
THEOREM FirstConnectionNeverFails ==
  ASSUME NoQoS2Delivery PROVE Spec /\ FreshIds => [](First => NoFailure)
<1>1. Inv => (First => NoFailure)
  BY FirstConnection
<1> QED BY <1>1, FreshInv, PTL

(* What the broker has in _pending_packets of a publish of the client, the *)
(* client has in its own: the same message, and at most one step of the    *)
(* handshake apart.                                                        *)
THEOREM FirstConnectionAgrees ==
  ASSUME NoQoS2Delivery PROVE Spec /\ FreshIds => [](First => HandshakesAgree)
<1>1. Inv => (First => HandshakesAgree)
  BY FirstConnection
<1> QED BY <1>1, FreshInv, PTL

(* Each packet id in the client's _pending_packets has one packet on its   *)
(* way or waiting for the broker's answer, and a packet id that is free    *)
(* has none: no request is left without its answer, none is answered twice. *)
THEOREM FirstConnectionAnswers ==
  ASSUME NoQoS2Delivery PROVE Spec /\ FreshIds => [](First => OneTokenPerRequest)
<1>1. Inv => (First => OneTokenPerRequest)
  BY FirstConnection
<1> QED BY <1>1, FreshInv, PTL

(* Put together: where the packet ids are enough for the calls of the      *)
(* application, no state of a first connection breaks any of the three.    *)
THEOREM EnoughIdsAreSound ==
  ASSUME NoQoS2Delivery, EnoughIds
  PROVE  Spec => [](First => NoFailure /\ HandshakesAgree /\ OneTokenPerRequest)
<1>1. Inv => (First => NoFailure /\ HandshakesAgree /\ OneTokenPerRequest)
  BY FirstConnection
<1> QED BY <1>1, EnoughIdsStayFresh, FreshInv, PTL

-----------------------------------------------------------------------------
(* What the two ends take for subscribed                                   *)

\* The packet p asks for the pattern x, or asks to drop it.
Wants(p, x) == p.type = "SUBSCRIBE" /\ x \in p.patterns
Drops(p, x) == p.type = "UNSUBSCRIBE" /\ x \in p.patterns

\* A packet of q does.
Wanted(q, x)  == \E k \in DOMAIN q : Wants(q[k], x)
Dropped(q, x) == \E k \in DOMAIN q : Drops(q[k], x)

\* No packet of q drops what one before it wants.
WantsLast(q, x) == \A i, j \in DOMAIN q : i < j /\ Wants(q[i], x) => ~Drops(q[j], x)

\* The packets that the broker has yet to be fed with
Upward == c2b \o c_out

(* The pattern x is subscribed to at the client just if the broker will    *)
(* grant it, or has granted it for good.  What the broker has yet to grant *)
(* is not dropped behind: an UNSUBSCRIBE is applied when it is fed, before *)
(* the SUBSCRIBEs of its chunk are answered.                               *)
AgreesOn(x) ==
  /\ x \in c_subscriptions <=>
       Wanted(inbox, x) \/ Wanted(Upward, x) \/ (x \in b_subscriptions /\ ~Dropped(Upward, x))
  /\ WantsLast(Upward, x)
  /\ Wanted(inbox, x) => ~Dropped(Upward, x)

Agreeing ==
  /\ c_subscriptions \subseteq Patterns /\ b_subscriptions \subseteq Patterns
  /\ \A x \in Patterns : AgreesOn(x)

LEMMA RequestsAppend ==
  ASSUME NEW q \in Seq(Traffic), NEW e \in Traffic, NEW x
  PROVE  /\ Wanted(Append(q, e), x) <=> Wanted(q, x) \/ Wants(e, x)
         /\ Dropped(Append(q, e), x) <=> Dropped(q, x) \/ Drops(e, x)
         /\ WantsLast(q, x) /\ ~(Wanted(q, x) /\ Drops(e, x)) => WantsLast(Append(q, e), x)
<1> DEFINE r == Append(q, e)
<1>1. /\ \A k \in DOMAIN q : k \in DOMAIN r /\ r[k] = q[k]
      /\ \A k \in DOMAIN r : k \in DOMAIN q \/ (k = Len(q) + 1 /\ r[k] = e)
      /\ Len(q) + 1 \in DOMAIN r /\ r[Len(q) + 1] = e
  BY AppendElements
<1>2. Len(q) \in Nat /\ \A k \in DOMAIN q : k \in Nat /\ k <= Len(q)
  BY DomainOfSeq
<1> HIDE DEF r
<1>3. Wanted(r, x) <=> Wanted(q, x) \/ Wants(e, x)
  BY <1>1 DEF Wanted
<1>4. Dropped(r, x) <=> Dropped(q, x) \/ Drops(e, x)
  BY <1>1 DEF Dropped
<1>5. ASSUME WantsLast(q, x), ~(Wanted(q, x) /\ Drops(e, x)) PROVE WantsLast(r, x)
  <2> SUFFICES ASSUME NEW i \in DOMAIN r, NEW j \in DOMAIN r, i < j, Wants(r[i], x)
               PROVE  ~Drops(r[j], x)
    BY DEF WantsLast
  <2>1. i \in DOMAIN q
    BY <1>1, <1>2
  <2>2. CASE j \in DOMAIN q
    BY <1>1, <1>5, <2>1, <2>2 DEF WantsLast
  <2>3. CASE j \notin DOMAIN q
    BY <1>1, <1>5, <2>1, <2>3 DEF Wanted
  <2> QED BY <2>2, <2>3
<1> QED BY <1>3, <1>4, <1>5 DEF r

LEMMA RequestsTail ==
  ASSUME NEW q \in Seq(Traffic), q # <<>>, NEW x
  PROVE  /\ Wanted(q, x) <=> Wants(Head(q), x) \/ Wanted(Tail(q), x)
         /\ Dropped(q, x) <=> Drops(Head(q), x) \/ Dropped(Tail(q), x)
         /\ WantsLast(q, x) => /\ WantsLast(Tail(q), x)
                               /\ Wants(Head(q), x) => ~Dropped(Tail(q), x)
<1> DEFINE r == Tail(q)
<1>1. /\ 1 \in DOMAIN q /\ Head(q) = q[1]
      /\ \A k \in DOMAIN r : k + 1 \in DOMAIN q /\ r[k] = q[k + 1]
      /\ \A k \in DOMAIN q : k # 1 => k - 1 \in DOMAIN r
      /\ r \in Seq(Traffic)
  BY TailElements
<1> HIDE DEF r
<1>2. /\ \A k \in DOMAIN q : k \in Nat
      /\ \A k \in DOMAIN r : k \in Nat /\ k >= 1
  BY <1>1, DomainOfSeq
<1>3. \A k \in DOMAIN q : k # 1 => k - 1 \in DOMAIN r /\ q[k] = r[k - 1]
  <2> SUFFICES ASSUME NEW k \in DOMAIN q, k # 1 PROVE k - 1 \in DOMAIN r /\ q[k] = r[k - 1]
    OBVIOUS
  <2>1. k - 1 \in DOMAIN r /\ k - 1 + 1 = k
    BY <1>1, <1>2
  <2> QED BY <1>1, <2>1
<1>4. Wanted(q, x) <=> Wants(Head(q), x) \/ Wanted(r, x)
  BY <1>1, <1>3 DEF Wanted
<1>5. Dropped(q, x) <=> Drops(Head(q), x) \/ Dropped(r, x)
  BY <1>1, <1>3 DEF Dropped
<1>6. ASSUME WantsLast(q, x) PROVE WantsLast(r, x)
  <2> SUFFICES ASSUME NEW i \in DOMAIN r, NEW j \in DOMAIN r, i < j, Wants(r[i], x)
               PROVE  ~Drops(r[j], x)
    BY DEF WantsLast
  <2>1. i + 1 \in DOMAIN q /\ j + 1 \in DOMAIN q /\ i + 1 < j + 1
        /\ r[i] = q[i + 1] /\ r[j] = q[j + 1]
    BY <1>1, <1>2
  <2> QED BY <1>6, <2>1 DEF WantsLast
<1>7. ASSUME WantsLast(q, x), Wants(Head(q), x) PROVE ~Dropped(r, x)
  <2> SUFFICES ASSUME NEW j \in DOMAIN r PROVE ~Drops(r[j], x)
    BY DEF Dropped
  <2>1. j + 1 \in DOMAIN q /\ 1 < j + 1 /\ r[j] = q[j + 1]
    BY <1>1, <1>2
  <2> QED BY <1>1, <1>7, <2>1 DEF WantsLast
<1> QED BY <1>4, <1>5, <1>6, <1>7 DEF r

LEMMA UpwardParts ==
  ASSUME Queues
  PROVE  /\ Upward \in Seq(Traffic)
         /\ Upward \o <<>> = Upward
         /\ \A e \in Traffic : c2b \o Append(c_out, e) = Append(Upward, e)
         /\ c2b # <<>> => /\ Upward # <<>> /\ Head(Upward) = Head(c2b)
                          /\ Tail(Upward) = Tail(c2b) \o c_out
<1>1. c2b \in Seq(Traffic) /\ c_out \in Seq(Traffic)
  BY DEF Queues
<1>2. Upward \in Seq(Traffic) /\ Upward \o <<>> = Upward
  BY <1>1, ConcatProperties, ConcatEmptySeq DEF Upward
<1>3. \A e \in Traffic : c2b \o Append(c_out, e) = Append(Upward, e)
  BY <1>1, ConcatAppend DEF Upward
<1>4. c2b # <<>> => /\ Upward # <<>> /\ Head(Upward) = Head(c2b)
                    /\ Tail(Upward) = Tail(c2b) \o c_out
  BY <1>1, ConcatHeadTail DEF Upward
<1> QED BY <1>2, <1>3, <1>4

\* A SUBSCRIBE that is on its way up is pending at the client.
LEMMA SubscribePending ==
  ASSUME Connected, NEW q \in {inbox, c2b, c_out}, NEW k \in DOMAIN q,
         q[k].type = "SUBSCRIBE"
  PROVE  \E i \in DOMAIN c_pending : c_pending[i].packet = q[k]
<1>1. PICK p : p = q[k]
  OBVIOUS
<1>2. Queues /\ \A id \in Ids : Exchange(id)
  BY DEF Connected
<1>3. q \in Seq(Traffic)
  BY <1>2 DEF Queues
<1>4. p \in Traffic
  BY <1>1, <1>3, ElementType
<1>5. PICK id : id = p.packet_id
  OBVIOUS
<1>6. id \in Ids /\ p \in Of(id) /\ p \in Due(id) /\ p.type = "SUBSCRIBE"
  BY <1>1, <1>4, <1>5, TrafficKinds DEF Due, NeedsAnswer
<1>7. \A X, Y, places, x : Stage(id, X, Y, places, x) =>
        x = p /\ \E place \in places : place \in {"c_out", "c2b", "inbox"}
  <2> SUFFICES ASSUME NEW x, NEW place, OnWay(id, place, x)
               PROVE  x = p /\ place \in {"c_out", "c2b", "inbox"}
    BY DEF Stage
  <2>1. CASE q = c_out
    BY <1>1, <1>6, <2>1 DEF OnWay, Holds, None, Sole
  <2>2. CASE q = c2b
    BY <1>1, <1>6, <2>2 DEF OnWay, Holds, None, Sole
  <2>3. CASE q = inbox
    BY <1>1, <1>6, <2>3 DEF OnWay, Holds, None, Sole
  <2> QED BY <2>1, <2>2, <2>3
<1>8. \A X, Y, x : ~Stage(id, X, Y, Down, x) /\ ~Stage(id, X, Y, {"nowhere"}, x)
  BY <1>7 DEF Down
<1>9. \A X, Y, places, x : Stage(id, X, Y, places, x) => x.type = "SUBSCRIBE"
  BY <1>6, <1>7
<1>10. ~Idle(id)
  BY <1>8 DEF Idle, Quiet
<1>11. ~Delivery(id)
  <2>1. \A r : ~Stage(id, {}, SentAccepted(r), Up, Ok("PUBACK", id))
    BY <1>6, <1>9, AckKinds
  <2> QED BY <1>8, <2>1 DEF Delivery, Deliver
<1>12. PICK r \in Requests(id, "SUBSCRIBE") : Subscribe(id, r)
  <2>1. \A r \in Publishes(id, 1) : ~Publish1(id, r)
    BY <1>6, <1>8, <1>9, PublishKinds DEF Publish1
  <2>2. \A r \in Publishes(id, 2) : ~Publish2(id, r)
    BY <1>6, <1>8, <1>9, PublishKinds, AckKinds DEF Publish2
  <2>3. \A r \in Requests(id, "UNSUBSCRIBE") : ~Unsubscribe(id, r)
    BY <1>6, <1>8, <1>9, RequestKinds DEF Unsubscribe
  <2> QED BY <1>2, <1>6, <1>10, <1>11, <2>1, <2>2, <2>3 DEF Exchange, Request
<1>13. Under(c_pending, id) = Sent(r) /\ r = p
  <2>1. PICK Y, places : Stage(id, Sent(r), Y, places, r)
    BY <1>8, <1>12 DEF Subscribe
  <2> QED BY <1>7, <2>1 DEF Stage
<1>14. Entry(p, TRUE, "UNACKNOWLEDGED") \in Range(c_pending)
  BY <1>13 DEF Sent, Under
<1>15. PICK i \in DOMAIN c_pending : c_pending[i] = Entry(p, TRUE, "UNACKNOWLEDGED")
  BY <1>14 DEF Range
<1>16. c_pending[i].packet = p
  BY <1>15 DEF Entry
<1> QED BY <1>1, <1>16

-----------------------------------------------------------------------------
(* What a step does to the requests on their way                           *)

Neutral == {p \in Traffic : p.type \notin {"SUBSCRIBE", "UNSUBSCRIBE"}}

LEMMA AgreeingSame ==
  ASSUME Agreeing, UNCHANGED <<b_subscriptions, c_subscriptions, c_out, c2b, inbox>>
  PROVE  Agreeing'
BY DEF Agreeing, AgreesOn, Wanted, Dropped, WantsLast, Upward

\* A request is sent for what it changes, and drops nothing that is on its way up.
LEMMA AgreeingSent ==
  ASSUME Queues, Agreeing, NEW e \in Traffic, c_out' = Append(c_out, e),
         NEW S \in SUBSET Patterns, c_subscriptions' = S,
         \A x \in Patterns :
           /\ x \in S <=> Wants(e, x) \/ (x \in c_subscriptions /\ ~Drops(e, x))
           /\ Drops(e, x) => ~Wanted(inbox, x) /\ ~Wanted(Upward, x),
         UNCHANGED <<b_subscriptions, c2b, inbox>>
  PROVE  Agreeing'
<1>1. Upward' = Append(Upward, e) /\ Upward \in Seq(Traffic)
  BY UpwardParts DEF Upward
<1> SUFFICES ASSUME NEW x \in Patterns PROVE AgreesOn(x)'
  BY DEF Agreeing
<1>2. AgreesOn(x)
  BY DEF Agreeing
<1>3. /\ Wanted(Upward', x) <=> Wanted(Upward, x) \/ Wants(e, x)
      /\ Dropped(Upward', x) <=> Dropped(Upward, x) \/ Drops(e, x)
      /\ WantsLast(Upward, x) /\ ~(Wanted(Upward, x) /\ Drops(e, x)) => WantsLast(Upward', x)
  BY <1>1, RequestsAppend
<1>4. ~(Wants(e, x) /\ Drops(e, x))
  BY DEF Wants, Drops
<1>5. Wanted(inbox', x) <=> Wanted(inbox, x)
  OBVIOUS
<1> QED BY <1>2, <1>3, <1>4, <1>5 DEF AgreesOn

LEMMA AgreeingNeutral ==
  ASSUME Queues, Agreeing, NEW e \in Neutral, c_out' = Append(c_out, e),
         UNCHANGED <<b_subscriptions, c_subscriptions, c2b, inbox>>
  PROVE  Agreeing'
<1>1. e \in Traffic /\ \A x : ~Wants(e, x) /\ ~Drops(e, x)
  BY DEF Neutral, Wants, Drops
<1>2. c_subscriptions \in SUBSET Patterns
  BY DEF Agreeing
<1> QED BY <1>1, <1>2, AgreeingSent

LEMMA NeutralAcks ==
  ASSUME NEW id \in Ids
  PROVE  /\ \A type \in {"PUBACK", "PUBREC", "PUBREL", "PUBCOMP"} : Ok(type, id) \in Neutral
         /\ \A type \in {"PUBREL", "PUBCOMP"} :
              C!Ack(type, id, "PACKET_IDENTIFIER_NOT_FOUND") \in Neutral
         /\ \A type \in {"PUBACK", "PUBREC"} :
              C!Ack(type, id, "PACKET_IDENTIFIER_IN_USE") \in Neutral
BY DEF Neutral, Traffic, C!Acks, Ok, C!Ack, Ids, C!PacketIds, C!ReceiveReasons, C!ReleaseReasons

LEMMA ClientAnswers ==
  ASSUME Connected, ClientReceive
  PROVE  /\ UNCHANGED c_subscriptions
         /\ UNCHANGED c_out \/ \E e \in Neutral : c_out' = Append(c_out, e)
<1> DEFINE Claim == /\ UNCHANGED c_subscriptions
                    /\ UNCHANGED c_out \/ \E e \in Neutral : c_out' = Append(c_out, e)
<1>1. PICK p \in Traffic : p = Head(b2c) /\ b2c # <<>> /\ C!Receive(p)
  BY TailElements DEF Connected, Queues, ClientReceive
<1>2. Queues /\ c_state = "CONNECTED" /\ \A id \in Ids : Exchange(id)
  BY DEF Connected
<1>3. CASE p.type = "PUBLISH" /\ p.qos = 0
  <2>1. C!ReceivePublish(p) /\ UNCHANGED c_subscriptions
    BY <1>1, <1>2, <1>3, ClientAccepts
  <2>2. ~(p.qos > 0)
    BY <1>3
  <2> QED BY <2>1, <2>2 DEF C!ReceivePublish
<1>4. CASE p.packet_id \in Ids /\ p \in Of(p.packet_id)
  <2>1. PICK id : id = p.packet_id
    OBVIOUS
  <2>2. ArrivesDown(id, p)
    BY <1>1, <1>2, <1>4, <2>1, ClientArrival
  <2>3. p.type \in {"PUBACK", "PUBREC", "PUBCOMP", "SUBACK", "UNSUBACK", "PUBLISH", "PUBREL"}
    BY <1>4, <2>1, <2>2, AckKinds, PublishKinds DEF ArrivesDown
  <2>4. \/ /\ \/ p.type = "PUBLISH" /\ C!ReceivePublish(p)
              \/ p.type = "PUBACK" /\ C!ReceivePubAck(p)
              \/ p.type = "PUBREC" /\ C!ReceivePubRec(p)
              \/ p.type = "PUBREL" /\ C!ReceivePubRel(p)
              \/ p.type = "PUBCOMP" /\ C!ReceivePubComp(p)
           /\ UNCHANGED c_subscriptions
        \/ p.type = "SUBACK" /\ C!ReceiveSubAck(p)
        \/ p.type = "UNSUBACK" /\ C!ReceiveUnsubAck(p)
    BY <1>1, <1>2, <2>3, ClientAccepts
  <2>5. id \in Ids
    BY <1>4, <2>1
  <2>6. \A e \in Neutral : C!Send(e) => \E f \in Neutral : c_out' = Append(c_out, f)
    BY DEF C!Send
  <2>7. ASSUME p.type = "PUBLISH", C!ReceivePublish(p), UNCHANGED c_subscriptions PROVE Claim
    <3>1. CASE UNCHANGED c_out
      BY <2>7, <3>1
    <3>2. CASE C!AddPending(p, FALSE)
      <4>1. C!InUse(p) \in Neutral
        BY <2>1, <2>5, <2>7, NeutralAcks DEF C!InUse
      <4>2. UNCHANGED c_out \/ c_out' = Append(c_out, C!InUse(p))
        BY <3>2 DEF C!AddPending
      <4> QED BY <2>7, <4>1, <4>2
    <3>3. CASE C!Send(C!Ack("PUBACK", id, "SUCCESS")) \/ C!Send(C!Ack("PUBREC", id, "SUCCESS"))
      BY <2>5, <2>6, <2>7, <3>3, NeutralAcks DEF Ok
    <3> QED BY <2>1, <2>7, <3>1, <3>2, <3>3 DEF C!ReceivePublish
  <2>8. ASSUME p.type \in {"PUBREC", "PUBREL"}, UNCHANGED c_subscriptions,
               C!ReceivePubRec(p) \/ C!ReceivePubRel(p)
        PROVE  Claim
    <3>1. \/ UNCHANGED c_out
          \/ C!Send(C!Ack("PUBREL", id, "PACKET_IDENTIFIER_NOT_FOUND"))
          \/ C!Send(C!Ack("PUBCOMP", id, "PACKET_IDENTIFIER_NOT_FOUND"))
          \/ C!Send(C!Ack("PUBREL", id, "SUCCESS"))
          \/ C!Send(C!Ack("PUBCOMP", id, "SUCCESS"))
      BY <2>1, <2>8 DEF C!ReceivePubRec, C!ReceivePubRel, C!Fail
    <3> QED BY <2>5, <2>6, <2>8, <3>1, NeutralAcks DEF Ok
  <2>9. ASSUME UNCHANGED c_subscriptions, C!ReceivePubAck(p) \/ C!ReceivePubComp(p)
        PROVE  Claim
    BY <2>9 DEF C!ReceivePubAck, C!ReceivePubComp, C!Fail
  <2>10. ASSUME C!ReceiveSubAck(p) \/ C!ReceiveUnsubAck(p) PROVE Claim
    BY <2>10 DEF C!ReceiveSubAck, C!ReceiveUnsubAck, C!ReceiveRequestAck, C!clientVars, C!vars,
       C!baseVars
  <2> QED BY <2>4, <2>7, <2>8, <2>9, <2>10
<1> QED BY <1>1, <1>3, <1>4, TrafficKinds

\* Only an UNSUBSCRIBE is applied when it is fed, and it is never refused.
LEMMA BrokerTakes ==
  ASSUME Connected, BrokerReceive
  PROVE  /\ c2b # <<>> /\ Head(c2b) \in Traffic
         /\ b_subscriptions' = IF Head(c2b).type = "UNSUBSCRIBE"
                                 THEN b_subscriptions \ Head(c2b).patterns ELSE b_subscriptions
<1>1. PICK p \in Traffic : p = Head(c2b) /\ c2b # <<>> /\ B!Receive(p)
  BY TailElements DEF Connected, Queues, BrokerReceive
<1>2. Queues /\ b_state = "CONNECTED" /\ \A id \in Ids : Exchange(id)
  BY DEF Connected
<1>3. CASE p.type # "UNSUBSCRIBE"
  <2>1. UNCHANGED b_subscriptions
    BY <1>1, <1>3 DEF B!Receive, B!ReceiveRefused, B!ReceiveAccepted, B!ReceiveConnect,
       B!ReceivePingReq, B!ReceiveSubscribe, B!ReceiveUnsubscribe
  <2> QED BY <1>1, <1>3, <2>1
<1>4. CASE p.type = "UNSUBSCRIBE"
  <2>1. PICK id : id = p.packet_id
    OBVIOUS
  <2>2. id \in Ids /\ p \in Of(id)
    BY <1>4, <2>1, TrafficKinds
  <2>3. ArrivesUp(id, p)
    BY <1>1, <1>2, <2>2, BrokerArrival
  <2>4. Stage(id, Sent(p), {}, {"c2b"}, p)
    BY <1>4, <2>2, <2>3, AckKinds DEF ArrivesUp
  <2>5. B!Slots(id) = {}
    BY <2>4, BrokerSlots DEF Stage
  <2>6. B!ReceiveUnsubscribe(p)
    BY <1>1, <1>2, <1>4, BrokerAccepts
  <2>7. b_subscriptions' = b_subscriptions \ p.patterns
    BY <2>1, <2>5, <2>6 DEF B!ReceiveUnsubscribe
  <2> QED BY <1>1, <1>4, <2>7
<1> QED BY <1>3, <1>4

\* A SUBSCRIBE is applied when it is answered, and all of it.
LEMMA BrokerGrants ==
  ASSUME Connected, BrokerHandle
  PROVE  /\ inbox # <<>>
         /\ b_subscriptions' = IF Head(inbox).type = "SUBSCRIBE"
                                 THEN b_subscriptions \cup Head(inbox).patterns
                                 ELSE b_subscriptions
<1>1. PICK p \in Traffic : p = Head(inbox) /\ inbox # <<>>
  BY TailElements DEF Connected, Queues, BrokerHandle
<1>2. Queues /\ b_state = "CONNECTED" /\ \A id \in Ids : Exchange(id)
  BY DEF Connected
<1>3. IF NeedsAnswer(p) THEN Answer(p) \/ AnswerSubscribe(p) \/ AnswerRefused(p)
                       ELSE UNCHANGED bVars
  BY <1>1 DEF BrokerHandle
<1>4. CASE p.type # "SUBSCRIBE"
  <2>1. UNCHANGED b_subscriptions
    BY <1>3, <1>4 DEF Answer, AnswerSubscribe, AnswerRefused, bVars, B!AcknowledgeConnect
  <2> QED BY <1>1, <1>4, <2>1
<1>5. CASE p.type = "SUBSCRIBE"
  <2>1. PICK id : id = p.packet_id
    OBVIOUS
  <2>2. id \in Ids /\ p \in Of(id)
    BY <1>5, <2>1, TrafficKinds
  <2>3. p \in Due(id) /\ NeedsAnswer(p)
    BY <1>5, <2>2 DEF Due, NeedsAnswer
  <2>4. Waits(id, p)
    BY <1>1, <1>2, <2>2, <2>3, InboxWaits
  <2>5. Stage(id, Sent(p), Taken(p), {"inbox"}, p) /\ p \in Requests(id, "SUBSCRIBE")
    BY <1>5, <2>2, <2>4, AckKinds, PublishKinds DEF Waits
  <2>6. \A i \in B!Slots(id) : b_pending[i].packet = p
    BY <2>5, BrokerSlots DEF Stage, Taken, Entry
  <2>7. B!Slots(id) # {}
    BY <2>5, BrokerSlots DEF Stage, Taken
  <2>8. B!AcknowledgeSubscribe(id, [s \in Patterns |-> 0])
    BY <1>2, <1>3, <1>5, <2>1, <2>3 DEF Answer, AnswerSubscribe, AnswerRefused
  <2>9. PICK i \in B!Slots(id) :
          b_subscriptions' = b_subscriptions \cup
            {x \in b_pending[i].packet.patterns : [s \in Patterns |-> 0][x] = 0}
    BY <1>5, <2>6, <2>7, <2>8 DEF B!AcknowledgeSubscribe
  <2>10. p.patterns \subseteq Patterns
    BY <2>2, <2>5, RequestKinds
  <2>11. b_subscriptions' = b_subscriptions \cup p.patterns
    BY <2>6, <2>9, <2>10
  <2> QED BY <1>1, <1>5, <2>11
<1> QED BY <1>4, <1>5

-----------------------------------------------------------------------------
(* The steps of the two ends                                               *)

LEMMA FlushesAgree ==
  ASSUME Queues, Agreeing, ClientFlush \/ BrokerFlush
  PROVE  Agreeing'
<1>1. CASE ClientFlush
  <2>1. /\ c_out' = <<>> /\ c2b' = Upward
        /\ UNCHANGED <<c_subscriptions, b_subscriptions, inbox>>
    BY <1>1 DEF ClientFlush, C!Flush, C!GetOutboundData, C!clientVars, bVars, Upward
  <2>2. Upward' = Upward
    BY <2>1, UpwardParts DEF Upward
  <2> QED BY <2>1, <2>2 DEF Agreeing, AgreesOn, Wanted, Dropped, WantsLast
<1>2. CASE BrokerFlush
  <2>1. UNCHANGED <<b_subscriptions, c_subscriptions, c_out, c2b, inbox>>
    BY <1>2 DEF BrokerFlush, B!Flush, B!GetOutboundData, cVars, bVars
  <2> QED BY <2>1, AgreeingSame
<1> QED BY <1>1, <1>2

LEMMA ClientReceiveAgrees ==
  ASSUME Connected, Agreeing, ClientReceive
  PROVE  Agreeing'
<1>1. UNCHANGED <<b_subscriptions, c2b, inbox>>
  BY DEF ClientReceive, bVars
<1>2. UNCHANGED c_subscriptions /\ (UNCHANGED c_out \/ \E e \in Neutral : c_out' = Append(c_out, e))
  BY ClientAnswers
<1>3. CASE UNCHANGED c_out
  BY <1>1, <1>2, <1>3, AgreeingSame
<1>4. CASE \E e \in Neutral : c_out' = Append(c_out, e)
  BY <1>1, <1>2, <1>4, AgreeingNeutral DEF Connected
<1> QED BY <1>2, <1>3, <1>4

\* An UNSUBSCRIBE takes effect before what is in the inbox, which wants none of its patterns.
LEMMA BrokerReceiveAgrees ==
  ASSUME Connected, Agreeing, BrokerReceive
  PROVE  Agreeing'
<1>1. PICK p : p = Head(c2b)
  OBVIOUS
<1>2. /\ Queues /\ c2b # <<>> /\ c2b' = Tail(c2b) /\ inbox' = Append(inbox, p)
      /\ UNCHANGED <<c_subscriptions, c_out>>
  BY <1>1 DEF Connected, BrokerReceive, cVars
<1>3. p \in Traffic /\ inbox \in Seq(Traffic)
  BY <1>1, <1>2, TailElements DEF Queues
<1>4. b_subscriptions' = IF p.type = "UNSUBSCRIBE" THEN b_subscriptions \ p.patterns
                                                   ELSE b_subscriptions
  BY <1>1, BrokerTakes
<1>5. /\ Upward \in Seq(Traffic) /\ Upward # <<>>
      /\ Head(Upward) = p /\ Tail(Upward) = Upward'
  BY <1>1, <1>2, UpwardParts DEF Upward
<1>6. c_subscriptions' \subseteq Patterns /\ b_subscriptions' \subseteq Patterns
  BY <1>2, <1>4 DEF Agreeing
<1> SUFFICES ASSUME NEW x \in Patterns PROVE AgreesOn(x)'
  BY <1>6 DEF Agreeing
<1>7. AgreesOn(x)
  BY DEF Agreeing
<1>8. /\ Wanted(Upward, x) <=> Wants(p, x) \/ Wanted(Upward', x)
      /\ Dropped(Upward, x) <=> Drops(p, x) \/ Dropped(Upward', x)
      /\ WantsLast(Upward, x) => /\ WantsLast(Upward', x)
                                 /\ Wants(p, x) => ~Dropped(Upward', x)
  BY <1>5, RequestsTail
<1>9. Wanted(inbox', x) <=> Wanted(inbox, x) \/ Wants(p, x)
  BY <1>2, <1>3, RequestsAppend
<1>10. x \in b_subscriptions' <=> x \in b_subscriptions /\ ~Drops(p, x)
  BY <1>4 DEF Drops
<1>11. x \in c_subscriptions' <=> x \in c_subscriptions
  BY <1>2
<1> QED BY <1>7, <1>8, <1>9, <1>10, <1>11 DEF AgreesOn

LEMMA BrokerHandleAgrees ==
  ASSUME Connected, Agreeing, BrokerHandle
  PROVE  Agreeing'
<1>1. PICK p : p = Head(inbox)
  OBVIOUS
<1>2. /\ Queues /\ inbox # <<>> /\ inbox' = Tail(inbox)
      /\ UNCHANGED <<c_subscriptions, c_out, c2b>>
  BY DEF Connected, BrokerHandle, cVars
<1>3. inbox \in Seq(Traffic) /\ p \in Traffic
  BY <1>1, <1>2, TailElements DEF Queues
<1>4. b_subscriptions' = IF p.type = "SUBSCRIBE" THEN b_subscriptions \cup p.patterns
                                                 ELSE b_subscriptions
  BY <1>1, BrokerGrants
<1>5. p.type = "SUBSCRIBE" => p.patterns \subseteq Patterns
  BY <1>3 DEF Traffic, C!Publishes, C!Acks, C!SubscriptionRequests
<1>6. c_subscriptions' \subseteq Patterns /\ b_subscriptions' \subseteq Patterns
  BY <1>2, <1>4, <1>5 DEF Agreeing
<1> SUFFICES ASSUME NEW x \in Patterns PROVE AgreesOn(x)'
  BY <1>6 DEF Agreeing
<1>7. AgreesOn(x)
  BY DEF Agreeing
<1>8. Wanted(inbox, x) <=> Wants(p, x) \/ Wanted(inbox', x)
  BY <1>1, <1>2, <1>3, RequestsTail
<1>9. Upward' = Upward /\ (x \in c_subscriptions' <=> x \in c_subscriptions)
  BY <1>2 DEF Upward
<1>10. x \in b_subscriptions' <=> x \in b_subscriptions \/ Wants(p, x)
  BY <1>4 DEF Wants
<1>11. /\ Wanted(Upward', x) <=> Wanted(Upward, x)
       /\ Dropped(Upward', x) <=> Dropped(Upward, x)
       /\ WantsLast(Upward', x) <=> WantsLast(Upward, x)
  BY <1>9
<1> QED BY <1>7, <1>8, <1>9, <1>10, <1>11 DEF AgreesOn

LEMMA BrokerDeliverAgrees ==
  ASSUME Agreeing, BrokerDeliver
  PROVE  Agreeing'
<1>1. UNCHANGED <<b_subscriptions, c_subscriptions, c_out, c2b, inbox>>
  BY DEF BrokerDeliver, B!DeliverPublish, cVars, streams
<1> QED BY <1>1, AgreeingSame

-----------------------------------------------------------------------------
(* The calls of the application                                            *)

LEMMA AppPublishAgrees ==
  ASSUME Connected, Agreeing, Chosen, c_next_packet_id \in Ids, AppPublish,
         C!GeneratePacketId => Unused(c_next_packet_id)
  PROVE  Agreeing'
<1>1. PICK m : m = CHOOSE x \in Messages : x \notin Known(published)
  OBVIOUS
<1>2. PICK q \in QoSLevels : C!Publish(m, q)
  BY <1>1 DEF AppPublish
<1>3. m \in Messages /\ q \in 0 .. 2
  BY <1>1, MessageLeft, SessionAssumption DEF AppPublish
<1>4. UNCHANGED <<b_subscriptions, c_subscriptions, c2b, inbox>>
  BY <1>2 DEF AppPublish, C!Publish, bVars, streams
<1>5. ASSUME NEW p \in Traffic, p.type = "PUBLISH", c_out' = Append(c_out, p) PROVE Agreeing'
  <2>1. p \in Neutral
    BY <1>5 DEF Neutral
  <2> QED BY <1>4, <1>5, <2>1, AgreeingNeutral DEF Connected
<1>6. CASE q = 0
  <2>1. c_out' = Append(c_out, C!PublishPacket(m, 0, 0))
    BY <1>2, <1>6 DEF C!Publish, C!Send
  <2>2. C!PublishPacket(m, 0, 0) \in Traffic /\ C!PublishPacket(m, 0, 0).type = "PUBLISH"
    BY <1>3, PublishPackets DEF C!PublishPacket
  <2> QED BY <1>5, <2>1, <2>2
<1>7. CASE q # 0
  <2>1. PICK id : id = c_next_packet_id
    OBVIOUS
  <2>2. PICK p : p = C!PublishPacket(m, q, id)
    OBVIOUS
  <2>3. C!AddPending(p, TRUE) /\ C!GeneratePacketId
    BY <1>2, <1>7, <2>1, <2>2 DEF C!Publish
  <2>4. C!Slots(id) = {}
    BY <2>1, <2>3 DEF Unused
  <2>5. p \in Publishes(id, 1) \cup Publishes(id, 2)
    BY <1>3, <1>7, <2>1, <2>2, PublishPackets
  <2>6. p \in Traffic /\ p.type = "PUBLISH" /\ p.packet_id = id
    <3>1. p \in Traffic /\ p.packet_id = id
      BY <2>5 DEF Publishes, Traffic
    <3>2. p.type = "PUBLISH"
      BY <2>5 DEF Publishes, C!Publishes
    <3> QED BY <3>1, <3>2
  <2>7. c_out' = Append(c_out, p)
    BY <2>3, <2>4, <2>6 DEF C!AddPending
  <2> QED BY <1>5, <2>6, <2>7
<1> QED BY <1>6, <1>7

\* What a request for the patterns S is sent with
LEMMA RequestSent ==
  ASSUME NEW id \in Ids, C!Slots(id) = {},
         NEW type \in {"SUBSCRIBE", "UNSUBSCRIBE"}, NEW S \in (SUBSET Patterns) \ {{}},
         C!AddPending([type |-> type, packet_id |-> id, patterns |-> S], TRUE)
  PROVE  \E p \in Traffic : /\ c_out' = Append(c_out, p)
                            /\ \A x : /\ Wants(p, x) <=> type = "SUBSCRIBE" /\ x \in S
                                      /\ Drops(p, x) <=> type = "UNSUBSCRIBE" /\ x \in S
<1>1. PICK p : p = [type |-> type, packet_id |-> id, patterns |-> S]
  OBVIOUS
<1>2. p.type = type /\ p.packet_id = id /\ p.patterns = S
  BY <1>1
<1>3. p \in Traffic
  BY <1>1 DEF Traffic, C!SubscriptionRequests, C!PacketIds, Ids
<1>4. c_out' = Append(c_out, p)
  BY <1>1, <1>2 DEF C!AddPending
<1> QED BY <1>2, <1>3, <1>4 DEF Wants, Drops

LEMMA SubscribeAgrees ==
  ASSUME Connected, Agreeing, c_next_packet_id \in Ids,
         NEW S \in (SUBSET Patterns) \ {{}}, C!Subscribe(S),
         UNCHANGED <<bVars, streams>>,
         C!GeneratePacketId => Unused(c_next_packet_id)
  PROVE  Agreeing'
<1> DEFINE new == S \ c_subscriptions
<1>1. UNCHANGED <<b_subscriptions, c2b, inbox>> /\ Queues
  BY DEF bVars, streams, Connected
<1>2. c_subscriptions' = c_subscriptions \cup new
  BY DEF C!Subscribe
<1>3. CASE new = {}
  <2>1. UNCHANGED <<c_out, c_subscriptions>>
    BY <1>2, <1>3 DEF C!Subscribe
  <2> QED BY <1>1, <2>1, AgreeingSame
<1>4. CASE new # {}
  <2>1. PICK id : id = c_next_packet_id
    OBVIOUS
  <2>2. /\ C!AddPending([type |-> "SUBSCRIBE", packet_id |-> id, patterns |-> new], TRUE)
        /\ C!GeneratePacketId
    BY <1>4, <2>1 DEF C!Subscribe
  <2>3. C!Slots(id) = {} /\ id \in Ids /\ new \in (SUBSET Patterns) \ {{}}
    BY <1>4, <2>1, <2>2 DEF Unused
  <2> HIDE DEF new
  <2>4. PICK p \in Traffic : /\ c_out' = Append(c_out, p)
                             /\ \A x : (Wants(p, x) <=> x \in new) /\ ~Drops(p, x)
    BY <2>2, <2>3, RequestSent
  <2>5. c_subscriptions \cup new \in SUBSET Patterns
    BY <2>3 DEF Agreeing
  <2> QED BY <1>1, <1>2, <2>4, <2>5, AgreeingSent
<1> QED BY <1>3, <1>4

\* The guard of AppSubscriptions keeps a SUBSCRIBE for what is dropped from being on its way.
LEMMA UnsubscribeAgrees ==
  ASSUME Connected, Agreeing, c_next_packet_id \in Ids,
         NEW S \in (SUBSET Patterns) \ {{}}, C!Unsubscribe(S), SubscribesAnswered(S),
         UNCHANGED <<bVars, streams>>,
         C!GeneratePacketId => Unused(c_next_packet_id)
  PROVE  Agreeing'
<1> DEFINE last == {x \in S : c_counts[x] = 1}
<1>1. UNCHANGED <<b_subscriptions, c2b, inbox>> /\ Queues
  BY DEF bVars, streams, Connected
<1>2. last \ c_subscriptions = {}
  BY DEF Connected, Counted
<1>3. /\ c_subscriptions' = c_subscriptions \ last
      /\ \/ last = {} /\ UNCHANGED c_out
         \/ /\ last # {} /\ C!GeneratePacketId
            /\ C!AddPending([type |-> "UNSUBSCRIBE", packet_id |-> c_next_packet_id,
                             patterns |-> last], TRUE)
  BY <1>2 DEF C!Unsubscribe
<1>4. CASE last = {}
  <2>1. UNCHANGED <<c_out, c_subscriptions>>
    BY <1>3, <1>4
  <2> QED BY <1>1, <2>1, AgreeingSame
<1>5. CASE last # {}
  <2>1. PICK id : id = c_next_packet_id
    OBVIOUS
  <2>2. /\ C!AddPending([type |-> "UNSUBSCRIBE", packet_id |-> id, patterns |-> last], TRUE)
        /\ C!GeneratePacketId
    BY <1>3, <1>5, <2>1
  <2>3. C!Slots(id) = {} /\ id \in Ids /\ last \in (SUBSET Patterns) \ {{}} /\ last \subseteq S
    BY <1>5, <2>1, <2>2 DEF Unused
  <2> HIDE DEF last
  <2>4. PICK p \in Traffic : /\ c_out' = Append(c_out, p)
                             /\ \A x : (Drops(p, x) <=> x \in last) /\ ~Wants(p, x)
    <3>1. \E p \in Traffic : /\ c_out' = Append(c_out, p)
                            /\ \A x : /\ Wants(p, x) <=> "UNSUBSCRIBE" = "SUBSCRIBE" /\ x \in last
                                      /\ Drops(p, x) <=> "UNSUBSCRIBE" = "UNSUBSCRIBE" /\ x \in last
      BY <2>2, <2>3, RequestSent
    <3> QED BY <3>1
  <2>5. ASSUME NEW x \in last, NEW q \in {inbox, c2b, c_out} PROVE ~Wanted(q, x)
    <3> SUFFICES ASSUME NEW k \in DOMAIN q, Wants(q[k], x) PROVE FALSE
      BY DEF Wanted
    <3>1. PICK i \in DOMAIN c_pending : c_pending[i].packet = q[k]
      BY SubscribePending DEF Wants
    <3>2. c_pending[i].packet.patterns \cap S = {}
      BY <3>1 DEF SubscribesAnswered, Wants
    <3> QED BY <2>3, <3>1, <3>2 DEF Wants
  <2>6. \A x \in last : ~Wanted(Upward, x)
    <3> SUFFICES ASSUME NEW x \in last, NEW k \in DOMAIN Upward, Wants(Upward[k], x)
                 PROVE  FALSE
      BY DEF Wanted
    <3>1. \/ k \in DOMAIN c2b /\ Upward[k] = c2b[k]
          \/ k - Len(c2b) \in DOMAIN c_out /\ Upward[k] = c_out[k - Len(c2b)]
      BY <1>1, ConcatElements DEF Queues, Upward
    <3> QED BY <2>5, <3>1 DEF Wanted
  <2>7. c_subscriptions \ last \in SUBSET Patterns
    BY DEF Agreeing
  <2>8. \A x \in Patterns :
          /\ x \in c_subscriptions \ last <=> Wants(p, x) \/ (x \in c_subscriptions /\ ~Drops(p, x))
          /\ Drops(p, x) => ~Wanted(inbox, x) /\ ~Wanted(Upward, x)
    BY <2>4, <2>5, <2>6
  <2> QED BY <1>1, <1>3, <2>4, <2>7, <2>8, AgreeingSent
<1> QED BY <1>4, <1>5

-----------------------------------------------------------------------------
(* The subscriptions of the two ends                                       *)

SubsInv == Inv /\ (First /\ c_state = "CONNECTED" => Agreeing)

\* The client reads the CONNACK: nothing is subscribed to, nothing on its way.
LEMMA AgreeingStarts ==
  ASSUME Connecting, c_next_packet_id \in Ids, ClientReceive
  PROVE  Agreeing'
<1>1. /\ c_out' = <<>> /\ c2b' = <<>> /\ inbox' = <<>>
      /\ c_subscriptions' = {} /\ b_subscriptions' = {}
  BY ConnectingEnds
<1>2. <<>> \o <<>> = <<>> /\ DOMAIN <<>> = {}
  OBVIOUS
<1>3. Upward' = <<>>
  BY <1>1, <1>2 DEF Upward
<1>4. \A x : ~Wanted(<<>>, x) /\ ~Dropped(<<>>, x) /\ WantsLast(<<>>, x)
  BY <1>2 DEF Wanted, Dropped, WantsLast
<1> QED BY <1>1, <1>3, <1>4 DEF Agreeing, AgreesOn

LEMMA ConnectedAgrees ==
  ASSUME AwaitsSubAck, Inv, First, Connected, Agreeing, Next,
         (AppPublish \/ AppSubscriptions) /\ C!GeneratePacketId => Unused(c_next_packet_id)
  PROVE  First' /\ c_state' = "CONNECTED" => Agreeing'
<1>1. c_next_packet_id \in Ids /\ Chosen /\ c_state = "CONNECTED" /\ Queues
  BY DEF Inv, Connected
<1>2. ~Open /\ ~Close
  <2>1. open
    BY <1>1 DEF Inv, Unconnected, Connecting
  <2> QED BY <1>1, <2>1 DEF Open, Close
<1>3. CASE AppDisconnect
  <2>1. c_state' # "CONNECTED"
    BY <1>3 DEF AppDisconnect, C!Disconnect
  <2> QED BY <2>1
<1>4. CASE AppPublish
  BY <1>1, <1>4, AppPublishAgrees
<1>5. CASE AppSubscriptions
  <2>1. PICK S \in (SUBSET Patterns) \ {{}} :
          C!Subscribe(S) \/ (SubscribesAnswered(S) /\ C!Unsubscribe(S))
    BY <1>5 DEF AppSubscriptions
  <2>2. UNCHANGED <<bVars, streams>>
    BY <1>5 DEF AppSubscriptions
  <2> QED BY <1>1, <1>5, <2>1, <2>2, SubscribeAgrees, UnsubscribeAgrees
<1>6. CASE ClientFlush \/ BrokerFlush
  BY <1>1, <1>6, FlushesAgree
<1>7. CASE ClientReceive
  BY <1>7, ClientReceiveAgrees
<1>8. CASE BrokerReceive
  BY <1>8, BrokerReceiveAgrees
<1>9. CASE BrokerHandle
  BY <1>9, BrokerHandleAgrees
<1>10. CASE BrokerDeliver
  BY <1>10, BrokerDeliverAgrees
<1> QED BY <1>2, <1>3, <1>4, <1>5, <1>6, <1>7, <1>8, <1>9, <1>10 DEF Next

LEMMA SubsNext ==
  ASSUME NoQoS2Delivery, AwaitsSubAck, SubsInv, Next,
         First /\ (AppPublish \/ AppSubscriptions) /\ C!GeneratePacketId
           => Unused(c_next_packet_id)
  PROVE  SubsInv'
<1>1. Inv /\ Inv'
  BY NextInv DEF SubsInv
<1>2. SUFFICES ASSUME First', c_state' = "CONNECTED" PROVE Agreeing'
  BY <1>1 DEF SubsInv
<1>3. CASE ~First
  BY <1>1, <1>2, <1>3, OverStaysOver
<1>4. CASE First
  <2>1. c_next_packet_id \in Ids
        /\ (Unconnected \/ (connects = 1 /\ open /\ (Connecting \/ Connected)))
    BY <1>1, <1>4 DEF Inv
  <2>2. ~Connecting'
    BY <1>2 DEF Connecting
  <2>3. CASE Unconnected
    BY <1>1, <1>4, <2>2, <2>3, UnconnectedStep
  <2>4. CASE connects = 1 /\ open /\ Connecting
    BY <1>1, <1>4, <2>1, <2>2, <2>4, ConnectingStep, AgreeingStarts DEF Advances
  <2>5. CASE Connected
    <3>1. Agreeing
      BY <1>4, <2>5 DEF SubsInv, Connected
    <3> QED BY <1>1, <1>2, <1>4, <2>5, <3>1, ConnectedAgrees
  <2> QED BY <2>1, <2>3, <2>4, <2>5
<1> QED BY <1>3, <1>4

\* When nothing is on its way nothing is left to grant or to drop.
LEMMA QuietAgrees == SubsInv => (First => SubscriptionsAgree)
<1> SUFFICES ASSUME SubsInv, First, Quiescent PROVE b_subscriptions = c_subscriptions
  BY DEF SubscriptionsAgree
<1>1. Agreeing /\ Queues
  BY DEF SubsInv, Quiescent, Inv, Unconnected, Connecting, Connected
<1>2. c_out = <<>> /\ c2b = <<>> /\ inbox = <<>>
  <2>1. c_out \o c2b \o inbox \o b_out \o b2c = <<>>
    BY DEF Quiescent
  <2>2. \A q, r \in Seq(Traffic) : q \o r = <<>> => q = <<>> /\ r = <<>>
    <3> SUFFICES ASSUME NEW q \in Seq(Traffic), NEW r \in Seq(Traffic), q \o r = <<>>
                 PROVE  q = <<>> /\ r = <<>>
      OBVIOUS
    <3>1. Len(q) \in Nat /\ Len(r) \in Nat /\ Len(q \o r) = Len(q) + Len(r)
      BY LenProperties, ConcatProperties
    <3>2. Len(q) = 0 /\ Len(r) = 0
      <4>1. Len(q \o r) = 0
        OBVIOUS
      <4> QED BY <3>1, <4>1
    <3> QED BY <3>2, EmptySeq
  <2>3. /\ c_out \o c2b \in Seq(Traffic) /\ (c_out \o c2b) \o inbox \in Seq(Traffic)
        /\ ((c_out \o c2b) \o inbox) \o b_out \in Seq(Traffic)
    BY <1>1, ConcatProperties DEF Queues
  <2>4. ((c_out \o c2b) \o inbox) \o b_out = <<>>
    BY <1>1, <2>1, <2>2, <2>3 DEF Queues
  <2>5. (c_out \o c2b) \o inbox = <<>>
    BY <1>1, <2>2, <2>3, <2>4 DEF Queues
  <2> QED BY <1>1, <2>2, <2>3, <2>5 DEF Queues
<1>3. Upward = <<>> /\ DOMAIN <<>> = {}
  BY <1>2 DEF Upward
<1>4. \A x \in Patterns : x \in c_subscriptions <=> x \in b_subscriptions
  BY <1>1, <1>2, <1>3 DEF Agreeing, AgreesOn, Wanted, Dropped
<1> QED BY <1>1, <1>4 DEF Agreeing

(* Where the application waits for the SUBACK before it unsubscribes, as   *)
(* AsyncMQTTClient's contexts do, the two ends of a first connection       *)
(* agree, whenever everything sent has been handled, on what the client is *)
(* subscribed to, in whatever chunks it is read: _subscriptions of the     *)
(* client, which subscribe() and unsubscribe() change at once, and of the  *)
(* broker's end, which an UNSUBSCRIBE changes when it is fed and a         *)
(* SUBSCRIBE when it is acknowledged.  Without the wait a chunk with both  *)
(* loses the order of the two.                                             *)
THEOREM FirstConnectionSubscribes ==
  ASSUME NoQoS2Delivery, AwaitsSubAck
  PROVE  Spec /\ FreshIds => [](First => SubscriptionsAgree)
<1>1. Init => SubsInv
  <2> SUFFICES ASSUME Init PROVE SubsInv
    OBVIOUS
  <2>1. c_state # "CONNECTED"
    BY DEF Init, C!Init
  <2> QED BY <2>1, InitInv DEF SubsInv
<1>2. SubsInv /\ [Next]_vars
        /\ [First /\ (AppPublish \/ AppSubscriptions) /\ C!GeneratePacketId
              => Unused(c_next_packet_id)]_vars
      => SubsInv'
  <2> SUFFICES ASSUME SubsInv, [Next]_vars,
                      [First /\ (AppPublish \/ AppSubscriptions) /\ C!GeneratePacketId
                         => Unused(c_next_packet_id)]_vars
               PROVE  SubsInv'
    OBVIOUS
  <2>1. CASE UNCHANGED vars
    <3>1. Inv' /\ (First' => First) /\ c_state' = c_state
      BY <2>1, StutterInv DEF SubsInv, First, vars, cVars
    <3>2. UNCHANGED <<b_subscriptions, c_subscriptions, c_out, c2b, inbox>>
      BY <2>1 DEF vars, cVars, bVars, streams
    <3> QED BY <3>1, <3>2, AgreeingSame DEF SubsInv
  <2>2. CASE ~UNCHANGED vars
    BY <2>2, SubsNext
  <2> QED BY <2>1, <2>2
<1> QED BY <1>1, <1>2, QuietAgrees, PTL DEF Spec, FreshIds

(* The same where the packet ids are enough for the calls.                 *)
THEOREM EnoughIdsSubscribe ==
  ASSUME NoQoS2Delivery, EnoughIds, AwaitsSubAck
  PROVE  Spec => [](First => SubscriptionsAgree)
BY EnoughIdsStayFresh, FirstConnectionSubscribes, PTL

-----------------------------------------------------------------------------
(* The order of the client's publishes                                     *)
(*                                                                         *)
(* PendingInOrder needs no stories and no fresh packet ids: whatever       *)
(* arrives, on whichever connection, no handler moves an own publish       *)
(* before another one.  Each leaves of the own publishes some, in the same *)
(* order, and a new one comes last, as its message does in `published'.    *)

OwnPublish(e) == e.own /\ e.packet.type = "PUBLISH"

\* An entry is a record, and the packet of an own publish has a message.
Shaped(e) ==
  /\ e = [packet |-> e.packet, ack_state |-> e.ack_state, own |-> e.own]
  /\ OwnPublish(e) => {"type", "msg"} \subseteq DOMAIN e.packet

IsSequence(q) == q \in Seq(Range(q))

Distinct(h) == \A i, j \in DOMAIN h : h[i].msg = h[j].msg => i = j

\* The own publishes of the table q are of messages of h, in the order of h.
Ordered(q, h) ==
  /\ IsSequence(q)
  /\ \A k \in DOMAIN q :
       /\ Shaped(q[k])
       /\ OwnPublish(q[k]) => q[k].packet.msg \in Known(h)
  /\ \A k, l \in DOMAIN q :
       k < l /\ OwnPublish(q[k]) /\ OwnPublish(q[l])
         => Position(h, q[k].packet.msg) < Position(h, q[l].packet.msg)

OrderInv == Chosen /\ Distinct(published) /\ Ordered(c_pending, published)

LEMMA SequenceOf ==
  ASSUME NEW S, NEW q \in Seq(S)
  PROVE  IsSequence(q)
<1>1. /\ Len(q) \in Nat /\ DOMAIN q = 1 .. Len(q)
      /\ q = [k \in 1 .. Len(q) |-> q[k]]
  BY LenProperties
<1>2. \A k \in 1 .. Len(q) : q[k] \in Range(q)
  BY <1>1 DEF Range
<1> DEFINE n == Len(q)
<1>3. n \in Nat /\ q \in [1 .. n -> Range(q)]
  BY <1>1, <1>2
<1> HIDE DEF n
<1> QED BY <1>3, FunctionIsSeq DEF IsSequence

(* The own publishes of r are those of q at the increasing positions f: r  *)
(* is in the same order.                                                   *)
LEMMA StaysOrdered ==
  ASSUME NEW q, NEW h, Ordered(q, h), NEW r, IsSequence(r), NEW f,
         \A k \in DOMAIN r :
           /\ Shaped(r[k])
           /\ OwnPublish(r[k]) => /\ f[k] \in DOMAIN q /\ OwnPublish(q[f[k]])
                                  /\ q[f[k]].packet.msg = r[k].packet.msg,
         \A k, l \in DOMAIN r :
           k < l /\ OwnPublish(r[k]) /\ OwnPublish(r[l]) => f[k] < f[l]
  PROVE  Ordered(r, h)
BY DEF Ordered

LEMMA RemovalInOrder ==
  ASSUME NEW q, NEW h, Ordered(q, h), NEW i \in DOMAIN q
  PROVE  Ordered(RemoveAt(q, i), h)
<1> DEFINE r == RemoveAt(q, i)
           f == [k \in DOMAIN r |-> IF k < i THEN k ELSE k + 1]
<1>1. q \in Seq(Range(q))
  BY DEF Ordered, IsSequence
<1>2. /\ Len(q) \in Nat /\ DOMAIN q = 1 .. Len(q) /\ i \in 1 .. Len(q)
  BY <1>1, LenProperties
<1>3. /\ r \in Seq(Range(q)) /\ DOMAIN r = 1 .. Len(q) - 1
      /\ \A k \in 1 .. Len(q) - 1 : r[k] = IF k < i THEN q[k] ELSE q[k + 1]
  BY <1>1, RemoveAtType, RemoveAtElements
<1>4. IsSequence(r)
  BY <1>3, SequenceOf
<1> HIDE DEF r
<1>5. \A k \in DOMAIN r : f[k] \in DOMAIN q /\ r[k] = q[f[k]]
  BY <1>2, <1>3
<1>6. \A k, l \in DOMAIN r : k < l => f[k] < f[l]
  BY <1>2, <1>3
<1> HIDE DEF f
<1>7. \A k \in DOMAIN r : Shaped(r[k])
  BY <1>5 DEF Ordered
<1>8. Ordered(r, h)
  BY <1>4, <1>5, <1>6, <1>7, StaysOrdered
<1> QED BY <1>8 DEF r

\* An entry that is no own publish is added, or one is replaced by its like.
LEMMA AdditionInOrder ==
  ASSUME NEW q, NEW h, Ordered(q, h), NEW e, Shaped(e), ~OwnPublish(e)
  PROVE  Ordered(Append(q, e), h)
<1> DEFINE r == Append(q, e)
           f == [k \in DOMAIN q |-> k]
<1>1. q \in Seq(Range(q) \cup {e}) /\ e \in Range(q) \cup {e}
  BY SeqMonotonic DEF Ordered, IsSequence
<1>2. /\ r \in Seq(Range(q) \cup {e})
      /\ \A k \in DOMAIN r : (k \in DOMAIN q /\ r[k] = q[k]) \/ r[k] = e
  BY <1>1, AppendElements
<1>3. IsSequence(r)
  BY <1>2, SequenceOf
<1> HIDE DEF r
<1>4. \A k \in DOMAIN q : f[k] = k
  OBVIOUS
<1> HIDE DEF f
<1>5. \A k \in DOMAIN r : Shaped(r[k])
  BY <1>2 DEF Ordered
<1>6. \A k \in DOMAIN r : OwnPublish(r[k]) => f[k] = k /\ k \in DOMAIN q /\ r[k] = q[k]
  BY <1>2, <1>4
<1>7. Ordered(r, h)
  BY <1>3, <1>5, <1>6, StaysOrdered
<1> QED BY <1>7 DEF r

LEMMA ReplacementInOrder ==
  ASSUME NEW q, NEW h, Ordered(q, h), NEW i \in DOMAIN q, NEW ack
  PROVE  Ordered([q EXCEPT ![i].ack_state = ack], h)
<1> DEFINE e == [q[i] EXCEPT !.ack_state = ack]
           r == [q EXCEPT ![i].ack_state = ack]
           f == [k \in DOMAIN q |-> k]
<1>1. Shaped(q[i])
  BY DEF Ordered
<1>2. e = [packet |-> q[i].packet, ack_state |-> ack, own |-> q[i].own]
  BY <1>1 DEF Shaped
<1>3. Shaped(e) /\ e.packet = q[i].packet /\ (OwnPublish(e) <=> OwnPublish(q[i]))
  BY <1>1, <1>2 DEF Shaped, OwnPublish
<1>4. /\ q \in Seq(Range(q) \cup {e}) /\ e \in Range(q) \cup {e}
      /\ DOMAIN r = DOMAIN q
      /\ \A k \in DOMAIN q : r[k] = IF k = i THEN e ELSE q[k]
      /\ r = [q EXCEPT ![i] = e]
  BY SeqMonotonic DEF Ordered, IsSequence
<1> HIDE DEF e, r
<1>5. IsSequence(r)
  BY <1>4, ReplaceType, SequenceOf
<1>6. \A k \in DOMAIN q : f[k] = k
  OBVIOUS
<1> HIDE DEF f
<1>7. \A k \in DOMAIN r :
        /\ k \in DOMAIN q /\ f[k] = k /\ Shaped(r[k])
        /\ r[k].packet = q[k].packet /\ (OwnPublish(r[k]) => OwnPublish(q[k]))
  BY <1>3, <1>4, <1>6 DEF Ordered
<1>8. Ordered(r, h)
  BY <1>5, <1>7, StaysOrdered
<1> QED BY <1>8 DEF r

\* An entry keeps its side and its message when it is resent.
LEMMA ResentShape ==
  ASSUME NEW e, Shaped(e), e.packet.type = "PUBLISH"
  PROVE  /\ Shaped(C!Resent(e))
         /\ OwnPublish(C!Resent(e)) =>
              OwnPublish(e) /\ C!Resent(e).packet.msg = e.packet.msg
<1> DEFINE p == C!Duplicate(e.packet)
<1>1. C!Resent(e) = [packet |-> p, ack_state |-> e.ack_state, own |-> e.own]
  BY DEF Shaped, C!Resent
<1>2. DOMAIN p = DOMAIN e.packet
      /\ \A x \in DOMAIN e.packet : x # "duplicate" => p[x] = e.packet[x]
  BY DEF C!Duplicate
<1> HIDE DEF p
<1>3. ASSUME e.own
      PROVE  {"type", "msg"} \subseteq DOMAIN p /\ p.type = "PUBLISH" /\ p.msg = e.packet.msg
  BY <1>2, <1>3 DEF Shaped, OwnPublish
<1> QED BY <1>1, <1>3 DEF Shaped, OwnPublish

\* The resend loop goes over what reset() keeps, in the order of the table.
LEMMA ConnAckInOrder ==
  ASSUME NEW h, Ordered(c_pending, h), NEW p, C!ReceiveConnAck(p)
  PROVE  Ordered(c_pending', h)
<1>1. CASE UNCHANGED c_pending
  BY <1>1
<1>2. ASSUME NEW order \in C!Enumerations(C!Kept(p.session_present)),
             LET kept == [i \in DOMAIN order |-> c_pending[order[i]]]
             IN  \E n \in 0 .. Len(kept) : C!ResendPending(kept, n)
      PROVE  Ordered(c_pending', h)
  <2> DEFINE I    == C!Kept(p.session_present)
             size == C!Cardinality(I)
             kept == [i \in DOMAIN order |-> c_pending[order[i]]]
  <2>1. order \in [1 .. size -> I] /\ \A i, j \in DOMAIN order : i < j => order[i] < order[j]
    BY <1>2 DEF C!Enumerations
  <2>2. I \subseteq DOMAIN c_pending
    BY DEF C!Kept
  <2>3. size \in Nat
    <3>1. c_pending \in Seq(Range(c_pending))
      BY DEF Ordered, IsSequence
    <3>2. Len(c_pending) \in Nat /\ DOMAIN c_pending = 1 .. Len(c_pending)
      BY <3>1, LenProperties
    <3>3. IsFiniteSet(1 .. Len(c_pending))
      BY <3>2, FS_Interval
    <3> HIDE DEF I
    <3>4. IsFiniteSet(I)
      BY <2>2, <3>2, <3>3, FS_Subset
    <3>5. Cardinality(I) \in Nat
      BY <3>4, FS_CardinalityType
    <3>6. C!Cardinality(I) = Cardinality(I)
      BY DEF Cardinality, C!Cardinality
    <3> QED BY <3>5, <3>6
  <2>4. PICK n \in 0 .. Len(kept) : C!ResendPending(kept, n)
    BY <1>2
  <2>5. /\ \A i \in 1 .. n : kept[i].packet.type = "PUBLISH"
        /\ c_pending' = [i \in DOMAIN kept |->
                           IF i <= n THEN C!Resent(kept[i]) ELSE kept[i]]
    BY <2>4 DEF C!ResendPending
  <2> HIDE DEF I, size
  <2>6. /\ DOMAIN kept = 1 .. size
        /\ \A i \in 1 .. size : kept[i] = c_pending[order[i]] /\ order[i] \in DOMAIN c_pending
    BY <2>1, <2>2
  <2> HIDE DEF kept
  <2> DEFINE r == [i \in 1 .. size |-> IF i <= n THEN C!Resent(kept[i]) ELSE kept[i]]
  <2>7. \A i \in 1 .. size : i <= n => i \in 1 .. n
    BY <2>3, <2>4
  <2>8. \A i \in 1 .. size :
          /\ Shaped(r[i])
          /\ OwnPublish(r[i]) => /\ order[i] \in DOMAIN c_pending
                                 /\ OwnPublish(c_pending[order[i]])
                                 /\ c_pending[order[i]].packet.msg = r[i].packet.msg
    <3> SUFFICES ASSUME NEW i \in 1 .. size
                 PROVE  /\ Shaped(r[i])
                        /\ OwnPublish(r[i]) => /\ order[i] \in DOMAIN c_pending
                                               /\ OwnPublish(c_pending[order[i]])
                                               /\ c_pending[order[i]].packet.msg = r[i].packet.msg
      OBVIOUS
    <3>1. kept[i] = c_pending[order[i]] /\ order[i] \in DOMAIN c_pending /\ Shaped(kept[i])
      BY <2>6 DEF Ordered
    <3>2. CASE i <= n
      <4>1. r[i] = C!Resent(kept[i]) /\ kept[i].packet.type = "PUBLISH"
        BY <2>5, <2>7, <3>2
      <4> HIDE DEF r
      <4> QED BY <3>1, <4>1, ResentShape
    <3>3. CASE ~(i <= n)
      <4>1. r[i] = kept[i]
        BY <3>3
      <4> HIDE DEF r
      <4> QED BY <3>1, <4>1
    <3> QED BY <3>2, <3>3
  <2>9. IsSequence(r)
    <3>1. r \in [1 .. size -> Range(r)]
      BY DEF Range
    <3> HIDE DEF r
    <3> QED BY <2>3, <3>1, FunctionIsSeq, SequenceOf
  <2>10. DOMAIN r = 1 .. size /\ c_pending' = r
    BY <2>5, <2>6
  <2>11. \A i, j \in DOMAIN order : i < j => order[i] < order[j]
    BY <2>1
  <2>12. DOMAIN order = DOMAIN r
    BY <2>1, <2>10
  <2> HIDE DEF r
  <2>13. \A k \in DOMAIN r :
           /\ Shaped(r[k])
           /\ OwnPublish(r[k]) => /\ order[k] \in DOMAIN c_pending
                                  /\ OwnPublish(c_pending[order[k]])
                                  /\ c_pending[order[k]].packet.msg = r[k].packet.msg
    BY <2>8, <2>10
  <2>14. Ordered(r, h)
    <3>1. ASSUME NEW k \in DOMAIN r, NEW l \in DOMAIN r, k < l,
                 OwnPublish(r[k]), OwnPublish(r[l])
          PROVE  Position(h, r[k].packet.msg) < Position(h, r[l].packet.msg)
      <4>1. order[k] < order[l]
        BY <2>11, <2>12, <3>1
      <4> QED BY <2>13, <3>1, <4>1 DEF Ordered
    <3>2. \A k \in DOMAIN r : OwnPublish(r[k]) => r[k].packet.msg \in Known(h)
      BY <2>13 DEF Ordered
    <3> QED BY <2>9, <2>13, <3>1, <3>2 DEF Ordered
  <2> QED BY <2>10, <2>14
<1> QED BY <1>1, <1>2 DEF C!ReceiveConnAck

LEMMA ReceiveInOrder ==
  ASSUME NEW h, Ordered(c_pending, h), NEW p, C!Receive(p)
  PROVE  Ordered(c_pending', h)
<1>1. CASE UNCHANGED c_pending
  BY <1>1
<1>2. ASSUME NEW i \in C!Slots(p.packet_id), c_pending' = C!RemoveAt(c_pending, i)
      PROVE  Ordered(c_pending', h)
  <2>1. i \in DOMAIN c_pending
    BY DEF C!Slots
  <2> QED BY <1>2, <2>1, RemoveAtOfEnds, RemovalInOrder
<1>3. CASE C!ReceivePublish(p)
  <2>1. \/ UNCHANGED c_pending
        \/ c_pending' = Append(c_pending, Entry(p, FALSE, "ACKNOWLEDGED"))
    BY <1>3 DEF C!ReceivePublish, C!AddPending, Entry
  <2>2. Shaped(Entry(p, FALSE, "ACKNOWLEDGED")) /\ ~OwnPublish(Entry(p, FALSE, "ACKNOWLEDGED"))
    BY DEF Entry, Shaped, OwnPublish
  <2> QED BY <1>1, <2>1, <2>2, AdditionInOrder
<1>4. CASE C!ReceivePubRec(p)
  <2>1. \/ UNCHANGED c_pending
        \/ \E i \in C!Slots(p.packet_id) :
             c_pending' = [c_pending EXCEPT ![i].ack_state = "RELEASED"]
    BY <1>4 DEF C!ReceivePubRec, C!Fail
  <2>2. C!Slots(p.packet_id) \subseteq DOMAIN c_pending
    BY DEF C!Slots
  <2> QED BY <1>1, <2>1, <2>2, ReplacementInOrder
<1>5. CASE \/ C!ReceivePubAck(p) \/ C!ReceivePubRel(p) \/ C!ReceivePubComp(p)
           \/ C!ReceiveSubAck(p) \/ C!ReceiveUnsubAck(p)
  <2>1. \/ UNCHANGED c_pending
        \/ \E i \in C!Slots(p.packet_id) : c_pending' = C!RemoveAt(c_pending, i)
    BY <1>5 DEF C!ReceivePubAck, C!ReceivePubRel, C!ReceivePubComp, C!ReceiveSubAck,
       C!ReceiveUnsubAck, C!ReceiveRequestAck, C!Fail
  <2> QED BY <1>1, <1>2, <2>1
<1>6. CASE \/ C!ReceiveDisconnect(p) \/ C!ReceiveAuth(p) \/ C!ReceivePingResp(p)
           \/ C!ReceiveRefused(p)
  <2>1. UNCHANGED c_pending
    BY <1>6 DEF C!ReceiveDisconnect, C!ReceiveAuth, C!ReceivePingResp, C!ReceiveRefused,
       C!Fail, C!vars, C!baseVars
  <2> QED BY <1>1, <2>1
<1>7. CASE C!ReceiveConnAck(p)
  BY <1>7, ConnAckInOrder
<1> QED BY <1>3, <1>4, <1>5, <1>6, <1>7 DEF C!Receive, C!ReceiveAccepted, C!ReceiveBase

\* SUBSCRIBE and UNSUBSCRIBE requests stand between the publishes.
LEMMA RequestInOrder ==
  ASSUME NEW h, Ordered(c_pending, h), NEW S, C!Subscribe(S) \/ C!Unsubscribe(S)
  PROVE  Ordered(c_pending', h)
<1>1. CASE UNCHANGED c_pending
  BY <1>1
<1>2. ASSUME NEW p, p.type # "PUBLISH", C!AddPending(p, TRUE)
      PROVE  Ordered(c_pending', h)
  <2>1. UNCHANGED c_pending \/ c_pending' = Append(c_pending, C!Entry(p, TRUE))
    BY <1>2 DEF C!AddPending
  <2>2. Shaped(C!Entry(p, TRUE)) /\ ~OwnPublish(C!Entry(p, TRUE))
    BY <1>2 DEF C!Entry, Shaped, OwnPublish
  <2> QED BY <1>1, <2>1, <2>2, AdditionInOrder
<1>3. \A T : \A type \in {"SUBSCRIBE", "UNSUBSCRIBE"} :
        [type |-> type, packet_id |-> c_next_packet_id, patterns |-> T].type # "PUBLISH"
  OBVIOUS
<1>4. CASE C!Subscribe(S)
  <2>1. \/ UNCHANGED c_pending
        \/ C!AddPending([type |-> "SUBSCRIBE", packet_id |-> c_next_packet_id,
                         patterns |-> S \ c_subscriptions], TRUE)
    BY <1>4 DEF C!Subscribe
  <2> QED BY <1>1, <1>2, <1>3, <2>1
<1>5. CASE C!Unsubscribe(S)
  <2>1. \/ UNCHANGED c_pending
        \/ \E T : C!AddPending([type |-> "UNSUBSCRIBE", packet_id |-> c_next_packet_id,
                                patterns |-> T], TRUE)
    BY <1>5 DEF C!Unsubscribe
  <2> QED BY <1>1, <1>2, <1>3, <2>1
<1> QED BY <1>4, <1>5

\* The message is new, and it is the last one.
LEMMA NewPosition ==
  ASSUME Chosen, Distinct(published), NEW m \in Messages, m \notin Known(published),
         NEW q \in 0 .. 2, NEW h, h = Append(published, Publication(m, q))
  PROVE  /\ h \in Seq([msg : Messages, qos : 0 .. 2]) /\ Distinct(h)
         /\ Known(h) = Known(published) \cup {m}
         /\ \A x \in Known(published) :
              Position(h, x) = Position(published, x) /\ Position(h, x) < Position(h, m)
<1> DEFINE n == Len(published)
<1>1. Publication(m, q) \in [msg : Messages, qos : 0 .. 2] /\ Publication(m, q).msg = m
  BY DEF Publication
<1>2. /\ h \in Seq([msg : Messages, qos : 0 .. 2])
      /\ \A k \in DOMAIN published : k \in DOMAIN h /\ h[k] = published[k]
      /\ \A k \in DOMAIN h : k \in DOMAIN published \/ (k = n + 1 /\ h[k] = Publication(m, q))
      /\ n + 1 \in DOMAIN h /\ h[n + 1] = Publication(m, q)
  BY <1>1, AppendElements DEF Chosen
<1>3. n \in Nat /\ DOMAIN published = 1 .. n
  BY LenProperties DEF Chosen
<1> HIDE DEF n
<1>4. \A k \in DOMAIN published : published[k].msg # m
  BY DEF Known
<1>5. Distinct(h)
  BY <1>1, <1>2, <1>4 DEF Distinct
<1>6. Known(h) = Known(published) \cup {m}
  BY <1>1, <1>2 DEF Known
<1>7. ASSUME NEW g, Distinct(g), NEW k \in DOMAIN g PROVE Position(g, g[k].msg) = k
  <2>1. Position(g, g[k].msg) \in DOMAIN g /\ g[Position(g, g[k].msg)].msg = g[k].msg
    <3>1. PICK x : x = g[k].msg
      OBVIOUS
    <3>2. \E i \in DOMAIN g : g[i].msg = x
      BY <3>1
    <3>3. Position(g, x) \in DOMAIN g /\ g[Position(g, x)].msg = x
      BY <3>2, Zenon DEF Position
    <3> QED BY <3>1, <3>3
  <2> QED BY <1>7, <2>1 DEF Distinct
<1>8. Position(h, m) = n + 1
  BY <1>1, <1>2, <1>5, <1>7, ZenonT(30)
<1>9. ASSUME NEW x \in Known(published)
      PROVE  Position(h, x) = Position(published, x) /\ Position(h, x) < Position(h, m)
  <2>1. PICK k \in DOMAIN published : published[k].msg = x
    BY DEF Known
  <2>2. Position(published, x) = k
    BY <1>7, <2>1
  <2>3. Position(h, x) = k
    BY <1>2, <1>5, <1>7, <2>1
  <2>4. k < n + 1
    BY <1>3
  <2> QED BY <1>8, <2>2, <2>3, <2>4
<1>10. \A x \in Known(published) :
         Position(h, x) = Position(published, x) /\ Position(h, x) < Position(h, m)
  BY <1>9
<1> QED BY <1>2, <1>5, <1>6, <1>10

LEMMA PublishInOrder ==
  ASSUME OrderInv, AppPublish
  PROVE  OrderInv'
<1>1. PICK m : m = CHOOSE x \in Messages : x \notin Known(published)
  OBVIOUS
<1>2. PICK q \in QoSLevels :
        C!Publish(m, q) /\ published' = Append(published, Publication(m, q))
  BY <1>1 DEF AppPublish
<1>3. m \in Messages /\ m \notin Known(published) /\ q \in 0 .. 2
  BY <1>1, MessageLeft, SessionAssumption DEF AppPublish, OrderInv
<1>4. PICK h : h = published'
  OBVIOUS
<1>5. /\ h \in Seq([msg : Messages, qos : 0 .. 2]) /\ Distinct(h)
      /\ Known(h) = Known(published) \cup {m}
      /\ \A x \in Known(published) :
           Position(h, x) = Position(published, x) /\ Position(h, x) < Position(h, m)
  <2>1. Chosen /\ Distinct(published)
    BY DEF OrderInv
  <2>2. h = Append(published, Publication(m, q))
    BY <1>2, <1>4
  <2>3. m \in Messages /\ m \notin Known(published) /\ q \in 0 .. 2
    BY <1>3
  <2>4. /\ h \in Seq([msg : Messages, qos : 0 .. 2]) /\ Distinct(h)
        /\ Known(h) = Known(published) \cup {m}
    BY <2>1, <2>2, <2>3, NewPosition
  <2>5. ASSUME NEW x \in Known(published)
        PROVE  Position(h, x) = Position(published, x) /\ Position(h, x) < Position(h, m)
    BY <2>1, <2>2, <2>3, NewPosition, ZenonT(30)
  <2> QED BY <2>4, <2>5
<1>6. Ordered(c_pending, h)
  BY <1>5 DEF Ordered, OrderInv
<1>7. Ordered(c_pending', h)
  <2>1. CASE UNCHANGED c_pending
    BY <1>6, <2>1
  <2>2. ASSUME NEW id, c_pending' = Append(c_pending, C!Entry(C!PublishPacket(m, q, id), TRUE))
        PROVE  Ordered(c_pending', h)
    <3> DEFINE e == C!Entry(C!PublishPacket(m, q, id), TRUE)
               r == Append(c_pending, e)
    <3>1. Shaped(e) /\ OwnPublish(e) /\ e.packet.msg = m
      BY DEF C!Entry, C!PublishPacket, Shaped, OwnPublish
    <3> HIDE DEF e
    <3>2. c_pending \in Seq(Range(c_pending) \cup {e}) /\ e \in Range(c_pending) \cup {e}
      BY SeqMonotonic DEF Ordered, OrderInv, IsSequence
    <3>3. /\ Len(c_pending) \in Nat /\ DOMAIN c_pending = 1 .. Len(c_pending)
          /\ r \in Seq(Range(c_pending) \cup {e})
          /\ \A k \in DOMAIN r : \/ k \in DOMAIN c_pending /\ r[k] = c_pending[k]
                                 \/ k = Len(c_pending) + 1 /\ r[k] = e
      BY <3>2, LenProperties, AppendElements
    <3>4. IsSequence(r)
      BY <3>3, SequenceOf
    <3> HIDE DEF r
    <3>5. ASSUME NEW k \in DOMAIN r
          PROVE  Shaped(r[k]) /\ (OwnPublish(r[k]) => r[k].packet.msg \in Known(h))
      BY <1>5, <1>6, <3>1, <3>3 DEF Ordered
    <3>6. ASSUME NEW k \in DOMAIN r, NEW l \in DOMAIN r, k < l,
                 OwnPublish(r[k]), OwnPublish(r[l])
          PROVE  Position(h, r[k].packet.msg) < Position(h, r[l].packet.msg)
      <4>1. k \in DOMAIN c_pending /\ r[k] = c_pending[k]
        BY <3>3, <3>6
      <4>2. r[k].packet.msg \in Known(published)
        BY <3>6, <4>1 DEF OrderInv, Ordered
      <4>3. CASE l \in DOMAIN c_pending /\ r[l] = c_pending[l]
        BY <1>6, <3>6, <4>1, <4>3 DEF Ordered
      <4>4. CASE r[l] = e
        BY <1>5, <3>1, <4>2, <4>4
      <4> QED BY <3>3, <4>3, <4>4
    <3>7. Ordered(r, h)
      BY <3>4, <3>5, <3>6 DEF Ordered
    <3>8. c_pending' = r
      BY <2>2 DEF r, e
    <3> QED BY <3>7, <3>8
  <2> QED BY <1>2, <2>1, <2>2 DEF C!Publish, C!AddPending
<1> QED BY <1>4, <1>5, <1>7 DEF OrderInv, Chosen

LEMMA OrderInit == Init => OrderInv
<1> SUFFICES ASSUME Init PROVE OrderInv
  OBVIOUS
<1>1. c_pending = <<>> /\ published = <<>>
  BY DEF Init, C!Init
<1>2. IsSequence(<<>>) /\ DOMAIN <<>> = {}
  BY EmptySeq DEF IsSequence
<1>3. Ordered(<<>>, <<>>)
  BY <1>2 DEF Ordered
<1> QED BY <1>1, <1>2, <1>3, EmptySeq DEF OrderInv, Chosen, Distinct

LEMMA OrderNext == OrderInv /\ [Next]_vars => OrderInv'
<1> SUFFICES ASSUME OrderInv, [Next]_vars PROVE OrderInv'
  OBVIOUS
<1>1. ASSUME Ordered(c_pending', published), UNCHANGED published PROVE OrderInv'
  BY <1>1 DEF OrderInv, Chosen
<1>2. CASE UNCHANGED <<c_pending, published>>
  BY <1>1, <1>2 DEF OrderInv
<1>3. CASE \/ Open \/ Close \/ AppDisconnect \/ ClientFlush \/ BrokerFlush
           \/ BrokerReceive \/ BrokerHandle \/ BrokerDeliver \/ UNCHANGED vars
  <2>1. UNCHANGED <<c_pending, published>>
    BY <1>3 DEF Open, Close, AppDisconnect, ClientFlush, BrokerFlush, BrokerReceive,
       BrokerHandle, BrokerDeliver, vars, cVars, histories, C!Connect, C!Disconnect,
       C!Flush, C!GetOutboundData
  <2> QED BY <1>2, <2>1
<1>4. CASE ClientReceive
  <2>1. C!Receive(Head(b2c)) /\ UNCHANGED published
    BY <1>4 DEF ClientReceive
  <2>2. Ordered(c_pending', published)
    BY <2>1, ReceiveInOrder DEF OrderInv
  <2> QED BY <1>1, <2>1, <2>2
<1>5. CASE AppSubscriptions
  <2>1. /\ \E S : C!Subscribe(S) \/ C!Unsubscribe(S)
        /\ UNCHANGED published
    BY <1>5 DEF AppSubscriptions, histories
  <2>2. Ordered(c_pending', published)
    BY <2>1, RequestInOrder DEF OrderInv
  <2> QED BY <1>1, <2>1, <2>2
<1>6. CASE AppPublish
  BY <1>6, PublishInOrder
<1> QED BY <1>3, <1>4, <1>5, <1>6 DEF Next

(* The publishes that await an answer stand in the order of the publish()  *)
(* calls, which is the order a new connection resends them in: over any    *)
(* number of connections, with or without the session, and whatever the    *)
(* packet ids.  _pending_packets is a dict that is filled at its end, and  *)
(* the handlers pop its entries or change them in place.                   *)
THEOREM ResentInOrder == Spec => []PendingInOrder
<1>1. OrderInv => PendingInOrder
  BY DEF OrderInv, Ordered, OwnPublish, PendingInOrder
<1> QED BY <1>1, OrderInit, OrderNext, PTL DEF Spec
=============================================================================
