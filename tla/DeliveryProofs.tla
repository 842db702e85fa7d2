---------------------------- MODULE DeliveryProofs ----------------------------
(***************************************************************************)
(* While its first connection lasts, a session delivers what Delivery      *)
(* promises, in both directions and for every value of the constants: each *)
(* step of the two ends, the streams and the I/O layers between them is a  *)
(* step of Publishing and one of Delivering, or changes nothing of them.   *)
(*                                                                         *)
(* Two things carry this, next to the exchanges of SessionProofs.  The     *)
(* queues of a direction in a row, from the reader's end to the writer's,  *)
(* are one way (Rising, Falling), which holds the messages published but   *)
(* not arrived in the order of the publish calls (Arriving): a flush or a  *)
(* read moves a border between two queues and leaves the way as it is, a   *)
(* call adds at its end, and what arrives is its head.  And a publish of   *)
(* QoS 1 or 2 that is still on the way is in its sender's table and not    *)
(* RELEASED (Waiting), which the exchange of its packet id says: so a step *)
(* that takes an entry out of the table or releases it tells of a message  *)
(* that has arrived, and of one, since it touches the entry of one packet  *)
(* id (Tells).                                                             *)
(***************************************************************************)
EXTENDS SessionProofs

-----------------------------------------------------------------------------
(* One way                                                                 *)

Publications(Q) == [msg : Messages, qos : Q]

\* The packet p brings the message and the QoS of x.
Brings(p, x) == p.type = "PUBLISH" /\ x = Publication(p.msg, p.qos)

(* Of the messages of h the first n have arrived and the others are on     *)
(* their way w, in that order, and no other is.                            *)
Underway(w, h, n) ==
  /\ \A k \in DOMAIN w : w[k].type = "PUBLISH" =>
       \E j \in DOMAIN h : j > n /\ Brings(w[k], h[j])
  /\ \A k, l \in DOMAIN w, i, j \in DOMAIN h :
       k < l /\ Brings(w[k], h[i]) /\ Brings(w[l], h[j]) => i < j
  /\ \A j \in DOMAIN h : j > n => \E k \in DOMAIN w : Brings(w[k], h[j])

(* What was published arrives in order: r is the first of the messages h,  *)
(* and the rest is on its way.                                             *)
Arriving(Q, w, h, r) ==
  /\ h \in Seq(Publications(Q)) /\ r \in Seq(Publications(Q)) /\ Distinct(h)
  /\ \A i \in DOMAIN r : i \in DOMAIN h /\ r[i] = h[i]
  /\ Underway(w, h, Len(r))

\* Before the first message
LEMMA NothingUnderway == ASSUME NEW Q PROVE Arriving(Q, <<>>, <<>>, <<>>)
<1>1. <<>> \in Seq(Publications(Q)) /\ DOMAIN <<>> = {}
  BY EmptySeq
<1> QED BY <1>1 DEF Arriving, Underway, Distinct

\* A packet that is no PUBLISH joins the way at its end ...
LEMMA OtherJoins ==
  ASSUME NEW Q, NEW T, NEW w \in Seq(T), NEW h, NEW r, Arriving(Q, w, h, r),
         NEW e \in T, e.type # "PUBLISH"
  PROVE  Arriving(Q, Append(w, e), h, r)
<1> DEFINE v == Append(w, e)
           n == Len(r)
<1>1. /\ \A k \in DOMAIN w : k \in DOMAIN v /\ v[k] = w[k]
      /\ \A k \in DOMAIN v : v[k].type = "PUBLISH" => k \in DOMAIN w
  <2>1. /\ \A k \in DOMAIN w : k \in DOMAIN v /\ v[k] = w[k]
        /\ \A k \in DOMAIN v : k \in DOMAIN w \/ (k = Len(w) + 1 /\ v[k] = e)
    BY AppendElements
  <2> HIDE DEF v
  <2> QED BY <2>1
<1>2. Underway(w, h, n)
  BY DEF Arriving
<1> HIDE DEF v, n
<1>3. Underway(v, h, n)
  <2>1. ASSUME NEW k \in DOMAIN v, v[k].type = "PUBLISH"
        PROVE  \E j \in DOMAIN h : j > n /\ Brings(v[k], h[j])
    BY <1>1, <1>2, <2>1 DEF Underway
  <2>2. ASSUME NEW k \in DOMAIN v, NEW l \in DOMAIN v, NEW i \in DOMAIN h, NEW j \in DOMAIN h,
               k < l, Brings(v[k], h[i]), Brings(v[l], h[j])
        PROVE  i < j
    <3>1. k \in DOMAIN w /\ l \in DOMAIN w
      BY <1>1, <2>2 DEF Brings
    <3> QED BY <1>1, <1>2, <2>2, <3>1 DEF Underway
  <2>3. ASSUME NEW j \in DOMAIN h, j > n PROVE \E k \in DOMAIN v : Brings(v[k], h[j])
    BY <1>1, <1>2, <2>3 DEF Underway
  <2> QED BY <2>1, <2>2, <2>3 DEF Underway
<1> QED BY <1>3 DEF v, n, Arriving

\* ... and so does the PUBLISH of a new message.
LEMMA MessageJoins ==
  ASSUME NEW Q, NEW T, NEW w \in Seq(T), NEW h, NEW r, Arriving(Q, w, h, r),
         NEW e \in T, NEW x \in Publications(Q), Brings(e, x), x.msg \notin Known(h)
  PROVE  Arriving(Q, Append(w, e), Append(h, x), r)
<1> DEFINE v == Append(w, e)
           g == Append(h, x)
           n == Len(r)
           m == Len(h) + 1
<1>1. /\ \A k \in DOMAIN w : k \in DOMAIN v /\ v[k] = w[k]
      /\ \A k \in DOMAIN v : k \in DOMAIN w \/ (k = Len(w) + 1 /\ v[k] = e)
      /\ Len(w) + 1 \in DOMAIN v /\ v[Len(w) + 1] = e
  BY AppendElements
<1>2. /\ g \in Seq(Publications(Q))
      /\ \A k \in DOMAIN h : k \in DOMAIN g /\ g[k] = h[k]
      /\ \A k \in DOMAIN g : k \in DOMAIN h \/ (k = m /\ g[k] = x)
      /\ m \in DOMAIN g /\ g[m] = x
  BY AppendElements DEF Arriving
<1>3. /\ Underway(w, h, n) /\ Distinct(h) /\ r \in Seq(Publications(Q))
      /\ \A i \in DOMAIN r : i \in DOMAIN h /\ r[i] = h[i]
  BY DEF Arriving
<1>4. /\ n \in Nat /\ m \in Nat /\ m > 0 /\ \A k \in DOMAIN h : k \in Nat /\ k < m
      /\ \A k \in DOMAIN w : k \in Nat /\ k < Len(w) + 1
      /\ Len(w) \in Nat
  BY DomainOfSeq DEF Arriving
<1>5. n < m
  <2>1. n = 0 \/ n \in DOMAIN r
    BY <1>3, LenProperties
  <2> HIDE DEF n, m
  <2> QED BY <1>3, <1>4, <2>1
<1>6. \A k \in DOMAIN h : h[k].msg # x.msg
  BY DEF Known
<1> HIDE DEF v, g, n, m
<1>7. Distinct(g)
  BY <1>2, <1>3, <1>6 DEF Distinct
<1>8. /\ \A k \in DOMAIN w, j \in DOMAIN h : Brings(v[k], g[j]) <=> Brings(w[k], h[j])
      /\ \A j \in DOMAIN h : ~Brings(e, h[j])
      /\ \A k \in DOMAIN w : ~Brings(w[k], x)
  <2>1. \A k \in DOMAIN w, j \in DOMAIN h : Brings(v[k], g[j]) <=> Brings(w[k], h[j])
    BY <1>1, <1>2
  <2>2. \A p, y : Brings(p, y) => p.type = "PUBLISH" /\ p.msg = y.msg
    BY DEF Brings, Publication
  <2>3. \A j \in DOMAIN h : ~Brings(e, h[j])
    BY <1>6, <2>2
  <2>4. ASSUME NEW k \in DOMAIN w, Brings(w[k], x) PROVE FALSE
    <3>1. PICK j \in DOMAIN h : Brings(w[k], h[j])
      BY <1>3, <2>2, <2>4 DEF Underway
    <3> QED BY <1>6, <2>2, <2>4, <3>1
  <2> QED BY <2>1, <2>3, <2>4
<1>9. Underway(v, g, n)
  <2>1. ASSUME NEW k \in DOMAIN v, v[k].type = "PUBLISH"
        PROVE  \E j \in DOMAIN g : j > n /\ Brings(v[k], g[j])
    <3>1. CASE k \in DOMAIN w
      <4>1. PICK j \in DOMAIN h : j > n /\ Brings(w[k], h[j])
        BY <1>1, <1>3, <2>1, <3>1 DEF Underway
      <4> QED BY <1>1, <1>2, <3>1, <4>1
    <3>2. CASE v[k] = e
      BY <1>2, <1>4, <1>5, <3>2
    <3> QED BY <1>1, <3>1, <3>2
  <2>2. ASSUME NEW k \in DOMAIN v, NEW l \in DOMAIN v, NEW i \in DOMAIN g, NEW j \in DOMAIN g,
               k < l, Brings(v[k], g[i]), Brings(v[l], g[j])
        PROVE  i < j
    <3>1. CASE k \in DOMAIN w /\ l \in DOMAIN w
      <4>1. i \in DOMAIN h /\ j \in DOMAIN h
        BY <1>1, <1>2, <1>8, <2>2, <3>1
      <4> QED BY <1>3, <1>8, <2>2, <3>1, <4>1 DEF Underway
    <3>2. CASE k \in DOMAIN w /\ l \notin DOMAIN w
      <4>1. i \in DOMAIN h /\ v[l] = e
        BY <1>1, <1>2, <1>8, <2>2, <3>2
      <4>2. j = m
        BY <1>2, <1>8, <2>2, <4>1
      <4> QED BY <1>4, <4>1, <4>2
    <3>3. CASE k \notin DOMAIN w
      <4>1. k = Len(w) + 1 /\ (l \in DOMAIN w \/ l = Len(w) + 1)
        BY <1>1, <3>3
      <4> QED BY <1>4, <2>2, <4>1
    <3> QED BY <3>1, <3>2, <3>3
  <2>3. ASSUME NEW j \in DOMAIN g, j > n PROVE \E k \in DOMAIN v : Brings(v[k], g[j])
    <3>1. CASE j \in DOMAIN h
      BY <1>1, <1>2, <1>3, <2>3, <3>1 DEF Underway
    <3>2. CASE g[j] = x
      BY <1>1, <3>2
    <3> QED BY <1>2, <3>1, <3>2
  <2> QED BY <2>1, <2>2, <2>3 DEF Underway
<1>10. \A i \in DOMAIN r : i \in DOMAIN g /\ r[i] = g[i]
  BY <1>2, <1>3
<1> QED BY <1>2, <1>3, <1>7, <1>9, <1>10 DEF v, g, n, Arriving

\* A packet that is no PUBLISH leaves the way at its head.
LEMMA OtherLeaves ==
  ASSUME NEW Q, NEW T, NEW w \in Seq(T), w # <<>>, NEW h, NEW r, Arriving(Q, w, h, r),
         Head(w).type # "PUBLISH"
  PROVE  Arriving(Q, Tail(w), h, r)
<1> DEFINE v == Tail(w)
           n == Len(r)
<1>1. /\ 1 \in DOMAIN w /\ Head(w) = w[1]
      /\ \A k \in DOMAIN v : k + 1 \in DOMAIN w /\ v[k] = w[k + 1]
      /\ \A k \in DOMAIN w : k # 1 => k - 1 \in DOMAIN v
      /\ v \in Seq(T)
  BY TailElements
<1>2. Underway(w, h, n)
  BY DEF Arriving
<1> HIDE DEF v, n
<1>3. (\A k \in DOMAIN w : k \in Nat) /\ (\A k \in DOMAIN v : k \in Nat)
  BY <1>1, DomainOfSeq
<1>4. Underway(v, h, n)
  <2>1. ASSUME NEW k \in DOMAIN v, v[k].type = "PUBLISH"
        PROVE  \E j \in DOMAIN h : j > n /\ Brings(v[k], h[j])
    BY <1>1, <1>2, <2>1 DEF Underway
  <2>2. ASSUME NEW k \in DOMAIN v, NEW l \in DOMAIN v, NEW i \in DOMAIN h, NEW j \in DOMAIN h,
               k < l, Brings(v[k], h[i]), Brings(v[l], h[j])
        PROVE  i < j
    <3>1. k + 1 < l + 1
      BY <1>3, <2>2
    <3> QED BY <1>1, <1>2, <2>2, <3>1 DEF Underway
  <2>3. ASSUME NEW j \in DOMAIN h, j > n PROVE \E k \in DOMAIN v : Brings(v[k], h[j])
    <3>1. PICK k \in DOMAIN w : Brings(w[k], h[j])
      BY <1>2, <2>3 DEF Underway
    <3>2. k # 1
      BY <1>1, <3>1 DEF Brings
    <3>3. k - 1 \in DOMAIN v /\ v[k - 1] = w[k - 1 + 1] /\ k - 1 + 1 = k
      BY <1>1, <1>3, <3>2
    <3> QED BY <3>1, <3>3
  <2> QED BY <2>1, <2>2, <2>3 DEF Underway
<1> QED BY <1>4 DEF v, n, Arriving

\* A message at the head of the way is the next to arrive.
LEMMA MessageArrives ==
  ASSUME NEW Q, NEW T, NEW w \in Seq(T), w # <<>>, NEW h, NEW r, Arriving(Q, w, h, r),
         NEW x, Brings(Head(w), x)
  PROVE  /\ Len(r) < Len(h) /\ h[Len(r) + 1] = x
         /\ Arriving(Q, Tail(w), h, Append(r, x))
<1> DEFINE v == Tail(w)
           n == Len(r)
           s == Append(r, x)
<1>1. /\ 1 \in DOMAIN w /\ Head(w) = w[1]
      /\ \A k \in DOMAIN v : k + 1 \in DOMAIN w /\ v[k] = w[k + 1]
      /\ \A k \in DOMAIN w : k # 1 => k - 1 \in DOMAIN v
      /\ v \in Seq(T)
  BY TailElements
<1>2. /\ Underway(w, h, n) /\ Distinct(h) /\ r \in Seq(Publications(Q)) /\ h \in Seq(Publications(Q))
      /\ \A i \in DOMAIN r : i \in DOMAIN h /\ r[i] = h[i]
  BY DEF Arriving
<1>3. /\ n \in Nat /\ Len(h) \in Nat /\ DOMAIN h = 1 .. Len(h) /\ DOMAIN r = 1 .. n
      /\ \A k \in DOMAIN w : k \in Nat /\ k >= 1
  BY <1>2, DomainOfSeq
<1>4. \A k \in DOMAIN v : k \in Nat /\ k >= 1
  BY <1>1, DomainOfSeq
<1> HIDE DEF v, n
<1>5. PICK j \in DOMAIN h : j > n /\ Brings(w[1], h[j])
  BY <1>1, <1>2 DEF Underway, Brings
<1>6. h[j] = x
  BY <1>1, <1>5 DEF Brings
<1>7. j = n + 1
  <2> SUFFICES ASSUME j # n + 1 PROVE FALSE
    OBVIOUS
  <2>1. n + 1 \in DOMAIN h /\ n + 1 > n /\ n + 1 < j
    BY <1>3, <1>5
  <2>2. PICK k \in DOMAIN w : Brings(w[k], h[n + 1])
    BY <1>2, <2>1 DEF Underway
  <2>3. k # 1
    <3> SUFFICES ASSUME k = 1 PROVE FALSE
      OBVIOUS
    <3>1. h[n + 1] = h[j]
      BY <1>5, <2>2 DEF Brings
    <3> QED BY <1>2, <2>1, <3>1 DEF Distinct
  <2>4. 1 < k
    BY <1>3, <2>3
  <2>5. j < n + 1
    BY <1>1, <1>2, <1>5, <2>1, <2>2, <2>4 DEF Underway
  <2> QED BY <1>3, <2>1, <2>5
<1>8. n < Len(h) /\ h[n + 1] = x
  BY <1>3, <1>5, <1>6, <1>7
<1>9. /\ s \in Seq(Publications(Q)) /\ Len(s) = n + 1
      /\ \A i \in DOMAIN r : i \in DOMAIN s /\ s[i] = r[i]
      /\ \A i \in DOMAIN s : i \in DOMAIN r \/ (i = n + 1 /\ s[i] = x)
  <2>1. x \in Publications(Q)
    BY <1>2, <1>5, <1>6, ElementType
  <2> QED BY <1>2, <2>1, AppendElements DEF n
<1> HIDE DEF s
<1>10. \A i \in DOMAIN s : i \in DOMAIN h /\ s[i] = h[i]
  BY <1>2, <1>5, <1>6, <1>7, <1>9
<1>11. Underway(v, h, n + 1)
  <2>1. ASSUME NEW k \in DOMAIN v, v[k].type = "PUBLISH"
        PROVE  \E i \in DOMAIN h : i > n + 1 /\ Brings(v[k], h[i])
    <3>1. PICK i \in DOMAIN h : i > n /\ Brings(v[k], h[i])
      BY <1>1, <1>2, <2>1 DEF Underway
    <3>2. 1 < k + 1
      BY <1>4
    <3>3. j < i
      BY <1>1, <1>2, <1>5, <3>1, <3>2 DEF Underway
    <3> QED BY <1>3, <1>7, <3>1, <3>3
  <2>2. ASSUME NEW k \in DOMAIN v, NEW l \in DOMAIN v, NEW i \in DOMAIN h, NEW i2 \in DOMAIN h,
               k < l, Brings(v[k], h[i]), Brings(v[l], h[i2])
        PROVE  i < i2
    <3>1. k + 1 < l + 1
      BY <1>4, <2>2
    <3> QED BY <1>1, <1>2, <2>2, <3>1 DEF Underway
  <2>3. ASSUME NEW i \in DOMAIN h, i > n + 1 PROVE \E k \in DOMAIN v : Brings(v[k], h[i])
    <3>1. i > n /\ i # j
      BY <1>3, <1>7, <2>3
    <3>2. PICK k \in DOMAIN w : Brings(w[k], h[i])
      BY <1>2, <3>1 DEF Underway
    <3>3. k # 1
      <4> SUFFICES ASSUME k = 1 PROVE FALSE
        OBVIOUS
      <4>1. h[i] = h[j]
        BY <1>5, <3>2 DEF Brings
      <4> QED BY <1>2, <3>1, <4>1 DEF Distinct
    <3>4. k - 1 \in DOMAIN v /\ v[k - 1] = w[k - 1 + 1] /\ k - 1 + 1 = k
      BY <1>1, <1>3, <3>3
    <3> QED BY <3>2, <3>4
  <2> QED BY <2>1, <2>2, <2>3 DEF Underway
<1>12. Arriving(Q, v, h, s)
  BY <1>2, <1>9, <1>10, <1>11 DEF Arriving
<1> QED BY <1>8, <1>12 DEF v, n, s

-----------------------------------------------------------------------------
(* The ways                                                                *)

\* What two queues in a row hold is in one of them.
LEMMA ConcatRange ==
  ASSUME NEW T, NEW q \in Seq(T), NEW r \in Seq(T)
  PROVE  /\ q \o r \in Seq(T)
         /\ \A k \in DOMAIN (q \o r) :
              \/ \E i \in DOMAIN q : (q \o r)[k] = q[i]
              \/ \E i \in DOMAIN r : (q \o r)[k] = r[i]
<1> DEFINE s == q \o r
<1>1. /\ s \in Seq(T)
      /\ \A k \in DOMAIN q : k \in DOMAIN s /\ s[k] = q[k]
      /\ \A k \in DOMAIN s \ DOMAIN q : k - Len(q) \in DOMAIN r /\ s[k] = r[k - Len(q)]
  BY ConcatElements
<1> HIDE DEF s
<1>2. \A k \in DOMAIN s : \/ \E i \in DOMAIN q : s[k] = q[i]
                          \/ \E i \in DOMAIN r : s[k] = r[i]
  BY <1>1
<1> QED BY <1>1, <1>2 DEF s

-----------------------------------------------------------------------------
(* What is acknowledged has arrived                                        *)

\* An own publish that the other end has not answered
Untold(e) == OwnPublish(e) /\ e.ack_state # "RELEASED"

(* Every publish of QoS 1 or 2 that is on the way w is under a packet id   *)
(* other than id, and its sender has it in the table q, unanswered.        *)
Waiting(w, q, id) ==
  \A k \in DOMAIN w : w[k].type = "PUBLISH" /\ w[k].qos > 0 =>
    /\ w[k].packet_id # id
    /\ \E i \in DOMAIN q : Untold(q[i]) /\ q[i].packet = w[k]

(* When an end takes entries of one packet id out of its table or releases *)
(* them, and no PUBLISH of that id is on the way, at most one message is   *)
(* told of, and that one has arrived.                                      *)
LEMMA TellsOne ==
  ASSUME NEW Q, NEW w, NEW h, NEW r, Arriving(Q, w, h, r), NEW q, IsTable(q), NEW s, NEW id,
         SameBut(q, s, id), Unanswered(s) \subseteq Unanswered(q), Waiting(w, q, id)
  PROVE  \/ Acknowledged(h, s) = Acknowledged(h, q)
         \/ \E x \in ToSet(r) \ Acknowledged(h, q) :
              x.qos > 0 /\ Acknowledged(h, s) = Acknowledged(h, q) \cup {x}
<1>1. /\ h \in Seq(Publications(Q)) /\ Distinct(h) /\ Underway(w, h, Len(r))
      /\ r \in Seq(Publications(Q)) /\ \A i \in DOMAIN r : i \in DOMAIN h /\ r[i] = h[i]
  BY DEF Arriving
<1>2. Acknowledged(h, q) \subseteq Acknowledged(h, s)
  BY DEF Acknowledged
<1>3. SUFFICES ASSUME NEW x \in Acknowledged(h, s) \ Acknowledged(h, q)
               PROVE  x \in ToSet(r) /\ x.qos > 0 /\ Acknowledged(h, s) = Acknowledged(h, q) \cup {x}
  BY <1>2
<1>4. x \in ToSet(h) /\ x.qos > 0 /\ x.msg \in Unanswered(q) /\ x.msg \notin Unanswered(s)
  BY DEF Acknowledged
<1>5. \A i \in DOMAIN q : q[i].packet.packet_id # id /\ Untold(q[i])
        => q[i].packet.msg \in Unanswered(s)
  <2> SUFFICES ASSUME NEW i \in DOMAIN q, q[i].packet.packet_id # id, Untold(q[i])
               PROVE  q[i].packet.msg \in Unanswered(s)
    OBVIOUS
  <2>1. q[i] \in Under(s, q[i].packet.packet_id)
    <3>1. q[i] \in Under(q, q[i].packet.packet_id)
      BY DEF Under, Range
    <3> QED BY <3>1 DEF SameBut
  <2>2. PICK j \in DOMAIN s : s[j] = q[i]
    BY <2>1 DEF Under, Range
  <2> QED BY <2>2 DEF Untold, OwnPublish, Unanswered
<1>6. \A m : m \in Unanswered(q) /\ m \notin Unanswered(s) =>
        \E i \in DOMAIN q : q[i].packet.packet_id = id /\ q[i].packet.msg = m
  BY <1>5 DEF Unanswered, Untold, OwnPublish
<1>7. Acknowledged(h, s) = Acknowledged(h, q) \cup {x}
  <2> SUFFICES ASSUME NEW y \in Acknowledged(h, s) \ Acknowledged(h, q) PROVE y = x
    BY <1>2
  <2>1. y \in ToSet(h) /\ y.msg \in Unanswered(q) /\ y.msg \notin Unanswered(s)
    BY DEF Acknowledged
  <2>2. y.msg = x.msg
    BY <1>4, <1>6, <2>1 DEF IsTable
  <2> QED BY <1>1, <1>4, <2>1, <2>2 DEF Distinct, ToSet
<1>8. x \in ToSet(r)
  <2>1. PICK j \in DOMAIN h : h[j] = x
    BY <1>4 DEF ToSet
  <2>2. CASE j > Len(r)
    <3>1. PICK k \in DOMAIN w : Brings(w[k], x)
      BY <1>1, <2>1, <2>2 DEF Underway
    <3>2. w[k].type = "PUBLISH" /\ w[k].msg = x.msg /\ w[k].qos = x.qos
      BY <3>1 DEF Brings, Publication
    <3>3. PICK i \in DOMAIN q : Untold(q[i]) /\ q[i].packet = w[k] /\ w[k].packet_id # id
      BY <1>4, <3>2 DEF Waiting
    <3> QED BY <1>4, <1>5, <3>2, <3>3
  <2>3. CASE ~(j > Len(r))
    <3>1. j \in DOMAIN r
      BY <1>1, <2>3, DomainOfSeq
    <3> QED BY <1>1, <2>1, <3>1 DEF ToSet
  <2> QED BY <2>2, <2>3
<1> QED BY <1>4, <1>7, <1>8

\* A publish on its way to the broker is in the client's table ...
LEMMA PublishUp ==
  ASSUME NEW id, id \in Ids, Exchange(id), NEW p, p.type = "PUBLISH",
         \A X, Y, places, r : Stage(id, X, Y, places, r) =>
           r = p /\ (places \in {Up, Down, {"nowhere"}} => places = Up)
  PROVE  Under(c_pending, id) = Sent(p)
<1>1. Up # Down /\ Up # {"nowhere"}
  <2>1. "c_out" \in Up /\ "c_out" \notin Down /\ "c_out" # "nowhere"
    BY DEF Up, Down
  <2> QED BY <2>1
<1>2. \A X, Y, r : ~Stage(id, X, Y, Down, r) /\ ~Stage(id, X, Y, {"nowhere"}, r)
  BY <1>1
<1>3. /\ \A X, Y, places, r : Stage(id, X, Y, places, r) => r = p /\ Under(c_pending, id) = X
      /\ \A type : Ok(type, id).type = type
      /\ \A granted : C!SubAck(id, granted).type = "SUBACK"
  BY DEF Stage, Ok, C!Ack, C!SubAck
<1>4. ~Idle(id)
  BY <1>2 DEF Idle, Quiet
<1>5. \A r : ~Deliver(id, r)
  BY <1>2, <1>3 DEF Deliver
<1>6. \A r : Publish1(id, r) \/ Publish2(id, r) => Under(c_pending, id) = Sent(p)
  BY <1>2, <1>3 DEF Publish1, Publish2
<1>7. ASSUME NEW type \in {"SUBSCRIBE", "UNSUBSCRIBE"}, NEW r \in Requests(id, type)
      PROVE  ~Subscribe(id, r) /\ ~Unsubscribe(id, r)
  <2>1. r.type # "PUBLISH"
    BY <1>7 DEF Requests
  <2> QED BY <1>2, <1>3, <2>1 DEF Subscribe, Unsubscribe
<1> QED BY <1>4, <1>5, <1>6, <1>7 DEF Exchange, Delivery, Request

\* ... and one on its way to the client in the broker's.
LEMMA PublishDown ==
  ASSUME NEW id, id \in Ids, Exchange(id), NEW p, p.type = "PUBLISH",
         \A X, Y, places, r : Stage(id, X, Y, places, r) =>
           r = p /\ places # Up /\ places # {"inbox"} /\ places # {"nowhere"}
  PROVE  Under(b_pending, id) = SentAccepted(p)
<1>1. /\ \A X, Y, places, r : Stage(id, X, Y, places, r) => r = p /\ Under(b_pending, id) = Y
      /\ \A type : Ok(type, id).type = type
      /\ \A granted : C!SubAck(id, granted).type = "SUBACK"
  BY DEF Stage, Ok, C!Ack, C!SubAck
<1>2. ~Idle(id)
  BY DEF Idle, Quiet
<1>3. \A r : ~Publish1(id, r) /\ ~Publish2(id, r) /\ ~Subscribe(id, r) /\ ~Unsubscribe(id, r)
  BY <1>1 DEF Publish1, Publish2, Subscribe, Unsubscribe
<1>4. \A r : Deliver(id, r) => Under(b_pending, id) = SentAccepted(p)
  BY <1>1 DEF Deliver
<1> QED BY <1>2, <1>3, <1>4 DEF Exchange, Delivery, Request

\* Every own publish of the table s that is not answered is one of q.
Recedes(q, s) ==
  \A j \in DOMAIN s : Untold(s[j]) =>
    \E i \in DOMAIN q : Untold(q[i]) /\ q[i].packet = s[j].packet

LEMMA RecedesUnanswered ==
  ASSUME NEW q, NEW s, Recedes(q, s)
  PROVE  Unanswered(s) \subseteq Unanswered(q)
BY DEF Recedes, Unanswered, Untold, OwnPublish

\* The ways in which the handlers change the table
LEMMA RecedesKinds ==
  ASSUME NEW q, IsTable(q)
  PROVE  /\ Recedes(q, q)
         /\ \A i \in DOMAIN q : Recedes(q, RemoveAt(q, i))
         /\ \A i \in DOMAIN q : \A ack :
              ack = "RELEASED" \/ q[i].ack_state # "RELEASED"
              => Recedes(q, [q EXCEPT ![i].ack_state = ack])
         /\ \A e : ~Untold(e) => Recedes(q, Append(q, e))
         /\ \A i \in DOMAIN q : \A ack :
              ~q[i].own
              => Recedes(q, Append(RemoveAt(q, i), [q[i] EXCEPT !.ack_state = ack]))
<1>1. q \in Seq(C!Entries) /\ Len(q) \in Nat /\ DOMAIN q = 1 .. Len(q)
  BY LenProperties DEF IsTable
<1>2. Recedes(q, q)
  BY DEF Recedes
<1>3. ASSUME NEW i \in DOMAIN q, NEW j \in DOMAIN RemoveAt(q, i)
      PROVE  \E k \in DOMAIN q : RemoveAt(q, i)[j] = q[k]
  <2>1. /\ DOMAIN RemoveAt(q, i) = 1 .. Len(q) - 1
        /\ \A k \in 1 .. Len(q) - 1 : RemoveAt(q, i)[k] = IF k < i THEN q[k] ELSE q[k + 1]
    BY <1>1, RemoveAtElements
  <2>2. j \in DOMAIN q /\ j + 1 \in DOMAIN q
    BY <1>1, <2>1
  <2> QED BY <2>1, <2>2
<1>4. ASSUME NEW i \in DOMAIN q PROVE Recedes(q, RemoveAt(q, i))
  BY <1>3 DEF Recedes
<1>5. ASSUME NEW i \in DOMAIN q, NEW ack, NEW e, e = [q[i] EXCEPT !.ack_state = ack]
      PROVE  e.packet = q[i].packet /\ e.own = q[i].own /\ e.ack_state = ack
  <2>1. q[i] \in C!Entries
    BY TableEntry
  <2> QED BY <1>5, <2>1 DEF C!Entries
<1>6. ASSUME NEW i \in DOMAIN q, NEW ack, ack = "RELEASED" \/ q[i].ack_state # "RELEASED"
      PROVE  Recedes(q, [q EXCEPT ![i].ack_state = ack])
  <2> DEFINE s == [q EXCEPT ![i].ack_state = ack]
             e == [q[i] EXCEPT !.ack_state = ack]
  <2>1. DOMAIN s = DOMAIN q /\ s[i] = e /\ \A k \in DOMAIN q : k # i => s[k] = q[k]
    OBVIOUS
  <2>2. e.packet = q[i].packet /\ e.own = q[i].own /\ e.ack_state = ack
    BY <1>5
  <2> HIDE DEF e, s
  <2>3. Recedes(q, s)
    BY <1>6, <2>1, <2>2 DEF Recedes, Untold, OwnPublish
  <2> QED BY <2>3 DEF s
<1>7. ASSUME NEW S, NEW s \in Seq(S), NEW e, NEW j \in DOMAIN Append(s, e)
      PROVE  (j \in DOMAIN s /\ Append(s, e)[j] = s[j]) \/ Append(s, e)[j] = e
  <2>1. s \in Seq(S \cup {e}) /\ e \in S \cup {e}
    BY SeqMonotonic
  <2> QED BY <2>1, AppendElements
<1>8. ASSUME NEW e, ~Untold(e) PROVE Recedes(q, Append(q, e))
  BY <1>1, <1>7, <1>8 DEF Recedes
<1>9. ASSUME NEW i \in DOMAIN q, NEW ack, ~q[i].own
      PROVE  Recedes(q, Append(RemoveAt(q, i), [q[i] EXCEPT !.ack_state = ack]))
  <2> DEFINE e == [q[i] EXCEPT !.ack_state = ack]
             s == RemoveAt(q, i)
             t == Append(s, e)
  <2>1. e.packet = q[i].packet /\ e.own = q[i].own
    BY <1>5
  <2>2. s \in Seq(C!Entries)
    BY <1>1, RemoveAtType
  <2>3. Recedes(q, s)
    BY <1>4
  <2> HIDE DEF e, s
  <2>4. \A j \in DOMAIN t : (j \in DOMAIN s /\ t[j] = s[j]) \/ t[j] = e
    BY <1>7, <2>2
  <2> HIDE DEF t
  <2>5. Recedes(q, t)
    <3> SUFFICES ASSUME NEW j \in DOMAIN t, Untold(t[j])
                 PROVE  \E k \in DOMAIN q : Untold(q[k]) /\ q[k].packet = t[j].packet
      BY DEF Recedes
    <3>1. CASE j \in DOMAIN s /\ t[j] = s[j]
      BY <2>3, <3>1 DEF Recedes
    <3>2. CASE t[j] = e
      BY <1>9, <2>1, <3>2 DEF Untold, OwnPublish
    <3> QED BY <2>4, <3>1, <3>2
  <2> QED BY <2>5 DEF t, s, e
<1> QED BY <1>2, <1>4, <1>6, <1>8, <1>9

\* What an end that receives or answers a packet does: it answers with no PUBLISH.
Answers(q, s) == s = q \/ \E a : a.type # "PUBLISH" /\ s = Append(q, a)

\* The client's handlers
LEMMA ClientReacts ==
  ASSUME IsTable(c_pending), c_state = "CONNECTED", NEW p \in Traffic, C!Receive(p)
  PROVE  Answers(c_out, c_out') /\ Recedes(c_pending, c_pending')
<1>1. p.type \in {"PUBLISH", "PUBACK", "PUBREC", "PUBREL", "PUBCOMP", "SUBACK", "UNSUBACK",
                  "SUBSCRIBE", "UNSUBSCRIBE"}
  BY DEF Traffic, C!Publishes, C!Acks, C!SubscriptionRequests
<1>2. /\ Answers(c_out, c_out)
      /\ \A type, id, reason : type # "PUBLISH"
           => Answers(c_out, Append(c_out, C!Ack(type, id, reason)))
  BY DEF C!Ack, Answers
<1>3. Answers(c_out, Append(c_out, C!InUse(p)))
  BY DEF C!InUse, C!SubAck, C!Ack, Answers
<1>4. \A i : i \in C!Slots(p.packet_id) =>
        /\ Recedes(c_pending, C!RemoveAt(c_pending, i))
        /\ Recedes(c_pending, [c_pending EXCEPT ![i].ack_state = "RELEASED"])
  BY ClientSlots, RemoveAtOfEnds, RecedesKinds
<1>5. /\ Recedes(c_pending, c_pending)
      /\ \A e : ~Untold(e) => Recedes(c_pending, Append(c_pending, e))
  BY RecedesKinds
<1>6. CASE C!ReceivePublish(p)
  <2>1. \/ UNCHANGED <<c_pending, c_out>>
        \/ C!AddPending(p, FALSE)
        \/ UNCHANGED c_pending /\ C!Send(C!Ack("PUBACK", p.packet_id, "SUCCESS"))
        \/ /\ c_pending' = Append(c_pending, Entry(p, FALSE, "ACKNOWLEDGED"))
           /\ C!Send(C!Ack("PUBREC", p.packet_id, "SUCCESS"))
    BY <1>6 DEF C!ReceivePublish, Entry
  <2>2. ~Untold(Entry(p, FALSE, "ACKNOWLEDGED")) /\ ~Untold(C!Entry(p, FALSE))
    BY DEF Entry, C!Entry, Untold, OwnPublish
  <2>3. CASE C!AddPending(p, FALSE)
    <3>1. \/ c_pending' = Append(c_pending, C!Entry(p, FALSE)) /\ c_out' = c_out
          \/ UNCHANGED c_pending /\ c_out' = Append(c_out, C!InUse(p))
      BY <2>3 DEF C!AddPending
    <3> QED BY <1>2, <1>3, <1>5, <2>2, <3>1
  <2> QED BY <1>2, <1>5, <2>1, <2>2, <2>3 DEF C!Send
<1>7. CASE C!ReceivePubRec(p)
  <2>1. \/ UNCHANGED c_pending
        \/ \E i \in C!Slots(p.packet_id) : c_pending' = [c_pending EXCEPT ![i].ack_state = "RELEASED"]
    BY <1>7 DEF C!ReceivePubRec, C!Fail
  <2>2. c_out' = c_out \/ \E type \in {"PUBREL"} : \E reason : c_out' = Append(c_out, C!Ack(type, p.packet_id, reason))
    <3>1. CASE C!Slots(p.packet_id) = {} /\ C!Send(C!Ack("PUBREL", p.packet_id, "PACKET_IDENTIFIER_NOT_FOUND"))
      BY <3>1 DEF C!Send
    <3>2. CASE C!Send(C!Ack("PUBREL", p.packet_id, "SUCCESS"))
      BY <3>2 DEF C!Send
    <3>3. CASE UNCHANGED c_out
      BY <3>3
    <3> QED BY <1>7, <3>1, <3>2, <3>3, Zenon DEF C!ReceivePubRec, C!Fail
  <2>3. Answers(c_out, c_out')
    BY <1>2, <2>2
  <2> QED BY <1>4, <1>5, <2>1, <2>3
<1>8. CASE C!ReceivePubRel(p)
  BY <1>2, <1>4, <1>5, <1>8 DEF C!ReceivePubRel, C!Fail, C!Send
<1>9. CASE \/ C!ReceivePubAck(p) \/ C!ReceivePubComp(p)
           \/ C!ReceiveSubAck(p) \/ C!ReceiveUnsubAck(p)
  BY <1>2, <1>4, <1>5, <1>9 DEF C!ReceivePubAck, C!ReceivePubComp, C!ReceiveSubAck,
     C!ReceiveUnsubAck, C!ReceiveRequestAck, C!Fail
<1>10. CASE p.type \in {"SUBSCRIBE", "UNSUBSCRIBE"}
  <2>1. ~C!Accepts(C!ClientAccepting, p)
    BY <1>10 DEF C!Accepts, C!ClientAccepting, C!BaseAccepting
  <2>2. UNCHANGED <<c_pending, c_out>>
    BY <2>1 DEF C!Receive, C!ReceiveAccepted, C!ReceiveRefused, C!Fail
  <2> QED BY <1>2, <1>5, <2>2
<1> QED BY <1>1, <1>6, <1>7, <1>8, <1>9, <1>10, ClientAccepts

\* The handlers of the broker's session
LEMMA BrokerReacts ==
  ASSUME IsTable(b_pending), b_state = "CONNECTED", NEW p \in Traffic, B!Receive(p)
  PROVE  Answers(b_out, b_out') /\ Recedes(b_pending, b_pending')
<1>1. p.type \in {"PUBLISH", "PUBACK", "PUBREC", "PUBREL", "PUBCOMP", "SUBACK", "UNSUBACK",
                  "SUBSCRIBE", "UNSUBSCRIBE"}
  BY DEF Traffic, C!Publishes, C!Acks, C!SubscriptionRequests
<1>2. /\ Answers(b_out, b_out)
      /\ \A type, id, reason : type # "PUBLISH"
           => Answers(b_out, Append(b_out, B!Ack(type, id, reason)))
  BY DEF B!Ack, Answers
<1>3. Answers(b_out, Append(b_out, B!InUse(p)))
  BY DEF B!InUse, B!SubAck, B!Ack, Answers
<1>4. \A i : i \in B!Slots(p.packet_id) =>
        /\ Recedes(b_pending, B!RemoveAt(b_pending, i))
        /\ Recedes(b_pending, [b_pending EXCEPT ![i].ack_state = "RELEASED"])
        /\ b_pending[i].ack_state # "RELEASED"
             => Recedes(b_pending, [b_pending EXCEPT ![i].ack_state = "ACKNOWLEDGED"])
  BY BrokerSlots, RemoveAtOfEnds, RecedesKinds
<1>5. /\ Recedes(b_pending, b_pending)
      /\ \A e : ~Untold(e) => Recedes(b_pending, Append(b_pending, e))
  BY RecedesKinds
<1>6. ASSUME B!AddPending(p, FALSE)
      PROVE  Answers(b_out, b_out') /\ Recedes(b_pending, b_pending')
  <2>1. \/ b_pending' = Append(b_pending, B!Entry(p, FALSE)) /\ b_out' = b_out
        \/ UNCHANGED b_pending /\ b_out' = Append(b_out, B!InUse(p))
    BY <1>6 DEF B!AddPending
  <2>2. ~Untold(B!Entry(p, FALSE))
    BY DEF B!Entry, Untold, OwnPublish
  <2> QED BY <1>2, <1>3, <1>5, <2>1, <2>2
<1>7. CASE B!ReceivePublish(p)
  <2>1. UNCHANGED <<b_pending, b_out>> \/ B!AddPending(p, FALSE)
    BY <1>7 DEF B!ReceivePublish
  <2> QED BY <1>2, <1>5, <1>6, <2>1
<1>8. CASE B!ReceivePubRec(p)
  <2>1. \/ UNCHANGED b_pending
        \/ \E i \in B!Slots(p.packet_id) :
             /\ b_pending[i].ack_state # "RELEASED"
             /\ b_pending' = [b_pending EXCEPT ![i].ack_state = "ACKNOWLEDGED"]
    BY <1>8 DEF B!ReceivePubRec, B!Fail, B!Awaits
  <2>2. Answers(b_out, b_out')
    BY <1>2, <1>8 DEF B!ReceivePubRec, B!Fail, B!Send
  <2> QED BY <1>4, <1>5, <2>1, <2>2
<1>9. CASE B!ReceivePubRel(p)
  <2>1. \/ UNCHANGED b_pending
        \/ \E i \in B!Slots(p.packet_id) : b_pending' = [b_pending EXCEPT ![i].ack_state = "RELEASED"]
    BY <1>9 DEF B!ReceivePubRel, B!Fail
  <2>2. Answers(b_out, b_out')
    BY <1>2, <1>9 DEF B!ReceivePubRel, B!Fail, B!Send
  <2> QED BY <1>4, <1>5, <2>1, <2>2
<1>10. CASE B!ReceivePubAck(p) \/ B!ReceivePubComp(p)
  BY <1>2, <1>4, <1>5, <1>10 DEF B!ReceivePubAck, B!ReceivePubComp, B!Fail
<1>11. CASE B!ReceiveSubscribe(p)
  BY <1>6, <1>11 DEF B!ReceiveSubscribe
<1>12. CASE B!ReceiveUnsubscribe(p)
  <2>1. \/ B!AddPending(p, FALSE)
        \/ /\ b_pending' = Append(b_pending, B!Entry(p, FALSE))
           /\ B!Send(B!Ack("UNSUBACK", p.packet_id, "SUCCESS"))
    BY <1>12 DEF B!ReceiveUnsubscribe
  <2>2. ~Untold(B!Entry(p, FALSE))
    BY DEF B!Entry, Untold, OwnPublish
  <2> QED BY <1>2, <1>5, <1>6, <2>1, <2>2 DEF B!Send
<1>13. CASE p.type \in {"SUBACK", "UNSUBACK"}
  <2>1. ~B!Accepts(B!BrokerAccepting, p)
    BY <1>13 DEF B!Accepts, B!BrokerAccepting, B!BaseAccepting
  <2>2. UNCHANGED <<b_pending, b_out>>
    BY <2>1 DEF B!Receive, B!ReceiveAccepted, B!ReceiveRefused, B!Fail
  <2> QED BY <1>2, <1>5, <2>2
<1> QED BY <1>1, <1>7, <1>8, <1>9, <1>10, <1>11, <1>12, <1>13, BrokerAccepts

\* The answers to a packet that the client made the request of
LEMMA AnswerReacts ==
  ASSUME IsTable(b_pending), NEW p \in Traffic, Answer(p) \/ AnswerSubscribe(p),
         Under(b_pending, p.packet_id) = Taken(p)
  PROVE  Answers(b_out, b_out') /\ Recedes(b_pending, b_pending')
<1>1. /\ Answers(b_out, b_out)
      /\ \A type, id, reason : type # "PUBLISH"
           => Answers(b_out, Append(b_out, B!Ack(type, id, reason)))
      /\ \A id, granted : Answers(b_out, Append(b_out, B!SubAck(id, granted)))
  BY DEF B!Ack, B!SubAck, Answers
<1>2. ASSUME NEW i \in B!Slots(p.packet_id) PROVE ~b_pending[i].own
  <2>1. b_pending[i] \in Under(b_pending, p.packet_id)
    BY DEF B!Slots, Under, Range
  <2> QED BY <2>1 DEF Taken, Entry
<1>3. \A i : i \in B!Slots(p.packet_id) =>
        /\ Recedes(b_pending, B!RemoveAt(b_pending, i))
        /\ \A ack : Recedes(b_pending, Append(B!RemoveAt(b_pending, i),
                                              [b_pending[i] EXCEPT !.ack_state = ack]))
  BY <1>2, BrokerSlots, RemoveAtOfEnds, RecedesKinds
<1>4. Recedes(b_pending, b_pending)
  BY RecedesKinds
<1>5. p.type # "CONNECT"
  BY DEF Traffic, C!Publishes, C!Acks, C!SubscriptionRequests
<1>6. CASE B!AcknowledgePublish(p.packet_id, "SUCCESS")
  BY <1>1, <1>3, <1>4, <1>6 DEF B!AcknowledgePublish, B!Fail, B!Send
<1>7. CASE B!AcknowledgeSubscribe(p.packet_id, [s \in Patterns |-> 0])
  BY <1>1, <1>3, <1>4, <1>7 DEF B!AcknowledgeSubscribe, B!Fail, B!Send
<1> QED BY <1>5, <1>6, <1>7 DEF Answer, AnswerSubscribe

\* A publish that the broker has yet to handle is in the client's table, unless
\* it is under a packet id of which no packet is on its way.
LEMMA WaitingUp ==
  ASSUME Connected, NEW id, None(c_out, Of(id)), None(c2b, Of(id)), None(inbox, Due(id))
  PROVE  Waiting((inbox \o c2b) \o c_out, c_pending, id)
<1>1. Queues /\ \A j \in Ids : Exchange(j)
  BY DEF Connected
<1>2. inbox \o c2b \in Seq(Traffic)
  BY <1>1, ConcatRange DEF Queues
<1> DEFINE w == (inbox \o c2b) \o c_out
<1>3. SUFFICES ASSUME NEW k \in DOMAIN w, w[k].type = "PUBLISH", w[k].qos > 0
               PROVE  /\ w[k].packet_id # id
                      /\ \E i \in DOMAIN c_pending :
                           Untold(c_pending[i]) /\ c_pending[i].packet = w[k]
  BY DEF Waiting
<1>4. PICK p : p = w[k]
  OBVIOUS
<1>5. \/ \E i \in DOMAIN c_out : c_out[i] = p
      \/ \E i \in DOMAIN c2b : c2b[i] = p
      \/ \E i \in DOMAIN inbox : inbox[i] = p
  <2>1. \/ \E i \in DOMAIN (inbox \o c2b) : p = (inbox \o c2b)[i]
        \/ \E i \in DOMAIN c_out : p = c_out[i]
    BY <1>1, <1>2, <1>3, <1>4, ConcatRange DEF Queues
  <2>2. \A i \in DOMAIN (inbox \o c2b) :
          \/ \E j \in DOMAIN inbox : (inbox \o c2b)[i] = inbox[j]
          \/ \E j \in DOMAIN c2b : (inbox \o c2b)[i] = c2b[j]
    BY <1>1, ConcatRange DEF Queues
  <2> QED BY <2>1, <2>2
<1>6. p \in Traffic
  BY <1>1, <1>5, ElementType DEF Queues
<1>7. p.type = "PUBLISH" /\ p.qos > 0
  BY <1>3, <1>4
<1> HIDE DEF w
<1>8. PICK j : j = p.packet_id
  OBVIOUS
<1>9. j \in Ids /\ p \in Of(j)
  BY <1>6, <1>7, <1>8, TrafficKinds
<1>10. p \in Due(j)
  BY <1>7, <1>9 DEF Due, NeedsAnswer
<1>11. ~None(c_out, Of(j)) \/ ~None(c2b, Of(j)) \/ ~None(inbox, Due(j))
  BY <1>5, <1>9, <1>10 DEF None
<1>12. j # id
  BY <1>11
<1>13. \A q, S, x : Sole(q, S, x) /\ (\E i \in DOMAIN q : q[i] = p) /\ p \in S => x = p
  BY DEF Sole
<1>14. ASSUME NEW X, NEW Y, NEW places, NEW r, Stage(j, X, Y, places, r)
       PROVE  r = p /\ (places \in {Up, Down, {"nowhere"}} => places = Up)
  <2>1. PICK place \in places : OnWay(j, place, r)
    BY <1>14 DEF Stage
  <2>2. /\ Holds(c_out, Of(j), place = "c_out", r)
        /\ Holds(c2b, Of(j), place = "c2b", r)
        /\ Holds(inbox, Due(j), place = "inbox", r)
    BY <2>1 DEF OnWay
  <2>3. CASE \E i \in DOMAIN c_out : c_out[i] = p
    <3>1. ~None(c_out, Of(j))
      BY <1>9, <2>3 DEF None
    <3>2. place = "c_out" /\ Sole(c_out, Of(j), r)
      BY <2>2, <3>1 DEF Holds
    <3>3. r = p
      BY <1>9, <1>13, <2>3, <3>2
    <3> QED BY <2>1, <3>2, <3>3 DEF Down
  <2>4. CASE \E i \in DOMAIN c2b : c2b[i] = p
    <3>1. ~None(c2b, Of(j))
      BY <1>9, <2>4 DEF None
    <3>2. place = "c2b" /\ Sole(c2b, Of(j), r)
      BY <2>2, <3>1 DEF Holds
    <3>3. r = p
      BY <1>9, <1>13, <2>4, <3>2
    <3> QED BY <2>1, <3>2, <3>3 DEF Down
  <2>5. CASE \E i \in DOMAIN inbox : inbox[i] = p
    <3>1. ~None(inbox, Due(j))
      BY <1>10, <2>5 DEF None
    <3>2. place = "inbox" /\ Sole(inbox, Due(j), r)
      BY <2>2, <3>1 DEF Holds
    <3>3. r = p
      BY <1>10, <1>13, <2>5, <3>2
    <3> QED BY <2>1, <3>2, <3>3 DEF Down, Up
  <2> QED BY <1>5, <2>3, <2>4, <2>5
<1>15. Under(c_pending, j) = Sent(p)
  BY <1>1, <1>7, <1>9, <1>14, PublishUp
<1>16. PICK i \in DOMAIN c_pending : c_pending[i] = Entry(p, TRUE, "UNACKNOWLEDGED")
  BY <1>15 DEF Under, Sent, Range
<1>17. Untold(c_pending[i]) /\ c_pending[i].packet = p
  BY <1>7, <1>16 DEF Entry, Untold, OwnPublish
<1> QED BY <1>4, <1>8, <1>12, <1>17

\* The same of a message that the client has yet to read.
LEMMA WaitingDown ==
  ASSUME Connected, NEW id, None(b_out, Of(id)), None(b2c, Of(id))
  PROVE  Waiting(b2c \o b_out, b_pending, id)
<1>1. Queues /\ \A j \in Ids : Exchange(j)
  BY DEF Connected
<1> DEFINE w == b2c \o b_out
<1>2. SUFFICES ASSUME NEW k \in DOMAIN w, w[k].type = "PUBLISH", w[k].qos > 0
               PROVE  /\ w[k].packet_id # id
                      /\ \E i \in DOMAIN b_pending :
                           Untold(b_pending[i]) /\ b_pending[i].packet = w[k]
  BY DEF Waiting
<1>3. PICK p : p = w[k]
  OBVIOUS
<1>4. (\E i \in DOMAIN b2c : b2c[i] = p) \/ (\E i \in DOMAIN b_out : b_out[i] = p)
  BY <1>1, <1>2, <1>3, ConcatRange DEF Queues
<1>5. p \in Traffic
  BY <1>1, <1>4, ElementType DEF Queues
<1>6. p.type = "PUBLISH" /\ p.qos > 0
  BY <1>2, <1>3
<1> HIDE DEF w
<1>7. PICK j : j = p.packet_id
  OBVIOUS
<1>8. j \in Ids /\ p \in Of(j)
  BY <1>5, <1>6, <1>7, TrafficKinds
<1>9. j # id
  BY <1>4, <1>8 DEF None
<1>10. \A q, x : Sole(q, Of(j), x) /\ (\E i \in DOMAIN q : q[i] = p) => x = p
  BY <1>8 DEF Sole
<1>11. ASSUME NEW X, NEW Y, NEW places, NEW r, Stage(j, X, Y, places, r)
       PROVE  r = p /\ places # Up /\ places # {"inbox"} /\ places # {"nowhere"}
  <2>1. PICK place \in places : OnWay(j, place, r)
    BY <1>11 DEF Stage
  <2>2. /\ Holds(b_out, Of(j), place = "b_out", r)
        /\ Holds(b2c, Of(j), place = "b2c", r)
    BY <2>1 DEF OnWay
  <2>3. CASE \E i \in DOMAIN b_out : b_out[i] = p
    <3>1. ~None(b_out, Of(j))
      BY <1>8, <2>3 DEF None
    <3>2. place = "b_out" /\ Sole(b_out, Of(j), r)
      BY <2>2, <3>1 DEF Holds
    <3>3. r = p
      BY <1>10, <2>3, <3>2
    <3> QED BY <2>1, <3>2, <3>3 DEF Up
  <2>4. CASE \E i \in DOMAIN b2c : b2c[i] = p
    <3>1. ~None(b2c, Of(j))
      BY <1>8, <2>4 DEF None
    <3>2. place = "b2c" /\ Sole(b2c, Of(j), r)
      BY <2>2, <3>1 DEF Holds
    <3>3. r = p
      BY <1>10, <2>4, <3>2
    <3> QED BY <2>1, <3>2, <3>3 DEF Up
  <2> QED BY <1>4, <2>3, <2>4
<1>12. Under(b_pending, j) = SentAccepted(p)
  BY <1>1, <1>6, <1>8, <1>11, PublishDown
<1>13. PICK i \in DOMAIN b_pending : b_pending[i] = Entry(p, TRUE, "ACKNOWLEDGED")
  BY <1>12 DEF Under, SentAccepted, Range
<1>14. Untold(b_pending[i]) /\ b_pending[i].packet = p
  BY <1>6, <1>13 DEF Entry, Untold, OwnPublish
<1> QED BY <1>3, <1>7, <1>9, <1>14

-----------------------------------------------------------------------------
(* What a step does to a direction                                         *)

(* A step of Delivery, or none: the messages h that were published, the    *)
(* messages r that arrived and those that are told become g, s and ended.  *)
Moves(Q, h, r, done, g, s, ended) ==
  \/ g = h /\ s = r /\ ended = done
  \/ \E x \in Publications(Q) : x.msg \notin Known(h) /\ g = Append(h, x) /\ s = r /\ ended = done
  \/ Len(r) < Len(h) /\ g = h /\ s = Append(r, h[Len(r) + 1]) /\ ended = done
  \/ \E x \in Publications(Q) :
       x.qos > 0 /\ x \in ToSet(r) \ done /\ g = h /\ s = r /\ ended = done \cup {x}

\* An answer at the end of the way's last queue
LEMMA AnswerJoins ==
  ASSUME NEW Q, NEW T, NEW u \in Seq(T), NEW q \in Seq(T), NEW s, Answers(q, s),
         NEW h, NEW r, Arriving(Q, u \o q, h, r)
  PROVE  Arriving(Q, u \o s, h, r)
<1>1. CASE s = q
  BY <1>1
<1>2. ASSUME NEW a, a.type # "PUBLISH", s = Append(q, a)
      PROVE  Arriving(Q, u \o s, h, r)
  <2> DEFINE S == T \cup {a}
  <2>1. u \in Seq(S) /\ q \in Seq(S) /\ a \in S
    BY SeqMonotonic
  <2> HIDE DEF S
  <2>2. u \o q \in Seq(S) /\ u \o s = Append(u \o q, a)
    BY <1>2, <2>1, ConcatAppend, ConcatRange
  <2>3. Arriving(Q, Append(u \o q, a), h, r)
    BY <1>2, <2>1, <2>2, OtherJoins
  <2> QED BY <2>2, <2>3
<1> QED BY <1>1, <1>2 DEF Answers

\* Reading the head of the way, whatever it is, is Arrive or nothing.
LEMMA HeadArrives ==
  ASSUME NEW Q, NEW T, NEW w \in Seq(T), w # <<>>, NEW h, NEW r, Arriving(Q, w, h, r), NEW done, NEW s,
         s = IF Head(w).type = "PUBLISH" THEN Append(r, Publication(Head(w).msg, Head(w).qos))
             ELSE r
  PROVE  Arriving(Q, Tail(w), h, s) /\ Moves(Q, h, r, done, h, s, done)
<1>1. CASE Head(w).type = "PUBLISH"
  <2>1. PICK x : x = Publication(Head(w).msg, Head(w).qos)
    OBVIOUS
  <2>2. Brings(Head(w), x) /\ s = Append(r, x)
    BY <1>1, <2>1 DEF Brings
  <2>3. /\ Len(r) < Len(h) /\ h[Len(r) + 1] = x
        /\ Arriving(Q, Tail(w), h, Append(r, x))
    BY <2>2, MessageArrives
  <2> QED BY <2>2, <2>3 DEF Moves
<1>2. CASE Head(w).type # "PUBLISH"
  <2>1. Arriving(Q, Tail(w), h, r) /\ s = r
    BY <1>2, OtherLeaves
  <2> QED BY <2>1 DEF Moves
<1> QED BY <1>1, <1>2

\* A handler that takes entries out of the table or releases them tells of one
\* message or of none.
LEMMA Tells ==
  ASSUME NEW Q, NEW w, NEW h, NEW r, Arriving(Q, w, h, r), NEW q, IsTable(q), NEW s, NEW id,
         SameBut(q, s, id), Recedes(q, s), Waiting(w, q, id)
  PROVE  Moves(Q, h, r, Acknowledged(h, q), h, r, Acknowledged(h, s))
<1>1. \/ Acknowledged(h, s) = Acknowledged(h, q)
      \/ \E x \in ToSet(r) \ Acknowledged(h, q) :
           x.qos > 0 /\ Acknowledged(h, s) = Acknowledged(h, q) \cup {x}
  BY RecedesUnanswered, TellsOne
<1>2. ToSet(r) \subseteq Publications(Q)
  BY ElementType DEF Arriving, ToSet
<1> QED BY <1>1, <1>2 DEF Moves

\* A new message is not told as long as its publish is pending.
LEMMA MessageAwaits ==
  ASSUME NEW Q, NEW h \in Seq(Publications(Q)), NEW x \in Publications(Q), x.msg \notin Known(h),
         NEW S, NEW q \in Seq(S), NEW s,
         \/ s = q /\ x.qos = 0
         \/ \E e \in S : s = Append(q, e) /\ Untold(e) /\ e.packet.msg = x.msg
  PROVE  Acknowledged(Append(h, x), s) = Acknowledged(h, q)
<1> DEFINE g == Append(h, x)
<1>1. /\ \A k \in DOMAIN h : k \in DOMAIN g /\ g[k] = h[k]
      /\ \A k \in DOMAIN g : k \in DOMAIN h \/ (k = Len(h) + 1 /\ g[k] = x)
      /\ Len(h) + 1 \in DOMAIN g /\ g[Len(h) + 1] = x
  BY AppendElements
<1> HIDE DEF g
<1>2. ToSet(g) = ToSet(h) \cup {x}
  BY <1>1 DEF ToSet
<1>3. \A y \in ToSet(h) : y.msg # x.msg
  BY DEF Known, ToSet
<1>4. CASE s = q /\ x.qos = 0
  <2>1. Acknowledged(g, s) = Acknowledged(h, q)
    BY <1>2, <1>4 DEF Acknowledged
  <2> QED BY <2>1 DEF g
<1>5. ASSUME NEW e \in S, s = Append(q, e), Untold(e), e.packet.msg = x.msg
      PROVE  Acknowledged(g, s) = Acknowledged(h, q)
  <2>1. /\ \A k \in DOMAIN q : k \in DOMAIN s /\ s[k] = q[k]
        /\ \A k \in DOMAIN s : k \in DOMAIN q \/ (k = Len(q) + 1 /\ s[k] = e)
        /\ Len(q) + 1 \in DOMAIN s /\ s[Len(q) + 1] = e
    BY <1>5, AppendElements
  <2>2. Unanswered(s) = Unanswered(q) \cup {x.msg}
    BY <1>5, <2>1 DEF Unanswered, Untold, OwnPublish
  <2> QED BY <1>2, <1>3, <2>2 DEF Acknowledged
<1> QED BY <1>4, <1>5 DEF g

\* A request that is no publish tells of nothing.
LEMMA OtherAwaits ==
  ASSUME NEW S, NEW q \in Seq(S), NEW e \in S, ~Untold(e), NEW h
  PROVE  Acknowledged(h, Append(q, e)) = Acknowledged(h, q)
<1> DEFINE s == Append(q, e)
<1>1. /\ \A k \in DOMAIN q : k \in DOMAIN s /\ s[k] = q[k]
      /\ \A k \in DOMAIN s : k \in DOMAIN q \/ (k = Len(q) + 1 /\ s[k] = e)
  BY AppendElements
<1> HIDE DEF s
<1>2. Unanswered(s) = Unanswered(q)
  BY <1>1 DEF Unanswered, Untold, OwnPublish
<1> QED BY <1>2 DEF s, Acknowledged

-----------------------------------------------------------------------------
(* The steps of the two ends                                               *)

\* What is on its way to the broker, and to the client
Rising  == Arriving(QoSLevels, (inbox \o c2b) \o c_out, published, received)
Falling == Arriving(DeliveryQoS, b2c \o b_out, delivered, got)

\* What a step does to the directions
RisingMoves ==
  Moves(QoSLevels, published, received, Acknowledged(published, c_pending),
        published', received', Acknowledged(published', c_pending'))

FallingMoves ==
  Moves(DeliveryQoS, delivered, got, Acknowledged(delivered, b_pending),
        delivered', got', Acknowledged(delivered', b_pending'))

\* Steps that leave a direction alone
LEMMA Stands ==
  /\ UNCHANGED <<published, received, c_pending>> => RisingMoves
  /\ UNCHANGED <<delivered, got, b_pending>> => FallingMoves
  /\ UNCHANGED <<inbox, c2b, c_out, published, received>> => (Rising => Rising')
  /\ UNCHANGED <<b2c, b_out, delivered, got>> => (Falling => Falling')
<1>1. UNCHANGED <<published, received, c_pending>> => RisingMoves
  BY DEF RisingMoves, Moves
<1>2. UNCHANGED <<delivered, got, b_pending>> => FallingMoves
  BY DEF FallingMoves, Moves
<1>3. UNCHANGED <<inbox, c2b, c_out, published, received>> => (Rising => Rising')
  BY DEF Rising
<1>4. UNCHANGED <<b2c, b_out, delivered, got>> => (Falling => Falling')
  BY DEF Falling
<1> QED BY <1>1, <1>2, <1>3, <1>4

\* A flush moves packets from one queue of a way to the next.
LEMMA FlushesCarry ==
  ASSUME Queues, Rising, Falling, ClientFlush \/ BrokerFlush
  PROVE  Rising' /\ Falling' /\ RisingMoves /\ FallingMoves
<1>1. UNCHANGED <<c_pending, b_pending, published, received, delivered, got, inbox>>
  BY DEF ClientFlush, BrokerFlush, C!Flush, C!GetOutboundData, B!Flush, B!GetOutboundData,
     cVars, bVars, histories
<1>2. RisingMoves /\ FallingMoves
  BY <1>1, Stands
<1>3. CASE ClientFlush
  <2>1. c_out' = <<>> /\ c2b' = c2b \o c_out /\ UNCHANGED <<b2c, b_out>>
    BY <1>3 DEF ClientFlush, C!Flush, C!GetOutboundData, bVars
  <2>2. (inbox \o (c2b \o c_out)) \o <<>> = (inbox \o c2b) \o c_out
    <3>1. c2b \o c_out \in Seq(Traffic)
      BY ConcatRange DEF Queues
    <3>2. inbox \o (c2b \o c_out) \in Seq(Traffic)
      BY <3>1, ConcatRange DEF Queues
    <3>3. inbox \o (c2b \o c_out) = (inbox \o c2b) \o c_out
      <4>1. inbox \in Seq(Traffic) /\ c2b \in Seq(Traffic) /\ c_out \in Seq(Traffic)
        BY DEF Queues
      <4> QED BY <4>1, ConcatAssociative, SMTT(60)
    <3> QED BY <3>2, <3>3, ConcatEmptySeq
  <2>3. Rising'
    BY <1>1, <2>1, <2>2 DEF Rising
  <2> QED BY <1>1, <1>2, <2>1, <2>3, Stands
<1>4. CASE BrokerFlush
  <2>1. UNCHANGED <<c2b, c_out>>
    BY <1>4 DEF BrokerFlush, cVars
  <2>2. \/ b_out' = <<>> /\ b2c' = b2c \o b_out
        \/ UNCHANGED <<b_out, b2c>>
    BY <1>4 DEF BrokerFlush, B!Flush, B!GetOutboundData, bVars
  <2>3. (b2c \o b_out) \o <<>> = b2c \o b_out
    <3>1. b2c \o b_out \in Seq(Traffic)
      BY ConcatRange DEF Queues
    <3> QED BY <3>1, ConcatEmptySeq
  <2>4. Falling'
    BY <1>1, <2>2, <2>3 DEF Falling
  <2> QED BY <1>1, <1>2, <2>1, <2>4, Stands
<1> QED BY <1>3, <1>4

\* disconnect() ends the connection; it takes nothing back.
LEMMA DisconnectCarries ==
  ASSUME AppDisconnect
  PROVE  RisingMoves /\ FallingMoves
<1>1. UNCHANGED <<c_pending, b_pending, published, received, delivered, got>>
  BY DEF AppDisconnect, C!Disconnect, bVars, histories
<1> QED BY <1>1, Stands

\* The client calls publish().
LEMMA PublishCarries ==
  ASSUME Connected, Chosen, c_next_packet_id \in Ids, Rising, Falling, AppPublish,
         C!GeneratePacketId => Unused(c_next_packet_id)
  PROVE  Rising' /\ Falling' /\ RisingMoves /\ FallingMoves
<1>1. Queues /\ IsTable(c_pending)
  BY DEF Connected
<1>2. PICK m : m = CHOOSE x \in Messages : x \notin Known(published)
  OBVIOUS
<1>3. PICK q \in QoSLevels :
        /\ C!Publish(m, q)
        /\ published' = Append(published, Publication(m, q))
  BY <1>2 DEF AppPublish
<1>4. m \in Messages /\ m \notin Known(published)
  BY <1>2, MessageLeft DEF AppPublish
<1>5. PICK x : x = Publication(m, q)
  OBVIOUS
<1>6. x \in Publications(QoSLevels) /\ x.msg = m /\ x.qos = q /\ q \in 0 .. 2
  BY <1>4, <1>5, SessionAssumption DEF Publication, Publications
<1>7. UNCHANGED <<b_pending, b_out, c2b, b2c, inbox, received, delivered, got>>
  BY DEF AppPublish, bVars, streams
<1>8. Falling' /\ FallingMoves
  BY <1>7, Stands
<1>9. \E e : /\ Brings(e, x) /\ e \in Traffic /\ c_out' = Append(c_out, e)
             /\ \/ c_pending' = c_pending /\ x.qos = 0
                \/ c_pending' = Append(c_pending, C!Entry(e, TRUE)) /\ C!Entry(e, TRUE) \in C!Entries
  <2>1. CASE q = 0
    <3>1. /\ c_pending' = c_pending /\ c_out' = Append(c_out, C!PublishPacket(m, 0, 0))
      BY <1>3, <2>1 DEF C!Publish, C!Send
    <3>2. C!PublishPacket(m, 0, 0) \in Traffic /\ Brings(C!PublishPacket(m, 0, 0), x)
      BY <1>4, <1>5, <2>1, PublishPackets DEF C!PublishPacket, Brings, Publication
    <3> QED BY <1>6, <2>1, <3>1, <3>2
  <2>2. CASE q # 0
    <3>1. PICK id : id = c_next_packet_id
      OBVIOUS
    <3>2. PICK e : e = C!PublishPacket(m, q, id)
      OBVIOUS
    <3>3. C!AddPending(e, TRUE) /\ C!GeneratePacketId
      BY <1>3, <2>2, <3>1, <3>2 DEF C!Publish
    <3>4. Unused(id) /\ e.packet_id = id
      BY <3>1, <3>2, <3>3 DEF C!PublishPacket
    <3>5. c_pending' = Append(c_pending, C!Entry(e, TRUE)) /\ c_out' = Append(c_out, e)
      BY <3>3, <3>4 DEF C!AddPending, Unused
    <3>6. Brings(e, x)
      BY <1>5, <3>2 DEF C!PublishPacket, Brings, Publication
    <3>7. e \in Publishes(id, q) /\ id \in Ids /\ q \in {1, 2}
      BY <1>4, <1>6, <2>2, <3>1, <3>2, PublishPackets
    <3>8. e \in Traffic /\ C!Entry(e, TRUE) \in C!Entries
      <4>1. C!Entry(e, TRUE) = Entry(e, TRUE, "UNACKNOWLEDGED")
        BY DEF C!Entry, Entry
      <4>2. e \in Traffic /\ Entry(e, TRUE, "UNACKNOWLEDGED") \in C!Entries
        BY <3>7, PublishKinds
      <4> QED BY <4>1, <4>2
    <3> QED BY <3>5, <3>6, <3>8
  <2> QED BY <2>1, <2>2
<1>10. PICK e : /\ Brings(e, x) /\ e \in Traffic /\ c_out' = Append(c_out, e)
                /\ \/ c_pending' = c_pending /\ x.qos = 0
                   \/ c_pending' = Append(c_pending, C!Entry(e, TRUE)) /\ C!Entry(e, TRUE) \in C!Entries
  BY <1>9
<1>11. Rising'
  <2>1. inbox \o c2b \in Seq(Traffic)
    BY <1>1, ConcatRange DEF Queues
  <2>2. /\ (inbox \o c2b) \o c_out \in Seq(Traffic)
        /\ (inbox \o c2b) \o Append(c_out, e) = Append((inbox \o c2b) \o c_out, e)
    BY <1>1, <1>10, <2>1, ConcatRange, ConcatAppend DEF Queues
  <2>3. Arriving(QoSLevels, Append((inbox \o c2b) \o c_out, e), Append(published, x), received)
    BY <1>4, <1>6, <1>10, <2>2, MessageJoins DEF Rising
  <2> QED BY <1>3, <1>5, <1>7, <1>10, <2>2, <2>3 DEF Rising
<1>12. RisingMoves
  <2>1. published \in Seq(Publications(QoSLevels)) /\ c_pending \in Seq(C!Entries)
    BY <1>1 DEF Rising, Arriving, IsTable
  <2>2. Untold(C!Entry(e, TRUE)) /\ C!Entry(e, TRUE).packet.msg = x.msg
    BY <1>10 DEF C!Entry, Untold, OwnPublish, Brings, Publication
  <2>3. Acknowledged(Append(published, x), c_pending') = Acknowledged(published, c_pending)
    <3>1. PICK s : s = c_pending'
      OBVIOUS
    <3>2. \/ s = c_pending /\ x.qos = 0
          \/ \E f \in C!Entries : s = Append(c_pending, f) /\ Untold(f) /\ f.packet.msg = x.msg
      BY <1>10, <2>2, <3>1
    <3>3. x.msg \notin Known(published)
      BY <1>4, <1>6
    <3>4. Acknowledged(Append(published, x), s) = Acknowledged(published, c_pending)
      BY <1>6, <2>1, <3>2, <3>3, MessageAwaits
    <3> QED BY <3>1, <3>4
  <2>4. Acknowledged(published', c_pending') = Acknowledged(published, c_pending)
    BY <1>3, <1>5, <2>3
  <2> QED BY <1>3, <1>4, <1>5, <1>6, <1>7, <2>4 DEF RisingMoves, Moves
<1> QED BY <1>8, <1>11, <1>12

\* The client calls subscribe() or unsubscribe().
LEMMA RequestCarries ==
  ASSUME Connected, Rising, Falling, AppSubscriptions,
         C!GeneratePacketId => Unused(c_next_packet_id)
  PROVE  Rising' /\ Falling' /\ RisingMoves /\ FallingMoves
<1>1. Queues /\ IsTable(c_pending)
  BY DEF Connected
<1>2. UNCHANGED <<b_pending, b_out, c2b, b2c, inbox, published, received, delivered, got>>
  BY DEF AppSubscriptions, bVars, streams, histories
<1>3. Falling' /\ FallingMoves
  BY <1>2, Stands
<1>4. PICK S \in (SUBSET Patterns) \ {{}} : C!Subscribe(S) \/ C!Unsubscribe(S)
  BY DEF AppSubscriptions
<1>5. \/ UNCHANGED <<c_pending, c_out>>
      \/ \E p : /\ p.type \in {"SUBSCRIBE", "UNSUBSCRIBE"} /\ p.packet_id = c_next_packet_id
               /\ C!AddPending(p, TRUE) /\ C!GeneratePacketId
  <2>1. CASE C!Subscribe(S)
    <3> DEFINE p == [type |-> "SUBSCRIBE", packet_id |-> c_next_packet_id,
                     patterns |-> S \ c_subscriptions]
    <3>1. UNCHANGED <<c_pending, c_out>> \/ (C!AddPending(p, TRUE) /\ C!GeneratePacketId)
      BY <2>1 DEF C!Subscribe
    <3>2. p.type = "SUBSCRIBE" /\ p.packet_id = c_next_packet_id
      OBVIOUS
    <3> HIDE DEF p
    <3> QED BY <3>1, <3>2
  <2>2. CASE C!Unsubscribe(S)
    <3> DEFINE p == [type |-> "UNSUBSCRIBE", packet_id |-> c_next_packet_id,
                     patterns |-> {x \in S : c_counts[x] = 1}]
    <3>1. UNCHANGED <<c_pending, c_out>> \/ (C!AddPending(p, TRUE) /\ C!GeneratePacketId)
      BY <2>2 DEF C!Unsubscribe
    <3>2. p.type = "UNSUBSCRIBE" /\ p.packet_id = c_next_packet_id
      OBVIOUS
    <3> HIDE DEF p
    <3> QED BY <3>1, <3>2
  <2> QED BY <1>4, <2>1, <2>2
<1>6. CASE UNCHANGED <<c_pending, c_out>>
  BY <1>2, <1>3, <1>6, Stands
<1>7. CASE ~UNCHANGED <<c_pending, c_out>>
  <2> PICK p : /\ p.type \in {"SUBSCRIBE", "UNSUBSCRIBE"} /\ p.packet_id = c_next_packet_id
               /\ C!AddPending(p, TRUE) /\ C!GeneratePacketId
    BY <1>5, <1>7
  <2>1. c_pending' = Append(c_pending, C!Entry(p, TRUE)) /\ c_out' = Append(c_out, p)
    BY DEF C!AddPending, Unused
  <2>2. Answers(c_out, c_out')
    BY <2>1 DEF Answers
  <2>3. inbox \o c2b \in Seq(Traffic) /\ c_out \in Seq(Traffic)
    BY <1>1, ConcatRange DEF Queues
  <2>4. Arriving(QoSLevels, (inbox \o c2b) \o c_out', published, received)
    <3>1. PICK s : s = c_out'
      OBVIOUS
    <3>2. Arriving(QoSLevels, (inbox \o c2b) \o s, published, received)
      BY <2>2, <2>3, <3>1, AnswerJoins DEF Rising
    <3> QED BY <3>1, <3>2
  <2>5. Rising'
    BY <1>2, <2>4 DEF Rising
  <2>6. ~Untold(C!Entry(p, TRUE))
    BY DEF C!Entry, Untold, OwnPublish
  <2>7. /\ c_pending \in Seq(C!Entries \cup {C!Entry(p, TRUE)})
        /\ C!Entry(p, TRUE) \in C!Entries \cup {C!Entry(p, TRUE)}
    BY <1>1, SeqMonotonic DEF IsTable
  <2>8. Acknowledged(published, c_pending') = Acknowledged(published, c_pending)
    BY <2>1, <2>6, <2>7, OtherAwaits
  <2>9. RisingMoves
    BY <1>2, <2>8 DEF RisingMoves, Moves
  <2> QED BY <1>3, <2>5, <2>9
<1> QED BY <1>6, <1>7

\* The client reads a packet.
LEMMA ReadingCarries ==
  ASSUME Connected, Connected', Rising, Falling, ClientReceive
  PROVE  Rising' /\ Falling' /\ RisingMoves /\ FallingMoves
<1> DEFINE p == Head(b2c)
<1>1. /\ Queues /\ IsTable(c_pending) /\ c_state = "CONNECTED" /\ \A id \in Ids : Exchange(id)
  BY DEF Connected
<1>2. /\ b2c # <<>> /\ C!Receive(p) /\ b2c' = Tail(b2c)
      /\ got' = IF p.type = "PUBLISH" THEN Append(got, Publication(p.msg, p.qos)) ELSE got
      /\ UNCHANGED <<b_state, b_pending, b_out, b_failure, c2b, inbox>>
      /\ UNCHANGED <<published, received, delivered>>
  BY DEF ClientReceive, bVars
<1>3. p \in Traffic
  BY <1>1, <1>2, TailElements DEF Queues
<1>4. Falling' /\ FallingMoves
  <2> DEFINE w == b2c \o b_out
  <2>1. /\ w \in Seq(Traffic) /\ w # <<>> /\ Head(w) = p /\ Tail(w) = Tail(b2c) \o b_out
    BY <1>1, <1>2, ConcatHeadTail DEF Queues
  <2>2. Arriving(DeliveryQoS, w, delivered, got)
    BY DEF Falling
  <2> HIDE DEF w, p
  <2>3. PICK s, done : s = got' /\ done = Acknowledged(delivered, b_pending)
    OBVIOUS
  <2>4. s = IF Head(w).type = "PUBLISH" THEN Append(got, Publication(Head(w).msg, Head(w).qos))
            ELSE got
    BY <1>2, <2>1, <2>3
  <2>5. Arriving(DeliveryQoS, Tail(w), delivered, s) /\ Moves(DeliveryQoS, delivered, got, done, delivered, s, done)
    BY <2>1, <2>2, <2>4, HeadArrives
  <2> QED BY <1>2, <2>1, <2>3, <2>5 DEF Falling, FallingMoves
<1>5. Answers(c_out, c_out') /\ Recedes(c_pending, c_pending')
  BY <1>1, <1>2, <1>3, ClientReacts
<1>6. Rising'
  <2>1. inbox \o c2b \in Seq(Traffic) /\ c_out \in Seq(Traffic)
    BY <1>1, ConcatRange DEF Queues
  <2>2. PICK s : s = c_out'
    OBVIOUS
  <2>3. Arriving(QoSLevels, (inbox \o c2b) \o s, published, received)
    BY <1>5, <2>1, <2>2, AnswerJoins DEF Rising
  <2> QED BY <1>2, <2>2, <2>3 DEF Rising
<1>7. RisingMoves
  <2>1. CASE p.type = "PUBLISH" /\ p.qos = 0
    <3>1. C!ReceivePublish(p)
      BY <1>1, <1>2, <2>1, ClientAccepts
    <3>2. ~(p.qos > 0)
      BY <2>1
    <3> HIDE DEF p
    <3>3. UNCHANGED c_pending
      BY <3>1, <3>2 DEF C!ReceivePublish
    <3> QED BY <1>2, <3>3, Stands
  <2>2. CASE p.packet_id \in Ids /\ p \in Of(p.packet_id)
    <3>1. PICK id : id = p.packet_id
      OBVIOUS
    <3>2. ArrivesDown(id, p) /\ Clear(id, c_out, c2b, inbox, b_out, Tail(b2c))
      BY <1>1, <1>2, <2>2, <3>1, ClientArrival
    <3>3. ClientDone(id)
      BY <1>1, <1>2, <1>3, <2>2, <3>1, <3>2, ClientHandles
    <3>4. SameBut(c_pending, c_pending', id)
      BY <3>3 DEF ClientDone, Concerns
    <3>5. Waiting((inbox \o c2b) \o c_out, c_pending, id)
      BY <3>2, WaitingUp DEF Clear
    <3>6. PICK s : s = c_pending'
      OBVIOUS
    <3>7. Moves(QoSLevels, published, received, Acknowledged(published, c_pending),
                published, received, Acknowledged(published, s))
      BY <1>1, <1>5, <3>4, <3>5, <3>6, Tells DEF Rising
    <3> QED BY <1>2, <3>6, <3>7 DEF RisingMoves
  <2> QED BY <1>3, <2>1, <2>2, TrafficKinds
<1> QED BY <1>4, <1>6, <1>7

\* The broker's state machine takes a packet.
LEMMA FeedingCarries ==
  ASSUME Connected, Connected', Rising, Falling, BrokerReceive
  PROVE  Rising' /\ Falling' /\ RisingMoves /\ FallingMoves
<1> DEFINE p == Head(c2b)
<1>1. /\ Queues /\ IsTable(b_pending) /\ b_state = "CONNECTED" /\ \A id \in Ids : Exchange(id)
  BY DEF Connected
<1>2. /\ c2b # <<>> /\ B!Receive(p) /\ c2b' = Tail(c2b) /\ inbox' = Append(inbox, p)
      /\ UNCHANGED <<c_state, c_pending, c_out, b2c, published, received, delivered, got>>
  BY DEF BrokerReceive, cVars, histories
<1>3. p \in Traffic
  BY <1>1, <1>2, TailElements DEF Queues
<1>4. Rising' /\ RisingMoves
  <2>1. Append(inbox, p) \o Tail(c2b) = inbox \o c2b
    BY <1>1, <1>2, ConcatMoveHead DEF Queues
  <2>2. Rising'
    BY <1>2, <2>1 DEF Rising
  <2> QED BY <1>2, <2>2, Stands
<1>5. Answers(b_out, b_out') /\ Recedes(b_pending, b_pending')
  BY <1>1, <1>2, <1>3, BrokerReacts
<1>6. Falling'
  <2>1. b2c \in Seq(Traffic) /\ b_out \in Seq(Traffic)
    BY <1>1 DEF Queues
  <2>2. PICK s : s = b_out'
    OBVIOUS
  <2>3. Arriving(DeliveryQoS, b2c \o s, delivered, got)
    BY <1>5, <2>1, <2>2, AnswerJoins DEF Falling
  <2> QED BY <1>2, <2>2, <2>3 DEF Falling
<1>7. FallingMoves
  <2>1. CASE p.type = "PUBLISH" /\ p.qos = 0
    <3>1. B!ReceivePublish(p)
      BY <1>1, <1>2, <2>1, BrokerAccepts
    <3>2. ~(p.qos > 0)
      BY <2>1
    <3> HIDE DEF p
    <3>3. UNCHANGED b_pending
      BY <3>1, <3>2 DEF B!ReceivePublish
    <3> QED BY <1>2, <3>3, Stands
  <2>2. CASE p.packet_id \in Ids /\ p \in Of(p.packet_id)
    <3>1. PICK id : id = p.packet_id
      OBVIOUS
    <3>2. ArrivesUp(id, p) /\ Clear(id, c_out, Tail(c2b), inbox, b_out, b2c)
      BY <1>1, <1>2, <2>2, <3>1, BrokerArrival
    <3>3. BrokerDone(id)
      BY <1>1, <1>2, <1>3, <2>2, <3>1, <3>2, BrokerHandles
    <3>4. SameBut(b_pending, b_pending', id)
      BY <3>3 DEF BrokerDone, Concerns
    <3>5. Waiting(b2c \o b_out, b_pending, id)
      BY <3>2, WaitingDown DEF Clear
    <3>6. PICK s : s = b_pending'
      OBVIOUS
    <3>7. Moves(DeliveryQoS, delivered, got, Acknowledged(delivered, b_pending),
                delivered, got, Acknowledged(delivered, s))
      BY <1>1, <1>5, <3>4, <3>5, <3>6, Tells DEF Falling
    <3> QED BY <1>2, <3>6, <3>7 DEF FallingMoves
  <2> QED BY <1>3, <2>1, <2>2, TrafficKinds
<1> QED BY <1>4, <1>6, <1>7

\* The broker's I/O layer handles a packet.
LEMMA HandlingCarries ==
  ASSUME Connected, Connected', Rising, Falling, BrokerHandle
  PROVE  Rising' /\ Falling' /\ RisingMoves /\ FallingMoves
<1> DEFINE p == Head(inbox)
<1>1. /\ Queues /\ IsTable(b_pending) /\ b_state = "CONNECTED" /\ \A id \in Ids : Exchange(id)
  BY DEF Connected
<1>2. /\ inbox # <<>> /\ inbox' = Tail(inbox)
      /\ IF NeedsAnswer(p) THEN Answer(p) \/ AnswerSubscribe(p) \/ AnswerRefused(p)
                            ELSE UNCHANGED bVars
      /\ received' = IF p.type = "PUBLISH" THEN Append(received, Publication(p.msg, p.qos))
                     ELSE received
      /\ UNCHANGED <<c_pending, c_out, c2b, b2c, published, delivered, got>>
  BY DEF BrokerHandle, cVars
<1>3. p \in Traffic
  BY <1>1, <1>2, TailElements DEF Queues
<1>4. Rising' /\ RisingMoves
  <2> DEFINE w == (inbox \o c2b) \o c_out
  <2>1. /\ inbox \o c2b \in Seq(Traffic) /\ inbox \o c2b # <<>>
        /\ Head(inbox \o c2b) = p /\ Tail(inbox \o c2b) = Tail(inbox) \o c2b
    BY <1>1, <1>2, ConcatHeadTail DEF Queues
  <2>2. /\ w \in Seq(Traffic) /\ w # <<>> /\ Head(w) = p
        /\ Tail(w) = (Tail(inbox) \o c2b) \o c_out
    <3>1. PICK u : u = inbox \o c2b
      OBVIOUS
    <3>2. u \in Seq(Traffic) /\ u # <<>> /\ c_out \in Seq(Traffic)
      BY <1>1, <2>1, <3>1 DEF Queues
    <3>3. /\ u \o c_out \in Seq(Traffic) /\ u \o c_out # <<>>
          /\ Head(u \o c_out) = Head(u) /\ Tail(u \o c_out) = Tail(u) \o c_out
      BY <3>2, ConcatHeadTail
    <3> QED BY <2>1, <3>1, <3>3
  <2>3. Arriving(QoSLevels, w, published, received)
    BY DEF Rising
  <2> HIDE DEF w, p
  <2>4. PICK s, done : s = received' /\ done = Acknowledged(published, c_pending)
    OBVIOUS
  <2>5. s = IF Head(w).type = "PUBLISH"
            THEN Append(received, Publication(Head(w).msg, Head(w).qos)) ELSE received
    BY <1>2, <2>2, <2>4
  <2>6. /\ Arriving(QoSLevels, Tail(w), published, s)
        /\ Moves(QoSLevels, published, received, done, published, s, done)
    BY <2>2, <2>3, <2>5, HeadArrives
  <2> QED BY <1>2, <2>2, <2>4, <2>6 DEF Rising, RisingMoves
<1>5. CASE ~NeedsAnswer(p)
  <2>1. UNCHANGED <<b_pending, b_out>>
    BY <1>2, <1>5 DEF bVars
  <2> QED BY <1>2, <1>4, <2>1, Stands
<1>6. CASE NeedsAnswer(p)
  <2>1. PICK id : id = p.packet_id
    OBVIOUS
  <2>2. id \in Ids /\ p \in Of(id)
    BY <1>3, <1>6, <2>1, TrafficKinds
  <2>3. p \in Due(id)
    BY <1>6, <2>2 DEF Due
  <2>4. p.type # "CONNECT"
    BY <1>3 DEF Traffic, C!Publishes, C!Acks, C!SubscriptionRequests
  <2>5. Answer(p) \/ AnswerSubscribe(p)
    BY <1>1, <1>2, <1>6, <2>4 DEF AnswerRefused
  <2>6. Waits(id, p) /\ Clear(id, c_out, c2b, Tail(inbox), b_out, b2c)
    BY <1>1, <1>2, <2>2, <2>3, InboxWaits
  <2>7. BrokerDone(id)
    BY <1>1, <1>2, <1>3, <2>2, <2>3, <2>5, <2>6, BrokerAnswers
  <2>8. SameBut(b_pending, b_pending', id)
    BY <2>7 DEF BrokerDone, Concerns
  <2>9. Waiting(b2c \o b_out, b_pending, id)
    BY <2>6, WaitingDown DEF Clear
  <2>10. Answers(b_out, b_out') /\ Recedes(b_pending, b_pending')
    <3>1. Under(b_pending, p.packet_id) = Taken(p)
      BY <2>1, <2>6 DEF Waits, Stage
    <3> QED BY <1>1, <1>3, <2>5, <3>1, AnswerReacts
  <2>11. b2c \in Seq(Traffic) /\ b_out \in Seq(Traffic)
    BY <1>1 DEF Queues
  <2>12. PICK s, t : s = b_pending' /\ t = b_out'
    OBVIOUS
  <2>13. Arriving(DeliveryQoS, b2c \o t, delivered, got)
    BY <2>10, <2>11, <2>12, AnswerJoins DEF Falling
  <2>14. Moves(DeliveryQoS, delivered, got, Acknowledged(delivered, b_pending),
               delivered, got, Acknowledged(delivered, s))
    BY <1>1, <2>8, <2>9, <2>10, <2>12, Tells DEF Falling
  <2> QED BY <1>2, <1>4, <2>12, <2>13, <2>14 DEF Falling, FallingMoves
<1> QED BY <1>5, <1>6

\* The broker delivers a message.
LEMMA DeliveringCarries ==
  ASSUME Connected, Rising, Falling, BrokerDeliver
  PROVE  Rising' /\ Falling' /\ RisingMoves /\ FallingMoves
<1>1. Queues /\ IsTable(b_pending)
  BY DEF Connected
<1>2. PICK m \in Messages \ Known(delivered), q \in DeliveryQoS, id \in DeliveryIds :
        /\ \A i \in DOMAIN b_pending : b_pending[i].packet.packet_id # id
        /\ B!DeliverPublish(m, q, id, "ACKNOWLEDGED")
        /\ delivered' = Append(delivered, Publication(m, q))
  BY DEF BrokerDeliver
<1>3. PICK x : x = Publication(m, q)
  OBVIOUS
<1>4. x \in Publications(DeliveryQoS) /\ x.msg = m /\ x.qos = q /\ q \in 0 .. 2 /\ id \in Ids
  BY <1>2, <1>3, SessionAssumption DEF Publication, Publications, Ids
<1>5. UNCHANGED <<c_pending, c_out, c2b, b2c, inbox, published, received, got>>
  BY DEF BrokerDeliver, cVars, streams
<1>6. Rising' /\ RisingMoves
  BY <1>5, Stands
<1>7. \E e : /\ Brings(e, x) /\ e \in Traffic /\ b_out' = Append(b_out, e)
             /\ \/ b_pending' = b_pending /\ x.qos = 0
                \/ b_pending' = Append(b_pending, Entry(e, TRUE, "ACKNOWLEDGED")) /\ Entry(e, TRUE, "ACKNOWLEDGED") \in C!Entries
  <2>1. CASE q = 0
    <3>1. b_pending' = b_pending /\ b_out' = Append(b_out, B!PublishPacket(m, 0, 0))
      BY <1>2, <2>1 DEF B!DeliverPublish, B!Send
    <3>2. B!PublishPacket(m, 0, 0) \in Traffic /\ Brings(B!PublishPacket(m, 0, 0), x)
      BY <1>3, <2>1, PublishPackets DEF B!PublishPacket, Brings, Publication
    <3> QED BY <1>4, <2>1, <3>1, <3>2
  <2>2. CASE q # 0
    <3>1. PICK e : e = B!PublishPacket(m, q, id)
      OBVIOUS
    <3>2. B!Slots(id) = {}
      BY <1>2 DEF B!Slots
    <3>3. /\ b_pending' = Append(b_pending, Entry(e, TRUE, "ACKNOWLEDGED"))
          /\ b_out' = Append(b_out, e)
      BY <1>2, <1>4, <2>2, <3>1, <3>2 DEF B!DeliverPublish, B!Send, Entry
    <3>4. Brings(e, x)
      BY <1>3, <3>1 DEF B!PublishPacket, Brings, Publication
    <3>5. e \in Publishes(id, q) /\ id \in Ids /\ q \in {1, 2}
      BY <1>4, <2>2, <3>1, PublishPackets
    <3>6. e \in Traffic /\ Entry(e, TRUE, "ACKNOWLEDGED") \in C!Entries
      BY <3>5, PublishKinds
    <3> QED BY <3>3, <3>4, <3>6
  <2> QED BY <2>1, <2>2
<1>8. PICK e : /\ Brings(e, x) /\ e \in Traffic /\ b_out' = Append(b_out, e)
               /\ \/ b_pending' = b_pending /\ x.qos = 0
                  \/ b_pending' = Append(b_pending, Entry(e, TRUE, "ACKNOWLEDGED")) /\ Entry(e, TRUE, "ACKNOWLEDGED") \in C!Entries
  BY <1>7
<1>9. x.msg \notin Known(delivered)
  BY <1>2, <1>4
<1>10. Falling'
  <2>1. /\ b2c \o b_out \in Seq(Traffic)
        /\ b2c \o Append(b_out, e) = Append(b2c \o b_out, e)
    BY <1>1, <1>8, ConcatRange, ConcatAppend DEF Queues
  <2>2. Arriving(DeliveryQoS, Append(b2c \o b_out, e), Append(delivered, x), got)
    BY <1>4, <1>8, <1>9, <2>1, MessageJoins DEF Falling
  <2> QED BY <1>2, <1>3, <1>5, <1>8, <2>1, <2>2 DEF Falling
<1>11. FallingMoves
  <2>1. delivered \in Seq(Publications(DeliveryQoS)) /\ b_pending \in Seq(C!Entries)
    BY <1>1 DEF Falling, Arriving, IsTable
  <2>2. Untold(Entry(e, TRUE, "ACKNOWLEDGED")) /\ Entry(e, TRUE, "ACKNOWLEDGED").packet.msg = x.msg
    BY <1>8 DEF Entry, Untold, OwnPublish, Brings, Publication
  <2>3. PICK s : s = b_pending'
    OBVIOUS
  <2>4. \/ s = b_pending /\ x.qos = 0
        \/ \E f \in C!Entries : s = Append(b_pending, f) /\ Untold(f) /\ f.packet.msg = x.msg
    BY <1>8, <2>2, <2>3
  <2>5. Acknowledged(Append(delivered, x), s) = Acknowledged(delivered, b_pending)
    BY <1>4, <1>9, <2>1, <2>4, MessageAwaits
  <2> QED BY <1>2, <1>3, <1>4, <1>5, <1>9, <2>3, <2>5 DEF FallingMoves, Moves
<1> QED BY <1>6, <1>10, <1>11

-----------------------------------------------------------------------------
(* The invariant                                                           *)

(* The invariant: on the first connection what was published is what has   *)
(* arrived and what is on its way, in that order.                          *)
Way ==
  First => IF c_state = "CONNECTED" THEN Rising /\ Falling
           ELSE published = <<>> /\ received = <<>> /\ delivered = <<>> /\ got = <<>>

LEMMA WayInit == Init => Way
BY DEF Init, C!Init, Way

\* No message is told before one is published.
LEMMA NothingPublished == \A q : Acknowledged(<<>>, q) = {}
<1>1. ToSet(<<>>) = {}
  BY EmptySeq DEF ToSet
<1> QED BY <1>1 DEF Acknowledged

\* Before the client is connected nothing is published or delivered.
LEMMA BeforeConnected ==
  ASSUME Next, Unconnected \/ Connecting
  PROVE  UNCHANGED <<published, received, delivered, got>>
<1>1. /\ c_state # "CONNECTED" /\ b_subscriptions = {}
      /\ inbox # <<>> => Head(inbox).type # "PUBLISH"
      /\ b2c # <<>> => Head(b2c).type # "PUBLISH"
  <2>1. CASE Unconnected
    BY <2>1 DEF Unconnected, Fresh, Only
  <2>2. CASE Connecting
    <3>1. c_state # "CONNECTED" /\ b_subscriptions = {} /\ Handshake
      BY <2>2 DEF Connecting, Fresh
    <3>2. ConnectPacket.type # "PUBLISH" /\ \A present : ConnAckPacket(present).type # "PUBLISH"
      BY DEF ConnectPacket, ConnAckPacket
    <3>3. PICK place, p : Only(place, p) /\ p.type # "PUBLISH"
      BY <3>1, <3>2 DEF Handshake
    <3> QED BY <3>1, <3>3, OnlyPlaces, OneElement
  <2> QED BY <2>1, <2>2
<1>2. ~AppPublish /\ ~BrokerDeliver
  BY <1>1 DEF AppPublish, C!Publish, BrokerDeliver, B!DeliverPublish
<1>3. CASE Open \/ Close \/ AppDisconnect \/ AppSubscriptions \/ ClientFlush \/ BrokerFlush
             \/ BrokerReceive
  BY <1>3 DEF Open, Close, AppDisconnect, AppSubscriptions, ClientFlush, BrokerFlush,
     BrokerReceive, histories
<1>4. CASE ClientReceive
  BY <1>1, <1>4 DEF ClientReceive
<1>5. CASE BrokerHandle
  BY <1>1, <1>5 DEF BrokerHandle
<1> QED BY <1>2, <1>3, <1>4, <1>5 DEF Next

\* Up to CONNACK, which the client reads when nothing else is on its way
LEMMA ConnectionStarts ==
  ASSUME Inv, First, Way, Next, Unconnected \/ (connects = 1 /\ open /\ Connecting)
  PROVE  Way' /\ RisingMoves /\ FallingMoves
<1>1. UNCHANGED <<published, received, delivered, got>>
  BY BeforeConnected
<1>2. c_state # "CONNECTED"
  BY DEF Unconnected, Connecting
<1>3. published = <<>> /\ received = <<>> /\ delivered = <<>> /\ got = <<>>
  BY <1>2 DEF Way
<1>4. RisingMoves /\ FallingMoves
  BY <1>1, <1>3, NothingPublished DEF RisingMoves, FallingMoves, Moves
<1>5. CASE c_state' # "CONNECTED"
  BY <1>1, <1>3, <1>4, <1>5 DEF Way
<1>6. CASE c_state' = "CONNECTED"
  <2>1. ~Unconnected
    BY <1>6, UnconnectedStep DEF Connecting
  <2>2. ClientReceive
    BY <1>6, <2>1, ConnectingStep DEF Advances, Connecting
  <2>3. c_out' = <<>> /\ c2b' = <<>> /\ inbox' = <<>> /\ b_out' = <<>> /\ b2c' = <<>>
    BY <2>1, <2>2, ConnectingEnds DEF Inv
  <2>4. <<>> \o <<>> = <<>>
    BY ConcatEmptySeq, EmptySeq
  <2>5. Rising'
    BY <1>1, <1>3, <2>3, <2>4, NothingUnderway DEF Rising
  <2>6. Falling'
    BY <1>1, <1>3, <2>3, <2>4, NothingUnderway DEF Falling
  <2> QED BY <1>4, <1>6, <2>5, <2>6 DEF Way
<1> QED BY <1>5, <1>6

\* From CONNACK to disconnect()
LEMMA ConnectionLasts ==
  ASSUME NoQoS2Delivery, Inv, First, Way, Next, connects = 1, open, Connected,
         (AppPublish \/ AppSubscriptions) /\ C!GeneratePacketId => Unused(c_next_packet_id)
  PROVE  Way' /\ RisingMoves /\ FallingMoves
<1>1. Rising /\ Falling /\ Chosen /\ c_next_packet_id \in Ids /\ c_state = "CONNECTED" /\ Queues
  BY DEF Inv, Way, Connected
<1>2. ~Open /\ ~Close
  BY <1>1 DEF Open, Close, Connected
<1>3. CASE AppDisconnect
  <2>1. ~First'
    BY <1>3 DEF First, AppDisconnect, C!Disconnect
  <2> QED BY <1>3, <2>1, DisconnectCarries DEF Way
<1>4. CASE ~AppDisconnect
  <2>1. c_state' = "CONNECTED"
    <3>1. CASE ClientReceive
      BY <3>1, ClientReceiveKeeps DEF Connected
    <3>2. CASE AppPublish \/ AppSubscriptions \/ ClientFlush \/ BrokerFlush \/ BrokerReceive
                 \/ BrokerHandle \/ BrokerDeliver
      BY <1>1, <3>2 DEF AppPublish, C!Publish, AppSubscriptions, C!Subscribe, C!Unsubscribe,
         ClientFlush, C!Flush, C!GetOutboundData, BrokerFlush, BrokerReceive, BrokerHandle,
         BrokerDeliver, cVars
    <3> QED BY <1>2, <1>4, <3>1, <3>2 DEF Next
  <2>2. CASE AppPublish
    <3>1. C!GeneratePacketId => Unused(c_next_packet_id)
      BY <2>2
    <3>2. Rising' /\ Falling' /\ RisingMoves /\ FallingMoves
      BY <1>1, <2>2, <3>1, PublishCarries
    <3> QED BY <2>1, <3>2 DEF Way
  <2>3. CASE AppSubscriptions
    <3>1. C!GeneratePacketId => Unused(c_next_packet_id)
      BY <2>3
    <3>2. Rising' /\ Falling' /\ RisingMoves /\ FallingMoves
      BY <1>1, <2>3, <3>1, RequestCarries
    <3> QED BY <2>1, <3>2 DEF Way
  <2>4. CASE ClientFlush \/ BrokerFlush
    <3>1. Rising' /\ Falling' /\ RisingMoves /\ FallingMoves
      BY <1>1, <2>4, FlushesCarry
    <3> QED BY <2>1, <3>1 DEF Way
  <2>5. CASE ClientReceive
    <3>1. Connected'
      BY <2>5, ClientReceiveKeeps
    <3>2. Rising' /\ Falling' /\ RisingMoves /\ FallingMoves
      BY <1>1, <2>5, <3>1, ReadingCarries
    <3> QED BY <2>1, <3>2 DEF Way
  <2>6. CASE BrokerReceive
    <3>1. Connected'
      BY <2>6, BrokerReceiveKeeps
    <3>2. Rising' /\ Falling' /\ RisingMoves /\ FallingMoves
      BY <1>1, <2>6, <3>1, FeedingCarries
    <3> QED BY <2>1, <3>2 DEF Way
  <2>7. CASE BrokerHandle
    <3>1. Connected'
      BY <2>7, BrokerHandleKeeps
    <3>2. Rising' /\ Falling' /\ RisingMoves /\ FallingMoves
      BY <1>1, <2>7, <3>1, HandlingCarries
    <3> QED BY <2>1, <3>2 DEF Way
  <2>8. CASE BrokerDeliver
    <3>1. Rising' /\ Falling' /\ RisingMoves /\ FallingMoves
      BY <1>1, <2>8, DeliveringCarries
    <3> QED BY <2>1, <3>1 DEF Way
  <2> QED BY <1>2, <1>4, <2>2, <2>3, <2>4, <2>5, <2>6, <2>7, <2>8 DEF Next
<1> QED BY <1>3, <1>4

\* A step that changes nothing
LEMMA WayStutters ==
  ASSUME Inv, Way, UNCHANGED vars
  PROVE  Way' /\ (First => RisingMoves /\ FallingMoves)
<1>1. /\ UNCHANGED <<c_state, c_pending, c_out, b_pending, b_out, c2b, b2c, inbox, connects>>
      /\ UNCHANGED <<published, received, delivered, got>>
  BY DEF vars, cVars, bVars, streams, histories
<1>2. First' <=> First
  BY <1>1 DEF First
<1>3. CASE First /\ c_state # "CONNECTED"
  BY <1>1, <1>2, <1>3 DEF Way, RisingMoves, FallingMoves, Moves
<1>4. CASE First /\ c_state = "CONNECTED"
  <2>1. Rising /\ Falling
    BY <1>4 DEF Way
  <2> QED BY <1>1, <1>2, <1>4, <2>1, Stands DEF Way
<1> QED BY <1>2, <1>3, <1>4 DEF Way

LEMMA WayStep ==
  ASSUME NoQoS2Delivery, Inv, Way, [Next]_vars,
         First /\ (AppPublish \/ AppSubscriptions) /\ C!GeneratePacketId
           => Unused(c_next_packet_id)
  PROVE  Way' /\ (First => RisingMoves /\ FallingMoves)
<1>1. CASE UNCHANGED vars
  BY <1>1, WayStutters
<1>2. CASE Next /\ ~First
  BY <1>2, OverStaysOver DEF Way
<1>3. CASE Next /\ First
  <2>1. Unconnected \/ (connects = 1 /\ open /\ (Connecting \/ Connected))
    BY <1>3 DEF Inv
  <2> QED BY <1>3, <2>1, ConnectionStarts, ConnectionLasts
<1> QED BY <1>1, <1>2, <1>3

\* The steps of the two directions are steps of Delivery.
LEMMA StepsOfDelivery ==
  /\ RisingMoves => Publishing!Next \/ UNCHANGED Publishing!vars
  /\ FallingMoves => Delivering!Next \/ UNCHANGED Delivering!vars
<1>1. ASSUME RisingMoves PROVE Publishing!Next \/ UNCHANGED Publishing!vars
  <2>1. CASE UNCHANGED <<published, received>>
               /\ Acknowledged(published', c_pending') = Acknowledged(published, c_pending)
    BY <2>1 DEF Publishing!vars
  <2>2. ASSUME NEW x \in Publications(QoSLevels), x.msg \notin Known(published),
               published' = Append(published, x), received' = received,
               Acknowledged(published', c_pending') = Acknowledged(published, c_pending)
        PROVE  Publishing!Publish(x)
    BY <2>2 DEF Publishing!Publish, Known
  <2>3. CASE /\ Len(received) < Len(published) /\ published' = published
             /\ received' = Append(received, published[Len(received) + 1])
             /\ Acknowledged(published', c_pending') = Acknowledged(published, c_pending)
    BY <2>3 DEF Publishing!Next, Publishing!Arrive
  <2>4. ASSUME NEW x \in Publications(QoSLevels), x.qos > 0,
               x \in ToSet(received) \ Acknowledged(published, c_pending),
               UNCHANGED <<published, received>>,
               Acknowledged(published', c_pending') = Acknowledged(published, c_pending) \cup {x}
        PROVE  Publishing!Acknowledge(x)
    BY <2>4 DEF Publishing!Acknowledge, Publishing!ToSet, ToSet
  <2>5. Publishing!Publications = Publications(QoSLevels)
    BY DEF Publishing!Publications, Publications
  <2> QED BY <1>1, <2>1, <2>2, <2>3, <2>4, <2>5 DEF RisingMoves, Moves, Publishing!Next
<1>2. ASSUME FallingMoves PROVE Delivering!Next \/ UNCHANGED Delivering!vars
  <2>1. CASE UNCHANGED <<delivered, got>>
               /\ Acknowledged(delivered', b_pending') = Acknowledged(delivered, b_pending)
    BY <2>1 DEF Delivering!vars
  <2>2. ASSUME NEW x \in Publications(DeliveryQoS), x.msg \notin Known(delivered),
               delivered' = Append(delivered, x), got' = got,
               Acknowledged(delivered', b_pending') = Acknowledged(delivered, b_pending)
        PROVE  Delivering!Publish(x)
    BY <2>2 DEF Delivering!Publish, Known
  <2>3. CASE /\ Len(got) < Len(delivered) /\ delivered' = delivered
             /\ got' = Append(got, delivered[Len(got) + 1])
             /\ Acknowledged(delivered', b_pending') = Acknowledged(delivered, b_pending)
    BY <2>3 DEF Delivering!Next, Delivering!Arrive
  <2>4. ASSUME NEW x \in Publications(DeliveryQoS), x.qos > 0,
               x \in ToSet(got) \ Acknowledged(delivered, b_pending),
               UNCHANGED <<delivered, got>>,
               Acknowledged(delivered', b_pending') = Acknowledged(delivered, b_pending) \cup {x}
        PROVE  Delivering!Acknowledge(x)
    BY <2>4 DEF Delivering!Acknowledge, Delivering!ToSet, ToSet
  <2>5. Delivering!Publications = Publications(DeliveryQoS)
    BY DEF Delivering!Publications, Publications
  <2> QED BY <1>2, <2>1, <2>2, <2>3, <2>4, <2>5 DEF FallingMoves, Moves, Delivering!Next
<1> QED BY <1>1, <1>2

\* The initial states are those of Delivery.
LEMMA StartsOfDelivery == Init => Publishing!Init /\ Delivering!Init
BY NothingPublished DEF Init, Publishing!Init, Delivering!Init

(* On the first connection every step is one that Delivery allows, in both *)
(* directions: a message is published, or the next one arrives (none lost, *)
(* doubled or out of order, whatever the QoS and however the packets queue *)
(* in _out_buffer, the streams and the chunk at the broker), or one is     *)
(* acknowledged, taken out of _pending_packets (QoS 1) or RELEASED there   *)
(* (QoS 2), and that one has arrived before.  As in                        *)
(* FirstConnectionNeverFails the packet ids are assumed to be fresh, which *)
(* the publishes and subscribe calls of the client share, and the broker   *)
(* to deliver at QoS 0 and 1: a QoS 2 recipient's PUBREC makes it raise.   *)
THEOREM FirstConnectionDelivers ==
  ASSUME NoQoS2Delivery
  PROVE  Spec /\ FreshIds =>
           /\ Publishing!Init /\ [][First => Publishing!Next]_(Publishing!vars)
           /\ Delivering!Init /\ [][First => Delivering!Next]_(Delivering!vars)
<1>1. Inv /\ Way /\ [Next]_vars
        /\ [First /\ (AppPublish \/ AppSubscriptions) /\ C!GeneratePacketId
              => Unused(c_next_packet_id)]_vars
      => /\ Way'
         /\ [First => Publishing!Next]_(Publishing!vars)
         /\ [First => Delivering!Next]_(Delivering!vars)
  <2> SUFFICES ASSUME Inv, Way, [Next]_vars,
                      [First /\ (AppPublish \/ AppSubscriptions) /\ C!GeneratePacketId
                         => Unused(c_next_packet_id)]_vars
               PROVE  /\ Way'
                      /\ [First => Publishing!Next]_(Publishing!vars)
                      /\ [First => Delivering!Next]_(Delivering!vars)
    OBVIOUS
  <2>1. Way' /\ (First => RisingMoves /\ FallingMoves)
    <3>1. CASE UNCHANGED vars
      BY <3>1, WayStutters
    <3>2. CASE ~UNCHANGED vars
      BY <3>2, WayStep
    <3> QED BY <3>1, <3>2
  <2> QED BY <2>1, StepsOfDelivery
<1> QED BY <1>1, WayInit, StartsOfDelivery, FreshInv, PTL DEF Spec, FreshIds

\* Where there is one connection only, it does not end.
LEMMA LastingStep ==
  ASSUME Inv, First, [Next]_vars, MaxConnects \in 0 .. 1
  PROVE  First'
<1>1. CASE UNCHANGED vars
  BY <1>1 DEF vars, cVars, First
<1>2. CASE Next /\ Unconnected
  <2>1. Connecting'
    BY <1>2, UnconnectedStep
  <2>2. connects = 0 /\ connects' \in {connects, connects + 1}
    BY <1>2 DEF Unconnected, Next, Open, Close, AppDisconnect, AppPublish, AppSubscriptions,
       ClientFlush, ClientReceive, BrokerFlush, BrokerReceive, BrokerHandle, BrokerDeliver
  <2> QED BY <2>1, <2>2 DEF First, Connecting
<1>3. CASE Next /\ connects = 1 /\ open /\ (Connecting \/ Connected)
  <2>1. ~Open /\ ~AppDisconnect
    <3>1. ~(connects < MaxConnects)
      BY <1>3
    <3> QED BY <3>1 DEF Open, AppDisconnect
  <2>2. connects' = connects
    BY <1>3, <2>1 DEF Next, Close, AppPublish, AppSubscriptions,
       ClientFlush, ClientReceive, BrokerFlush, BrokerReceive, BrokerHandle, BrokerDeliver
  <2>3. c_state' # "DISCONNECTED"
    <3>1. c_state # "DISCONNECTED"
      BY <1>3 DEF Connecting, Connected
    <3>2. CASE ClientReceive
      <4>1. CASE Connected
        BY <3>2, <4>1, ClientReceiveKeeps DEF Connected
      <4>2. CASE Connecting
        <5>1. c_next_packet_id \in Ids
          BY DEF Inv
        <5> QED BY <3>2, <4>2, <5>1, ConnectingEnds DEF Connected
      <4> QED BY <1>3, <4>1, <4>2
    <3>3. CASE ~ClientReceive
      BY <1>3, <2>1, <3>1, <3>3 DEF Next, Close, AppPublish, C!Publish, AppSubscriptions,
         C!Subscribe, C!Unsubscribe, ClientFlush, C!Flush, C!GetOutboundData,
         BrokerFlush, BrokerReceive, BrokerHandle, BrokerDeliver, cVars
    <3> QED BY <3>2, <3>3
  <2> QED BY <1>3, <2>2, <2>3 DEF First
<1> QED BY <1>1, <1>2, <1>3 DEF Inv

(* Where the client connects once the session implements the safety part   *)
(* of Delivery outright (PublishingDelivers and DeliveringDelivers without *)
(* their fairness).                                                        *)
THEOREM OneConnectionDelivers ==
  ASSUME NoQoS2Delivery, MaxConnects \in 0 .. 1
  PROVE  Spec /\ FreshIds => Publishing!Safety /\ Delivering!Safety
<1>1. Init => First
  BY DEF First, Init
<1>2. Inv /\ First /\ [Next]_vars => First'
  BY LastingStep
<1>3. Spec /\ FreshIds => []First
  BY <1>1, <1>2, FreshInv, PTL DEF Spec
<1>4. First /\ [First => Publishing!Next]_(Publishing!vars)
        => [Publishing!Next]_(Publishing!vars)
  OBVIOUS
<1>5. First /\ [First => Delivering!Next]_(Delivering!vars)
        => [Delivering!Next]_(Delivering!vars)
  OBVIOUS
<1> QED BY <1>3, <1>4, <1>5, FirstConnectionDelivers, PTL DEF Publishing!Safety, Delivering!Safety

(* Where there are more packet ids than calls that take one, this needs no *)
(* assumption about the run: _generate_packet_id never gives out one that  *)
(* is in use.                                                              *)
THEOREM EnoughIdsDeliver ==
  ASSUME NoQoS2Delivery, EnoughIds, MaxConnects \in 0 .. 1
  PROVE  Spec => Publishing!Safety /\ Delivering!Safety
BY EnoughIdsStayFresh, OneConnectionDelivers, PTL
=============================================================================
