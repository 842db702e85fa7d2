---------------------------- MODULE BrokerProofs ----------------------------
(***************************************************************************)
(* For any number of connections, messages and subscriptions: what Broker  *)
(* promises its clients.                                                   *)
(*                                                                         *)
(* The properties speak of what a client has received; the invariant Ind   *)
(* says the same of all that is on its way to it (Outbound), since only    *)
(* publish() puts a message there and a flush only moves it on.  What      *)
(* publish() relies on are the other parts of Ind:                         *)
(*   SentOnce        a message is published from one place, so that it is  *)
(*                   behind all others and new wherever it is encoded;     *)
(*   Named           no_local is about the client itself, because a        *)
(*                   session in the table has its own client's id;         *)
(*   ConnectsOnce,   what a client was told (CONNACK, SUBACK, UNSUBACK)    *)
(*   SubscribesOnce  agrees with its session's subscriptions, though its   *)
(*                   requests wait in the inbox and in pending.            *)
(***************************************************************************)
EXTENDS Broker, SequenceLemmas, FiniteSetTheorems, TLAPS

Reasons == Refusals \cup {"IN_USE", "NOT_FOUND"}

AckTypes == {"CONNACK", "PUBACK", "PUBREC", "PUBREL", "PUBCOMP", "SUBACK", "UNSUBACK"}

Signals   == [type : {"CONNECT", "DISCONNECT"}]

\* The patterns of the subscriptions S
PatternsOf(S) == {x.pattern : x \in S}

Asks(c)   == [type : {"SUBSCRIBE"}, id : Nat \ {0}, subscriptions : {Request[c]}]
             \cup
             [type : {"UNSUBSCRIBE"}, id : Nat \ {0}, patterns : {PatternsOf(Request[c])}]
Publishes == {p \in [type : {"PUBLISH"}, id : Nat, msg : Messages, qos : 0 .. 2] :
                /\ p.id = 0 <=> p.qos = 0
                /\ p.qos \in QoSLevels[p.msg]}
Acks      == [type : AckTypes, id : Nat, reason : Reasons]

FromClient(c) == Signals \cup Asks(c) \cup Publishes \cup Acks
ToClient      == Publishes \cup Acks
Kept(c)       == Asks(c) \cup Publishes

Tables(S) == UNION {[D -> S] : D \in SUBSET Nat}

Session(c) ==
  [state : {"DISCONNECTED", "CONNECTING", "CONNECTED"},
   client : {NoClient, Client[c]},
   pending : {t \in Tables(Kept(c)) : \A id \in DOMAIN t : t[id].id = id},
   subscriptions : SUBSET Request[c],
   out : Seq(ToClient)]

Deeds == {"connect", "subscribe", "unsubscribe", "disconnect"}
Sents == UNION {[D -> Nat] : D \in SUBSET Messages}
Clients == [done : SUBSET Deeds, answered : Nat, sent : Sents, next_id : Nat \ {0}]

Phases == {"reading", "feeding", "handling", "asking", "publishing", "flushing", "ended"}

Types ==
  /\ DOMAIN sm = Connections /\ \A c \in Connections : sm[c] \in Session(c)
  /\ client \in [Connections -> Clients]
  /\ DOMAIN inbox = Connections /\ \A c \in Connections : inbox[c] \in Seq(FromClient(c))
  /\ sending \in [Connections -> Seq(ToClient)]
  /\ received \in [Connections -> Seq(ToClient)]
  /\ phase \in [Connections -> Phases]
  /\ lock \in [Connections -> Seq(Connections)]
  /\ called \in 0 .. Cardinality(Messages)
  /\ DOMAIN owed = Connections
  /\ Range(retained) \subseteq Messages

\* A packet that is being answered is still in the inbox, and who sends has the lock.
Busy ==
  \A c \in Connections : /\ phase[c] \in {"asking", "publishing"} => inbox[c] # <<>>
                         /\ sending[c] # <<>> => lock[c] # <<>>

\* Who queues for a session's lock
Locks ==
  \A s \in Connections :
    /\ IsInjective(lock[s])
    /\ \A c \in Range(lock[s]) : phase[c] = "publishing" \/ (phase[c] = "flushing" /\ c = s)

InInbox(c, type) == \E k \in DOMAIN inbox[c] : inbox[c][k].type = type
HasOut(s, type)  == \E k \in DOMAIN Outbound(s) : Outbound(s)[k].type = type

\* A session in a table has its client's id.
Named ==
  /\ \A id \in DOMAIN table : /\ table[id] \in Connections
                              /\ sm[table[id]].client = id /\ id = Client[table[id]]
  /\ \A id \in DOMAIN sessions : /\ sessions[id] \in Connections
                                 /\ sm[sessions[id]].client = id /\ id = Client[sessions[id]]
  /\ \A c \in Connections : InInbox(c, "CONNECT") => sm[c].client = Client[c]

\* Each message has one publisher, and is once in its inbox.
SentOnce ==
  /\ \A c \in Connections : \A m \in DOMAIN client[c].sent : m <= called
  /\ \A c, d \in Connections : c # d => DOMAIN client[c].sent \cap DOMAIN client[d].sent = {}
  /\ \A c \in Connections : \A k \in DOMAIN inbox[c] :
       IsMessage(inbox[c][k]) => inbox[c][k].msg \in DOMAIN client[c].sent
  /\ \A c \in Connections : \A k, l \in DOMAIN inbox[c] :
       IsMessage(inbox[c][k]) /\ IsMessage(inbox[c][l]) /\ inbox[c][k].msg = inbox[c][l].msg
         => k = l
  /\ \A s \in Connections : \A k \in DOMAIN Outbound(s) :
       IsMessage(Outbound(s)[k]) => Outbound(s)[k].msg <= called

\* A client connects once, and subscribes when it is connected.
ConnectsOnce ==
  \A c \in Connections :
    /\ "connect" \notin client[c].done => ~InInbox(c, "CONNECT") /\ ~HasOut(c, "CONNACK")
    /\ ~HasOut(c, "CONNACK") => "subscribe" \notin client[c].done
    /\ InInbox(c, "CONNECT") => ~HasOut(c, "CONNACK")
    /\ \A k, l \in DOMAIN inbox[c] :
         inbox[c][k].type = "CONNECT" /\ inbox[c][l].type = "CONNECT" => k = l

\* A SUBSCRIBE that will be granted is in the inbox.
Grantable(c, k) ==
  /\ inbox[c][k].type = "SUBSCRIBE"
  /\ inbox[c][k].id \in DOMAIN sm[c].pending
  /\ sm[c].pending[inbox[c][k].id] = inbox[c][k]

Told(c) == \E k \in DOMAIN Outbound(c) : /\ Outbound(c)[k].type = "SUBACK"
                                         /\ Outbound(c)[k].reason = "SUCCESS"

\* It subscribes once, and gives up once what it was granted.
Subscriber(c) ==
  /\ "subscribe" \notin client[c].done =>
       /\ ~InInbox(c, "SUBSCRIBE") /\ ~HasOut(c, "SUBACK")
       /\ owed[c] = {}
  /\ ~HasOut(c, "SUBACK") => "unsubscribe" \notin client[c].done
  /\ "unsubscribe" \notin client[c].done =>
       ~InInbox(c, "UNSUBSCRIBE") /\ ~HasOut(c, "UNSUBACK")
  /\ \A k, l \in DOMAIN inbox[c] :
       inbox[c][k].type = "SUBSCRIBE" /\ inbox[c][l].type = "SUBSCRIBE" => k = l
  /\ \A k \in DOMAIN inbox[c] : Grantable(c, k) => ~HasOut(c, "SUBACK")
  /\ HasOut(c, "UNSUBACK") => sm[c].subscriptions = {}
  /\ "unsubscribe" \notin client[c].done /\ Told(c) => sm[c].subscriptions = Request[c]

SubscribesOnce == \A c \in Connections : Subscriber(c)

\* The subscription x of client s asks for the message p.
Covers(x, p, s) ==
  /\ x.pattern \in Matching[p.msg]
  /\ p.qos <= x.max_qos
  /\ x.no_local => p.msg \notin DOMAIN client[s].sent

\* What OnlyWhatIsAsked says, of everything on its way to a client
Asked ==
  \A s \in Connections : \A k \in DOMAIN Outbound(s) :
    LET p == Outbound(s)[k]
    IN  IsMessage(p) =>
          /\ \E x \in Request[s] : Covers(x, p, s)
          /\ \A j \in 1 .. k - 1 : Outbound(s)[j].type # "UNSUBACK"

\* The messages in the inbox that were not published yet
Fresh(c) == {k \in DOMAIN inbox[c] : /\ IsMessage(inbox[c][k])
                                     /\ ~(k = 1 /\ phase[c] = "publishing")}

\* What SameOrder says, of everything on its way to a client
Ordered ==
  /\ \A s, t \in Connections :
       \A i, j \in DOMAIN Outbound(s), k, l \in DOMAIN Outbound(t) :
         /\ i < j
         /\ IsMessage(Outbound(s)[i]) /\ IsMessage(Outbound(s)[j])
         /\ IsMessage(Outbound(t)[k]) /\ IsMessage(Outbound(t)[l])
         /\ Outbound(s)[i].msg = Outbound(t)[k].msg
         /\ Outbound(s)[j].msg = Outbound(t)[l].msg
         => k < l
  /\ Alive =>
       \A c, s \in Connections : \A k \in Fresh(c), i \in DOMAIN Outbound(s) :
         IsMessage(Outbound(s)[i]) => Outbound(s)[i].msg # inbox[c][k].msg

\* SubscribersGetAll, where no message is above the maximum QoS
GetsAll == WithinMaxQoS => SubscribersGetAll

Ind == /\ Types /\ Busy /\ Locks /\ Named /\ SentOnce /\ ConnectsOnce /\ SubscribesOnce
       /\ Asked /\ Ordered /\ GetsAll


-----------------------------------------------------------------------------
(* Tables                                                                  *)

LEMMA PutEntries ==
  ASSUME NEW f, NEW id, NEW e
  PROVE  /\ DOMAIN Put(f, id, e) = DOMAIN f \cup {id}
         /\ Put(f, id, e)[id] = e
         /\ \A x \in DOMAIN f : x # id => Put(f, id, e)[x] = f[x]
BY DEF Put

LEMMA RestrictEntries ==
  ASSUME NEW f, NEW D
  PROVE  /\ DOMAIN Restrict(f, D) = D
         /\ \A x \in D : Restrict(f, D)[x] = f[x]
BY DEF Restrict

LEMMA TablePut ==
  ASSUME NEW S, NEW t \in Tables(S), NEW id \in Nat, NEW p \in S
  PROVE  Put(t, id, p) \in Tables(S)
<1>1. PICK D \in SUBSET Nat : t \in [D -> S]
  BY DEF Tables
<1>2. Put(t, id, p) \in [D \cup {id} -> S]
  BY <1>1 DEF Put
<1> QED BY <1>2 DEF Tables

LEMMA TableRestrict ==
  ASSUME NEW S, NEW t \in Tables(S), NEW E \in SUBSET DOMAIN t
  PROVE  Restrict(t, E) \in Tables(S)
<1>1. PICK D \in SUBSET Nat : t \in [D -> S]
  BY DEF Tables
<1>2. Restrict(t, E) \in [E -> S] /\ E \in SUBSET Nat
  BY <1>1 DEF Restrict
<1> QED BY <1>2 DEF Tables

-----------------------------------------------------------------------------
(* A session's functions                                                   *)

Pendings(c) == {t \in Tables(Kept(c)) : \A id \in DOMAIN t : t[id].id = id}

LEMMA SessionFields ==
  ASSUME NEW c, NEW s \in Session(c)
  PROVE  /\ s.state \in {"DISCONNECTED", "CONNECTING", "CONNECTED"}
         /\ s.client \in {NoClient, Client[c]}
         /\ s.pending \in Pendings(c)
         /\ s.subscriptions \in SUBSET Request[c]
         /\ s.out \in Seq(ToClient)
BY DEF Session, Pendings

LEMMA EncodeType ==
  ASSUME NEW c, NEW s \in Session(c), NEW p \in ToClient
  PROVE  /\ Encode(s, p) \in Session(c)
         /\ Encode(s, p).client = s.client /\ Encode(s, p).state = s.state
         /\ Encode(s, p).pending = s.pending
         /\ Encode(s, p).subscriptions = s.subscriptions
         /\ Encode(s, p).out = Append(s.out, p)
<1>1. Append(s.out, p) \in Seq(ToClient)
  BY SessionFields, AppendElements
<1> QED BY <1>1 DEF Session, Encode

LEMMA PendingPut ==
  ASSUME NEW c, NEW t \in Pendings(c), NEW p \in Kept(c), p.id # 0
  PROVE  Put(t, p.id, p) \in Pendings(c)
<1>1. p.id \in Nat
  BY DEF Kept, Asks, Publishes
<1>2. Put(t, p.id, p) \in Tables(Kept(c))
  BY <1>1, TablePut DEF Pendings
<1>3. \A id \in DOMAIN Put(t, p.id, p) : Put(t, p.id, p)[id].id = id
  <2> TAKE id \in DOMAIN Put(t, p.id, p)
  <2>1. CASE id = p.id
    BY <2>1 DEF Put
  <2>2. CASE id # p.id /\ id \in DOMAIN t
    BY <2>2 DEF Pendings, Put
  <2> QED BY <2>1, <2>2 DEF Put
<1> QED BY <1>2, <1>3 DEF Pendings

LEMMA PendingRestrict ==
  ASSUME NEW c, NEW t \in Pendings(c), NEW id
  PROVE  Restrict(t, DOMAIN t \ {id}) \in Pendings(c)
<1>1. Restrict(t, DOMAIN t \ {id}) \in Tables(Kept(c))
  BY TableRestrict DEF Pendings
<1>2. \A x \in DOMAIN t \ {id} : Restrict(t, DOMAIN t \ {id})[x].id = x
  BY RestrictEntries DEF Pendings
<1> QED BY <1>1, <1>2, RestrictEntries DEF Pendings

LEMMA PopType ==
  ASSUME NEW c, NEW s \in Session(c), NEW id
  PROVE  /\ Pop(s, id) \in Session(c)
         /\ Pop(s, id).client = s.client /\ Pop(s, id).state = s.state
         /\ DOMAIN Pop(s, id).pending = DOMAIN s.pending \ {id}
         /\ \A x \in DOMAIN s.pending \ {id} : Pop(s, id).pending[x] = s.pending[x]
         /\ Pop(s, id).subscriptions = s.subscriptions
         /\ Pop(s, id).out = s.out
<1>1. Restrict(s.pending, DOMAIN s.pending \ {id}) \in Pendings(c)
  BY SessionFields, PendingRestrict
<1> QED BY <1>1, RestrictEntries DEF Session, Pendings, Pop

LEMMA InUseType ==
  ASSUME NEW c, NEW p \in Kept(c), p.id # 0
  PROVE  /\ InUse(p) \in Acks /\ InUse(p).reason = "IN_USE"
         /\ InUse(p).type \in {"SUBACK", "PUBACK", "PUBREC"}
         /\ InUse(p).type = "SUBACK" => p.type # "PUBLISH"
<1>1. p.id \in Nat /\ "IN_USE" \in Reasons
  BY DEF Kept, Asks, Publishes, Reasons
<1>2. CASE p.type # "PUBLISH"
  BY <1>1, <1>2 DEF InUse, Ack, Acks, AckTypes
<1>3. CASE p.type = "PUBLISH" /\ p.qos = 1
  BY <1>1, <1>3 DEF InUse, Ack, Acks, AckTypes
<1>4. CASE p.type = "PUBLISH" /\ p.qos = 2
  BY <1>1, <1>4 DEF InUse, Ack, Acks, AckTypes
<1>5. p.type = "PUBLISH" => p.qos \in {1, 2}
  BY DEF Kept, Asks, Publishes
<1> QED BY <1>2, <1>3, <1>4, <1>5

\* A packet is kept, or it is known, or its id is taken and it is answered.
LEMMA AddPendingType ==
  ASSUME NEW c, NEW s \in Session(c), NEW p \in Kept(c)
  PROVE  LET r == AddPending(s, p)
         IN  /\ r \in Session(c)
             /\ r.client = s.client /\ r.state = s.state
             /\ r.subscriptions = s.subscriptions
             /\ \/ r = s
                \/ r.out = s.out /\ r.pending = Put(s.pending, p.id, p) /\ p.id \notin DOMAIN s.pending
                \/ /\ r = Encode(s, InUse(p)) /\ p.id # 0
                   /\ p.id \in DOMAIN s.pending /\ s.pending[p.id] # p
<1>1. CASE p.id = 0
  <2>1. AddPending(s, p) = s
    BY <1>1 DEF AddPending
  <2> QED BY <2>1
<1>2. CASE p.id # 0 /\ p.id \notin DOMAIN s.pending
  <2>1. AddPending(s, p) = [s EXCEPT !.pending = Put(s.pending, p.id, p)]
    BY <1>2 DEF AddPending
  <2>2. Put(s.pending, p.id, p) \in Pendings(c)
    BY <1>2, SessionFields, PendingPut
  <2> DEFINE t == Put(s.pending, p.id, p)
             r == [s EXCEPT !.pending = t]
  <2>3. t \in Pendings(c)
    BY <2>2
  <2> HIDE DEF t
  <2>4. /\ r \in Session(c) /\ r.client = s.client /\ r.state = s.state
        /\ r.subscriptions = s.subscriptions /\ r.out = s.out /\ r.pending = t
    BY <2>3 DEF Session, Pendings
  <2>5. r = AddPending(s, p)
    BY <2>1 DEF t
  <2> QED BY <1>2, <2>4, <2>5 DEF t
<1>3. CASE p.id # 0 /\ p.id \in DOMAIN s.pending /\ s.pending[p.id] = p
  <2>1. AddPending(s, p) = s
    BY <1>3 DEF AddPending
  <2> QED BY <2>1
<1>4. CASE p.id # 0 /\ p.id \in DOMAIN s.pending /\ s.pending[p.id] # p
  <2>1. AddPending(s, p) = Encode(s, InUse(p))
    BY <1>4 DEF AddPending
  <2>2. InUse(p) \in ToClient
    BY <1>4, InUseType DEF ToClient
  <2> QED BY <1>4, <2>1, <2>2, EncodeType
<1> QED BY <1>1, <1>2, <1>3, <1>4

\* Neither forgets a SUBSCRIBE that is pending, or takes another packet for it.
LEMMA AddPendingKeeps ==
  ASSUME NEW c, NEW s \in Session(c), NEW p \in Kept(c),
         NEW id \in DOMAIN AddPending(s, p).pending
  PROVE  \/ id \in DOMAIN s.pending /\ AddPending(s, p).pending[id] = s.pending[id]
         \/ /\ AddPending(s, p).pending[id] = p
            /\ AddPending(s, p).out = s.out
<1> DEFINE r == AddPending(s, p)
<1>1. \/ r = s
      \/ r.out = s.out /\ r.pending = Put(s.pending, p.id, p)
      \/ r = Encode(s, InUse(p)) /\ p.id # 0
  BY AddPendingType
<1>2. CASE r = s
  BY <1>2
<1>3. CASE r.out = s.out /\ r.pending = Put(s.pending, p.id, p)
  <2>1. id \in DOMAIN s.pending \cup {p.id}
    BY <1>3 DEF Put
  <2>2. r.pending[id] = IF id = p.id THEN p ELSE s.pending[id]
    BY <1>3, <2>1 DEF Put
  <2> QED BY <1>3, <2>1, <2>2
<1>4. CASE r = Encode(s, InUse(p)) /\ p.id # 0
  <2>1. InUse(p) \in ToClient
    BY <1>4, InUseType DEF ToClient
  <2> QED BY <1>4, <2>1, EncodeType
<1> QED BY <1>1, <1>2, <1>3, <1>4

\* r is q with more behind it, all of it in N.
Grows(q, r, N) ==
  /\ \A k \in DOMAIN q : k \in DOMAIN r /\ r[k] = q[k]
  /\ \A k \in DOMAIN r \ DOMAIN q : r[k] \in N

\* What a publisher or a recipient is told when a message is published
Answers == {a \in Acks : a.type \in {"PUBACK", "PUBREC"}}

\* r is q with p and perhaps answers behind it.
Delivered(q, r, p) ==
  /\ Grows(q, r, Answers \cup {p})
  /\ \E j \in DOMAIN r \ DOMAIN q :
       r[j] = p /\ \A k \in DOMAIN r \ DOMAIN q : k # j => r[k] \in Answers

LEMMA GrowsSame ==
  ASSUME NEW q, NEW N
  PROVE  Grows(q, q, N)
BY DEF Grows

LEMMA GrowsAppend ==
  ASSUME NEW q \in Seq(ToClient), NEW N, NEW p \in ToClient \cap N
  PROVE  Grows(q, Append(q, p), N)
BY AppendElements DEF Grows

LEMMA GrowsThenDelivered ==
  ASSUME NEW q \in Seq(ToClient), NEW r \in Seq(ToClient), NEW t \in Seq(ToClient),
         NEW p \in ToClient,
         Grows(q, r, Answers), Grows(Append(r, p), t, Answers)
  PROVE  Delivered(q, t, p)
<1> DEFINE u == Append(r, p)
<1>1. /\ u \in Seq(ToClient)
      /\ \A k \in DOMAIN r : k \in DOMAIN u /\ u[k] = r[k]
      /\ \A k \in DOMAIN u : k \in DOMAIN r \/ (k = Len(r) + 1 /\ u[k] = p)
      /\ Len(r) + 1 \in DOMAIN u /\ u[Len(r) + 1] = p
  BY AppendElements
<1>2. Grows(u, t, Answers)
  OBVIOUS
<1>3. Len(r) + 1 \notin DOMAIN r
  BY DomainOfSeq
<1> HIDE DEF u
<1> DEFINE j == Len(r) + 1
<1>4. j \in DOMAIN t \ DOMAIN q /\ t[j] = p
  BY <1>1, <1>2, <1>3 DEF Grows
<1>5. \A k \in DOMAIN t \ DOMAIN q : k # j => t[k] \in Answers
  BY <1>1, <1>2 DEF Grows
<1>6. \A k \in DOMAIN q : k \in DOMAIN t /\ t[k] = q[k]
  BY <1>1, <1>2 DEF Grows
<1> QED BY <1>4, <1>5, <1>6 DEF Grows, Delivered

LEMMA GrowsBehind ==
  ASSUME NEW h \in Seq(ToClient), NEW q \in Seq(ToClient), NEW r \in Seq(ToClient)
  PROVE  /\ \A N : Grows(q, r, N) => Grows(h \o q, h \o r, N)
         /\ \A p : Delivered(q, r, p) => Delivered(h \o q, h \o r, p)
<1>1. /\ Len(h) \in Nat
      /\ \A k \in DOMAIN q : k \in Nat
      /\ \A k \in DOMAIN r : k \in Nat
      /\ \A k \in DOMAIN (h \o r) : k \in Nat
      /\ \A k \in DOMAIN h : k \in Nat /\ k <= Len(h)
  BY DomainOfSeq, ConcatElements
<1>2. ASSUME NEW N, Grows(q, r, N)
      PROVE  Grows(h \o q, h \o r, N)
  <2>1. ASSUME NEW k \in DOMAIN (h \o q)
        PROVE  k \in DOMAIN (h \o r) /\ (h \o r)[k] = (h \o q)[k]
    <3>1. CASE k \in DOMAIN h
      BY <3>1, ConcatElements
    <3>2. CASE k \notin DOMAIN h
      <4>1. k - Len(h) \in DOMAIN q /\ (h \o q)[k] = q[k - Len(h)]
        BY <3>2, ConcatElements
      <4>2. k - Len(h) \in DOMAIN r /\ r[k - Len(h)] = q[k - Len(h)]
        BY <4>1, <1>2 DEF Grows
      <4>3. k \in Nat /\ Len(h) + (k - Len(h)) = k
        BY <1>1, ConcatElements, DomainOfSeq
      <4> QED BY <4>1, <4>2, <4>3, ConcatElements
    <3> QED BY <3>1, <3>2
  <2>2. ASSUME NEW k \in DOMAIN (h \o r) \ DOMAIN (h \o q)
        PROVE  (h \o r)[k] \in N
    <3>1. k \notin DOMAIN h
      BY ConcatElements
    <3>2. k - Len(h) \in DOMAIN r /\ (h \o r)[k] = r[k - Len(h)]
      BY <3>1, ConcatElements
    <3>3. k \in Nat /\ Len(h) + (k - Len(h)) = k
      BY <1>1
    <3>4. k - Len(h) \notin DOMAIN q
      BY <3>3, ConcatElements
    <3> QED BY <3>2, <3>4, <1>2 DEF Grows
  <2> QED BY <2>1, <2>2 DEF Grows
<1>3. ASSUME NEW p, Delivered(q, r, p)
      PROVE  Delivered(h \o q, h \o r, p)
  <2>1. PICK j \in DOMAIN r \ DOMAIN q :
          r[j] = p /\ \A k \in DOMAIN r \ DOMAIN q : k # j => r[k] \in Answers
    BY <1>3 DEF Delivered
  <2>2. /\ Len(h) + j \in DOMAIN (h \o r) \ DOMAIN h
        /\ (h \o r)[Len(h) + j] = p
    BY <2>1, ConcatElements
  <2>3. Len(h) + j \notin DOMAIN (h \o q)
    <3> SUFFICES ASSUME Len(h) + j \in DOMAIN (h \o q) PROVE FALSE
      OBVIOUS
    <3>1. Len(h) + j - Len(h) \in DOMAIN q /\ Len(h) + j - Len(h) = j
      BY <1>1, <2>2, ConcatElements
    <3> QED BY <3>1, <2>1
  <2>4. ASSUME NEW k \in DOMAIN (h \o r) \ DOMAIN (h \o q), k # Len(h) + j
        PROVE  (h \o r)[k] \in Answers
    <3>1. k \notin DOMAIN h
      BY ConcatElements
    <3>2. k - Len(h) \in DOMAIN r /\ (h \o r)[k] = r[k - Len(h)]
      BY <3>1, ConcatElements
    <3>3. k \in Nat /\ Len(h) + (k - Len(h)) = k
      BY <1>1
    <3>4. k - Len(h) \notin DOMAIN q
      BY <3>3, <2>4, ConcatElements
    <3>5. k - Len(h) # j
      BY <3>3, <2>4
    <3> QED BY <3>2, <3>4, <3>5, <2>1
  <2>5. Grows(h \o q, h \o r, Answers \cup {p})
    BY <1>2, <1>3 DEF Delivered
  <2> QED BY <2>2, <2>3, <2>4, <2>5 DEF Delivered
<1> QED BY <1>2, <1>3

LEMMA AckTypesAreAcks ==
  ASSUME NEW type \in AckTypes, NEW id \in Nat, NEW reason \in Reasons
  PROVE  /\ Ack(type, id, reason) \in Acks /\ Ack(type, id, reason) \in ToClient
         /\ Ack(type, id, reason).type = type /\ Ack(type, id, reason).reason = reason
BY DEF Ack, Acks, ToClient

LEMMA PacketKinds ==
  ASSUME NEW p
  PROVE  /\ p \in Acks => p.type \in AckTypes /\ p.id \in Nat /\ ~IsMessage(p)
         /\ p \in Publishes => /\ IsMessage(p) /\ p.id \in Nat /\ p.msg \in Messages
                               /\ p.qos \in {0, 1, 2} /\ (p.id = 0 <=> p.qos = 0)
                               /\ p.qos \in QoSLevels[p.msg]
         /\ \A c : p \in Asks(c) => /\ p.type \in {"SUBSCRIBE", "UNSUBSCRIBE"}
                                    /\ p.id \in Nat /\ p.id # 0
                                    /\ p.type = "SUBSCRIBE" =>
                                         p.subscriptions = Request[c]
                                    /\ p.type = "UNSUBSCRIBE" =>
                                         p.patterns = PatternsOf(Request[c])
         /\ p \in Signals => p.type \in {"CONNECT", "DISCONNECT"}
BY DEF Acks, AckTypes, Publishes, Asks, Signals, IsMessage

\* What a client may be told when its packet arrives
Replies(c, p, s) ==
  {a \in Acks :
     /\ a.type # "CONNACK"
     /\ a.type = "UNSUBACK" => p.type = "UNSUBSCRIBE" /\ s.subscriptions = {}
     /\ a.type = "SUBACK" => /\ a.reason = "IN_USE" /\ p.type \in {"SUBSCRIBE", "UNSUBSCRIBE"}
                             /\ ~(p.id \in DOMAIN s.pending /\ s.pending[p.id] = p)}

\* What the packet p from its client makes of session s
Fed(c, s, p, r) ==
  /\ r \in Session(c)
  /\ r.client = IF p.type = "CONNECT" THEN Client[c] ELSE s.client
  /\ r.subscriptions = s.subscriptions
     \/ (p.type = "UNSUBSCRIBE" /\ r.subscriptions = {})
  /\ \A id \in DOMAIN r.pending : \/ id \in DOMAIN s.pending /\ r.pending[id] = s.pending[id]
                                  \/ r.pending[id] = p
  /\ Grows(s.out, r.out, Replies(c, p, r))

LEMMA FedSame ==
  ASSUME NEW c, NEW s \in Session(c), NEW p, p.type # "CONNECT"
  PROVE  Fed(c, s, p, s)
BY GrowsSame DEF Fed

LEMMA FedAnswer ==
  ASSUME NEW c, NEW s \in Session(c), NEW p, p.type # "CONNECT", NEW a \in Replies(c, p, s)
  PROVE  Fed(c, s, p, Encode(s, a))
<1>1. a \in ToClient
  BY DEF Replies, ToClient
<1>2. Replies(c, p, Encode(s, a)) = Replies(c, p, s)
  BY <1>1, EncodeType DEF Replies
<1>3. Grows(s.out, Append(s.out, a), Replies(c, p, s))
  BY <1>1, SessionFields, GrowsAppend
<1> QED BY <1>1, <1>2, <1>3, EncodeType DEF Fed

LEMMA FedAddPending ==
  ASSUME NEW c, NEW s \in Session(c), NEW p \in Kept(c)
  PROVE  Fed(c, s, p, AddPending(s, p))
<1> DEFINE r == AddPending(s, p)
<1>1. /\ r \in Session(c) /\ r.client = s.client /\ r.subscriptions = s.subscriptions
      /\ \/ r = s
         \/ r.out = s.out /\ r.pending = Put(s.pending, p.id, p) /\ p.id \notin DOMAIN s.pending
         \/ /\ r = Encode(s, InUse(p)) /\ p.id # 0
            /\ p.id \in DOMAIN s.pending /\ s.pending[p.id] # p
  BY AddPendingType
<1>2. p.type # "CONNECT" /\ (p.type # "PUBLISH" => p.type \in {"SUBSCRIBE", "UNSUBSCRIBE"})
  BY PacketKinds DEF Kept, IsMessage
<1>3. CASE r = s
  BY <1>2, <1>3, FedSame
<1>4. CASE r.out = s.out /\ r.pending = Put(s.pending, p.id, p)
  <2>1. \A id \in DOMAIN r.pending : \/ id \in DOMAIN s.pending /\ r.pending[id] = s.pending[id]
                                     \/ r.pending[id] = p
    BY AddPendingKeeps
  <2> QED BY <1>1, <1>2, <1>4, <2>1, GrowsSame DEF Fed
<1>5. CASE r = Encode(s, InUse(p)) /\ p.id # 0 /\ s.pending[p.id] # p
  <2>1. InUse(p) \in Replies(c, p, s)
    BY <1>2, <1>5, InUseType DEF Replies
  <2> QED BY <1>2, <1>5, <2>1, FedAnswer
<1> QED BY <1>1, <1>3, <1>4, <1>5

LEMMA FedUnsubscribe ==
  ASSUME NEW c, NEW s \in Session(c), NEW p \in Asks(c), p.type = "UNSUBSCRIBE"
  PROVE  Fed(c, s, p, Unsubscribe(s, p))
<1>1. p \in Kept(c) /\ p.type # "CONNECT" /\ p.id \in Nat /\ p.id # 0
      /\ p.patterns = PatternsOf(Request[c])
  BY PacketKinds DEF Kept
<1>2. CASE p.id \in DOMAIN s.pending
  BY <1>1, <1>2, FedAddPending DEF Unsubscribe
<1>3. CASE p.id \notin DOMAIN s.pending
  <2> DEFINE t == AddPending(s, p)
             u == [t EXCEPT !.subscriptions = {x \in @ : x.pattern \notin p.patterns}]
             a == Ack("UNSUBACK", p.id, "SUCCESS")
  <2>1. Unsubscribe(s, p) = Encode(u, a)
    BY <1>3 DEF Unsubscribe
  <2>2. /\ t \in Session(c) /\ t.client = s.client /\ t.out = s.out
        /\ t.pending = Put(s.pending, p.id, p)
    <3>1. t = [s EXCEPT !.pending = Put(s.pending, p.id, p)]
      BY <1>1, <1>3 DEF AddPending
    <3>2. t \in Session(c) /\ t.client = s.client
      BY <1>1, AddPendingType
    <3> QED BY <3>1, <3>2 DEF Session
  <2>3. \A id \in DOMAIN t.pending : \/ id \in DOMAIN s.pending /\ t.pending[id] = s.pending[id]
                                     \/ t.pending[id] = p
    BY <1>1, AddPendingKeeps
  <2> HIDE DEF t
  <2>4. {x \in t.subscriptions : x.pattern \notin p.patterns} = {}
    BY <1>1, <2>2, SessionFields DEF PatternsOf
  <2>5. /\ u \in Session(c) /\ u.client = s.client /\ u.out = s.out /\ u.pending = t.pending
        /\ u.subscriptions = {}
    BY <2>2, <2>4 DEF Session
  <2> HIDE DEF u
  <2>6. a \in Acks /\ a \in ToClient /\ a.type = "UNSUBACK"
    BY <1>1, AckTypesAreAcks, BrokerAssumption DEF Reasons, AckTypes
  <2> HIDE DEF a
  <2>7. /\ Encode(u, a) \in Session(c)
        /\ Encode(u, a).client = s.client /\ Encode(u, a).pending = t.pending
        /\ Encode(u, a).subscriptions = {}
        /\ Encode(u, a).out = Append(s.out, a)
    BY <2>5, <2>6, EncodeType
  <2>8. a \in Replies(c, p, Encode(u, a))
    BY <2>6, <2>7 DEF Replies
  <2>9. Grows(s.out, Append(s.out, a), Replies(c, p, Encode(u, a)))
    BY <2>6, <2>8, SessionFields, GrowsAppend
  <2> QED BY <1>1, <2>1, <2>3, <2>7, <2>9 DEF Fed
<1> QED BY <1>2, <1>3

LEMMA FedReceive ==
  ASSUME NEW c \in Connections, NEW s \in Session(c), NEW p \in FromClient(c),
         p.type \in {"CONNECT", "DISCONNECT", "SUBSCRIBE", "UNSUBSCRIBE", "PUBLISH",
                     "PUBACK", "PUBREC", "PUBREL"}
  PROVE  Fed(c, s, p, Receive(c, s, p))
<1>1. CASE p.type = "CONNECT"
  <2>1. Receive(c, s, p) = [s EXCEPT !.state = "CONNECTING", !.client = Client[c]]
    BY <1>1 DEF Receive
  <2> QED BY <1>1, <2>1, GrowsSame DEF Fed, Session
<1>2. CASE p.type = "DISCONNECT"
  <2>1. Receive(c, s, p) = [s EXCEPT !.state = "DISCONNECTED"]
    BY <1>2 DEF Receive
  <2> QED BY <1>2, <2>1, GrowsSame DEF Fed, Session
<1>3. CASE p.type \in {"PUBLISH", "SUBSCRIBE"}
  <2>1. p \in Kept(c)
    BY <1>3, PacketKinds DEF FromClient, Kept, AckTypes
  <2>2. Receive(c, s, p) = AddPending(s, p)
    BY <1>3 DEF Receive
  <2> QED BY <2>1, <2>2, FedAddPending
<1>4. CASE p.type = "UNSUBSCRIBE"
  <2>1. p \in Asks(c)
    BY <1>4, PacketKinds DEF FromClient, AckTypes, IsMessage
  <2>2. Receive(c, s, p) = Unsubscribe(s, p)
    BY <1>4 DEF Receive
  <2> QED BY <1>4, <2>1, <2>2, FedUnsubscribe
<1>5. CASE p.type = "PUBACK"
  <2>1. Receive(c, s, p) = Pop(s, p.id)
    BY <1>5 DEF Receive
  <2> QED BY <1>5, <2>1, PopType, GrowsSame DEF Fed
<1>6. CASE p.type \in {"PUBREC", "PUBREL"} /\ p.id \in DOMAIN s.pending
  <2>1. Receive(c, s, p) = s
    BY <1>6 DEF Receive
  <2> QED BY <1>6, <2>1, FedSame
<1>7. CASE p.type \in {"PUBREC", "PUBREL"} /\ p.id \notin DOMAIN s.pending
  <2> DEFINE a == Ack(IF p.type = "PUBREC" THEN "PUBREL" ELSE "PUBCOMP", p.id, "NOT_FOUND")
  <2>1. Receive(c, s, p) = Encode(s, a)
    BY <1>7 DEF Receive
  <2>2. p.id \in Nat
    BY <1>7, PacketKinds DEF FromClient, IsMessage
  <2>3. a \in Acks /\ a.type \in {"PUBREL", "PUBCOMP"}
    BY <2>2, AckTypesAreAcks DEF AckTypes, Reasons
  <2> HIDE DEF a
  <2>4. a \in Replies(c, p, s)
    BY <2>3 DEF Replies
  <2> QED BY <1>7, <2>1, <2>4, FedAnswer
<1> QED BY <1>1, <1>2, <1>3, <1>4, <1>5, <1>6, <1>7

LEMMA AcknowledgeType ==
  ASSUME NEW c, NEW s \in Session(c), NEW p \in Publishes, NEW reason \in Refusals
  PROVE  LET r == Acknowledge(s, p, reason)
         IN  /\ r \in Session(c)
             /\ r.client = s.client /\ r.subscriptions = s.subscriptions
             /\ \A id \in DOMAIN r.pending : id \in DOMAIN s.pending
                                             /\ r.pending[id] = s.pending[id]
             /\ Grows(s.out, r.out, Answers)
<1>1. p.id \in Nat /\ p.qos \in {0, 1, 2}
  BY PacketKinds
<1>2. CASE p.qos = 0
  <2>1. Acknowledge(s, p, reason) = s
    BY <1>2 DEF Acknowledge
  <2> QED BY <2>1, GrowsSame
<1>3. CASE p.qos = 1
  <2> DEFINE a == Ack("PUBACK", p.id, reason)
             t == Pop(s, p.id)
  <2>1. Acknowledge(s, p, reason) = Encode(t, a)
    BY <1>3 DEF Acknowledge
  <2>2. a \in Acks /\ a \in ToClient /\ a.type = "PUBACK"
    BY <1>1, AckTypesAreAcks DEF AckTypes, Reasons
  <2>3. /\ t \in Session(c) /\ t.client = s.client /\ t.subscriptions = s.subscriptions
        /\ DOMAIN t.pending = DOMAIN s.pending \ {p.id}
        /\ \A x \in DOMAIN s.pending \ {p.id} : t.pending[x] = s.pending[x]
        /\ t.out = s.out
    BY PopType
  <2> HIDE DEF a, t
  <2>4. Grows(s.out, Append(s.out, a), Answers)
    BY <2>2, SessionFields, GrowsAppend DEF Answers
  <2>5. /\ Encode(t, a) \in Session(c) /\ Encode(t, a).client = s.client
        /\ Encode(t, a).subscriptions = s.subscriptions
        /\ Encode(t, a).pending = t.pending /\ Encode(t, a).out = Append(s.out, a)
    BY <2>2, <2>3, EncodeType
  <2> QED BY <2>1, <2>3, <2>4, <2>5
<1>4. CASE p.qos = 2
  <2> DEFINE a == Ack("PUBREC", p.id, reason)
  <2>1. Acknowledge(s, p, reason) = Encode(s, a)
    BY <1>4 DEF Acknowledge
  <2>2. a \in Acks /\ a \in ToClient /\ a.type = "PUBREC"
    BY <1>1, AckTypesAreAcks DEF AckTypes, Reasons
  <2> HIDE DEF a
  <2>3. Grows(s.out, Append(s.out, a), Answers)
    BY <2>2, SessionFields, GrowsAppend DEF Answers
  <2>4. /\ Encode(s, a) \in Session(c) /\ Encode(s, a).client = s.client
        /\ Encode(s, a).subscriptions = s.subscriptions
        /\ Encode(s, a).pending = s.pending /\ Encode(s, a).out = Append(s.out, a)
    BY <2>2, EncodeType
  <2> QED BY <2>1, <2>3, <2>4
<1> QED BY <1>1, <1>2, <1>3, <1>4

\* The message goes out, and perhaps the complaint that its packet id is in use.
LEMMA DeliverType ==
  ASSUME NEW c, NEW s \in Session(c), NEW p \in Publishes
  PROVE  LET r == Deliver(s, p)
         IN  /\ r \in Session(c)
             /\ r.client = s.client /\ r.subscriptions = s.subscriptions
             /\ \A id \in DOMAIN r.pending : \/ id \in DOMAIN s.pending
                                                /\ r.pending[id] = s.pending[id]
                                             \/ r.pending[id] = p
             /\ Grows(Append(s.out, p), r.out, Answers)
<1> DEFINE t == Encode(s, p)
           r == AddPending(t, p)
<1>1. p \in ToClient /\ p \in Kept(c)
  BY DEF ToClient, Kept
<1>2. /\ t \in Session(c) /\ t.client = s.client /\ t.pending = s.pending
      /\ t.subscriptions = s.subscriptions /\ t.out = Append(s.out, p)
  BY <1>1, EncodeType
<1> HIDE DEF t
<1>3. /\ r \in Session(c) /\ r.client = t.client /\ r.subscriptions = t.subscriptions
      /\ \/ r = t
         \/ r.out = t.out
         \/ r = Encode(t, InUse(p)) /\ p.id # 0
  BY <1>1, <1>2, AddPendingType
<1>4. \A id \in DOMAIN r.pending : \/ id \in DOMAIN s.pending /\ r.pending[id] = s.pending[id]
                                   \/ r.pending[id] = p
  BY <1>1, <1>2, AddPendingKeeps
<1>5. Grows(t.out, r.out, Answers)
  <2>1. CASE r = t \/ r.out = t.out
    BY <2>1, GrowsSame
  <2>2. CASE r = Encode(t, InUse(p)) /\ p.id # 0
    <3>1. InUse(p) \in Answers /\ InUse(p) \in ToClient
      BY <1>1, <2>2, InUseType, PacketKinds DEF Answers, ToClient, IsMessage
    <3>2. r.out = Append(t.out, InUse(p))
      BY <1>2, <2>2, <3>1, EncodeType
    <3>3. t.out \in Seq(ToClient)
      BY <1>2, SessionFields
    <3> QED BY <3>1, <3>2, <3>3, GrowsAppend
  <2> QED BY <1>3, <2>1, <2>2
<1>6. Deliver(s, p) = r
  BY DEF Deliver, t
<1> QED BY <1>2, <1>3, <1>4, <1>5, <1>6

-----------------------------------------------------------------------------
(* Types                                                                   *)

Receivable == {"CONNECT", "DISCONNECT", "SUBSCRIBE", "UNSUBSCRIBE", "PUBLISH",
               "PUBACK", "PUBREC", "PUBREL"}

LEMMA InitTypes ==
  ASSUME Init
  PROVE  Types
<1>1. /\ <<>> \in Seq(ToClient)
      /\ \A c \in Connections : <<>> \in Seq(FromClient(c)) /\ <<>> \in Seq(Connections)
  BY EmptySeq
<1>2. \A S : <<>> \in Tables(S)
  <2> TAKE S
  <2>1. <<>> \in [{} -> S] /\ {} \in SUBSET Nat
    OBVIOUS
  <2> QED BY <2>1 DEF Tables
<1>3. <<>> \in Sents
  <2>1. <<>> \in [{} -> Nat] /\ {} \in SUBSET Messages
    OBVIOUS
  <2> QED BY <2>1 DEF Sents
<1>4. ASSUME NEW c \in Connections PROVE sm[c] \in Session(c)
  BY <1>1, <1>2 DEF Init, Session
<1>5. client \in [Connections -> Clients]
  BY <1>3 DEF Init, Clients
<1>6. Cardinality(Messages) \in Nat
  BY BrokerAssumption, FS_CardinalityType
<1>7. Range(retained) = {}
  BY DEF Init, Range
<1>8. /\ DOMAIN inbox = Connections
      /\ \A c \in Connections : inbox[c] \in Seq(FromClient(c))
      /\ sending \in [Connections -> Seq(ToClient)]
      /\ received \in [Connections -> Seq(ToClient)]
      /\ phase \in [Connections -> Phases]
      /\ lock \in [Connections -> Seq(Connections)]
      /\ DOMAIN owed = Connections
      /\ DOMAIN sm = Connections
  BY <1>1, EmptySeq DEF Init, Phases
<1>9. called \in 0 .. Cardinality(Messages)
  BY <1>6 DEF Init
<1> QED BY <1>4, <1>5, <1>7, <1>8, <1>9 DEF Types

LEMMA StutterTypes ==
  ASSUME Types, UNCHANGED vars
  PROVE  Types'
BY DEF Types, vars, sessionVars, brokerVars, ioVars, clientVars, Range

\* A step that changes neither a session nor what its client did.
LEMMA QuietTypes ==
  ASSUME Types, UNCHANGED <<sm, retained, client, called, owed>>,
         DOMAIN inbox' = Connections,
         \A c \in Connections : inbox'[c] \in Seq(FromClient(c)),
         sending' \in [Connections -> Seq(ToClient)],
         received' \in [Connections -> Seq(ToClient)],
         phase' \in [Connections -> Phases],
         lock' \in [Connections -> Seq(Connections)]
  PROVE  Types'
BY DEF Types, Range

LEMMA PhaseSet ==
  ASSUME Types, NEW c \in Connections, NEW v \in Phases, phase' = [phase EXCEPT ![c] = v]
  PROVE  phase' \in [Connections -> Phases]
BY DEF Types

LEMMA LockSet ==
  ASSUME Types, NEW c \in Connections, NEW q \in Seq(Connections),
         lock' = [lock EXCEPT ![c] = q]
  PROVE  lock' \in [Connections -> Seq(Connections)]
BY DEF Types

LEMMA NextPacketTypes ==
  ASSUME Types, NEW c \in Connections, NextPacket(c), inbox[c] # <<>>
  PROVE  /\ phase' \in [Connections -> Phases]
         /\ DOMAIN inbox' = Connections
         /\ \A d \in Connections : inbox'[d] \in Seq(FromClient(d))
         /\ inbox'[c] = Tail(inbox[c])
         /\ \A d \in Connections : d # c => inbox'[d] = inbox[d]
<1>1. phase' \in [Connections -> Phases]
  BY PhaseSet DEF NextPacket, Phases
<1>2. Tail(inbox[c]) \in Seq(FromClient(c))
  BY TailElements DEF Types
<1> QED BY <1>1, <1>2 DEF NextPacket, Types

LEMMA ReleaseTypes ==
  ASSUME Types, NEW s \in Connections, Release(s), lock[s] # <<>>
  PROVE  /\ phase' \in [Connections -> Phases]
         /\ lock' \in [Connections -> Seq(Connections)]
<1>1. Tail(lock[s]) \in Seq(Connections)
  BY TailElements DEF Types
<1>2. lock' \in [Connections -> Seq(Connections)]
  BY <1>1, LockSet DEF Release
<1>3. phase' \in [Connections -> Phases]
  BY PhaseSet DEF Release, Types, Phases
<1> QED BY <1>2, <1>3

LEMMA FeedTypes ==
  ASSUME Types, NEW c \in Connections, NEW p \in FromClient(c), p.type \in Receivable,
         Feed(c, p), client' \in [Connections -> Clients],
         called' \in 0 .. Cardinality(Messages)
  PROVE  /\ Types'
         /\ Fed(c, sm[c], p, sm'[c])
         /\ \A s \in Connections : s # c => sm'[s] = sm[s] /\ inbox'[s] = inbox[s]
         /\ inbox'[c] = Append(inbox[c], p)
         /\ UNCHANGED <<received, sending>>
<1>1. /\ DOMAIN sm = Connections /\ sm[c] \in Session(c)
      /\ DOMAIN inbox = Connections /\ inbox[c] \in Seq(FromClient(c))
  BY DEF Types
<1>2. sm' = [sm EXCEPT ![c] = Receive(c, sm[c], p)]
  BY DEF Feed
<1>3. inbox' = [inbox EXCEPT ![c] = Append(inbox[c], p)]
  BY DEF Feed
<1>4. Fed(c, sm[c], p, Receive(c, sm[c], p))
  BY <1>1, FedReceive DEF Receivable
<1>5. Append(inbox[c], p) \in Seq(FromClient(c))
  BY <1>1, AppendElements
<1>6. phase' \in [Connections -> Phases]
  BY PhaseSet DEF Feed, Phases
<1>7. UNCHANGED <<retained, lock, sending, received, owed>>
  BY DEF Feed, brokerVars
<1>8. /\ DOMAIN sm' = Connections /\ sm'[c] = Receive(c, sm[c], p)
      /\ \A s \in Connections : s # c => sm'[s] = sm[s]
  BY <1>1, <1>2
<1>9. /\ DOMAIN inbox' = Connections /\ inbox'[c] = Append(inbox[c], p)
      /\ \A s \in Connections : s # c => inbox'[s] = inbox[s]
  BY <1>1, <1>3
<1>10. \A s \in Connections : sm'[s] \in Session(s)
  BY <1>4, <1>8 DEF Types, Fed
<1>11. \A s \in Connections : inbox'[s] \in Seq(FromClient(s))
  BY <1>5, <1>9 DEF Types
<1>12. Types'
  BY <1>6, <1>7, <1>8, <1>9, <1>10, <1>11 DEF Types, Range
<1> QED BY <1>4, <1>7, <1>8, <1>9, <1>12

-----------------------------------------------------------------------------
(* What is on its way to a client                                          *)

LEMMA OutboundType ==
  ASSUME Types, NEW s \in Connections
  PROVE  /\ Outbound(s) \in Seq(ToClient)
         /\ \A k \in DOMAIN Outbound(s) : /\ Outbound(s)[k] \in Acks \cup Publishes
                                          /\ k \in Nat /\ k >= 1 /\ k <= Len(Outbound(s))
         /\ \A k \in DOMAIN received[s] : /\ k \in DOMAIN Outbound(s)
                                          /\ Outbound(s)[k] = received[s][k]
<1>1. received[s] \in Seq(ToClient) /\ sending[s] \in Seq(ToClient) /\ sm[s].out \in Seq(ToClient)
  BY SessionFields DEF Types
<1> DEFINE g == received[s]
           h == sending[s]
           q == g \o h
<1> HIDE DEF g, h
<1>2. /\ q \in Seq(ToClient)
      /\ \A k \in DOMAIN g : k \in DOMAIN q /\ q[k] = g[k]
  <2>1. g \in Seq(ToClient) /\ h \in Seq(ToClient)
    BY <1>1 DEF g, h
  <2> QED BY <2>1, ConcatElements
<1> HIDE DEF q
<1>3. /\ q \o sm[s].out \in Seq(ToClient)
      /\ \A k \in DOMAIN q : k \in DOMAIN (q \o sm[s].out) /\ (q \o sm[s].out)[k] = q[k]
  BY <1>1, <1>2, ConcatElements
<1>4. Outbound(s) = q \o sm[s].out
  BY DEF Outbound, q, g, h
<1>5. /\ Outbound(s) \in Seq(ToClient)
      /\ \A k \in DOMAIN received[s] : /\ k \in DOMAIN Outbound(s)
                                       /\ Outbound(s)[k] = received[s][k]
  BY <1>2, <1>3, <1>4 DEF g
<1> QED BY <1>5, DomainOfSeq DEF ToClient

LEMMA GotIsOut ==
  ASSUME Types, NEW s \in Connections, NEW type
  PROVE  /\ Got(s, type) => HasOut(s, type)
         /\ GotSuccess(s, type) =>
              /\ HasOut(s, type)
              /\ \E k \in DOMAIN Outbound(s) : /\ Outbound(s)[k].type = type
                                               /\ Outbound(s)[k].reason = "SUCCESS"
BY OutboundType DEF Got, GotSuccess, HasOut, Range

\* Nothing that is on its way to s is lost or overtaken.
Longer(s) ==
  \A k \in DOMAIN Outbound(s) : k \in DOMAIN Outbound(s)' /\ Outbound(s)'[k] = Outbound(s)[k]

News(s) == {Outbound(s)'[k] : k \in DOMAIN Outbound(s)' \ DOMAIN Outbound(s)}

LEMMA OutboundSame ==
  ASSUME NEW s, Outbound(s)' = Outbound(s)
  PROVE  Longer(s) /\ News(s) = {}
BY DEF Longer, News

LEMMA OutboundLonger ==
  ASSUME Types, Types', NEW s \in Connections, UNCHANGED <<received, sending>>
  PROVE  /\ sm'[s].out = sm[s].out => Outbound(s)' = Outbound(s)
         /\ \A N : Grows(sm[s].out, sm'[s].out, N) => Longer(s) /\ News(s) \subseteq N
         /\ \A p : Delivered(sm[s].out, sm'[s].out, p) =>
                     Delivered(Outbound(s), Outbound(s)', p)
<1> DEFINE q == received[s] \o sending[s]
<1>1. /\ received[s] \in Seq(ToClient) /\ sending[s] \in Seq(ToClient)
      /\ sm[s].out \in Seq(ToClient) /\ sm'[s].out \in Seq(ToClient)
  BY SessionFields DEF Types
<1>2. q \in Seq(ToClient)
  BY <1>1, ConcatElements
<1>3. Outbound(s) = q \o sm[s].out /\ Outbound(s)' = q \o sm'[s].out
  BY DEF Outbound
<1> HIDE DEF q
<1>4. /\ \A N : Grows(sm[s].out, sm'[s].out, N) => Grows(Outbound(s), Outbound(s)', N)
      /\ \A p : Delivered(sm[s].out, sm'[s].out, p) => Delivered(Outbound(s), Outbound(s)', p)
  BY <1>1, <1>2, <1>3, GrowsBehind
<1>5. \A N : Grows(Outbound(s), Outbound(s)', N) => Longer(s) /\ News(s) \subseteq N
  BY DEF Grows, Longer, News
<1> QED BY <1>3, <1>4, <1>5

-----------------------------------------------------------------------------
(* What a client sends                                                     *)

Sends(c, p) ==
  /\ p \in FromClient(c) /\ p.type \in Receivable
  /\ Feed(c, p)
  /\ client' \in [Connections -> Clients] /\ called' \in 0 .. Cardinality(Messages)
  /\ \A s \in Connections : s # c => client'[s] = client[s]
  /\ client[c].done \subseteq client'[c].done
  /\ p.type = "CONNECT" => "connect" \notin client[c].done /\ "connect" \in client'[c].done
  /\ p.type = "SUBSCRIBE" => /\ HasOut(c, "CONNACK")
                             /\ "subscribe" \notin client[c].done
                             /\ "subscribe" \in client'[c].done
  /\ p.type = "UNSUBSCRIBE" => HasOut(c, "SUBACK") /\ "unsubscribe" \in client'[c].done
  /\ "subscribe" \in client'[c].done \ client[c].done => p.type = "SUBSCRIBE"
  /\ "unsubscribe" \in client'[c].done \ client[c].done => p.type = "UNSUBSCRIBE"
  /\ \/ /\ IsMessage(p)
        /\ called' = called + 1 /\ p.msg = called'
        /\ DOMAIN client'[c].sent = DOMAIN client[c].sent \cup {called'}
     \/ ~IsMessage(p) /\ called' = called /\ client'[c].sent = client[c].sent

LEMMA DoesClient ==
  ASSUME Types, NEW c \in Connections, NEW what \in Deeds, Does(c, what) \/ Requests(c, what)
  PROVE  /\ client' \in [Connections -> Clients] /\ called' \in 0 .. Cardinality(Messages)
         /\ \A s \in Connections : s # c => client'[s] = client[s]
         /\ client'[c].done = client[c].done \cup {what} /\ what \notin client[c].done
         /\ client'[c].sent = client[c].sent /\ called' = called
<1>1. /\ client \in [Connections -> Clients] /\ client[c] \in Clients
      /\ called \in 0 .. Cardinality(Messages)
  BY DEF Types
<1>2. CASE Does(c, what)
  <2> DEFINE r == [client[c] EXCEPT !.done = client[c].done \cup {what}]
  <2>1. /\ client' = [client EXCEPT ![c] = r]
        /\ called' = called /\ what \notin client[c].done
    BY <1>2 DEF Does
  <2>2. r \in Clients /\ r.done = client[c].done \cup {what} /\ r.sent = client[c].sent
    BY <1>1 DEF Clients
  <2> HIDE DEF r
  <2> QED BY <1>1, <2>1, <2>2
<1>3. CASE Requests(c, what)
  <2> DEFINE done == client[c].done \cup {what}
             n    == client[c].next_id + 1
             r    == [client[c] EXCEPT !.done = done, !.next_id = n]
  <2>1. /\ client' = [client EXCEPT ![c] = r]
        /\ called' = called /\ what \notin client[c].done
    BY <1>1, <1>3 DEF Requests
  <2>2. r \in Clients /\ r.done = client[c].done \cup {what} /\ r.sent = client[c].sent
    <3>1. done \in SUBSET Deeds /\ n \in Nat \ {0}
      BY <1>1 DEF Clients
    <3> HIDE DEF done, n
    <3>2. r \in Clients /\ r.done = done /\ r.sent = client[c].sent
      BY <1>1, <3>1 DEF Clients
    <3> QED BY <3>2 DEF done
  <2> HIDE DEF r
  <2> QED BY <1>1, <2>1, <2>2
<1> QED BY <1>2, <1>3

LEMMA SendSignals ==
  ASSUME Types, NEW c \in Connections, SendConnect(c) \/ SendDisconnect(c)
  PROVE  \E p : Sends(c, p)
<1>1. CASE SendConnect(c)
  <2> DEFINE p == [type |-> "CONNECT"]
  <2>1. Does(c, "connect") /\ Feed(c, p)
    BY <1>1 DEF SendConnect
  <2>2. p \in FromClient(c) /\ ~IsMessage(p) /\ p.type = "CONNECT"
    BY DEF FromClient, Signals, IsMessage
  <2> HIDE DEF p
  <2>3. Sends(c, p)
    BY <2>1, <2>2, DoesClient DEF Sends, Deeds, Receivable
  <2> QED BY <2>3
<1>2. CASE SendDisconnect(c)
  <2> DEFINE p == [type |-> "DISCONNECT"]
  <2>1. Does(c, "disconnect") /\ Feed(c, p)
    BY <1>2 DEF SendDisconnect
  <2>2. p \in FromClient(c) /\ ~IsMessage(p) /\ p.type = "DISCONNECT"
    BY DEF FromClient, Signals, IsMessage
  <2> HIDE DEF p
  <2>3. Sends(c, p)
    BY <2>1, <2>2, DoesClient DEF Sends, Deeds, Receivable
  <2> QED BY <2>3
<1> QED BY <1>1, <1>2

LEMMA SendRequests ==
  ASSUME Types, NEW c \in Connections, SendSubscribe(c) \/ SendUnsubscribe(c)
  PROVE  \E p : Sends(c, p)
<1>1. client[c].next_id \in Nat \ {0}
  BY DEF Types, Clients
<1>2. CASE SendSubscribe(c)
  <2> DEFINE p == [type |-> "SUBSCRIBE", id |-> client[c].next_id,
                   subscriptions |-> Request[c]]
  <2>1. Requests(c, "subscribe") /\ Feed(c, p) /\ HasOut(c, "CONNACK")
    BY <1>2, GotIsOut DEF SendSubscribe, Connected
  <2>2. p \in FromClient(c) /\ ~IsMessage(p) /\ p.type = "SUBSCRIBE"
    BY <1>1 DEF FromClient, Asks, IsMessage
  <2> HIDE DEF p
  <2>3. Sends(c, p)
    BY <2>1, <2>2, DoesClient DEF Sends, Deeds, Receivable
  <2> QED BY <2>3
<1>3. CASE SendUnsubscribe(c)
  <2> DEFINE p == [type |-> "UNSUBSCRIBE", id |-> client[c].next_id,
                   patterns |-> PatternsOf(Request[c])]
  <2>1. Requests(c, "unsubscribe") /\ Feed(c, p) /\ HasOut(c, "SUBACK")
    BY <1>3, GotIsOut DEF SendUnsubscribe, PatternsOf
  <2>2. p \in FromClient(c) /\ ~IsMessage(p) /\ p.type = "UNSUBSCRIBE"
    BY <1>1 DEF FromClient, Asks, IsMessage
  <2> HIDE DEF p
  <2>3. Sends(c, p)
    BY <2>1, <2>2, DoesClient DEF Sends, Deeds, Receivable
  <2> QED BY <2>3
<1> QED BY <1>2, <1>3

LEMMA SentPut ==
  ASSUME NEW f \in Sents, NEW m \in Messages, NEW id \in Nat
  PROVE  Put(f, m, id) \in Sents /\ DOMAIN Put(f, m, id) = DOMAIN f \cup {m}
<1>1. PICK D \in SUBSET Messages : f \in [D -> Nat]
  BY DEF Sents
<1>2. Put(f, m, id) \in [D \cup {m} -> Nat] /\ D \cup {m} \in SUBSET Messages
  BY <1>1 DEF Put
<1> QED BY <1>2, PutEntries DEF Sents

LEMMA SendPublishes ==
  ASSUME Types, NEW c \in Connections, NEW q \in 0 .. 2, SendPublish(c, q)
  PROVE  \E p : Sends(c, p)
<1>1. /\ client \in [Connections -> Clients] /\ client[c] \in Clients
      /\ called \in 0 .. Cardinality(Messages)
      /\ client[c].next_id \in Nat \ {0} /\ client[c].sent \in Sents
  BY DEF Types, Clients
<1>2. called' = called + 1 /\ called < Cardinality(Messages)
  BY DEF SendPublish
<1>3. called' \in Messages /\ called' \in 0 .. Cardinality(Messages)
      /\ q \in QoSLevels[called']
  BY <1>1, <1>2, BrokerAssumption, FS_CardinalityType DEF SendPublish
<1>4. ASSUME NEW id \in Nat, NEW n \in Nat \ {0}, id = 0 <=> q = 0,
             client' = [client EXCEPT ![c].sent = Put(@, called', id), ![c].next_id = n],
             Feed(c, Publish(called', q, id))
      PROVE  \E p : Sends(c, p)
  <2> DEFINE p == Publish(called', q, id)
             r == [client[c] EXCEPT !.sent = Put(client[c].sent, called', id), !.next_id = n]
  <2>1. p \in FromClient(c) /\ IsMessage(p) /\ p.type = "PUBLISH" /\ p.msg = called'
    BY <1>3, <1>4 DEF Publish, FromClient, Publishes, IsMessage
  <2>2. /\ Put(client[c].sent, called', id) \in Sents
        /\ DOMAIN Put(client[c].sent, called', id) = DOMAIN client[c].sent \cup {called'}
    BY <1>1, <1>3, SentPut
  <2>3. client' = [client EXCEPT ![c] = r]
    BY <1>1, <1>4
  <2>4. /\ r \in Clients /\ r.done = client[c].done
        /\ DOMAIN r.sent = DOMAIN client[c].sent \cup {called'}
    BY <1>1, <2>2 DEF Clients
  <2>5. Feed(c, p)
    BY <1>4
  <2> HIDE DEF p, r
  <2>6. /\ client' \in [Connections -> Clients] /\ client'[c] = r
        /\ \A s \in Connections : s # c => client'[s] = client[s]
    BY <1>1, <2>3, <2>4
  <2>7. Sends(c, p)
    BY <1>2, <1>3, <2>1, <2>4, <2>5, <2>6 DEF Sends, Receivable
  <2> QED BY <2>7
<1>5. CASE /\ q = 0
           /\ Feed(c, Publish(called', 0, 0))
           /\ client' = [client EXCEPT ![c].sent = Put(@, called', 0)]
  <2>1. client' = [client EXCEPT ![c].sent = Put(@, called', 0),
                                 ![c].next_id = client[c].next_id]
    BY <1>1, <1>5 DEF Clients
  <2> QED BY <1>1, <1>4, <1>5, <2>1
<1>6. CASE /\ q > 0
           /\ Feed(c, Publish(called', q, client[c].next_id))
           /\ client' = [client EXCEPT ![c].sent = Put(@, called', client[c].next_id),
                                       ![c].next_id = @ + 1]
  <2>1. client' = [client EXCEPT ![c].sent = Put(@, called', client[c].next_id),
                                 ![c].next_id = client[c].next_id + 1]
    BY <1>1, <1>6
  <2>2. client[c].next_id \in Nat /\ client[c].next_id + 1 \in Nat \ {0}
        /\ (client[c].next_id = 0 <=> q = 0)
    BY <1>1, <1>6
  <2> QED BY <1>4, <1>6, <2>1, <2>2
<1> QED BY <1>5, <1>6 DEF SendPublish

LEMMA SendAnswers ==
  ASSUME Types, NEW c \in Connections, SendAnswer(c)
  PROVE  \E p : Sends(c, p)
<1>1. PICK k \in DOMAIN received[c] : \E p \in Answer(received[c][k]) :
        /\ client' = [client EXCEPT ![c].answered = k]
        /\ Feed(c, p)
  BY DEF SendAnswer
<1>2. PICK p \in Answer(received[c][k]) :
        /\ client' = [client EXCEPT ![c].answered = k]
        /\ Feed(c, p)
  BY <1>1
<1>3. received[c][k] \in Acks \cup Publishes /\ k \in Nat
  BY DomainOfSeq DEF Types, ToClient
<1>4. "SUCCESS" \in Reasons
  BY BrokerAssumption DEF Reasons
<1>5. p \in Acks /\ p.type \in {"PUBACK", "PUBREC", "PUBREL"}
  <2> DEFINE g == received[c][k]
  <2>1. g.id \in Nat
    BY <1>3, PacketKinds
  <2> HIDE DEF g
  <2>2. p \in Answer(g)
    BY <1>2 DEF g
  <2>3. \/ p = Ack("PUBACK", g.id, "SUCCESS")
        \/ p = Ack("PUBREC", g.id, "SUCCESS")
        \/ p = Ack("PUBREL", g.id, "SUCCESS")
    BY <2>2 DEF Answer
  <2> QED BY <1>4, <2>1, <2>3, AckTypesAreAcks DEF AckTypes
<1>6. /\ client \in [Connections -> Clients] /\ client[c] \in Clients
      /\ called \in 0 .. Cardinality(Messages) /\ called' = called
  BY DEF Types, SendAnswer
<1>7. [client[c] EXCEPT !.answered = k] \in Clients
  BY <1>3, <1>6 DEF Clients
<1>8. /\ client' \in [Connections -> Clients]
      /\ \A s \in Connections : s # c => client'[s] = client[s]
      /\ client'[c].done = client[c].done /\ client'[c].sent = client[c].sent
  BY <1>2, <1>6, <1>7 DEF Clients
<1>9. Sends(c, p)
  BY <1>2, <1>5, <1>6, <1>8 DEF Sends, FromClient, Receivable, IsMessage
<1> QED BY <1>9

-----------------------------------------------------------------------------
(* What the server does                                                    *)

InboxGoesOn(c) ==
  \/ /\ inbox'[c] = inbox[c]
     /\ phase[c] = "publishing" => phase'[c] = "publishing"
  \/ inbox[c] # <<>> /\ inbox'[c] = Tail(inbox[c])

Serves ==
  /\ Types'
  /\ called' = called
  /\ \A c \in Connections :
       /\ Longer(c)
       /\ InboxGoesOn(c)
       /\ sm'[c].client = sm[c].client
       /\ client'[c].sent = client[c].sent
       /\ client[c].done \subseteq client'[c].done
       /\ client'[c].done \subseteq client[c].done \cup {"connect"}

\* A step that tells a publisher of its message at most.
Quiet ==
  /\ Serves
  /\ owed' = owed
  /\ \A c \in Connections :
       /\ News(c) \subseteq Answers
       /\ sm'[c].subscriptions = sm[c].subscriptions
       /\ \A id \in DOMAIN sm'[c].pending : /\ id \in DOMAIN sm[c].pending
                                            /\ sm'[c].pending[id] = sm[c].pending[id]

LEMMA QuietStep ==
  ASSUME Types, Types', UNCHANGED <<sm, client, called, owed>>,
         \A c \in Connections : Outbound(c)' = Outbound(c),
         \A c \in Connections : InboxGoesOn(c)
  PROVE  Quiet
BY OutboundSame DEF Quiet, Serves

\* Steps that change nothing but phases and locks
LEMMA PhaseSteps ==
  ASSUME Types, NEW c \in Connections, EndOfChunk(c) \/ Ask(c) \/ Finish(c)
  PROVE  Quiet
<1>1. /\ UNCHANGED <<sm, retained, client, called, owed, inbox, sending, received>>
      /\ phase[c] \in {"feeding", "handling"}
      /\ \E v \in Phases : phase' = [phase EXCEPT ![c] = v]
  BY DEF EndOfChunk, Ask, Finish, sessionVars, brokerVars, clientVars, Phases
<1>2. phase' \in [Connections -> Phases]
  BY <1>1, PhaseSet
<1>3. lock' \in [Connections -> Seq(Connections)]
  <2>1. CASE lock' = lock
    BY <2>1 DEF Types
  <2>2. CASE lock' = [lock EXCEPT ![c] = Append(@, c)]
    <3>1. Append(lock[c], c) \in Seq(Connections)
      BY AppendElements DEF Types
    <3> QED BY <2>2, <3>1, LockSet
  <2> QED BY <2>1, <2>2 DEF EndOfChunk, Ask, Finish
<1>4. Types'
  BY <1>1, <1>2, <1>3, QuietTypes DEF Types
<1>5. \A d \in Connections : InboxGoesOn(d)
  BY <1>1 DEF InboxGoesOn, Types
<1>6. \A d \in Connections : Outbound(d)' = Outbound(d)
  BY <1>1 DEF Outbound
<1> QED BY <1>1, <1>4, <1>5, <1>6, QuietStep

LEMMA PacketSteps ==
  ASSUME Types, Busy, NEW c \in Connections, Published(c) \/ Skip(c)
  PROVE  Quiet
<1>1. /\ UNCHANGED <<sm, retained, client, called, owed, lock, sending, received>>
      /\ NextPacket(c)
  BY DEF Published, Skip, sessionVars, brokerVars, clientVars
<1>2. inbox[c] # <<>>
  BY DEF Published, Skip, Busy
<1>3. /\ phase' \in [Connections -> Phases]
      /\ DOMAIN inbox' = Connections
      /\ \A d \in Connections : inbox'[d] \in Seq(FromClient(d))
      /\ inbox'[c] = Tail(inbox[c])
      /\ \A d \in Connections : d # c => inbox'[d] = inbox[d]
  BY <1>1, <1>2, NextPacketTypes
<1>4. Types'
  BY <1>1, <1>3, QuietTypes DEF Types
<1>5. \A d \in Connections : InboxGoesOn(d)
  BY <1>1, <1>2, <1>3 DEF InboxGoesOn, NextPacket, Types
<1>6. \A d \in Connections : Outbound(d)' = Outbound(d)
  BY <1>1 DEF Outbound
<1> QED BY <1>1, <1>4, <1>5, <1>6, QuietStep

LEMMA LeaveSteps ==
  ASSUME Types, NEW c \in Connections, Leave(c)
  PROVE  Quiet
<1>1. CASE EndOfStream(c) \/ RemoveSession(c)
  <2>1. /\ UNCHANGED <<sm, retained, client, called, owed, inbox, lock, sending, received>>
        /\ phase' = phase \/ (phase' = [phase EXCEPT ![c] = "ended"] /\ phase[c] = "reading")
    BY <1>1 DEF EndOfStream, RemoveSession, sessionVars, ioVars, clientVars
  <2>2. phase' \in [Connections -> Phases]
    BY <2>1, PhaseSet DEF Phases, Types
  <2>3. Types'
    BY <2>1, <2>2, QuietTypes DEF Types
  <2>4. \A d \in Connections : InboxGoesOn(d)
    BY <2>1 DEF InboxGoesOn, Types
  <2>5. \A d \in Connections : Outbound(d)' = Outbound(d)
    BY <2>1 DEF Outbound
  <2> QED BY <2>1, <2>3, <2>4, <2>5, QuietStep
<1>2. CASE FeedPartialConnect(c)
  <2>1. /\ UNCHANGED <<sm, retained, owed, inbox, lock, sending, received>>
        /\ phase' = [phase EXCEPT ![c] = "ended"] /\ phase[c] = "reading"
        /\ Does(c, "connect")
    BY <1>2 DEF FeedPartialConnect, sessionVars, brokerVars, Does
  <2>2. phase' \in [Connections -> Phases]
    BY <2>1, PhaseSet DEF Phases
  <2>3. /\ client' \in [Connections -> Clients] /\ called' = called
        /\ \A s \in Connections : s # c => client'[s] = client[s]
        /\ client'[c].done = client[c].done \cup {"connect"}
        /\ client'[c].sent = client[c].sent
    BY <2>1, DoesClient DEF Deeds
  <2>4. Types'
    BY <2>1, <2>2, <2>3 DEF Types, Range
  <2>5. \A d \in Connections : InboxGoesOn(d)
    BY <2>1 DEF InboxGoesOn, Types
  <2>6. \A d \in Connections : Outbound(d)' = Outbound(d)
    BY <2>1 DEF Outbound
  <2> QED BY <2>1, <2>3, <2>4, <2>5, <2>6, OutboundSame DEF Quiet, Serves
<1> QED BY <1>1, <1>2 DEF Leave

\* A flush moves what is on its way to a client.
LEMMA FlushSteps ==
  ASSUME Types, Busy, NEW s \in Connections, Flush(s)
  PROVE  Quiet
<1>1. /\ UNCHANGED <<retained, client, called, owed, inbox>>
      /\ sm[s].out \in Seq(ToClient) /\ sending[s] \in Seq(ToClient)
      /\ received[s] \in Seq(ToClient)
      /\ sm[s] \in Session(s) /\ <<>> \in Seq(ToClient)
  BY SessionFields, EmptySeq DEF Flush, TakeOutbound, SendOutbound, brokerVars, clientVars, Types
<1>2. ASSUME phase' = phase \/ Release(s)
      PROVE  \A d \in Connections : InboxGoesOn(d)
  BY <1>1, <1>2 DEF InboxGoesOn, Release, Types
<1>3. CASE TakeOutbound(s) /\ sm[s].out = <<>>
  <2>1. Release(s) /\ lock[s] # <<>> /\ UNCHANGED <<sm, sending, received>>
    BY <1>3 DEF TakeOutbound, clientVars
  <2>2. /\ phase' \in [Connections -> Phases]
        /\ lock' \in [Connections -> Seq(Connections)]
    BY <2>1, ReleaseTypes
  <2>3. Types'
    BY <1>1, <2>1, <2>2, QuietTypes DEF Types
  <2>4. \A d \in Connections : Outbound(d)' = Outbound(d)
    BY <2>1 DEF Outbound
  <2> QED BY <1>1, <1>2, <2>1, <2>3, <2>4, QuietStep
<1>4. CASE TakeOutbound(s) /\ sm[s].out # <<>>
  <2> DEFINE r == [sm[s] EXCEPT !.out = <<>>]
  <2>1. /\ sending' = [sending EXCEPT ![s] = sm[s].out] /\ sending[s] = <<>>
        /\ sm' = [sm EXCEPT ![s] = r]
        /\ UNCHANGED <<lock, phase, received>>
    BY <1>4 DEF TakeOutbound, clientVars
  <2>2. /\ r \in Session(s) /\ r.out = <<>> /\ r.client = sm[s].client
        /\ r.subscriptions = sm[s].subscriptions /\ r.pending = sm[s].pending
    BY <1>1 DEF Session
  <2> HIDE DEF r
  <2>3. /\ DOMAIN sm' = Connections /\ sm'[s] = r
        /\ \A d \in Connections : d # s => sm'[d] = sm[d]
        /\ sending' \in [Connections -> Seq(ToClient)] /\ sending'[s] = sm[s].out
        /\ \A d \in Connections : d # s => sending'[d] = sending[d]
    BY <1>1, <2>1 DEF Types
  <2>4. \A d \in Connections : sm'[d] \in Session(d)
    BY <2>2, <2>3 DEF Types
  <2>5. Types'
    BY <1>1, <2>1, <2>3, <2>4 DEF Types, Range
  <2>6. Outbound(s)' = Outbound(s)
    <3>1. /\ Outbound(s)' = (received[s] \o sm[s].out) \o <<>>
          /\ Outbound(s) = (received[s] \o <<>>) \o sm[s].out
      BY <2>1, <2>2, <2>3 DEF Outbound
    <3>2. received[s] \o sm[s].out \in Seq(ToClient)
      BY <1>1, ConcatProperties
    <3> QED BY <1>1, <3>1, <3>2, ConcatEmptySeq
  <2>7. \A d \in Connections : Outbound(d)' = Outbound(d)
    BY <2>1, <2>3, <2>6 DEF Outbound
  <2>8. \A d \in Connections : InboxGoesOn(d)
    BY <1>2, <2>1
  <2>9. \A d \in Connections : /\ sm'[d].client = sm[d].client
                               /\ sm'[d].subscriptions = sm[d].subscriptions
                               /\ sm'[d].pending = sm[d].pending
    BY <2>2, <2>3
  <2> QED BY <1>1, <2>5, <2>7, <2>8, <2>9, OutboundSame DEF Quiet, Serves
<1>5. CASE SendOutbound(s) /\ phase[s] # "ended"
  <2>1. /\ received' = [received EXCEPT ![s] = received[s] \o sending[s]]
        /\ sending' = [sending EXCEPT ![s] = <<>>]
        /\ Release(s) /\ UNCHANGED sm
    BY <1>5 DEF SendOutbound, sessionVars
  <2>2. received[s] \o sending[s] \in Seq(ToClient)
    BY <1>1, ConcatProperties
  <2>3. /\ received' \in [Connections -> Seq(ToClient)]
        /\ sending' \in [Connections -> Seq(ToClient)]
        /\ received'[s] = received[s] \o sending[s] /\ sending'[s] = <<>>
        /\ \A d \in Connections : d # s => received'[d] = received[d] /\ sending'[d] = sending[d]
    BY <1>1, <2>1, <2>2 DEF Types
  <2>4. lock[s] # <<>>
    BY <1>5 DEF Busy, SendOutbound
  <2>5. /\ phase' \in [Connections -> Phases]
        /\ lock' \in [Connections -> Seq(Connections)]
    BY <2>1, <2>4, ReleaseTypes
  <2>6. Types'
    BY <1>1, <2>1, <2>3, <2>5, QuietTypes DEF Types
  <2>7. Outbound(s)' = Outbound(s)
    BY <2>1, <2>2, <2>3, ConcatEmptySeq DEF Outbound
  <2>8. \A d \in Connections : Outbound(d)' = Outbound(d)
    BY <2>1, <2>3, <2>7 DEF Outbound
  <2> QED BY <1>1, <1>2, <2>1, <2>6, <2>8, QuietStep
<1>6. CASE SendOutbound(s) /\ phase[s] = "ended"
  <2>1. UNCHANGED <<sm, received, sending, lock, phase>>
    BY <1>6 DEF SendOutbound, sessionVars
  <2>2. Types'
    BY <1>1, <2>1, QuietTypes DEF Types
  <2>3. \A d \in Connections : Outbound(d)' = Outbound(d)
    BY <2>1 DEF Outbound
  <2> QED BY <1>1, <1>2, <2>1, <2>2, <2>3, QuietStep
<1> QED BY <1>3, <1>4, <1>5, <1>6 DEF Flush, TakeOutbound, SendOutbound

\* The client is told of its connection.
Welcomes(c) ==
  /\ Serves
  /\ owed' = owed
  /\ inbox[c] # <<>> /\ Head(inbox[c]).type = "CONNECT" /\ inbox'[c] = Tail(inbox[c])
  /\ \A s \in Connections :
       /\ News(s) \subseteq {a \in Acks : a.type = "CONNACK" /\ s = c}
       /\ sm'[s].subscriptions = sm[s].subscriptions
       /\ sm'[s].pending = sm[s].pending

LEMMA WelcomeStep ==
  ASSUME Types, Busy, NEW c \in Connections, NEW reason \in Refusals,
         AuthorizeConnect(c, reason)
  PROVE  Welcomes(c)
<1> DEFINE a == Ack("CONNACK", 0, reason)
           t == Encode(sm[c], a)
           v == IF reason = "SUCCESS" THEN "CONNECTED" ELSE "DISCONNECTED"
           r == [t EXCEPT !.state = v]
<1>1. /\ UNCHANGED <<retained, lock, sending, received, client, called, owed>>
      /\ NextPacket(c) /\ phase[c] = "asking" /\ Head(inbox[c]).type = "CONNECT"
      /\ sm' = [sm EXCEPT ![c] = r]
  BY DEF AuthorizeConnect, clientVars
<1>2. a \in Acks /\ a \in ToClient /\ a.type = "CONNACK"
  BY AckTypesAreAcks DEF AckTypes, Reasons
<1>3. sm[c] \in Session(c) /\ DOMAIN sm = Connections /\ sm[c].out \in Seq(ToClient)
  BY SessionFields DEF Types
<1> HIDE DEF a
<1>4. /\ t \in Session(c) /\ t.client = sm[c].client /\ t.pending = sm[c].pending
      /\ t.subscriptions = sm[c].subscriptions /\ t.out = Append(sm[c].out, a)
  BY <1>2, <1>3, EncodeType
<1> HIDE DEF t
<1>5. /\ r \in Session(c) /\ r.client = sm[c].client /\ r.pending = sm[c].pending
      /\ r.subscriptions = sm[c].subscriptions /\ r.out = Append(sm[c].out, a)
  BY <1>4 DEF Session
<1> HIDE DEF r
<1>6. inbox[c] # <<>>
  BY <1>1 DEF Busy
<1>7. /\ phase' \in [Connections -> Phases]
      /\ DOMAIN inbox' = Connections
      /\ \A d \in Connections : inbox'[d] \in Seq(FromClient(d))
      /\ inbox'[c] = Tail(inbox[c])
      /\ \A d \in Connections : d # c => inbox'[d] = inbox[d]
  BY <1>1, <1>6, NextPacketTypes
<1>8. /\ DOMAIN sm' = Connections /\ sm'[c] = r
      /\ \A d \in Connections : d # c => sm'[d] = sm[d]
      /\ \A d \in Connections : sm'[d] \in Session(d)
  BY <1>1, <1>3, <1>5 DEF Types
<1>9. Types'
  BY <1>1, <1>7, <1>8 DEF Types, Range
<1>10. \A d \in Connections : InboxGoesOn(d)
  BY <1>1, <1>6, <1>7 DEF InboxGoesOn, NextPacket, Types
<1>11. ASSUME NEW s \in Connections
       PROVE  Longer(s) /\ News(s) \subseteq {x \in Acks : x.type = "CONNACK" /\ s = c}
  <2>1. CASE s = c
    <3>1. Grows(sm[c].out, sm'[c].out, {x \in Acks : x.type = "CONNACK"})
      BY <1>2, <1>3, <1>5, <1>8, GrowsAppend
    <3>2. Longer(c) /\ News(c) \subseteq {x \in Acks : x.type = "CONNACK"}
      BY <1>1, <1>9, <3>1, OutboundLonger
    <3> QED BY <2>1, <3>2
  <2>2. CASE s # c
    BY <1>1, <1>8, <1>9, <2>2, OutboundLonger, OutboundSame
  <2> QED BY <2>1, <2>2
<1>12. \A s \in Connections : /\ sm'[s].client = sm[s].client
                              /\ sm'[s].subscriptions = sm[s].subscriptions
                              /\ sm'[s].pending = sm[s].pending
  BY <1>5, <1>8
<1>13. Serves
  BY <1>1, <1>9, <1>10, <1>11, <1>12 DEF Serves
<1> QED BY <1>1, <1>6, <1>7, <1>11, <1>12, <1>13 DEF Welcomes

\* The client is told of its subscription.
Grants(c) ==
  /\ Serves
  /\ owed' = owed
  /\ inbox[c] # <<>> /\ Grantable(c, 1) /\ inbox'[c] = Tail(inbox[c])
  /\ sm'[c].subscriptions = Request[c]
  /\ \A s \in Connections :
       /\ News(s) \subseteq {a \in Acks : a.type = "SUBACK" /\ s = c}
       /\ s # c => sm'[s].subscriptions = sm[s].subscriptions
       /\ \A id \in DOMAIN sm'[s].pending : /\ id \in DOMAIN sm[s].pending
                                            /\ sm'[s].pending[id] = sm[s].pending[id]

LEMMA GrantStep ==
  ASSUME Types, NEW c \in Connections, AnswerSubscribe(c)
  PROVE  Grants(c)
<1> DEFINE p == Head(inbox[c])
           a == Ack("SUBACK", p.id, "SUCCESS")
           u == Pop(sm[c], p.id)
           t == Encode(u, a)
           g == {x \in t.subscriptions : x.pattern \notin PatternsOf(p.subscriptions)}
                \cup p.subscriptions
           r == [t EXCEPT !.subscriptions = g]
<1>1. /\ UNCHANGED <<retained, lock, sending, received, client, called, owed>>
      /\ NextPacket(c) /\ phase[c] = "handling" /\ inbox[c] # <<>>
      /\ p.type = "SUBSCRIBE" /\ p.id \in DOMAIN sm[c].pending /\ sm[c].pending[p.id] = p
      /\ sm' = [sm EXCEPT ![c] = r]
  BY DEF AnswerSubscribe, Grant, PatternsOf, clientVars, brokerVars
<1>2. p \in FromClient(c) /\ p = inbox[c][1] /\ 1 \in DOMAIN inbox[c]
  BY <1>1, TailElements DEF Types
<1>3. Grantable(c, 1)
  BY <1>1, <1>2 DEF Grantable
<1> HIDE DEF p
<1>4. p.id \in Nat /\ p.subscriptions = Request[c]
  BY <1>1, <1>2, PacketKinds DEF FromClient, AckTypes, IsMessage
<1>5. a \in Acks /\ a \in ToClient /\ a.type = "SUBACK"
  BY <1>4, AckTypesAreAcks, BrokerAssumption DEF AckTypes, Reasons
<1>6. sm[c] \in Session(c) /\ DOMAIN sm = Connections /\ sm[c].out \in Seq(ToClient)
      /\ sm[c].subscriptions \in SUBSET Request[c]
  BY SessionFields DEF Types
<1> HIDE DEF a
<1>7. /\ u \in Session(c) /\ u.client = sm[c].client /\ u.out = sm[c].out
      /\ u.subscriptions = sm[c].subscriptions
      /\ \A id \in DOMAIN u.pending : id \in DOMAIN sm[c].pending
                                      /\ u.pending[id] = sm[c].pending[id]
  BY <1>6, PopType
<1> HIDE DEF u
<1>8. /\ t \in Session(c) /\ t.client = sm[c].client /\ t.pending = u.pending
      /\ t.subscriptions = sm[c].subscriptions /\ t.out = Append(sm[c].out, a)
  BY <1>5, <1>7, EncodeType
<1>9. g = Request[c]
  <2>1. {x \in t.subscriptions : x.pattern \notin PatternsOf(p.subscriptions)} = {}
    BY <1>4, <1>6, <1>8 DEF PatternsOf
  <2> QED BY <1>4, <2>1
<1> HIDE DEF t, g
<1>10. /\ r \in Session(c) /\ r.client = sm[c].client /\ r.pending = u.pending
       /\ r.subscriptions = Request[c] /\ r.out = Append(sm[c].out, a)
  BY <1>8, <1>9 DEF Session
<1> HIDE DEF r
<1>11. /\ phase' \in [Connections -> Phases]
       /\ DOMAIN inbox' = Connections
       /\ \A d \in Connections : inbox'[d] \in Seq(FromClient(d))
       /\ inbox'[c] = Tail(inbox[c])
       /\ \A d \in Connections : d # c => inbox'[d] = inbox[d]
  BY <1>1, NextPacketTypes
<1>12. /\ DOMAIN sm' = Connections /\ sm'[c] = r
       /\ \A d \in Connections : d # c => sm'[d] = sm[d]
       /\ \A d \in Connections : sm'[d] \in Session(d)
  BY <1>1, <1>6, <1>10 DEF Types
<1>13. Types'
  BY <1>1, <1>11, <1>12 DEF Types, Range
<1>14. \A d \in Connections : InboxGoesOn(d)
  BY <1>1, <1>11 DEF InboxGoesOn, NextPacket, Types
<1>15. ASSUME NEW s \in Connections
       PROVE  Longer(s) /\ News(s) \subseteq {x \in Acks : x.type = "SUBACK" /\ s = c}
  <2>1. CASE s = c
    <3>1. Grows(sm[c].out, sm'[c].out, {x \in Acks : x.type = "SUBACK"})
      BY <1>5, <1>6, <1>10, <1>12, GrowsAppend
    <3>2. Longer(c) /\ News(c) \subseteq {x \in Acks : x.type = "SUBACK"}
      BY <1>1, <1>13, <3>1, OutboundLonger
    <3> QED BY <2>1, <3>2
  <2>2. CASE s # c
    BY <1>1, <1>12, <1>13, <2>2, OutboundLonger, OutboundSame
  <2> QED BY <2>1, <2>2
<1>16. \A s \in Connections :
         /\ sm'[s].client = sm[s].client
         /\ s # c => sm'[s].subscriptions = sm[s].subscriptions
         /\ \A id \in DOMAIN sm'[s].pending : /\ id \in DOMAIN sm[s].pending
                                              /\ sm'[s].pending[id] = sm[s].pending[id]
  BY <1>7, <1>10, <1>12
<1>17. Serves
  BY <1>1, <1>13, <1>14, <1>15, <1>16 DEF Serves
<1> QED BY <1>1, <1>3, <1>10, <1>11, <1>12, <1>15, <1>16, <1>17 DEF Grants

\* The message p of the client of c goes to every session that takes it.
Accepts(c, p) ==
  /\ Serves
  /\ inbox[c] # <<>> /\ p = inbox[c][1] /\ p \in Publishes
  /\ phase[c] = "asking" /\ inbox' = inbox /\ table' = table
  /\ phase' = [phase EXCEPT ![c] = "publishing"] \/ (phase' = phase /\ crash' # "none")
  /\ \A s \in Connections :
       /\ s \in Recipients(c, p) => Delivered(Outbound(s), Outbound(s)', p)
       /\ s \notin Recipients(c, p) => News(s) \subseteq Answers
       /\ sm'[s].subscriptions = sm[s].subscriptions
       /\ \A id \in DOMAIN sm'[s].pending : \/ /\ id \in DOMAIN sm[s].pending
                                               /\ sm'[s].pending[id] = sm[s].pending[id]
                                            \/ sm'[s].pending[id] = p
       /\ owed'[s] = IF Counts(s, c, p) THEN owed[s] \cup {p.msg} ELSE owed[s]

LEMMA PublishSession ==
  ASSUME NEW c, NEW s \in Session(c), NEW p \in Publishes, NEW reason \in Refusals,
         NEW own, own = Acknowledge(s, p, reason) \/ own = s
  PROVE  /\ Deliver(own, p) \in Session(c)
         /\ Deliver(own, p).client = s.client
         /\ Deliver(own, p).subscriptions = s.subscriptions
         /\ \A id \in DOMAIN Deliver(own, p).pending :
              \/ id \in DOMAIN s.pending /\ Deliver(own, p).pending[id] = s.pending[id]
              \/ Deliver(own, p).pending[id] = p
         /\ Delivered(s.out, Deliver(own, p).out, p)
<1>1. /\ own \in Session(c)
      /\ own.client = s.client /\ own.subscriptions = s.subscriptions
      /\ \A id \in DOMAIN own.pending : id \in DOMAIN s.pending
                                        /\ own.pending[id] = s.pending[id]
      /\ Grows(s.out, own.out, Answers)
  BY AcknowledgeType, GrowsSame
<1>2. /\ Deliver(own, p) \in Session(c)
      /\ Deliver(own, p).client = own.client
      /\ Deliver(own, p).subscriptions = own.subscriptions
      /\ \A id \in DOMAIN Deliver(own, p).pending :
           \/ id \in DOMAIN own.pending /\ Deliver(own, p).pending[id] = own.pending[id]
           \/ Deliver(own, p).pending[id] = p
      /\ Grows(Append(own.out, p), Deliver(own, p).out, Answers)
  BY <1>1, DeliverType
<1>3. Delivered(s.out, Deliver(own, p).out, p)
  <2>1. /\ s.out \in Seq(ToClient) /\ own.out \in Seq(ToClient)
        /\ Deliver(own, p).out \in Seq(ToClient) /\ p \in ToClient
    BY <1>1, <1>2, SessionFields DEF ToClient
  <2> QED BY <1>1, <1>2, <2>1, GrowsThenDelivered
<1> QED BY <1>1, <1>2, <1>3

LEMMA RetainedType ==
  ASSUME Types, NEW p \in Publishes
  PROVE  Range(Retained(p)) \subseteq Messages
<1>1. /\ p.msg \in Messages /\ \A x \in DOMAIN retained : retained[x] \in Messages
      /\ Retain[p.msg] \in {"no", "store", "clear"}
  BY PacketKinds, BrokerAssumption DEF Types, Range
<1>2. CASE Retain[p.msg] = "no"
  <2>1. Retained(p) = retained
    BY <1>2 DEF Retained
  <2> QED BY <1>1, <2>1 DEF Range
<1>3. CASE Retain[p.msg] = "store"
  <2>1. Retained(p) = Put(retained, Topic[p.msg], p.msg)
    BY <1>3 DEF Retained
  <2> QED BY <1>1, <2>1 DEF Range, Put
<1>4. CASE Retain[p.msg] = "clear"
  <2>1. Retained(p) = Restrict(retained, DOMAIN retained \ {Topic[p.msg]})
    BY <1>4 DEF Retained
  <2> QED BY <1>1, <2>1 DEF Range, Restrict
<1> QED BY <1>1, <1>2, <1>3, <1>4

LEMMA PublishStep ==
  ASSUME Types, Busy, NEW c \in Connections, NEW reason \in Refusals,
         AuthorizePublish(c, reason)
  PROVE  Quiet \/ \E p : Accepts(c, p)
<1> DEFINE p == Head(inbox[c])
<1>1. /\ UNCHANGED <<table, sending, received, client, called>>
      /\ phase[c] = "asking" /\ p.type = "PUBLISH"
  BY DEF AuthorizePublish, clientVars
<1>2. inbox[c] # <<>> /\ p = inbox[c][1] /\ p \in FromClient(c)
  BY <1>1, TailElements DEF Types, Busy
<1>3. p \in Publishes
  BY <1>1, <1>2, PacketKinds DEF FromClient, AckTypes
<1>4. DOMAIN sm = Connections /\ \A s \in Connections : sm[s] \in Session(s)
  BY DEF Types
<1>5. CASE UNCHANGED <<sm, phase, inbox, lock, owed>> /\ retained' \in {retained, Retained(p)}
  <2>1. Range(retained') \subseteq Messages
    BY <1>3, <1>5, RetainedType DEF Types, Range
  <2>2. Types'
    BY <1>1, <1>5, <2>1 DEF Types
  <2>3. \A d \in Connections : Outbound(d)' = Outbound(d)
    BY <1>1, <1>5 DEF Outbound
  <2>4. \A d \in Connections : InboxGoesOn(d)
    BY <1>5 DEF InboxGoesOn
  <2>5. Quiet
    BY <1>1, <1>5, <2>2, <2>3, <2>4, QuietStep
  <2> QED BY <2>5
<1>6. CASE /\ sm' = [sm EXCEPT ![c] = Acknowledge(@, p, reason)]
           /\ NextPacket(c)
           /\ UNCHANGED <<retained, lock, owed>>
  <2> DEFINE r == Acknowledge(sm[c], p, reason)
  <2>1. /\ r \in Session(c)
        /\ r.client = sm[c].client /\ r.subscriptions = sm[c].subscriptions
        /\ \A id \in DOMAIN r.pending : id \in DOMAIN sm[c].pending
                                        /\ r.pending[id] = sm[c].pending[id]
        /\ Grows(sm[c].out, r.out, Answers)
    BY <1>3, <1>4, AcknowledgeType
  <2>2. sm' = [sm EXCEPT ![c] = r]
    BY <1>6
  <2> HIDE DEF r
  <2>3. /\ DOMAIN sm' = Connections /\ sm'[c] = r
        /\ \A d \in Connections : d # c => sm'[d] = sm[d]
        /\ \A d \in Connections : sm'[d] \in Session(d)
    BY <1>4, <2>1, <2>2
  <2>4. /\ phase' \in [Connections -> Phases]
        /\ DOMAIN inbox' = Connections
        /\ \A d \in Connections : inbox'[d] \in Seq(FromClient(d))
        /\ inbox'[c] = Tail(inbox[c])
        /\ \A d \in Connections : d # c => inbox'[d] = inbox[d]
    BY <1>2, <1>6, NextPacketTypes
  <2>5. Types'
    BY <1>1, <1>6, <2>3, <2>4 DEF Types, Range
  <2>6. \A d \in Connections : InboxGoesOn(d)
    BY <1>2, <1>6, <2>4 DEF InboxGoesOn, NextPacket, Types
  <2>7. ASSUME NEW s \in Connections
        PROVE  Longer(s) /\ News(s) \subseteq Answers
    <3>1. Grows(sm[s].out, sm'[s].out, Answers)
      BY <2>1, <2>3, GrowsSame
    <3> QED BY <1>1, <2>5, <3>1, OutboundLonger
  <2>8. \A s \in Connections :
          /\ sm'[s].client = sm[s].client
          /\ sm'[s].subscriptions = sm[s].subscriptions
          /\ \A id \in DOMAIN sm'[s].pending : /\ id \in DOMAIN sm[s].pending
                                               /\ sm'[s].pending[id] = sm[s].pending[id]
    BY <2>1, <2>3
  <2>9. Quiet
    BY <1>1, <1>6, <2>5, <2>6, <2>7, <2>8 DEF Quiet, Serves
  <2> QED BY <2>9
<1>7. CASE /\ retained' = Retained(p)
           /\ sm' = [s \in Connections |->
                LET own == IF s = c THEN Acknowledge(sm[s], p, reason) ELSE sm[s]
                IN  IF s \in Recipients(c, p) THEN Deliver(own, p) ELSE own]
           /\ owed' = [s \in Connections |->
                IF Counts(s, c, p) THEN owed[s] \cup {p.msg} ELSE owed[s]]
           /\ inbox' = inbox
           /\ \/ /\ phase' = [phase EXCEPT ![c] = "publishing"]
                 /\ \E S : lock' = [s \in Connections |->
                                      IF s \in S THEN Append(lock[s], c) ELSE lock[s]]
              \/ UNCHANGED <<phase, lock>> /\ crash' = "KeyError"
  <2> DEFINE own(s) == IF s = c THEN Acknowledge(sm[s], p, reason) ELSE sm[s]
  <2>1. ASSUME NEW s \in Connections
        PROVE  /\ sm'[s] \in Session(s)
               /\ sm'[s].client = sm[s].client
               /\ sm'[s].subscriptions = sm[s].subscriptions
               /\ \A id \in DOMAIN sm'[s].pending : \/ /\ id \in DOMAIN sm[s].pending
                                                       /\ sm'[s].pending[id] = sm[s].pending[id]
                                                    \/ sm'[s].pending[id] = p
               /\ s \in Recipients(c, p) => Delivered(sm[s].out, sm'[s].out, p)
               /\ s \notin Recipients(c, p) => Grows(sm[s].out, sm'[s].out, Answers)
               /\ Grows(sm[s].out, sm'[s].out, Answers \cup {p})
    <3>1. CASE s \in Recipients(c, p)
      <4>1. sm'[s] = Deliver(own(s), p)
        BY <1>7, <3>1
      <4>2. own(s) = Acknowledge(sm[s], p, reason) \/ own(s) = sm[s]
        OBVIOUS
      <4> HIDE DEF own
      <4>3. /\ Deliver(own(s), p) \in Session(s)
            /\ Deliver(own(s), p).client = sm[s].client
            /\ Deliver(own(s), p).subscriptions = sm[s].subscriptions
            /\ \A id \in DOMAIN Deliver(own(s), p).pending :
                 \/ /\ id \in DOMAIN sm[s].pending
                    /\ Deliver(own(s), p).pending[id] = sm[s].pending[id]
                 \/ Deliver(own(s), p).pending[id] = p
            /\ Delivered(sm[s].out, Deliver(own(s), p).out, p)
        BY <1>3, <1>4, <4>2, PublishSession
      <4> QED BY <3>1, <4>1, <4>3 DEF Delivered
    <3>2. CASE s \notin Recipients(c, p)
      <4>1. sm'[s] = own(s)
        BY <1>7, <3>2
      <4>2. /\ own(s) \in Session(s)
            /\ own(s).client = sm[s].client
            /\ own(s).subscriptions = sm[s].subscriptions
            /\ \A id \in DOMAIN own(s).pending : id \in DOMAIN sm[s].pending
                                                 /\ own(s).pending[id] = sm[s].pending[id]
            /\ Grows(sm[s].out, own(s).out, Answers)
        <5>1. CASE s = c
          BY <1>3, <1>4, <5>1, AcknowledgeType
        <5>2. CASE s # c
          BY <1>4, <5>2, GrowsSame
        <5> QED BY <5>1, <5>2
      <4> HIDE DEF own
      <4>3. Grows(sm[s].out, own(s).out, Answers \cup {p})
        BY <4>2 DEF Grows
      <4> QED BY <3>2, <4>1, <4>2, <4>3
    <3> QED BY <3>1, <3>2
  <2>2. DOMAIN sm' = Connections /\ DOMAIN owed' = Connections
    BY <1>7
  <2>3. Range(retained') \subseteq Messages
    BY <1>3, <1>7, RetainedType
  <2>4. phase' \in [Connections -> Phases]
    BY <1>7, PhaseSet DEF Types, Phases
  <2>5. lock' \in [Connections -> Seq(Connections)]
    <3>1. \A s \in Connections : /\ Append(lock[s], c) \in Seq(Connections)
                                 /\ lock[s] \in Seq(Connections)
      BY AppendElements DEF Types
    <3> QED BY <1>7, <3>1 DEF Types
  <2>6. Types'
    BY <1>1, <1>7, <2>1, <2>2, <2>3, <2>4, <2>5 DEF Types
  <2>7. ASSUME NEW s \in Connections
        PROVE  /\ Longer(s)
               /\ s \in Recipients(c, p) => Delivered(Outbound(s), Outbound(s)', p)
               /\ s \notin Recipients(c, p) => News(s) \subseteq Answers
    BY <1>1, <2>1, <2>6, OutboundLonger
  <2>8. \A d \in Connections : InboxGoesOn(d)
    BY <1>1, <1>7 DEF InboxGoesOn, Types
  <2>9. Serves
    BY <1>1, <2>1, <2>6, <2>7, <2>8 DEF Serves
  <2>10. phase' = [phase EXCEPT ![c] = "publishing"] \/ (phase' = phase /\ crash' # "none")
    BY <1>7
  <2>11. \A s \in Connections :
           owed'[s] = IF Counts(s, c, p) THEN owed[s] \cup {p.msg} ELSE owed[s]
    BY <1>7
  <2>12. Accepts(c, p)
    BY <1>1, <1>2, <1>3, <1>7, <2>1, <2>7, <2>9, <2>10, <2>11 DEF Accepts
  <2> QED BY <2>12
<1>8. \/ /\ UNCHANGED <<sm, phase, inbox, lock, owed>> /\ retained' \in {retained, Retained(p)}
      \/ /\ sm' = [sm EXCEPT ![c] = Acknowledge(@, p, reason)]
         /\ NextPacket(c)
         /\ UNCHANGED <<retained, lock, owed>>
      \/ /\ retained' = Retained(p)
         /\ sm' = [s \in Connections |->
              LET own == IF s = c THEN Acknowledge(sm[s], p, reason) ELSE sm[s]
              IN  IF s \in Recipients(c, p) THEN Deliver(own, p) ELSE own]
         /\ owed' = [s \in Connections |->
              IF Counts(s, c, p) THEN owed[s] \cup {p.msg} ELSE owed[s]]
         /\ inbox' = inbox
         /\ \/ /\ phase' = [phase EXCEPT ![c] = "publishing"]
               /\ \E S : lock' = [s \in Connections |->
                                    IF s \in S THEN Append(lock[s], c) ELSE lock[s]]
            \/ UNCHANGED <<phase, lock>> /\ crash' = "KeyError"
  BY DEF AuthorizePublish, sessionVars
<1> QED BY <1>5, <1>6, <1>7, <1>8

\* The packet p comes from the client of c.
Feeds(c, p) ==
  /\ Types' /\ Sends(c, p) /\ owed' = owed
  /\ Fed(c, sm[c], p, sm'[c])
  /\ inbox'[c] = Append(inbox[c], p)
  /\ \A s \in Connections :
       /\ s # c => sm'[s] = sm[s] /\ inbox'[s] = inbox[s]
       /\ Longer(s)
       /\ News(s) \subseteq {a \in Replies(c, p, sm'[c]) : s = c}
       /\ phase[s] = "publishing" => phase'[s] = "publishing"

LEMMA FeedStep ==
  ASSUME Types, NEW c \in Connections, ClientSends(c)
  PROVE  \E p : Feeds(c, p)
<1>1. PICK p : Sends(c, p)
  BY SendSignals, SendRequests, SendPublishes, SendAnswers DEF ClientSends
<1>2. /\ Types'
      /\ Fed(c, sm[c], p, sm'[c])
      /\ \A s \in Connections : s # c => sm'[s] = sm[s] /\ inbox'[s] = inbox[s]
      /\ inbox'[c] = Append(inbox[c], p)
      /\ UNCHANGED <<received, sending>>
  BY <1>1, FeedTypes DEF Sends
<1>3. ASSUME NEW s \in Connections
      PROVE  Longer(s) /\ News(s) \subseteq {a \in Replies(c, p, sm'[c]) : s = c}
  <2>1. CASE s = c
    <3>1. Grows(sm[c].out, sm'[c].out, Replies(c, p, sm'[c]))
      BY <1>2 DEF Fed
    <3>2. Longer(c) /\ News(c) \subseteq Replies(c, p, sm'[c])
      BY <1>2, <3>1, OutboundLonger
    <3> QED BY <2>1, <3>2
  <2>2. CASE s # c
    BY <1>2, <2>2, OutboundLonger, OutboundSame
  <2> QED BY <2>1, <2>2
<1>4. owed' = owed
  BY <1>1 DEF Sends, Feed
<1>5. \A s \in Connections : phase[s] = "publishing" => phase'[s] = "publishing"
  BY <1>1 DEF Sends, Feed, Types
<1> QED BY <1>1, <1>2, <1>3, <1>4, <1>5 DEF Feeds

-----------------------------------------------------------------------------
(* What a step makes of the inbox and of what is on its way                *)

LEMMA InboxGoes ==
  ASSUME Types, Types', NEW c \in Connections, InboxGoesOn(c)
  PROVE  \E d \in {0, 1} :
           /\ \A k \in DOMAIN inbox'[c] : /\ k \in Nat /\ k >= 1
                                          /\ k + d \in DOMAIN inbox[c]
                                          /\ inbox'[c][k] = inbox[c][k + d]
           /\ d = 0 /\ phase[c] = "publishing" => phase'[c] = "publishing"
<1>1. /\ inbox[c] \in Seq(FromClient(c)) /\ inbox'[c] \in Seq(FromClient(c))
      /\ \A k \in DOMAIN inbox'[c] : k \in Nat /\ k >= 1 /\ k + 0 = k
  BY DomainOfSeq DEF Types
<1>2. CASE /\ inbox'[c] = inbox[c]
           /\ phase[c] = "publishing" => phase'[c] = "publishing"
  BY <1>1, <1>2
<1>3. CASE inbox[c] # <<>> /\ inbox'[c] = Tail(inbox[c])
  <2>1. \A k \in DOMAIN inbox'[c] : k + 1 \in DOMAIN inbox[c] /\ inbox'[c][k] = inbox[c][k + 1]
    BY <1>1, <1>3, TailElements
  <2> QED BY <1>1, <2>1
<1> QED BY <1>2, <1>3 DEF InboxGoesOn

LEMMA InboxShrinks ==
  ASSUME Types, Types', NEW c \in Connections, InboxGoesOn(c), NEW type
  PROVE  InInbox(c, type)' => InInbox(c, type)
BY InboxGoes DEF InInbox

LEMMA InboxGrows ==
  ASSUME Types, NEW c \in Connections, NEW p, Feeds(c, p)
  PROVE  /\ \A k \in DOMAIN inbox'[c] : \/ k \in DOMAIN inbox[c] /\ inbox'[c][k] = inbox[c][k]
                                        \/ /\ k = Len(inbox[c]) + 1 /\ k \notin DOMAIN inbox[c]
                                           /\ inbox'[c][k] = p
         /\ \A k \in DOMAIN inbox[c] : k \in DOMAIN inbox'[c] /\ inbox'[c][k] = inbox[c][k]
         /\ \A type : InInbox(c, type)' => InInbox(c, type) \/ p.type = type
<1>1. /\ inbox[c] \in Seq(FromClient(c)) /\ p \in FromClient(c)
      /\ inbox'[c] = Append(inbox[c], p)
  BY DEF Types, Feeds, Sends
<1>2. /\ \A k \in DOMAIN inbox'[c] : \/ k \in DOMAIN inbox[c] /\ inbox'[c][k] = inbox[c][k]
                                     \/ k = Len(inbox[c]) + 1 /\ inbox'[c][k] = p
      /\ \A k \in DOMAIN inbox[c] : k \in DOMAIN inbox'[c] /\ inbox'[c][k] = inbox[c][k]
  BY <1>1, AppendElements
<1>3. Len(inbox[c]) + 1 \notin DOMAIN inbox[c]
  BY <1>1, DomainOfSeq
<1> QED BY <1>2, <1>3 DEF InInbox

LEMMA HasOutStep ==
  ASSUME NEW s, Longer(s), NEW type
  PROVE  /\ HasOut(s, type) => HasOut(s, type)'
         /\ HasOut(s, type)' => HasOut(s, type) \/ \E a \in News(s) : a.type = type
         /\ HasOut(s, type)' <=> \E k \in DOMAIN Outbound(s)' : Outbound(s)'[k].type = type
BY DEF HasOut, Longer, News

LEMMA OutElements ==
  ASSUME NEW s, Longer(s), NEW k \in DOMAIN Outbound(s)'
  PROVE  \/ k \in DOMAIN Outbound(s) /\ Outbound(s)'[k] = Outbound(s)[k]
         \/ k \notin DOMAIN Outbound(s) /\ Outbound(s)'[k] \in News(s)
BY DEF Longer, News

-----------------------------------------------------------------------------
(* Each message is sent once                                               *)

LEMMA SentOnceServes ==
  ASSUME Types, SentOnce, Serves,
         \A s \in Connections : \A q \in News(s) : IsMessage(q) => q.msg <= called
  PROVE  SentOnce'
<1>1. /\ Types' /\ called' = called
      /\ \A c \in Connections : /\ Longer(c) /\ InboxGoesOn(c)
                                /\ client'[c].sent = client[c].sent
  BY DEF Serves
<1>2. \A c \in Connections : \A m \in DOMAIN client'[c].sent : m <= called'
  BY <1>1 DEF SentOnce
<1>3. \A c, d \in Connections :
        c # d => DOMAIN client'[c].sent \cap DOMAIN client'[d].sent = {}
  BY <1>1 DEF SentOnce
<1>4. ASSUME NEW c \in Connections, NEW k \in DOMAIN inbox'[c], IsMessage(inbox'[c][k])
      PROVE  inbox'[c][k].msg \in DOMAIN client'[c].sent
  BY <1>1, <1>4, InboxGoes DEF SentOnce
<1>5. ASSUME NEW c \in Connections, NEW k \in DOMAIN inbox'[c], NEW l \in DOMAIN inbox'[c],
             IsMessage(inbox'[c][k]), IsMessage(inbox'[c][l]),
             inbox'[c][k].msg = inbox'[c][l].msg
      PROVE  k = l
  <2>1. PICK d \in {0, 1} : \A j \in DOMAIN inbox'[c] : /\ j \in Nat
                                                        /\ j + d \in DOMAIN inbox[c]
                                                        /\ inbox'[c][j] = inbox[c][j + d]
    BY <1>1, InboxGoes
  <2>2. k + d = l + d
    BY <1>5, <2>1 DEF SentOnce
  <2> QED BY <2>1, <2>2
<1>6. ASSUME NEW s \in Connections, NEW k \in DOMAIN Outbound(s)', IsMessage(Outbound(s)'[k])
      PROVE  Outbound(s)'[k].msg <= called'
  BY <1>1, <1>6, OutElements DEF SentOnce
<1> QED BY <1>2, <1>3, <1>4, <1>5, <1>6 DEF SentOnce, IsMessage

LEMMA MessageNumbers ==
  /\ Cardinality(Messages) \in Nat
  /\ \A m \in Messages : m \in Nat
BY BrokerAssumption, FS_CardinalityType

LEMMA SentNumbers ==
  ASSUME Types, NEW s \in Connections
  PROVE  \A m \in DOMAIN client[s].sent : m \in Nat
<1>1. client[s].sent \in Sents
  BY DEF Types, Clients
<1>2. DOMAIN client[s].sent \subseteq Messages
  BY <1>1 DEF Sents
<1> QED BY <1>2, MessageNumbers

LEMMA SentOnceFeeds ==
  ASSUME Types, SentOnce, NEW c \in Connections, NEW p, Feeds(c, p)
  PROVE  SentOnce'
<1>1. /\ \A s \in Connections : Longer(s) /\ News(s) \subseteq Acks
      /\ \A s \in Connections : s # c => inbox'[s] = inbox[s] /\ client'[s] = client[s]
      /\ p \in FromClient(c)
  BY DEF Feeds, Replies, Sends
<1>2. /\ called \in Nat /\ DOMAIN client[c].sent \subseteq DOMAIN client'[c].sent
      /\ \/ /\ IsMessage(p)
            /\ called' = called + 1 /\ p.msg = called'
            /\ DOMAIN client'[c].sent = DOMAIN client[c].sent \cup {called'}
         \/ ~IsMessage(p) /\ called' = called /\ client'[c].sent = client[c].sent
  <2>1. called \in Nat
    BY MessageNumbers DEF Types
  <2>2. \/ /\ IsMessage(p)
           /\ called' = called + 1 /\ p.msg = called'
           /\ DOMAIN client'[c].sent = DOMAIN client[c].sent \cup {called'}
        \/ ~IsMessage(p) /\ called' = called /\ client'[c].sent = client[c].sent
    BY DEF Feeds, Sends
  <2> QED BY <2>1, <2>2
<1>3. \A s \in Connections : \A m \in DOMAIN client[s].sent : m \in Nat
  BY SentNumbers
<1>4. \A s \in Connections : \A m \in DOMAIN client'[s].sent : m <= called'
  BY <1>1, <1>2, <1>3 DEF SentOnce
<1>5. \A s, d \in Connections :
        s # d => DOMAIN client'[s].sent \cap DOMAIN client'[d].sent = {}
  BY <1>1, <1>2, <1>3 DEF SentOnce
<1>6. ASSUME NEW s \in Connections, NEW k \in DOMAIN inbox'[s], IsMessage(inbox'[s][k])
      PROVE  inbox'[s][k].msg \in DOMAIN client'[s].sent
  <2>1. CASE s # c
    BY <1>1, <1>6, <2>1 DEF SentOnce
  <2>2. CASE s = c
    BY <1>2, <1>6, <2>2, InboxGrows DEF SentOnce
  <2> QED BY <2>1, <2>2
<1>7. ASSUME NEW s \in Connections, NEW k \in DOMAIN inbox'[s], NEW l \in DOMAIN inbox'[s],
             IsMessage(inbox'[s][k]), IsMessage(inbox'[s][l]),
             inbox'[s][k].msg = inbox'[s][l].msg
      PROVE  k = l
  <2>1. CASE s # c
    BY <1>1, <1>7, <2>1 DEF SentOnce
  <2>2. CASE s = c
    <3>1. \A j \in DOMAIN inbox[c] :
            IsMessage(inbox[c][j]) => inbox[c][j].msg \in Nat /\ inbox[c][j].msg <= called
      BY <1>3 DEF SentOnce
    <3>2. IsMessage(p) => p.msg = called + 1
      BY <1>2
    <3> QED BY <1>2, <1>7, <2>2, <3>1, <3>2, InboxGrows DEF SentOnce
  <2> QED BY <2>1, <2>2
<1>8. ASSUME NEW s \in Connections, NEW k \in DOMAIN Outbound(s)', IsMessage(Outbound(s)'[k])
      PROVE  Outbound(s)'[k].msg <= called'
  <2>1. k \in DOMAIN Outbound(s) /\ Outbound(s)'[k] = Outbound(s)[k]
    BY <1>1, <1>8, OutElements, PacketKinds
  <2>2. Outbound(s)[k].msg \in Nat /\ Outbound(s)[k].msg <= called
    <3>1. Outbound(s)[k].msg \in Messages
      BY <1>8, <2>1, OutboundType, PacketKinds
    <3> QED BY <1>8, <2>1, <3>1, MessageNumbers DEF SentOnce
  <2> QED BY <1>2, <2>1, <2>2
<1> QED BY <1>4, <1>5, <1>6, <1>7, <1>8 DEF SentOnce, IsMessage

-----------------------------------------------------------------------------
(* A client connects once                                                  *)

LEMMA ConnectsOnceServes ==
  ASSUME Types, ConnectsOnce, Serves,
         \A s \in Connections : \A a \in News(s) : a.type = "CONNACK" =>
           InInbox(s, "CONNECT") /\ ~InInbox(s, "CONNECT")'
  PROVE  ConnectsOnce'
<1> SUFFICES ASSUME NEW c \in Connections
             PROVE  /\ "connect" \notin client'[c].done =>
                         ~InInbox(c, "CONNECT")' /\ ~HasOut(c, "CONNACK")'
                    /\ ~HasOut(c, "CONNACK")' => "subscribe" \notin client'[c].done
                    /\ InInbox(c, "CONNECT")' => ~HasOut(c, "CONNACK")'
                    /\ \A k, l \in DOMAIN inbox'[c] :
                         inbox'[c][k].type = "CONNECT" /\ inbox'[c][l].type = "CONNECT" => k = l
  BY DEF ConnectsOnce
<1>1. /\ Types' /\ Longer(c) /\ InboxGoesOn(c)
      /\ client[c].done \subseteq client'[c].done
      /\ client'[c].done \subseteq client[c].done \cup {"connect"}
  BY DEF Serves
<1>2. /\ InInbox(c, "CONNECT")' => InInbox(c, "CONNECT")
      /\ HasOut(c, "CONNACK") => HasOut(c, "CONNACK")'
      /\ HasOut(c, "CONNACK")' =>
           HasOut(c, "CONNACK") \/ (InInbox(c, "CONNECT") /\ ~InInbox(c, "CONNECT")')
  BY <1>1, InboxShrinks, HasOutStep
<1>3. ASSUME NEW k \in DOMAIN inbox'[c], NEW l \in DOMAIN inbox'[c],
             inbox'[c][k].type = "CONNECT", inbox'[c][l].type = "CONNECT"
      PROVE  k = l
  <2>1. PICK d \in {0, 1} : \A j \in DOMAIN inbox'[c] : /\ j \in Nat
                                                        /\ j + d \in DOMAIN inbox[c]
                                                        /\ inbox'[c][j] = inbox[c][j + d]
    BY <1>1, InboxGoes
  <2>2. k + d = l + d
    BY <1>3, <2>1 DEF ConnectsOnce
  <2> QED BY <2>1, <2>2
<1> QED BY <1>1, <1>2, <1>3 DEF ConnectsOnce

LEMMA ConnectsOnceFeeds ==
  ASSUME Types, ConnectsOnce, NEW c \in Connections, NEW p, Feeds(c, p)
  PROVE  ConnectsOnce'
<1> SUFFICES ASSUME NEW s \in Connections
             PROVE  /\ "connect" \notin client'[s].done =>
                         ~InInbox(s, "CONNECT")' /\ ~HasOut(s, "CONNACK")'
                    /\ ~HasOut(s, "CONNACK")' => "subscribe" \notin client'[s].done
                    /\ InInbox(s, "CONNECT")' => ~HasOut(s, "CONNACK")'
                    /\ \A k, l \in DOMAIN inbox'[s] :
                         inbox'[s][k].type = "CONNECT" /\ inbox'[s][l].type = "CONNECT" => k = l
  BY DEF ConnectsOnce
<1>1. HasOut(s, "CONNACK")' <=> HasOut(s, "CONNACK")
  <2>1. Longer(s) /\ \A a \in News(s) : a.type # "CONNACK"
    BY DEF Feeds, Replies
  <2> QED BY <2>1, HasOutStep
<1>2. CASE s # c
  <2>1. inbox'[s] = inbox[s] /\ client'[s] = client[s]
    BY <1>2 DEF Feeds, Sends
  <2> QED BY <1>1, <2>1 DEF ConnectsOnce, InInbox
<1>3. CASE s = c
  <2>1. /\ client[c].done \subseteq client'[c].done
        /\ p.type = "CONNECT" => "connect" \notin client[c].done /\ "connect" \in client'[c].done
        /\ p.type = "SUBSCRIBE" => HasOut(c, "CONNACK")
        /\ "subscribe" \in client'[c].done \ client[c].done => p.type = "SUBSCRIBE"
    BY DEF Feeds, Sends
  <2>2. InInbox(c, "CONNECT")' => InInbox(c, "CONNECT") \/ p.type = "CONNECT"
    BY InboxGrows
  <2>3. ASSUME NEW k \in DOMAIN inbox'[c], NEW l \in DOMAIN inbox'[c],
               inbox'[c][k].type = "CONNECT", inbox'[c][l].type = "CONNECT"
        PROVE  k = l
    <3>1. CASE k \in DOMAIN inbox[c] /\ l \in DOMAIN inbox[c]
      BY <2>3, <3>1, InboxGrows DEF ConnectsOnce
    <3>2. ASSUME NEW j \in DOMAIN inbox[c], inbox[c][j].type = "CONNECT" PROVE p.type # "CONNECT"
      BY <2>1, <3>2 DEF ConnectsOnce, InInbox
    <3> QED BY <2>3, <3>1, <3>2, InboxGrows
  <2> QED BY <1>1, <1>3, <2>1, <2>2, <2>3 DEF ConnectsOnce
<1> QED BY <1>2, <1>3

-----------------------------------------------------------------------------
(* A client subscribes once                                                *)

LEMMA ToldStep ==
  ASSUME NEW c, Longer(c)
  PROVE  /\ Told(c) => Told(c)'
         /\ Told(c)' => Told(c) \/ \E a \in News(c) : a.type = "SUBACK" /\ a.reason = "SUCCESS"
BY DEF Told, Longer, News

\* A request that is granted is the client's only one.
LEMMA SubscriberServes ==
  ASSUME Types, NEW c \in Connections, Subscriber(c), Serves,
         \A a \in News(c) : a.type \notin {"SUBACK", "UNSUBACK"},
         sm'[c].subscriptions = sm[c].subscriptions,
         \A id \in DOMAIN sm'[c].pending :
           \/ id \in DOMAIN sm[c].pending /\ sm'[c].pending[id] = sm[c].pending[id]
           \/ IsMessage(sm'[c].pending[id]),
         owed'[c] = owed[c] \/ HasOut(c, "SUBACK")
  PROVE  Subscriber(c)'
<1>1. /\ Types' /\ Longer(c) /\ InboxGoesOn(c)
      /\ "subscribe" \in client'[c].done <=> "subscribe" \in client[c].done
      /\ "unsubscribe" \in client'[c].done <=> "unsubscribe" \in client[c].done
  BY DEF Serves
<1>2. /\ InInbox(c, "SUBSCRIBE")' => InInbox(c, "SUBSCRIBE")
      /\ InInbox(c, "UNSUBSCRIBE")' => InInbox(c, "UNSUBSCRIBE")
      /\ HasOut(c, "SUBACK")' <=> HasOut(c, "SUBACK")
      /\ HasOut(c, "UNSUBACK")' <=> HasOut(c, "UNSUBACK")
      /\ Told(c)' <=> Told(c)
  BY <1>1, InboxShrinks, HasOutStep, ToldStep
<1>3. PICK d \in {0, 1} : \A j \in DOMAIN inbox'[c] : /\ j \in Nat
                                                      /\ j + d \in DOMAIN inbox[c]
                                                      /\ inbox'[c][j] = inbox[c][j + d]
  BY <1>1, InboxGoes
<1>4. ASSUME NEW k \in DOMAIN inbox'[c], NEW l \in DOMAIN inbox'[c],
             inbox'[c][k].type = "SUBSCRIBE", inbox'[c][l].type = "SUBSCRIBE"
      PROVE  k = l
  <2>1. k + d = l + d
    BY <1>3, <1>4 DEF Subscriber
  <2> QED BY <1>3, <2>1
<1>5. ASSUME NEW k \in DOMAIN inbox'[c], Grantable(c, k)'
      PROVE  ~HasOut(c, "SUBACK")'
  <2>1. Grantable(c, k + d)
    BY <1>3, <1>5 DEF Grantable, IsMessage
  <2> QED BY <1>2, <1>3, <2>1 DEF Subscriber
<1>6. "subscribe" \notin client'[c].done =>
        /\ ~InInbox(c, "SUBSCRIBE")' /\ ~HasOut(c, "SUBACK")'
        /\ owed'[c] = {}
  BY <1>1, <1>2 DEF Subscriber
<1>7. /\ ~HasOut(c, "SUBACK")' => "unsubscribe" \notin client'[c].done
      /\ "unsubscribe" \notin client'[c].done =>
           ~InInbox(c, "UNSUBSCRIBE")' /\ ~HasOut(c, "UNSUBACK")'
      /\ HasOut(c, "UNSUBACK")' => sm'[c].subscriptions = {}
      /\ "unsubscribe" \notin client'[c].done /\ Told(c)' => sm'[c].subscriptions = Request[c]
  BY <1>1, <1>2 DEF Subscriber
<1> QED BY <1>4, <1>5, <1>6, <1>7 DEF Subscriber

LEMMA SubscriberGrants ==
  ASSUME Types, NEW c \in Connections, Subscriber(c), Grants(c)
  PROVE  Subscriber(c)'
<1>1. /\ Types' /\ Longer(c) /\ InboxGoesOn(c) /\ owed' = owed
      /\ "subscribe" \in client'[c].done <=> "subscribe" \in client[c].done
      /\ "unsubscribe" \in client'[c].done <=> "unsubscribe" \in client[c].done
  BY DEF Grants, Serves
<1>2. /\ \A a \in News(c) : a.type = "SUBACK"
      /\ sm'[c].subscriptions = Request[c]
      /\ Grantable(c, 1) /\ inbox[c] # <<>> /\ inbox'[c] = Tail(inbox[c])
  BY DEF Grants
<1>3. /\ InInbox(c, "SUBSCRIBE")' => InInbox(c, "SUBSCRIBE")
      /\ InInbox(c, "UNSUBSCRIBE")' => InInbox(c, "UNSUBSCRIBE")
      /\ HasOut(c, "SUBACK") => HasOut(c, "SUBACK")'
      /\ HasOut(c, "UNSUBACK")' <=> HasOut(c, "UNSUBACK")
  BY <1>1, <1>2, InboxShrinks, HasOutStep
<1>4. /\ 1 \in DOMAIN inbox[c] /\ inbox[c][1].type = "SUBSCRIBE"
      /\ \A k \in DOMAIN inbox'[c] : /\ k \in Nat /\ k >= 1 /\ k + 1 \in DOMAIN inbox[c]
                                     /\ inbox'[c][k] = inbox[c][k + 1]
  <2>1. inbox[c] \in Seq(FromClient(c)) /\ inbox'[c] \in Seq(FromClient(c))
    BY <1>1 DEF Types
  <2>2. \A k \in DOMAIN inbox'[c] : k \in Nat /\ k >= 1
    BY <2>1, DomainOfSeq
  <2>3. /\ 1 \in DOMAIN inbox[c]
        /\ \A k \in DOMAIN inbox'[c] : k + 1 \in DOMAIN inbox[c] /\ inbox'[c][k] = inbox[c][k + 1]
    BY <1>2, <2>1, TailElements
  <2> QED BY <1>2, <2>2, <2>3 DEF Grantable
<1>5. ~HasOut(c, "SUBACK") /\ "subscribe" \in client[c].done
  BY <1>2, <1>4 DEF Subscriber, InInbox
<1>6. "unsubscribe" \notin client[c].done
  BY <1>5 DEF Subscriber
<1>7. ~HasOut(c, "UNSUBACK") /\ ~InInbox(c, "UNSUBSCRIBE")
  BY <1>6 DEF Subscriber
<1>8. ASSUME NEW k \in DOMAIN inbox'[c] PROVE inbox'[c][k].type # "SUBSCRIBE"
  <2> SUFFICES ASSUME inbox'[c][k].type = "SUBSCRIBE" PROVE FALSE
    OBVIOUS
  <2>1. k + 1 = 1
    BY <1>4 DEF Subscriber
  <2> QED BY <1>4, <2>1
<1> QED BY <1>1, <1>2, <1>3, <1>5, <1>6, <1>7, <1>8 DEF Subscriber, Grantable

LEMMA SubscriberFeeds ==
  ASSUME Types, NEW c \in Connections, Subscriber(c), NEW p, Feeds(c, p)
  PROVE  Subscriber(c)'
<1>1. /\ Longer(c) /\ owed' = owed
      /\ client[c].done \subseteq client'[c].done
      /\ p.type = "SUBSCRIBE" => /\ "subscribe" \notin client[c].done
                                 /\ "subscribe" \in client'[c].done
      /\ p.type = "UNSUBSCRIBE" => HasOut(c, "SUBACK") /\ "unsubscribe" \in client'[c].done
      /\ "subscribe" \in client'[c].done \ client[c].done => p.type = "SUBSCRIBE"
      /\ "unsubscribe" \in client'[c].done \ client[c].done => p.type = "UNSUBSCRIBE"
  BY DEF Feeds, Sends
<1>2. \A a \in News(c) :
        /\ a.type = "UNSUBACK" => p.type = "UNSUBSCRIBE" /\ sm'[c].subscriptions = {}
        /\ a.type = "SUBACK" =>
             /\ a.reason = "IN_USE" /\ p.type \in {"SUBSCRIBE", "UNSUBSCRIBE"}
             /\ ~(p.id \in DOMAIN sm'[c].pending /\ sm'[c].pending[p.id] = p)
  BY DEF Feeds, Replies
<1>3. /\ sm'[c].subscriptions = sm[c].subscriptions
         \/ (p.type = "UNSUBSCRIBE" /\ sm'[c].subscriptions = {})
      /\ \A id \in DOMAIN sm'[c].pending :
           \/ id \in DOMAIN sm[c].pending /\ sm'[c].pending[id] = sm[c].pending[id]
           \/ sm'[c].pending[id] = p
  BY DEF Feeds, Fed
<1>4. /\ HasOut(c, "SUBACK") => HasOut(c, "SUBACK")'
      /\ HasOut(c, "SUBACK")' => HasOut(c, "SUBACK") \/ \E a \in News(c) : a.type = "SUBACK"
      /\ HasOut(c, "UNSUBACK") => HasOut(c, "UNSUBACK")'
      /\ HasOut(c, "UNSUBACK")' =>
           HasOut(c, "UNSUBACK") \/ (p.type = "UNSUBSCRIBE" /\ sm'[c].subscriptions = {})
      /\ Told(c)' => Told(c)
  BY <1>1, <1>2, HasOutStep, ToldStep
<1>5. /\ InInbox(c, "SUBSCRIBE")' => InInbox(c, "SUBSCRIBE") \/ p.type = "SUBSCRIBE"
      /\ InInbox(c, "UNSUBSCRIBE")' => InInbox(c, "UNSUBSCRIBE") \/ p.type = "UNSUBSCRIBE"
  BY InboxGrows
<1>6. ASSUME p.type = "SUBSCRIBE" PROVE ~HasOut(c, "SUBACK") /\ ~InInbox(c, "SUBSCRIBE")
  BY <1>1, <1>6 DEF Subscriber
<1>7. ASSUME NEW k \in DOMAIN inbox'[c], NEW l \in DOMAIN inbox'[c],
             inbox'[c][k].type = "SUBSCRIBE", inbox'[c][l].type = "SUBSCRIBE"
      PROVE  k = l
  <2>1. CASE k \in DOMAIN inbox[c] /\ l \in DOMAIN inbox[c]
    BY <1>7, <2>1, InboxGrows DEF Subscriber
  <2>2. ASSUME NEW j \in DOMAIN inbox[c], inbox[c][j].type = "SUBSCRIBE"
        PROVE  p.type # "SUBSCRIBE"
    BY <1>6, <2>2 DEF InInbox
  <2> QED BY <1>7, <2>1, <2>2, InboxGrows
<1>8. ASSUME NEW k \in DOMAIN inbox'[c], Grantable(c, k)'
      PROVE  ~HasOut(c, "SUBACK")'
  <2>1. /\ inbox'[c][k].type = "SUBSCRIBE"
        /\ inbox'[c][k].id \in DOMAIN sm'[c].pending
        /\ sm'[c].pending[inbox'[c][k].id] = inbox'[c][k]
    BY <1>8 DEF Grantable
  <2>2. CASE inbox'[c][k] = p
    <3>1. \A a \in News(c) : a.type # "SUBACK"
      BY <1>2, <2>1, <2>2
    <3> QED BY <1>4, <1>6, <2>1, <2>2, <3>1
  <2>3. CASE inbox'[c][k] # p
    <3>1. /\ k \in DOMAIN inbox[c] /\ inbox'[c][k] = inbox[c][k]
      BY <2>3, InboxGrows
    <3>2. Grantable(c, k)
      BY <1>3, <2>1, <2>3, <3>1 DEF Grantable
    <3>3. ~HasOut(c, "SUBACK") /\ p.type # "SUBSCRIBE"
      BY <1>6, <2>1, <3>1, <3>2 DEF Subscriber, InInbox
    <3>4. \A a \in News(c) : a.type # "SUBACK"
      BY <1>1, <1>2, <3>3
    <3> QED BY <1>4, <3>3, <3>4
  <2> QED BY <2>2, <2>3
<1>9. "subscribe" \notin client'[c].done =>
        /\ ~InInbox(c, "SUBSCRIBE")' /\ ~HasOut(c, "SUBACK")'
        /\ owed'[c] = {}
  <2> SUFFICES ASSUME "subscribe" \notin client'[c].done
               PROVE  /\ ~InInbox(c, "SUBSCRIBE")' /\ ~HasOut(c, "SUBACK")'
                      /\ owed'[c] = {}
    OBVIOUS
  <2>1. /\ "subscribe" \notin client[c].done /\ p.type # "SUBSCRIBE"
        /\ ~InInbox(c, "SUBSCRIBE") /\ ~HasOut(c, "SUBACK") /\ owed[c] = {}
    BY <1>1 DEF Subscriber
  <2>2. \A a \in News(c) : a.type # "SUBACK"
    BY <1>1, <1>2, <2>1
  <2> QED BY <1>1, <1>4, <1>5, <2>1, <2>2
<1>10. /\ ~HasOut(c, "SUBACK")' => "unsubscribe" \notin client'[c].done
       /\ "unsubscribe" \notin client'[c].done =>
            ~InInbox(c, "UNSUBSCRIBE")' /\ ~HasOut(c, "UNSUBACK")'
       /\ HasOut(c, "UNSUBACK")' => sm'[c].subscriptions = {}
       /\ "unsubscribe" \notin client'[c].done /\ Told(c)' => sm'[c].subscriptions = Request[c]
  BY <1>1, <1>3, <1>4, <1>5 DEF Subscriber
<1> QED BY <1>7, <1>8, <1>9, <1>10 DEF Subscriber

LEMMA SubscriberSame ==
  ASSUME NEW s \in Connections, Subscriber(s),
         inbox'[s] = inbox[s], client'[s] = client[s], owed'[s] = owed[s],
         sm'[s].subscriptions = sm[s].subscriptions, sm'[s].pending = sm[s].pending,
         Longer(s), News(s) = {}
  PROVE  Subscriber(s)'
<1>1. /\ \A type : HasOut(s, type)' <=> HasOut(s, type)
      /\ Told(s)' <=> Told(s)
      /\ \A type : InInbox(s, type)' <=> InInbox(s, type)
      /\ \A k : Grantable(s, k)' <=> Grantable(s, k)
  BY HasOutStep, ToldStep DEF InInbox, Grantable
<1> QED BY <1>1 DEF Subscriber

-----------------------------------------------------------------------------
(* What a client gets                                                      *)

LEMMA AskedStep ==
  ASSUME Types, Types', Asked, \A s \in Connections : Longer(s),
         \A s \in Connections : \A q \in News(s) : IsMessage(q) =>
           /\ \E x \in Request[s] : Covers(x, q, s)'
           /\ ~HasOut(s, "UNSUBACK")',
         \A s \in Connections : \A k \in DOMAIN Outbound(s) :
           /\ IsMessage(Outbound(s)[k])
           /\ Outbound(s)[k].msg \in DOMAIN client'[s].sent
           => Outbound(s)[k].msg \in DOMAIN client[s].sent
  PROVE  Asked'
<1> SUFFICES ASSUME NEW s \in Connections, NEW k \in DOMAIN Outbound(s)',
                    IsMessage(Outbound(s)'[k])
             PROVE  /\ \E x \in Request[s] : Covers(x, Outbound(s)[k], s)'
                    /\ \A j \in 1 .. k - 1 : Outbound(s)'[j].type # "UNSUBACK"
  BY DEF Asked, IsMessage
<1>1. /\ DOMAIN Outbound(s) = 1 .. Len(Outbound(s)) /\ Len(Outbound(s)) \in Nat
      /\ DOMAIN Outbound(s)' = 1 .. Len(Outbound(s)') /\ Len(Outbound(s)') \in Nat
  <2>1. Outbound(s) \in Seq(ToClient)
    BY OutboundType
  <2>2. Outbound(s)' \in Seq(ToClient)
    <3>1. /\ received'[s] \in Seq(ToClient) /\ sending'[s] \in Seq(ToClient)
          /\ sm'[s].out \in Seq(ToClient)
      BY SessionFields DEF Types
    <3> QED BY <3>1, ConcatProperties DEF Outbound
  <2> QED BY <2>1, <2>2, LenProperties
<1>2. CASE k \in DOMAIN Outbound(s) /\ Outbound(s)'[k] = Outbound(s)[k]
  <2>1. \A j \in 1 .. k - 1 : Outbound(s)'[j] = Outbound(s)[j]
    BY <1>1, <1>2 DEF Longer
  <2> QED BY <1>2, <2>1 DEF Asked, Covers
<1>3. CASE Outbound(s)'[k] \in News(s)
  <2>1. \A j \in 1 .. k - 1 : j \in DOMAIN Outbound(s)'
    BY <1>1
  <2>2. ~HasOut(s, "UNSUBACK")'
    BY <1>3
  <2>3. \A j \in DOMAIN Outbound(s)' : Outbound(s)'[j].type # "UNSUBACK"
    BY <2>2, HasOutStep
  <2> QED BY <1>3, <2>1, <2>3 DEF Covers
<1> QED BY <1>2, <1>3, OutElements

\* A session takes a message only when its client is subscribed to it.
LEMMA AskedAccepts ==
  ASSUME Types, SentOnce, SubscribesOnce, Asked,
         NEW c \in Connections, NEW p, Accepts(c, p)
  PROVE  Asked'
<1>1. /\ Types' /\ \A s \in Connections : Longer(s) /\ client'[s].sent = client[s].sent
      /\ p \in Publishes /\ p.msg \in DOMAIN client[c].sent
  <2>1. /\ inbox[c] # <<>> /\ p = inbox[c][1] /\ p \in Publishes
        /\ Types' /\ \A s \in Connections : Longer(s) /\ client'[s].sent = client[s].sent
    BY DEF Accepts, Serves
  <2>2. 1 \in DOMAIN inbox[c]
    BY <2>1, TailElements DEF Types
  <2> QED BY <2>1, <2>2, PacketKinds DEF SentOnce
<1>2. ASSUME NEW s \in Connections, NEW q \in News(s), IsMessage(q)
      PROVE  /\ \E x \in Request[s] : Covers(x, q, s)'
             /\ ~HasOut(s, "UNSUBACK")'
  <2>1. s \in Recipients(c, p)
    BY <1>2, PacketKinds DEF Accepts, Answers
  <2>2. Delivered(Outbound(s), Outbound(s)', p)
    BY <2>1 DEF Accepts
  <2>3. \A a \in News(s) : a \in Answers \/ a = p
    BY <2>2 DEF Delivered, Grows, News
  <2>4. q = p
    BY <1>2, <2>3, PacketKinds DEF Answers
  <2>5. PICK x \in sm[s].subscriptions :
          /\ x.pattern \in Matching[p.msg] /\ p.qos <= x.max_qos
          /\ x.no_local => sm[c].client # sm[s].client
    BY <2>1 DEF Recipients, Matches
  <2>6. x \in Request[s]
    BY SessionFields DEF Types
  <2>8. ~HasOut(s, "UNSUBACK")
    BY <2>5 DEF SubscribesOnce, Subscriber
  <2>9. ~HasOut(s, "UNSUBACK")'
    BY <1>1, <2>3, <2>8, HasOutStep, PacketKinds DEF Answers, IsMessage
  <2>10. x.no_local => p.msg \notin DOMAIN client[s].sent
    <3>1. CASE s = c
      BY <2>5, <3>1
    <3>2. CASE s # c
      BY <1>1, <3>2 DEF SentOnce
    <3> QED BY <3>1, <3>2
  <2> QED BY <1>1, <2>4, <2>5, <2>6, <2>9, <2>10 DEF Covers
<1> QED BY <1>1, <1>2, AskedStep

-----------------------------------------------------------------------------
(* The order of the messages                                               *)

\* A step that delivers nothing changes the order of nothing.
LEMMA OrderedStep ==
  ASSUME Types, Types', Ordered, Alive, \A s \in Connections : Longer(s),
         \A s \in Connections : \A q \in News(s) : ~IsMessage(q),
         \A c \in Connections : \A k \in Fresh(c)' :
           \/ \E j \in Fresh(c) : inbox[c][j] = inbox'[c][k]
           \/ \A s \in Connections : \A i \in DOMAIN Outbound(s) :
                IsMessage(Outbound(s)[i]) => Outbound(s)[i].msg # inbox'[c][k].msg
  PROVE  Ordered'
<1>1. \A s \in Connections : \A i \in DOMAIN Outbound(s)' :
        IsMessage(Outbound(s)'[i]) =>
          i \in DOMAIN Outbound(s) /\ Outbound(s)'[i] = Outbound(s)[i]
  BY OutElements
<1>2. ASSUME NEW s \in Connections, NEW t \in Connections,
             NEW i \in DOMAIN Outbound(s)', NEW j \in DOMAIN Outbound(s)',
             NEW k \in DOMAIN Outbound(t)', NEW l \in DOMAIN Outbound(t)',
             i < j,
             IsMessage(Outbound(s)'[i]), IsMessage(Outbound(s)'[j]),
             IsMessage(Outbound(t)'[k]), IsMessage(Outbound(t)'[l]),
             Outbound(s)'[i].msg = Outbound(t)'[k].msg,
             Outbound(s)'[j].msg = Outbound(t)'[l].msg
      PROVE  k < l
  BY <1>1, <1>2 DEF Ordered
<1>3. ASSUME NEW c \in Connections, NEW s \in Connections,
             NEW k \in Fresh(c)', NEW i \in DOMAIN Outbound(s)', IsMessage(Outbound(s)'[i])
      PROVE  Outbound(s)'[i].msg # inbox'[c][k].msg
  <2>1. i \in DOMAIN Outbound(s) /\ Outbound(s)'[i] = Outbound(s)[i]
    BY <1>1, <1>3
  <2>2. CASE \E j \in Fresh(c) : inbox[c][j] = inbox'[c][k]
    BY <1>3, <2>1, <2>2 DEF Ordered
  <2> QED BY <1>3, <2>1, <2>2
<1> QED BY <1>2, <1>3 DEF Ordered, IsMessage

LEMMA FreshServes ==
  ASSUME Types, Serves, NEW c \in Connections, NEW k \in Fresh(c)'
  PROVE  \E j \in Fresh(c) : inbox[c][j] = inbox'[c][k]
<1>1. Types' /\ InboxGoesOn(c)
  BY DEF Serves
<1>2. /\ k \in DOMAIN inbox'[c] /\ IsMessage(inbox'[c][k])
      /\ ~(k = 1 /\ phase'[c] = "publishing")
  BY DEF Fresh, IsMessage
<1>3. PICK d \in {0, 1} : /\ \A j \in DOMAIN inbox'[c] : /\ j \in Nat /\ j >= 1
                                                         /\ j + d \in DOMAIN inbox[c]
                                                         /\ inbox'[c][j] = inbox[c][j + d]
                          /\ d = 0 /\ phase[c] = "publishing" => phase'[c] = "publishing"
  BY <1>1, InboxGoes
<1>4. k + d \in Fresh(c)
  <2>1. CASE d = 0
    <3>1. k + d = k
      BY <1>2, <1>3, <2>1
    <3> QED BY <1>2, <1>3, <2>1, <3>1 DEF Fresh
  <2>2. CASE d = 1
    <3>1. k + d # 1
      BY <1>2, <1>3, <2>2
    <3> QED BY <1>2, <1>3, <3>1 DEF Fresh
  <2> QED BY <2>1, <2>2
<1> QED BY <1>2, <1>3, <1>4

LEMMA FreshFeeds ==
  ASSUME Types, SentOnce, NEW c \in Connections, NEW p, Feeds(c, p),
         NEW d \in Connections, NEW k \in Fresh(d)'
  PROVE  \/ \E j \in Fresh(d) : inbox[d][j] = inbox'[d][k]
         \/ \A s \in Connections : \A i \in DOMAIN Outbound(s) :
              IsMessage(Outbound(s)[i]) => Outbound(s)[i].msg # inbox'[d][k].msg
<1>1. /\ k \in DOMAIN inbox'[d] /\ IsMessage(inbox'[d][k])
      /\ ~(k = 1 /\ phase'[d] = "publishing")
      /\ phase[d] = "publishing" => phase'[d] = "publishing"
  BY DEF Fresh, IsMessage, Feeds
<1>2. CASE k \in DOMAIN inbox[d] /\ inbox'[d][k] = inbox[d][k]
  <2>1. k \in Fresh(d)
    BY <1>1, <1>2 DEF Fresh
  <2> QED BY <1>2, <2>1
<1>3. CASE d = c /\ inbox'[d][k] = p
  <2>1. IsMessage(p) /\ p.msg = called + 1
    BY <1>1, <1>3 DEF Feeds, Sends
  <2>2. called \in Nat
    BY MessageNumbers DEF Types
  <2>3. ASSUME NEW s \in Connections, NEW i \in DOMAIN Outbound(s), IsMessage(Outbound(s)[i])
        PROVE  Outbound(s)[i].msg # p.msg
    <3>1. Outbound(s)[i].msg \in Messages
      BY <2>3, OutboundType, PacketKinds
    <3>2. Outbound(s)[i].msg \in Nat /\ Outbound(s)[i].msg <= called
      BY <2>3, <3>1, MessageNumbers DEF SentOnce
    <3> QED BY <2>1, <2>2, <3>2
  <2> QED BY <1>3, <2>3
<1>4. d # c => inbox'[d] = inbox[d]
  BY DEF Feeds
<1> QED BY <1>1, <1>2, <1>3, <1>4, InboxGrows

\* What is delivered was delivered to nobody before, and to all that take it at once.
LEMMA OrderedAccepts ==
  ASSUME Types, SentOnce, Ordered, Alive, NEW c \in Connections, NEW p, Accepts(c, p)
  PROVE  Ordered'
<1>1. /\ inbox[c] # <<>> /\ p = inbox[c][1] /\ p \in Publishes /\ phase[c] = "asking"
      /\ inbox' = inbox /\ Types' /\ \A s \in Connections : Longer(s)
      /\ phase' = [phase EXCEPT ![c] = "publishing"] \/ (phase' = phase /\ crash' # "none")
  BY DEF Accepts, Serves
<1>2. 1 \in DOMAIN inbox[c] /\ IsMessage(p) /\ 1 \in Fresh(c)
  <2>1. 1 \in DOMAIN inbox[c]
    BY <1>1, TailElements DEF Types
  <2> QED BY <1>1, <2>1, PacketKinds DEF Fresh
<1>3. \A s \in Connections : \A i \in DOMAIN Outbound(s) :
        IsMessage(Outbound(s)[i]) => Outbound(s)[i].msg # p.msg
  BY <1>1, <1>2 DEF Ordered
<1>4. ASSUME NEW s \in Connections
      PROVE  /\ Outbound(s) \in Seq(ToClient)
             /\ \A i \in DOMAIN Outbound(s)' : i \in Nat
             /\ \A i \in DOMAIN Outbound(s), j \in DOMAIN Outbound(s)' \ DOMAIN Outbound(s) : i < j
             /\ \A i, j \in DOMAIN Outbound(s)' :
                  /\ i < j /\ j \in DOMAIN Outbound(s)
                  => i \in DOMAIN Outbound(s)
  <2>1. Outbound(s) \in Seq(ToClient)
    BY OutboundType
  <2>2. Outbound(s)' \in Seq(ToClient)
    <3>1. /\ received'[s] \in Seq(ToClient) /\ sending'[s] \in Seq(ToClient)
          /\ sm'[s].out \in Seq(ToClient)
      BY <1>1, SessionFields DEF Types
    <3> QED BY <3>1, ConcatProperties DEF Outbound
  <2>3. /\ DOMAIN Outbound(s) = 1 .. Len(Outbound(s)) /\ Len(Outbound(s)) \in Nat
        /\ DOMAIN Outbound(s)' = 1 .. Len(Outbound(s)') /\ Len(Outbound(s)') \in Nat
    BY <2>1, <2>2, LenProperties
  <2> QED BY <2>1, <2>3
<1>5. ASSUME NEW s \in Connections, NEW i \in DOMAIN Outbound(s)', IsMessage(Outbound(s)'[i])
      PROVE  \/ /\ i \in DOMAIN Outbound(s) /\ Outbound(s)'[i] = Outbound(s)[i]
                /\ Outbound(s)'[i].msg # p.msg
             \/ i \notin DOMAIN Outbound(s) /\ Outbound(s)'[i] = p
  <2>1. CASE i \in DOMAIN Outbound(s)
    BY <1>1, <1>3, <1>5, <2>1 DEF Longer
  <2>2. CASE i \notin DOMAIN Outbound(s)
    <3>1. Outbound(s)'[i] \in News(s)
      BY <2>2 DEF News
    <3>2. Outbound(s)'[i] \notin Answers
      BY <1>5, PacketKinds DEF Answers
    <3>3. Delivered(Outbound(s), Outbound(s)', p)
      BY <3>1, <3>2 DEF Accepts
    <3> QED BY <2>2, <3>2, <3>3 DEF Delivered, Grows
  <2> QED BY <2>1, <2>2
<1>6. ASSUME NEW s \in Connections, NEW i \in DOMAIN Outbound(s)', NEW j \in DOMAIN Outbound(s)',
             i \notin DOMAIN Outbound(s), j \notin DOMAIN Outbound(s),
             IsMessage(Outbound(s)'[i]), IsMessage(Outbound(s)'[j])
      PROVE  i = j
  <2>1. Outbound(s)'[i] \in News(s) /\ Outbound(s)'[i] \notin Answers
        /\ Outbound(s)'[j] \notin Answers
    BY <1>6, PacketKinds DEF Answers, News
  <2>2. Delivered(Outbound(s), Outbound(s)', p)
    BY <2>1 DEF Accepts
  <2> QED BY <1>6, <2>1, <2>2 DEF Delivered
<1>7. ASSUME NEW s \in Connections, NEW t \in Connections,
             NEW i \in DOMAIN Outbound(s)', NEW j \in DOMAIN Outbound(s)',
             NEW k \in DOMAIN Outbound(t)', NEW l \in DOMAIN Outbound(t)',
             i < j,
             IsMessage(Outbound(s)'[i]), IsMessage(Outbound(s)'[j]),
             IsMessage(Outbound(t)'[k]), IsMessage(Outbound(t)'[l]),
             Outbound(s)'[i].msg = Outbound(t)'[k].msg,
             Outbound(s)'[j].msg = Outbound(t)'[l].msg
      PROVE  k < l
  <2>1. i \in DOMAIN Outbound(s)
    BY <1>4, <1>6, <1>7
  <2>2. k \in DOMAIN Outbound(t)
    BY <1>5, <1>7, <2>1
  <2>3. CASE j \in DOMAIN Outbound(s)
    <3>1. l \in DOMAIN Outbound(t)
      BY <1>5, <1>7, <2>3
    <3>2. /\ Outbound(s)'[i] = Outbound(s)[i] /\ Outbound(s)'[j] = Outbound(s)[j]
          /\ Outbound(t)'[k] = Outbound(t)[k] /\ Outbound(t)'[l] = Outbound(t)[l]
      BY <1>1, <2>1, <2>2, <2>3, <3>1 DEF Longer
    <3> QED BY <1>7, <2>1, <2>2, <2>3, <3>1, <3>2 DEF Ordered
  <2>4. CASE j \notin DOMAIN Outbound(s)
    <3>1. l \notin DOMAIN Outbound(t)
      BY <1>5, <1>7, <2>4
    <3> QED BY <1>4, <2>2, <3>1
  <2> QED BY <2>3, <2>4
<1>8. ASSUME crash' = "none", NEW d \in Connections, NEW s \in Connections,
             NEW k \in Fresh(d)', NEW i \in DOMAIN Outbound(s)', IsMessage(Outbound(s)'[i])
      PROVE  Outbound(s)'[i].msg # inbox'[d][k].msg
  <2>1. phase' = [phase EXCEPT ![c] = "publishing"]
    BY <1>1, <1>8
  <2>2. /\ k \in DOMAIN inbox[d] /\ IsMessage(inbox[d][k])
        /\ ~(k = 1 /\ phase'[d] = "publishing")
    BY <1>1 DEF Fresh, IsMessage
  <2>3. k \in Fresh(d) /\ (d = c => k # 1)
    BY <1>1, <2>1, <2>2 DEF Fresh, Types
  <2>4. CASE i \in DOMAIN Outbound(s) /\ Outbound(s)'[i] = Outbound(s)[i]
    BY <1>1, <1>8, <2>3, <2>4 DEF Ordered
  <2>5. CASE Outbound(s)'[i] = p
    <3>1. CASE d = c
      BY <1>1, <1>2, <2>2, <2>3, <2>5, <3>1 DEF SentOnce
    <3>2. CASE d # c
      <4>1. p.msg \in DOMAIN client[c].sent /\ inbox[d][k].msg \in DOMAIN client[d].sent
        BY <1>1, <1>2, <2>2 DEF SentOnce
      <4> QED BY <1>1, <2>5, <3>2, <4>1 DEF SentOnce
    <3> QED BY <3>1, <3>2
  <2> QED BY <1>5, <1>8, <2>4, <2>5
<1> QED BY <1>7, <1>8 DEF Ordered, IsMessage, Alive

-----------------------------------------------------------------------------
(* Nobody who subscribed is left out                                       *)

\* It depends on no variable.
LEMMA WithinMaxQoSConstant == WithinMaxQoS' <=> WithinMaxQoS
BY DEF WithinMaxQoS

LEMMA GetAllStep ==
  ASSUME GetsAll, Alive, \A s \in Connections : Longer(s),
         \A s \in Connections :
           phase'[s] # "ended" /\ s \in Range(table') =>
             \/ owed[s] = {}
             \/ phase[s] # "ended" /\ s \in Range(table),
         \A s \in Connections : s \in Range(table') =>
           \A m \in owed'[s] \ owed[s] :
             \E k \in DOMAIN Outbound(s)' :
               IsMessage(Outbound(s)'[k]) /\ Outbound(s)'[k].msg = m
  PROVE  GetsAll'
<1> SUFFICES ASSUME WithinMaxQoS, NEW s \in Connections, phase'[s] # "ended", s \in Range(table'),
                    NEW m \in owed'[s]
             PROVE  \E k \in DOMAIN Outbound(s)' :
                      IsMessage(Outbound(s)'[k]) /\ Outbound(s)'[k].msg = m
  BY WithinMaxQoSConstant DEF GetsAll, SubscribersGetAll, InTable, IsMessage
<1>1. CASE m \in owed[s]
  <2>1. PICK k \in DOMAIN Outbound(s) : IsMessage(Outbound(s)[k]) /\ Outbound(s)[k].msg = m
    BY <1>1 DEF GetsAll, SubscribersGetAll, InTable
  <2> QED BY <2>1 DEF Longer
<1> QED BY <1>1

\* Whoever can count on a message is among its recipients.
LEMMA GetAllAccepts ==
  ASSUME Types, Named, SubscribesOnce, GetsAll, Alive,
         NEW c \in Connections, NEW p, Accepts(c, p)
  PROVE  GetsAll'
<1> SUFFICES ASSUME WithinMaxQoS PROVE GetsAll'
  BY WithinMaxQoSConstant DEF GetsAll
<1>1. /\ \A s \in Connections : Longer(s)
      /\ table' = table /\ phase[c] = "asking"
      /\ phase' = [phase EXCEPT ![c] = "publishing"] \/ phase' = phase
      /\ p \in Publishes
  BY DEF Accepts, Serves
<1>2. \A s \in Connections : phase'[s] # "ended" => phase[s] # "ended"
  BY <1>1 DEF Types
<1>3. ASSUME NEW s \in Connections, s \in Range(table), NEW m \in owed'[s] \ owed[s]
      PROVE  \E k \in DOMAIN Outbound(s)' :
               IsMessage(Outbound(s)'[k]) /\ Outbound(s)'[k].msg = m
  <2>1. Counts(s, c, p) /\ m = p.msg
    BY <1>3 DEF Accepts
  <2>2. /\ "unsubscribe" \notin client[s].done
        /\ \E x \in Request[s] : /\ x.pattern \in Matching[p.msg]
                                 /\ x.no_local => Client[s] # Client[c]
    BY <2>1 DEF Counts
  <2>3. Told(s)
    BY <2>1, GotIsOut DEF Counts, Told
  <2>4. sm[s].subscriptions = Request[s]
    BY <2>2, <2>3 DEF SubscribesOnce, Subscriber
  <2>5. PICK x \in Request[s] : /\ x.pattern \in Matching[p.msg]
                                /\ x.no_local => Client[s] # Client[c]
    BY <2>2
  <2>11. p.msg \in Messages /\ p.qos \in QoSLevels[p.msg]
    BY <1>1, PacketKinds
  <2>6. PICK y \in Request[s] : /\ y.pattern \in Matching[p.msg]
                                /\ p.qos <= y.max_qos
                                /\ y.no_local => x.no_local
    BY <2>5, <2>11 DEF WithinMaxQoS
  <2>7. /\ sm[s].client = Client[s] /\ sm[c].client \in {NoClient, Client[c]}
        /\ Client[s] # NoClient
    <3>1. sm[s].client = Client[s]
      BY <1>3 DEF Named, Range
    <3> QED BY <3>1, SessionFields, BrokerAssumption DEF Types, NoClient
  <2>8. Matches(sm[s], sm[c].client, p)
    BY <2>4, <2>5, <2>6, <2>7 DEF Matches
  <2>9. Delivered(Outbound(s), Outbound(s)', p)
    BY <1>3, <2>8 DEF Recipients, InTable, Accepts
  <2>10. IsMessage(p)
    BY <1>1, PacketKinds
  <2> QED BY <2>1, <2>9, <2>10 DEF Delivered
<1> QED BY <1>1, <1>2, <1>3, GetAllStep

-----------------------------------------------------------------------------
(* The tables and the locks                                                *)

Entry(id, c) == c \in Connections /\ sm'[c].client = id /\ id = Client[c]

LEMMA NamedStep ==
  ASSUME Types, Named,
         \A c \in Connections : sm'[c].client = sm[c].client \/ sm'[c].client = Client[c],
         \A id \in DOMAIN table' : \/ id \in DOMAIN table /\ table'[id] = table[id]
                                   \/ Entry(id, table'[id]),
         \A id \in DOMAIN sessions' : \/ id \in DOMAIN sessions /\ sessions'[id] = sessions[id]
                                      \/ Entry(id, sessions'[id]),
         \A c \in Connections :
           InInbox(c, "CONNECT")' => InInbox(c, "CONNECT") \/ sm'[c].client = Client[c]
  PROVE  Named'
<1>1. ASSUME NEW id, NEW c \in Connections, sm[c].client = id, id = Client[c]
      PROVE  sm'[c].client = id
  BY <1>1
<1>2. \A id \in DOMAIN table' : /\ table'[id] \in Connections
                                /\ sm'[table'[id]].client = id /\ id = Client[table'[id]]
  BY <1>1 DEF Named, Entry
<1>3. \A id \in DOMAIN sessions' : /\ sessions'[id] \in Connections
                                   /\ sm'[sessions'[id]].client = id
                                   /\ id = Client[sessions'[id]]
  BY <1>1 DEF Named, Entry
<1>4. \A c \in Connections : InInbox(c, "CONNECT")' => sm'[c].client = Client[c]
  BY DEF Named
<1> QED BY <1>2, <1>3, <1>4 DEF Named

LEMMA NamedServes ==
  ASSUME Types, Named, Serves,
         \A id \in DOMAIN table' : \/ id \in DOMAIN table /\ table'[id] = table[id]
                                   \/ Entry(id, table'[id]),
         \A id \in DOMAIN sessions' : \/ id \in DOMAIN sessions /\ sessions'[id] = sessions[id]
                                      \/ Entry(id, sessions'[id])
  PROVE  Named'
<1>1. \A c \in Connections : /\ sm'[c].client = sm[c].client
                             /\ InInbox(c, "CONNECT")' => InInbox(c, "CONNECT")
  BY InboxShrinks DEF Serves
<1> QED BY <1>1, NamedStep

\* A session goes into a table when its client has been named.
LEMMA PutIsNamed ==
  ASSUME Named, NEW c \in Connections, NEW t, sm'[c].client = sm[c].client,
         sm[c].client = Client[c], NEW id \in DOMAIN Put(t, sm[c].client, c)
  PROVE  \/ id \in DOMAIN t /\ Put(t, sm[c].client, c)[id] = t[id]
         \/ Entry(id, Put(t, sm[c].client, c)[id])
BY DEF Put, Entry

LEMMA RemovedIsNamed ==
  ASSUME NEW t, NEW D \in SUBSET DOMAIN t
  PROVE  /\ \A id \in DOMAIN Restrict(t, D) : id \in DOMAIN t /\ Restrict(t, D)[id] = t[id]
         /\ Range(Restrict(t, D)) \subseteq Range(t)
BY DEF Restrict, Range

LEMMA QueueMembers ==
  ASSUME Types, NEW s \in Connections
  PROVE  lock[s] \in Seq(Connections) /\ Range(lock[s]) \subseteq Connections
BY ElementType DEF Types, Range

\* A task that waits for no lock may do what it likes.
LEMMA LocksStep ==
  ASSUME Types, Locks, lock' = lock, NEW c,
         \A d \in Connections \ {c} : phase'[d] = phase[d],
         phase'[c] = phase[c] \/ \A s \in Connections : c \notin Range(lock[s])
  PROVE  Locks'
<1> SUFFICES ASSUME NEW s \in Connections, NEW d \in Range(lock[s])
             PROVE  phase'[d] = "publishing" \/ (phase'[d] = "flushing" /\ d = s)
  BY DEF Locks
<1>1. d \in Connections
  BY QueueMembers
<1>2. phase[d] = "publishing" \/ (phase[d] = "flushing" /\ d = s)
  BY DEF Locks
<1>3. phase'[d] = phase[d]
  BY <1>1
<1> QED BY <1>2, <1>3

LEMMA NotWaiting ==
  ASSUME Locks, NEW c \in Connections, phase[c] \notin {"publishing", "flushing"}
  PROVE  \A s \in Connections : c \notin Range(lock[s])
BY DEF Locks

\* The holder leaves the queue, and goes on when it has flushed its own session.
LEMMA LocksRelease ==
  ASSUME Types, Locks, NEW s \in Connections, lock[s] # <<>>, Release(s)
  PROVE  Locks'
<1>1. /\ lock[s] \in Seq(Connections) /\ IsInjective(lock[s])
      /\ lock' = [lock EXCEPT ![s] = Tail(lock[s])]
  BY QueueMembers DEF Locks, Release
<1>2. /\ IsInjective(Tail(lock[s]))
      /\ Range(Tail(lock[s])) = Range(lock[s]) \ {Head(lock[s])}
  BY <1>1, TailQueue
<1>3. /\ lock'[s] = Tail(lock[s])
      /\ \A t \in Connections : t # s => lock'[t] = lock[t]
  BY <1>1 DEF Types
<1>4. ASSUME NEW t \in Connections
      PROVE  IsInjective(lock'[t])
  BY <1>2, <1>3 DEF Locks
<1>5. ASSUME NEW t \in Connections, NEW d \in Range(lock'[t])
      PROVE  phase'[d] = "publishing" \/ (phase'[d] = "flushing" /\ d = t)
  <2>1. d \in Range(lock[t]) /\ (t = s => d # Head(lock[s]))
    BY <1>2, <1>3, <1>5
  <2>2. /\ phase[d] = "publishing" \/ (phase[d] = "flushing" /\ d = t)
        /\ d \in Connections
    BY <2>1, QueueMembers DEF Locks
  <2>3. phase' = phase
        \/ (Head(lock[s]) = s /\ phase[s] = "flushing" /\ phase' = [phase EXCEPT ![s] = "reading"])
    BY DEF Release
  <2>4. phase'[d] = phase[d]
    BY <2>1, <2>2, <2>3 DEF Types
  <2> QED BY <2>2, <2>4
<1> QED BY <1>4, <1>5 DEF Locks

\* A task that waits for no lock joins some queues.
LEMMA LocksJoin ==
  ASSUME Types, Locks, NEW c \in Connections,
         \A s \in Connections : c \notin Range(lock[s]),
         NEW S, \A s \in Connections :
                  lock'[s] = IF s \in S THEN Append(lock[s], c) ELSE lock[s],
         \A d \in Connections \ {c} : phase'[d] = phase[d],
         \A s \in Connections \cap S :
           phase'[c] = "publishing" \/ (phase'[c] = "flushing" /\ c = s)
  PROVE  Locks'
<1> SUFFICES ASSUME NEW s \in Connections
             PROVE  /\ IsInjective(lock'[s])
                    /\ \A d \in Range(lock'[s]) :
                         phase'[d] = "publishing" \/ (phase'[d] = "flushing" /\ d = s)
  BY DEF Locks
<1>1. /\ lock[s] \in Seq(Connections) /\ IsInjective(lock[s])
      /\ Range(lock[s]) \subseteq Connections
  BY QueueMembers DEF Locks
<1>2. \A d \in Range(lock[s]) :
        phase'[d] = "publishing" \/ (phase'[d] = "flushing" /\ d = s)
  BY <1>1 DEF Locks
<1>3. CASE s \notin S
  BY <1>1, <1>2, <1>3
<1>4. CASE s \in S
  <2>1. /\ IsInjective(Append(lock[s], c))
        /\ Range(Append(lock[s], c)) = Range(lock[s]) \cup {c}
    BY <1>1, JoinQueue
  <2> QED BY <1>2, <1>4, <2>1
<1> QED BY <1>3, <1>4

LEMMA BusyStep ==
  ASSUME Types, Busy, NEW c,
         lock' = lock, sending' = sending,
         \A d \in Connections \ {c} : phase'[d] = phase[d] /\ inbox'[d] = inbox[d],
         phase'[c] \in {"asking", "publishing"} => inbox'[c] # <<>>
  PROVE  Busy'
BY DEF Busy

-----------------------------------------------------------------------------
(* Ind is inductive                                                        *)

\* Nobody comes into the table that can count on a message.
Stays ==
  \A s \in Connections :
    phase'[s] # "ended" /\ s \in Range(table') =>
      \/ owed[s] = {}
      \/ phase[s] # "ended" /\ s \in Range(table)

Tabled ==
  /\ \A id \in DOMAIN table' : \/ id \in DOMAIN table /\ table'[id] = table[id]
                               \/ Entry(id, table'[id])
  /\ \A id \in DOMAIN sessions' : \/ id \in DOMAIN sessions /\ sessions'[id] = sessions[id]
                                  \/ Entry(id, sessions'[id])

LEMMA QuietInd ==
  ASSUME Ind, Alive, Quiet, Busy', Locks', Tabled, Stays
  PROVE  Ind'
<1>1. /\ Serves /\ Types' /\ owed' = owed
      /\ \A s \in Connections : Longer(s) /\ client'[s].sent = client[s].sent
  BY DEF Quiet, Serves
<1>2. \A s \in Connections : \A a \in News(s) :
        a.type \in {"PUBACK", "PUBREC"} /\ ~IsMessage(a)
  BY DEF Quiet, Answers, IsMessage
<1>3. Named'
  BY <1>1, NamedServes DEF Ind, Tabled
<1>4. SentOnce'
  BY <1>1, <1>2, SentOnceServes DEF Ind
<1>5. ConnectsOnce'
  BY <1>1, <1>2, ConnectsOnceServes DEF Ind
<1>6. SubscribesOnce'
  <2> SUFFICES ASSUME NEW c \in Connections PROVE Subscriber(c)'
    BY DEF SubscribesOnce
  <2>1. /\ sm'[c].subscriptions = sm[c].subscriptions
        /\ \A id \in DOMAIN sm'[c].pending : /\ id \in DOMAIN sm[c].pending
                                             /\ sm'[c].pending[id] = sm[c].pending[id]
    BY DEF Quiet
  <2> QED BY <1>1, <1>2, <2>1, SubscriberServes DEF Ind, SubscribesOnce
<1>7. Asked'
  BY <1>1, <1>2, AskedStep DEF Ind
<1>8. Ordered'
  <2>1. \A c \in Connections : \A k \in Fresh(c)' : \E j \in Fresh(c) : inbox[c][j] = inbox'[c][k]
    BY <1>1, FreshServes DEF Ind
  <2> QED BY <1>1, <1>2, <2>1, OrderedStep DEF Ind
<1>9. GetsAll'
  BY <1>1, GetAllStep DEF Ind, Stays
<1> QED BY <1>1, <1>3, <1>4, <1>5, <1>6, <1>7, <1>8, <1>9 DEF Ind

LEMMA StutterInd ==
  ASSUME Ind, UNCHANGED vars
  PROVE  Ind'
<1>1. /\ UNCHANGED <<sm, table, sessions, phase, inbox, lock, sending, client, called, owed, crash>>
      /\ Types'
      /\ \A s \in Connections : Outbound(s)' = Outbound(s)
  BY StutterTypes DEF Ind, vars, sessionVars, brokerVars, ioVars, clientVars, Outbound
<1>2. Busy' /\ Locks' /\ Named'
  BY <1>1 DEF Ind, Busy, Locks, Named, InInbox, Range, IsInjective
<1>3. \A s \in Connections : \A type : /\ InInbox(s, type)' = InInbox(s, type)
                                      /\ HasOut(s, type)' = HasOut(s, type)
  BY <1>1 DEF InInbox, HasOut
<1>4. \A s \in Connections : Told(s)' = Told(s)
  BY <1>1 DEF Told
<1>5. SentOnce'
  BY <1>1 DEF Ind, SentOnce
<1>6. ConnectsOnce'
  BY <1>1, <1>3 DEF Ind, ConnectsOnce
<1>7. SubscribesOnce'
  <2> SUFFICES ASSUME NEW s \in Connections PROVE Subscriber(s)'
    BY DEF SubscribesOnce
  <2>1. \A k : Grantable(s, k)' = Grantable(s, k)
    BY <1>1 DEF Grantable
  <2> QED BY <1>1, <1>3, <1>4, <2>1 DEF Ind, SubscribesOnce, Subscriber
<1>8. Asked'
  BY <1>1 DEF Ind, Asked, Covers
<1>9. Ordered'
  <2>1. \A s \in Connections : Fresh(s)' = Fresh(s)
    BY <1>1 DEF Fresh
  <2> QED BY <1>1, <2>1 DEF Ind, Ordered, Alive
<1>10. GetsAll'
  BY <1>1 DEF Ind, GetsAll, SubscribersGetAll, Alive, InTable, Range
<1> QED BY <1>1, <1>2, <1>5, <1>6, <1>7, <1>8, <1>9, <1>10 DEF Ind

LEMMA TableShrinks ==
  ASSUME table' = table \/ \E id : table' = Removed(table, id)
  PROVE  /\ \A id \in DOMAIN table' : id \in DOMAIN table /\ table'[id] = table[id]
         /\ Range(table') \subseteq Range(table)
<1>1. CASE table' = table
  BY <1>1 DEF Range
<1>2. CASE \E id : table' = Removed(table, id)
  <2>1. PICK id : table' = Removed(table, id)
    BY <1>2
  <2>2. DOMAIN table \ {id} \in SUBSET DOMAIN table
    OBVIOUS
  <2> QED BY <2>1, <2>2, RemovedIsNamed DEF Removed
<1> QED BY <1>1, <1>2

LEMMA PhaseStepsInd ==
  ASSUME Ind, Alive, NEW c \in Connections, EndOfChunk(c) \/ Ask(c) \/ Finish(c)
  PROVE  Ind'
<1>1. Quiet
  BY PhaseSteps DEF Ind
<1>2. /\ UNCHANGED <<table, sessions, sending, inbox>>
      /\ phase[c] \in {"feeding", "handling"}
      /\ \A d \in Connections \ {c} : phase'[d] = phase[d]
      /\ \/ /\ lock' = lock
            /\ phase'[c] = "asking" => inbox[c] # <<>>
            /\ phase'[c] # "publishing"
         \/ /\ lock' = [lock EXCEPT ![c] = Append(@, c)]
            /\ phase'[c] = "flushing"
  BY DEF EndOfChunk, Ask, Finish, brokerVars, Ind, Types
<1>3. Tabled /\ Stays
  BY <1>2 DEF Tabled, Stays
<1>4. \A s \in Connections : c \notin Range(lock[s])
  BY <1>2, NotWaiting DEF Ind
<1>5. CASE lock' = lock /\ (phase'[c] = "asking" => inbox[c] # <<>>) /\ phase'[c] # "publishing"
  <2>1. Busy'
    BY <1>2, <1>5, BusyStep DEF Ind
  <2>2. Locks'
    BY <1>2, <1>4, <1>5, LocksStep DEF Ind
  <2> QED BY <1>1, <1>3, <2>1, <2>2, QuietInd
<1>6. CASE lock' = [lock EXCEPT ![c] = Append(@, c)] /\ phase'[c] = "flushing"
  <2>1. \A s \in Connections : lock'[s] = IF s \in {c} THEN Append(lock[s], c) ELSE lock[s]
    BY <1>6 DEF Ind, Types
  <2>2. Locks'
    BY <1>2, <1>4, <1>6, <2>1, LocksJoin DEF Ind
  <2>3. Append(lock[c], c) # <<>>
    BY JoinQueue, QueueMembers, <1>4 DEF Ind, Locks
  <2>4. Busy'
    BY <1>2, <1>6, <2>1, <2>3 DEF Ind, Busy
  <2> QED BY <1>1, <1>3, <2>2, <2>4, QuietInd
<1> QED BY <1>2, <1>5, <1>6

LEMMA PacketStepsInd ==
  ASSUME Ind, Alive, NEW c \in Connections, Published(c) \/ Skip(c)
  PROVE  Ind'
<1>1. Quiet
  BY PacketSteps DEF Ind
<1>2. /\ UNCHANGED <<sessions, sending, lock>>
      /\ phase'[c] = "handling"
      /\ \A d \in Connections \ {c} : phase'[d] = phase[d] /\ inbox'[d] = inbox[d]
      /\ phase[c] # "ended"
      /\ table' = table \/ \E id : table' = Removed(table, id)
  BY DEF Published, Skip, NextPacket, brokerVars, Ind, Types
<1>3. \A s \in Connections : c \notin Range(lock[s])
  <2>1. CASE Published(c)
    BY <2>1 DEF Published
  <2>2. CASE Skip(c)
    BY <2>2, NotWaiting DEF Skip, Ind
  <2> QED BY <2>1, <2>2
<1>4. Tabled /\ Stays
  <2>1. /\ \A id \in DOMAIN table' : id \in DOMAIN table /\ table'[id] = table[id]
        /\ Range(table') \subseteq Range(table)
    BY <1>2, TableShrinks
  <2> QED BY <1>2, <2>1 DEF Tabled, Stays
<1>5. Busy'
  BY <1>2, BusyStep DEF Ind
<1>6. Locks'
  BY <1>2, <1>3, LocksStep DEF Ind
<1> QED BY <1>1, <1>4, <1>5, <1>6, QuietInd

LEMMA FlushStepsInd ==
  ASSUME Ind, Alive, NEW s \in Connections, Flush(s)
  PROVE  Ind'
<1>1. Quiet
  BY FlushSteps DEF Ind
<1>2. /\ UNCHANGED <<table, sessions, inbox>>
      /\ lock[s] # <<>>
      /\ \A d \in Connections : /\ phase'[d] # "ended" => phase[d] # "ended"
                                /\ phase'[d] \in {"asking", "publishing"} => phase'[d] = phase[d]
  BY DEF Flush, TakeOutbound, SendOutbound, Release, brokerVars, Ind, Types, Busy
<1>3. Tabled /\ Stays
  BY <1>2 DEF Tabled, Stays
<1>4. Locks'
  <2>1. CASE Release(s)
    BY <1>2, <2>1, LocksRelease DEF Ind
  <2>2. CASE lock' = lock /\ phase' = phase
    BY <2>2, LocksStep DEF Ind
  <2> QED BY <2>1, <2>2 DEF Flush, TakeOutbound, SendOutbound
<1>5. Busy'
  <2> SUFFICES ASSUME NEW d \in Connections
               PROVE  /\ phase'[d] \in {"asking", "publishing"} => inbox'[d] # <<>>
                      /\ sending'[d] # <<>> => lock'[d] # <<>>
    BY DEF Busy
  <2>1. phase'[d] \in {"asking", "publishing"} => inbox'[d] # <<>>
    BY <1>2 DEF Ind, Busy
  <2>2. CASE d # s
    <3>1. sending'[d] = sending[d] /\ lock'[d] = lock[d]
      BY <2>2 DEF Flush, TakeOutbound, SendOutbound, Release, Ind, Types
    <3> QED BY <2>1, <3>1 DEF Ind, Busy
  <2>3. CASE d = s
    <3>1. sending'[s] = <<>> \/ lock'[s] = lock[s]
      BY DEF Flush, TakeOutbound, SendOutbound, Ind, Types
    <3> QED BY <1>2, <2>1, <2>3, <3>1
  <2> QED BY <2>2, <2>3
<1> QED BY <1>1, <1>3, <1>4, <1>5, QuietInd

LEMMA LeaveStepsInd ==
  ASSUME Ind, Alive, NEW c \in Connections, Leave(c)
  PROVE  Ind'
<1>1. Quiet
  BY LeaveSteps DEF Ind
<1>2. CASE EndOfStream(c) \/ FeedPartialConnect(c)
  <2>1. /\ UNCHANGED <<sessions, sending, lock, inbox>>
        /\ phase[c] = "reading" /\ phase'[c] = "ended"
        /\ \A d \in Connections \ {c} : phase'[d] = phase[d]
        /\ table' = table \/ \E id : table' = Removed(table, id)
    BY <1>2 DEF EndOfStream, FeedPartialConnect, brokerVars, Ind, Types
  <2>2. Tabled /\ Stays
    <3>1. /\ \A id \in DOMAIN table' : id \in DOMAIN table /\ table'[id] = table[id]
          /\ Range(table') \subseteq Range(table)
      BY <2>1, TableShrinks
    <3> QED BY <2>1, <3>1 DEF Tabled, Stays
  <2>3. Busy'
    BY <2>1, BusyStep DEF Ind
  <2>4. \A s \in Connections : c \notin Range(lock[s])
    BY <2>1, NotWaiting DEF Ind
  <2>5. Locks'
    BY <2>1, <2>4, LocksStep DEF Ind
  <2> QED BY <1>1, <2>2, <2>3, <2>5, QuietInd
<1>3. CASE RemoveSession(c)
  <2>1. /\ UNCHANGED <<phase, inbox, sending, lock>>
        /\ phase[c] = "ended"
        /\ sm[c].client \in DOMAIN sessions /\ sessions[sm[c].client] = c
        /\ table' = Put(table, sm[c].client, c)
        /\ sessions' = Restrict(sessions, DOMAIN sessions \ {sm[c].client})
        /\ sm' = sm
    BY <1>3 DEF RemoveSession, ioVars, sessionVars
  <2>2. sm[c].client = Client[c]
    BY <2>1 DEF Ind, Named
  <2>3. \A id \in DOMAIN table' : \/ id \in DOMAIN table /\ table'[id] = table[id]
                                  \/ Entry(id, table'[id])
    BY <2>1, <2>2, PutIsNamed DEF Ind
  <2>4. \A id \in DOMAIN sessions' : id \in DOMAIN sessions /\ sessions'[id] = sessions[id]
    BY <2>1, RemovedIsNamed
  <2>5. Stays
    <3>1. Range(table') \subseteq Range(table) \cup {c}
      BY <2>1 DEF Put, Range
    <3> QED BY <2>1, <3>1 DEF Stays
  <2>6. Busy'
    BY <2>1, BusyStep DEF Ind, Busy
  <2>7. Locks'
    BY <2>1, LocksStep DEF Ind
  <2> QED BY <1>1, <2>3, <2>4, <2>5, <2>6, <2>7, QuietInd DEF Tabled
<1> QED BY <1>2, <1>3 DEF Leave

LEMMA WelcomeInd ==
  ASSUME Ind, Alive, NEW c \in Connections, NEW reason \in Refusals,
         AuthorizeConnect(c, reason)
  PROVE  Ind'
<1>1. Welcomes(c)
  BY WelcomeStep DEF Ind
<1>2. /\ Serves /\ Types' /\ owed' = owed
      /\ \A s \in Connections : Longer(s) /\ client'[s].sent = client[s].sent
      /\ inbox[c] # <<>> /\ Head(inbox[c]).type = "CONNECT" /\ inbox'[c] = Tail(inbox[c])
  BY <1>1 DEF Welcomes, Serves
<1>3. \A s \in Connections : \A a \in News(s) : a.type = "CONNACK" /\ s = c
  BY <1>1 DEF Welcomes
<1>4. /\ phase[c] = "asking" /\ phase'[c] = "handling"
      /\ \A d \in Connections \ {c} : phase'[d] = phase[d] /\ inbox'[d] = inbox[d]
      /\ UNCHANGED <<lock, sending>>
      /\ table' = Put(table, sm[c].client, c)
      /\ sessions' \in {sessions, Put(sessions, sm[c].client, c)}
      /\ sm'[c].client = sm[c].client
  BY <1>2 DEF AuthorizeConnect, NextPacket, Ind, Types, Serves
<1>5. InInbox(c, "CONNECT") /\ ~InInbox(c, "CONNECT")'
  <2>1. inbox[c] \in Seq(FromClient(c)) /\ inbox'[c] \in Seq(FromClient(c))
    BY <1>2 DEF Ind, Types
  <2>2. /\ 1 \in DOMAIN inbox[c] /\ inbox[c][1].type = "CONNECT"
        /\ \A k \in DOMAIN inbox'[c] : k + 1 \in DOMAIN inbox[c] /\ inbox'[c][k] = inbox[c][k + 1]
    BY <1>2, <2>1, TailElements
  <2>3. \A k \in DOMAIN inbox'[c] : k \in Nat /\ k >= 1 /\ k + 1 # 1
    BY <2>1, DomainOfSeq
  <2>4. \A k \in DOMAIN inbox'[c] : inbox'[c][k].type # "CONNECT"
    BY <2>2, <2>3 DEF Ind, ConnectsOnce
  <2> QED BY <2>2, <2>4 DEF InInbox
<1>6. sm[c].client = Client[c] /\ owed[c] = {}
  BY <1>5 DEF Ind, Named, ConnectsOnce, SubscribesOnce, Subscriber
<1>7. \A s \in Connections : c \notin Range(lock[s])
  BY <1>4, NotWaiting DEF Ind
<1>8. Busy'
  BY <1>4, BusyStep DEF Ind
<1>9. Locks'
  BY <1>4, <1>7, LocksStep DEF Ind
<1>10. Tabled
  BY <1>4, <1>6, PutIsNamed DEF Tabled, Ind
<1>11. Named'
  BY <1>2, <1>10, NamedServes DEF Ind, Tabled
<1>12. Stays
  <2>1. Range(table') \subseteq Range(table) \cup {c}
    BY <1>4 DEF Put, Range
  <2> QED BY <1>4, <1>6, <2>1 DEF Stays
<1>13. \A s \in Connections : \A a \in News(s) : ~IsMessage(a)
  BY <1>3 DEF IsMessage
<1>14. SentOnce'
  BY <1>2, <1>13, SentOnceServes DEF Ind
<1>15. ConnectsOnce'
  BY <1>2, <1>3, <1>5, ConnectsOnceServes DEF Ind
<1>16. SubscribesOnce'
  <2> SUFFICES ASSUME NEW s \in Connections PROVE Subscriber(s)'
    BY DEF SubscribesOnce
  <2>1. sm'[s].subscriptions = sm[s].subscriptions /\ sm'[s].pending = sm[s].pending
    BY <1>1 DEF Welcomes
  <2>2. \A a \in News(s) : a.type \notin {"SUBACK", "UNSUBACK"}
    BY <1>3
  <2> QED BY <1>2, <2>1, <2>2, SubscriberServes DEF Ind, SubscribesOnce
<1>17. Asked'
  BY <1>2, <1>13, AskedStep DEF Ind
<1>18. Ordered'
  <2>1. \A d \in Connections : \A k \in Fresh(d)' : \E j \in Fresh(d) : inbox[d][j] = inbox'[d][k]
    BY <1>2, FreshServes DEF Ind
  <2> QED BY <1>2, <1>13, <2>1, OrderedStep DEF Ind
<1>19. GetsAll'
  BY <1>2, <1>12, GetAllStep DEF Ind, Stays
<1> QED BY <1>2, <1>8, <1>9, <1>11, <1>14, <1>15, <1>16, <1>17, <1>18, <1>19 DEF Ind

LEMMA GrantInd ==
  ASSUME Ind, Alive, NEW c \in Connections, AnswerSubscribe(c)
  PROVE  Ind'
<1>1. Grants(c)
  BY GrantStep DEF Ind
<1>2. /\ Serves /\ Types' /\ owed' = owed
      /\ \A s \in Connections : Longer(s) /\ client'[s].sent = client[s].sent
  BY <1>1 DEF Grants, Serves
<1>3. \A s \in Connections : \A a \in News(s) : a.type = "SUBACK" /\ s = c
  BY <1>1 DEF Grants
<1>4. /\ phase[c] = "handling" /\ phase'[c] = "handling"
      /\ \A d \in Connections \ {c} : phase'[d] = phase[d] /\ inbox'[d] = inbox[d]
      /\ UNCHANGED <<table, sessions, lock, sending>>
  BY DEF AnswerSubscribe, NextPacket, Ind, Types, brokerVars
<1>5. \A s \in Connections : c \notin Range(lock[s])
  BY <1>4, NotWaiting DEF Ind
<1>6. Busy'
  BY <1>4, BusyStep DEF Ind
<1>7. Locks'
  BY <1>4, <1>5, LocksStep DEF Ind
<1>8. Tabled /\ Stays
  BY <1>4 DEF Tabled, Stays
<1>9. Named'
  BY <1>2, <1>8, NamedServes DEF Ind, Tabled
<1>10. \A s \in Connections : \A a \in News(s) : ~IsMessage(a) /\ a.type # "CONNACK"
  BY <1>3 DEF IsMessage
<1>11. SentOnce'
  BY <1>2, <1>10, SentOnceServes DEF Ind
<1>12. ConnectsOnce'
  BY <1>2, <1>10, ConnectsOnceServes DEF Ind
<1>13. SubscribesOnce'
  <2> SUFFICES ASSUME NEW s \in Connections PROVE Subscriber(s)'
    BY DEF SubscribesOnce
  <2>1. CASE s = c
    BY <1>1, <2>1, SubscriberGrants DEF Ind, SubscribesOnce
  <2>2. CASE s # c
    <3>1. /\ sm'[s].subscriptions = sm[s].subscriptions
          /\ \A id \in DOMAIN sm'[s].pending : /\ id \in DOMAIN sm[s].pending
                                               /\ sm'[s].pending[id] = sm[s].pending[id]
      BY <1>1, <2>2 DEF Grants
    <3>2. News(s) = {}
      BY <1>3, <2>2
    <3> QED BY <1>2, <3>1, <3>2, SubscriberServes DEF Ind, SubscribesOnce
  <2> QED BY <2>1, <2>2
<1>14. Asked'
  BY <1>2, <1>10, AskedStep DEF Ind
<1>15. Ordered'
  <2>1. \A d \in Connections : \A k \in Fresh(d)' : \E j \in Fresh(d) : inbox[d][j] = inbox'[d][k]
    BY <1>2, FreshServes DEF Ind
  <2> QED BY <1>2, <1>10, <2>1, OrderedStep DEF Ind
<1>16. GetsAll'
  BY <1>2, <1>8, GetAllStep DEF Ind, Stays
<1> QED BY <1>2, <1>6, <1>7, <1>9, <1>11, <1>12, <1>13, <1>14, <1>15, <1>16 DEF Ind

LEMMA AcceptInd ==
  ASSUME Ind, Alive, NEW c \in Connections, NEW p, Accepts(c, p), Busy', Locks',
         sessions' = sessions
  PROVE  Ind'
<1>1. /\ Serves /\ Types'
      /\ \A s \in Connections : Longer(s) /\ client'[s].sent = client[s].sent
      /\ table' = table /\ p \in Publishes
      /\ inbox[c] # <<>> /\ p = inbox[c][1]
  BY DEF Accepts, Serves
<1>2. IsMessage(p) /\ p.type = "PUBLISH"
  BY <1>1, PacketKinds DEF IsMessage
<1>3. \A s \in Connections : \A a \in News(s) : a = p \/ a.type \in {"PUBACK", "PUBREC"}
  <2> SUFFICES ASSUME NEW s \in Connections, NEW a \in News(s), a # p PROVE a \in Answers
    BY DEF Answers
  <2>1. CASE s \in Recipients(c, p)
    <3>1. Grows(Outbound(s), Outbound(s)', Answers \cup {p})
      BY <2>1 DEF Accepts, Delivered
    <3> QED BY <3>1 DEF Grows, News
  <2>2. CASE s \notin Recipients(c, p)
    BY <2>2 DEF Accepts
  <2> QED BY <2>1, <2>2
<1>4. p.msg <= called
  <2>1. 1 \in DOMAIN inbox[c]
    BY <1>1, TailElements DEF Ind, Types
  <2> QED BY <1>1, <1>2, <2>1 DEF Ind, SentOnce
<1>5. Named'
  BY <1>1, NamedServes DEF Ind
<1>6. SentOnce'
  BY <1>1, <1>3, <1>4, SentOnceServes DEF Ind, IsMessage
<1>7. ConnectsOnce'
  BY <1>1, <1>2, <1>3, ConnectsOnceServes DEF Ind
<1>8. SubscribesOnce'
  <2> SUFFICES ASSUME NEW s \in Connections PROVE Subscriber(s)'
    BY DEF SubscribesOnce
  <2>1. /\ sm'[s].subscriptions = sm[s].subscriptions
        /\ \A id \in DOMAIN sm'[s].pending : \/ /\ id \in DOMAIN sm[s].pending
                                                /\ sm'[s].pending[id] = sm[s].pending[id]
                                             \/ IsMessage(sm'[s].pending[id])
    BY <1>2 DEF Accepts
  <2>2. owed'[s] = owed[s] \/ HasOut(s, "SUBACK")
    BY GotIsOut DEF Accepts, Counts, Ind
  <2>3. \A a \in News(s) : a.type \notin {"SUBACK", "UNSUBACK"}
    BY <1>2, <1>3
  <2> QED BY <1>1, <2>1, <2>2, <2>3, SubscriberServes DEF Ind, SubscribesOnce
<1>9. Asked' /\ Ordered' /\ GetsAll'
  BY AskedAccepts, OrderedAccepts, GetAllAccepts DEF Ind
<1> QED BY <1>1, <1>5, <1>6, <1>7, <1>8, <1>9 DEF Ind

LEMMA PublishInd ==
  ASSUME Ind, Alive, NEW c \in Connections, NEW reason \in Refusals,
         AuthorizePublish(c, reason)
  PROVE  Ind'
<1>1. Quiet \/ \E p : Accepts(c, p)
  BY PublishStep DEF Ind
<1>2. /\ UNCHANGED <<table, sessions, sending>>
      /\ phase[c] = "asking"
      /\ \A d \in Connections \ {c} : phase'[d] = phase[d] /\ inbox'[d] = inbox[d]
      /\ \/ lock' = lock /\ inbox' = inbox /\ phase' = phase
         \/ lock' = lock /\ phase'[c] = "handling"
         \/ /\ inbox' = inbox /\ phase'[c] = "publishing"
            /\ \E S : lock' = [s \in Connections |->
                                 IF s \in S THEN Append(lock[s], c) ELSE lock[s]]
  BY DEF AuthorizePublish, NextPacket, Ind, Types
<1>3. \A s \in Connections : c \notin Range(lock[s])
  BY <1>2, NotWaiting DEF Ind
<1>4. inbox[c] # <<>>
  BY <1>2 DEF Ind, Busy
<1>5. Busy' /\ Locks'
  <2>1. CASE lock' = lock /\ inbox' = inbox /\ phase' = phase
    BY <1>2, <1>3, <1>4, <2>1, BusyStep, LocksStep DEF Ind
  <2>2. CASE lock' = lock /\ phase'[c] = "handling"
    BY <1>2, <1>3, <2>2, BusyStep, LocksStep DEF Ind
  <2>3. CASE /\ inbox' = inbox /\ phase'[c] = "publishing"
             /\ \E S : lock' = [s \in Connections |->
                                  IF s \in S THEN Append(lock[s], c) ELSE lock[s]]
    <3>1. PICK S : \A s \in Connections :
                     lock'[s] = IF s \in S THEN Append(lock[s], c) ELSE lock[s]
      BY <2>3
    <3>2. Locks'
      BY <1>2, <1>3, <2>3, <3>1, LocksJoin DEF Ind
    <3>3. \A s \in Connections : Append(lock[s], c) # <<>>
      BY <1>3, JoinQueue, QueueMembers DEF Ind, Locks
    <3>4. Busy'
      <4> SUFFICES ASSUME NEW d \in Connections
                   PROVE  /\ phase'[d] \in {"asking", "publishing"} => inbox'[d] # <<>>
                          /\ sending'[d] # <<>> => lock'[d] # <<>>
        BY DEF Busy
      <4>1. phase'[d] \in {"asking", "publishing"} => inbox'[d] # <<>>
        BY <1>2, <1>4, <2>3 DEF Ind, Busy
      <4>2. sending'[d] # <<>> => lock'[d] # <<>>
        BY <1>2, <3>1, <3>3 DEF Ind, Busy
      <4> QED BY <4>1, <4>2
    <3> QED BY <3>2, <3>4
  <2> QED BY <1>2, <2>1, <2>2, <2>3
<1>6. CASE Quiet
  <2>1. phase'[c] # "ended" => phase[c] # "ended"
    BY <1>2
  <2>2. Tabled /\ Stays
    BY <1>2, <2>1 DEF Tabled, Stays
  <2> QED BY <1>5, <1>6, <2>2, QuietInd
<1>7. CASE \E p : Accepts(c, p)
  BY <1>2, <1>5, <1>7, AcceptInd
<1> QED BY <1>1, <1>6, <1>7

LEMMA FeedInd ==
  ASSUME Ind, Alive, NEW c \in Connections, ClientSends(c)
  PROVE  Ind'
<1>1. PICK p : Feeds(c, p)
  BY FeedStep DEF Ind
<1>2. /\ Types' /\ Sends(c, p) /\ owed' = owed /\ Feed(c, p)
      /\ \A s \in Connections : Longer(s)
      /\ \A s \in Connections : s # c => /\ client'[s] = client[s] /\ sm'[s] = sm[s]
                                        /\ inbox'[s] = inbox[s]
  BY <1>1 DEF Feeds, Sends
<1>3. /\ UNCHANGED <<table, sessions, lock, sending>>
      /\ phase[c] \in {"reading", "feeding"} /\ phase'[c] = "feeding"
      /\ \A d \in Connections \ {c} : phase'[d] = phase[d]
  BY <1>2 DEF Feed, brokerVars, Ind, Types
<1>4. \A s \in Connections : c \notin Range(lock[s])
  BY <1>3, NotWaiting DEF Ind
<1>5. Busy'
  BY <1>2, <1>3, BusyStep DEF Ind
<1>6. Locks'
  BY <1>3, <1>4, LocksStep DEF Ind
<1>7. Stays
  BY <1>3 DEF Stays
<1>8. Named'
  <2>1. sm'[c].client = IF p.type = "CONNECT" THEN Client[c] ELSE sm[c].client
    BY <1>1 DEF Feeds, Fed
  <2>2. \A d \in Connections : sm'[d].client = sm[d].client \/ sm'[d].client = Client[d]
    BY <1>2, <2>1
  <2>3. \A d \in Connections :
          InInbox(d, "CONNECT")' => InInbox(d, "CONNECT") \/ sm'[d].client = Client[d]
    <3> TAKE d \in Connections
    <3>1. CASE d = c
      BY <1>1, <2>1, <3>1, InboxGrows DEF Ind
    <3>2. CASE d # c
      BY <1>2, <3>2 DEF InInbox
    <3> QED BY <3>1, <3>2
  <2> QED BY <1>3, <2>2, <2>3, NamedStep DEF Ind
<1>9. \A s \in Connections : \A a \in News(s) : ~IsMessage(a) /\ s = c
  BY <1>1, PacketKinds DEF Feeds, Replies
<1>10. SentOnce' /\ ConnectsOnce'
  BY <1>1, SentOnceFeeds, ConnectsOnceFeeds DEF Ind
<1>11. SubscribesOnce'
  <2> SUFFICES ASSUME NEW s \in Connections PROVE Subscriber(s)'
    BY DEF SubscribesOnce
  <2>1. CASE s = c
    BY <1>1, <2>1, SubscriberFeeds DEF Ind, SubscribesOnce
  <2>2. CASE s # c
    <3>1. News(s) = {}
      BY <1>9, <2>2
    <3> QED BY <1>2, <2>2, <3>1, SubscriberSame DEF Ind, SubscribesOnce
  <2> QED BY <2>1, <2>2
<1>12. Asked'
  <2>1. ASSUME NEW s \in Connections, NEW k \in DOMAIN Outbound(s), IsMessage(Outbound(s)[k]),
               Outbound(s)[k].msg \in DOMAIN client'[s].sent
        PROVE  Outbound(s)[k].msg \in DOMAIN client[s].sent
    <3>1. CASE s # c
      BY <1>2, <2>1, <3>1
    <3>2. CASE s = c
      <4>1. \/ client'[c].sent = client[c].sent
            \/ DOMAIN client'[c].sent = DOMAIN client[c].sent \cup {called + 1}
        BY <1>2 DEF Sends
      <4>2. Outbound(s)[k].msg \in Nat /\ Outbound(s)[k].msg <= called
        <5>1. Outbound(s)[k].msg \in Messages
          BY <2>1, OutboundType, PacketKinds DEF Ind
        <5> QED BY <2>1, <5>1, MessageNumbers DEF Ind, SentOnce
      <4>3. called \in Nat
        BY MessageNumbers DEF Ind, Types
      <4> QED BY <2>1, <3>2, <4>1, <4>2, <4>3
    <3> QED BY <3>1, <3>2
  <2> QED BY <1>2, <1>9, <2>1, AskedStep DEF Ind
<1>13. Ordered'
  <2>1. \A d \in Connections : \A k \in Fresh(d)' :
          \/ \E j \in Fresh(d) : inbox[d][j] = inbox'[d][k]
          \/ \A s \in Connections : \A i \in DOMAIN Outbound(s) :
               IsMessage(Outbound(s)[i]) => Outbound(s)[i].msg # inbox'[d][k].msg
    BY <1>1, FreshFeeds DEF Ind
  <2> QED BY <1>2, <1>9, <2>1, OrderedStep DEF Ind
<1>14. GetsAll'
  BY <1>2, <1>7, GetAllStep DEF Ind, Stays
<1> QED BY <1>2, <1>5, <1>6, <1>8, <1>10, <1>11, <1>12, <1>13, <1>14 DEF Ind

LEMMA InitInd ==
  ASSUME Init
  PROVE  Ind
<1>1. Types
  BY InitTypes
<1>2. \A c \in Connections :
        /\ lock[c] = <<>> /\ sending[c] = <<>> /\ inbox[c] = <<>> /\ Outbound(c) = <<>>
        /\ phase[c] = "reading" /\ client[c].done = {} /\ client[c].sent = <<>>
        /\ owed[c] = {} /\ sm[c].subscriptions = {}
  <2>1. \A S : <<>> \in Seq(S)
    BY EmptySeq
  <2>2. <<>> \o <<>> = <<>>
    BY <2>1, ConcatEmptySeq
  <2> QED BY <2>2 DEF Init, Outbound
<1>3. DOMAIN table = {} /\ DOMAIN sessions = {} /\ Range(table) = {}
  BY DEF Init, Range
<1>4. DOMAIN (<<>>) = {} /\ Range(<<>>) = {} /\ IsInjective(<<>>)
  BY DEF Range, IsInjective
<1>5. \A c \in Connections : \A type : ~InInbox(c, type) /\ ~HasOut(c, type) /\ ~Told(c)
  BY <1>2, <1>4 DEF InInbox, HasOut, Told
<1>6. Busy /\ Locks /\ Named
  BY <1>2, <1>3, <1>4, <1>5 DEF Busy, Locks, Named
<1>7. SentOnce /\ ConnectsOnce
  BY <1>2, <1>4, <1>5 DEF SentOnce, ConnectsOnce
<1>8. SubscribesOnce
  BY <1>2, <1>4, <1>5 DEF SubscribesOnce, Subscriber
<1>9. Asked /\ Ordered /\ GetsAll
  BY <1>2, <1>3, <1>4 DEF Asked, Ordered, Fresh, GetsAll, SubscribersGetAll, InTable
<1> QED BY <1>1, <1>6, <1>7, <1>8, <1>9 DEF Ind

LEMMA NextInd ==
  ASSUME Ind, [Next]_vars
  PROVE  Ind'
<1>1. CASE UNCHANGED vars
  BY <1>1, StutterInd
<1>2. CASE Next
  <2>1. Alive
    BY <1>2 DEF Next
  <2>2. PICK c \in Connections :
          Handle(c) \/ ClientSends(c) \/ Resume(c) \/ Flush(c) \/ Leave(c)
    BY <1>2 DEF Next
  <2>3. CASE Handle(c)
    BY <2>1, <2>3, PhaseStepsInd, PacketStepsInd, GrantInd DEF Handle
  <2>4. CASE Resume(c)
    BY <2>1, <2>4, WelcomeInd, PublishInd, PacketStepsInd DEF Resume
  <2> QED BY <2>1, <2>2, <2>3, <2>4, FeedInd, FlushStepsInd, LeaveStepsInd
<1> QED BY <1>1, <1>2

\* The invariant that the theorems below rest on
THEOREM Inductive == Spec => []Ind
<1>1. Init => Ind
  BY InitInd
<1>2. Ind /\ [Next]_vars => Ind'
  BY NextInd
<1> QED BY <1>1, <1>2, PTL DEF Spec

-----------------------------------------------------------------------------
(* What the invariant says of the properties                               *)

LEMMA PacketsAreWell ==
  ASSUME NEW p
  PROVE  /\ p \in ToClient => Packet(p)
         /\ \A c : p \in FromClient(c) \cup Kept(c) => Packet(p)
<1>1. ASSUME p \in Acks PROVE Packet(p)
  <2>1. p.type \in AckTypes /\ p.id \in Nat /\ p.reason \in Reasons
    BY <1>1 DEF Acks
  <2> QED BY <2>1 DEF Packet, AckTypes, Reasons
<1>2. ASSUME p \in Publishes PROVE Packet(p)
  BY <1>2 DEF Publishes, Packet
<1>3. ASSUME NEW c, p \in Asks(c) PROVE Packet(p)
  BY <1>3 DEF Asks, Packet
<1>4. ASSUME p \in Signals PROVE Packet(p)
  BY <1>4 DEF Signals, Packet
<1> QED BY <1>1, <1>2, <1>3, <1>4 DEF ToClient, FromClient, Kept

LEMMA PacketsOnTheWay ==
  ASSUME Types, NEW c \in Connections
  PROVE  \A p \in Range(sm[c].out \o sending[c] \o received[c] \o inbox[c]) : Packet(p)
<1> DEFINE P == {p \in ToClient \cup FromClient(c) : Packet(p)}
<1>1. ToClient \subseteq P /\ FromClient(c) \subseteq P
  BY PacketsAreWell
<1> HIDE DEF P
<1>2. /\ sm[c].out \in Seq(ToClient) /\ sending[c] \in Seq(ToClient)
      /\ received[c] \in Seq(ToClient) /\ inbox[c] \in Seq(FromClient(c))
  BY SessionFields DEF Types
<1>3. /\ sm[c].out \in Seq(P) /\ sending[c] \in Seq(P)
      /\ received[c] \in Seq(P) /\ inbox[c] \in Seq(P)
  BY <1>1, <1>2, SeqMonotonic
<1>4. sm[c].out \o sending[c] \o received[c] \o inbox[c] \in Seq(P)
  BY <1>3, ConcatProperties
<1>5. Range(sm[c].out \o sending[c] \o received[c] \o inbox[c]) \subseteq P
  BY <1>4, RangeOfSeq
<1> QED BY <1>5 DEF P

LEMMA IndTypeOK ==
  ASSUME Ind
  PROVE  TypeOK
<1>1. ASSUME NEW c \in Connections
      PROVE  /\ sm[c].state \in {"DISCONNECTED", "CONNECTING", "CONNECTED"}
             /\ sm[c].client \in {NoClient, Client[c]}
             /\ \A id \in DOMAIN sm[c].pending : /\ Packet(sm[c].pending[id])
                                                 /\ sm[c].pending[id].id = id
             /\ \A p \in Range(sm[c].out \o sending[c] \o received[c] \o inbox[c]) : Packet(p)
             /\ phase[c] \in {"reading", "feeding", "handling", "asking", "publishing",
                              "flushing", "ended"}
             /\ IsInjective(lock[c])
  <2>1. sm[c] \in Session(c) /\ phase[c] \in Phases
    BY DEF Ind, Types
  <2>2. /\ sm[c].state \in {"DISCONNECTED", "CONNECTING", "CONNECTED"}
        /\ sm[c].client \in {NoClient, Client[c]}
        /\ sm[c].pending \in {t \in Tables(Kept(c)) : \A id \in DOMAIN t : t[id].id = id}
    BY <2>1 DEF Session
  <2>3. \A id \in DOMAIN sm[c].pending : /\ sm[c].pending[id] \in Kept(c)
                                         /\ sm[c].pending[id].id = id
    BY <2>2 DEF Tables
  <2>4. \A id \in DOMAIN sm[c].pending : Packet(sm[c].pending[id])
    BY <2>3, PacketsAreWell
  <2>5. \A p \in Range(sm[c].out \o sending[c] \o received[c] \o inbox[c]) : Packet(p)
    BY PacketsOnTheWay DEF Ind
  <2>6. IsInjective(lock[c])
    BY DEF Ind, Locks
  <2> QED BY <2>1, <2>2, <2>3, <2>4, <2>5, <2>6 DEF Phases
<1>2. /\ \A id \in DOMAIN table : sm[table[id]].client = id
      /\ \A id \in DOMAIN sessions : sm[sessions[id]].client = id
      /\ Range(retained) \subseteq Messages
  BY DEF Ind, Named, Types
<1> QED BY <1>1, <1>2 DEF TypeOK

LEMMA IndSameOrder ==
  ASSUME Ind
  PROVE  SameOrder
<1>1. \A s \in Connections : \A k \in DOMAIN received[s] :
        k \in DOMAIN Outbound(s) /\ Outbound(s)[k] = received[s][k]
  BY OutboundType DEF Ind
<1> QED BY <1>1 DEF Ind, Ordered, SameOrder

LEMMA IndOnlyWhatIsAsked ==
  ASSUME Ind
  PROVE  OnlyWhatIsAsked
<1> SUFFICES ASSUME NEW s \in Connections, NEW k \in DOMAIN received[s],
                    IsMessage(received[s][k])
             PROVE  /\ \E x \in Request[s] : Covers(x, received[s][k], s)
                    /\ \A j \in 1 .. k - 1 : received[s][j].type # "UNSUBACK"
  BY DEF OnlyWhatIsAsked, Covers
<1>1. \A j \in DOMAIN received[s] : j \in DOMAIN Outbound(s) /\ Outbound(s)[j] = received[s][j]
  BY OutboundType DEF Ind
<1>2. \A j \in 1 .. k - 1 : j \in DOMAIN received[s]
  <2>1. received[s] \in Seq(ToClient)
    BY DEF Ind, Types
  <2>2. DOMAIN received[s] = 1 .. Len(received[s]) /\ Len(received[s]) \in Nat
    BY <2>1, LenProperties
  <2> QED BY <2>2
<1> QED BY <1>1, <1>2 DEF Ind, Asked

-----------------------------------------------------------------------------
(* For every number of connections and messages                            *)

(* Every session, queue and packet has its type; both tables name a        *)
(* session by the client id of its CONNECT; nobody waits twice for a lock. *)
THEOREM BrokerTypes == Spec => []TypeOK
<1>1. Ind => TypeOK
  BY IndTypeOK
<1> QED BY <1>1, Inductive, PTL

(* Two subscribers that get the same messages get them in the same order,  *)
(* each once: publish() encodes a message for all its recipients before    *)
(* it awaits, whatever the order in which the task groups flush them.      *)
THEOREM MessagesInOneOrder == Spec => []SameOrder
<1>1. Ind => SameOrder
  BY IndSameOrder
<1> QED BY <1>1, Inductive, PTL

(* A client gets only messages that match a subscription it has asked for, *)
(* with no_local nothing of its own, and nothing after the UNSUBACK.       *)
THEOREM NothingUnasked == Spec => []OnlyWhatIsAsked
<1>1. Ind => OnlyWhatIsAsked
  BY IndOnlyWhatIsAsked
<1> QED BY <1>1, Inductive, PTL

(* A client that was told of its subscription gets every accepted message  *)
(* that matches, or has it in its session's outbound data, as long as its  *)
(* connection lives and its session is in the table, provided that no      *)
(* message is above the maximum QoS of its subscriptions.                  *)
THEOREM NothingMissed ==
  ASSUME WithinMaxQoS
  PROVE  Spec => []SubscribersGetAll
<1>1. Ind => SubscribersGetAll
  BY WithinMaxQoS DEF Ind, GetsAll
<1> QED BY <1>1, Inductive, PTL
=============================================================================
