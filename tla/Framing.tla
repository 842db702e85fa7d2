------------------------------- MODULE Framing -------------------------------
(***************************************************************************)
(* How packets become bytes and bytes packets again: encode_fixed_header   *)
(* with its variable-length integer at the sender, feed_bytes and          *)
(* decode_packet at the receiver, and between them a stream that arrives   *)
(* in chunks of any size and may break.  One receiving state machine lives *)
(* through all the streams, as an AsyncMQTTClient's does.                  *)
(*                                                                         *)
(* A packet is its first byte and the bytes of its body, which are not     *)
(* looked into but for whether a class decodes them (Valid); the first     *)
(* byte tells the packet type, which need not be one there is (Headers).   *)
(***************************************************************************)
EXTENDS Integers, SequencesExt

CONSTANTS
  Base,         \* 128 in the code: a byte of Base or more says that another follows
  Packets,      \* the packets [header, body] that may be sent
  Headers,      \* the first bytes of the packet types in packet_types
  Valid,        \* the packets that decode
  MaxPackets, MaxStreams   \* bounds on the packets of a stream and the streams

ASSUME FramingAssumption ==
  /\ Base \in Nat /\ Base > 1
  /\ Packets \subseteq [header : 0 .. 2 * Base - 1, body : Seq(0 .. 2 * Base - 1)]
  /\ Valid \subseteq {p \in Packets : p.header \in Headers}

VARIABLES
  sent,        \* the packets of the current stream
  wire,        \* the bytes that have not arrived
  in_buffer,   \* _in_buffer
  view,        \* how many bytes of in_buffer the loop of feed_bytes has passed
  handled,     \* the packets of the current stream that were handled
  phase,       \* "reading", "decoding" in feed_bytes, "failed" when it has raised
  streams,     \* how many streams there were
  torn         \* whether a stream has broken inside a packet

vars == <<sent, wire, in_buffer, view, handled, phase, streams, torn>>

VariableInteger[n \in Nat] ==
  IF n < Base THEN <<n>> ELSE <<(n % Base) + Base>> \o VariableInteger[n \div Base]

Encode(p) == <<p.header>> \o VariableInteger[Len(p.body)] \o p.body

\* The bytes of an integer at the head of data: up to the first below Base
IntegerLengths(data) ==
  {k \in DOMAIN data : data[k] < Base /\ \A j \in 1 .. k - 1 : data[j] >= Base}

\* Mutant of Value: the first byte is taken for the highest digit.
ValueReversed(data, k) ==
  FoldLeft(LAMBDA v, byte : (byte % Base) + Base * v, 0, SubSeq(data, 1, k))

\* The value of the k bytes at the head of data, the first being the lowest digit
Value(data, k) == FoldRight(LAMBDA byte, v : (byte % Base) + Base * v, SubSeq(data, 1, k), 0)

\* decode_packet refuses the packet type before it asks for the rest of the packet.
UnknownType(data) == Len(data) >= 2 /\ data[1] \notin Headers

(* decode_packet finds a whole packet at the head of data: at least two    *)
(* bytes, all of the length and all of the body.  It does not limit the    *)
(* length to four bytes, nor ask for the shortest form of it; `size' is    *)
(* how many bytes it passes.                                               *)
Decodable(data) ==
  IF Len(data) < 2 \/ UnknownType(data) THEN {}
  ELSE LET rest == Tail(data)
       IN  {[packet |-> [header |-> data[1],
                         body |-> SubSeq(rest, k + 1, k + Value(rest, k))],
             size |-> 1 + k + Value(rest, k)] :
              k \in {l \in IntegerLengths(rest) : Len(rest) >= l + Value(rest, l)}}

View == SubSeq(in_buffer, view + 1, Len(in_buffer))

Init ==
  /\ sent = <<>> /\ wire = <<>> /\ in_buffer = <<>>
  /\ view = 0
  /\ handled = <<>>
  /\ phase = "reading"
  /\ streams = 1
  /\ torn = FALSE

SendPacket(p) ==
  /\ phase # "failed"
  /\ Len(sent) < MaxPackets
  /\ sent' = Append(sent, p)
  /\ wire' = wire \o Encode(p)
  /\ UNCHANGED <<in_buffer, view, handled, phase, streams, torn>>

\* feed_bytes is called with the next n bytes.
FeedBytes(n) ==
  /\ phase = "reading"
  /\ n \in DOMAIN wire
  /\ in_buffer' = in_buffer \o SubSeq(wire, 1, n)
  /\ wire' = SubSeq(wire, n + 1, Len(wire))
  /\ view' = 0
  /\ phase' = "decoding"
  /\ UNCHANGED <<sent, handled, streams, torn>>

\* Mutant of DecodePacket: a call of feed_bytes decodes one packet.
DecodePacketOnce ==
  /\ phase = "decoding"
  /\ \E d \in Decodable(View) :
       \/ /\ d.packet \in Valid
          /\ handled' = Append(handled, d.packet)
          /\ in_buffer' = SubSeq(View, d.size + 1, Len(View))
          /\ view' = 0
          /\ phase' = "reading"
       \/ /\ d.packet \notin Valid
          /\ phase' = "failed"
          /\ UNCHANGED <<handled, view, in_buffer>>
  /\ UNCHANGED <<sent, wire, streams, torn>>

(* A packet that does not decode raises, as does a type that there is not  *)
(* (RefuseType); in_buffer then keeps all its bytes, those of packets that *)
(* were handled included.                                                  *)
DecodePacket ==
  /\ phase = "decoding"
  /\ \E d \in Decodable(View) :
       \/ /\ d.packet \in Valid
          /\ handled' = Append(handled, d.packet)
          /\ view' = view + d.size
          /\ UNCHANGED phase
       \/ /\ d.packet \notin Valid
          /\ phase' = "failed"
          /\ UNCHANGED <<handled, view>>
  /\ UNCHANGED <<sent, wire, in_buffer, streams, torn>>

RefuseType ==
  /\ phase = "decoding"
  /\ UnknownType(View)
  /\ phase' = "failed"
  /\ UNCHANGED <<sent, wire, in_buffer, view, handled, streams, torn>>

\* Mutant of EndOfData: an incomplete packet at the end of a chunk is dropped.
EndOfDataDropping ==
  /\ phase = "decoding"
  /\ Decodable(View) = {} /\ ~UnknownType(View)
  /\ in_buffer' = <<>>
  /\ view' = 0
  /\ phase' = "reading"
  /\ UNCHANGED <<sent, wire, handled, streams, torn>>

\* InsufficientData ends the loop; what the loop has passed leaves the buffer.
EndOfData ==
  /\ phase = "decoding"
  /\ Decodable(View) = {} /\ ~UnknownType(View)
  /\ in_buffer' = View
  /\ view' = 0
  /\ phase' = "reading"
  /\ UNCHANGED <<sent, wire, handled, streams, torn>>

(* The stream breaks and another is opened.  Neither connect() nor reset() *)
(* clears in_buffer.                                                       *)
Reconnect ==
  /\ phase = "reading"
  /\ streams < MaxStreams
  /\ streams' = streams + 1
  /\ sent' = <<>> /\ wire' = <<>> /\ handled' = <<>>
  /\ torn' = (torn \/ in_buffer # <<>>)
  /\ UNCHANGED <<in_buffer, view, phase>>

Receive == DecodePacket \/ RefuseType \/ EndOfData

Next ==
  \/ \E p \in Packets : SendPacket(p)
  \/ \E n \in 1 .. Len(wire) : FeedBytes(n)
  \/ Receive
  \/ Reconnect

Spec == Init /\ [][Next]_vars

(* feed_bytes runs to its end, and the transport goes on bringing bytes.   *)
Fairness == WF_vars(Receive) /\ WF_vars(\E n \in 1 .. Len(wire) : FeedBytes(n))

-----------------------------------------------------------------------------
(* Properties                                                              *)

Unhandled == SubSeq(sent, Len(handled) + 1, Len(sent))

(* However the stream is cut into chunks, the packets are handled in the   *)
(* order they were sent, none lost or made up: the bytes of those not yet  *)
(* handled are exactly the ones in the buffer and on the way, and          *)
(* feed_bytes raises at no packet that is valid.  An earlier stream must   *)
(* not have broken inside a packet: its bytes stay in _in_buffer and are   *)
(* taken for the head of the next stream.                                  *)
ChunksDoNotMatter ==
  ~torn =>
    /\ IsPrefix(handled, sent)
    /\ FlattenSeq([k \in DOMAIN Unhandled |-> Encode(Unhandled[k])]) = View \o wire
    /\ phase = "failed" => Head(Unhandled) \notin Valid

(* Between two chunks every packet whose last byte has arrived is handled: *)
(* feed_bytes keeps less than the next one.                                *)
NothingWholeIsKept ==
  phase = "reading" /\ ~torn /\ Unhandled # <<>> =>
    Len(in_buffer) < Len(Encode(Head(Unhandled)))

\* Every packet is handled, unless one before it raised or its stream broke.
EveryPacketIsHandled ==
  \A k \in 1 .. MaxPackets, s \in 1 .. MaxStreams :
    (Len(sent) >= k /\ streams = s)
      ~> (Len(handled) >= k \/ phase = "failed" \/ streams > s \/ torn)

=============================================================================
