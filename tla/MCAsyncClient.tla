---------------------------- MODULE MCAsyncClient ----------------------------
(* Up to three application tasks, a few messages each way, small buffers.          *)
EXTENDS AsyncClient

CONSTANTS t1, t2, t3, a, b

(* The broker's messages: their QoS levels, with packet ids the client's   *)
(* requests do not reach, and the patterns that match them.                *)
Broker(qos) ==
  [k \in DOMAIN qos |->
     [type |-> "PUBLISH", msg |-> k, qos |-> qos[k], duplicate |-> FALSE,
      packet_id |-> IF qos[k] = 0 THEN 0 ELSE MaxPacketId + 1 - k]]

Mixed == Broker(<<1, 0, 0>>)
Plain == Broker(<<0, 0>>)
One   == Broker(<<1>>)
MixedMatching == <<{a}, {a}, {a}>>
PlainMatching == <<{a}, {a}>>
OneMatching   == <<{a}>>
ZeroTwo == <<{0}, {2}>>
QoSOne == <<{1}>>
Single == {{a}}
=============================================================================
