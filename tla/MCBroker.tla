------------------------------- MODULE MCBroker -------------------------------
(* Two connections, two messages.                                          *)
EXTENDS Broker

CONSTANTS c1, c2, a, b

MCClient == c1 :> "one" @@ c2 :> "two"

Wants(pattern, max_qos, no_local) ==
  [pattern |-> pattern, max_qos |-> max_qos, no_local |-> no_local]

\* The first client wants no echo of its own on pattern a, and nothing above QoS 1.
MCRequest ==
  c1 :> {Wants(a, 1, TRUE), Wants(b, 2, FALSE)} @@ c2 :> {Wants(a, 2, FALSE)}

\* The second client wants nothing above QoS 1.
AtMostOne == c1 :> {} @@ c2 :> {Wants(a, 1, FALSE)}

MCMatching == <<{a}, {a, b}>>
MCTopic    == <<"t", "t">>
MCRetain   == <<"store", "clear">>
OneAndTwo  == <<{1}, {0, 2}>>
TwoOnly    == <<{2}, {2}>>
ZeroOnly   == <<{0}, {0}>>

OneLeaves    == c1 :> {} @@ c2 :> {"unsubscribe", "disconnect", "eof", "partial"}
NobodyLeaves == c1 :> {} @@ c2 :> {}
Disconnects  == c1 :> {} @@ c2 :> {"disconnect"}

Batches == c1 :> 1 @@ c2 :> 2
Singly  == c1 :> 1 @@ c2 :> 1
=============================================================================
