------------------------------- MODULE Delivery -------------------------------
(***************************************************************************)
(* What one direction of a session promises while its connection lasts:    *)
(* every message that is published arrives, once, in the order it was      *)
(* published in; and a publisher that asked for an acknowledgement gets it *)
(* after the message has arrived: the PUBACK of a QoS 1 publish, the       *)
(* PUBREC of a QoS 2 publish.                                              *)
(***************************************************************************)
EXTENDS Naturals, Sequences, SequencesExt

CONSTANTS Messages, QoSLevels

VARIABLES
  published,   \* the messages with their QoS, in the order of the publish calls
  received,    \* those that arrived, in the order of their arrival
  acknowledged \* those the publisher was told of

vars == <<published, received, acknowledged>>

Publications == [msg : Messages, qos : QoSLevels]

Init ==
  /\ published = <<>>
  /\ received = <<>>
  /\ acknowledged = {}

Publish(x) ==
  /\ x.msg \notin {published[i].msg : i \in DOMAIN published}
  /\ published' = Append(published, x)
  /\ UNCHANGED <<received, acknowledged>>

Arrive ==
  /\ Len(received) < Len(published)
  /\ received' = Append(received, published[Len(received) + 1])
  /\ UNCHANGED <<published, acknowledged>>

Acknowledge(x) ==
  /\ x.qos > 0
  /\ x \in ToSet(received) \ acknowledged
  /\ acknowledged' = acknowledged \cup {x}
  /\ UNCHANGED <<published, received>>

Next ==
  \/ \E x \in Publications : Publish(x)
  \/ Arrive
  \/ \E x \in Publications : Acknowledge(x)

Safety == Init /\ [][Next]_vars

Spec ==
  /\ Safety
  /\ WF_vars(Arrive)
  /\ \A x \in Publications : WF_vars(Acknowledge(x))
=============================================================================
