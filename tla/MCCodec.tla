------------------------------- MODULE MCCodec -------------------------------
(* The two pure parts of the codec side by side: a behaviour is one of     *)
(* framing or one of matching.                                             *)
EXTENDS Framing, TopicMatch

\* With Base 2 a body of four bytes has a length of three.
MCPackets == {[header |-> 1, body |-> <<>>],
              [header |-> 3, body |-> <<2>>],
              [header |-> 0, body |-> <<3>>],
              [header |-> 2, body |-> <<0, 1, 2, 3>>]}

\* A packet type that there is not, and a packet that its class does not decode
MCHeaders == {0, 1, 2}
MCValid   == {p \in MCPackets : p.header \in {1, 2}}

MCInit == Init /\ MatchInit

MCNext == \/ result = "none" /\ Next /\ UNCHANGED matchVars
          \/ sent = <<>> /\ streams = 1 /\ MatchNext /\ UNCHANGED vars

MCSpec == MCInit /\ [][MCNext]_<<vars, matchVars>>

MCFairSpec == MCSpec /\ Fairness
=============================================================================
