--------------------- MODULE MCBrokerClientStateMachine ---------------------
(* One broker session, every call of the I/O layer and every packet that a *)
(* network can deliver to it.                                              *)
EXTENDS BrokerClientStateMachine

CONSTANTS
  MaxPending,     \* bound on the requests that await an answer
  MaxOutBuffer    \* bound on the packets between two flushes

\* Every subscription matches every message.
AllMatch == [m \in Messages |-> Patterns]

Bounds ==
  /\ Len(pending) <= MaxPending
  /\ Len(out_buffer) <= MaxOutBuffer

=============================================================================
