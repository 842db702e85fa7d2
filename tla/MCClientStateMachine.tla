------------------------ MODULE MCClientStateMachine ------------------------
(* One client, every application call and every packet that a network can  *)
(* deliver to it.                                                          *)
EXTENDS ClientStateMachine

CONSTANTS
  MaxPending,     \* bound on the requests that await an answer
  MaxOutBuffer,   \* bound on the packets between two flushes
  MaxCount        \* bound on the users of one pattern

Bounds ==
  /\ Len(pending) <= MaxPending
  /\ Len(out_buffer) <= MaxOutBuffer
  /\ \A p \in Patterns : subscription_counts[p] \in -1 .. MaxCount

=============================================================================
