------------------------------ MODULE MCSession ------------------------------
(* A client and a broker session with a few messages and patterns.         *)
EXTENDS Session

\* Every subscription matches every message.
AllMatch == [m \in Messages |-> Patterns]

=============================================================================
