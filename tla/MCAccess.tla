------------------------------ MODULE MCAccess ------------------------------
(* A small instance of Access: an agent with two tokens whose case is k1.  *)
EXTENDS Access, TLC

MCOwner == [t \in Tokens |-> "agent"]
MCHomeCase == [p \in Principals |-> "k1"]
MCScopes == [p \in Principals |-> Tools]

\* The calls are alike.
Symmetry == Permutations(Calls)

=============================================================================
