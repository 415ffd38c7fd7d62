--------------------------- MODULE MCInvestigation ---------------------------
(* Instances of Investigation for TLC. *)
EXTENDS Investigation, TLC

CONSTANTS c1, c2, v1

\* A finding with a time and an IOC, and one with neither.
MCRequests == {<<TRUE, v1>>, <<FALSE, NoValue>>}

Symmetric == Permutations(Calls)
=============================================================================
