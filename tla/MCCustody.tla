----------------------------- MODULE MCCustody -----------------------------
(* Small instances of Custody for TLC.                                     *)
EXTENDS Custody, TLC

CONSTANTS p1, p2, c1, c2

File(bytes, id, kind, mode) ==
    [bytes |-> bytes, id |-> id, kind |-> kind, mode |-> mode]

Original == File("x", 1, "regular", "0644")
Rewritten == File("y", 1, "regular", "0644")
Chmodded == File("x", 1, "regular", "other")
Link == File("x", 2, "symlink", "0644")

MCFiles == {Original, Rewritten, Chmodded}
MCFilesWithLink == {Original, Rewritten, Chmodded, Link}
MCOneFile == {Original}

\* Every disposition of every path, in one batch ...
MCOneBatch == Verbs \X Paths \X BatchKeys
\* ... or a second path to retire, and a path retired under two keys.
MCTwoBatches == {<<v, p1, "b1">> : v \in Verbs}
                \cup {<<"RETIRE", p1, "b2">>, <<"RETIRE", p2, "b1">>}
=============================================================================
