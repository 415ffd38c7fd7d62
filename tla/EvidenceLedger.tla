--------------------------- MODULE EvidenceLedger ---------------------------
(***************************************************************************)
(* What custody promises about the evidence of one case, with no disk,     *)
(* inventory, operations in progress or crashes: a path is sealed once,    *)
(* together with all the files chosen with it, what was sealed is never    *)
(* rewritten, it may be retired but not sealed again, and every change of  *)
(* the sealed set adds one manifest that lists the sealed set.             *)
(***************************************************************************)
EXTENDS Sequences, Naturals

CONSTANTS
    Paths,          \* the paths evidence may have
    Files,          \* what may be found at a path
    Absent          \* no file

VARIABLES
    entry,          \* entry[p]: the custody record of the path
    lists           \* lists[v]: the sealed set that manifest v lists

vars == <<entry, lists>>

SealedIn(e) == {p \in Paths : e[p].status = "sealed"}

Init ==
    /\ entry = [p \in Paths |-> [status |-> "none", file |-> Absent]]
    /\ lists = <<>>

Seal(T) ==
    /\ \A p \in T : entry[p].status = "none"
    /\ \E f \in [T -> Files] :
          entry' = [p \in Paths |->
                      IF p \in T THEN [status |-> "sealed", file |-> f[p]]
                      ELSE entry[p]]
    /\ lists' = Append(lists, SealedIn(entry'))

Retire(p) ==
    /\ entry[p].status # "none"
    /\ entry' = [entry EXCEPT ![p].status = "retired"]
    /\ lists' = Append(lists, SealedIn(entry'))

Next ==
    \/ \E T \in (SUBSET Paths) \ {{}} : Seal(T)
    \/ \E p \in Paths : Retire(p)

Spec == Init /\ [][Next]_vars
=============================================================================
