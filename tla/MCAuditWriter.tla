---------------------------- MODULE MCAuditWriter ----------------------------
(* Two processes, one of them with two threads.                            *)
EXTENDS AuditWriter

MCProcessOf == [t \in Threads |-> IF t = "c" THEN "q" ELSE "p"]

=============================================================================
