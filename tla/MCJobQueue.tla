----------------------------- MODULE MCJobQueue -----------------------------
(* Small instances of JobQueue for TLC.                                    *)
EXTENDS JobQueue, TLC

CONSTANTS c1, i1, w1, w2

MCKind == [j \in Jobs |-> IF j = i1 THEN "ingest" ELSE "run_command"]
MCPriority == [j \in Jobs |-> IF j = i1 THEN 50 ELSE 100]
\* The retried job is the ingest ...
MCIngestRetried == [j \in Jobs |-> IF j = i1 THEN 2 ELSE 1]
\* ... or the command.
MCCommandRetried == [j \in Jobs |-> IF j = i1 THEN 1 ELSE 2]
\* Any worker may serve any type ...
MCServes == [w \in Workers |-> Kinds]
\* ... or the workers have lanes, as the systemd units give them.
MCLanes == [w \in Workers |-> IF w = w1 THEN {"run_command"} ELSE {"ingest"}]
Symmetry == Permutations(Workers)
=============================================================================
