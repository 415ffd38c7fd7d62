---------------------------- MODULE JobLifecycle ----------------------------
(***************************************************************************)
(* What the durable job queue promises its callers, with no workers,       *)
(* leases or clocks: a submitted job waits, is handed out at most          *)
(* MaxAttempts[j] times, and ends once, for good.                          *)
(***************************************************************************)
EXTENDS Naturals

CONSTANTS
    Jobs,           \* the jobs that callers may submit
    MaxAttempts     \* how often each job may be handed out

VARIABLES
    life,           \* life[j]: where the job is in its life
    tries           \* tries[j]: how often it has been handed out

vars == <<life, tries>>

Outcomes == {"succeeded", "failed", "cancelled", "expired"}

Init ==
    /\ life = [j \in Jobs |-> "absent"]
    /\ tries = [j \in Jobs |-> 0]

Submit(j) ==
    /\ life[j] = "absent"
    /\ life' = [life EXCEPT ![j] = "waiting"]
    /\ UNCHANGED tries

HandOut(j) ==
    /\ life[j] = "waiting"
    /\ tries[j] < MaxAttempts[j]
    /\ life' = [life EXCEPT ![j] = "active"]
    /\ tries' = [tries EXCEPT ![j] = @ + 1]

\* The reaper returns or ends several jobs in one sweep.
TakeBack(S, E) ==
    /\ \A j \in S : life[j] = "active" /\ tries[j] < MaxAttempts[j]
    /\ \A j \in E : life[j] = "active" /\ tries[j] = MaxAttempts[j]
    /\ life' = [j \in Jobs |-> IF j \in S THEN "waiting"
                               ELSE IF j \in E THEN "expired" ELSE life[j]]
    /\ UNCHANGED tries

End(j) ==
    /\ \/ life[j] = "active" /\ \E o \in Outcomes \ {"expired"} :
             life' = [life EXCEPT ![j] = o]
       \/ life[j] = "waiting" /\ life' = [life EXCEPT ![j] = "cancelled"]
    /\ UNCHANGED tries

Next ==
    \/ \E j \in Jobs : Submit(j) \/ HandOut(j) \/ End(j)
    \/ \E S, E \in SUBSET Jobs : TakeBack(S, E)

Spec == Init /\ [][Next]_vars
=============================================================================
