------------------------------ MODULE JobQueue ------------------------------
(***************************************************************************)
(* The durable job state machine: the app.jobs and app.job_steps tables    *)
(* with the RPCs that change them                                          *)
(* (supabase/migrations/202606081200_durable_jobs.sql), the worker process *)
(* that claims and runs jobs (sift_core/execute/job_worker.py), the bodies *)
(* of the run_command and ingest handlers as far as they touch the queue,  *)
(* and the gateway's reaper.                                               *)
(*                                                                         *)
(* Each RPC is one Postgres transaction and one action here.  A worker     *)
(* keeps what it learnt at the claim in its memory and acts on it later,   *)
(* while time passes, the reaper sweeps, operators cancel and other        *)
(* workers claim.  Two tables that nothing in the queue reads are left     *)
(* out: the log lines and the best-effort board of busy workers.  Time     *)
(* is relative: a lease is the number of ticks it has left, and it has     *)
(* lapsed when none are left.                                              *)
(***************************************************************************)
EXTENDS Integers, FiniteSets

CONSTANTS
    Jobs,           \* job ids
    Workers,        \* worker ids; a restarted worker keeps its id
    None,           \* no worker, no job
    Kind,           \* Kind[j]: "run_command" or "ingest" (enrich is alike)
    Priority,       \* Priority[j]: smaller is claimed first
    MaxAttempts,    \* MaxAttempts[j], chosen by the caller that enqueues
    Serves,         \* Serves[w]: the job types w has handlers for and claims
    Lease,          \* length of a lease, in ticks
    PollGap,        \* most ticks between two queue calls of the mirror loop
    MaxPolls,       \* polls before the ingest handler gives up
    MaxCrashes      \* bound on the crashes of workers

Kinds == {"run_command", "ingest"}

ASSUME JobsAssumption == IsFiniteSet(Jobs)
ASSUME NoneAssumption == None \notin Jobs /\ None \notin Workers
ASSUME KindAssumption == Kind \in [Jobs -> Kinds]
ASSUME PriorityAssumption == Priority \in [Jobs -> Nat]
ASSUME MaxAttemptsAssumption == MaxAttempts \in [Jobs -> Nat \ {0}]
ASSUME ServesAssumption == Serves \in [Workers -> SUBSET Kinds]
ASSUME LeaseAssumption == Lease \in Nat \ {0}
ASSUME BoundsAssumption ==
    PollGap \in Nat /\ MaxPolls \in Nat /\ MaxCrashes \in Nat

VARIABLES
    job,            \* app.jobs: one row per job
    step,           \* app.job_steps: rows 0 and 1 of each job
    worker,         \* the memory of each worker process
    crashes         \* how many crashes there have been

vars == <<job, step, worker, crashes>>

Leased == {"claimed", "running"}
Terminal == {"succeeded", "failed", "cancelled", "expired"}
Statuses == {"absent", "queued"} \cup Leased \cup Terminal

\* A step row remembers which attempt wrote it: the code does not store
\* this, it is here to say what a reader of the row is shown.
StepRows == [status : {"absent", "running", "succeeded", "failed"},
             attempt : Nat]

JobRows == [status : Statuses, owner : Workers \cup {None}, lease : 0..Lease,
            attempts : Nat, created : Nat, result : Nat]

PCs == {"down", "idle", "claimed", "ready", "started", "preexec",
        "executing", "launching", "polling", "mirroring", "completing",
        "failing"}

\* What the last heartbeat answered.  The handler throws the answer away: it
\* is kept here to say what the worker could have known.
Beats == {"none", "kept", "lost"}

Memories == [pc : PCs, job : Jobs \cup {None}, attempt : Nat, beat : Beats,
             fatal : BOOLEAN, polls : 0..MaxPolls, gap : 0..PollGap]

IdleMemory == [pc |-> "idle", job |-> None, attempt |-> 0, beat |-> "none",
               fatal |-> FALSE, polls |-> 0, gap |-> 0]

Init ==
    /\ job = [j \in Jobs |->
                [status |-> "absent", owner |-> None, lease |-> 0,
                 attempts |-> 0, created |-> 0, result |-> 0]]
    /\ step = [j \in Jobs |-> [i \in 0..1 |->
                [status |-> "absent", attempt |-> 0]]]
    /\ worker = [w \in Workers |-> IdleMemory]
    /\ crashes = 0

-----------------------------------------------------------------------------
(* The rows the RPCs read and write.                                       *)

\* Fault: the RPCs do not compare worker_id.
OwnsUnfenced(w, j) == job[j].status \in Leased

\* The "where" clause of start_job, heartbeat_job, complete_job and fail_job.
Owns(w, j) == job[j].owner = w /\ job[j].status \in Leased

\* Fault: the lease is not extended.
RenewedNot(row) == row

\* Fault: a new lease is added to what is left of the old one.
RenewedOnTop(row) == [row EXCEPT !.lease = @ + Lease]

\* The lease after start_job or heartbeat_job.
Renewed(row) == [row EXCEPT !.lease = Lease]

\* Fault: the worker is not cleared with the lease.
ReleasedOwned(row, status) == [row EXCEPT !.status = status, !.lease = 0]

\* The row when the lease is given up.
Released(row, status) ==
    [row EXCEPT !.status = status, !.owner = None, !.lease = 0]

\* Fault: one attempt too many.
RetriesLeftOff(j) == job[j].attempts <= MaxAttempts[j]

RetriesLeft(j) == job[j].attempts < MaxAttempts[j]

RecordStep(j, i, status, attempt) ==
    step' = [step EXCEPT ![j][i] = [status |-> status, attempt |-> attempt]]

-----------------------------------------------------------------------------
(* Callers and operators.                                                  *)

Enqueue(j) ==
    /\ job[j].status = "absent"
    /\ job' = [job EXCEPT ![j].status = "queued",
                          ![j].created = Cardinality(
                              {i \in Jobs : job[i].status # "absent"})]
    /\ UNCHANGED <<step, worker, crashes>>

\* Fault: a finished job can be cancelled.
CancelAny(j) ==
    /\ job[j].status # "absent"
    /\ job' = [job EXCEPT ![j] = Released(@, "cancelled")]
    /\ UNCHANGED <<step, worker, crashes>>

Cancel(j) ==
    /\ job[j].status \in {"queued"} \cup Leased
    /\ job' = [job EXCEPT ![j] = Released(@, "cancelled")]
    /\ UNCHANGED <<step, worker, crashes>>

(* The gateway's reaper: one sweep over every lapsed lease.                *)

\* Fault: only running jobs are swept.
StaleRunning == {j \in Jobs : job[j].status = "running" /\ job[j].lease = 0}

Stale == {j \in Jobs : job[j].status \in Leased /\ job[j].lease = 0}

ExpireStaleJobs ==
    /\ Stale # {}
    /\ job' = [j \in Jobs |->
                IF j \in Stale
                THEN Released(job[j], IF RetriesLeft(j) THEN "queued"
                                      ELSE "expired")
                ELSE job[j]]
    /\ UNCHANGED <<step, worker, crashes>>

-----------------------------------------------------------------------------
(* The worker's loop: claim_one, then run_job.                             *)

Goto(w, pc) == worker' = [worker EXCEPT ![w].pc = pc]

Failing(w, fatal) ==
    worker' = [worker EXCEPT ![w].pc = "failing", ![w].fatal = fatal]

Mine(w) == worker[w].job

Eligible(w) ==
    {j \in Jobs : job[j].status = "queued" /\ Kind[j] \in Serves[w]}

Before(i, j) ==
    \/ Priority[i] < Priority[j]
    \/ Priority[i] = Priority[j] /\ job[i].created < job[j].created

ClaimNext(w, j) ==
    /\ worker[w].pc = "idle"
    /\ j \in Eligible(w)
    /\ \A i \in Eligible(w) \ {j} : Before(j, i)
    /\ job' = [job EXCEPT ![j].status = "claimed", ![j].owner = w,
                          ![j].lease = Lease, ![j].attempts = @ + 1]
    /\ worker' = [worker EXCEPT ![w] =
                    [IdleMemory EXCEPT !.pc = "claimed", !.job = j,
                                       !.attempt = job[j].attempts + 1]]
    /\ UNCHANGED <<step, crashes>>

\* After the claim a command is checked against custody.
ValidateClaim(w) ==
    /\ worker[w].pc = "claimed"
    /\ \/ Goto(w, "ready")
       \/ Kind[Mine(w)] = "run_command" /\ Failing(w, TRUE)
    /\ UNCHANGED <<job, step, crashes>>

StartJob(w) ==
    /\ worker[w].pc = "ready"
    /\ \/ /\ Owns(w, Mine(w))
          /\ job' = [job EXCEPT ![Mine(w)] =
                        [Renewed(@) EXCEPT !.status = "running"]]
          /\ Goto(w, "started")
       \/ /\ ~Owns(w, Mine(w))
          /\ worker' = [worker EXCEPT ![w] = IdleMemory]
          /\ UNCHANGED job
    /\ UNCHANGED <<step, crashes>>

\* The check of custody before the handler is called.
DenyExecution(w) ==
    /\ worker[w].pc = "started"
    /\ Kind[Mine(w)] = "run_command"
    /\ Failing(w, TRUE)
    /\ UNCHANGED <<job, step, crashes>>

CallHandler(w) ==
    /\ worker[w].pc = "started"
    /\ RecordStep(Mine(w), 0, "running", worker[w].attempt)
    /\ Goto(w, IF Kind[Mine(w)] = "ingest" THEN "launching" ELSE "preexec")
    /\ UNCHANGED <<job, crashes>>

\* complete_job: without the lease the result is dropped.
CompleteJob(w) ==
    /\ worker[w].pc = "completing"
    /\ job' = IF Owns(w, Mine(w))
              THEN [job EXCEPT ![Mine(w)] =
                      [Released(@, "succeeded") EXCEPT
                          !.result = worker[w].attempt]]
              ELSE job
    /\ worker' = [worker EXCEPT ![w] = IdleMemory]
    /\ UNCHANGED <<step, crashes>>

FailJob(w) ==
    /\ worker[w].pc = "failing"
    /\ job' = IF Owns(w, Mine(w))
              THEN [job EXCEPT ![Mine(w)] = Released(@,
                      IF worker[w].fatal \/ ~RetriesLeft(Mine(w))
                      THEN "failed" ELSE "queued")]
              ELSE job
    /\ worker' = [worker EXCEPT ![w] = IdleMemory]
    /\ UNCHANGED <<step, crashes>>

-----------------------------------------------------------------------------
(* run_command_job_handler.  It never heartbeats.                          *)

\* The checks before dispatch deny the command: step 0 stays "running".
DenyDispatch(w) ==
    /\ worker[w].pc = "preexec"
    /\ Failing(w, TRUE)
    /\ UNCHANGED <<job, step, crashes>>

Dispatch(w) ==
    /\ worker[w].pc = "preexec"
    /\ Goto(w, "executing")
    /\ UNCHANGED <<job, step, crashes>>

\* The command ends; a command that failed is still a result.
CommandEnds(w) ==
    /\ worker[w].pc = "executing"
    /\ \E s \in {"succeeded", "failed"} :
          RecordStep(Mine(w), 0, s, worker[w].attempt)
    /\ Goto(w, "completing")
    /\ UNCHANGED <<job, crashes>>

\* Any other exception of either handler, a failed queue call included.
HandlerRaises(w) ==
    /\ worker[w].pc \in {"started", "preexec", "executing", "launching",
                         "polling", "mirroring"}
    /\ Failing(w, FALSE)
    /\ UNCHANGED <<job, step, crashes>>

-----------------------------------------------------------------------------
(* _run_pipeline_job and _mirror_until_terminal.                           *)

\* _launch runs the ingest entry point in the worker itself, without a
\* heartbeat: it opens the containers and probes the images it finds.
Launch(w) ==
    /\ worker[w].pc = "launching"
    /\ \/ /\ RecordStep(Mine(w), 0, "failed", worker[w].attempt)
          /\ Failing(w, TRUE)
       \/ /\ RecordStep(Mine(w), 0, "succeeded", worker[w].attempt)
          /\ \/ Goto(w, "completing")
             \/ Goto(w, "polling")
    /\ UNCHANGED <<job, crashes>>

\* heartbeat_job, whose answer the loop ignores.
Heartbeat(w) ==
    /\ worker[w].pc = "polling"
    /\ job' = IF Owns(w, Mine(w))
              THEN [job EXCEPT ![Mine(w)] = Renewed(@)] ELSE job
    /\ worker' = [worker EXCEPT
                    ![w].pc = "mirroring", ![w].gap = 0,
                    ![w].beat = IF Owns(w, Mine(w)) THEN "kept" ELSE "lost"]
    /\ UNCHANGED <<step, crashes>>

\* The rest of the loop's body.  record_job_step does not test the owner.
Mirror(w) ==
    /\ worker[w].pc = "mirroring"
    /\ \/ /\ worker[w].polls < MaxPolls
          /\ worker' = [worker EXCEPT ![w].pc = "polling", ![w].polls = @ + 1]
          /\ \/ RecordStep(Mine(w), 1, "running", worker[w].attempt)
             \/ worker[w].polls > 0 /\ UNCHANGED step
       \/ /\ RecordStep(Mine(w), 1, "succeeded", worker[w].attempt)
          /\ Goto(w, "completing")
       \/ /\ RecordStep(Mine(w), 1, "failed", worker[w].attempt)
          /\ Failing(w, TRUE)
    /\ UNCHANGED <<job, crashes>>

-----------------------------------------------------------------------------
(* Crashes and time.                                                       *)

Crash(w) ==
    /\ crashes < MaxCrashes
    /\ worker[w].pc # "down"
    /\ crashes' = crashes + 1
    /\ worker' = [worker EXCEPT ![w] = [IdleMemory EXCEPT !.pc = "down"]]
    /\ UNCHANGED <<job, step>>

Restart(w) ==
    /\ worker[w].pc = "down"
    /\ worker' = [worker EXCEPT ![w] = IdleMemory]
    /\ UNCHANGED <<job, step, crashes>>

\* From its first heartbeat on, the mirror loop calls the queue at least every
\* PollGap ticks: it reads status files and sleeps.  Before, nothing bounds the
\* time between two queue calls: the launch of an ingest probes images with
\* tools that may have no timeout, a command runs as long as it runs, and the
\* custody checks before it may wait for a lock.
OnClock(w) == worker[w].beat # "none"

Tick ==
    /\ \A w \in Workers : OnClock(w) => worker[w].gap < PollGap
    /\ worker' = [w \in Workers |->
                    IF OnClock(w) THEN [worker[w] EXCEPT !.gap = @ + 1]
                    ELSE worker[w]]
    /\ job' = [j \in Jobs |->
                 IF job[j].lease > 0 THEN [job[j] EXCEPT !.lease = @ - 1]
                 ELSE job[j]]
    /\ UNCHANGED <<step, crashes>>

-----------------------------------------------------------------------------
WorkerStep(w) ==
    \/ \E j \in Jobs : ClaimNext(w, j)
    \/ ValidateClaim(w) \/ StartJob(w) \/ DenyExecution(w)
    \/ CallHandler(w) \/ CompleteJob(w) \/ FailJob(w) \/ DenyDispatch(w)
    \/ Dispatch(w) \/ CommandEnds(w) \/ HandlerRaises(w) \/ Launch(w)
    \/ Heartbeat(w) \/ Mirror(w)

Next ==
    \/ \E j \in Jobs : Enqueue(j) \/ Cancel(j)
    \/ \E w \in Workers : WorkerStep(w) \/ Crash(w) \/ Restart(w)
    \/ ExpireStaleJobs
    \/ Tick

Spec == Init /\ [][Next]_vars

\* Workers run and are restarted by systemd, a command ends by its timeout, the
\* tools a launch calls return, the reaper sweeps periodically, and time passes.
Fairness ==
    /\ \A w \in Workers : WF_vars(WorkerStep(w)) /\ WF_vars(Restart(w))
    /\ WF_vars(ExpireStaleJobs)
    /\ WF_vars(Tick)

FairSpec == Spec /\ Fairness
-----------------------------------------------------------------------------
(* What the queue must guarantee.                                          *)

\* Every row and every worker's memory has its type; in particular a lease is
\* never longer than the one a claim or a heartbeat grants.
TypeOK ==
    /\ job \in [Jobs -> JobRows]
    /\ step \in [Jobs -> [0..1 -> StepRows]]
    /\ worker \in [Workers -> Memories]
    /\ crashes \in 0..MaxCrashes

\* jobs_lease_consistency_check, in both directions: exactly the claimed and
\* running jobs have a worker, and only they have time left on a lease.
LeaseConsistent ==
    \A j \in Jobs :
        /\ job[j].status \in Leased <=> job[j].owner # None
        /\ job[j].lease > 0 => job[j].status \in Leased

\* No job is handed out more often than its caller allowed, whatever mix of
\* failures, lapsed leases and crashes it went through, and a job that is put
\* back in the queue may be handed out again.
AttemptsBound ==
    \A j \in Jobs :
        /\ job[j].attempts <= MaxAttempts[j]
        /\ job[j].status = "queued" => job[j].attempts < MaxAttempts[j]

\* The worker id is the queue's only fence.  A worker that still passes the
\* "worker_id = p_worker_id" test holds the newest attempt of the job, also
\* after the job was taken back and handed out again.
WorkerIdFences ==
    \A w \in Workers :
        Mine(w) # None /\ Owns(w, Mine(w)) =>
            worker[w].attempt = job[Mine(w)].attempts

\* The result a caller polls is the one of the last attempt: a worker whose
\* lease lapsed while it ran cannot publish over its successor.
ResultOfLastAttempt ==
    \A j \in Jobs :
        job[j].status = "succeeded" => job[j].result = job[j].attempts

\* A job that ended never changes again: no late complete, fail, sweep or
\* cancel reaches it.
TerminalIsFinal ==
    [][\A j \in Jobs :
          job[j].status \in Terminal => job'[j] = job[j]]_vars

\* "Heartbeats the lease on every poll so a long ingest never loses its
\* claim".  The launch before the loop may outlast the lease, so the claim can
\* be gone at the first heartbeat; but once a heartbeat found it, the worker
\* has it until it ends, and only a cancellation takes the job away.
IngestKeepsClaim ==
    \A w \in Workers :
        worker[w].beat = "kept" => \/ Owns(w, Mine(w))
                                   \/ job[Mine(w)].status = "cancelled"

\* record_job_step has no owner test.  The progress row of an ingest goes back
\* from a newer attempt to an older one only by a worker that its last
\* heartbeat told it had lost the job, and that mirrors on all the same.
ProgressNeverRegresses ==
    [][\A j \in Jobs :
          step'[j][1].attempt < step[j][1].attempt =>
              \E w \in Workers : /\ Mine(w) = j /\ worker[w].beat = "lost"
                                 /\ worker'[w] # worker[w]]_vars

\* The same claim for commands: the worker "takes a lease and heartbeats it
\* while running", so a live worker that runs a command still has its lease.
CommandKeepsClaim ==
    \A w \in Workers :
        worker[w].pc = "executing" =>
            \/ Owns(w, Mine(w))
            \/ job[Mine(w)].status = "cancelled"

\* Every enqueued job ends: crashes, lapsed leases, lost results and retries
\* only delay it.
EveryJobEnds ==
    \A j \in Jobs : (job[j].status # "absent") ~> (job[j].status \in Terminal)

-----------------------------------------------------------------------------
(* The queue implements the lifecycle its callers see.                     *)

LifeOf(row) ==
    IF row.status \in Leased THEN "active"
    ELSE IF row.status = "queued" THEN "waiting" ELSE row.status

Lifecycle == INSTANCE JobLifecycle WITH
    life <- [j \in Jobs |-> LifeOf(job[j])],
    tries <- [j \in Jobs |-> job[j].attempts]

\* Every step of workers, reaper, operators and clock is a step of the
\* lifecycle or invisible to it.
ImplementsLifecycle == Lifecycle!Spec

=============================================================================
