--------------------------- MODULE JobQueueProofs ---------------------------
(***************************************************************************)
(* Proofs about JobQueue, for any number of jobs and workers, any leases   *)
(* and any number of attempts.                                             *)
(***************************************************************************)
EXTENDS JobQueue, FiniteSetTheorems, TLAPS

\* A worker has a job exactly while it is neither idle nor down.  It has the
\* answer of a heartbeat only with a job, and whenever it mirrors.
MemoryOK ==
    \A w \in Workers :
        /\ Mine(w) = None <=> worker[w].pc \in {"idle", "down"}
        /\ worker[w].pc \in {"idle", "down"} => worker[w].beat = "none"
        /\ worker[w].pc = "mirroring" => worker[w].beat # "none"

\* A job that was not submitted has not been handed out.
AbsentIsFresh ==
    \A j \in Jobs : job[j].status = "absent" => job[j].attempts = 0

\* The inductive invariant behind the safety properties.
IInv ==
    /\ TypeOK
    /\ MemoryOK
    /\ AbsentIsFresh
    /\ LeaseConsistent
    /\ AttemptsBound
    /\ WorkerIdFences
    /\ ResultOfLastAttempt

\* The last heartbeat of the worker found its claim.
Kept(w) == worker[w].beat = "kept"

\* Why the job of such a worker is never stale: the ticks since the heartbeat
\* and the ticks left on the lease make up a whole lease.
LeaseCoversGap ==
    \A w \in Workers : Kept(w) =>
        /\ worker[w].attempt = job[Mine(w)].attempts
        /\ \/ job[Mine(w)].status = "cancelled"
           \/ Owns(w, Mine(w)) /\ job[Mine(w)].lease + worker[w].gap >= Lease

\* No progress row names an attempt that has not been handed out yet.
StepsOfPast ==
    \A j \in Jobs, i \in 0..1 : step[j][i].attempt <= job[j].attempts

\* No worker believes in an attempt that has not been handed out yet.
AttemptsOfPast ==
    \A w \in Workers :
        Mine(w) # None => worker[w].attempt <= job[Mine(w)].attempts

\* The inductive invariant behind the properties of ingest jobs.
IngestInv == IInv /\ LeaseCoversGap /\ StepsOfPast /\ AttemptsOfPast

-----------------------------------------------------------------------------
\* Every initial state satisfies the invariant.
LEMMA InitIInv == Init => IInv
  BY NoneAssumption, MaxAttemptsAssumption, LeaseAssumption, BoundsAssumption
     DEF Init, IInv, TypeOK, MemoryOK, AbsentIsFresh, LeaseConsistent,
         AttemptsBound, WorkerIdFences, ResultOfLastAttempt, IdleMemory,
         Mine, Owns, Leased, Statuses, StepRows, JobRows, Memories, PCs,
         Beats

\* What the RPCs do to a row leaves a row.
LEMMA RowUpdates ==
    ASSUME NEW row \in JobRows
    PROVE  /\ \A s \in Statuses : Released(row, s) \in JobRows
           /\ Renewed(row) \in JobRows
           /\ [Renewed(row) EXCEPT !.status = "running"] \in JobRows
           /\ row.lease > 0 => [row EXCEPT !.lease = @ - 1] \in JobRows
           /\ \A a \in Nat :
                [Released(row, "succeeded") EXCEPT !.result = a] \in JobRows
<1>1. \A s \in Statuses : Released(row, s) \in JobRows
  <2>1. 0 \in 0..Lease
    BY LeaseAssumption
  <2>. QED BY <2>1 DEF JobRows, Released
<1>2. Renewed(row) \in JobRows
  BY LeaseAssumption DEF JobRows, Renewed
<1>3. [Renewed(row) EXCEPT !.status = "running"] \in JobRows
  BY <1>2 DEF JobRows, Statuses, Leased
<1>4. row.lease > 0 => [row EXCEPT !.lease = @ - 1] \in JobRows
  BY LeaseAssumption DEF JobRows
<1>5. \A a \in Nat :
        [Released(row, "succeeded") EXCEPT !.result = a] \in JobRows
  BY <1>1 DEF JobRows, Statuses, Terminal
<1>. QED BY <1>1, <1>2, <1>3, <1>4, <1>5

\* The actions of callers, of the reaper and of the clock keep the types.
LEMMA EnvironmentType ==
    ASSUME TypeOK,
           \/ \E j \in Jobs : Enqueue(j) \/ Cancel(j)
           \/ ExpireStaleJobs
           \/ Tick
    PROVE  TypeOK'
<1>1. ASSUME NEW j \in Jobs, Enqueue(j) PROVE TypeOK'
  <2>1. Cardinality({i \in Jobs : job[i].status # "absent"}) \in Nat
    BY JobsAssumption, FS_Subset, FS_CardinalityType
  <2>. QED BY <1>1, <2>1 DEF TypeOK, Enqueue, JobRows, Statuses
<1>2. ASSUME NEW j \in Jobs, Cancel(j) PROVE TypeOK'
  BY <1>2, RowUpdates DEF TypeOK, Cancel, Statuses, Terminal
<1>3. CASE ExpireStaleJobs
  BY <1>3, RowUpdates DEF TypeOK, ExpireStaleJobs, Statuses, Terminal
<1>4. CASE Tick
  <2>1. ASSUME NEW w \in Workers, OnClock(w)
        PROVE [worker[w] EXCEPT !.gap = @ + 1] \in Memories
    <3>1. worker[w] \in Memories /\ worker[w].gap + 1 \in 0..PollGap
      BY <1>4, <2>1, BoundsAssumption DEF TypeOK, Tick, Memories
    <3>. QED BY <3>1 DEF Memories
  <2>. QED BY <1>4, <2>1, RowUpdates DEF TypeOK, Tick
<1>. QED BY <1>1, <1>2, <1>3, <1>4

\* What a worker does to its memory leaves a memory.
LEMMA MemoryUpdates ==
    ASSUME NEW m \in Memories, NEW pc \in PCs
    PROVE  /\ [m EXCEPT !.pc = pc] \in Memories
           /\ \A b \in Beats :
                [m EXCEPT !.pc = pc, !.gap = 0, !.beat = b] \in Memories
           /\ \A f \in BOOLEAN : [m EXCEPT !.pc = pc, !.fatal = f] \in Memories
           /\ m.polls < MaxPolls =>
                [m EXCEPT !.pc = pc, !.polls = @ + 1] \in Memories
           /\ IdleMemory \in Memories
           /\ [IdleMemory EXCEPT !.pc = pc] \in Memories
           /\ \A j \in Jobs, a \in Nat :
                [IdleMemory EXCEPT !.pc = pc, !.job = j, !.attempt = a]
                    \in Memories
<1>. 0 \in 0..PollGap /\ 0 \in 0..MaxPolls
  BY BoundsAssumption
<1>1. [m EXCEPT !.pc = pc] \in Memories
  BY DEF Memories
<1>2. \A b \in Beats :
        [m EXCEPT !.pc = pc, !.gap = 0, !.beat = b] \in Memories
  BY DEF Memories
<1>3. \A f \in BOOLEAN : [m EXCEPT !.pc = pc, !.fatal = f] \in Memories
  BY DEF Memories
<1>5. m.polls < MaxPolls => [m EXCEPT !.pc = pc, !.polls = @ + 1] \in Memories
  <2>1. m.polls < MaxPolls => m.polls + 1 \in 0..MaxPolls
    BY BoundsAssumption DEF Memories
  <2>. QED BY <2>1 DEF Memories
<1>6. IdleMemory \in Memories
  BY DEF Memories, IdleMemory, PCs, Beats
<1>7. [IdleMemory EXCEPT !.pc = pc] \in Memories
  BY DEF Memories, IdleMemory, Beats
<1>8. \A j \in Jobs, a \in Nat :
        [IdleMemory EXCEPT !.pc = pc, !.job = j, !.attempt = a] \in Memories
  BY DEF Memories, IdleMemory, Beats
<1>. QED BY <1>1, <1>2, <1>3, <1>5, <1>6, <1>7, <1>8

\* Writing a progress row leaves progress rows.
LEMMA StepUpdates ==
    ASSUME TypeOK, NEW j \in Jobs, NEW i \in 0..1, NEW a \in Nat,
           NEW s \in {"running", "succeeded", "failed"},
           RecordStep(j, i, s, a)
    PROVE  step' \in [Jobs -> [0..1 -> StepRows]]
<1>1. [status |-> s, attempt |-> a] \in StepRows
  BY DEF StepRows
<1>. QED BY <1>1 DEF TypeOK, RecordStep

\* The steps, the crashes and the restarts of a worker keep the types.
LEMMA WorkerType ==
    ASSUME TypeOK, MemoryOK, NEW w \in Workers,
           WorkerStep(w) \/ Crash(w) \/ Restart(w)
    PROVE  TypeOK'
<1>. DEFINE m == worker[w]
            mine == Mine(w)
<1>m. m \in Memories /\ m.attempt \in Nat /\ m.polls \in 0..MaxPolls
  BY DEF TypeOK, Memories
<1>j. m.pc \notin {"idle", "down"} => mine \in Jobs /\ job[mine] \in JobRows
  BY DEF TypeOK, MemoryOK, Memories, Mine
<1>u. \A j \in Jobs : job[j] \in JobRows
  BY DEF TypeOK
<1>p. PCs = {"down", "idle", "claimed", "ready", "started", "preexec",
             "executing", "launching", "polling", "mirroring", "completing",
             "failing"}
  BY DEF PCs
<1>s. Statuses = {"absent", "queued", "claimed", "running", "succeeded",
                  "failed", "cancelled", "expired"}
  BY DEF Statuses, Leased, Terminal
<1>1. ASSUME NEW j \in Jobs, ClaimNext(w, j) PROVE TypeOK'
  <2>1. [job[j] EXCEPT !.status = "claimed", !.owner = w, !.lease = Lease,
                       !.attempts = @ + 1] \in JobRows
    <3>1. Lease \in 0..Lease
      BY LeaseAssumption
    <3>2. job[j] \in JobRows /\ job[j].attempts + 1 \in Nat
      BY <1>u DEF JobRows
    <3>3. "claimed" \in Statuses
      BY <1>s
    <3>. QED BY <3>1, <3>2, <3>3 DEF JobRows
  <2>2. [IdleMemory EXCEPT !.pc = "claimed", !.job = j,
                           !.attempt = job[j].attempts + 1] \in Memories
    <3>1. job[j].attempts + 1 \in Nat
      BY <1>u DEF JobRows
    <3>2. "claimed" \in PCs
      BY <1>p
    <3>. QED BY <3>1, <3>2, <1>m, MemoryUpdates
  <2>. QED BY <1>1, <2>1, <2>2 DEF TypeOK, ClaimNext
<1>2. CASE ValidateClaim(w)
  BY <1>2, <1>m, <1>p, MemoryUpdates DEF TypeOK, ValidateClaim, Goto, Failing
<1>3. CASE StartJob(w)
  <2>1. worker' \in [Workers -> Memories]
    BY <1>3, <1>m, <1>p, MemoryUpdates DEF TypeOK, StartJob, Goto
  <2>2. job' \in [Jobs -> JobRows]
    BY <1>3, <1>j, RowUpdates DEF TypeOK, StartJob
  <2>. QED BY <1>3, <2>1, <2>2 DEF TypeOK, StartJob
<1>4. CASE DenyExecution(w)
  BY <1>4, <1>m, <1>p, MemoryUpdates DEF TypeOK, DenyExecution, Failing
<1>5. CASE CallHandler(w)
  <2>1. step' \in [Jobs -> [0..1 -> StepRows]]
    BY <1>5, <1>m, <1>j, StepUpdates DEF CallHandler
  <2>. QED BY <1>5, <2>1, <1>m, <1>p, MemoryUpdates
           DEF TypeOK, CallHandler, Goto
<1>6. CASE CompleteJob(w)
  <2>1. worker' \in [Workers -> Memories]
    BY <1>6, <1>m, <1>p, MemoryUpdates DEF TypeOK, CompleteJob
  <2>2. job' \in [Jobs -> JobRows]
    BY <1>6, <1>m, <1>j, RowUpdates DEF TypeOK, CompleteJob
  <2>. QED BY <1>6, <2>1, <2>2 DEF TypeOK, CompleteJob
<1>7. CASE FailJob(w)
  <2>1. worker' \in [Workers -> Memories]
    BY <1>7, <1>m, <1>p, MemoryUpdates DEF TypeOK, FailJob
  <2>2. Released(job[mine], IF m.fatal \/ ~RetriesLeft(mine)
                            THEN "failed" ELSE "queued") \in JobRows
    BY <1>7, <1>j, <1>s, RowUpdates DEF FailJob
  <2>3. job' \in [Jobs -> JobRows]
    BY <1>7, <2>2 DEF TypeOK, FailJob
  <2>. QED BY <1>7, <2>1, <2>3 DEF TypeOK, FailJob
<1>8. CASE DenyDispatch(w)
  BY <1>8, <1>m, <1>p, MemoryUpdates DEF TypeOK, DenyDispatch, Failing
<1>9. CASE Dispatch(w)
  BY <1>9, <1>m, <1>p, MemoryUpdates DEF TypeOK, Dispatch, Goto
<1>10. CASE CommandEnds(w)
  <2>1. step' \in [Jobs -> [0..1 -> StepRows]]
    BY <1>10, <1>m, <1>j, StepUpdates DEF CommandEnds
  <2>. QED BY <1>10, <2>1, <1>m, <1>p, MemoryUpdates
           DEF TypeOK, CommandEnds, Goto
<1>11. CASE HandlerRaises(w)
  BY <1>11, <1>m, <1>p, MemoryUpdates DEF TypeOK, HandlerRaises, Failing
<1>12. CASE Launch(w)
  <2>1. step' \in [Jobs -> [0..1 -> StepRows]]
    <3>1. \/ RecordStep(mine, 0, "failed", m.attempt)
          \/ RecordStep(mine, 0, "succeeded", m.attempt)
      BY <1>12 DEF Launch
    <3>2. mine \in Jobs
      BY <1>12, <1>j DEF Launch
    <3>. QED BY <3>1, <3>2, <1>m, StepUpdates
  <2>. QED BY <1>12, <2>1, <1>m, <1>p, MemoryUpdates
           DEF TypeOK, Launch, Goto, Failing
<1>13. CASE Heartbeat(w)
  <2>1. job' \in [Jobs -> JobRows]
    BY <1>13, <1>j, RowUpdates DEF TypeOK, Heartbeat
  <2>2. \A b \in Beats :
          [m EXCEPT !.pc = "mirroring", !.gap = 0, !.beat = b] \in Memories
    BY <1>m, <1>p, MemoryUpdates
  <2>3. worker' \in [Workers -> Memories]
    BY <1>13, <2>2 DEF TypeOK, Heartbeat, Beats
  <2>. QED BY <1>13, <2>1, <2>3 DEF TypeOK, Heartbeat
<1>16. CASE Mirror(w)
  <2>1. step' \in [Jobs -> [0..1 -> StepRows]]
    <3>1. \/ step' = step
          \/ \E s \in {"running", "succeeded", "failed"} :
                RecordStep(mine, 1, s, m.attempt)
      BY <1>16 DEF Mirror
    <3>2. mine \in Jobs /\ 1 \in 0..1
      BY <1>16, <1>j DEF Mirror
    <3>. QED BY <3>1, <3>2, <1>m, StepUpdates DEF TypeOK
  <2>2. worker' \in [Workers -> Memories]
    BY <1>16, <1>m, <1>p, MemoryUpdates DEF TypeOK, Mirror, Goto, Failing
  <2>. QED BY <1>16, <2>1, <2>2 DEF TypeOK, Mirror
<1>14. CASE Crash(w)
  <2>1. crashes + 1 \in 0..MaxCrashes
    BY <1>14, BoundsAssumption DEF TypeOK, Crash
  <2>. QED BY <1>14, <2>1, <1>m, <1>p, MemoryUpdates DEF TypeOK, Crash
<1>15. CASE Restart(w)
  BY <1>15, <1>m, <1>p, MemoryUpdates DEF TypeOK, Restart
<1>. QED
  BY <1>1, <1>2, <1>3, <1>4, <1>5, <1>6, <1>7, <1>8, <1>9, <1>10, <1>11,
     <1>12, <1>13, <1>14, <1>15, <1>16 DEF WorkerStep

-----------------------------------------------------------------------------
\* A step that leaves the jobs alone and after which every worker has the same
\* job, attempt, answer and clock as before.
Quiet ==
    /\ job' = job
    /\ \A v \in Workers :
          /\ worker'[v].job = worker[v].job
          /\ worker'[v].attempt = worker[v].attempt
          /\ worker'[v].gap = worker[v].gap
          /\ worker'[v].beat = worker[v].beat
          /\ worker'[v].pc \in {"idle", "down"} <=>
                worker[v].pc \in {"idle", "down"}
          /\ worker'[v].pc = "mirroring" => worker[v].pc = "mirroring"

\* The steps of a worker between the claim and the report, heartbeats apart,
\* are quiet.
LEMMA QuietActions ==
    ASSUME TypeOK, NEW w \in Workers,
           \/ ValidateClaim(w) \/ DenyExecution(w) \/ CallHandler(w)
           \/ DenyDispatch(w) \/ Dispatch(w) \/ CommandEnds(w)
           \/ HandlerRaises(w) \/ Launch(w) \/ Mirror(w)
    PROVE  Quiet
<1>1. worker \in [Workers -> Memories] /\ worker[w] \in Memories
  BY DEF TypeOK
<1>2. job' = job
  BY DEF ValidateClaim, DenyExecution, CallHandler, DenyDispatch, Dispatch,
         CommandEnds, HandlerRaises, Launch, Mirror
<1>3. worker[w].pc \notin {"idle", "down"}
  BY DEF ValidateClaim, DenyExecution, CallHandler, DenyDispatch, Dispatch,
         CommandEnds, HandlerRaises, Launch, Mirror
<1>. DEFINE next == PCs \ {"idle", "down", "mirroring"}
<1>4. \/ \E f \in BOOLEAN : Failing(w, f)
      \/ \E pc \in next : Goto(w, pc)
      \/ worker' = [worker EXCEPT ![w].pc = "polling", ![w].polls = @ + 1]
  BY DEF ValidateClaim, DenyExecution, CallHandler, DenyDispatch, Dispatch,
         CommandEnds, HandlerRaises, Launch, Mirror, PCs
<1>5. CASE \E f \in BOOLEAN : Failing(w, f)
  BY <1>1, <1>2, <1>3, <1>5 DEF Failing, Quiet, Memories
<1>6. CASE \E pc \in next : Goto(w, pc)
  BY <1>1, <1>2, <1>3, <1>6 DEF Goto, Quiet, Memories
<1>7. CASE worker' = [worker EXCEPT ![w].pc = "polling", ![w].polls = @ + 1]
  BY <1>1, <1>2, <1>3, <1>7 DEF Quiet, Memories
<1>. QED BY <1>4, <1>5, <1>6, <1>7

\* A quiet step keeps the parts of the invariant, which it cannot see.
LEMMA QuietKeeps ==
    ASSUME IInv, Quiet
    PROVE  /\ MemoryOK' /\ AbsentIsFresh' /\ LeaseConsistent'
           /\ AttemptsBound' /\ WorkerIdFences' /\ ResultOfLastAttempt'
  BY DEF IInv, Quiet, MemoryOK, AbsentIsFresh, LeaseConsistent, AttemptsBound,
         WorkerIdFences, ResultOfLastAttempt, Mine, Owns

\* Callers, the reaper and the clock keep the invariant.
LEMMA EnvironmentIInv ==
    ASSUME IInv,
           \/ \E j \in Jobs : Enqueue(j) \/ Cancel(j)
           \/ ExpireStaleJobs
           \/ Tick
    PROVE  IInv'
<1>t. TypeOK'
  BY EnvironmentType DEF IInv
<1>r. job \in [Jobs -> JobRows] /\ worker \in [Workers -> Memories]
  BY DEF IInv, TypeOK
<1>1. ASSUME NEW j \in Jobs, Enqueue(j) PROVE IInv'
  <2>1. worker' = worker /\ job[j].status = "absent"
    BY <1>1 DEF Enqueue
  <2>2. \A i \in Jobs : i # j => job'[i] = job[i]
    BY <1>1, <1>r DEF Enqueue
  <2>3. /\ job'[j].status = "queued" /\ job'[j].owner = job[j].owner
        /\ job'[j].lease = job[j].lease /\ job'[j].attempts = job[j].attempts
    BY <1>1, <1>r DEF Enqueue, JobRows
  <2>4. MemoryOK'
    BY <2>1 DEF IInv, MemoryOK, Mine
  <2>5. AbsentIsFresh' /\ ResultOfLastAttempt'
    BY <2>2, <2>3 DEF IInv, AbsentIsFresh, ResultOfLastAttempt
  <2>6. LeaseConsistent'
    BY <2>1, <2>2, <2>3 DEF IInv, LeaseConsistent, Leased
  <2>7. AttemptsBound'
    BY <2>1, <2>2, <2>3, MaxAttemptsAssumption
       DEF IInv, AttemptsBound, AbsentIsFresh
  <2>8. WorkerIdFences'
    BY <2>1, <2>2, <2>3, <1>r
       DEF IInv, WorkerIdFences, Owns, Mine, Leased, Memories
  <2>. QED BY <1>t, <2>4, <2>5, <2>6, <2>7, <2>8 DEF IInv
<1>2. ASSUME NEW j \in Jobs, Cancel(j) PROVE IInv'
  <2>1. worker' = worker
    BY <1>2 DEF Cancel
  <2>2. \A i \in Jobs : i # j => job'[i] = job[i]
    BY <1>2, <1>r DEF Cancel
  <2>3. /\ job'[j].status = "cancelled" /\ job'[j].owner = None
        /\ job'[j].lease = 0 /\ job'[j].attempts = job[j].attempts
    BY <1>2, <1>r DEF Cancel, Released, JobRows
  <2>4. MemoryOK'
    BY <2>1 DEF IInv, MemoryOK, Mine
  <2>5. AbsentIsFresh' /\ ResultOfLastAttempt' /\ AttemptsBound'
    BY <2>2, <2>3 DEF IInv, AbsentIsFresh, ResultOfLastAttempt, AttemptsBound
  <2>6. LeaseConsistent'
    BY <2>2, <2>3 DEF IInv, LeaseConsistent, Leased
  <2>7. WorkerIdFences'
    BY <2>1, <2>2, <2>3, <1>r
       DEF IInv, WorkerIdFences, Owns, Mine, Leased, Memories
  <2>. QED BY <1>t, <2>4, <2>5, <2>6, <2>7 DEF IInv
<1>3. CASE ExpireStaleJobs
  <2>1. worker' = worker
    BY <1>3 DEF ExpireStaleJobs
  <2>2. \A i \in Jobs : i \notin Stale => job'[i] = job[i]
    BY <1>3 DEF ExpireStaleJobs
  <2>3. \A i \in Stale :
          /\ job'[i].status = IF RetriesLeft(i) THEN "queued" ELSE "expired"
          /\ job'[i].owner = None /\ job'[i].lease = 0
          /\ job'[i].attempts = job[i].attempts
    BY <1>3, <1>r DEF ExpireStaleJobs, Stale, Released, JobRows
  <2>4. MemoryOK'
    BY <2>1 DEF IInv, MemoryOK, Mine
  <2>5. AbsentIsFresh' /\ ResultOfLastAttempt'
    BY <2>2, <2>3 DEF IInv, AbsentIsFresh, ResultOfLastAttempt
  <2>6. LeaseConsistent'
    BY <2>2, <2>3 DEF IInv, LeaseConsistent, Leased
  <2>7. AttemptsBound'
    BY <2>2, <2>3 DEF IInv, AttemptsBound, RetriesLeft
  <2>8. WorkerIdFences'
    BY <2>1, <2>2, <2>3, <1>r
       DEF IInv, WorkerIdFences, Owns, Mine, Leased, Memories
  <2>. QED BY <1>t, <2>4, <2>5, <2>6, <2>7, <2>8 DEF IInv
<1>4. CASE Tick
  <2>1. \A v \in Workers : /\ worker'[v].job = worker[v].job
                           /\ worker'[v].pc = worker[v].pc
                           /\ worker'[v].attempt = worker[v].attempt
                           /\ worker'[v].beat = worker[v].beat
    BY <1>4, <1>r DEF Tick, Memories
  <2>2. \A i \in Jobs : /\ job'[i].status = job[i].status
                        /\ job'[i].owner = job[i].owner
                        /\ job'[i].attempts = job[i].attempts
                        /\ job'[i].result = job[i].result
                        /\ job'[i].lease > 0 => job[i].lease > 0
    BY <1>4, <1>r DEF Tick, JobRows
  <2>3. MemoryOK'
    BY <2>1 DEF IInv, MemoryOK, Mine
  <2>4. AbsentIsFresh' /\ ResultOfLastAttempt' /\ AttemptsBound'
    BY <2>2 DEF IInv, AbsentIsFresh, ResultOfLastAttempt, AttemptsBound
  <2>5. LeaseConsistent'
    BY <2>2 DEF IInv, LeaseConsistent
  <2>6. WorkerIdFences'
    BY <2>1, <2>2, <1>r DEF IInv, WorkerIdFences, Owns, Mine, Memories
  <2>. QED BY <1>t, <2>3, <2>4, <2>5, <2>6 DEF IInv
<1>. QED BY <1>1, <1>2, <1>3, <1>4

\* The steps, the crashes and the restarts of a worker keep the invariant.
LEMMA WorkerIInv ==
    ASSUME IInv, NEW w \in Workers,
           WorkerStep(w) \/ Crash(w) \/ Restart(w)
    PROVE  IInv'
<1>. DEFINE mine == Mine(w)
<1>t. TypeOK'
  BY WorkerType DEF IInv
<1>r. job \in [Jobs -> JobRows] /\ worker \in [Workers -> Memories]
  BY DEF IInv, TypeOK
<1>j. worker[w].pc \notin {"idle", "down"} => mine \in Jobs
  BY <1>r DEF IInv, MemoryOK, Memories, Mine
<1>1. ASSUME NEW j \in Jobs, ClaimNext(w, j) PROVE IInv'
  <2>1. \A i \in Jobs : i # j => job'[i] = job[i]
    BY <1>1, <1>r DEF ClaimNext
  <2>2. /\ job[j].status = "queued"
        /\ job'[j].status = "claimed" /\ job'[j].owner = w
        /\ job'[j].attempts = job[j].attempts + 1
    BY <1>1, <1>r DEF ClaimNext, JobRows, Eligible
  <2>3. /\ worker'[w].job = j /\ worker'[w].attempt = job[j].attempts + 1
        /\ worker'[w].pc = "claimed" /\ worker'[w].beat = "none"
        /\ \A v \in Workers : v # w => worker'[v] = worker[v]
    BY <1>1, <1>r DEF ClaimNext, IdleMemory, Memories
  <2>4. MemoryOK'
    BY <2>3, NoneAssumption DEF IInv, MemoryOK, Mine
  <2>5. AbsentIsFresh' /\ ResultOfLastAttempt'
    BY <2>1, <2>2 DEF IInv, AbsentIsFresh, ResultOfLastAttempt
  <2>6. LeaseConsistent'
    BY <2>1, <2>2, NoneAssumption DEF IInv, LeaseConsistent, Leased
  <2>7. AttemptsBound'
    <3>1. job[j].attempts \in Nat /\ MaxAttempts[j] \in Nat
      BY <1>r, MaxAttemptsAssumption DEF JobRows
    <3>. QED BY <2>1, <2>2, <3>1 DEF IInv, AttemptsBound
  <2>8. WorkerIdFences'
    BY <2>1, <2>2, <2>3, <1>r
       DEF IInv, WorkerIdFences, Owns, Mine, Memories
  <2>. QED BY <1>t, <2>4, <2>5, <2>6, <2>7, <2>8 DEF IInv
<1>2. ASSUME \/ ValidateClaim(w) \/ DenyExecution(w) \/ CallHandler(w)
             \/ DenyDispatch(w) \/ Dispatch(w) \/ CommandEnds(w)
             \/ HandlerRaises(w) \/ Launch(w) \/ Mirror(w)
      PROVE  IInv'
  <2>1. Quiet
    BY <1>2, QuietActions DEF IInv
  <2>. QED BY <1>t, <2>1, QuietKeeps DEF IInv
\* A lease that is renewed, by start_job or by a heartbeat.
<1>3. ASSUME mine \in Jobs, Owns(w, mine),
             \/ job' = [job EXCEPT ![mine] = Renewed(@)]
             \/ job' = [job EXCEPT ![mine] =
                          [Renewed(@) EXCEPT !.status = "running"]],
             \A v \in Workers : /\ worker'[v].job = worker[v].job
                                /\ worker'[v].attempt = worker[v].attempt,
             MemoryOK'
      PROVE  IInv'
  <2>1. \A i \in Jobs : i # mine => job'[i] = job[i]
    BY <1>3, <1>r
  <2>2. /\ job[mine].status \in Leased /\ job'[mine].status \in Leased
        /\ job'[mine].owner = w /\ job[mine].owner = w
        /\ job'[mine].attempts = job[mine].attempts
    BY <1>3, <1>r DEF Owns, Renewed, Leased, JobRows
  <2>3. AbsentIsFresh' /\ ResultOfLastAttempt' /\ AttemptsBound'
    BY <2>1, <2>2
       DEF IInv, AbsentIsFresh, ResultOfLastAttempt, AttemptsBound, Leased
  <2>4. LeaseConsistent'
    BY <2>1, <2>2, NoneAssumption DEF IInv, LeaseConsistent, Leased
  <2>5. WorkerIdFences'
    BY <2>1, <2>2, <1>3, <1>r
       DEF IInv, WorkerIdFences, Owns, Mine, Memories
  <2>. QED BY <1>t, <1>3, <2>3, <2>4, <2>5 DEF IInv
\* A step after which the worker has no job and the jobs are unchanged.
<1>4. ASSUME job' = job,
             \/ worker' = [worker EXCEPT ![w] = IdleMemory]
             \/ worker' = [worker EXCEPT ![w] =
                              [IdleMemory EXCEPT !.pc = "down"]]
      PROVE  IInv'
  <2>1. \A v \in Workers : v # w => worker'[v] = worker[v]
    BY <1>4, <1>r
  <2>2. /\ worker'[w].job = None /\ worker'[w].pc \in {"idle", "down"}
        /\ worker'[w].beat = "none"
    BY <1>4, <1>r DEF IdleMemory
  <2>5. MemoryOK'
    BY <2>1, <2>2 DEF IInv, MemoryOK, Mine
  <2>3. WorkerIdFences'
    BY <1>4, <2>1, <2>2 DEF IInv, WorkerIdFences, Owns, Mine
  <2>4. LeaseConsistent' /\ AbsentIsFresh' /\ ResultOfLastAttempt'
        /\ AttemptsBound'
    BY <1>4 DEF IInv, LeaseConsistent, AbsentIsFresh, ResultOfLastAttempt,
                AttemptsBound
  <2>. QED BY <1>t, <2>3, <2>4, <2>5 DEF IInv
\* A report by the owner: the job gives up its lease.
<1>5. ASSUME mine \in Jobs, Owns(w, mine),
             worker' = [worker EXCEPT ![w] = IdleMemory],
             \A i \in Jobs : i # mine => job'[i] = job[i],
             /\ job'[mine].owner = None /\ job'[mine].lease = 0
             /\ job'[mine].attempts = job[mine].attempts,
             \/ job'[mine].status = "succeeded"
                /\ job'[mine].result = worker[w].attempt
             \/ job'[mine].status = "queued" /\ RetriesLeft(mine)
             \/ job'[mine].status = "failed"
      PROVE  IInv'
  <2>1. \A v \in Workers : v # w => worker'[v] = worker[v]
    BY <1>5, <1>r
  <2>2. /\ worker'[w].job = None /\ worker'[w].pc = "idle"
        /\ worker'[w].beat = "none"
    BY <1>5, <1>r DEF IdleMemory
  <2>8. MemoryOK'
    BY <2>1, <2>2 DEF IInv, MemoryOK, Mine
  <2>3. worker[w].attempt = job[mine].attempts
    BY <1>5, NoneAssumption DEF IInv, WorkerIdFences
  <2>4. WorkerIdFences'
    BY <1>5, <2>1, <2>2, <1>r
       DEF IInv, WorkerIdFences, Owns, Mine, Memories, Leased
  <2>5. LeaseConsistent'
    BY <1>5 DEF IInv, LeaseConsistent, Leased
  <2>6. AbsentIsFresh' /\ ResultOfLastAttempt'
    BY <1>5, <2>3 DEF IInv, AbsentIsFresh, ResultOfLastAttempt
  <2>7. AttemptsBound'
    BY <1>5 DEF IInv, AttemptsBound, RetriesLeft
  <2>. QED BY <1>t, <2>4, <2>5, <2>6, <2>7, <2>8 DEF IInv
<1>6. CASE StartJob(w)
  <2>1. mine \in Jobs
    BY <1>6, <1>j DEF StartJob
  <2>2. CASE ~Owns(w, mine)
    BY <1>6, <2>2, <1>4 DEF StartJob
  <2>3. CASE Owns(w, mine)
    <3>1. /\ worker' = [worker EXCEPT ![w].pc = "started"]
          /\ worker[w].pc = "ready"
          /\ job' = [job EXCEPT ![mine] =
                        [Renewed(@) EXCEPT !.status = "running"]]
      BY <1>6, <2>3 DEF StartJob, Goto
    <3>2. \A v \in Workers : /\ worker'[v].job = worker[v].job
                             /\ worker'[v].attempt = worker[v].attempt
      BY <3>1, <1>r DEF Memories
    <3>3. MemoryOK'
      BY <3>1, <1>r DEF IInv, MemoryOK, Mine, Memories
    <3>. QED BY <2>1, <2>3, <3>1, <3>2, <3>3, <1>3
  <2>. QED BY <2>2, <2>3
<1>7. CASE Heartbeat(w)
  <2>1. mine \in Jobs /\ worker[w].pc = "polling"
    BY <1>7, <1>j DEF Heartbeat
  <2>2. \A v \in Workers : /\ worker'[v].job = worker[v].job
                           /\ worker'[v].attempt = worker[v].attempt
    BY <1>7, <1>r DEF Heartbeat, Memories
  <2>6. /\ \A v \in Workers : v # w => worker'[v] = worker[v]
        /\ worker'[w].pc = "mirroring" /\ worker'[w].beat # "none"
    BY <1>7, <1>r DEF Heartbeat, Memories
  <2>3. MemoryOK'
    BY <2>1, <2>2, <2>6 DEF IInv, MemoryOK, Mine
  <2>4. CASE Owns(w, mine)
    <3>1. job' = [job EXCEPT ![mine] = Renewed(@)]
      BY <1>7, <2>4 DEF Heartbeat
    <3>. QED BY <2>1, <2>2, <2>3, <2>4, <3>1, <1>3
  <2>5. CASE ~Owns(w, mine)
    <3>1. job' = job
      BY <1>7, <2>5 DEF Heartbeat
    <3>2. WorkerIdFences'
      BY <2>2, <3>1 DEF IInv, WorkerIdFences, Owns, Mine
    <3>3. LeaseConsistent' /\ AbsentIsFresh' /\ ResultOfLastAttempt'
          /\ AttemptsBound'
      BY <3>1 DEF IInv, LeaseConsistent, AbsentIsFresh, ResultOfLastAttempt,
                  AttemptsBound
    <3>. QED BY <1>t, <2>3, <3>2, <3>3 DEF IInv
  <2>. QED BY <2>4, <2>5
<1>8. CASE CompleteJob(w)
  <2>1. mine \in Jobs
    BY <1>8, <1>j DEF CompleteJob
  <2>2. CASE ~Owns(w, mine)
    BY <1>8, <2>2, <1>4 DEF CompleteJob
  <2>3. CASE Owns(w, mine)
    <3>1. /\ worker' = [worker EXCEPT ![w] = IdleMemory]
          /\ job' = [job EXCEPT ![mine] =
                [Released(@, "succeeded") EXCEPT !.result = worker[w].attempt]]
      BY <1>8, <2>3 DEF CompleteJob
    <3>2. \A i \in Jobs : i # mine => job'[i] = job[i]
      BY <3>1, <1>r
    <3>3. /\ job'[mine].owner = None /\ job'[mine].lease = 0
          /\ job'[mine].attempts = job[mine].attempts
          /\ job'[mine].status = "succeeded"
          /\ job'[mine].result = worker[w].attempt
      BY <2>1, <3>1, <1>r DEF Released, JobRows
    <3>. QED BY <2>1, <2>3, <3>1, <3>2, <3>3, <1>5
  <2>. QED BY <2>2, <2>3
<1>9. CASE FailJob(w)
  <2>1. mine \in Jobs
    BY <1>9, <1>j DEF FailJob
  <2>2. CASE ~Owns(w, mine)
    BY <1>9, <2>2, <1>4 DEF FailJob
  <2>3. CASE Owns(w, mine)
    <3>. DEFINE s == IF worker[w].fatal \/ ~RetriesLeft(mine)
                     THEN "failed" ELSE "queued"
    <3>1. /\ worker' = [worker EXCEPT ![w] = IdleMemory]
          /\ job' = [job EXCEPT ![mine] = Released(@, s)]
      BY <1>9, <2>3 DEF FailJob
    <3>2. \A i \in Jobs : i # mine => job'[i] = job[i]
      BY <3>1, <1>r
    <3>3. /\ job'[mine].owner = None /\ job'[mine].lease = 0
          /\ job'[mine].attempts = job[mine].attempts
          /\ job'[mine].status = s
      BY <2>1, <3>1, <1>r DEF Released, JobRows
    <3>. QED BY <2>1, <2>3, <3>1, <3>2, <3>3, <1>5
  <2>. QED BY <2>2, <2>3
<1>10. CASE Crash(w)
  BY <1>10, <1>4 DEF Crash
<1>11. CASE Restart(w)
  BY <1>11, <1>4 DEF Restart
<1>. QED BY <1>1, <1>2, <1>6, <1>7, <1>8, <1>9, <1>10, <1>11 DEF WorkerStep

\* The invariant is inductive.
LEMMA NextIInv == IInv /\ [Next]_vars => IInv'
<1>. SUFFICES ASSUME IInv, [Next]_vars PROVE IInv'
  OBVIOUS
<1>1. CASE UNCHANGED vars
  BY <1>1 DEF vars, IInv, TypeOK, MemoryOK, AbsentIsFresh, LeaseConsistent,
              AttemptsBound, WorkerIdFences, ResultOfLastAttempt, Mine, Owns
<1>2. CASE Next
  BY <1>2, EnvironmentIInv, WorkerIInv DEF Next
<1>. QED BY <1>1, <1>2

\* In every reachable state the inductive invariant holds.
THEOREM Invariance == Spec => []IInv
  BY InitIInv, NextIInv, PTL DEF Spec

\* The tables and the memories of the workers hold what their types say.
THEOREM TypeCorrect == Spec => []TypeOK
<1>1. IInv => TypeOK
  BY DEF IInv
<1>. QED BY <1>1, Invariance, PTL

\* The constraint jobs_lease_consistency_check is never tripped, and a job that
\* lost its lease has lost its worker too.
THEOREM LeasesConsistent == Spec => []LeaseConsistent
<1>1. IInv => LeaseConsistent
  BY DEF IInv
<1>. QED BY <1>1, Invariance, PTL

\* A job is never handed out more often than max_attempts allows.
THEOREM AttemptsBounded == Spec => []AttemptsBound
<1>1. IInv => AttemptsBound
  BY DEF IInv
<1>. QED BY <1>1, Invariance, PTL

\* worker_id alone fences off every attempt but the newest.
THEOREM Fenced == Spec => []WorkerIdFences
<1>1. IInv => WorkerIdFences
  BY DEF IInv
<1>. QED BY <1>1, Invariance, PTL

\* complete_job stores the result of the last attempt only.
THEOREM LastResultWins == Spec => []ResultOfLastAttempt
<1>1. IInv => ResultOfLastAttempt
  BY DEF IInv
<1>. QED BY <1>1, Invariance, PTL

-----------------------------------------------------------------------------
\* No step changes a job that ended.
LEMMA TerminalStep ==
    ASSUME IInv, Next, NEW j \in Jobs, job[j].status \in Terminal
    PROVE  job'[j] = job[j]
<1>r. job \in [Jobs -> JobRows] /\ worker \in [Workers -> Memories]
  BY DEF IInv, TypeOK
<1>1. ASSUME NEW i \in Jobs, Enqueue(i) \/ Cancel(i) PROVE job'[j] = job[j]
  BY <1>1, <1>r DEF Enqueue, Cancel, Terminal, Leased
<1>2. CASE ExpireStaleJobs
  BY <1>2 DEF ExpireStaleJobs, Stale, Terminal, Leased
<1>3. CASE Tick
  BY <1>3 DEF Tick, IInv, LeaseConsistent, Terminal, Leased
<1>4. ASSUME NEW w \in Workers, WorkerStep(w) \/ Crash(w) \/ Restart(w)
      PROVE  job'[j] = job[j]
  <2>1. Owns(w, Mine(w)) => Mine(w) # j
    BY DEF Owns, Leased, Terminal
  <2>2. ASSUME NEW i \in Jobs, ClaimNext(w, i) PROVE job'[j] = job[j]
    BY <2>2, <1>r DEF ClaimNext, Eligible, Terminal
  <2>3. CASE StartJob(w)
    BY <2>3, <2>1, <1>r DEF StartJob
  <2>4. CASE CompleteJob(w)
    BY <2>4, <2>1, <1>r DEF CompleteJob
  <2>5. CASE FailJob(w)
    BY <2>5, <2>1, <1>r DEF FailJob
  <2>6. CASE Heartbeat(w)
    BY <2>6, <2>1, <1>r DEF Heartbeat
  <2>7. CASE \/ ValidateClaim(w) \/ DenyExecution(w) \/ CallHandler(w)
             \/ DenyDispatch(w) \/ Dispatch(w) \/ CommandEnds(w)
             \/ HandlerRaises(w) \/ Launch(w) \/ Mirror(w)
    BY <2>7, QuietActions DEF Quiet, IInv
  <2>8. CASE Crash(w) \/ Restart(w)
    BY <2>8 DEF Crash, Restart
  <2>. QED BY <1>4, <2>2, <2>3, <2>4, <2>5, <2>6, <2>7, <2>8 DEF WorkerStep
<1>. QED BY <1>1, <1>2, <1>3, <1>4 DEF Next

\* Nothing reaches a job that ended: no late report, sweep or cancellation.
THEOREM EndedStaysEnded == Spec => TerminalIsFinal
<1>1. IInv /\ [Next]_vars =>
        [\A j \in Jobs : job[j].status \in Terminal => job'[j] = job[j]]_vars
  BY TerminalStep
<1>. QED BY <1>1, Invariance, PTL DEF Spec, TerminalIsFinal

-----------------------------------------------------------------------------
(* Ingest jobs: the argument needs a mirror loop that is timely.           *)

Timely == PollGap < Lease

\* What a step does to the attempts and to the progress rows: attempts only
\* grow, and a row is written with the attempt its writer remembers.
LEMMA AttemptsGrow ==
    ASSUME IInv, Next
    PROVE  \A j \in Jobs : job'[j].attempts >= job[j].attempts
<1>r. job \in [Jobs -> JobRows] /\ worker \in [Workers -> Memories]
  BY DEF IInv, TypeOK
<1>n. \A j \in Jobs : job[j].attempts \in Nat
  BY <1>r DEF JobRows
<1>1. ASSUME NEW i \in Jobs, Enqueue(i) \/ Cancel(i)
      PROVE  \A j \in Jobs : job'[j].attempts = job[j].attempts
  <2>1. CASE Enqueue(i)
    BY <2>1, <1>r DEF Enqueue, JobRows
  <2>2. CASE Cancel(i)
    BY <2>2, <1>r DEF Cancel, Released, JobRows
  <2>. QED BY <1>1, <2>1, <2>2
<1>2. CASE ExpireStaleJobs
  <2>1. \A j \in Jobs : job'[j].attempts = job[j].attempts
    BY <1>2, <1>r DEF ExpireStaleJobs, Released, JobRows
  <2>. QED BY <2>1, <1>n
<1>3. CASE Tick
  <2>1. \A j \in Jobs : job'[j].attempts = job[j].attempts
    BY <1>3, <1>r DEF Tick, JobRows
  <2>. QED BY <2>1, <1>n
<1>4. ASSUME NEW w \in Workers, NEW i \in Jobs, ClaimNext(w, i)
      PROVE  \A j \in Jobs : job'[j].attempts >= job[j].attempts
  <2>1. \A j \in Jobs : \/ job'[j].attempts = job[j].attempts
                        \/ job'[j].attempts = job[j].attempts + 1
    BY <1>4, <1>r DEF ClaimNext, JobRows
  <2>. QED BY <2>1, <1>n
<1>5. ASSUME NEW w \in Workers,
             StartJob(w) \/ CompleteJob(w) \/ FailJob(w) \/ Heartbeat(w)
      PROVE  \A j \in Jobs : job'[j].attempts = job[j].attempts
  <2>1. CASE StartJob(w)
    <3>1. \/ job' = job
          \/ job' = [job EXCEPT ![Mine(w)] =
                       [Renewed(@) EXCEPT !.status = "running"]]
      BY <2>1 DEF StartJob
    <3>2. \A row \in JobRows :
            [Renewed(row) EXCEPT !.status = "running"].attempts = row.attempts
      BY DEF Renewed, JobRows
    <3>. QED BY <3>1, <3>2, <1>r
  <2>2. CASE CompleteJob(w)
    BY <2>2, <1>r DEF CompleteJob, Released, JobRows
  <2>3. CASE FailJob(w)
    BY <2>3, <1>r DEF FailJob, Released, JobRows
  <2>4. CASE Heartbeat(w)
    BY <2>4, <1>r DEF Heartbeat, Renewed, JobRows
  <2>. QED BY <1>5, <2>1, <2>2, <2>3, <2>4
<1>6. ASSUME NEW w \in Workers,
             \/ ValidateClaim(w) \/ DenyExecution(w) \/ CallHandler(w)
             \/ DenyDispatch(w) \/ Dispatch(w) \/ CommandEnds(w)
             \/ HandlerRaises(w) \/ Launch(w) \/ Mirror(w) \/ Crash(w)
             \/ Restart(w)
      PROVE  job' = job
  BY <1>6, QuietActions DEF Quiet, IInv, Crash, Restart
<1>. QED
  BY <1>1, <1>2, <1>3, <1>4, <1>5, <1>6, <1>n DEF Next, WorkerStep

\* Only a worker that has the job writes its progress rows, and it signs them
\* with the attempt it claimed.
LEMMA StepsSigned ==
    ASSUME IInv, Next, NEW j \in Jobs, NEW i \in 0..1
    PROVE  \/ step'[j][i] = step[j][i]
           \/ \E w \in Workers :
                Mine(w) = j /\ step'[j][i].attempt = worker[w].attempt
<1>r. step \in [Jobs -> [0..1 -> StepRows]]
  BY DEF IInv, TypeOK
<1>s. ASSUME NEW w \in Workers, NEW k \in 0..1, NEW s,
             RecordStep(Mine(w), k, s, worker[w].attempt)
      PROVE  \/ step'[j][i] = step[j][i]
             \/ Mine(w) = j /\ step'[j][i].attempt = worker[w].attempt
  BY <1>s, <1>r DEF RecordStep
<1>1. CASE step' = step
  BY <1>1
<1>2. ASSUME NEW w \in Workers,
             CallHandler(w) \/ CommandEnds(w) \/ Launch(w)
      PROVE  \E s : RecordStep(Mine(w), 0, s, worker[w].attempt)
  BY <1>2 DEF CallHandler, CommandEnds, Launch
<1>3. ASSUME NEW w \in Workers, Mirror(w)
      PROVE  \/ step' = step
             \/ \E s : RecordStep(Mine(w), 1, s, worker[w].attempt)
  BY <1>3 DEF Mirror
<1>4. \/ step' = step
      \/ \E w \in Workers :
            CallHandler(w) \/ CommandEnds(w) \/ Launch(w) \/ Mirror(w)
  BY DEF Next, WorkerStep, Enqueue, Cancel, ExpireStaleJobs, Tick, ClaimNext,
         ValidateClaim, StartJob, DenyExecution, CompleteJob, FailJob,
         DenyDispatch, Dispatch, HandlerRaises, Heartbeat, Crash, Restart
<1>. QED BY <1>s, <1>1, <1>2, <1>3, <1>4

\* Initially no worker is on the clock and no row is signed.
LEMMA InitIngestInv == Init => IngestInv
<1>1. Init => LeaseCoversGap /\ AttemptsOfPast
  BY DEF Init, LeaseCoversGap, AttemptsOfPast, Kept, Mine, IdleMemory
<1>2. Init => StepsOfPast
  BY DEF Init, StepsOfPast
<1>. QED BY <1>1, <1>2, InitIInv DEF IngestInv

\* No worker comes to believe in an attempt of the future.
LEMMA NextAttemptsOfPast ==
    ASSUME IInv, AttemptsOfPast, Next
    PROVE  AttemptsOfPast'
<1>r. job \in [Jobs -> JobRows] /\ worker \in [Workers -> Memories]
  BY DEF IInv, TypeOK
<1>n. \A v \in Workers : Mine(v) # None =>
        /\ Mine(v) \in Jobs /\ worker[v].attempt \in Nat
        /\ job[Mine(v)].attempts \in Nat
        /\ job'[Mine(v)].attempts \in Nat
        /\ job'[Mine(v)].attempts >= job[Mine(v)].attempts
  <2>1. IInv'
    BY NextIInv
  <2>. QED BY <1>r, <2>1, AttemptsGrow DEF Memories, Mine, JobRows, IInv, TypeOK
<1>1. \A v \in Workers :
        \/ worker'[v].job = None
        \/ /\ worker'[v].job = worker[v].job
           /\ worker'[v].attempt = worker[v].attempt
        \/ \E j \in Jobs : /\ worker'[v].job = j
                           /\ worker'[v].attempt = job'[j].attempts
                           /\ job'[j].attempts \in Nat
  <2>1. ASSUME NEW w \in Workers, NEW j \in Jobs, ClaimNext(w, j)
        PROVE  /\ \A v \in Workers : v # w => worker'[v] = worker[v]
               /\ worker'[w].job = j /\ worker'[w].attempt = job'[j].attempts
               /\ job'[j].attempts \in Nat
    BY <2>1, <1>r DEF ClaimNext, IdleMemory, JobRows
  <2>2. ASSUME NEW w \in Workers,
               worker' = [worker EXCEPT ![w] = IdleMemory]
        PROVE  /\ \A v \in Workers : v # w => worker'[v] = worker[v]
               /\ worker'[w].job = None
    BY <2>2, <1>r DEF IdleMemory
  <2>3. ASSUME NEW w \in Workers, Crash(w)
        PROVE  /\ \A v \in Workers : v # w => worker'[v] = worker[v]
               /\ worker'[w].job = None
    BY <2>3, <1>r DEF Crash, IdleMemory
  <2>4. ASSUME NEW w \in Workers, StartJob(w) \/ Heartbeat(w),
               worker' # [worker EXCEPT ![w] = IdleMemory]
        PROVE  \A v \in Workers : /\ worker'[v].job = worker[v].job
                                  /\ worker'[v].attempt = worker[v].attempt
    BY <2>4, <1>r DEF StartJob, Goto, Heartbeat, Memories
  <2>5. ASSUME NEW w \in Workers, CompleteJob(w) \/ FailJob(w) \/ Restart(w)
        PROVE  worker' = [worker EXCEPT ![w] = IdleMemory]
    BY <2>5 DEF CompleteJob, FailJob, Restart
  <2>6. ASSUME NEW w \in Workers,
               \/ ValidateClaim(w) \/ DenyExecution(w) \/ CallHandler(w)
               \/ DenyDispatch(w) \/ Dispatch(w) \/ CommandEnds(w)
               \/ HandlerRaises(w) \/ Launch(w) \/ Mirror(w)
        PROVE  \A v \in Workers : /\ worker'[v].job = worker[v].job
                                  /\ worker'[v].attempt = worker[v].attempt
    BY <2>6, QuietActions DEF Quiet, IInv
  <2>7. CASE Tick
    <3>1. \A v \in Workers : /\ worker'[v].job = worker[v].job
                             /\ worker'[v].attempt = worker[v].attempt
      BY <2>7, <1>r DEF Tick, Memories
    <3>. QED BY <3>1
  <2>8. CASE \/ \E j \in Jobs : Enqueue(j) \/ Cancel(j)
             \/ ExpireStaleJobs
    BY <2>8 DEF Enqueue, Cancel, ExpireStaleJobs
  <2>9. ASSUME NEW w \in Workers, WorkerStep(w) \/ Crash(w) \/ Restart(w)
        PROVE  \A v \in Workers :
                 \/ worker'[v].job = None
                 \/ /\ worker'[v].job = worker[v].job
                    /\ worker'[v].attempt = worker[v].attempt
                 \/ \E j \in Jobs : /\ worker'[v].job = j
                                    /\ worker'[v].attempt = job'[j].attempts
                                    /\ job'[j].attempts \in Nat
    BY <2>1, <2>2, <2>3, <2>4, <2>5, <2>6, <2>9 DEF WorkerStep
  <2>. QED BY <2>7, <2>8, <2>9 DEF Next
<1>. QED BY <1>1, <1>n DEF AttemptsOfPast, Mine

\* No progress row comes to name an attempt of the future.
LEMMA NextStepsOfPast ==
    ASSUME IInv, AttemptsOfPast, StepsOfPast, Next
    PROVE  StepsOfPast'
<1>. SUFFICES ASSUME NEW j \in Jobs, NEW i \in 0..1
              PROVE  step'[j][i].attempt <= job'[j].attempts
  BY DEF StepsOfPast
<1>1. IInv'
  BY NextIInv
<1>2. /\ job[j].attempts \in Nat /\ job'[j].attempts \in Nat
      /\ step[j][i].attempt \in Nat
      /\ \A w \in Workers : worker[w].attempt \in Nat
  BY <1>1 DEF IInv, TypeOK, JobRows, StepRows, Memories
<1>3. step'[j][i].attempt = step[j][i].attempt \/ \E w \in Workers :
        Mine(w) = j /\ step'[j][i].attempt = worker[w].attempt
  BY StepsSigned
<1>4. step[j][i].attempt <= job[j].attempts
  BY DEF StepsOfPast
<1>5. \A w \in Workers : Mine(w) = j => worker[w].attempt <= job[j].attempts
  BY NoneAssumption DEF AttemptsOfPast
<1>6. job'[j].attempts >= job[j].attempts
  BY AttemptsGrow
<1>. QED BY <1>2, <1>3, <1>4, <1>5, <1>6

\* Callers, the reaper and the clock do not take a job away from a worker that
\* kept it at its last heartbeat, cancellations apart.
LEMMA EnvironmentLeaseCoversGap ==
    ASSUME Timely, IInv, LeaseCoversGap,
           \/ \E j \in Jobs : Enqueue(j) \/ Cancel(j)
           \/ ExpireStaleJobs
           \/ Tick
    PROVE  LeaseCoversGap'
<1>r. job \in [Jobs -> JobRows] /\ worker \in [Workers -> Memories]
  BY DEF IInv, TypeOK
<1>. SUFFICES ASSUME NEW v \in Workers, Kept(v)'
              PROVE  /\ worker'[v].attempt = job'[Mine(v)'].attempts
                     /\ \/ job'[Mine(v)'].status = "cancelled"
                        \/ /\ Owns(v, Mine(v))'
                           /\ job'[Mine(v)'].lease + worker'[v].gap >= Lease
  BY DEF LeaseCoversGap
<1>. DEFINE j == Mine(v)
<1>w. /\ worker'[v].job = worker[v].job
      /\ worker'[v].attempt = worker[v].attempt
      /\ worker'[v].beat = worker[v].beat
      /\ Kept(v) /\ j \in Jobs
  <2>1. /\ worker'[v].job = worker[v].job
        /\ worker'[v].attempt = worker[v].attempt
        /\ worker'[v].beat = worker[v].beat
    <3>1. CASE Tick
      BY <3>1, <1>r DEF Tick, Memories
    <3>2. CASE ~Tick
      BY <3>2 DEF Enqueue, Cancel, ExpireStaleJobs
    <3>. QED BY <3>1, <3>2
  <2>2. Kept(v)
    BY <2>1 DEF Kept, Mine
  <2>3. j \in Jobs
    BY <2>2, <1>r DEF Kept, Memories, Mine, IInv, MemoryOK
  <2>. QED BY <2>1, <2>2, <2>3
<1>i. /\ worker[v].attempt = job[j].attempts
      /\ \/ job[j].status = "cancelled"
         \/ Owns(v, j) /\ job[j].lease + worker[v].gap >= Lease
  BY <1>w DEF LeaseCoversGap
<1>g. /\ worker[v].gap \in 0..PollGap /\ job[j].lease \in 0..Lease
      /\ job[j].attempts \in Nat
  BY <1>r, <1>w DEF Memories, JobRows
<1>1. ASSUME NEW i \in Jobs, Enqueue(i)
      PROVE  job'[j] = job[j] /\ worker' = worker
  BY <1>1, <1>r, <1>i, <1>w DEF Enqueue, Owns, Leased
<1>2. ASSUME NEW i \in Jobs, Cancel(i)
      PROVE  /\ worker' = worker
             /\ \/ job'[j] = job[j]
                \/ /\ job'[j].status = "cancelled"
                   /\ job'[j].attempts = job[j].attempts
  BY <1>2, <1>r, <1>w DEF Cancel, Released, JobRows
<1>3. CASE ExpireStaleJobs
  <2>1. job[j].status \in Leased => job[j].lease > 0
    BY <1>i, <1>g, LeaseAssumption, BoundsAssumption DEF Timely, Leased
  <2>2. j \notin Stale
    BY <2>1, <1>g DEF Stale
  <2>3. job'[j] = job[j] /\ worker' = worker
    BY <1>3, <2>2, <1>w DEF ExpireStaleJobs
  <2>. QED BY <2>3, <1>i, <1>w DEF Mine, Owns
<1>4. CASE Tick
  <2>1. worker'[v].gap = worker[v].gap + 1
    BY <1>4, <1>w, <1>r DEF Tick, Memories, Kept, OnClock
  <2>2. /\ job'[j].status = job[j].status /\ job'[j].owner = job[j].owner
        /\ job'[j].attempts = job[j].attempts
        /\ job[j].lease > 0 => job'[j].lease = job[j].lease - 1
    BY <1>4, <1>w, <1>r DEF Tick, JobRows
  <2>3. job[j].lease + worker[v].gap >= Lease =>
          job'[j].lease + worker'[v].gap >= Lease
    BY <2>1, <2>2, <1>g, LeaseAssumption, BoundsAssumption DEF Timely
  <2>. QED BY <2>2, <2>3, <1>i, <1>w DEF Mine, Owns
<1>5. ASSUME job'[j] = job[j], worker' = worker
      PROVE  /\ worker'[v].attempt = job'[Mine(v)'].attempts
             /\ \/ job'[Mine(v)'].status = "cancelled"
                \/ /\ Owns(v, Mine(v))'
                   /\ job'[Mine(v)'].lease + worker'[v].gap >= Lease
  BY <1>5, <1>i DEF Mine, Owns
<1>6. ASSUME NEW i \in Jobs, Cancel(i)
      PROVE  /\ worker'[v].attempt = job'[Mine(v)'].attempts
             /\ \/ job'[Mine(v)'].status = "cancelled"
                \/ /\ Owns(v, Mine(v))'
                   /\ job'[Mine(v)'].lease + worker'[v].gap >= Lease
  BY <1>2, <1>5, <1>6, <1>i DEF Mine
<1>. QED BY <1>1, <1>3, <1>4, <1>5, <1>6

\* Neither the steps of that worker nor those of the others do.
LEMMA WorkerLeaseCoversGap ==
    ASSUME Timely, IInv, LeaseCoversGap, NEW w \in Workers,
           WorkerStep(w) \/ Crash(w) \/ Restart(w)
    PROVE  LeaseCoversGap'
<1>r. job \in [Jobs -> JobRows] /\ worker \in [Workers -> Memories]
  BY DEF IInv, TypeOK
<1>j. \A v \in Workers : Kept(v) => Mine(v) \in Jobs
  BY <1>r DEF Kept, Memories, Mine, IInv, MemoryOK
<1>l. \A g \in Nat : Lease + g >= Lease
  BY LeaseAssumption
<1>g. worker[w].gap \in Nat
  BY <1>r, BoundsAssumption DEF Memories
<1>k. worker[w].pc \notin {"idle", "down"} => Mine(w) \in Jobs
  BY <1>r DEF IInv, MemoryOK, Memories, Mine
<1>1. ASSUME Quiet PROVE LeaseCoversGap'
  BY <1>1 DEF Quiet, LeaseCoversGap, Kept, Mine, Owns
\* A step that leaves the other workers alone keeps what they know, when it
\* only touches a job that none of them holds.
<1>2. ASSUME NEW j \in Jobs, \A i \in Jobs : i # j => job'[i] = job[i],
             \A v \in Workers : v # w => worker'[v] = worker[v],
             \A v \in Workers : v # w /\ Kept(v) /\ Mine(v) = j =>
                job'[j] = job[j],
             Kept(w)' =>
                /\ worker'[w].job = j
                /\ worker'[w].attempt = job'[j].attempts
                /\ \/ job'[j].status = "cancelled"
                   \/ /\ job'[j].owner = w /\ job'[j].status \in Leased
                      /\ job'[j].lease + worker'[w].gap >= Lease
      PROVE  LeaseCoversGap'
  BY <1>2, <1>j DEF LeaseCoversGap, Kept, Mine, Owns
<1>3. ASSUME NEW j \in Jobs, ClaimNext(w, j) PROVE LeaseCoversGap'
  <2>1. /\ \A i \in Jobs : i # j => job'[i] = job[i]
        /\ \A v \in Workers : v # w => worker'[v] = worker[v]
    BY <1>3, <1>r DEF ClaimNext
  <2>2. /\ job[j].status = "queued" /\ job'[j].status = "claimed"
        /\ job'[j].owner = w /\ job'[j].lease = Lease
        /\ job'[j].attempts = job[j].attempts + 1
        /\ worker'[w].job = j /\ worker'[w].attempt = job[j].attempts + 1
        /\ worker'[w].gap = 0
    BY <1>3, <1>r DEF ClaimNext, Eligible, IdleMemory, JobRows
  <2>3. \A v \in Workers : Kept(v) => Mine(v) # j
    BY <2>2 DEF LeaseCoversGap, Owns, Leased
  <2>. QED BY <1>2, <1>l, <2>1, <2>2, <2>3 DEF Leased
\* Only the owner changes a job.
<1>o. ASSUME Mine(w) \in Jobs, NEW v \in Workers, v # w, Kept(v),
             Mine(v) = Mine(w), Owns(w, Mine(w))
      PROVE  job[Mine(w)].status = "cancelled"
  BY <1>o DEF LeaseCoversGap, Owns
<1>p. Owns(w, Mine(w)) => job[Mine(w)].status # "cancelled"
  BY DEF Owns, Leased
\* The worker drops its job; the row changes only when the worker owns it.
<1>4. ASSUME \/ worker' = [worker EXCEPT ![w] = IdleMemory]
             \/ worker' = [worker EXCEPT ![w] =
                              [IdleMemory EXCEPT !.pc = "down"]],
             \/ job' = job
             \/ /\ Mine(w) \in Jobs /\ Owns(w, Mine(w))
                /\ \A i \in Jobs : i # Mine(w) => job'[i] = job[i]
      PROVE  LeaseCoversGap'
  <2>1. \A v \in Workers : v # w => worker'[v] = worker[v]
    BY <1>4, <1>r
  <2>2. ~Kept(w)'
    BY <1>4, <1>r DEF Kept, Mine, IdleMemory
  <2>3. CASE job' = job
    BY <2>1, <2>2, <2>3 DEF LeaseCoversGap, Kept, Mine, Owns
  <2>4. CASE /\ Mine(w) \in Jobs /\ Owns(w, Mine(w))
             /\ \A i \in Jobs : i # Mine(w) => job'[i] = job[i]
    BY <2>1, <2>2, <2>4, <1>2, <1>o, <1>p
  <2>. QED BY <1>4, <2>3, <2>4
\* A renewed lease is a whole one.
<1>5. ASSUME Mine(w) \in Jobs, Owns(w, Mine(w)),
             \/ job' = [job EXCEPT ![Mine(w)] = Renewed(@)]
             \/ job' = [job EXCEPT ![Mine(w)] =
                          [Renewed(@) EXCEPT !.status = "running"]],
             \A v \in Workers : v # w => worker'[v] = worker[v],
             /\ worker'[w].job = worker[w].job /\ worker'[w].gap \in Nat
             /\ worker'[w].attempt = worker[w].attempt
      PROVE  LeaseCoversGap'
  <2>1. \A i \in Jobs : i # Mine(w) => job'[i] = job[i]
    BY <1>5, <1>r
  <2>2. /\ job'[Mine(w)].status \in Leased /\ job'[Mine(w)].owner = w
        /\ job'[Mine(w)].lease = Lease
        /\ job'[Mine(w)].attempts = job[Mine(w)].attempts
    <3>1. job[Mine(w)] \in JobRows
      BY <1>5, <1>r
    <3>2. CASE job' = [job EXCEPT ![Mine(w)] = Renewed(@)]
      BY <1>5, <1>r, <3>1, <3>2 DEF Owns, Renewed, JobRows
    <3>3. CASE job' = [job EXCEPT ![Mine(w)] =
                         [Renewed(@) EXCEPT !.status = "running"]]
      <4>1. job'[Mine(w)] =
              [Renewed(job[Mine(w)]) EXCEPT !.status = "running"]
        BY <1>5, <1>r, <3>3
      <4>. QED BY <1>5, <3>1, <4>1 DEF Owns, Renewed, Leased, JobRows
    <3>. QED BY <1>5, <3>2, <3>3
  <2>3. worker[w].attempt = job[Mine(w)].attempts
    BY <1>5, NoneAssumption DEF IInv, WorkerIdFences
  <2>4. worker[w].job = Mine(w)
    BY DEF Mine
  <2>. QED BY <1>2, <1>5, <1>l, <1>o, <1>p, <2>1, <2>2, <2>3, <2>4
<1>6. CASE StartJob(w)
  <2>1. Mine(w) \in Jobs
    BY <1>6, <1>k DEF StartJob
  <2>2. CASE ~Owns(w, Mine(w))
    BY <1>6, <2>2, <1>4 DEF StartJob
  <2>3. CASE Owns(w, Mine(w))
    <3>1. /\ worker' = [worker EXCEPT ![w].pc = "started"]
          /\ job' = [job EXCEPT ![Mine(w)] =
                        [Renewed(@) EXCEPT !.status = "running"]]
      BY <1>6, <2>3 DEF StartJob, Goto
    <3>2. /\ \A v \in Workers : v # w => worker'[v] = worker[v]
          /\ worker'[w].job = worker[w].job /\ worker'[w].gap \in Nat
          /\ worker'[w].attempt = worker[w].attempt
      BY <3>1, <1>r, <1>g DEF Memories
    <3>. QED BY <2>1, <2>3, <3>1, <3>2, <1>5
  <2>. QED BY <2>2, <2>3
<1>7. CASE Heartbeat(w)
  <2>1. Mine(w) \in Jobs
    BY <1>7, <1>k DEF Heartbeat
  <2>2. /\ \A v \in Workers : v # w => worker'[v] = worker[v]
        /\ worker'[w].job = worker[w].job /\ worker'[w].gap = 0
        /\ worker'[w].attempt = worker[w].attempt
    BY <1>7, <1>r DEF Heartbeat, Memories
  <2>3. CASE Owns(w, Mine(w))
    <3>1. job' = [job EXCEPT ![Mine(w)] = Renewed(@)]
      BY <1>7, <2>3 DEF Heartbeat
    <3>. QED BY <2>1, <2>2, <2>3, <3>1, <1>5
  <2>4. CASE ~Owns(w, Mine(w))
    <3>1. job' = job /\ worker'[w].beat = "lost"
      BY <1>7, <2>4, <1>r DEF Heartbeat, Memories
    <3>. QED BY <2>1, <2>2, <2>4, <3>1
             DEF LeaseCoversGap, Kept, Mine, Owns
  <2>. QED BY <2>3, <2>4
<1>8. CASE CompleteJob(w)
  <2>1. \/ job' = job
        \/ /\ Owns(w, Mine(w))
           /\ \A i \in Jobs : i # Mine(w) => job'[i] = job[i]
    BY <1>8, <1>r DEF CompleteJob
  <2>. QED BY <1>8, <2>1, <1>k, <1>4 DEF CompleteJob
<1>9. CASE FailJob(w)
  <2>1. \/ job' = job
        \/ /\ Owns(w, Mine(w))
           /\ \A i \in Jobs : i # Mine(w) => job'[i] = job[i]
    BY <1>9, <1>r DEF FailJob
  <2>. QED BY <1>9, <2>1, <1>k, <1>4 DEF FailJob
<1>10. CASE Crash(w) \/ Restart(w)
  BY <1>10, <1>4 DEF Crash, Restart
<1>11. CASE \/ ValidateClaim(w) \/ DenyExecution(w) \/ CallHandler(w)
            \/ DenyDispatch(w) \/ Dispatch(w) \/ CommandEnds(w)
            \/ HandlerRaises(w) \/ Launch(w) \/ Mirror(w)
  BY <1>11, <1>1, QuietActions DEF IInv
<1>. QED BY <1>3, <1>6, <1>7, <1>8, <1>9, <1>10, <1>11 DEF WorkerStep

\* With timely workers the invariant about ingest jobs is inductive.
LEMMA NextIngestInv == Timely /\ IngestInv /\ [Next]_vars => IngestInv'
<1>. SUFFICES ASSUME Timely, IngestInv, [Next]_vars PROVE IngestInv'
  OBVIOUS
<1>1. CASE UNCHANGED vars
  <2>1. IInv'
    BY NextIInv DEF IngestInv
  <2>2. LeaseCoversGap' /\ StepsOfPast' /\ AttemptsOfPast'
    BY <1>1 DEF vars, IngestInv, LeaseCoversGap, StepsOfPast, AttemptsOfPast,
                Kept, Mine, Owns
  <2>. QED BY <2>1, <2>2 DEF IngestInv
<1>2. CASE Next
  <2>1. IInv' /\ StepsOfPast' /\ AttemptsOfPast'
    BY <1>2, NextIInv, NextStepsOfPast, NextAttemptsOfPast DEF IngestInv
  <2>2. LeaseCoversGap'
    BY <1>2, EnvironmentLeaseCoversGap, WorkerLeaseCoversGap
       DEF IngestInv, Next
  <2>. QED BY <2>1, <2>2 DEF IngestInv
<1>. QED BY <1>1, <1>2

\* In every reachable state of timely workers the invariant holds.
THEOREM IngestInvariance == ASSUME Timely PROVE Spec => []IngestInv
<1>1. Init => IngestInv
  BY InitIngestInv
<1>2. IngestInv /\ [Next]_vars => IngestInv'
  BY NextIngestInv
<1>. QED BY <1>1, <1>2, PTL DEF Spec

\* "Heartbeats the lease on every poll so a long ingest never loses its claim":
\* from the first heartbeat that finds the claim, only a cancellation takes the
\* job away, whatever the other workers, the reaper and the clock do.  The one
\* premise is that two heartbeats of the loop are less than a lease apart; the
\* launch before the first one may take any time.
THEOREM LongIngestKeepsClaim ==
    ASSUME Timely PROVE Spec => []IngestKeepsClaim
<1>1. IngestInv => IngestKeepsClaim
  BY DEF IngestInv, LeaseCoversGap, IngestKeepsClaim, Kept
<1>. QED BY <1>1, IngestInvariance, PTL

\* Row 1 of a job is written by a worker that mirrors.
LEMMA ProgressSigned ==
    ASSUME IInv, Next, NEW j \in Jobs
    PROVE  \/ step'[j][1] = step[j][1]
           \/ \E w \in Workers :
                /\ Mirror(w) /\ Mine(w) = j
                /\ step'[j][1].attempt = worker[w].attempt
<1>r. step \in [Jobs -> [0..1 -> StepRows]] /\ 0 \in 0..1 /\ 1 \in 0..1
  BY DEF IInv, TypeOK
<1>1. ASSUME NEW w \in Workers, Mirror(w)
      PROVE  \/ step' = step
             \/ \E s : RecordStep(Mine(w), 1, s, worker[w].attempt)
  BY <1>1 DEF Mirror
<1>2. ASSUME NEW w \in Workers, NEW s,
             RecordStep(Mine(w), 1, s, worker[w].attempt)
      PROVE  \/ step'[j][1] = step[j][1]
             \/ Mine(w) = j /\ step'[j][1].attempt = worker[w].attempt
  BY <1>2, <1>r DEF RecordStep
<1>3. ASSUME NEW w \in Workers, NEW s,
             RecordStep(Mine(w), 0, s, worker[w].attempt)
      PROVE  step'[j][1] = step[j][1]
  BY <1>3, <1>r DEF RecordStep
<1>4. ASSUME NEW w \in Workers,
             CallHandler(w) \/ CommandEnds(w) \/ Launch(w)
      PROVE  \E s : RecordStep(Mine(w), 0, s, worker[w].attempt)
  BY <1>4 DEF CallHandler, CommandEnds, Launch
<1>5. \/ step' = step
      \/ \E w \in Workers :
            CallHandler(w) \/ CommandEnds(w) \/ Launch(w) \/ Mirror(w)
  BY DEF Next, WorkerStep, Enqueue, Cancel, ExpireStaleJobs, Tick, ClaimNext,
         ValidateClaim, StartJob, DenyExecution, CompleteJob, FailJob,
         DenyDispatch, Dispatch, HandlerRaises, Heartbeat, Crash, Restart
<1>. QED BY <1>1, <1>2, <1>3, <1>4, <1>5

\* A row that goes back is written by a worker that was told.
Told(j) == \E w \in Workers : /\ Mine(w) = j /\ worker[w].beat = "lost"
                              /\ worker'[w] # worker[w]
ProgressStep ==
    \A j \in Jobs : step'[j][1].attempt < step[j][1].attempt => Told(j)

\* record_job_step does not test the owner, and still a straggler writes over
\* the progress of a newer attempt only after a heartbeat has told it that the
\* job is no longer its own.
THEOREM ProgressMonotone ==
    ASSUME Timely PROVE Spec => ProgressNeverRegresses
<1>1. ASSUME IngestInv, Next, NEW j \in Jobs,
             step'[j][1].attempt < step[j][1].attempt
      PROVE  Told(j)
  <2>1. /\ step[j][1].attempt \in Nat /\ job[j].attempts \in Nat
        /\ worker \in [Workers -> Memories]
    BY <1>1 DEF IngestInv, IInv, TypeOK, JobRows, StepRows
  <2>2. PICK w \in Workers : /\ Mirror(w) /\ Mine(w) = j
                             /\ step'[j][1].attempt = worker[w].attempt
    <3>1. step'[j][1] # step[j][1]
      BY <1>1, <2>1
    <3>. QED BY <1>1, <3>1, ProgressSigned DEF IngestInv
  <2>3. step[j][1].attempt <= job[j].attempts
    BY <1>1 DEF IngestInv, StepsOfPast
  <2>4. worker[w].beat # "kept"
    <3>1. worker[w].attempt # job[j].attempts
      BY <1>1, <2>1, <2>2, <2>3
    <3>. QED BY <1>1, <2>2, <3>1 DEF IngestInv, LeaseCoversGap, Kept
  <2>5. worker[w].beat = "lost"
    BY <1>1, <2>1, <2>2, <2>4
       DEF Mirror, IngestInv, IInv, MemoryOK, Memories, Beats
  <2>6. worker'[w].pc \in {"polling", "completing", "failing"}
    BY <2>1, <2>2 DEF Mirror, Goto, Failing, Memories
  <2>7. worker[w].pc = "mirroring"
    BY <2>2 DEF Mirror
  <2>. QED BY <2>2, <2>5, <2>6, <2>7 DEF Told
<1>2. IngestInv /\ [Next]_vars => [ProgressStep]_vars
  BY <1>1 DEF ProgressStep
<1>3. Spec => [][ProgressStep]_vars
  BY <1>2, IngestInvariance, PTL DEF Spec
<1>. QED BY <1>3 DEF ProgressStep, Told, ProgressNeverRegresses

-----------------------------------------------------------------------------
(* The refinement.                                                         *)

Life == [j \in Jobs |-> LifeOf(job[j])]
Tries == [j \in Jobs |-> job[j].attempts]

\* A step that changes neither the status class nor the attempts of any job is
\* invisible to callers.
LEMMA Invisible ==
    ASSUME IInv,
           \A j \in Jobs : /\ LifeOf(job'[j]) = LifeOf(job[j])
                           /\ job'[j].attempts = job[j].attempts
    PROVE  UNCHANGED Lifecycle!vars
  BY DEF Lifecycle!vars

\* A step that gives one job another status and leaves its attempts alone.
LEMMA OneJob ==
    ASSUME NEW j \in Jobs, NEW s,
           \A i \in Jobs : i # j => job'[i] = job[i],
           job'[j].attempts = job[j].attempts, LifeOf(job'[j]) = s
    PROVE  Life' = [Life EXCEPT ![j] = s] /\ Tries' = Tries
  BY DEF Life, Tries

\* Callers, the reaper and the clock take steps of the lifecycle.
LEMMA EnvironmentRefines ==
    ASSUME IInv,
           \/ \E j \in Jobs : Enqueue(j) \/ Cancel(j)
           \/ ExpireStaleJobs
           \/ Tick
    PROVE  [Lifecycle!Next]_(Lifecycle!vars)
<1>r. job \in [Jobs -> JobRows]
  BY DEF IInv, TypeOK
<1>1. ASSUME NEW j \in Jobs, Enqueue(j) PROVE Lifecycle!Submit(j)
  <2>1. /\ \A i \in Jobs : i # j => job'[i] = job[i]
        /\ job'[j].attempts = job[j].attempts
        /\ job'[j].status = "queued" /\ job[j].status = "absent"
    BY <1>1, <1>r DEF Enqueue, JobRows
  <2>2. LifeOf(job'[j]) = "waiting" /\ LifeOf(job[j]) = "absent"
    BY <2>1 DEF LifeOf, Leased
  <2>3. Life' = [Life EXCEPT ![j] = "waiting"] /\ Tries' = Tries
    BY <2>1, <2>2, OneJob
  <2>. QED BY <2>2, <2>3 DEF Lifecycle!Submit, Life, Tries
<1>2. ASSUME NEW j \in Jobs, Cancel(j) PROVE Lifecycle!End(j)
  <2>1. /\ \A i \in Jobs : i # j => job'[i] = job[i]
        /\ job'[j].attempts = job[j].attempts
        /\ job'[j].status = "cancelled"
        /\ job[j].status \in {"queued", "claimed", "running"}
    BY <1>2, <1>r DEF Cancel, Released, Leased, JobRows
  <2>2. /\ LifeOf(job'[j]) = "cancelled"
        /\ LifeOf(job[j]) \in {"waiting", "active"}
    BY <2>1 DEF LifeOf, Leased
  <2>3. Life' = [Life EXCEPT ![j] = "cancelled"] /\ Tries' = Tries
    BY <2>1, <2>2, OneJob
  <2>. QED BY <2>2, <2>3
           DEF Lifecycle!End, Lifecycle!Outcomes, Life, Tries
<1>3. CASE ExpireStaleJobs
  <2>. DEFINE S == {j \in Stale : RetriesLeft(j)}
              E == {j \in Stale : ~RetriesLeft(j)}
  <2>1. \A j \in Jobs \ Stale : job'[j] = job[j]
    BY <1>3 DEF ExpireStaleJobs
  <2>2. \A j \in Stale :
          /\ job'[j].status = IF RetriesLeft(j) THEN "queued" ELSE "expired"
          /\ job'[j].attempts = job[j].attempts
          /\ job[j].status \in Leased
    BY <1>3, <1>r DEF ExpireStaleJobs, Stale, Released, JobRows
  <2>3. S \in SUBSET Jobs /\ E \in SUBSET Jobs
    BY DEF Stale
  <2>4. \A j \in S : /\ LifeOf(job[j]) = "active"
                     /\ job[j].attempts < MaxAttempts[j]
    BY <2>2 DEF LifeOf, RetriesLeft
  <2>5. \A j \in E : /\ LifeOf(job[j]) = "active"
                     /\ job[j].attempts = MaxAttempts[j]
    <3>1. \A j \in Jobs : /\ job[j].attempts \in Nat /\ MaxAttempts[j] \in Nat
                          /\ job[j].attempts <= MaxAttempts[j]
      BY <1>r, MaxAttemptsAssumption DEF JobRows, IInv, AttemptsBound
    <3>. QED BY <2>2, <2>3, <3>1 DEF LifeOf, RetriesLeft
  <2>6. \A j \in Jobs : LifeOf(job'[j]) =
          IF j \in S THEN "waiting" ELSE IF j \in E THEN "expired"
          ELSE LifeOf(job[j])
    BY <2>1, <2>2 DEF LifeOf, Leased
  <2>7. \A j \in Jobs : job'[j].attempts = job[j].attempts
    BY <2>1, <2>2
  <2>8. Lifecycle!TakeBack(S, E)
    BY <2>3, <2>4, <2>5, <2>6, <2>7 DEF Lifecycle!TakeBack
  <2>. QED BY <2>3, <2>8 DEF Lifecycle!Next
<1>4. CASE Tick
  <2>1. \A j \in Jobs : /\ job'[j].status = job[j].status
                        /\ job'[j].attempts = job[j].attempts
    BY <1>4, <1>r DEF Tick, JobRows
  <2>. QED BY <2>1, Invisible DEF LifeOf
<1>. QED BY <1>1, <1>2, <1>3, <1>4 DEF Lifecycle!Next

\* Workers do as well.
LEMMA WorkerRefines ==
    ASSUME IInv, NEW w \in Workers,
           WorkerStep(w) \/ Crash(w) \/ Restart(w)
    PROVE  [Lifecycle!Next]_(Lifecycle!vars)
<1>r. job \in [Jobs -> JobRows] /\ worker \in [Workers -> Memories]
  BY DEF IInv, TypeOK
<1>k. worker[w].pc \notin {"idle", "down"} => Mine(w) \in Jobs
  BY <1>r DEF IInv, MemoryOK, Memories, Mine
<1>q. ASSUME job' = job PROVE UNCHANGED Lifecycle!vars
  BY <1>q, Invisible
<1>1. ASSUME NEW j \in Jobs, ClaimNext(w, j) PROVE Lifecycle!HandOut(j)
  <2>1. /\ \A i \in Jobs : i # j => job'[i] = job[i]
        /\ job'[j].attempts = job[j].attempts + 1
        /\ job'[j].status = "claimed" /\ job[j].status = "queued"
    BY <1>1, <1>r DEF ClaimNext, Eligible, JobRows
  <2>2. LifeOf(job'[j]) = "active" /\ LifeOf(job[j]) = "waiting"
    BY <2>1 DEF LifeOf, Leased
  <2>3. job[j].attempts < MaxAttempts[j]
    BY <2>1 DEF IInv, AttemptsBound
  <2>4. /\ Life' = [Life EXCEPT ![j] = "active"]
        /\ Tries' = [Tries EXCEPT ![j] = @ + 1]
    BY <2>1, <2>2 DEF Life, Tries
  <2>. QED BY <2>2, <2>3, <2>4 DEF Lifecycle!HandOut, Life, Tries
\* The owner ends its job or gives it back.
<1>2. ASSUME Mine(w) \in Jobs, Owns(w, Mine(w)),
             \A i \in Jobs : i # Mine(w) => job'[i] = job[i],
             job'[Mine(w)].attempts = job[Mine(w)].attempts,
             \/ job'[Mine(w)].status \in {"succeeded", "failed"}
             \/ job'[Mine(w)].status = "queued" /\ RetriesLeft(Mine(w))
      PROVE  Lifecycle!Next
  <2>. DEFINE j == Mine(w)
  <2>1. LifeOf(job[j]) = "active"
    BY <1>2 DEF LifeOf, Owns
  <2>2. CASE job'[j].status \in {"succeeded", "failed"}
    <3>1. LifeOf(job'[j]) = job'[j].status
      BY <2>2 DEF LifeOf, Leased
    <3>2. Life' = [Life EXCEPT ![j] = job'[j].status] /\ Tries' = Tries
      BY <1>2, <3>1, OneJob
    <3>3. Lifecycle!End(j)
      BY <1>2, <2>1, <2>2, <3>2
         DEF Lifecycle!End, Lifecycle!Outcomes, Life, Tries
    <3>. QED BY <1>2, <3>3 DEF Lifecycle!Next
  <2>3. CASE job'[j].status = "queued" /\ RetriesLeft(j)
    <3>1. LifeOf(job'[j]) = "waiting"
      BY <2>3 DEF LifeOf, Leased
    <3>2. \A i \in Jobs : LifeOf(job'[i]) =
            IF i \in {j} THEN "waiting" ELSE IF i \in {} THEN "expired"
            ELSE LifeOf(job[i])
      BY <1>2, <3>1
    <3>3. \A i \in Jobs : job'[i].attempts = job[i].attempts
      BY <1>2
    <3>4. Lifecycle!TakeBack({j}, {})
      BY <1>2, <2>1, <2>3, <3>2, <3>3 DEF Lifecycle!TakeBack, RetriesLeft
    <3>. QED BY <1>2, <3>4 DEF Lifecycle!Next
  <2>. QED BY <1>2, <2>2, <2>3
<1>3. CASE StartJob(w) \/ Heartbeat(w)
  <2>1. Mine(w) \in Jobs
    BY <1>3, <1>k DEF StartJob, Heartbeat
  <2>2. CASE job' = job
    BY <2>2, <1>q
  <2>3. CASE job' # job
    <3>1. /\ Owns(w, Mine(w))
          /\ \/ job' = [job EXCEPT ![Mine(w)] = Renewed(@)]
             \/ job' = [job EXCEPT ![Mine(w)] =
                          [Renewed(@) EXCEPT !.status = "running"]]
      BY <1>3, <2>3 DEF StartJob, Heartbeat
    <3>2. \A row \in JobRows :
            /\ [Renewed(row) EXCEPT !.status = "running"].attempts =
                 row.attempts
            /\ [Renewed(row) EXCEPT !.status = "running"].status = "running"
            /\ Renewed(row).attempts = row.attempts
            /\ Renewed(row).status = row.status
      BY DEF Renewed, JobRows
    <3>3. \A i \in Jobs : /\ job'[i].attempts = job[i].attempts
                          /\ \/ job'[i].status = job[i].status
                             \/ /\ job'[i].status \in Leased
                                /\ job[i].status \in Leased
      <4>1. \A i \in Jobs : i # Mine(w) => job'[i] = job[i]
        BY <3>1, <1>r
      <4>2. job[Mine(w)] \in JobRows
        BY <2>1, <1>r
      <4>3. \/ job'[Mine(w)] = Renewed(job[Mine(w)])
            \/ job'[Mine(w)] =
                 [Renewed(job[Mine(w)]) EXCEPT !.status = "running"]
        BY <2>1, <3>1, <1>r
      <4>4. /\ job'[Mine(w)].attempts = job[Mine(w)].attempts
            /\ \/ job'[Mine(w)].status = job[Mine(w)].status
               \/ job'[Mine(w)].status = "running"
        BY <3>2, <4>2, <4>3
      <4>5. job[Mine(w)].status \in Leased /\ "running" \in Leased
        BY <3>1 DEF Owns, Leased
      <4>. QED BY <4>1, <4>4, <4>5
    <3>. QED BY <3>3, Invisible DEF LifeOf
  <2>. QED BY <2>2, <2>3
<1>4. CASE CompleteJob(w)
  <2>1. Mine(w) \in Jobs
    BY <1>4, <1>k DEF CompleteJob
  <2>2. CASE ~Owns(w, Mine(w))
    BY <1>4, <2>2, <1>q DEF CompleteJob
  <2>3. CASE Owns(w, Mine(w))
    <3>1. job' = [job EXCEPT ![Mine(w)] =
            [Released(@, "succeeded") EXCEPT !.result = worker[w].attempt]]
      BY <1>4, <2>3 DEF CompleteJob
    <3>2. /\ job'[Mine(w)].attempts = job[Mine(w)].attempts
          /\ job'[Mine(w)].status = "succeeded"
      BY <2>1, <3>1, <1>r DEF Released, JobRows
    <3>3. \A i \in Jobs : i # Mine(w) => job'[i] = job[i]
      BY <3>1, <1>r
    <3>. QED BY <2>1, <2>3, <3>2, <3>3, <1>2
  <2>. QED BY <2>2, <2>3
<1>5. CASE FailJob(w)
  <2>1. Mine(w) \in Jobs
    BY <1>5, <1>k DEF FailJob
  <2>2. CASE ~Owns(w, Mine(w))
    BY <1>5, <2>2, <1>q DEF FailJob
  <2>3. CASE Owns(w, Mine(w))
    <3>. DEFINE s == IF worker[w].fatal \/ ~RetriesLeft(Mine(w))
                     THEN "failed" ELSE "queued"
    <3>1. job' = [job EXCEPT ![Mine(w)] = Released(@, s)]
      BY <1>5, <2>3 DEF FailJob
    <3>2. /\ job'[Mine(w)].attempts = job[Mine(w)].attempts
          /\ job'[Mine(w)].status = s
      BY <2>1, <3>1, <1>r DEF Released, JobRows
    <3>3. \A i \in Jobs : i # Mine(w) => job'[i] = job[i]
      BY <3>1, <1>r
    <3>. QED BY <2>1, <2>3, <3>2, <3>3, <1>2
  <2>. QED BY <2>2, <2>3
<1>6. CASE \/ ValidateClaim(w) \/ DenyExecution(w) \/ CallHandler(w)
           \/ DenyDispatch(w) \/ Dispatch(w) \/ CommandEnds(w)
           \/ HandlerRaises(w) \/ Launch(w) \/ Mirror(w)
  BY <1>6, <1>q, QuietActions DEF Quiet, IInv
<1>7. CASE Crash(w) \/ Restart(w)
  BY <1>7, <1>q DEF Crash, Restart
<1>. QED BY <1>1, <1>3, <1>4, <1>5, <1>6, <1>7 DEF WorkerStep, Lifecycle!Next

\* Workers, leases, heartbeats, sweeps and the clock together give callers the
\* lifecycle of JobLifecycle: submitted once, handed out at most MaxAttempts
\* times, ended once and for good.
THEOREM QueueImplementsLifecycle == Spec => ImplementsLifecycle
<1>1. Init => Lifecycle!Init
  BY DEF Init, Lifecycle!Init, LifeOf, Leased
<1>2. IInv /\ [Next]_vars => [Lifecycle!Next]_(Lifecycle!vars)
  <2>. SUFFICES ASSUME IInv, [Next]_vars
                PROVE  [Lifecycle!Next]_(Lifecycle!vars)
    OBVIOUS
  <2>1. CASE UNCHANGED vars
    BY <2>1, Invisible DEF vars
  <2>2. CASE Next
    BY <2>2, EnvironmentRefines, WorkerRefines DEF Next
  <2>. QED BY <2>1, <2>2
<1>. QED BY <1>1, <1>2, Invariance, PTL
         DEF Spec, ImplementsLifecycle, Lifecycle!Spec
=============================================================================
