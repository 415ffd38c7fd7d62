# A TLA+ model of sift-mcps

sift-mcps is a forensic workstation driven by AI agents. A *gateway* process
serves MCP tools to agents and a portal to operators; PostgreSQL holds all
authority (cases, custody, jobs, findings, tokens); *worker* processes run long
commands and ingests from a durable queue; add-on backends answer lookups.

This directory models the parts on which the rest relies and which are the
hardest to test: the **durable job queue**, **evidence custody**, the **review of
findings**, the **authorisation of a tool call**, the **audit trail** and the
**OpenCTI client**.
Paths below are relative to `packages/*/src/` or `supabase/migrations/`.

## 1. Inventory

| Component | State | Operations | Talks to |
|---|---|---|---|
| Durable job queue (`202606081200_durable_jobs.sql`) | `app.jobs`, `app.job_steps` | enqueue, claim, start, heartbeat, complete, fail, cancel, expire, record step | gateway, workers |
| Job worker (`sift_core/execute/job_worker.py`) | the claimed job in memory | claim, validate, run, report | queue, handlers |
| Job handlers (`run_command_job.py`, `opensearch_mcp/ingest_job.py`) | progress of one job | dispatch under a shared lock; launch and poll a run | queue, custody, disk |
| Reaper (`sift_gateway/server.py`) | none | periodic sweep of lapsed leases | queue |
| Custody tables and RPCs (`202607132100`, `202607132200`, `202607131900`, `202606081000`) | inventory, observations, objects, versions, manifests, seal operations, receipts, chain | reconcile, seal begin/protect/commit, ignore, retire, reprotect, gate | gateway, worker |
| Seal, Resolve, admission (`sift_gateway/custody/*.py`) | the evidence directory and its immutable flags | begin and commit a seal, dispositions, refresh, resolve a sealed version | RPCs, disk |
| Evidence gate middleware (`policy_middleware.py`) and binding (`evidence_binding.py`) | one call's pins | reconcile before dispatch, pin, revalidate, open | custody, queue |
| Custody reauthorisation, ledger export | audit rows, exported chain | verify a password once per action; export, anchor | custody |
| Active case (`active_case.py`) | the deployment's active case | create, switch, update | every call |
| Investigation authority (`investigation_store.py`, `case_manager.py`) | findings, timeline, IOCs, to-dos | agent upsert, human review | portal, reports |
| Review portal and reports (`case_dashboard/routes.py` and its front end) | copies on screens, staged decisions, pending report | poll, stage, commit, attest, generate | investigation, approval ledger |
| Approval ledger (`202606141200`) | commit events | append | portal |
| Authentication (`supabase_auth.py`) | cached identities, principals | resolve, issue, revoke | every request |
| Policy middleware (`policy_middleware.py`) | one call's pinned case and audit rows | authorise, pin the case, audit, inject, gate | every call |
| Audit writer (`sift_common/audit.py`) | sequence numbers, JSONL files, sidecar | mint, append, note, under two locks | every tool |
| OpenCTI client (`opencti_mcp/client.py`, `cache.py`) | session, circuit breaker, response and health caches | search with retries, health check, fall back, evict | server |
| Backend registry and backends | desired and running backends | register, enable, start, stop, health | agents |
| OpenSearch, knowledge backends | ingest status | ingest, search, look up | gateway |
| Execution sandbox, response guard, reporting, dashboard, installer | little or none | parsing, redaction, rendering, provisioning | - |

`PROJECT.json` lists every component with its files and says for those that
are not modelled why not.

What is hard here:

* **Stale claims.** A worker acts for minutes on what it learnt at the claim,
  while sweeps, cancellations, other workers and its own crash go on.
* **Check, then use.** A command passes a scan, a gate, a pin, a revalidation and
  an open, in two processes; between any two of them others write to disk and
  operators seal and retire. No scan reads file contents. A selection for
  OpenSearch passes scan and gate, and is opened by its path.
* **File system and database together.** Seal and reprotect set flags on disk
  and record facts in a transaction; a crash or a write falls in between.
* **Retries.** Every portal operation may be repeated under its idempotency key.
* **Seen, then applied.** An examiner decides on a copy that the browser polled
  some time ago; agents go on writing until, and while, the decision is committed
  after a password.
* **Read, then cached.** Revocation has three steps in two systems; a resolution
  that read the row before may cache it after.
* **Pinned, then moved.** A call pins the active case, and an operator switches it.
* **Locks that cover less than they seem to.** A row lock on a row that does not
  exist; a file lock that all threads of a process share, or that a call does
  without.
* **Locks.** A running command holds an advisory lock in shared mode that every
  custody RPC takes exclusively.

The hazards, each at its line and with the properties that would catch it, are
listed in `PROJECT.json`.

## 2. Modules

| Module | Role |
|---|---|
| `JobLifecycle` | abstract: a job waits, is handed out at most so often, ends once |
| `JobQueue` | the queue's RPCs, workers, handlers, reaper, time, crashes |
| `MCJobQueue` | instances for TLC |
| `JobQueueProofs` | theorems about `JobQueue` |
| `EvidenceLedger` | abstract: paths are sealed once, in whole sets, and only ever retired; one manifest per change |
| `CustodyStore` | the custody tables, their RPCs and the computed gate |
| `Custody` | `CustodyStore` with the directory, the portal's handlers, the calls of agents, writers and crashes |
| `MCCustody` | instances for TLC |
| `CustodyProofs` | theorems about `Custody`: objects, seals, gate, contents, refinement |
| `CustodyChainProofs` | theorems about `Custody`: the count of manifests, the chain of events |
| `Investigation`, `MCInvestigation`, `InvestigationProofs` | agents' upserts, the examiner's review, reports |
| `Access`, `MCAccess`, `AccessProofs` | a tool call from token to receipt, under revocation and case switches |
| `AuditWriter`, `MCAuditWriter`, `AuditWriterProofs` | numbered audit entries of threads and processes |
| `OpenCTIClient`, `OpenCTIProofs` | retries, circuit breaker and cache against a server that fails |

`Custody` takes up a call where `Access` dispatches it, and `JobQueue` a command
where `Custody` hands it to a worker; `Access` and `Investigation` share no state.

Every module but the abstract ones and the instances also defines a few *faults*:
variants of a definition with a plausible mistake in it (a missing owner test,
an off-by-one, a forgotten reset). Nothing uses them; put in the place of the
definition they make TLC refute the property that `PROJECT.json` pairs them
with, which shows that the property depends on that line of the code.

### JobQueue

`job[j]` is the row of `app.jobs`, `step[j][0..1]` the two progress rows a
handler writes, `worker[w]` the memory of a worker process. Every RPC is one
transaction and one action; the worker's loop is a program counter:

    idle -ClaimNext-> claimed -ValidateClaim-> ready -StartJob-> started -CallHandler->
      run_command: preexec -Dispatch-> executing -CommandEnds-> completing -CompleteJob-> idle
      ingest:      launching -Launch-> polling -Heartbeat-> mirroring -Mirror-> polling ...
                   completing -CompleteJob-> idle
    and from most of them failing -FailJob-> idle

* A lease is the number of ticks left (`lease`), so time needs no unbounded
  clock; it has lapsed at 0. `Tick` lets a lease run down.
* `beat` is what the last heartbeat answered. `gap` counts the ticks since then,
  and `Tick` waits for a worker whose gap is at `PollGap`. The mirror loop sleeps
  5 s and reads status files, the lease is 300 s, so `PollGap < Lease` is
  realistic *from the first heartbeat on*. Nothing bounds the time before it: the
  launch runs in the worker, and probes memory images for up to ten minutes and
  disk images without a timeout. A command has no bound either: its worker calls
  nothing until it ends. Leases may lapse in both.
* The handler ignores what the heartbeat answers, so `Mirror` goes on with a lost
  job, and `record_job_step` has no owner test.
* `HandlerRaises` is any exception that is not fatal; `fatal` is the
  `p_force_terminal` argument of `fail_job`.
* `Crash` loses the worker's memory; `Restart` gives it the same `worker_id`.
* The attempt stored in a step row and in `result` is an annotation: it says
  whose words a reader of the row is shown.
* Simplified: `for update skip locked` is taken as an atomic choice of the first
  eligible row; `enrich` behaves as `ingest`; `report` jobs have no handler; the
  two tables `job_logs` and the worker board are read by nobody here.

### CustodyStore and Custody

One case. A file is `[bytes, id, kind, mode]`; a scan sees all of it but the
bytes. `object[p]` is the evidence object at a path with its current version,
`manifest` the sequence of manifests, `seal[k]` the operation of an idempotency
key, `receipt` the receipts of dispositions, `chain` the custody events,
`inventory` and `storage` what the latest reconciliation recorded. `GateState`
is `custody_gate_state`.

`Custody` adds the disk (`disk`, `locked`, `dirlocked`, `mounted`), the portal
handler in progress (`portal`) and each call (`call[c]`):

    portal: Refresh    RefreshScan, RefreshReconcile
            Seal       BeginSeal, LiftDirectory | CommitStart, (HashTarget, FlagTarget)*,
                       LockDirectory, CommitSeal
            Resolve    Ignore | Retire | ReprotectHash, ReprotectFlag, ReprotectRecord
    call:   Scan, Reconcile, Pin, then
            a command in the gateway: Revalidate, Open
            or in the worker: (Recheck, RecordInventoryChange | Refuse),
            HoldExecutionAuthority, Open, Finish
            a selection: OpenByPath
    others: Edit, Remount, GatewayCrash

* Portal handlers run on the event loop of a single process without awaiting
  (`__main__.py:128`), so one at a time; calls reconcile in threads and workers
  are processes, so their steps interleave with a handler's.
* `LockFree` is the exclusive advisory lock: it cannot be had while a command
  holds it in shared mode. The lock is held within one transaction, so only the
  shared holders, which span several steps, need state.
* Two surfaces read evidence. `run_command` opens descriptors that were pinned,
  and asks for the flag at the open. `opensearch_ingest` and
  `opensearch_inspect_container` get the path of the sealed version; the backend,
  or the worker of an ingest job, opens it later and asks nothing (`OpenByPath`).
  `surface` tells them apart.
* `changed` is the set of paths touched since a call was pinned; the code
  compares change times, inodes and sizes, which every touch moves.
* `PROTECTED` is never seen by another transaction, because protect and commit
  run in one; the model has no such phase. The `EVIDENCE_SEALED` events of one
  commit are one entry of `chain`.
* A changed or replaced file has no immutable flag: whoever changed it had to
  clear it first, or it is another inode. Nobody but the gateway sets it.
* Left out: the hash links of the chain, reauthorisation (taken to succeed; a
  refusal stops before any change) and its audit rows, the owner of a file,
  `full_verify` (it only reads), several evidence references in one call. A
  commit that names a snapshot which is not the latest is refused without a
  change and is not a step.

### Investigation

`row[k][n]` is the row of the finding, event or IOC with number `n`, `call[c]` a
tool call of an agent, `delta` the file of staged decisions, `portal` the commit
handler, `gen` and `report` the report handler and its result.

    call:    RecordFinding, LinkTimeline | RecordTimelineEvent, then per row
             UpsertRefused | UpsertUpdate | UpsertMissing, Insert   (StoreFails)
             and LoadIocs before the IOC's row
    browser: Poll
    portal:  StageDecision, StageEdit, UnstageDecision; CommitStart,
             CommitDenied | ApplyReview, ClearDelta, AttestApproved;
             ReportStart, ReportDenied | ReportGenerate
    gateway: Crash

* `shown[k][n]` holds the copies of an item that browsers show. `Poll` brings one
  up to date; the others stay as old as they are, and decisions and edits are
  staged on any of them. `PostDelta` replaces the whole document by the browser's,
  so it may drop what others staged.
* A decision names the hash of its copy or, as the server requires none, no hash
  (`NoHash`); then nothing is compared. The action `stage` of the front end, which
  a commit skips as unknown, is left out.
* `seen` and `unchecked` are history variables of a row: the copy its last
  decision was taken on, and whether the server had nothing to compare it with,
  because the decision named no hash or a rejection with edits had left the row
  with the hash of its former content.
* Tool calls run in threads. Portal handlers run on the event loop and
  interleave only where they await: at the password, which is why `ReportStart`
  and `ReportGenerate`, and `CommitStart` and `ApplyReview`, are apart.
* `UpsertUpdate` reads and writes under the row's lock, so it is one step; with
  no row there is nothing to lock, hence `UpsertMissing` and `Insert`.
* A body is the calls it comes from, the IOC's value and the number of edits. The
  two hashes are injective on what the code's hashes cover: the one of an IOC
  leaves its sightings out.
* The ledger's table wants a prefix that the hashes do not have, so
  `AttestApproved` appends nothing: that is what the code does, and it is a
  finding.
* Left out: to-dos, validation of texts, several IOCs in a call, the mode in
  which case files and not the database are the authority, and the version
  column (the lock is held from read to write, so its guard never fails).

### Access

`call[c]` goes through `Stages`, one per await: `Resolve` (a cached identity or
`GetUser`, `Lookup`, `CachePut`), `Authorize`, `CaseContext`, `AuditRequest`,
`Dispatch`, `AuditResult`. `cache[t]` is the expiry of a token's identity,
`trail[c]` the audit rows. Revocation is `DisableRow`, `DeleteUser` (which may
fail with or without effect), `Invalidate`; a failed or finished one may be
repeated. `SetActiveCase`, `Tick` and `Restart` happen at any time.

* `MaxLag` bounds the time between reading a principal's row and caching it; the
  code has no such bound, so the guarantee that is checked names it.
* A refusal by the rate limiter, an unreachable Supabase and a failing audit
  database are outcomes of the actions that call them.
* `revokedAt` and `raced` are history variables.
* Principals are agents; operators act through `SetActiveCase` and revocation.

### AuditWriter

`thread[t]` is one call of `log()`: `Begin`, `AcquireXprocLock` or
`ProceedUnlocked`, `MintSeq`, `WriteEntry`, `WriteSidecar`, `ReleaseXprocLock`;
`holder` is the *process* whose descriptor has the file lock, `mem[p]` its counter.
`Crash` loses memory and lock, `Midnight` changes the day. The in-process lock
covers `MintSeq` only.

* `ProceedUnlocked` is a lock file that cannot be opened, a `flock` that raises or
  a host without `fcntl`: the call goes on without the lock, and its end releases
  nothing.
* `WriteEntry` has three outcomes: the entry is in the file, or it is not, or it
  is and `fsync` raised, so that the call returns as if it were not.
* `cut` records that an entry was not noted in the sidecar, `unguarded` that two
  threads of a process held the lock at once or that a call went without it.
* Left out: an unlock that fails (the lock would stay until the process ends or
  unlocks again) and a log that cannot be read when the counter resumes (it would
  resume at 0).

### OpenCTIClient

`req[r]` is a thread in `search_indicators` or `is_available`: `Search`,
`RateLimited`, `IsAvailable`, then `Execute`, `Connect`, `Query`, `Backoff`.
`breaker` is the circuit breaker, `client` the session all threads share.
`Restart` is a start with its probe. Time is kept as what has lapsed.

* The server is `up`, `down`, refuses the token (`denied`) or has another major
  version than pycti (`mismatch`). `Connect` refuses the last, unless the version
  cannot be read; then a query may be answered or rejected. A transient error that
  is an authentication error as well keeps the session (`ClientDropped`).
* Only `search_indicators` has the cache and the fallback. The other searches
  (`client.py:1352-1480`) share nothing with it but `_execute_with_retry`, and fail
  when that fails.
* One query is modelled, so one entry. `Evict` is what the other searches for
  indicators do to it once the cache is full. It may happen at any time, also to an
  entry just written: a renewed entry keeps its old place in the order.
* The breaker, the retries and the two feature flags are as the configuration sets
  them; adaptive timeouts change no step and are left out.

## 3. Runs

| Run | Expect | States | Shows |
|---|---|---|---|
| `JobQueueSafety` | pass | 1,450,889 | leases, attempts, fencing, results, progress; refinement of `JobLifecycle` |
| `JobQueueLiveness` | pass | 210,682 | every enqueued job ends |
| `JobQueueCommandLease` | violation | - | a live worker loses the lease of the command it runs |
| `CustodyDispatch` | pass | 1,307,909 | commands open sealed bytes only, selections what was admitted; commands run on an open gate |
| `CustodyLedger` | pass | 635,238 | all-or-nothing seals, manifests, chain, retries; refinement of `EvidenceLedger` |
| `CustodyReprotectRace` | violation | - | a failed reprotect leaves the flag on changed bytes |
| `CustodyBrick` | violation | - | a seal of a path that has an object can never commit |
| `CustodyWindow` | violation | - | a replayed begin lifts the directory's flag outside a window |
| `InvestigationReview` | pass | 1,039,490 | what is checked and approved, and reported, is what the browser showed; what may overwrite a review |
| `AccessPolicy` | pass | 4,026,582 | revoked tokens die in time; agents stay in their case; mutations are audited under it |
| `AuditTrail` | pass | 362,062 | when audit ids are unique; the sidecar follows the log; no call hangs |
| `OpenCTI` | pass | 100,351 | a consistent circuit breaker, outages masked until eviction, recovery |

Bounds, and why they are enough:

* Two workers and two jobs of the two kinds: fencing needs a worker that lost a
  job and one that has it; priority needs two jobs. One of the jobs has two
  attempts, a retry and the last one, and the other has one: the ingest is
  retried in `JobQueueSafety`, where its progress row is at stake, the command in
  the other two runs. `Lease = 2`, `PollGap = 1`: a lease can run down by a tick
  and be renewed, and can lapse. One crash. The workers are symmetric except in
  the liveness run, where each serves one lane, as the systemd units set it up.
* `CustodyDispatch`: one path with four files (original, rewritten in place,
  with another mode, a symbolic link), two changes by others, two seal keys, all
  dispositions, one call. Two changes suffice to rewrite a file and put back or
  hide the trace. `CustodyLedger`: two paths with one file, so that a seal can
  fail half way, two seal keys, a retirement under two keys, one change, no
  call: the tables do not depend on calls other than through reconciliation,
  which Refresh also makes.
* `InvestigationReview`: two calls, one number of each kind, so that both calls
  compute the same number, which is the race of interest, recording a finding with
  a time and an IOC or one with neither; one copy on a screen, which is as old as
  the browser lets it get, one staged decision and one edit by the examiner.
  Decisions are on findings (`Reviewable`): events take the same path, and the
  proofs are for all kinds and any number of copies and decisions. A third call
  would only repeat what the second may do: write before the poll, between poll
  and commit, or after.
* `AccessPolicy`: two calls, so that one may resolve while the other's token is
  dropped; two tokens of one principal, since revocation has to find all; two
  cases; a tool that is mutating, case-scoped and proxied and one that is none of
  these. A lifetime and a lag of one, and a clock to 2, put acceptances before,
  at and after the limit.
* `AuditTrail`: two threads of one process and one of another are what it takes
  to lose the file lock; three calls, so that a number repeats after a loss and
  a third call meets the repeated one; two days, one crash.
* `OpenCTI`: two threads, a threshold of 2 and two retries: failures of both
  threads add up to the threshold, and a retry may find the other's session.
* The `Max...` constants are the only bounds on behaviour; crashes of the
  gateway are not bounded. Deadlock is checked in every run but
  `InvestigationReview` and `AuditTrail`, whose behaviours end when every call was
  made.

Fairness (`JobQueue!Fairness`, liveness run only): a worker that can take a step
takes one, because a command ends by its timeout, an ingest by its deadline and
`run_forever` never stops claiming (the tools a launch calls, of which `_run_tsk`
has no timeout, are taken to return); systemd restarts a dead worker; the gateway
sweeps periodically and goes on after a failed sweep (`server.py:1089-1110`);
time passes. Nothing is assumed of callers and operators. `AuditWriter` assumes
that the operating system schedules each thread that can run; nothing makes a
caller call, a lock fail or a day end, so a call that waits for the lock gets it
because its holder gives it up. `OpenCTIClient` assumes that a thread's call goes on,
that timeouts and lifetimes lapse, and that agents keep searching: a breaker that
nobody asks never closes. Nothing is assumed of the server; `Recovers` has its
return as a premise.

What the properties qualify, because the code promises less than its text:

* `IngestKeepsClaim` begins at the first heartbeat, and `ProgressNeverRegresses`
  excepts a worker that its heartbeat told it had lost the job;
* `OpensSealedBytes` promises the sealed bytes to commands only; of a selection it
  says that its path was admitted;
* `OnlyBlindInsertsOverwrite` excepts the insert that found no row;
* `ApprovedWasSeen` and `ReportWasSeen` except what the server had no hash to check
  with (`unchecked`); the first is not stated of IOCs, whose hash leaves the
  sightings out;
* `NoResidueOfRevoked` excepts a resolution that was about to cache, and
  `DeniedWithinTTL` allows it its lag;
* `UniqueWhileGuarded` excepts a cut between append and sidecar, threads that share
  the lock and calls without it; `OneWriterMintsFresh` a writer that minted for two
  days;
* `OutageIsMasked` ends when the answer is evicted, and is about
  `search_indicators` with caching and degradation on; `Recovers` excepts a server of
  another major version, a client that started degraded and health checks that
  keep a dead session.

Each exception is a finding in `PROJECT.json`, and TLC refutes each property
without its exception.

### Where code and text disagree

The four violation runs, each quoted in `PROJECT.json`:

1. *Commands and their lease.* "takes a lease and heartbeats it while running"
   (`job_worker.py:9`): the ingest handler does, the run_command handler does
   not, and the default timeout of a command is twice the lease. `WorkerIdFences`
   and `ResultOfLastAttempt` limit the damage: the late result is dropped, but
   the command may run twice at once.
2. *Reprotect.* "an agent can never read drifted or unadmitted evidence"
   (`policy_middleware.py:648`) holds of commands in `CustodyDispatch`, where nobody
   writes the file between the two hashes of a reprotect, and is proved under that
   premise. (Of selections it does not hold at all: their bytes are opened by path.
   The custody specification calls that intentional.) Without the premise, the failed
   reprotect leaves the immutable flag, the only thing the open checks, on changed bytes.
3. *Bricked seal.* "it never bricks the case" (`202607132100`, header): a seal
   whose target has an evidence object, a retired one included, fails at every
   commit, and there is no way to abandon it.
4. *Staging window.* "the flag is lifted ONLY inside a reauthorized staging
   window" (`seal.py:497`): a begin replayed after its commit lifts it too.

The others in `PROJECT.json` "findings" have no run of their own: they are the
exceptions above and what reading and modelling the code showed on the way.

## 4. Proofs

`tlapm M.tla` checks the proofs of a module `M` among `JobQueueProofs`,
`CustodyProofs`, `CustodyChainProofs`, `InvestigationProofs`, `AccessProofs`,
`AuditWriterProofs` and `OpenCTIProofs`. Everything below holds for every value of
the constants that satisfies the named assumptions of the module in question.
Every invariant and every action property that a passing run checks is also a
theorem, and so are the two refinements. Each inductive invariant was checked
with TLC on the run of its module before it was proved.

**JobQueue.** `IInv` joins the types and four properties with two facts that
make them inductive: a worker has a job exactly when it is neither idle nor down
(`MemoryOK`), and an absent job was never handed out (`AbsentIsFresh`).
`WorkerIdFences` is itself the strengthening that `ResultOfLastAttempt` needs:
who passes the owner test remembers the newest attempt. From it follow
`TypeCorrect`, `LeasesConsistent`, `AttemptsBounded`, `Fenced`, `LastResultWins`
and the action property `EndedStaysEnded`.

`IngestInv` adds why the mirror loop keeps a claim that its first heartbeat found
(`LeaseCoversGap`): the ticks since the last heartbeat and the ticks left on the
lease make up at least a lease. With `Timely` (`PollGap < Lease`) the lease is
never 0 under it, so the reaper passes it by: `LongIngestKeepsClaim`. Nothing is
assumed of the launch before the loop, so the first heartbeat may find the claim
gone; a worker that never heard so is the only one that writes progress for the
newest attempt: `ProgressMonotone`. `QueueImplementsLifecycle` maps each action to a
step of `JobLifecycle` or to a stutter.

**Custody.** `IInv` joins the types, what a handler in progress relies on
(`PortalOK`), what a pinned call names (`PinsOK`), that objects have files
(`ObjectsOK`) and that one seal is active (`OneActiveSeal`) with the safety
properties. The key step for `ExecutingUnderOpenGate` is that every action which
writes a table requires `LockFree`. Theorems: `TypeCorrect`, `AllOrNothing`,
`ManifestIsSealedSet`, `ExecutesUnderOpenGate`, `CustodyImplementsLedger`.

`BytesInv` is about contents, which no scan reads. Its argument: the flag of an
object's file vouches for its bytes unless a seal names the path again
(`FlagVouches`); what the seal in progress has hashed and flagged is still so
(`FactsVouch`); while reprotect runs nobody writes (`ReprotectQuiet`, from the
assumption `QuietReprotect`); and once a call saw the gate open, which no seal
in progress allows, what a command may still open is sealed (`PinsVouch`). Hence
`FlagsVouch` and `CommandsReadSealedBytes`; what the invariant says of a selection
is that its path has an object.

`CustodyChainProofs` is about what is recorded for good. Its lemma `RecordMoves`
says that objects, operations, manifests, receipts and chain change in four ways
only: a begin, a commit, a retirement, and an event that changes no object.
`ManifestsAreCounted` adds to the count that its two sets are finite, which is not
a property of the constants: there may be infinitely many keys, but only so many
were used. `ChainTellsTheState` needs what an appended event does to the last word
on a path (`TellsAppend`) and to the number of events of a type (`CountAppend`), and
`OneActiveSeal`: the window a commit closes is the only one open.

**Investigation.** `ApprovedWasSeen` and `ReportWasSeen` rest on the comparison of
hashes when a decision is applied, so the question is whether equal hashes mean
that the browser showed this content. `IInv` answers with what is known of a
*version* of an item (`VersionOK`), that is, a content and the hash it had: the
hash is of that content or of an earlier edit of it, since a rejection changes the
content and not the hash; it comes from no call that has yet to write (`Pending`),
so that no late write brings back a hash that was shown; and of the same text the
row's is the latest edit. Rows, copies on screens and staged decisions are versions
(`RowsOK`, `ScreensOK`, `EntriesOK`). If a decision names its hash, the row has that
hash, and the row's hash is that of its content, then the copy was no older edit
and no newer one: it is what the row holds. If one of the three fails, the row is
marked `unchecked`, and the theorems say nothing of what was seen.
`LocksBindAgents` follows from the actions and the types alone.

**Access.** `CallInv` says what a call has pinned at each stage and which audit
rows it has: no stage after `CaseContext` changes the case, and no tool is
dispatched before its request is written. From it follow `AgentsStayInTheirCase`,
`MutationsAudited` and `TrailNamesItsCase`; what the active case is by then does
not occur in it. `RevokeInv` is about time. No identity is cached for longer than
its lifetime, one about to be cached was read at most `MaxLag` ago (`TimesOK`),
and after a revocation no row of the principal is read as active any more, so that
all that is cached or pending was read before it (`RevokedOK`). `DeniedInTime`
adds the two up. Assumed of the constants: there are tokens and tools, the times
are natural numbers.

**AuditWriter.** `IInv` bounds the numbers in memory, sidecar and log by the number of
calls, counting those that have yet to mint (`NumbersBound`), which is where the
assumption comes from that there are finitely many threads; and it has the order of
append and note (`NotedIsWritten`), from which `SidecarNeverLeads` follows.
`UniqueInv` adds that the file lock excludes unless it was shared or a call went
without it (`Exclusive`), and that under this exclusion a minted number is above all
those of its day, as the sidecar is the highest of its day but for the entry about to
be noted (`Ordered`). `IdsAreUnique` is then immediate. `WriterMintsFresh` does
without the file lock: the counter of a process has passed all it minted as long as it
minted for one day (`CounterAhead`), and minting is under the in-process lock.

**OpenCTIClient.** `BreakerConsistent` is inductive with the types, because every
step that counts a failure or a success sets the state in the same critical
section. `OutagesAreMasked` needs that what was answered and not evicted is in the
cache, however old (`AnswersKept`), that an answer from there needs the degradation
flag, which is its premise, and that a thread at work has no outcome yet
(`ThreadsOK`).

Only model-checked: the three properties of liveness, `EveryJobEnds`,
`EveryCallEnds` and `Recovers`. They depend on fairness and hence on when actions
are enabled, which is out of the prover's reach.

## 5. Not modelled, and the plan

Of the 100,000 lines of the repository most are parsers of forensic formats, query
builders, catalogues, text rendering, command-line policy, redaction, installer
scripts and a browser front end: code without state that outlives a call, for
which a model would repeat the code. The map names the lines that keep state or
order steps, and no others; it therefore covers a small share of the whole.

Not modelled for other reasons:

* *MCP token registry*: nothing calls its create, rotate and revoke any more.
* *Backend registry*: `Gateway.call_tool` and `ensure_backend_started`, where a
  start could race a stop, have no caller; registry rows are written by one
  operator at a time.
* *Rate limiter*: a window that one event loop touches; its refusals are outcomes.
* *Custody reauthorisation, hash links, export and anchoring* of the ledger:
  planned below.
* *OpenSearch*: the status file of an ingest run is planned below.
* *Four hazards* have no property. The wait of every RPC for running commands and
  the starvation of a commit need the composition below. The crash between a
  review and its attestation is in `Investigation`, but as the ledger takes no
  approval, nothing can be said of its contents. The bytes of a selection are
  protected by nothing in the code.

Models planned: the composition of `JobQueue` and `Custody` through the advisory
lock (no portal handler waits for ever, a refused commit gets through);
reauthorisation and the batch of `resolve`; the custody chain with the hash as
an injective function; the status of an ingest run. Each of them brings
its invariants to be proved in the same way.
