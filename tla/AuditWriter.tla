------------------------------ MODULE AuditWriter ------------------------------
(***************************************************************************)
(* The audit trail on disk (sift_common/audit.py): threads of several      *)
(* processes that share one directory and one mcp_name mint numbered ids,  *)
(* append their entries to a JSONL file and note the last number in a      *)
(* sidecar.                                                                *)
(*                                                                         *)
(* The file lock belongs to the open file description, of which a process  *)
(* has one: a second thread of the holder gets it at once, and the first   *)
(* unlock gives it up for both.  A call that cannot open the lock file or  *)
(* get the lock goes on without it.  The in-process lock covers the mint   *)
(* only.                                                                   *)
(* Ids carry the day; the examiner in them is left out, and so are the     *)
(* callers that bring an id of their own (_next_audit_id), which is minted *)
(* outside of the file lock.                                               *)
(***************************************************************************)
EXTENDS Naturals, FiniteSetsExt

CONSTANTS
    Processes, Threads,
    ProcessOf,   \* ProcessOf[t]: the process a thread belongs to
    MaxDays,     \* bound on the days
    MaxCalls,    \* bound on the calls of log()
    MaxCrashes,  \* bound on the crashes
    Nobody

Days == 1 .. MaxDays
Numbers == 0 .. MaxCalls
Ids == [day: Days, seq: Numbers]

ASSUME AuditAssumption ==
    /\ IsFiniteSet(Threads)
    /\ ProcessOf \in [Threads -> Processes]
    /\ MaxDays \in Nat \ {0}
    /\ MaxCalls \in Nat
    /\ MaxCrashes \in Nat
    /\ Nobody \notin Processes

VARIABLES
    today,    \* the date
    holder,   \* the process whose lock file descriptor holds the flock
    mem,      \* mem[p]: _date_str and _sequence of the process's writer
    log,      \* log[i]: how many entries of the JSONL file have the id
    sidecar,  \* the last number noted, and its day
    thread,   \* thread[t]: a call of log()
    calls,    \* the calls of log() made
    minted,   \* minted[p]: the ids a process minted since its start
    cut,      \* an entry was not noted in the sidecar
    unguarded, \* two threads of a process held the lock, or one went without
    crashes

vars == <<today, holder, mem, log, sidecar, thread, calls, minted, cut,
          unguarded, crashes>>

Fresh == [day |-> 0, seq |-> 0]

Idle == [pc |-> "idle", id |-> [day |-> 1, seq |-> 0], locked |-> FALSE]

TypeOK ==
    /\ today \in Days
    /\ holder \in Processes \cup {Nobody}
    /\ mem \in [Processes -> [day: {0} \cup Days, seq: Numbers]]
    /\ log \in [Ids -> 0 .. MaxCalls]
    /\ sidecar \in [day: {0} \cup Days, seq: Numbers]
    /\ thread \in [Threads -> [pc: {"idle", "flock", "mint", "append",
                                    "sidecar", "release"},
                               id: Ids, locked: BOOLEAN]]
    /\ calls \in 0 .. MaxCalls
    /\ minted \in [Processes -> SUBSET Ids]
    /\ cut \in BOOLEAN
    /\ unguarded \in BOOLEAN
    /\ crashes \in 0 .. MaxCrashes

Init ==
    /\ today = 1
    /\ holder = Nobody
    /\ mem = [p \in Processes |-> Fresh]
    /\ log = [i \in Ids |-> 0]
    /\ sidecar = Fresh
    /\ thread = [t \in Threads |-> Idle]
    /\ calls = 0
    /\ minted = [p \in Processes |-> {}]
    /\ cut = FALSE
    /\ unguarded = FALSE
    /\ crashes = 0

histVars == <<minted, cut, unguarded, crashes>>

-----------------------------------------------------------------------------
(* AuditWriter.log.                                                        *)

\* The day is read before the lock is asked for.
Begin(t) ==
    /\ thread[t].pc = "idle"
    /\ calls < MaxCalls
    /\ calls' = calls + 1
    /\ thread' = [thread EXCEPT ![t] = 
           [pc |-> "flock", id |-> [day |-> today, seq |-> 0], locked |-> FALSE]]
    /\ UNCHANGED <<today, holder, mem, log, sidecar, histVars>>

\* _acquire_xproc_lock blocks while another process holds the lock.
AcquireXprocLock(t) ==
    /\ thread[t].pc = "flock"
    /\ holder \in {Nobody, ProcessOf[t]}
    /\ holder' = ProcessOf[t]
    /\ unguarded' = (unguarded \/ holder = ProcessOf[t])
    /\ thread' = [thread EXCEPT ![t].pc = "mint", ![t].locked = TRUE]
    /\ UNCHANGED <<today, mem, log, sidecar, calls, minted, cut, crashes>>

\* The lock file cannot be opened, or flock raises: log() goes on without it.
ProceedUnlocked(t) ==
    /\ thread[t].pc = "flock"
    /\ unguarded' = TRUE
    /\ thread' = [thread EXCEPT ![t].pc = "mint"]
    /\ UNCHANGED <<today, holder, mem, log, sidecar, calls, minted, cut, crashes>>

\* _resume_sequence: the sidecar if it is of that day, else a scan of the log.
_resume_sequence(d) ==
    IF sidecar.day = d THEN sidecar.seq
    ELSE Max({0} \cup {i.seq : i \in {j \in Ids : j.day = d /\ log[j] > 0}})

\* A fault: what the process itself counted is forgotten.
MintFromDisk(p, d) == _resume_sequence(d) + 1

\* A fault: what other processes noted is not read again.
MintFromMemory(p, d) == (IF mem[p].day = d THEN mem[p].seq ELSE _resume_sequence(d)) + 1

\* A fault: the number after the next.
MintTwice(p, d) == MintFromDisk(p, d) + 1

_mint_seq_locked(p, d) ==
    (IF mem[p].day = d THEN Max({mem[p].seq, _resume_sequence(d)})
     ELSE _resume_sequence(d)) + 1

MintSeq(t) ==
    /\ thread[t].pc = "mint"
    /\ LET p == ProcessOf[t]
           id == [day |-> thread[t].id.day, seq |-> _mint_seq_locked(p, thread[t].id.day)]
       IN /\ mem' = [mem EXCEPT ![p] = id]
          /\ thread' = [thread EXCEPT ![t].pc = "append", ![t].id = id]
          /\ minted' = [minted EXCEPT ![p] = @ \cup {id}]
    /\ UNCHANGED <<today, holder, log, sidecar, calls, cut, unguarded, crashes>>

AfterFailureNote == "sidecar"  \* a fault: the number is noted all the same

\* When the write fails, log() returns through its finally clause.
AfterFailure == "release"

\* _write_entry: the entry is in the file, or it is not; or it is, and fsync
\* raised, which log() takes for a failure.
WriteEntry(t) ==
    /\ thread[t].pc = "append"
    /\ \/ /\ log' = [log EXCEPT ![thread[t].id] = @ + 1]
          /\ thread' = [thread EXCEPT ![t].pc = "sidecar"]
          /\ UNCHANGED cut
       \/ /\ UNCHANGED <<log, cut>>
          /\ thread' = [thread EXCEPT ![t].pc = AfterFailure]
       \/ /\ log' = [log EXCEPT ![thread[t].id] = @ + 1]
          /\ thread' = [thread EXCEPT ![t].pc = AfterFailure]
          /\ cut' = TRUE
    /\ UNCHANGED <<today, holder, mem, sidecar, calls, minted, unguarded, crashes>>

\* _write_seq_sidecar_locked replaces the file; a failure is ignored.
WriteSidecar(t) ==
    /\ thread[t].pc = "sidecar"
    /\ \/ sidecar' = thread[t].id /\ UNCHANGED cut
       \/ UNCHANGED sidecar /\ cut' = TRUE
    /\ thread' = [thread EXCEPT ![t].pc = "release"]
    /\ UNCHANGED <<today, holder, mem, log, calls, minted, unguarded, crashes>>

\* A fault: the lock is kept.
LockKept(t) == holder

\* LOCK_UN of the process's descriptor, whichever of its threads locked it; not
\* by a call that went without.
_release_xproc_lock(t) ==
    IF thread[t].locked /\ holder = ProcessOf[t] THEN Nobody ELSE holder

ReleaseXprocLock(t) ==
    /\ thread[t].pc = "release"
    /\ holder' = _release_xproc_lock(t)
    /\ thread' = [thread EXCEPT ![t] = Idle]
    /\ UNCHANGED <<today, mem, log, sidecar, calls, histVars>>

\* The process dies and is started again: the kernel drops its lock.
Crash(p) ==
    LET mine == {t \in Threads : ProcessOf[t] = p} IN
    /\ crashes < MaxCrashes
    /\ crashes' = crashes + 1
    /\ cut' = (cut \/ \E t \in mine : thread[t].pc = "sidecar")
    /\ thread' = [t \in Threads |-> IF t \in mine THEN Idle ELSE thread[t]]
    /\ mem' = [mem EXCEPT ![p] = Fresh]
    /\ minted' = [minted EXCEPT ![p] = {}]
    /\ holder' = IF holder = p THEN Nobody ELSE holder
    /\ UNCHANGED <<today, log, sidecar, calls, unguarded>>

Midnight ==
    /\ today < MaxDays
    /\ today' = today + 1
    /\ UNCHANGED <<holder, mem, log, sidecar, thread, calls, histVars>>

Step(t) ==
    \/ AcquireXprocLock(t)
    \/ MintSeq(t)
    \/ WriteEntry(t)
    \/ WriteSidecar(t)
    \/ ReleaseXprocLock(t)

Next ==
    \/ \E t \in Threads : Begin(t) \/ ProceedUnlocked(t) \/ Step(t)
    \/ \E p \in Processes : Crash(p)
    \/ Midnight

\* The operating system schedules every thread that can run.  Nothing makes the
\* lock fail: a call that waits for it goes on when it is free.
Spec == Init /\ [][Next]_vars /\ \A t \in Threads : WF_vars(Step(t))

-----------------------------------------------------------------------------
(* Properties.                                                             *)

\* The file lock "spans mint -> JSONL append -> sidecar", so that processes
\* never mint the same id: as long as every entry was noted in the sidecar, no
\* process held the lock for two threads at once and no call went on without
\* it, no id is written twice, whatever writes failed, processes crashed, and
\* across midnight.
UniqueWhileGuarded ==
    cut \/ unguarded \/ \A i \in Ids : log[i] <= 1

\* "A single AuditWriter used from multiple threads must produce unique IDs":
\* a process mints an id twice in its life only if it minted for two days.
\* Then a call that began before midnight may mint after one that began later,
\* which resets the counter while entries of the other day are unwritten.
OneWriterMintsFresh ==
    [][\A t \in Threads :
          LET mine == minted[ProcessOf[t]]
              twice == /\ thread[t].pc = "mint"
                       /\ thread'[t].pc = "append"
                       /\ thread'[t].id \in mine
          IN twice => \E i, j \in mine : i.day # j.day]_vars

\* "JSONL append FIRST, then sidecar": the sidecar names no id that the log
\* does not hold, through every crash.
SidecarFollowsLog == sidecar # Fresh => log[sidecar] > 0

\* No call of log() waits for ever: whoever holds the file lock gives it up,
\* on every path out of log() and when its process dies.
EveryCallEnds == \A t \in Threads : []<>(thread[t].pc = "idle")

=============================================================================
