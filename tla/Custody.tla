------------------------------ MODULE Custody ------------------------------
(***************************************************************************)
(* Evidence custody of one case: the tables of CustodyStore, the evidence  *)
(* directory, the portal's operations on both                              *)
(* (sift_gateway/custody/seal.py, actions.py, admission.py), the calls of  *)
(* agents from reconcile-before-dispatch to the opened file, as a command  *)
(* (policy_middleware.py, run_command_job.py, evidence_binding.py) or as a *)
(* selection that the OpenSearch backend opens by its path                 *)
(* (opensearch_mcp/server.py), and whoever else writes to the directory.   *)
(*                                                                         *)
(* The gateway is one process with one event loop.  Portal handlers run on *)
(* it without awaiting, so no two of them interleave; what interleaves     *)
(* with them are the threads that reconcile for agents, the worker         *)
(* process, writers on the disk, and a crash.  A command of the worker     *)
(* holds the case's advisory lock in shared mode from its last validation  *)
(* to its end; every RPC takes it exclusively.                             *)
(***************************************************************************)
EXTENDS CustodyStore

CONSTANTS
    Calls,          \* tool calls of agents that name one evidence path
    None,           \* no path, no key
    QuietReprotect, \* nobody writes a file while it is being reprotected
    MaxEdits        \* bound on the changes others make to the directory

ASSUME NoneAssumption ==
    None \notin Paths /\ None \notin SealKeys /\ None \notin BatchKeys
ASSUME QuietAssumption == QuietReprotect \in BOOLEAN
ASSUME EditsAssumption == MaxEdits \in Nat

VARIABLES
    disk,           \* disk[p]: the file at p, or Absent
    locked,         \* the paths whose file has the immutable flag
    dirlocked,      \* whether the directory has it
    mounted,        \* whether the directory can be listed
    portal,         \* what the portal handler in progress knows
    call,           \* what is known to each call
    edits           \* how often others have changed the directory

diskVars == <<disk, locked, dirlocked, mounted>>
vars == <<storeVars, diskVars, portal, call, edits>>

SafeKinds == {"regular", "partial"}
NothingSeen == [p \in Paths |-> Absent]
NoScan == [up |-> FALSE, seen |-> NothingSeen]
NoSnapshot == [p \in Paths |-> [sight |-> Absent, ignored |-> FALSE]]

IdlePortal == [pc |-> "idle", key |-> None, path |-> None, scan |-> NoScan,
               todo |-> {}, snapshot |-> NoSnapshot, facts |-> NothingSeen,
               hashed |-> Absent]

\* changed: the paths whose file was touched since the call was pinned.  The
\* code compares change times, which every touch moves.  surface: whether the
\* tool runs a command, or takes the path as a selection of data.
IdleCall == [pc |-> "idle", surface |-> "command", path |-> None,
             scan |-> NoScan, changed |-> {}, read |-> Absent]

Init ==
    /\ StoreInit
    /\ disk \in [Paths -> Files \cup {Absent}]
    /\ locked = {}
    /\ dirlocked = FALSE
    /\ mounted = TRUE
    /\ portal = IdlePortal
    /\ call = [c \in Calls |-> IdleCall]
    /\ edits = 0

\* classify_inventory_entries: None when the directory cannot be listed.
Look == IF mounted THEN [up |-> TRUE, seen |-> [p \in Paths |-> Seen(disk[p])]]
        ELSE NoScan

Holding == {"running", "reading"}

\* Fault: an RPC does not wait for the commands that hold the lock.
LockFreeAlways == TRUE

\* The exclusive advisory lock can be had.
LockFree == \A c \in Calls : call[c].pc \notin Holding

Touched(S) ==
    [c \in Calls |-> IF call[c].path = None THEN call[c]
                     ELSE [call[c] EXCEPT !.changed = @ \cup S]]

-----------------------------------------------------------------------------
(* Others who write to the directory.  A changed or replaced file has no   *)
(* immutable flag: it had to be cleared first, or the inode is another.    *)

Edit(p, f) ==
    /\ edits < MaxEdits
    /\ mounted
    /\ f # disk[p]
    /\ ~(QuietReprotect /\ portal.pc = "reprotecting" /\ portal.path = p)
    /\ disk' = [disk EXCEPT ![p] = f]
    /\ locked' = locked \ {p}
    /\ call' = Touched({p})
    /\ edits' = edits + 1
    /\ UNCHANGED <<storeVars, dirlocked, mounted, portal>>

Remount ==
    /\ edits < MaxEdits
    /\ mounted' = ~mounted
    /\ edits' = edits + 1
    /\ UNCHANGED <<storeVars, disk, locked, dirlocked, portal, call>>

-----------------------------------------------------------------------------
(* The portal: Refresh.                                                    *)

RefreshScan ==
    /\ portal.pc = "idle"
    /\ portal' = [portal EXCEPT !.pc = "refreshing", !.scan = Look]
    /\ UNCHANGED <<storeVars, diskVars, call, edits>>

RefreshReconcile ==
    /\ portal.pc = "refreshing"
    /\ LockFree
    /\ CustodyReconcile(portal.scan)
    /\ portal' = IdlePortal
    /\ UNCHANGED <<diskVars, call, edits>>

-----------------------------------------------------------------------------
(* The portal: Add and Seal.                                               *)

BeginSeal(k, T) ==
    /\ portal.pc = "idle"
    /\ LockFree
    /\ CustodySealBegin(k, T)
    /\ portal' = IF seal'[k].window
                 THEN [portal EXCEPT !.pc = "lifting", !.key = k] ELSE portal
    /\ UNCHANGED <<diskVars, call, edits>>

\* begin_seal lifts the flag of the directory once the operation is recorded.
LiftDirectory ==
    /\ portal.pc = "lifting"
    /\ dirlocked' = (dirlocked /\ ~mounted)
    /\ portal' = IdlePortal
    /\ UNCHANGED <<storeVars, disk, locked, mounted, call, edits>>

\* commit_seal reads the operation and the inventory of the latest Refresh.
\* A committed operation is replayed, with no step.
CommitStart(k) ==
    /\ portal.pc = "idle"
    /\ seal[k].phase = "REQUESTED"
    /\ storage # "unobserved"
    /\ portal' = [portal EXCEPT !.pc = "protecting", !.key = k,
                                !.todo = seal[k].targets,
                                !.snapshot = inventory]
    /\ UNCHANGED <<storeVars, diskVars, call, edits>>

Sealable(p) ==
    /\ mounted
    /\ disk[p] # Absent
    /\ disk[p].kind \in SafeKinds
    /\ disk[p].mode = "0644"
    /\ portal.snapshot[p].sight # Absent
         => portal.snapshot[p].sight.id = disk[p].id

\* Fault: a target that cannot be sealed is left out.
HashTargetSkipping(p) ==
    /\ portal.pc = "protecting"
    /\ p \in portal.todo
    /\ portal' = IF Sealable(p)
                 THEN [portal EXCEPT !.pc = "hashed", !.path = p,
                                     !.hashed = disk[p]]
                 ELSE [portal EXCEPT !.todo = @ \ {p}]
    /\ UNCHANGED <<storeVars, diskVars, call, edits>>

\* Open a target and hash it, or give up.
HashTarget(p) ==
    /\ portal.pc = "protecting"
    /\ p \in portal.todo
    /\ portal' = IF Sealable(p)
                 THEN [portal EXCEPT !.pc = "hashed", !.path = p,
                                     !.hashed = disk[p]]
                 ELSE IdlePortal
    /\ UNCHANGED <<storeVars, diskVars, call, edits>>

\* The descriptor still is the file at its path.
StillThere == /\ disk[portal.path] # Absent
              /\ disk[portal.path].id = portal.hashed.id

\* _apply_fixed_file_posture, on the descriptor that was hashed.
ApplyPosture ==
    IF StillThere
    THEN /\ disk' = [disk EXCEPT ![portal.path].mode = "0644"]
         /\ locked' = locked \cup {portal.path}
         /\ call' = Touched({portal.path})
    ELSE UNCHANGED <<disk, locked, call>>

\* Fault: the file is not hashed again under protection.
UnchangedIdOnly == StillThere

\* The checks that follow: same file, one link, and the same bytes again.
UnchangedUnderFlag ==
    /\ StillThere
    /\ disk[portal.path].bytes = portal.hashed.bytes
    /\ disk[portal.path].kind \in SafeKinds

FlagTarget ==
    /\ portal.pc = "hashed"
    /\ ApplyPosture
    /\ portal' = IF UnchangedUnderFlag
                 THEN [portal EXCEPT !.pc = "protecting", !.path = None,
                         !.todo = @ \ {portal.path}, !.hashed = Absent,
                         !.facts[portal.path] = portal.hashed]
                 ELSE IdlePortal
    /\ UNCHANGED <<storeVars, dirlocked, mounted, edits>>

LockDirectory ==
    /\ portal.pc = "protecting"
    /\ portal.todo = {}
    /\ dirlocked' = TRUE
    /\ portal' = [portal EXCEPT !.pc = "committing"]
    /\ UNCHANGED <<storeVars, disk, locked, mounted, call, edits>>

\* The transaction commits, or fails on a path that has an object.
CommitSeal ==
    /\ portal.pc = "committing"
    /\ LockFree
    /\ \/ CustodySealCommit(portal.key, portal.facts)
       \/ /\ \E p \in seal[portal.key].targets : ~PathFree(p)
          /\ UNCHANGED storeVars
    /\ portal' = IdlePortal
    /\ UNCHANGED <<diskVars, call, edits>>

-----------------------------------------------------------------------------
(* The portal: Resolve.  Each disposition of a batch is a transaction of   *)
(* its own; a replayed one changes nothing.                                *)

Overlaps(p) == \E k \in ActiveSeals : p \in seal[k].targets

Ignore(p, b) ==
    /\ portal.pc = "idle"
    /\ ~Overlaps(p)
    /\ LockFree
    /\ CustodyIgnore(p, b)
    /\ UNCHANGED <<diskVars, portal, call, edits>>

Retire(p, b) ==
    /\ portal.pc = "idle"
    /\ ~Overlaps(p)
    /\ LockFree
    /\ CustodyRetire(p, b)
    /\ UNCHANGED <<diskVars, portal, call, edits>>

\* The file is the sealed one, but for its mode and flag.
Identical(p) ==
    /\ disk[p] # Absent
    /\ disk[p].kind \in SafeKinds
    /\ disk[p].id = object[p].file.id
    /\ disk[p].bytes = object[p].file.bytes

ReprotectHash(p, b) ==
    /\ portal.pc = "idle"
    /\ ~Overlaps(p)
    /\ object[p].status # "none"
    /\ mounted
    /\ Identical(p)
    /\ portal' = [portal EXCEPT !.pc = "reprotecting", !.path = p, !.key = b,
                                !.hashed = disk[p]]
    /\ UNCHANGED <<storeVars, diskVars, call, edits>>

ReprotectFlag ==
    /\ portal.pc = "reprotecting"
    /\ ApplyPosture
    /\ portal' = IF UnchangedUnderFlag
                 THEN [portal EXCEPT !.pc = "recording"] ELSE IdlePortal
    /\ UNCHANGED <<storeVars, dirlocked, mounted, edits>>

ReprotectRecord ==
    /\ portal.pc = "recording"
    /\ LockFree
    /\ \/ CustodyReprotect(portal.path, portal.key)
       \/ /\ Receipted("REPROTECT", portal.path, portal.key)
          /\ UNCHANGED storeVars
    /\ portal' = IdlePortal
    /\ UNCHANGED <<diskVars, call, edits>>

-----------------------------------------------------------------------------
(* A call, in the gateway.                                                 *)

Ended(c) == call' = [call EXCEPT ![c].pc = "ended", ![c].scan = NoScan]

Scan(c) ==
    /\ call[c].pc = "idle"
    /\ call' = [call EXCEPT ![c].pc = "scanned", ![c].scan = Look]
    /\ UNCHANGED <<storeVars, diskVars, portal, edits>>

\* The scan may be old by the time the lock is had.
Reconcile(c) ==
    /\ call[c].pc = "scanned"
    /\ LockFree
    /\ CustodyReconcile(call[c].scan)
    /\ IF ReconcileVerdict(call[c].scan) = "OPEN"
       THEN call' = [call EXCEPT ![c].pc = "admitted", ![c].scan = NoScan]
       ELSE Ended(c)
    /\ UNCHANGED <<diskVars, portal, edits>>

\* resolve_sealed_version: the bytes are not read.
Resolves(p) ==
    /\ mounted
    /\ object[p].status = "sealed"
    /\ disk[p] # Absent
    /\ disk[p].kind \in SafeKinds
    /\ disk[p].id = object[p].file.id

\* Back on the event loop: every operand must resolve.  For run_command, pin
\* the file and the listing, then run the tool here or queue a job for the
\* worker.  For opensearch_ingest and opensearch_inspect_container the path
\* becomes that of the sealed version, and the backend or an ingest job has it.
Pin(c, p) ==
    /\ call[c].pc = "admitted"
    /\ portal.pc = "idle"
    /\ IF Resolves(p)
       THEN \/ \E next \in {"pinned", "queued"} :
                 call' = [call EXCEPT ![c].pc = next, ![c].path = p]
            \/ call' = [call EXCEPT ![c].pc = "selected", ![c].path = p,
                                    ![c].surface = "selection"]
       ELSE Ended(c)
    /\ UNCHANGED <<storeVars, diskVars, portal, edits>>

\* final_open_revalidate, in the gateway.
Revalidate(c) ==
    /\ call[c].pc = "pinned"
    /\ IF Gate = "OPEN"
       THEN call' = [call EXCEPT ![c].pc = "revalidated"] ELSE Ended(c)
    /\ UNCHANGED <<storeVars, diskVars, portal, edits>>

-----------------------------------------------------------------------------
(* A call, in the worker.                                                  *)

Authorised(c) ==
    /\ mounted
    /\ call[c].changed = {}
    /\ Gate = "OPEN"
    /\ object[call[c].path].status = "sealed"

\* The validations at claim, execution and preexec: a passing one changes
\* nothing, one that finds the listing changed reconciles before it denies.
Recheck(c) ==
    /\ call[c].pc = "queued"
    /\ mounted
    /\ call[c].changed # {}
    /\ call' = [call EXCEPT ![c].pc = "rechecking", ![c].scan = Look]
    /\ UNCHANGED <<storeVars, diskVars, portal, edits>>

RecordInventoryChange(c) ==
    /\ call[c].pc = "rechecking"
    /\ LockFree
    /\ CustodyReconcile(call[c].scan)
    /\ Ended(c)
    /\ UNCHANGED <<diskVars, portal, edits>>

Refuse(c) ==
    /\ call[c].pc = "queued"
    /\ ~Authorised(c)
    /\ Ended(c)
    /\ UNCHANGED <<storeVars, diskVars, portal, edits>>

\* Take the lock in shared mode, validate once more, and go on under it.
HoldExecutionAuthority(c) ==
    /\ call[c].pc = "queued"
    /\ Authorised(c)
    /\ call' = [call EXCEPT ![c].pc = "running"]
    /\ UNCHANGED <<storeVars, diskVars, portal, edits>>

\* The command ends, or its worker dies.
Finish(c) ==
    /\ call[c].pc \in Holding
    /\ Ended(c)
    /\ UNCHANGED <<storeVars, diskVars, portal, edits>>

\* validate_binding_fd.
Openable(c) ==
    LET p == call[c].path IN
    /\ mounted
    /\ p \notin call[c].changed
    /\ disk[p] # Absent /\ disk[p].kind \in SafeKinds
    /\ p \in locked

\* The descriptor the command reads from is opened, by worker or gateway.
Open(c) ==
    /\ call[c].pc \in {"running", "revalidated"}
    /\ IF Openable(c)
       THEN call' = [call EXCEPT ![c].read = disk[call[c].path],
                       ![c].pc = IF @ = "running" THEN "reading" ELSE "ended"]
       ELSE Ended(c)
    /\ UNCHANGED <<storeVars, diskVars, portal, edits>>

\* The OpenSearch backend opens a selection by its path: it asks neither the
\* gate nor the flag, and holds no lock.
OpenByPath(c) ==
    /\ call[c].pc = "selected"
    /\ IF mounted /\ disk[call[c].path] # Absent
       THEN call' = [call EXCEPT ![c].read = disk[call[c].path],
                                 ![c].pc = "ended"]
       ELSE Ended(c)
    /\ UNCHANGED <<storeVars, diskVars, portal, edits>>

-----------------------------------------------------------------------------
\* The gateway dies: the handler in progress and the calls in its threads
\* are gone; queued jobs, and what a backend has, are not.
GatewayCrash ==
    /\ portal' = IdlePortal
    /\ call' = [c \in Calls |->
                  IF call[c].pc \in {"scanned", "admitted", "pinned",
                                     "revalidated"}
                  THEN [call[c] EXCEPT !.pc = "ended", !.scan = NoScan]
                  ELSE call[c]]
    /\ UNCHANGED <<storeVars, diskVars, edits>>

Environment ==
    \/ \E p \in Paths, f \in Files \cup {Absent} : Edit(p, f)
    \/ Remount
    \/ GatewayCrash

PortalStep ==
    \/ RefreshScan \/ RefreshReconcile
    \/ \E k \in SealKeys : \/ \E T \in (SUBSET Paths) \ {{}} : BeginSeal(k, T)
                           \/ CommitStart(k)
    \/ LiftDirectory
    \/ \E p \in Paths : HashTarget(p)
    \/ FlagTarget \/ LockDirectory \/ CommitSeal
    \/ \E d \in Dispositions :
          \/ d[1] = "IGNORE" /\ Ignore(d[2], d[3])
          \/ d[1] = "RETIRE" /\ Retire(d[2], d[3])
          \/ d[1] = "REPROTECT" /\ ReprotectHash(d[2], d[3])
    \/ ReprotectFlag \/ ReprotectRecord

CallStep(c) ==
    \/ Scan(c) \/ Reconcile(c) \/ \E p \in Paths : Pin(c, p)
    \/ Revalidate(c) \/ Recheck(c) \/ RecordInventoryChange(c) \/ Refuse(c)
    \/ HoldExecutionAuthority(c) \/ Open(c) \/ OpenByPath(c) \/ Finish(c)

Next == Environment \/ PortalStep \/ \E c \in Calls : CallStep(c)

Spec == Init /\ [][Next]_vars

-----------------------------------------------------------------------------
(* What custody must guarantee.                                            *)

Scans == [up : BOOLEAN, seen : [Paths -> Sights]]
\* A disposition belongs to an entry that is on record.
Rows == {r \in [sight : Sights, ignored : BOOLEAN] :
           r.sight = Absent => ~r.ignored}
Objects == [status : {"none", "sealed", "retired"}, file : Files \cup {Absent}]
SealOps == [phase : {"none", "REQUESTED", "COMMITTED"},
            targets : SUBSET Paths, window : BOOLEAN]
Manifests == [active : SUBSET Paths, retired : SUBSET Paths]
Events == [type : {"SEAL_WINDOW_OPENED", "EVIDENCE_SEALED", "MANIFEST_SEALED",
                   "SEAL_WINDOW_CLOSED", "FILE_IGNORED", "FILE_RETIRED",
                   "EVIDENCE_REPROTECTED"},
           paths : SUBSET Paths, version : Nat]
Portals == [pc : {"idle", "refreshing", "lifting", "protecting", "hashed",
                  "committing", "reprotecting", "recording"},
            key : SealKeys \cup BatchKeys \cup {None},
            path : Paths \cup {None}, scan : Scans, todo : SUBSET Paths,
            snapshot : [Paths -> Rows], facts : [Paths -> Files \cup {Absent}],
            hashed : Files \cup {Absent}]
CallStates == [pc : {"idle", "scanned", "admitted", "pinned", "revalidated",
                     "queued", "rechecking", "running", "reading", "selected",
                     "ended"},
               surface : {"command", "selection"},
               path : Paths \cup {None}, scan : Scans, changed : SUBSET Paths,
               read : Files \cup {Absent}]

\* Every table, the disk, the handler and the calls have their types; in
\* particular an ignore never outlives the inventory row it was made for.
TypeOK ==
    /\ inventory \in [Paths -> Rows]
    /\ storage \in {"unobserved", "available", "lost"}
    /\ object \in [Paths -> Objects]
    /\ manifest \in Seq(Manifests)
    /\ seal \in [SealKeys -> SealOps]
    /\ receipt \subseteq Verbs \X Paths \X BatchKeys
    /\ chain \in Seq(Events)
    /\ disk \in [Paths -> Files \cup {Absent}]
    /\ locked \subseteq Paths
    /\ dirlocked \in BOOLEAN /\ mounted \in BOOLEAN
    /\ portal \in Portals
    /\ call \in [Calls -> CallStates]
    /\ edits \in 0..MaxEdits

\* "One active seal per case": the operation in progress is unique.
OneActiveSeal == \A k, l \in ActiveSeals : k = l

\* A seal admits all of its targets or none: every target of a committed
\* operation has its object, and every object came with exactly one of them.
SealsAllOrNothing ==
    /\ \A k \in SealKeys : seal[k].phase = "COMMITTED" =>
          \A p \in seal[k].targets : object[p].status # "none"
    /\ \A p \in Paths : object[p].status # "none" =>
          /\ object[p].file # Absent
          /\ \E k \in SealKeys : /\ seal[k].phase = "COMMITTED"
                                 /\ p \in seal[k].targets

\* The newest manifest lists exactly the objects that are sealed.
ManifestListsSealed ==
    SealedIn(object) = IF manifest = <<>> THEN {}
                       ELSE manifest[Len(manifest)].active

\* Every committed seal and every receipted retirement made one manifest,
\* however often it was retried.
OneManifestPerOperation ==
    Len(manifest) =
        Cardinality({k \in SealKeys : seal[k].phase = "COMMITTED"})
        + Cardinality({r \in receipt : r[1] = "RETIRE"})

\* The places in a chain where an object at p was sealed or retired, and those
\* of the events of a type.
Telling(s, p) ==
    {i \in DOMAIN s : /\ p \in s[i].paths
                      /\ s[i].type \in {"EVIDENCE_SEALED", "FILE_RETIRED"}}

OfType(s, type) == {i \in DOMAIN s : s[i].type = type}

\* A chain whose last word on the object at p is the status st.
Tells(s, p, st) ==
    \/ Telling(s, p) = {} /\ st = "none"
    \/ \E i \in Telling(s, p) :
          /\ \A j \in Telling(s, p) : j <= i
          /\ st = IF s[i].type = "FILE_RETIRED" THEN "retired" ELSE "sealed"

\* Reading the chain of events from its start gives the state of every
\* object, and shows a staging window open exactly while one is.
ChainReplays ==
    /\ \A p \in Paths : Tells(chain, p, object[p].status)
    /\ Cardinality(OfType(chain, "SEAL_WINDOW_OPENED")) =
          Cardinality(OfType(chain, "SEAL_WINDOW_CLOSED"))
          + Cardinality({k \in ActiveSeals : seal[k].window})

\* From its last validation to its end a command of the worker runs on an
\* open gate and on evidence that is still sealed: no seal, retirement or
\* reconciliation gets in between.
ExecutingUnderOpenGate ==
    \A c \in Calls : call[c].pc \in Holding =>
        Gate = "OPEN" /\ object[call[c].path].status = "sealed"

\* The immutable flag of a sealed file vouches for its bytes, unless a seal
\* that names the path again is in progress.
FlagVouches ==
    \A p \in Paths :
        object[p].status # "none" /\ p \in locked /\ ~Overlaps(p) =>
            disk[p] # Absent /\ disk[p].bytes = object[p].file.bytes

\* "An agent can never read drifted or unadmitted evidence".  No scan reads
\* file contents, yet what a command opens has the bytes that were sealed.
\* What a selection opens belongs to a path that was admitted; its bytes are
\* whatever the path holds by then.
OpensSealedBytes ==
    \A c \in Calls : call[c].read # Absent =>
        /\ object[call[c].path].status # "none"
        /\ call[c].surface = "command" =>
              call[c].read.bytes = object[call[c].path].file.bytes

\* "Incomplete work stays resumable under the same idempotency key; it never
\* bricks the case": the seal in progress can be committed, once its targets
\* are on disk as the latest Refresh saw them.
SealNeverBricks ==
    \A k \in ActiveSeals : \A p \in seal[k].targets : PathFree(p)

\* "The flag is lifted ONLY inside a reauthorized staging window": once there
\* is a sealed set, the directory is locked but for a window in progress.
DirectoryLockedOutsideWindow ==
    manifest # <<>> /\ ~dirlocked => \E k \in ActiveSeals : seal[k].window

Ledger == INSTANCE EvidenceLedger WITH
    entry <- object,
    lists <- [v \in 1..Len(manifest) |-> manifest[v].active]

\* Custody implements the ledger: whatever disk, scans, retries and crashes
\* do, evidence is sealed in whole sets, once, and only ever retired.
ImplementsLedger == Ledger!Spec
=============================================================================
