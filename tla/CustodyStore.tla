---------------------------- MODULE CustodyStore ----------------------------
(***************************************************************************)
(* The custody tables of one case and the RPCs that change them            *)
(* (supabase/migrations/202607132100_custody_operations.sql and            *)
(* 202607132200_custody_rpcs.sql).  Each operator named after an RPC is    *)
(* one transaction: it reads and writes the tables only.  Who calls it,    *)
(* and what is on disk by then, is in Custody.                             *)
(*                                                                         *)
(* A file is a record [bytes, id, kind, mode].  A scan sees everything but *)
(* the bytes: id stands for device, inode and size, so that two files with *)
(* the same id and other bytes are one file rewritten in place.  The       *)
(* unique index on (case_id, display_path) makes the evidence objects a    *)
(* function of the path.  Reauthentication is assumed to have succeeded.   *)
(***************************************************************************)
EXTENDS Integers, Sequences, FiniteSets

CONSTANTS
    Paths,          \* display paths under the evidence directory
    Files,          \* what may be found at a path
    Absent,         \* no file, no row
    SealKeys,       \* idempotency keys of Add-and-Seal operations
    BatchKeys,      \* batch keys of Resolve requests
    Dispositions    \* <<verb, path, batch key>>: what operators may ask for

UnsafeKinds == {"symlink", "multilink", "nonregular"}
Kinds == {"regular", "directory", "partial"} \cup UnsafeKinds
Modes == {"0644", "other"}
Verbs == {"IGNORE", "RETIRE", "REPROTECT"}

ASSUME AbsentAssumption == Absent \notin Files
ASSUME DispositionsAssumption ==
    Dispositions \subseteq Verbs \X Paths \X BatchKeys
ASSUME FilesAssumption ==
    \A f \in Files : /\ DOMAIN f = {"bytes", "id", "kind", "mode"}
                     /\ f.kind \in Kinds /\ f.mode \in Modes
                     /\ [f EXCEPT !.mode = "0644"] \in Files

\* What a scan records of a file.
Seen(f) == IF f = Absent THEN Absent
           ELSE [id |-> f.id, kind |-> f.kind, mode |-> f.mode]

Sights == {Seen(f) : f \in Files \cup {Absent}}

VARIABLES
    inventory,      \* app.evidence_inventory, a row or Absent per path
    storage,        \* storage_available of the latest admission_observations
    object,         \* app.evidence_objects with their current version
    manifest,       \* app.manifest_versions with their membership
    seal,           \* app.custody_seal_operations by idempotency key
    receipt,        \* app.custody_action_receipts
    chain           \* app.evidence_custody_events in seq order

storeVars == <<inventory, storage, object, manifest, seal, receipt, chain>>

StoreInit ==
    /\ inventory = [p \in Paths |-> [sight |-> Absent, ignored |-> FALSE]]
    /\ storage = "unobserved"
    /\ object = [p \in Paths |-> [status |-> "none", file |-> Absent]]
    /\ manifest = <<>>
    /\ seal = [k \in SealKeys |->
                 [phase |-> "none", targets |-> {}, window |-> FALSE]]
    /\ receipt = {}
    /\ chain = <<>>

SealedIn(o) == {p \in Paths : o[p].status = "sealed"}

ActiveSeals == {k \in SealKeys : seal[k].phase = "REQUESTED"}

\* One entry stands for all the events a transaction appends of one type.
Event(type, paths, version) ==
    [type |-> type, paths |-> paths, version |-> version]

\* Fault: a second object may take a path.
PathFreeAlways(p) == TRUE

\* The unique index on the display path of evidence objects.
PathFree(p) == object[p].status = "none"

\* Fault: receipts are not looked up.
ReceiptedNever(verb, p, b) == FALSE

\* A repeated key replays the recorded outcome and changes nothing.
Receipted(verb, p, b) == <<verb, p, b>> \in receipt

\* Fault: the manifest lists the sealed set before the operation.
ManifestOfBefore(o, gone) == [active |-> SealedIn(object), retired |-> gone]

\* The manifest of the objects o; a member that just left is listed as such.
ManifestOf(o, gone) == [active |-> SealedIn(o), retired |-> gone]

\* Fault: the window is closed without a trace.
WindowClosedSilently(k, version) == <<>>

\* The event with which a commit closes the staging window, if one is open.
WindowClosed(k, version) ==
    IF seal[k].window
    THEN <<Event("SEAL_WINDOW_CLOSED", {}, version)>> ELSE <<>>

-----------------------------------------------------------------------------
(* custody_gate_state, of an inventory i and a latest observation s.       *)

Violation(i) ==
    \E p \in Paths :
        \/ i[p].sight # Absent /\ i[p].sight.kind \in UnsafeKinds
        \/ object[p].status = "sealed" /\ i[p].sight # Seen(object[p].file)

Pending(i) ==
    \E p \in Paths :
        /\ i[p].sight # Absent
        /\ i[p].sight.kind = "regular"
        /\ ~i[p].ignored
        /\ object[p].status # "sealed"

\* Fault: a seal in progress does not close the gate.
GateStateNoSeal(i, s) ==
    IF s = "lost" THEN "BLOCKED_UNAVAILABLE"
    ELSE IF Violation(i) THEN "BLOCKED_VIOLATION"
    ELSE IF Pending(i) \/ SealedIn(object) = {} THEN "BLOCKED_PENDING"
    ELSE "OPEN"

GateState(i, s) ==
    IF s = "lost" THEN "BLOCKED_UNAVAILABLE"
    ELSE IF Violation(i) THEN "BLOCKED_VIOLATION"
    ELSE IF ActiveSeals # {} \/ Pending(i) \/ SealedIn(object) = {}
         THEN "BLOCKED_PENDING"
    ELSE "OPEN"

Gate == GateState(inventory, storage)

-----------------------------------------------------------------------------
(* The RPCs.  A scan is [up, seen]: whether the directory could be listed, *)
(* and what was seen at each path.                                         *)

\* Fault: an ignored entry that vanished stays on record as ignored.
UpsertedKeeping(scan) ==
    IF ~scan.up THEN inventory
    ELSE [p \in Paths |-> [sight |-> scan.seen[p],
                           ignored |-> inventory[p].ignored]]

\* The rows after a scan: vanished paths are dropped, the others take what
\* was seen and keep their disposition.
Upserted(scan) ==
    IF ~scan.up THEN inventory
    ELSE [p \in Paths |->
            [sight |-> scan.seen[p],
             ignored |-> scan.seen[p] # Absent /\ inventory[p].ignored]]

\* The gate that custody_reconcile returns is computed after the rows are
\* written and before the observation is.
ReconcileVerdict(scan) == GateState(Upserted(scan), storage)

CustodyReconcile(scan) ==
    /\ inventory' = Upserted(scan)
    /\ storage' = IF scan.up THEN "available" ELSE "lost"
    /\ UNCHANGED <<object, manifest, seal, receipt, chain>>

\* A repeated key with the same targets returns the recorded operation, in
\* whatever phase; a new one is recorded if no other is active.
SealBeginReplays(k, T) == seal[k].phase # "none" /\ seal[k].targets = T

CustodySealBegin(k, T) ==
    \/ SealBeginReplays(k, T) /\ UNCHANGED storeVars
    \/ /\ seal[k].phase = "none"
       /\ ActiveSeals = {}
       /\ LET window == SealedIn(object) # {} IN
          /\ seal' = [seal EXCEPT ![k] =
                        [phase |-> "REQUESTED", targets |-> T,
                         window |-> window]]
          /\ chain' = IF window
                      THEN Append(chain, Event("SEAL_WINDOW_OPENED", T, 0))
                      ELSE chain
       /\ UNCHANGED <<inventory, storage, object, manifest, receipt>>

\* custody_seal_protect and custody_seal_commit run in one transaction: no
\* other transaction sees the phase PROTECTED.  The insert of an object for
\* a path that has one fails, and with it the transaction.
CustodySealCommit(k, facts) ==
    LET T == seal[k].targets
        version == Len(manifest) + 1
    IN /\ seal[k].phase = "REQUESTED"
       /\ \A p \in T : PathFree(p)
       /\ object' = [p \in Paths |->
                       IF p \in T THEN [status |-> "sealed", file |-> facts[p]]
                       ELSE object[p]]
       /\ manifest' = Append(manifest, ManifestOf(object', {}))
       /\ chain' = chain \o <<Event("EVIDENCE_SEALED", T, version),
                              Event("MANIFEST_SEALED", {}, version)>>
                          \o WindowClosed(k, version)
       /\ seal' = [seal EXCEPT ![k].phase = "COMMITTED"]
       /\ UNCHANGED <<inventory, storage, receipt>>

CustodyIgnore(p, b) ==
    /\ ~Receipted("IGNORE", p, b)
    /\ inventory[p].sight # Absent
    /\ inventory' = [inventory EXCEPT ![p].ignored = TRUE]
    /\ chain' = Append(chain, Event("FILE_IGNORED", {p}, 0))
    /\ receipt' = receipt \cup {<<"IGNORE", p, b>>}
    /\ UNCHANGED <<storage, object, manifest, seal>>

\* An object that is retired already can be retired under another key.
CustodyRetire(p, b) ==
    /\ ~Receipted("RETIRE", p, b)
    /\ object[p].status # "none"
    /\ object' = [object EXCEPT ![p].status = "retired"]
    /\ manifest' = Append(manifest, ManifestOf(object', {p}))
    /\ chain' = Append(chain, Event("FILE_RETIRED", {p}, Len(manifest) + 1))
    /\ receipt' = receipt \cup {<<"RETIRE", p, b>>}
    /\ UNCHANGED <<inventory, storage, seal>>

CustodyReprotect(p, b) ==
    /\ ~Receipted("REPROTECT", p, b)
    /\ object[p].status # "none"
    /\ chain' = Append(chain, Event("EVIDENCE_REPROTECTED", {p}, 0))
    /\ receipt' = receipt \cup {<<"REPROTECT", p, b>>}
    /\ UNCHANGED <<inventory, storage, object, manifest, seal>>
=============================================================================
