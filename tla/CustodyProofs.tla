--------------------------- MODULE CustodyProofs ---------------------------
(***************************************************************************)
(* Proofs about Custody, for any number of paths, files, operations and    *)
(* calls.                                                                  *)
(***************************************************************************)
EXTENDS Custody, SequenceTheorems, TLAPS

SealPCs == {"protecting", "hashed", "committing"}
PinnedPCs == {"pinned", "revalidated", "queued", "rechecking", "selected"}
             \cup Holding

\* What the handler in progress may rely on: nothing else changes the
\* operation it commits or the object it reprotects.
PortalOK ==
    /\ portal.pc \in SealPCs =>
         /\ portal.key \in SealKeys
         /\ seal[portal.key].phase = "REQUESTED"
         /\ portal.todo \subseteq seal[portal.key].targets
         /\ \A p \in seal[portal.key].targets \ portal.todo :
               portal.facts[p] \in Files
    /\ portal.pc = "hashed" => portal.path \in portal.todo
    /\ portal.pc = "committing" => portal.todo = {}
    /\ portal.pc \in {"hashed", "reprotecting"} =>
         portal.path \in Paths /\ portal.hashed \in Files
    /\ portal.pc \in {"reprotecting", "recording"} =>
         /\ portal.key \in BatchKeys
         /\ portal.path \in Paths
         /\ object[portal.path].status # "none"

\* A pinned call names a path that has an object, and an object has a file.
\* Only a selection is opened by its path.
PinsOK ==
    \A c \in Calls :
        /\ call[c].pc \in PinnedPCs \/ call[c].read # Absent =>
              /\ call[c].path \in Paths
              /\ object[call[c].path].status # "none"
        /\ call[c].pc = "selected" => call[c].surface = "selection"

ObjectsOK ==
    /\ \A p \in Paths : object[p].status # "none" => object[p].file \in Files
    /\ \A k \in SealKeys : seal[k].phase = "REQUESTED" => seal[k].targets # {}

IInv == /\ TypeOK
        /\ PortalOK
        /\ PinsOK
        /\ ObjectsOK
        /\ OneActiveSeal
        /\ SealsAllOrNothing
        /\ ManifestListsSealed
        /\ ExecutingUnderOpenGate

\* What was flagged and hashed for the seal in progress is still so, or the
\* flag is gone.
FactsVouch ==
    portal.pc \in SealPCs =>
        \A p \in (seal[portal.key].targets \ portal.todo) \cap locked :
            disk[p] # Absent /\ disk[p].bytes = portal.facts[p].bytes

\* Nobody has written the file since Reprotect hashed it.
ReprotectQuiet ==
    portal.pc = "reprotecting" =>
        /\ disk[portal.path] = portal.hashed
        /\ portal.hashed.bytes = object[portal.path].file.bytes

\* Once the gate was seen open, what a call may still open is sealed.
PinsVouch ==
    \A c \in Calls :
        LET p == call[c].path IN
        call[c].pc \in {"revalidated"} \cup Holding
            /\ p \notin call[c].changed /\ p \in locked =>
                disk[p] # Absent /\ disk[p].bytes = object[p].file.bytes

\* A call reads at its end.
ReadsEnd ==
    \A c \in Calls : call[c].read # Absent => call[c].pc \in {"reading", "ended"}

BytesInv == /\ IInv
            /\ ReadsEnd
            /\ FlagVouches
            /\ FactsVouch
            /\ ReprotectQuiet
            /\ PinsVouch
            /\ OpensSealedBytes

-----------------------------------------------------------------------------
(* Helpers: what the operators of the model return.                        *)

\* A scan of a well-typed directory is a well-typed scan.
LEMMA ScansTyped ==
    /\ Absent \in Sights
    /\ NoScan \in Scans
    /\ disk \in [Paths -> Files \cup {Absent}] => Look \in Scans
<1>1. \A f \in Files \cup {Absent} : Seen(f) \in Sights
  BY DEF Sights
<1>2. Absent \in Sights
  BY <1>1 DEF Seen
<1>3. NoScan \in Scans
  BY <1>2 DEF NoScan, Scans, NothingSeen
<1>4. ASSUME disk \in [Paths -> Files \cup {Absent}] PROVE Look \in Scans
  <2>1. [p \in Paths |-> Seen(disk[p])] \in [Paths -> Sights]
    BY <1>1, <1>4
  <2>2. QED
    BY <2>1, <1>3 DEF Look, Scans
<1>5. QED
  BY <1>2, <1>3, <1>4

\* A reconciliation leaves a well-typed inventory.
LEMMA UpsertedTyped ==
    ASSUME inventory \in [Paths -> Rows], NEW scan \in Scans
    PROVE  Upserted(scan) \in [Paths -> Rows]
<1>1. ASSUME NEW p \in Paths
      PROVE  [sight |-> scan.seen[p],
              ignored |-> scan.seen[p] # Absent /\ inventory[p].ignored] \in Rows
  <2>1. scan.seen[p] \in Sights
    BY <1>1 DEF Scans
  <2>2. inventory[p].ignored \in BOOLEAN
    BY <1>1 DEF Rows
  <2>3. QED
    BY <2>1, <2>2 DEF Rows
<1>2. QED
  BY <1>1 DEF Upserted

\* The resting states are well typed.
LEMMA IdleTyped ==
    /\ IdlePortal \in Portals
    /\ IdleCall \in CallStates
<1>1. [sight |-> Absent, ignored |-> FALSE] \in Rows
  BY ScansTyped DEF Rows
<1>2. NoSnapshot \in [Paths -> Rows]
  BY <1>1 DEF NoSnapshot
<1>3. NothingSeen \in [Paths -> Files \cup {Absent}]
  BY DEF NothingSeen
<1>4. IdlePortal \in Portals
  BY <1>2, <1>3, ScansTyped DEF IdlePortal, Portals
<1>5. IdleCall \in CallStates
  BY ScansTyped DEF IdleCall, CallStates
<1>6. QED
  BY <1>4, <1>5

\* Ending a call, and noting that files were touched, keep calls well typed.
LEMMA CallsTyped ==
    ASSUME call \in [Calls -> CallStates]
    PROVE  /\ \A S \in SUBSET Paths : Touched(S) \in [Calls -> CallStates]
           /\ \A c \in Calls : Ended(c) => call' \in [Calls -> CallStates]
<1>1. ASSUME NEW r \in CallStates
      PROVE  /\ [r EXCEPT !.pc = "ended", !.scan = NoScan] \in CallStates
             /\ \A S \in SUBSET Paths :
                   [r EXCEPT !.changed = @ \cup S] \in CallStates
  BY <1>1, ScansTyped DEF CallStates
<1>2. ASSUME NEW S \in SUBSET Paths
      PROVE  Touched(S) \in [Calls -> CallStates]
  BY <1>1, <1>2 DEF Touched
<1>3. ASSUME NEW c \in Calls, Ended(c)
      PROVE  call' \in [Calls -> CallStates]
  BY <1>1, <1>3 DEF Ended
<1>4. QED
  BY <1>2, <1>3

-----------------------------------------------------------------------------
(* Type correctness.                                                       *)

StoreTyped ==
    /\ inventory \in [Paths -> Rows]
    /\ storage \in {"unobserved", "available", "lost"}
    /\ object \in [Paths -> Objects]
    /\ manifest \in Seq(Manifests)
    /\ seal \in [SealKeys -> SealOps]
    /\ receipt \subseteq Verbs \X Paths \X BatchKeys
    /\ chain \in Seq(Events)

\* Each RPC leaves well-typed tables.
LEMMA RpcsTyped ==
    ASSUME StoreTyped
    PROVE  /\ UNCHANGED storeVars => StoreTyped'
           /\ \A scan \in Scans : CustodyReconcile(scan) => StoreTyped'
           /\ \A k \in SealKeys, T \in SUBSET Paths :
                 CustodySealBegin(k, T) => StoreTyped'
           /\ \A k \in SealKeys, f \in [Paths -> Files \cup {Absent}] :
                 CustodySealCommit(k, f) => StoreTyped'
           /\ \A p \in Paths, b \in BatchKeys :
                 /\ CustodyIgnore(p, b) => StoreTyped'
                 /\ CustodyRetire(p, b) => StoreTyped'
                 /\ CustodyReprotect(p, b) => StoreTyped'
<1> USE DEF StoreTyped
<1>e. \A t \in {"SEAL_WINDOW_OPENED", "EVIDENCE_SEALED", "MANIFEST_SEALED",
               "SEAL_WINDOW_CLOSED", "FILE_IGNORED", "FILE_RETIRED",
               "EVIDENCE_REPROTECTED"}, P \in SUBSET Paths, v \in Nat :
        Event(t, P, v) \in Events
  BY DEF Event, Events
<1>a. \A s \in Seq(Events), e \in Events : Append(s, e) \in Seq(Events)
  OBVIOUS
<1>m. \A o, P : P \in SUBSET Paths => ManifestOf(o, P) \in Manifests
  BY DEF ManifestOf, Manifests, SealedIn
<1>0. ASSUME UNCHANGED storeVars PROVE StoreTyped'
  BY <1>0 DEF storeVars
<1>1. ASSUME NEW scan \in Scans, CustodyReconcile(scan) PROVE StoreTyped'
  BY <1>1, UpsertedTyped DEF CustodyReconcile
<1>2. ASSUME NEW k \in SealKeys, NEW T \in SUBSET Paths, CustodySealBegin(k, T)
      PROVE  StoreTyped'
  <2>1. CASE UNCHANGED storeVars
    BY <2>1, <1>0
  <2>2. CASE ~UNCHANGED storeVars
    <3> DEFINE w == SealedIn(object) # {}
    <3>1. [phase |-> "REQUESTED", targets |-> T, window |-> w] \in SealOps
      BY DEF SealOps
    <3>2. seal' \in [SealKeys -> SealOps]
      BY <1>2, <2>2, <3>1 DEF CustodySealBegin
    <3>3. chain' \in Seq(Events)
      <4>1. Event("SEAL_WINDOW_OPENED", T, 0) \in Events
        BY <1>e
      <4>2. \/ chain' = chain
            \/ chain' = Append(chain, Event("SEAL_WINDOW_OPENED", T, 0))
        BY <1>2, <2>2 DEF CustodySealBegin
      <4>3. Append(chain, Event("SEAL_WINDOW_OPENED", T, 0)) \in Seq(Events)
        BY <4>1, <1>a
      <4>4. QED
        BY <4>2, <4>3
    <3>4. QED
      BY <1>2, <2>2, <3>2, <3>3 DEF CustodySealBegin
  <2>3. QED
    BY <2>1, <2>2
<1>3. ASSUME NEW k \in SealKeys, NEW f \in [Paths -> Files \cup {Absent}],
             CustodySealCommit(k, f)
      PROVE  StoreTyped'
  <2> DEFINE T == seal[k].targets
  <2> DEFINE v == Len(manifest) + 1
  <2>1. T \in SUBSET Paths /\ v \in Nat
    BY DEF SealOps
  <2>2. object' \in [Paths -> Objects]
    <3>1. \A p \in Paths : [status |-> "sealed", file |-> f[p]] \in Objects
      BY DEF Objects
    <3>2. QED
      BY <1>3, <3>1 DEF CustodySealCommit
  <2>3. manifest' \in Seq(Manifests)
    BY <1>3, <1>m DEF CustodySealCommit
  <2>4. WindowClosed(k, v) \in Seq(Events)
    BY <1>e, <2>1 DEF WindowClosed
  <2>5. <<Event("EVIDENCE_SEALED", T, v),
          Event("MANIFEST_SEALED", {}, v)>> \in Seq(Events)
    BY <1>e, <2>1
  <2>6. chain' \in Seq(Events)
    <3> HIDE DEF v
    <3>1. chain' = chain \o <<Event("EVIDENCE_SEALED", T, v),
                             Event("MANIFEST_SEALED", {}, v)>>
                         \o WindowClosed(k, v)
      BY <1>3 DEF CustodySealCommit, v
    <3>2. QED
      BY <3>1, <2>4, <2>5
  <2>7. seal' \in [SealKeys -> SealOps]
    BY <1>3 DEF CustodySealCommit, SealOps
  <2>8. QED
    BY <1>3, <2>2, <2>3, <2>6, <2>7 DEF CustodySealCommit
<1>4. ASSUME NEW p \in Paths, NEW b \in BatchKeys, CustodyIgnore(p, b)
      PROVE  StoreTyped'
  <2>1. [inventory[p] EXCEPT !.ignored = TRUE] \in Rows
    BY <1>4 DEF CustodyIgnore, Rows
  <2>2. inventory' \in [Paths -> Rows]
    BY <1>4, <2>1 DEF CustodyIgnore
  <2>3. chain' \in Seq(Events)
    BY <1>4, <1>e DEF CustodyIgnore
  <2>4. QED
    BY <1>4, <2>2, <2>3 DEF CustodyIgnore, Verbs
<1>5. ASSUME NEW p \in Paths, NEW b \in BatchKeys, CustodyRetire(p, b)
      PROVE  StoreTyped'
  <2>1. [object[p] EXCEPT !.status = "retired"] \in Objects
    BY DEF Objects
  <2>2. object' \in [Paths -> Objects]
    BY <1>5, <2>1 DEF CustodyRetire
  <2>3. manifest' \in Seq(Manifests)
    BY <1>5, <1>m DEF CustodyRetire
  <2>4. chain' \in Seq(Events)
    <3>1. Len(manifest) + 1 \in Nat
      OBVIOUS
    <3>2. Event("FILE_RETIRED", {p}, Len(manifest) + 1) \in Events
      BY <1>e, <3>1
    <3>3. QED
      BY <1>5, <3>2 DEF CustodyRetire
  <2>5. QED
    BY <1>5, <2>2, <2>3, <2>4 DEF CustodyRetire, Verbs
<1>6. ASSUME NEW p \in Paths, NEW b \in BatchKeys, CustodyReprotect(p, b)
      PROVE  StoreTyped'
  <2>1. chain' \in Seq(Events)
    BY <1>6, <1>e DEF CustodyReprotect
  <2>2. QED
    BY <1>6, <2>1 DEF CustodyReprotect, Verbs
<1>7. QED
  BY <1>0, <1>1, <1>2, <1>3, <1>4, <1>5, <1>6

DiskTyped ==
    /\ disk \in [Paths -> Files \cup {Absent}]
    /\ locked \subseteq Paths
    /\ dirlocked \in BOOLEAN /\ mounted \in BOOLEAN
    /\ edits \in 0..MaxEdits

\* TypeOK in parts: tables, directory, handler, calls.
LEMMA TypeSplit ==
    TypeOK <=> /\ StoreTyped /\ DiskTyped
               /\ portal \in Portals /\ call \in [Calls -> CallStates]
BY DEF TypeOK, StoreTyped, DiskTyped

\* Restoring the posture of the hashed file keeps directory and calls typed.
LEMMA PostureTyped ==
    ASSUME DiskTyped, portal \in Portals, call \in [Calls -> CallStates],
           portal.path \in Paths, ApplyPosture, UNCHANGED <<dirlocked, mounted, edits>>
    PROVE  DiskTyped' /\ call' \in [Calls -> CallStates]
<1> DEFINE p == portal.path
<1>1. CASE StillThere
  <2>1. disk[p] \in Files
    BY <1>1 DEF StillThere, DiskTyped
  <2>2. [disk[p] EXCEPT !.mode = "0644"] \in Files
    BY <2>1, FilesAssumption
  <2>3. disk' = [disk EXCEPT ![p] = [disk[p] EXCEPT !.mode = "0644"]]
    BY <1>1 DEF ApplyPosture, DiskTyped
  <2>4. disk' \in [Paths -> Files \cup {Absent}]
    BY <2>2, <2>3 DEF DiskTyped
  <2>5. call' \in [Calls -> CallStates]
    BY <1>1, CallsTyped DEF ApplyPosture
  <2>6. QED
    BY <1>1, <2>4, <2>5 DEF ApplyPosture, DiskTyped
<1>2. CASE ~StillThere
  BY <1>2 DEF ApplyPosture, DiskTyped
<1>3. QED
  BY <1>1, <1>2

\* Writers, a remount and a crash of the gateway keep the types.
LEMMA EnvironmentTyped ==
    ASSUME TypeOK, Environment
    PROVE  TypeOK'
<1>0. /\ StoreTyped /\ DiskTyped
      /\ portal \in Portals /\ call \in [Calls -> CallStates]
  BY TypeSplit
<1>1. ASSUME NEW p \in Paths, NEW f \in Files \cup {Absent}, Edit(p, f)
      PROVE  TypeOK'
  <2>1. StoreTyped'
    BY <1>0, <1>1, RpcsTyped DEF Edit
  <2>2. edits' \in 0..MaxEdits
    BY <1>0, <1>1, EditsAssumption DEF Edit, DiskTyped
  <2>3. DiskTyped'
    BY <1>0, <1>1, <2>2 DEF Edit, DiskTyped
  <2>4. call' \in [Calls -> CallStates]
    <3>1. {p} \in SUBSET Paths
      OBVIOUS
    <3>2. QED
      BY <1>0, <1>1, <3>1, CallsTyped DEF Edit
  <2>5. QED
    BY <1>0, <1>1, <2>1, <2>3, <2>4 DEF Edit, TypeOK, StoreTyped, DiskTyped
<1>2. CASE Remount
  <2>1. StoreTyped'
    BY <1>0, <1>2, RpcsTyped DEF Remount
  <2>2. edits' \in 0..MaxEdits
    BY <1>0, <1>2, EditsAssumption DEF Remount, DiskTyped
  <2>3. QED
    BY <1>0, <1>2, <2>1, <2>2 DEF Remount, TypeOK, StoreTyped, DiskTyped
<1>3. CASE GatewayCrash
  <2>1. StoreTyped'
    BY <1>0, <1>3, RpcsTyped DEF GatewayCrash
  <2>2. call' \in [Calls -> CallStates]
    <3>1. \A r \in CallStates :
             [r EXCEPT !.pc = "ended", !.scan = NoScan] \in CallStates
      BY ScansTyped DEF CallStates
    <3>2. QED
      BY <1>0, <1>3, <3>1 DEF GatewayCrash
  <2>3. QED
    BY <1>0, <1>3, <2>1, <2>2, IdleTyped
       DEF GatewayCrash, diskVars, TypeOK, StoreTyped, DiskTyped
<1>4. QED
  BY <1>1, <1>2, <1>3 DEF Environment

\* The portal's handlers keep the types.
LEMMA PortalTyped ==
    ASSUME TypeOK, PortalOK, PortalStep
    PROVE  TypeOK'
<1>0. /\ StoreTyped /\ DiskTyped
      /\ portal \in Portals /\ call \in [Calls -> CallStates]
  BY TypeSplit
<1>i. IdlePortal \in Portals
  BY IdleTyped
<1>j. portal.scan \in Scans /\ portal.facts \in [Paths -> Files \cup {Absent}]
  BY <1>0 DEF Portals
<1>q. ASSUME StoreTyped', portal' \in Portals, UNCHANGED <<diskVars, call, edits>>
      PROVE  TypeOK'
  BY <1>0, <1>q DEF diskVars, TypeOK, StoreTyped, DiskTyped
<1>1. CASE RefreshScan
  <2>1. StoreTyped'
    BY <1>0, <1>1, RpcsTyped DEF RefreshScan
  <2>2. portal' \in Portals
    BY <1>0, <1>1, ScansTyped DEF RefreshScan, DiskTyped, Portals
  <2>3. QED
    BY <1>1, <2>1, <2>2, <1>q DEF RefreshScan
<1>2. CASE RefreshReconcile
  <2>1. StoreTyped'
    BY <1>0, <1>2, <1>j, RpcsTyped DEF RefreshReconcile
  <2>2. portal' \in Portals
    BY <1>2, <1>i DEF RefreshReconcile
  <2>3. QED
    BY <1>2, <2>1, <2>2, <1>q DEF RefreshReconcile
<1>3. ASSUME NEW k \in SealKeys, NEW T \in SUBSET Paths, BeginSeal(k, T)
      PROVE  TypeOK'
  <2>1. StoreTyped'
    BY <1>0, <1>3, RpcsTyped DEF BeginSeal
  <2>2. portal' \in Portals
    BY <1>0, <1>3 DEF BeginSeal, Portals
  <2>3. QED
    BY <1>3, <2>1, <2>2, <1>q DEF BeginSeal
<1>4. CASE LiftDirectory
  <2>1. StoreTyped'
    BY <1>0, <1>4, RpcsTyped DEF LiftDirectory
  <2>2. QED
    BY <1>0, <1>4, <1>i, <2>1 DEF LiftDirectory, TypeOK, StoreTyped, DiskTyped
<1>5. ASSUME NEW k \in SealKeys, CommitStart(k)
      PROVE  TypeOK'
  <2>1. StoreTyped'
    BY <1>0, <1>5, RpcsTyped DEF CommitStart
  <2>2. portal' \in Portals
    BY <1>0, <1>5 DEF CommitStart, Portals, StoreTyped, SealOps
  <2>3. QED
    BY <1>5, <2>1, <2>2, <1>q DEF CommitStart
<1>6. ASSUME NEW p \in Paths, HashTarget(p)
      PROVE  TypeOK'
  <2>1. StoreTyped'
    BY <1>0, <1>6, RpcsTyped DEF HashTarget
  <2>2. portal' \in Portals
    BY <1>0, <1>6, <1>i DEF HashTarget, Portals, DiskTyped
  <2>3. QED
    BY <1>6, <2>1, <2>2, <1>q DEF HashTarget
<1>7. CASE FlagTarget
  <2>1. StoreTyped'
    BY <1>0, <1>7, RpcsTyped DEF FlagTarget
  <2>2. DiskTyped' /\ call' \in [Calls -> CallStates]
    BY <1>0, <1>7, PostureTyped DEF FlagTarget, PortalOK
  <2>3. portal' \in Portals
    <3>1. portal.path \in Paths /\ portal.hashed \in Files
      BY <1>7 DEF FlagTarget, PortalOK
    <3>2. [portal.facts EXCEPT ![portal.path] = portal.hashed]
             \in [Paths -> Files \cup {Absent}]
      BY <1>j, <3>1
    <3>3. CASE ~UnchangedUnderFlag
      BY <1>7, <1>i, <3>3 DEF FlagTarget
    <3>4. CASE UnchangedUnderFlag
      <4>1. portal' = [portal EXCEPT !.pc = "protecting", !.path = None,
                         !.todo = @ \ {portal.path}, !.hashed = Absent,
                         !.facts = [portal.facts EXCEPT
                                      ![portal.path] = portal.hashed]]
        BY <1>0, <1>7, <3>4 DEF FlagTarget, Portals
      <4>2. QED
        BY <1>0, <4>1, <3>2 DEF Portals
    <3>5. QED
      BY <3>3, <3>4
  <2>4. QED
    BY <2>1, <2>2, <2>3 DEF TypeOK, StoreTyped, DiskTyped
<1>8. CASE LockDirectory
  <2>1. StoreTyped'
    BY <1>0, <1>8, RpcsTyped DEF LockDirectory
  <2>2. portal' \in Portals
    BY <1>0, <1>8 DEF LockDirectory, Portals
  <2>3. QED
    BY <1>0, <1>8, <2>1, <2>2 DEF LockDirectory, TypeOK, StoreTyped, DiskTyped
<1>9. CASE CommitSeal
  <2>1. portal.key \in SealKeys
    BY <1>9 DEF CommitSeal, PortalOK, SealPCs
  <2>2. StoreTyped'
    BY <1>0, <1>9, <1>j, <2>1, RpcsTyped DEF CommitSeal
  <2>3. QED
    BY <1>9, <1>i, <2>2, <1>q DEF CommitSeal
<1>10. ASSUME NEW p \in Paths, NEW b \in BatchKeys, Ignore(p, b) \/ Retire(p, b)
       PROVE  TypeOK'
  <2>1. StoreTyped'
    BY <1>0, <1>10, RpcsTyped DEF Ignore, Retire
  <2>2. portal' \in Portals /\ UNCHANGED <<diskVars, call, edits>>
    BY <1>0, <1>10 DEF Ignore, Retire
  <2>3. QED
    BY <2>1, <2>2, <1>q
<1>11. ASSUME NEW p \in Paths, NEW b \in BatchKeys, ReprotectHash(p, b)
       PROVE  TypeOK'
  <2>1. StoreTyped'
    BY <1>0, <1>11, RpcsTyped DEF ReprotectHash
  <2>2. portal' \in Portals
    BY <1>0, <1>11 DEF ReprotectHash, Portals, DiskTyped
  <2>3. QED
    BY <1>11, <2>1, <2>2, <1>q DEF ReprotectHash
<1>12. CASE ReprotectFlag
  <2>1. StoreTyped'
    BY <1>0, <1>12, RpcsTyped DEF ReprotectFlag
  <2>2. DiskTyped' /\ call' \in [Calls -> CallStates]
    BY <1>0, <1>12, PostureTyped DEF ReprotectFlag, PortalOK
  <2>3. portal' \in Portals
    BY <1>0, <1>12, <1>i DEF ReprotectFlag, Portals
  <2>4. QED
    BY <2>1, <2>2, <2>3 DEF TypeOK, StoreTyped, DiskTyped
<1>13. CASE ReprotectRecord
  <2>1. portal.key \in BatchKeys /\ portal.path \in Paths
    BY <1>13 DEF ReprotectRecord, PortalOK
  <2>2. StoreTyped'
    BY <1>0, <1>13, <2>1, RpcsTyped DEF ReprotectRecord
  <2>3. QED
    BY <1>13, <1>i, <2>2, <1>q DEF ReprotectRecord
<1>14. \A d \in Dispositions : d[2] \in Paths /\ d[3] \in BatchKeys
  BY DispositionsAssumption
<1>15. QED
  BY <1>1, <1>2, <1>3, <1>4, <1>5, <1>6, <1>7, <1>8, <1>9, <1>10, <1>11,
     <1>12, <1>13, <1>14 DEF PortalStep

\* The steps of a call keep the types.
LEMMA CallTyped ==
    ASSUME TypeOK, PinsOK, NEW c \in Calls, CallStep(c)
    PROVE  TypeOK'
<1>0. /\ StoreTyped /\ DiskTyped
      /\ portal \in Portals /\ call \in [Calls -> CallStates]
  BY TypeSplit
<1>1. call[c] \in CallStates /\ call[c].scan \in Scans /\ Look \in Scans
  BY <1>0, ScansTyped DEF CallStates, DiskTyped
<1>2. StoreTyped'
  BY <1>0, <1>1, RpcsTyped
     DEF CallStep, Scan, Reconcile, Pin, Revalidate, Recheck,
         RecordInventoryChange, Refuse, HoldExecutionAuthority, Open,
       OpenByPath, Finish
<1>3. call' \in [Calls -> CallStates]
  <2>1. CASE Scan(c)
    <3>1. [call[c] EXCEPT !.pc = "scanned", !.scan = Look] \in CallStates
      BY <1>1 DEF CallStates
    <3>2. QED
      BY <1>0, <2>1, <3>1 DEF Scan
  <2>2. CASE Reconcile(c)
    <3>1. [call[c] EXCEPT !.pc = "admitted", !.scan = NoScan] \in CallStates
      BY <1>1, ScansTyped DEF CallStates
    <3>2. QED
      BY <1>0, <2>2, <3>1, CallsTyped DEF Reconcile
  <2>3. ASSUME NEW p \in Paths, Pin(c, p) PROVE call' \in [Calls -> CallStates]
    <3>1. \A n \in {"pinned", "queued"} :
             [call[c] EXCEPT !.pc = n, !.path = p] \in CallStates
      BY <1>1 DEF CallStates
    <3>2. [call[c] EXCEPT !.pc = "selected", !.path = p,
                          !.surface = "selection"] \in CallStates
      BY <1>1 DEF CallStates
    <3>3. CASE Ended(c)
      BY <1>0, <3>3, CallsTyped
    <3>4. CASE ~Ended(c)
      BY <1>0, <2>3, <3>1, <3>2, <3>4 DEF Pin
    <3>5. QED
      BY <3>3, <3>4
  <2>4. CASE Revalidate(c)
    <3>1. [call[c] EXCEPT !.pc = "revalidated"] \in CallStates
      BY <1>1 DEF CallStates
    <3>2. QED
      BY <1>0, <2>4, <3>1, CallsTyped DEF Revalidate
  <2>5. CASE Recheck(c)
    <3>1. [call[c] EXCEPT !.pc = "rechecking", !.scan = Look] \in CallStates
      BY <1>1 DEF CallStates
    <3>2. QED
      BY <1>0, <2>5, <3>1 DEF Recheck
  <2>6. CASE RecordInventoryChange(c) \/ Refuse(c) \/ Finish(c)
    BY <1>0, <2>6, CallsTyped DEF RecordInventoryChange, Refuse, Finish
  <2>7. CASE HoldExecutionAuthority(c)
    <3>1. [call[c] EXCEPT !.pc = "running"] \in CallStates
      BY <1>1 DEF CallStates
    <3>2. QED
      BY <1>0, <2>7, <3>1 DEF HoldExecutionAuthority
  <2>8. CASE Open(c)
    <3>1. CASE ~Openable(c)
      BY <1>0, <2>8, <3>1, CallsTyped DEF Open
    <3>2. CASE Openable(c)
      <4> DEFINE f == disk[call[c].path]
      <4>1. f \in Files \cup {Absent}
        BY <1>0, <2>8 DEF Open, PinsOK, PinnedPCs, Holding, DiskTyped
      <4>2. \A n \in {"reading", "ended"} :
               [call[c] EXCEPT !.read = f, !.pc = n] \in CallStates
        BY <1>1, <4>1 DEF CallStates
      <4>3. QED
        BY <1>0, <2>8, <3>2, <4>2 DEF Open
    <3>3. QED
      BY <3>1, <3>2
  <2>9. CASE OpenByPath(c)
    <3>1. CASE ~(mounted /\ disk[call[c].path] # Absent)
      BY <1>0, <2>9, <3>1, CallsTyped DEF OpenByPath
    <3>2. CASE mounted /\ disk[call[c].path] # Absent
      <4> DEFINE f == disk[call[c].path]
      <4>1. f \in Files \cup {Absent}
        BY <1>0, <2>9 DEF OpenByPath, PinsOK, PinnedPCs, DiskTyped
      <4>2. [call[c] EXCEPT !.read = f, !.pc = "ended"] \in CallStates
        BY <1>1, <4>1 DEF CallStates
      <4>3. QED
        BY <1>0, <2>9, <3>2, <4>2 DEF OpenByPath
    <3>3. QED
      BY <3>1, <3>2
  <2>10. QED
    BY <2>1, <2>2, <2>3, <2>4, <2>5, <2>6, <2>7, <2>8, <2>9 DEF CallStep
<1>4. UNCHANGED <<diskVars, portal, edits>>
  BY DEF CallStep, Scan, Reconcile, Pin, Revalidate, Recheck,
         RecordInventoryChange, Refuse, HoldExecutionAuthority, Open,
       OpenByPath, Finish
<1>5. QED
  BY <1>0, <1>2, <1>3, <1>4 DEF diskVars, TypeOK, StoreTyped, DiskTyped

-----------------------------------------------------------------------------
(* Objects, operations and manifests.                                      *)

\* A new operation is recorded.
SealBegun(k, T) ==
    /\ portal.pc = "idle"
    /\ seal[k].phase = "none"
    /\ ActiveSeals = {}
    /\ \E w \in BOOLEAN :
          seal' = [seal EXCEPT ![k] = [phase |-> "REQUESTED", targets |-> T,
                                       window |-> w]]
    /\ UNCHANGED <<object, manifest>>

\* The tables of objects, operations and manifests change in three ways only,
\* and only while no command holds the lock.
LEMMA StoreMoves ==
    ASSUME TypeOK, PortalOK, Next
    PROVE  \/ UNCHANGED <<object, seal, manifest>>
           \/ /\ LockFree
              /\ \/ \E k \in SealKeys, T \in (SUBSET Paths) \ {{}} : SealBegun(k, T)
                 \/ /\ CommitSeal
                    /\ CustodySealCommit(portal.key, portal.facts)
                 \/ \E p \in Paths, b \in BatchKeys : Retire(p, b)
<1> DEFINE Goal == \/ UNCHANGED <<object, seal, manifest>>
                   \/ /\ LockFree
                      /\ \/ \E k \in SealKeys, T \in (SUBSET Paths) \ {{}} :
                               SealBegun(k, T)
                         \/ /\ CommitSeal
                            /\ CustodySealCommit(portal.key, portal.facts)
                         \/ \E p \in Paths, b \in BatchKeys : Retire(p, b)
<1>1. CASE Environment
  BY <1>1 DEF Environment, Edit, Remount, GatewayCrash, storeVars
<1>2. ASSUME NEW c \in Calls, CallStep(c) PROVE Goal
  BY <1>2 DEF CallStep, Scan, Reconcile, Pin, Revalidate, Recheck,
       RecordInventoryChange, Refuse, HoldExecutionAuthority, Open,
       OpenByPath, Finish,
       CustodyReconcile, storeVars
<1>3. CASE PortalStep
  <2>1. ASSUME NEW k \in SealKeys, NEW T \in (SUBSET Paths) \ {{}}, BeginSeal(k, T)
        PROVE  Goal
    <3>1. CASE UNCHANGED storeVars
      BY <3>1 DEF storeVars
    <3>2. CASE ~UNCHANGED storeVars
      <4> DEFINE w == SealedIn(object) # {}
      <4>1. w \in BOOLEAN
        OBVIOUS
      <4>2. seal' = [seal EXCEPT ![k] = [phase |-> "REQUESTED", targets |-> T,
                                         window |-> w]]
        BY <2>1, <3>2 DEF BeginSeal, CustodySealBegin
      <4>3. SealBegun(k, T)
        <5> HIDE DEF w
        <5>1. QED
          BY <2>1, <3>2, <4>1, <4>2 DEF BeginSeal, CustodySealBegin, SealBegun
      <4>4. QED
        BY <2>1, <4>3 DEF BeginSeal
    <3>3. QED
      BY <3>1, <3>2
  <2>2. CASE CommitSeal
    BY <2>2 DEF CommitSeal, storeVars
  <2>3. ASSUME NEW d \in Dispositions,
               \/ d[1] = "IGNORE" /\ Ignore(d[2], d[3])
               \/ d[1] = "RETIRE" /\ Retire(d[2], d[3])
               \/ d[1] = "REPROTECT" /\ ReprotectHash(d[2], d[3])
        PROVE  Goal
    <3>1. d[2] \in Paths /\ d[3] \in BatchKeys
      BY DispositionsAssumption
    <3>2. CASE Retire(d[2], d[3])
      BY <3>1, <3>2 DEF Retire
    <3>3. CASE Ignore(d[2], d[3])
      BY <3>3 DEF Ignore, CustodyIgnore
    <3>4. CASE ReprotectHash(d[2], d[3])
      BY <3>4 DEF ReprotectHash, storeVars
    <3>5. QED
      BY <2>3, <3>2, <3>3, <3>4
  <2>4. CASE \/ RefreshScan \/ RefreshReconcile \/ LiftDirectory
             \/ FlagTarget \/ LockDirectory \/ ReprotectFlag \/ ReprotectRecord
             \/ \E k \in SealKeys : CommitStart(k)
             \/ \E p \in Paths : HashTarget(p)
    BY <2>4 DEF RefreshScan, RefreshReconcile, LiftDirectory, FlagTarget,
         LockDirectory, ReprotectFlag, ReprotectRecord, CommitStart, HashTarget,
         CustodyReconcile, CustodyReprotect, storeVars
  <2>5. QED
    BY <1>3, <2>1, <2>2, <2>3, <2>4 DEF PortalStep
<1>4. QED
  BY <1>1, <1>2, <1>3 DEF Next

\* An object stays, with the file it was sealed with.
LEMMA ObjectsStay ==
    ASSUME TypeOK, PortalOK, Next
    PROVE  \A p \in Paths : object[p].status # "none" =>
             object'[p].status # "none" /\ object'[p].file = object[p].file
<1>1. CASE UNCHANGED <<object, seal, manifest>>
  BY <1>1
<1>2. ASSUME NEW k \in SealKeys, NEW T \in SUBSET Paths, SealBegun(k, T)
      PROVE  object' = object
  BY <1>2 DEF SealBegun
<1>3. CASE CustodySealCommit(portal.key, portal.facts)
  BY <1>3 DEF CustodySealCommit, PathFree
<1>4. ASSUME NEW q \in Paths, NEW b \in BatchKeys, Retire(q, b), NEW p \in Paths,
             object[p].status # "none"
      PROVE  object'[p].status # "none" /\ object'[p].file = object[p].file
  <2>1. object[p] \in Objects /\ object[q] \in Objects
    BY DEF TypeOK
  <2>2. object' = [object EXCEPT ![q] = [object[q] EXCEPT !.status = "retired"]]
    BY <1>4 DEF Retire, CustodyRetire, TypeOK
  <2>3. object \in [Paths -> Objects]
    BY DEF TypeOK
  <2>4. QED
    BY <1>4, <2>1, <2>2, <2>3 DEF Objects
<1>5. QED
  BY <1>1, <1>2, <1>3, <1>4, StoreMoves

StoreSafe == /\ ObjectsOK /\ OneActiveSeal
             /\ SealsAllOrNothing /\ ManifestListsSealed

\* The three moves keep objects, operations and manifests consistent.
LEMMA StoreSafeKept ==
    ASSUME TypeOK, PortalOK, StoreSafe, Next
    PROVE  StoreSafe'
<1>0. /\ object \in [Paths -> Objects] /\ manifest \in Seq(Manifests)
      /\ seal \in [SealKeys -> SealOps]
  BY DEF TypeOK
<1> USE DEF StoreSafe
<1>1. CASE UNCHANGED <<object, seal, manifest>>
  BY <1>1 DEF ObjectsOK, OneActiveSeal, ActiveSeals, SealsAllOrNothing,
       ManifestListsSealed, SealedIn
<1>2. ASSUME NEW k \in SealKeys, NEW T \in (SUBSET Paths) \ {{}}, SealBegun(k, T)
      PROVE  StoreSafe'
  <2>1. PICK w \in BOOLEAN :
           seal' = [seal EXCEPT ![k] = [phase |-> "REQUESTED", targets |-> T,
                                        window |-> w]]
    BY <1>2 DEF SealBegun
  <2>2. /\ seal'[k].phase = "REQUESTED" /\ seal'[k].targets = T
        /\ \A l \in SealKeys \ {k} : seal'[l] = seal[l]
        /\ UNCHANGED <<object, manifest>> /\ seal[k].phase = "none"
        /\ ActiveSeals = {}
    BY <1>0, <1>2, <2>1 DEF SealBegun
  <2>3. ObjectsOK'
    <3>1. T # {}
      BY <1>2
    <3>2. \A l \in SealKeys : seal'[l].phase = "REQUESTED" => seal'[l].targets # {}
      BY <2>2, <3>1 DEF ObjectsOK
    <3>3. QED
      BY <2>2, <3>2 DEF ObjectsOK
  <2>4. OneActiveSeal'
    BY <2>2 DEF OneActiveSeal, ActiveSeals
  <2>5. SealsAllOrNothing'
    BY <2>2 DEF SealsAllOrNothing
  <2>6. ManifestListsSealed'
    BY <2>2 DEF ManifestListsSealed, SealedIn
  <2>7. QED
    BY <2>3, <2>4, <2>5, <2>6
<1>3. CASE CommitSeal /\ CustodySealCommit(portal.key, portal.facts)
  <2> DEFINE k == portal.key
  <2> DEFINE T == seal[k].targets
  <2>1. /\ k \in SealKeys
        /\ \A p \in T : portal.facts[p] \in Files
    BY <1>3 DEF CommitSeal, PortalOK, SealPCs
  <2>2. T \in SUBSET Paths
    BY <1>0, <2>1 DEF SealOps
  <2>3. /\ seal'[k].phase = "COMMITTED" /\ seal'[k].targets = T
        /\ \A l \in SealKeys \ {k} : seal'[l] = seal[l]
    BY <1>0, <1>3, <2>1 DEF CustodySealCommit, SealOps
  <2>4. /\ \A p \in T : /\ object[p].status = "none"
                         /\ object'[p].status = "sealed"
                         /\ object'[p].file = portal.facts[p]
        /\ \A p \in Paths \ T : object'[p] = object[p]
    BY <1>3, <2>2 DEF CustodySealCommit, PathFree
  <2>5. manifest' = Append(manifest, ManifestOf(object', {}))
    BY <1>3 DEF CustodySealCommit
  <2>t. T = seal[k].targets
    OBVIOUS
  <2> HIDE DEF k, T
  <2>6. ObjectsOK'
    BY <2>1, <2>2, <2>3, <2>4 DEF ObjectsOK
  <2>7. OneActiveSeal'
    BY <2>1, <2>3 DEF OneActiveSeal, ActiveSeals
  <2>8. SealsAllOrNothing'
    <3>1. ASSUME NEW l \in SealKeys, seal'[l].phase = "COMMITTED",
                 NEW p \in seal'[l].targets
          PROVE  object'[p].status # "none"
      <4>1. CASE l = k
        BY <3>1, <4>1, <2>3, <2>4
      <4>2. CASE l # k
        <5>1. seal[l].phase = "COMMITTED" /\ p \in seal[l].targets
          BY <3>1, <4>2, <2>3
        <5>2. object[p].status # "none" /\ p \in Paths
          BY <1>0, <5>1 DEF SealsAllOrNothing, SealOps
        <5>3. QED
          BY <5>2, <2>4
      <4>3. QED
        BY <4>1, <4>2
    <3>2. ASSUME NEW p \in Paths, object'[p].status # "none"
          PROVE  /\ object'[p].file # Absent
                 /\ \E l \in SealKeys : /\ seal'[l].phase = "COMMITTED"
                                        /\ p \in seal'[l].targets
      <4>1. CASE p \in T
        BY <4>1, <2>1, <2>3, <2>4, AbsentAssumption
      <4>2. CASE p \notin T
        <5>1. object[p].status # "none" /\ object'[p] = object[p]
          BY <3>2, <4>2, <2>4
        <5>2. PICK l \in SealKeys : /\ seal[l].phase = "COMMITTED"
                                    /\ p \in seal[l].targets
          BY <5>1 DEF SealsAllOrNothing
        <5>3. seal'[l].phase = "COMMITTED" /\ p \in seal'[l].targets
          BY <5>2, <2>3, <2>t, <4>2
        <5>4. QED
          BY <5>1, <5>3 DEF SealsAllOrNothing
      <4>3. QED
        BY <4>1, <4>2
    <3>3. QED
      BY <3>1, <3>2 DEF SealsAllOrNothing
  <2>9. ManifestListsSealed'
    BY <1>0, <2>5 DEF ManifestListsSealed, ManifestOf, Manifests
  <2>10. QED
    BY <2>6, <2>7, <2>8, <2>9
<1>4. ASSUME NEW p \in Paths, NEW b \in BatchKeys, Retire(p, b)
      PROVE  StoreSafe'
  <2>1. object[p] \in Objects
    BY <1>0
  <2>2. /\ object'[p].status = "retired" /\ object'[p].file = object[p].file
        /\ \A q \in Paths \ {p} : object'[q] = object[q]
        /\ object[p].status # "none" /\ seal' = seal
        /\ manifest' = Append(manifest, ManifestOf(object', {p}))
    BY <1>0, <2>1, <1>4 DEF Retire, CustodyRetire, Objects
  <2>3. ObjectsOK'
    BY <2>2 DEF ObjectsOK
  <2>4. OneActiveSeal'
    BY <2>2 DEF OneActiveSeal, ActiveSeals
  <2>5. SealsAllOrNothing'
    <3>1. \A q \in Paths : /\ object'[q].status # "none" <=>
                                object[q].status # "none"
                           /\ object'[q].file = object[q].file
      BY <2>2
    <3>2. \A k \in SealKeys : seal[k].targets \subseteq Paths
      BY <1>0 DEF SealOps
    <3>3. QED
      BY <3>1, <3>2, <2>2 DEF SealsAllOrNothing
  <2>6. ManifestListsSealed'
    BY <1>0, <2>2 DEF ManifestListsSealed, ManifestOf, Manifests
  <2>7. QED
    BY <2>3, <2>4, <2>5, <2>6
<1>5. QED
  BY <1>1, <1>2, <1>3, <1>4, StoreMoves

-----------------------------------------------------------------------------
(* The handler in progress and the calls.                                  *)

\* While a handler works on an operation, nobody else changes the operation.
LEMMA OperationStays ==
    ASSUME TypeOK, PortalOK, Next, portal.pc # "idle"
    PROVE  seal' = seal \/ portal' = IdlePortal
BY StoreMoves DEF SealBegun, CommitSeal, Retire

\* What the handler in progress relies on stays so.
LEMMA PortalKept ==
    ASSUME TypeOK, PortalOK, Next
    PROVE  PortalOK'
<1>0. /\ portal \in Portals /\ disk \in [Paths -> Files \cup {Absent}]
      /\ seal \in [SealKeys -> SealOps]
  BY DEF TypeOK
<1>i. portal'.pc \in {"idle", "refreshing", "lifting"} => PortalOK'
  BY DEF PortalOK, SealPCs
<1>j. IdlePortal.pc = "idle"
  BY DEF IdlePortal
<1>u. ASSUME portal' = portal PROVE PortalOK'
  <2>1. CASE portal.pc = "idle"
    BY <1>u, <2>1, <1>i
  <2>2. CASE portal.pc # "idle"
    <3>1. seal' = seal
      BY <1>u, <1>j, <2>2, OperationStays
    <3>2. QED
      BY <1>u, <3>1, ObjectsStay DEF PortalOK
  <2>3. QED
    BY <2>1, <2>2
<1>1. CASE Environment
  BY <1>1, <1>u, <1>i, <1>j DEF Environment, Edit, Remount, GatewayCrash
<1>2. ASSUME NEW c \in Calls, CallStep(c) PROVE PortalOK'
  BY <1>2, <1>u DEF CallStep, Scan, Reconcile, Pin, Revalidate, Recheck,
       RecordInventoryChange, Refuse, HoldExecutionAuthority, Open,
       OpenByPath, Finish
<1>3. CASE RefreshScan
  BY <1>0, <1>3, <1>i DEF RefreshScan, Portals
<1>4. CASE RefreshReconcile \/ LiftDirectory \/ CommitSeal \/ ReprotectRecord
  BY <1>4, <1>i, <1>j
     DEF RefreshReconcile, LiftDirectory, CommitSeal, ReprotectRecord
<1>5. ASSUME NEW k \in SealKeys, NEW T \in SUBSET Paths, BeginSeal(k, T)
      PROVE  PortalOK'
  <2>1. portal'.pc \in {"idle", "lifting"}
    BY <1>0, <1>5 DEF BeginSeal, Portals
  <2>2. QED
    BY <2>1, <1>i
<1>6. ASSUME NEW k \in SealKeys, CommitStart(k) PROVE PortalOK'
  <2>1. /\ portal'.pc = "protecting" /\ portal'.key = k
        /\ portal'.todo = seal[k].targets
        /\ seal' = seal /\ seal[k].phase = "REQUESTED"
    BY <1>0, <1>6 DEF CommitStart, Portals, storeVars
  <2>2. QED
    BY <2>1 DEF PortalOK
<1>7. ASSUME NEW p \in Paths, HashTarget(p) PROVE PortalOK'
  <2>1. CASE ~Sealable(p)
    BY <1>7, <2>1, <1>i, <1>j DEF HashTarget
  <2>2. CASE Sealable(p)
    <3>1. /\ portal'.pc = "hashed" /\ portal'.path = p /\ portal'.hashed = disk[p]
          /\ portal'.key = portal.key /\ portal'.todo = portal.todo
          /\ portal'.facts = portal.facts /\ seal' = seal
          /\ p \in portal.todo /\ portal.pc = "protecting"
      BY <1>0, <1>7, <2>2 DEF HashTarget, Portals, storeVars
    <3>2. disk[p] \in Files
      BY <1>0, <2>2 DEF Sealable
    <3>3. QED
      BY <3>1, <3>2 DEF PortalOK, SealPCs
  <2>3. QED
    BY <2>1, <2>2
<1>8. CASE FlagTarget
  <2>1. CASE ~UnchangedUnderFlag
    BY <1>8, <2>1, <1>i, <1>j DEF FlagTarget
  <2>2. CASE UnchangedUnderFlag
    <3> DEFINE q == portal.path
    <3>1. /\ portal'.pc = "protecting" /\ portal'.key = portal.key
          /\ portal'.todo = portal.todo \ {q}
          /\ portal'.facts = [portal.facts EXCEPT ![q] = portal.hashed]
          /\ seal' = seal
      BY <1>0, <1>8, <2>2 DEF FlagTarget, Portals, storeVars
    <3>2. /\ portal.facts \in [Paths -> Files \cup {Absent}]
          /\ q \in Paths /\ portal.hashed \in Files /\ q \in portal.todo
          /\ portal.key \in SealKeys /\ seal[portal.key].phase = "REQUESTED"
          /\ portal.todo \subseteq seal[portal.key].targets
          /\ \A p \in seal[portal.key].targets \ portal.todo :
                portal.facts[p] \in Files
      BY <1>0, <1>8 DEF FlagTarget, PortalOK, SealPCs, Portals
    <3>3. seal[portal.key].targets \subseteq Paths
      BY <1>0, <3>2 DEF SealOps
    <3> HIDE DEF q
    <3>4. \A p \in seal[portal.key].targets \ (portal.todo \ {q}) :
             [portal.facts EXCEPT ![q] = portal.hashed][p] \in Files
      BY <3>2, <3>3
    <3>5. QED
      BY <3>1, <3>2, <3>4 DEF PortalOK
  <2>3. QED
    BY <2>1, <2>2
<1>9. CASE LockDirectory
  <2>1. /\ portal'.pc = "committing" /\ portal'.key = portal.key
        /\ portal'.todo = portal.todo /\ portal'.facts = portal.facts
        /\ seal' = seal /\ portal.todo = {} /\ portal.pc = "protecting"
    BY <1>0, <1>9 DEF LockDirectory, Portals, storeVars
  <2>2. QED
    BY <2>1 DEF PortalOK, SealPCs
<1>10. ASSUME NEW d \in Dispositions, Ignore(d[2], d[3]) \/ Retire(d[2], d[3])
       PROVE  PortalOK'
  BY <1>10, <1>u DEF Ignore, Retire
<1>11. ASSUME NEW p \in Paths, NEW b \in BatchKeys, ReprotectHash(p, b)
       PROVE  PortalOK'
  <2>1. /\ portal'.pc = "reprotecting" /\ portal'.path = p /\ portal'.key = b
        /\ portal'.hashed = disk[p] /\ object' = object
        /\ object[p].status # "none"
    BY <1>0, <1>11 DEF ReprotectHash, Portals, storeVars
  <2>2. disk[p] \in Files
    BY <1>0, <1>11 DEF ReprotectHash, Identical
  <2>3. QED
    BY <2>1, <2>2 DEF PortalOK, SealPCs
<1>12. CASE ReprotectFlag
  <2>1. \/ portal' = IdlePortal
        \/ /\ portal'.pc = "recording" /\ portal'.path = portal.path
           /\ portal'.key = portal.key /\ object' = object
           /\ portal.pc = "reprotecting"
    BY <1>0, <1>12 DEF ReprotectFlag, Portals, storeVars
  <2>2. QED
    BY <2>1, <1>i, <1>j DEF PortalOK, SealPCs
<1>13. \A d \in Dispositions : d[2] \in Paths /\ d[3] \in BatchKeys
  BY DispositionsAssumption
<1>14. QED
  BY <1>1, <1>2, <1>3, <1>4, <1>5, <1>6, <1>7, <1>8, <1>9, <1>10, <1>11,
     <1>12, <1>13 DEF Next, PortalStep

\* What a step does to a call d, as far as the invariants see it: the call
\* keeps its path, and it is pinned, holding or has read only if it was so
\* before, but for the steps that pin, hold and open.
Follows(d) ==
    /\ call'[d].path = call[d].path
    /\ call'[d].read = call[d].read
    /\ call'[d].surface = call[d].surface
    /\ call'[d].pc = "selected" => call[d].pc = "selected"
    /\ call[d].changed \subseteq call'[d].changed
    /\ call'[d].pc \in PinnedPCs => call[d].pc \in PinnedPCs
    /\ call'[d].pc \in Holding => call[d].pc \in Holding
    /\ call[d].pc \in {"reading", "ended"} => call'[d].pc \in {"reading", "ended"}
    /\ call'[d].pc = "revalidated" =>
         call[d].pc = "revalidated" \/ (Gate = "OPEN" /\ call[d].pc = "pinned")

PinnedNow(d) ==
    /\ call[d].pc = "admitted"
    /\ \E p \in Paths : /\ object[p].status = "sealed"
                        /\ call'[d].path = p
                        /\ call'[d].pc \in {"pinned", "queued", "selected"}
                        /\ call'[d].read = call[d].read
    /\ call'[d].pc = "selected" => call'[d].surface = "selection"

OpenedNow(d) ==
    /\ call[d].pc \in {"running", "revalidated"}
    /\ Openable(d)
    /\ call'[d].path = call[d].path
    /\ call'[d].changed = call[d].changed
    /\ call'[d].read = disk[call[d].path]
    /\ call'[d].pc = IF call[d].pc = "running" THEN "reading" ELSE "ended"

TakenNow(d) ==
    /\ call[d].pc = "selected"
    /\ call'[d].path = call[d].path
    /\ call'[d].surface = call[d].surface
    /\ call'[d].pc = "ended"

HeldNow(d) ==
    /\ Authorised(d)
    /\ call[d].pc = "queued"
    /\ call' = [call EXCEPT ![d].pc = "running"]
    /\ UNCHANGED <<storeVars, diskVars, portal, edits>>

\* Every step treats every call in one of these five ways.
LEMMA CallMoves ==
    ASSUME TypeOK, Next, NEW d \in Calls
    PROVE  \/ Follows(d) \/ PinnedNow(d) \/ OpenedNow(d) \/ HeldNow(d)
           \/ TakenNow(d)
<1>0. call \in [Calls -> CallStates] /\ call[d] \in CallStates
  BY DEF TypeOK
<1>u. call' = call => Follows(d)
  BY DEF Follows, PinnedPCs, Holding
<1>t. ASSUME NEW S \in SUBSET Paths, call' = Touched(S) PROVE Follows(d)
  BY <1>0, <1>t DEF Touched, CallStates, Follows, PinnedPCs, Holding
<1>1. CASE Environment
  <2>1. ASSUME NEW p \in Paths, NEW f \in Files \cup {Absent}, Edit(p, f)
        PROVE  Follows(d)
    BY <2>1, <1>t DEF Edit
  <2>2. CASE Remount
    BY <2>2, <1>u DEF Remount
  <2>3. CASE GatewayCrash
    BY <1>0, <2>3 DEF GatewayCrash, CallStates, Follows, PinnedPCs, Holding
  <2>4. QED
    BY <1>1, <2>1, <2>2, <2>3 DEF Environment
<1>2. CASE PortalStep
  <2>1. CASE FlagTarget \/ ReprotectFlag
    <3>1. call' = call \/ call' = Touched({portal.path})
      BY <2>1 DEF FlagTarget, ReprotectFlag, ApplyPosture
    <3>2. call' = Touched({portal.path}) => Follows(d)
      BY <1>0 DEF Touched, CallStates, Follows, PinnedPCs, Holding
    <3>3. QED
      BY <3>1, <3>2, <1>u
  <2>2. CASE ~(FlagTarget \/ ReprotectFlag)
    BY <1>2, <2>2, <1>u
       DEF PortalStep, RefreshScan, RefreshReconcile, BeginSeal, CommitStart,
           LiftDirectory, HashTarget, LockDirectory, CommitSeal, Ignore, Retire,
           ReprotectHash, ReprotectRecord
  <2>3. QED
    BY <2>1, <2>2
<1>3. ASSUME NEW c \in Calls, CallStep(c)
      PROVE  \/ Follows(d) \/ PinnedNow(d) \/ OpenedNow(d) \/ HeldNow(d)
             \/ TakenNow(d)
  <2>1. CASE c # d
    <3>1. call'[d] = call[d]
      BY <1>0, <1>3, <2>1
         DEF CallStep, Scan, Reconcile, Pin, Revalidate, Recheck, Ended,
             RecordInventoryChange, Refuse, HoldExecutionAuthority, Open,
       OpenByPath, Finish
    <3>2. QED
      BY <3>1 DEF Follows, PinnedPCs, Holding
  <2>2. CASE c = d
    <3>e. ASSUME Ended(d) PROVE Follows(d)
      BY <1>0, <3>e DEF Ended, CallStates, Follows, PinnedPCs, Holding
    <3>1. CASE Scan(d)
      BY <1>0, <3>1 DEF Scan, CallStates, Follows, PinnedPCs, Holding
    <3>2. CASE Reconcile(d)
      <4>1. \/ Ended(d)
            \/ call' = [call EXCEPT ![d].pc = "admitted", ![d].scan = NoScan]
        BY <3>2 DEF Reconcile
      <4>2. ASSUME call' = [call EXCEPT ![d].pc = "admitted", ![d].scan = NoScan]
            PROVE  Follows(d)
        BY <1>0, <3>2, <4>2 DEF Reconcile, CallStates, Follows, PinnedPCs, Holding
      <4>3. QED
        BY <4>1, <4>2, <3>e
    <3>3. ASSUME NEW p \in Paths, Pin(d, p) PROVE Follows(d) \/ PinnedNow(d)
      <4>1. CASE ~Resolves(p)
        BY <3>3, <4>1, <3>e DEF Pin
      <4>2. CASE Resolves(p)
        <5>1. CASE \E n \in {"pinned", "queued"} :
                     call' = [call EXCEPT ![d].pc = n, ![d].path = p]
          <6>1. PICK n \in {"pinned", "queued"} :
                   call' = [call EXCEPT ![d].pc = n, ![d].path = p]
            BY <5>1
          <6>2. /\ call'[d].pc = n /\ call'[d].path = p
                /\ call'[d].read = call[d].read /\ call[d].pc = "admitted"
            BY <1>0, <3>3, <6>1 DEF Pin, CallStates
          <6>3. QED
            BY <4>2, <6>2 DEF Resolves, PinnedNow
        <5>2. CASE call' = [call EXCEPT ![d].pc = "selected", ![d].path = p,
                                        ![d].surface = "selection"]
          <6>1. /\ call'[d].pc = "selected" /\ call'[d].path = p
                /\ call'[d].surface = "selection"
                /\ call'[d].read = call[d].read /\ call[d].pc = "admitted"
            BY <1>0, <3>3, <5>2 DEF Pin, CallStates
          <6>2. QED
            BY <4>2, <6>1 DEF Resolves, PinnedNow
        <5>3. QED
          BY <3>3, <4>2, <5>1, <5>2 DEF Pin
      <4>3. QED
        BY <4>1, <4>2
    <3>4. CASE Revalidate(d)
      <4>1. CASE Gate # "OPEN"
        BY <3>4, <4>1, <3>e DEF Revalidate
      <4>2. CASE Gate = "OPEN"
        BY <1>0, <3>4, <4>2
           DEF Revalidate, CallStates, Follows, PinnedPCs, Holding
      <4>3. QED
        BY <4>1, <4>2
    <3>5. CASE Recheck(d)
      BY <1>0, <3>5 DEF Recheck, CallStates, Follows, PinnedPCs, Holding
    <3>6. CASE RecordInventoryChange(d) \/ Refuse(d) \/ Finish(d)
      BY <3>6, <3>e DEF RecordInventoryChange, Refuse, Finish
    <3>7. CASE HoldExecutionAuthority(d)
      BY <3>7 DEF HoldExecutionAuthority, HeldNow
    <3>8. CASE Open(d)
      <4>1. CASE ~Openable(d)
        BY <3>8, <4>1, <3>e DEF Open
      <4>2. CASE Openable(d)
        BY <1>0, <3>8, <4>2 DEF Open, OpenedNow, CallStates
      <4>3. QED
        BY <4>1, <4>2
    <3>9. CASE OpenByPath(d)
      <4>1. CASE Ended(d)
        BY <4>1, <3>e
      <4>2. CASE ~Ended(d)
        BY <1>0, <3>9, <4>2 DEF OpenByPath, TakenNow, CallStates
      <4>3. QED
        BY <4>1, <4>2
    <3>10. QED
      BY <1>3, <2>2, <3>1, <3>2, <3>3, <3>4, <3>5, <3>6, <3>7, <3>8, <3>9
         DEF CallStep
  <2>3. QED
    BY <2>1, <2>2
<1>4. QED
  BY <1>1, <1>2, <1>3 DEF Next

\* A pinned call keeps a path that has an object.
LEMMA PinsKept ==
    ASSUME TypeOK, PortalOK, PinsOK, Next
    PROVE  PinsOK'
<1> SUFFICES ASSUME NEW d \in Calls
      PROVE  /\ call'[d].pc \in PinnedPCs \/ call'[d].read # Absent =>
                  /\ call'[d].path \in Paths
                  /\ object'[call'[d].path].status # "none"
             /\ call'[d].pc = "selected" => call'[d].surface = "selection"
  BY DEF PinsOK, PinnedPCs, Holding
<1>0. call \in [Calls -> CallStates] /\ call[d] \in CallStates
  BY DEF TypeOK
<1>1. CASE Follows(d)
  BY <1>1, ObjectsStay DEF Follows, PinsOK
<1>2. CASE PinnedNow(d)
  BY <1>2, ObjectsStay DEF PinnedNow
<1>3. CASE OpenedNow(d)
  BY <1>3, ObjectsStay DEF OpenedNow, PinsOK, PinnedPCs, Holding
<1>4. CASE HeldNow(d)
  <2>1. /\ call'[d].path = call[d].path /\ call[d].pc = "queued"
        /\ call'[d].pc = "running"
    BY <1>0, <1>4 DEF HeldNow, CallStates
  <2>2. QED
    BY <2>1, ObjectsStay DEF PinsOK, PinnedPCs
<1>5. CASE TakenNow(d)
  BY <1>5, ObjectsStay DEF TakenNow, PinsOK, PinnedPCs
<1>6. QED
  BY <1>1, <1>2, <1>3, <1>4, <1>5, CallMoves

\* While a command holds the lock, the tables the gate is computed from do
\* not change.
LEMMA LockHoldsTables ==
    ASSUME Next, ~LockFree
    PROVE  UNCHANGED <<inventory, storage, object, seal>>
BY DEF Next, Environment, PortalStep, CallStep, storeVars,
       Edit, Remount, GatewayCrash, RefreshScan, RefreshReconcile, BeginSeal,
       CommitStart, LiftDirectory, HashTarget, FlagTarget, LockDirectory,
       CommitSeal, Ignore, Retire, ReprotectHash, ReprotectFlag,
       ReprotectRecord, Scan, Reconcile, Pin, Revalidate, Recheck,
       RecordInventoryChange, Refuse, HoldExecutionAuthority, Open,
       OpenByPath, Finish

\* A command runs on an open gate from its last validation to its end.
LEMMA ExecutingKept ==
    ASSUME TypeOK, ExecutingUnderOpenGate, Next
    PROVE  ExecutingUnderOpenGate'
<1> SUFFICES ASSUME NEW d \in Calls, call'[d].pc \in Holding
             PROVE  Gate' = "OPEN" /\ object'[call'[d].path].status = "sealed"
  BY DEF ExecutingUnderOpenGate, Holding
<1>0. call \in [Calls -> CallStates] /\ call[d] \in CallStates
  BY DEF TypeOK
<1>g. ASSUME UNCHANGED <<inventory, storage, object, seal>> PROVE Gate' = Gate
  BY <1>g DEF Gate, GateState, Violation, Pending, ActiveSeals, SealedIn
<1>1. CASE HeldNow(d)
  <2>1. UNCHANGED <<inventory, storage, object, seal>>
    BY <1>1 DEF HeldNow, storeVars
  <2>2. call'[d].path = call[d].path
    BY <1>0, <1>1 DEF HeldNow, CallStates
  <2>3. QED
    BY <1>1, <1>g, <2>1, <2>2 DEF HeldNow, Authorised
<1>2. CASE Follows(d) \/ OpenedNow(d)
  <2>1. call'[d].path = call[d].path /\ call[d].pc \in Holding
    BY <1>2 DEF Follows, OpenedNow, Holding
  <2>2. UNCHANGED <<inventory, storage, object, seal>>
    BY <2>1, LockHoldsTables DEF LockFree
  <2>3. QED
    BY <1>g, <2>1, <2>2 DEF ExecutingUnderOpenGate
<1>3. CASE PinnedNow(d) \/ TakenNow(d)
  BY <1>3 DEF PinnedNow, TakenNow, Holding
<1>4. QED
  BY <1>1, <1>2, <1>3, CallMoves

-----------------------------------------------------------------------------
(* The invariant and what it gives.                                        *)

\* The invariant holds of a new case.
LEMMA InitSafe == Init => IInv
<1> SUFFICES ASSUME Init PROVE IInv
  OBVIOUS
<1>1. TypeOK
  <2>1. inventory \in [Paths -> Rows]
    <3>1. [sight |-> Absent, ignored |-> FALSE] \in Rows
      BY ScansTyped DEF Rows
    <3>2. QED
      BY <3>1 DEF Init, StoreInit
  <2>2. /\ object \in [Paths -> Objects] /\ seal \in [SealKeys -> SealOps]
        /\ manifest \in Seq(Manifests) /\ chain \in Seq(Events)
    BY DEF Init, StoreInit, Objects, SealOps
  <2>3. portal \in Portals /\ call \in [Calls -> CallStates]
    BY IdleTyped DEF Init
  <2>4. edits \in 0..MaxEdits
    BY EditsAssumption DEF Init
  <2>5. QED
    BY <2>1, <2>2, <2>3, <2>4 DEF Init, StoreInit, TypeOK
<1>2. PortalOK
  BY DEF Init, IdlePortal, PortalOK, SealPCs
<1>3. \A c \in Calls : call[c].pc = "idle" /\ call[c].read = Absent
  BY DEF Init, IdleCall
<1>4. PinsOK /\ ExecutingUnderOpenGate
  BY <1>3 DEF PinsOK, ExecutingUnderOpenGate, PinnedPCs, Holding
<1>5. /\ \A p \in Paths : object[p].status = "none"
      /\ \A k \in SealKeys : seal[k].phase = "none"
      /\ manifest = <<>>
  BY DEF Init, StoreInit
<1>6. /\ ObjectsOK /\ OneActiveSeal
      /\ SealsAllOrNothing /\ ManifestListsSealed
  BY <1>5 DEF ObjectsOK, OneActiveSeal, ActiveSeals, SealsAllOrNothing,
       ManifestListsSealed, SealedIn
<1>7. QED
  BY <1>1, <1>2, <1>4, <1>6 DEF IInv

\* The inductive invariant is kept by every step.
LEMMA StepSafe == IInv /\ [Next]_vars => IInv'
<1> SUFFICES ASSUME IInv, [Next]_vars PROVE IInv'
  OBVIOUS
<1>0. TypeOK /\ PortalOK /\ PinsOK /\ StoreSafe /\ ExecutingUnderOpenGate
  BY DEF IInv, StoreSafe
<1>1. CASE Next
  <2>1. TypeOK'
    BY <1>0, <1>1, EnvironmentTyped, PortalTyped, CallTyped DEF Next
  <2>2. StoreSafe'
    BY <1>0, <1>1, StoreSafeKept
  <2>3. PortalOK' /\ PinsOK' /\ ExecutingUnderOpenGate'
    BY <1>0, <1>1, PortalKept, PinsKept, ExecutingKept
  <2>4. QED
    BY <2>1, <2>2, <2>3 DEF IInv, StoreSafe
<1>2. CASE UNCHANGED vars
  BY <1>2 DEF vars, storeVars, diskVars, IInv, TypeOK, PortalOK, PinsOK,
       ObjectsOK, OneActiveSeal, ActiveSeals, SealsAllOrNothing,
       ManifestListsSealed, SealedIn, ExecutingUnderOpenGate, Gate, GateState,
       Violation, Pending
<1>3. QED
  BY <1>1, <1>2

\* The inductive invariant: types, what handlers and calls in progress rely
\* on, and the properties below.
THEOREM Invariance == Spec => []IInv
<1>1. QED
  BY InitSafe, StepSafe, PTL DEF Spec

\* Tables, directory, handlers and calls keep their types.
THEOREM TypeCorrect == Spec => []TypeOK
<1>1. IInv => TypeOK
  BY DEF IInv
<1>2. QED
  BY <1>1, Invariance, PTL

\* custody_seal_commit admits all targets of an operation or none, for any
\* interleaving of handlers, reconciliations, commands, writers and crashes.
THEOREM AllOrNothing == Spec => []SealsAllOrNothing
<1>1. IInv => SealsAllOrNothing
  BY DEF IInv
<1>2. QED
  BY <1>1, Invariance, PTL

\* The newest manifest that commits and retirements leave lists the sealed
\* objects.
THEOREM ManifestIsSealedSet == Spec => []ManifestListsSealed
<1>1. IInv => ManifestListsSealed
  BY DEF IInv
<1>2. QED
  BY <1>1, Invariance, PTL

\* hold_execution_authority and the lock of the RPCs keep the gate open
\* under every running command.
THEOREM ExecutesUnderOpenGate == Spec => []ExecutingUnderOpenGate
<1>1. IInv => ExecutingUnderOpenGate
  BY DEF IInv
<1>2. QED
  BY <1>1, Invariance, PTL

-----------------------------------------------------------------------------
(* What calls open.                                                        *)

\* The posture of the hashed file at p is restored.
Restored(p) ==
    /\ FlagTarget \/ ReprotectFlag
    /\ p = portal.path
    /\ disk[p] # Absent
    /\ disk'[p] # Absent
    /\ disk'[p].bytes = disk[p].bytes
    /\ call' = Touched({p})

\* A path is left alone, or someone edits it, or its posture is restored.
LEMMA DiskMoves ==
    ASSUME TypeOK, PortalOK, Next, NEW p \in Paths
    PROVE  \/ disk'[p] = disk[p] /\ (p \in locked' => p \in locked)
           \/ \E f \in Files \cup {Absent} : Edit(p, f)
           \/ Restored(p)
<1> DEFINE Kept == disk'[p] = disk[p] /\ (p \in locked' => p \in locked)
<1> DEFINE Edited == \E f \in Files \cup {Absent} : Edit(p, f)
<1>0. disk \in [Paths -> Files \cup {Absent}] /\ portal \in Portals
  BY DEF TypeOK
<1>u. disk' = disk /\ locked' = locked => Kept
  OBVIOUS
<1>1. CASE Environment
  <2>1. ASSUME NEW q \in Paths, NEW f \in Files \cup {Absent}, Edit(q, f)
        PROVE  Kept \/ Edited
    <3>1. CASE q = p
      BY <2>1, <3>1
    <3>2. CASE q # p
      BY <1>0, <2>1, <3>2 DEF Edit
    <3>3. QED
      BY <3>1, <3>2
  <2>2. CASE Remount \/ GatewayCrash
    BY <2>2 DEF Remount, GatewayCrash, diskVars
  <2>3. QED
    BY <1>1, <2>1, <2>2 DEF Environment
<1>2. ASSUME NEW c \in Calls, CallStep(c) PROVE Kept
  BY <1>2 DEF CallStep, Scan, Reconcile, Pin, Revalidate, Recheck, diskVars,
       RecordInventoryChange, Refuse, HoldExecutionAuthority, Open,
       OpenByPath, Finish
<1>3. CASE FlagTarget \/ ReprotectFlag
  <2> DEFINE q == portal.path
  <2>1. q \in Paths /\ ApplyPosture
    BY <1>3 DEF FlagTarget, ReprotectFlag, PortalOK
  <2>2. CASE ~StillThere
    BY <2>1, <2>2 DEF ApplyPosture
  <2>3. CASE StillThere
    <3>1. disk[q] \in Files
      BY <1>0, <2>1, <2>3 DEF StillThere
    <3>2. /\ disk' = [disk EXCEPT ![q] = [disk[q] EXCEPT !.mode = "0644"]]
          /\ locked' = locked \cup {q}
          /\ call' = Touched({q})
      BY <1>0, <2>1, <2>3 DEF ApplyPosture
    <3>3. [disk[q] EXCEPT !.mode = "0644"] \in Files
      BY <3>1, FilesAssumption
    <3>4. [disk[q] EXCEPT !.mode = "0644"].bytes = disk[q].bytes
      BY <3>1, FilesAssumption
    <3>5. CASE q = p
      BY <1>0, <1>3, <3>1, <3>2, <3>3, <3>4, <3>5, AbsentAssumption DEF Restored
    <3>6. CASE q # p
      BY <1>0, <3>2, <3>6
    <3>7. QED
      BY <3>5, <3>6
  <2>4. QED
    BY <2>2, <2>3
<1>4. CASE PortalStep /\ ~(FlagTarget \/ ReprotectFlag)
  BY <1>4 DEF PortalStep, RefreshScan, RefreshReconcile, BeginSeal, CommitStart,
       LiftDirectory, HashTarget, LockDirectory, CommitSeal, Ignore, Retire,
       ReprotectHash, ReprotectRecord, diskVars
<1>5. QED
  BY <1>1, <1>2, <1>3, <1>4 DEF Next

\* An edit clears the flag.
LEMMA EditUnlocks ==
    ASSUME NEW p, NEW f, Edit(p, f) PROVE p \notin locked'
BY DEF Edit

\* The flag of a sealed file keeps vouching for its bytes.
LEMMA FlagsKept ==
    ASSUME BytesInv, Next
    PROVE  FlagVouches'
<1>0. /\ TypeOK /\ PortalOK /\ OneActiveSeal /\ FlagVouches /\ FactsVouch
      /\ ReprotectQuiet
  BY DEF BytesInv, IInv
<1> SUFFICES ASSUME NEW p \in Paths, object'[p].status # "none", p \in locked',
                    ~Overlaps(p)'
             PROVE  disk'[p] # Absent /\ disk'[p].bytes = object'[p].file.bytes
  BY DEF FlagVouches
<1>k. ASSUME ~(FlagTarget \/ ReprotectFlag)
      PROVE  disk'[p] = disk[p] /\ p \in locked
  BY <1>0, <1>k, DiskMoves, EditUnlocks DEF Restored
<1>i. ASSUME portal.pc \in {"idle", "committing"}
      PROVE  ~(FlagTarget \/ ReprotectFlag)
  BY <1>i DEF FlagTarget, ReprotectFlag
<1>1. CASE UNCHANGED <<object, seal, manifest>>
  <2>1. ~Overlaps(p)
    BY <1>1 DEF Overlaps, ActiveSeals
  <2>2. CASE disk'[p] = disk[p] /\ p \in locked
    BY <1>0, <1>1, <2>1, <2>2 DEF FlagVouches
  <2>3. CASE Restored(p)
    <3>1. CASE FlagTarget
      <4>1. /\ portal.key \in SealKeys /\ seal[portal.key].phase = "REQUESTED"
            /\ p \in seal[portal.key].targets
        BY <1>0, <2>3, <3>1 DEF FlagTarget, Restored, PortalOK, SealPCs
      <4>2. QED
        BY <2>1, <4>1 DEF Overlaps, ActiveSeals
    <3>2. CASE ReprotectFlag
      BY <1>0, <1>1, <2>3, <3>2 DEF ReprotectFlag, Restored, ReprotectQuiet
    <3>3. QED
      BY <2>3, <3>1, <3>2 DEF Restored
  <2>4. QED
    BY <1>0, <2>2, <2>3, DiskMoves, EditUnlocks
<1>2. ASSUME NEW k \in SealKeys, NEW T, SealBegun(k, T)
      PROVE  disk'[p] # Absent /\ disk'[p].bytes = object'[p].file.bytes
  <2>1. ~Overlaps(p) /\ object' = object /\ portal.pc = "idle"
    BY <1>2 DEF SealBegun, Overlaps
  <2>2. QED
    BY <1>0, <1>i, <1>k, <2>1 DEF FlagVouches
<1>3. CASE CommitSeal /\ CustodySealCommit(portal.key, portal.facts)
  <2> DEFINE k == portal.key
  <2>1. /\ k \in SealKeys /\ seal[k].phase = "REQUESTED"
        /\ portal.todo = {} /\ portal.pc = "committing"
    BY <1>0, <1>3 DEF CommitSeal, PortalOK, SealPCs
  <2>2. disk'[p] = disk[p] /\ p \in locked
    BY <2>1, <1>i, <1>k
  <2>3. CASE p \in seal[k].targets
    <3>1. disk[p] # Absent /\ disk[p].bytes = portal.facts[p].bytes
      BY <1>0, <2>1, <2>2, <2>3 DEF FactsVouch, SealPCs
    <3>2. object'[p].file = portal.facts[p]
      BY <1>3, <2>3 DEF CustodySealCommit
    <3>3. QED
      BY <2>2, <3>1, <3>2
  <2>4. CASE p \notin seal[k].targets
    <3>1. object'[p] = object[p]
      BY <1>3, <2>4 DEF CustodySealCommit
    <3>2. ~Overlaps(p)
      BY <1>0, <2>1, <2>4 DEF Overlaps, OneActiveSeal, ActiveSeals
    <3>3. QED
      BY <1>0, <2>2, <3>1, <3>2 DEF FlagVouches
  <2>5. QED
    BY <2>3, <2>4
<1>4. ASSUME NEW q \in Paths, NEW b \in BatchKeys, Retire(q, b)
      PROVE  disk'[p] # Absent /\ disk'[p].bytes = object'[p].file.bytes
  <2>1. portal.pc = "idle" /\ seal' = seal
    BY <1>4 DEF Retire, CustodyRetire
  <2>2. ~Overlaps(p)
    BY <2>1 DEF Overlaps, ActiveSeals
  <2>3. object \in [Paths -> Objects]
    BY <1>0 DEF TypeOK
  <2>4. object[p].status # "none"
    BY <1>4, <2>3 DEF Retire, CustodyRetire
  <2>5. object'[p].file = object[p].file
    BY <1>0, <2>4, ObjectsStay
  <2>6. QED
    BY <1>0, <1>i, <1>k, <2>1, <2>2, <2>4, <2>5 DEF FlagVouches
<1>5. QED
  BY <1>0, <1>1, <1>2, <1>3, <1>4, StoreMoves

\* How the work on a seal goes on: with what is done so far, from the start,
\* or with one more target.
LEMMA SealWork ==
    ASSUME TypeOK, PortalOK, Next, portal'.pc \in SealPCs
    PROVE  /\ seal' = seal
           /\ \/ /\ portal.pc \in SealPCs
                 /\ portal'.key = portal.key /\ portal'.todo = portal.todo
                 /\ portal'.facts = portal.facts
                 /\ ~FlagTarget /\ ~ReprotectFlag
              \/ portal'.todo = seal[portal'.key].targets
              \/ FlagTarget /\ UnchangedUnderFlag
<1> DEFINE Goes == /\ portal.pc \in SealPCs
                   /\ portal'.key = portal.key /\ portal'.todo = portal.todo
                   /\ portal'.facts = portal.facts
                   /\ ~FlagTarget /\ ~ReprotectFlag
<1> DEFINE Starts == portal'.todo = seal[portal'.key].targets
<1> DEFINE Adds == FlagTarget /\ UnchangedUnderFlag
<1>0. portal \in Portals
  BY DEF TypeOK
<1>i. portal' # IdlePortal
  BY DEF SealPCs, IdlePortal
<1>f. ~ReprotectFlag
  BY <1>0, <1>i DEF ReprotectFlag, SealPCs, Portals
<1>1. CASE FlagTarget
  BY <1>1, <1>i DEF FlagTarget, storeVars
<1>2. CASE ~FlagTarget
  <2>1. CASE portal' = portal
    <3>1. portal.pc # "idle"
      BY <2>1 DEF SealPCs
    <3>2. seal' = seal
      BY <3>1, <1>i, OperationStays
    <3>3. QED
      BY <1>2, <1>f, <2>1, <3>2
  <2>2. CASE portal' # portal
    <3>1. CASE \E k \in SealKeys : CommitStart(k)
      BY <1>0, <3>1 DEF CommitStart, Portals, storeVars
    <3>2. CASE \E p \in Paths : HashTarget(p)
      <4>1. PICK p \in Paths : HashTarget(p)
        BY <3>2
      <4>2. portal' = [portal EXCEPT !.pc = "hashed", !.path = p, !.hashed = disk[p]]
        BY <4>1, <1>i DEF HashTarget
      <4>3. /\ portal'.key = portal.key /\ portal'.todo = portal.todo
            /\ portal'.facts = portal.facts
        BY <1>0, <4>2 DEF Portals
      <4>4. portal.pc = "protecting" /\ seal' = seal
        BY <4>1 DEF HashTarget, storeVars
      <4>5. QED
        BY <1>2, <1>f, <4>3, <4>4 DEF SealPCs
    <3>3. CASE LockDirectory
      <4>1. /\ portal'.key = portal.key /\ portal'.todo = portal.todo
            /\ portal'.facts = portal.facts
        BY <1>0, <3>3 DEF LockDirectory, Portals
      <4>2. portal.pc = "protecting" /\ seal' = seal
        BY <3>3 DEF LockDirectory, storeVars
      <4>3. QED
        BY <1>2, <1>f, <4>1, <4>2 DEF SealPCs
    <3>4. CASE RefreshScan \/ \E k \in SealKeys, T \in SUBSET Paths : BeginSeal(k, T)
      <4>1. portal'.pc \in {"refreshing", "lifting"}
        BY <1>0, <2>2, <3>4 DEF RefreshScan, BeginSeal, Portals
      <4>2. QED
        BY <4>1 DEF SealPCs
    <3>5. ASSUME NEW p, NEW b, ReprotectHash(p, b) PROVE FALSE
      BY <1>0, <3>5 DEF ReprotectHash, SealPCs, Portals
    <3>6. QED
      BY <1>2, <1>f, <1>i, <2>2, <3>1, <3>2, <3>3, <3>4, <3>5
         DEF Next, Environment, Edit, Remount, GatewayCrash, PortalStep,
             RefreshReconcile, LiftDirectory, CommitSeal, Ignore, Retire,
             ReprotectRecord, CallStep, Scan, Reconcile, Pin, Revalidate,
             Recheck, RecordInventoryChange, Refuse, HoldExecutionAuthority,
             Open, OpenByPath, Finish
  <2>3. QED
    BY <2>1, <2>2
<1>3. QED
  BY <1>1, <1>2

\* The facts of the seal in progress stay true of the flagged files.
LEMMA FactsKept ==
    ASSUME BytesInv, Next
    PROVE  FactsVouch'
<1>0. TypeOK /\ PortalOK /\ FactsVouch
  BY DEF BytesInv, IInv
<1>t. /\ portal \in Portals /\ disk \in [Paths -> Files \cup {Absent}]
      /\ seal \in [SealKeys -> SealOps]
  BY <1>0 DEF TypeOK
<1> SUFFICES ASSUME portal'.pc \in SealPCs,
                    NEW p \in (seal'[portal'.key].targets \ portal'.todo) \cap locked'
             PROVE  disk'[p] # Absent /\ disk'[p].bytes = portal'.facts[p].bytes
  BY DEF FactsVouch, SealPCs
<1>s. seal' = seal
  BY <1>0, SealWork
<1>1. CASE /\ portal.pc \in SealPCs
           /\ portal'.key = portal.key /\ portal'.todo = portal.todo
           /\ portal'.facts = portal.facts
           /\ ~FlagTarget /\ ~ReprotectFlag
  <2>1. p \in Paths
    BY <1>0, <1>t, <1>1, <1>s DEF PortalOK, SealOps
  <2>2. disk'[p] = disk[p] /\ p \in locked
    BY <1>0, <1>1, <2>1, DiskMoves, EditUnlocks DEF Restored
  <2>3. QED
    BY <1>0, <1>1, <1>s, <2>2 DEF FactsVouch
<1>2. CASE portal'.todo = seal[portal'.key].targets
  BY <1>2, <1>s
<1>3. CASE FlagTarget /\ UnchangedUnderFlag
  <2> DEFINE q == portal.path
  <2>1. /\ portal'.key = portal.key /\ portal'.todo = portal.todo \ {q}
        /\ portal'.facts = [portal.facts EXCEPT ![q] = portal.hashed]
    BY <1>t, <1>3 DEF FlagTarget, Portals
  <2>2. /\ portal.facts \in [Paths -> Files \cup {Absent}] /\ q \in Paths
        /\ portal.key \in SealKeys /\ portal.pc = "hashed"
    BY <1>0, <1>t, <1>3 DEF FlagTarget, PortalOK, SealPCs, Portals
  <2>3. p \in Paths
    BY <1>t, <1>s, <2>1, <2>2 DEF SealOps
  <2>4. \/ disk'[p] = disk[p] /\ p \in locked
        \/ p = q /\ disk[p] # Absent /\ disk'[p] # Absent
           /\ disk'[p].bytes = disk[p].bytes
    BY <1>0, <2>3, DiskMoves, EditUnlocks DEF Restored
  <2>5. CASE p = q
    BY <1>3, <2>1, <2>2, <2>4, <2>5 DEF UnchangedUnderFlag, StillThere
  <2>6. CASE p # q
    <3>1. p \in (seal[portal.key].targets \ portal.todo) \cap locked
      BY <1>s, <2>1, <2>4, <2>6
    <3>2. disk[p] # Absent /\ disk[p].bytes = portal.facts[p].bytes
      BY <1>0, <2>2, <3>1 DEF FactsVouch, SealPCs
    <3>3. QED
      BY <2>1, <2>2, <2>3, <2>4, <2>6, <3>2
  <2>7. QED
    BY <2>5, <2>6
<1>4. QED
  BY <1>0, <1>1, <1>2, <1>3, SealWork

\* A file that is being reprotected is not written.
LEMMA QuietKept ==
    ASSUME QuietReprotect, BytesInv, Next
    PROVE  ReprotectQuiet'
<1>0. TypeOK /\ PortalOK /\ ReprotectQuiet
  BY DEF BytesInv, IInv
<1>t. portal \in Portals
  BY <1>0 DEF TypeOK
<1> SUFFICES ASSUME portal'.pc = "reprotecting"
             PROVE  /\ disk'[portal'.path] = portal'.hashed
                    /\ portal'.hashed.bytes = object'[portal'.path].file.bytes
  BY DEF ReprotectQuiet
<1>i. portal' # IdlePortal
  BY DEF IdlePortal
<1>1. CASE portal' = portal
  <2> DEFINE q == portal.path
  <2>1. /\ q \in Paths /\ object[q].status # "none"
        /\ disk[q] = portal.hashed /\ portal.hashed.bytes = object[q].file.bytes
    BY <1>0, <1>1 DEF PortalOK, ReprotectQuiet
  <2>2. ~FlagTarget /\ ~ReprotectFlag
    BY <1>t, <1>1, <1>i DEF FlagTarget, ReprotectFlag, Portals
  <2>3. \A f : ~Edit(q, f)
    BY <1>1 DEF Edit
  <2>4. disk'[q] = disk[q]
    BY <1>0, <2>1, <2>2, <2>3, DiskMoves DEF Restored
  <2>5. QED
    BY <1>0, <1>1, <2>1, <2>4, ObjectsStay
<1>2. CASE portal' # portal
  <2>1. CASE \E p \in Paths, b \in BatchKeys : ReprotectHash(p, b)
    <3>1. PICK p \in Paths, b \in BatchKeys : ReprotectHash(p, b)
      BY <2>1
    <3>2. /\ portal'.path = p /\ portal'.hashed = disk[p]
          /\ disk' = disk /\ object' = object
          /\ disk[p].bytes = object[p].file.bytes
      BY <1>t, <3>1 DEF ReprotectHash, Identical, Portals, storeVars, diskVars
    <3>3. QED
      BY <3>2
  <2>2. CASE \/ RefreshScan \/ FlagTarget \/ LockDirectory \/ ReprotectFlag
             \/ \E p \in Paths : HashTarget(p)
             \/ \E k \in SealKeys : CommitStart(k)
             \/ \E k \in SealKeys, T \in SUBSET Paths : BeginSeal(k, T)
    <3>1. portal'.pc # "reprotecting"
      BY <1>t, <1>2, <1>i, <2>2
         DEF RefreshScan, FlagTarget, LockDirectory, ReprotectFlag, HashTarget,
             CommitStart, BeginSeal, Portals
    <3>2. QED
      BY <3>1
  <2>3. \A d \in Dispositions : d[2] \in Paths /\ d[3] \in BatchKeys
    BY DispositionsAssumption
  <2>4. QED
    BY <1>i, <1>2, <2>1, <2>2, <2>3
       DEF Next, Environment, Edit, Remount, GatewayCrash, PortalStep,
           RefreshReconcile, LiftDirectory, CommitSeal, Ignore, Retire,
           ReprotectRecord, CallStep, Scan, Reconcile, Pin, Revalidate,
           Recheck, RecordInventoryChange, Refuse, HoldExecutionAuthority,
           Open, OpenByPath, Finish
<1>3. QED
  BY <1>1, <1>2

\* An open gate means that no seal is in progress, so flags vouch.
LEMMA OpenGateVouches ==
    ASSUME FlagVouches, Gate = "OPEN", NEW p \in Paths,
           object[p].status # "none", p \in locked
    PROVE  disk[p] # Absent /\ disk[p].bytes = object[p].file.bytes
<1>1. ActiveSeals = {}
  BY DEF Gate, GateState
<1>2. ~Overlaps(p)
  BY <1>1 DEF Overlaps
<1>3. QED
  BY <1>2 DEF FlagVouches

\* What calls may open, and what they have opened, stays sealed.
LEMMA ReadsKept ==
    ASSUME BytesInv, Next
    PROVE  PinsVouch' /\ ReadsEnd' /\ OpensSealedBytes'
<1>0. /\ TypeOK /\ PortalOK /\ PinsOK /\ FlagVouches /\ PinsVouch
      /\ ReadsEnd /\ OpensSealedBytes
  BY DEF BytesInv, IInv
<1> DEFINE Live == {"revalidated"} \cup Holding
<1> SUFFICES ASSUME NEW d \in Calls
      PROVE  /\ /\ call'[d].pc \in Live
                /\ call'[d].path \notin call'[d].changed
                /\ call'[d].path \in locked'
                => /\ disk'[call'[d].path] # Absent
                   /\ disk'[call'[d].path].bytes = object'[call'[d].path].file.bytes
             /\ call'[d].read # Absent =>
                  /\ call'[d].pc \in {"reading", "ended"}
                  /\ object'[call'[d].path].status # "none"
                  /\ call'[d].surface = "command" =>
                       call'[d].read.bytes = object'[call'[d].path].file.bytes
  BY DEF PinsVouch, ReadsEnd, OpensSealedBytes, Holding
<1> DEFINE p == call[d].path
<1>c. call \in [Calls -> CallStates] /\ call[d] \in CallStates
  BY <1>0 DEF TypeOK
<1>p. call[d].pc \in PinnedPCs \/ call[d].read # Absent =>
        /\ p \in Paths /\ object[p].status # "none"
        /\ object'[p].status # "none" /\ object'[p].file = object[p].file
  BY <1>0, ObjectsStay DEF PinsOK
<1>d. ASSUME p \in Paths, p \in locked', p \notin call'[d].changed
      PROVE  disk'[p] = disk[p] /\ p \in locked
  <2>1. call' = Touched({p}) => p \in call'[d].changed
    BY <1>c, <1>d, NoneAssumption DEF Touched, CallStates
  <2>2. QED
    BY <1>0, <1>d, <2>1, DiskMoves, EditUnlocks DEF Restored
<1>v. ASSUME p \in locked, p \notin call[d].changed,
             \/ call[d].pc \in Live
             \/ call[d].pc \in PinnedPCs /\ Gate = "OPEN"
      PROVE  disk[p] # Absent /\ disk[p].bytes = object[p].file.bytes
  BY <1>0, <1>p, <1>v, OpenGateVouches DEF PinsVouch
<1>1. CASE Follows(d)
  <2>1. ASSUME call'[d].pc \in Live, p \notin call'[d].changed, p \in locked'
        PROVE  disk'[p] # Absent /\ disk'[p].bytes = object'[p].file.bytes
    <3>1. \/ call[d].pc \in Live
          \/ call[d].pc \in PinnedPCs /\ Gate = "OPEN"
      BY <1>1, <2>1 DEF Follows, PinnedPCs
    <3>2. call[d].pc \in PinnedPCs
      BY <3>1 DEF PinnedPCs
    <3>3. p \notin call[d].changed
      BY <1>1, <2>1 DEF Follows
    <3>4. QED
      BY <1>p, <1>d, <1>v, <2>1, <3>1, <3>2, <3>3
  <2>2. /\ call'[d].path = p /\ call'[d].read = call[d].read
        /\ call'[d].surface = call[d].surface
    BY <1>1 DEF Follows
  <2>3. call'[d].read # Absent => call'[d].pc \in {"reading", "ended"}
    BY <1>0, <1>1 DEF Follows, ReadsEnd
  <2>4. call[d].read # Absent /\ call[d].surface = "command" =>
          call[d].read.bytes = object[p].file.bytes
    BY <1>0 DEF OpensSealedBytes
  <2>5. QED
    BY <1>p, <2>1, <2>2, <2>3, <2>4
<1>2. CASE PinnedNow(d)
  BY <1>0, <1>2 DEF PinnedNow, ReadsEnd, Holding
<1>3. CASE OpenedNow(d)
  <2>1. /\ call[d].pc \in Live /\ p \in locked /\ p \notin call[d].changed
        /\ call'[d].path = p /\ call'[d].changed = call[d].changed
        /\ call'[d].read = disk[p] /\ call'[d].pc \in {"reading", "ended"}
    BY <1>3 DEF OpenedNow, Openable, Holding
  <2>2. call[d].pc \in PinnedPCs
    BY <2>1 DEF PinnedPCs
  <2>3. disk[p] # Absent /\ disk[p].bytes = object[p].file.bytes
    BY <1>v, <2>1
  <2>4. QED
    BY <1>p, <1>d, <2>1, <2>2, <2>3
<1>4. CASE HeldNow(d)
  <2>1. /\ call'[d].path = p /\ call'[d].changed = call[d].changed
        /\ call'[d].read = call[d].read /\ call[d].pc = "queued"
        /\ disk' = disk /\ locked' = locked /\ Gate = "OPEN"
    BY <1>c, <1>4 DEF HeldNow, Authorised, CallStates, diskVars
  <2>2. call[d].pc \in PinnedPCs /\ call[d].read = Absent
    BY <1>0, <2>1 DEF PinnedPCs, ReadsEnd
  <2>3. QED
    BY <1>p, <1>v, <2>1, <2>2
<1>5. CASE TakenNow(d)
  <2>1. /\ call'[d].path = p /\ call[d].pc \in PinnedPCs
        /\ call'[d].surface = "selection" /\ call'[d].pc = "ended"
    BY <1>0, <1>5 DEF TakenNow, PinsOK, PinnedPCs
  <2>2. QED
    BY <1>p, <2>1 DEF Holding
<1>6. QED
  BY <1>0, <1>1, <1>2, <1>3, <1>4, <1>5, CallMoves

\* What a command opens has the sealed bytes, and the immutable flag of evidence
\* vouches for its bytes, although no scan and no gate reads contents: if
\* nobody writes a file between the two hashes of _reprotect.
THEOREM BytesInvariance ==
    ASSUME QuietReprotect PROVE Spec => []BytesInv
<1>1. Init => BytesInv
  <2> SUFFICES ASSUME Init PROVE BytesInv
    OBVIOUS
  <2>1. IInv
    BY InitSafe
  <2>2. \A c \in Calls : call[c].pc = "idle" /\ call[c].read = Absent
    BY DEF Init, IdleCall
  <2>3. locked = {} /\ portal.pc = "idle"
    BY DEF Init, IdlePortal
  <2>4. QED
    BY <2>1, <2>2, <2>3 DEF BytesInv, FlagVouches, FactsVouch, ReprotectQuiet,
         PinsVouch, ReadsEnd, OpensSealedBytes, SealPCs, Holding
<1>2. BytesInv /\ [Next]_vars => BytesInv'
  <2> SUFFICES ASSUME BytesInv, [Next]_vars PROVE BytesInv'
    OBVIOUS
  <2>1. IInv'
    BY StepSafe DEF BytesInv
  <2>2. CASE Next
    BY <2>1, <2>2, FlagsKept, FactsKept, QuietKept, ReadsKept DEF BytesInv
  <2>3. CASE UNCHANGED vars
    BY <2>1, <2>3 DEF vars, storeVars, diskVars, BytesInv, FlagVouches, Overlaps,
         ActiveSeals, FactsVouch, ReprotectQuiet, PinsVouch, ReadsEnd,
         OpensSealedBytes
  <2>4. QED
    BY <2>2, <2>3
<1>3. QED
  BY <1>1, <1>2, PTL DEF Spec

\* The immutable flag of a sealed file vouches for its bytes.
THEOREM FlagsVouch ==
    ASSUME QuietReprotect PROVE Spec => []FlagVouches
<1>1. BytesInv => FlagVouches
  BY DEF BytesInv
<1>2. QED
  BY <1>1, BytesInvariance, PTL

\* "An agent can never read drifted or unadmitted evidence", by a command:
\* whatever others write, and however scans, gate, pin and open interleave with
\* them.  What a selection reads is only known to have been admitted.
THEOREM CommandsReadSealedBytes ==
    ASSUME QuietReprotect PROVE Spec => []OpensSealedBytes
<1>1. BytesInv => OpensSealedBytes
  BY DEF BytesInv
<1>2. QED
  BY <1>1, BytesInvariance, PTL

-----------------------------------------------------------------------------
(* Custody implements EvidenceLedger.                                      *)

Lists(s) == [v \in 1..Len(s) |-> s[v].active]

\* One more manifest is one more list.
LEMMA ListsAppend ==
    ASSUME NEW s \in Seq(Manifests), NEW m \in Manifests
    PROVE  Lists(Append(s, m)) = Append(Lists(s), m.active)
<1>1. \A v \in 1..Len(s) : s[v] \in Manifests
  OBVIOUS
<1>2. Lists(s) \in [1..Len(s) -> SUBSET Paths]
  BY <1>1 DEF Lists, Manifests
<1>3. Lists(s) \in Seq(SUBSET Paths) /\ Len(Lists(s)) = Len(s)
  <2>1. Len(s) \in Nat
    OBVIOUS
  <2>2. Lists(s) \in Seq(SUBSET Paths)
    BY <1>2, <2>1, IsASeq DEF Lists
  <2>3. QED
    BY <1>2, <2>1, <2>2
<1>4. m.active \in SUBSET Paths
  BY DEF Manifests
<1>5. Append(s, m) \in Seq(Manifests) /\ Len(Append(s, m)) = Len(s) + 1
  OBVIOUS
<1>6. Append(Lists(s), m.active) \in Seq(SUBSET Paths)
      /\ Len(Append(Lists(s), m.active)) = Len(s) + 1
  BY <1>3, <1>4
<1>7. \A v \in 1..(Len(s) + 1) :
        Append(Lists(s), m.active)[v] = Append(s, m)[v].active
  <2> TAKE v \in 1..(Len(s) + 1)
  <2>1. CASE v \in 1..Len(s)
    BY <1>3, <1>4, <2>1 DEF Lists
  <2>2. CASE v = Len(s) + 1
    BY <1>3, <1>4, <2>2
  <2>3. Len(s) \in Nat /\ v \in 1..(Len(s) + 1)
    OBVIOUS
  <2>4. v \in 1..Len(s) \/ v = Len(s) + 1
    BY <2>3
  <2>5. QED
    BY <2>1, <2>2, <2>4
<1>8. DOMAIN Append(Lists(s), m.active) = 1..(Len(s) + 1)
  BY <1>6
<1>9. QED
  BY <1>5, <1>6, <1>7, <1>8 DEF Lists

\* Every step of custody is a step of the ledger, or leaves it alone.
LEMMA LedgerStep ==
    ASSUME IInv, Next
    PROVE  [Ledger!Next]_Ledger!vars
<1>0. /\ TypeOK /\ PortalOK /\ manifest \in Seq(Manifests)
      /\ object \in [Paths -> Objects] /\ seal \in [SealKeys -> SealOps]
  BY DEF IInv, TypeOK
<1>m. \A o, P : P \in SUBSET Paths => ManifestOf(o, P) \in Manifests
  BY DEF ManifestOf, Manifests, SealedIn
<1>a. ASSUME NEW P \in SUBSET Paths,
             manifest' = Append(manifest, ManifestOf(object', P))
      PROVE  Lists(manifest') = Append(Lists(manifest), Ledger!SealedIn(object'))
  <2>1. ManifestOf(object', P).active = Ledger!SealedIn(object')
    BY DEF ManifestOf, SealedIn, Ledger!SealedIn
  <2>2. QED
    BY <1>0, <1>m, <1>a, <2>1, ListsAppend
<1>1. CASE UNCHANGED <<object, seal, manifest>>
  BY <1>1 DEF Ledger!vars
<1>2. ASSUME NEW k, NEW T, SealBegun(k, T)
      PROVE  UNCHANGED Ledger!vars
  BY <1>2 DEF SealBegun, Ledger!vars
<1>3. CASE CommitSeal /\ CustodySealCommit(portal.key, portal.facts)
  <2>1. /\ portal.key \in SealKeys /\ seal[portal.key].phase = "REQUESTED"
        /\ \A p \in seal[portal.key].targets : portal.facts[p] \in Files
    BY <1>0, <1>3 DEF CommitSeal, PortalOK, SealPCs
  <2>2. PICK T \in (SUBSET Paths) \ {{}} : T = seal[portal.key].targets
    BY <1>0, <2>1 DEF SealOps, IInv, ObjectsOK
  <2> DEFINE g == [p \in T |-> portal.facts[p]]
  <2>3. g \in [T -> Files]
    BY <2>1, <2>2
  <2>4. \A p \in T : object[p].status = "none"
    BY <1>3, <2>2 DEF CustodySealCommit, PathFree
  <2>5. object' = [p \in Paths |->
                     IF p \in T THEN [status |-> "sealed", file |-> g[p]]
                     ELSE object[p]]
    BY <1>3, <2>2 DEF CustodySealCommit
  <2>6. Lists(manifest') = Append(Lists(manifest), Ledger!SealedIn(object'))
    <3>1. manifest' = Append(manifest, ManifestOf(object', {}))
      BY <1>3 DEF CustodySealCommit
    <3>2. {} \in SUBSET Paths
      OBVIOUS
    <3>3. QED
      BY <3>1, <3>2, <1>a
  <2> HIDE DEF g
  <2>7. Ledger!Seal(T)
    BY <2>3, <2>4, <2>5, <2>6 DEF Ledger!Seal, Lists
  <2>8. QED
    BY <2>7 DEF Ledger!Next
<1>4. ASSUME NEW p \in Paths, NEW b \in BatchKeys, Retire(p, b)
      PROVE  Ledger!Next
  <2>1. /\ object[p].status # "none"
        /\ object' = [object EXCEPT ![p].status = "retired"]
        /\ manifest' = Append(manifest, ManifestOf(object', {p}))
    BY <1>4 DEF Retire, CustodyRetire
  <2>2. Lists(manifest') = Append(Lists(manifest), Ledger!SealedIn(object'))
    BY <2>1, <1>a
  <2>3. Ledger!Retire(p)
    BY <2>1, <2>2 DEF Ledger!Retire, Lists
  <2>4. QED
    BY <2>3 DEF Ledger!Next
<1>5. QED
  BY <1>0, <1>1, <1>2, <1>3, <1>4, StoreMoves

\* The RPCs and the processes around them implement the ledger: evidence is
\* sealed once, in whole sets, and only ever retired; and every manifest
\* lists the set it was made for.
THEOREM CustodyImplementsLedger == Spec => ImplementsLedger
<1>1. Init => Ledger!Init
  BY DEF Init, StoreInit, Ledger!Init
<1>2. IInv /\ [Next]_vars => [Ledger!Next]_Ledger!vars
  <2> SUFFICES ASSUME IInv, [Next]_vars PROVE [Ledger!Next]_Ledger!vars
    OBVIOUS
  <2>1. CASE Next
    BY <2>1, LedgerStep
  <2>2. CASE UNCHANGED vars
    BY <2>2 DEF vars, storeVars, Ledger!vars
  <2>3. QED
    BY <2>1, <2>2
<1>3. QED
  BY <1>1, <1>2, Invariance, PTL DEF Spec, ImplementsLedger, Ledger!Spec
=============================================================================
