------------------------- MODULE CustodyChainProofs -------------------------
(***************************************************************************)
(* Proofs about what Custody writes down for good: how many manifests      *)
(* there are, and what the chain of custody events tells.                  *)
(***************************************************************************)
EXTENDS CustodyProofs, FiniteSetTheorems

Committed == {k \in SealKeys : seal[k].phase = "COMMITTED"}
Retirements == {r \in receipt : r[1] = "RETIRE"}
OpenWindows == {k \in ActiveSeals : seal[k].window}

\* A new operation, with the window it opens.
Opened(k, T, w) ==
    /\ seal[k].phase = "none"
    /\ ActiveSeals = {}
    /\ seal' = [seal EXCEPT ![k] = [phase |-> "REQUESTED", targets |-> T,
                                    window |-> w]]
    /\ chain' = IF w THEN Append(chain, Event("SEAL_WINDOW_OPENED", T, 0))
                ELSE chain
    /\ UNCHANGED <<object, manifest, receipt>>

\* An event that is put on record and changes no object.
Noted(type, verb, p, b) ==
    /\ chain' = Append(chain, Event(type, {p}, 0))
    /\ receipt' = receipt \cup {<<verb, p, b>>}
    /\ UNCHANGED <<object, seal, manifest>>

\* Everything that is ever recorded comes from one of four moves.
LEMMA RecordMoves ==
    ASSUME TypeOK, PortalOK, Next
    PROVE  \/ UNCHANGED <<object, seal, manifest, receipt, chain>>
           \/ \E k \in SealKeys, T \in SUBSET Paths, w \in BOOLEAN : Opened(k, T, w)
           \/ /\ portal.key \in SealKeys
              /\ CustodySealCommit(portal.key, portal.facts)
           \/ \E p \in Paths, b \in BatchKeys : CustodyRetire(p, b)
           \/ \E p \in Paths, b \in BatchKeys :
                 \/ Noted("FILE_IGNORED", "IGNORE", p, b)
                 \/ Noted("EVIDENCE_REPROTECTED", "REPROTECT", p, b)
<1> DEFINE Goal ==
       \/ UNCHANGED <<object, seal, manifest, receipt, chain>>
       \/ \E k \in SealKeys, T \in SUBSET Paths, w \in BOOLEAN : Opened(k, T, w)
       \/ /\ portal.key \in SealKeys
          /\ CustodySealCommit(portal.key, portal.facts)
       \/ \E p \in Paths, b \in BatchKeys : CustodyRetire(p, b)
       \/ \E p \in Paths, b \in BatchKeys :
             \/ Noted("FILE_IGNORED", "IGNORE", p, b)
             \/ Noted("EVIDENCE_REPROTECTED", "REPROTECT", p, b)
<1> SUFFICES Goal
  OBVIOUS
<1>1. CASE Environment
  BY <1>1 DEF Environment, Edit, Remount, GatewayCrash, storeVars
<1>2. ASSUME NEW c \in Calls, CallStep(c) PROVE Goal
  BY <1>2 DEF CallStep, Scan, Reconcile, Pin, Revalidate, Recheck,
       RecordInventoryChange, Refuse, HoldExecutionAuthority, Open,
       OpenByPath, Finish,
       CustodyReconcile, storeVars
<1>3. CASE PortalStep
  <2>1. ASSUME NEW k \in SealKeys, NEW T \in (SUBSET Paths) \ {{}}, BeginSeal(k, T)
        PROVE  Goal
    <3>1. CASE UNCHANGED storeVars
      BY <3>1 DEF storeVars
    <3>2. CASE ~UNCHANGED storeVars
      <4> DEFINE w == SealedIn(object) # {}
      <4>1. w \in BOOLEAN /\ T \in SUBSET Paths
        OBVIOUS
      <4>2. Opened(k, T, w)
        BY <2>1, <3>2 DEF BeginSeal, CustodySealBegin, Opened
      <4>3. QED
        <5> HIDE DEF w
        <5>1. QED
          BY <4>1, <4>2
    <3>3. QED
      BY <3>1, <3>2
  <2>2. CASE CommitSeal
    BY <2>2 DEF CommitSeal, storeVars, PortalOK, SealPCs
  <2>3. ASSUME NEW d \in Dispositions,
               \/ d[1] = "IGNORE" /\ Ignore(d[2], d[3])
               \/ d[1] = "RETIRE" /\ Retire(d[2], d[3])
               \/ d[1] = "REPROTECT" /\ ReprotectHash(d[2], d[3])
        PROVE  Goal
    <3>1. d[2] \in Paths /\ d[3] \in BatchKeys
      BY DispositionsAssumption
    <3>2. CASE Retire(d[2], d[3])
      BY <3>1, <3>2 DEF Retire
    <3>3. CASE Ignore(d[2], d[3])
      <4>1. Noted("FILE_IGNORED", "IGNORE", d[2], d[3])
        BY <3>3 DEF Ignore, CustodyIgnore, Noted
      <4>2. QED
        BY <3>1, <4>1
    <3>4. CASE ReprotectHash(d[2], d[3])
      BY <3>4 DEF ReprotectHash, storeVars
    <3>5. QED
      BY <2>3, <3>2, <3>3, <3>4
  <2>4. CASE ReprotectRecord
    <3>1. portal.path \in Paths /\ portal.key \in BatchKeys
      BY <2>4 DEF ReprotectRecord, PortalOK
    <3>2. CASE UNCHANGED storeVars
      BY <3>2 DEF storeVars
    <3>3. CASE CustodyReprotect(portal.path, portal.key)
      <4>1. Noted("EVIDENCE_REPROTECTED", "REPROTECT", portal.path, portal.key)
        BY <3>3 DEF CustodyReprotect, Noted
      <4>2. QED
        BY <3>1, <4>1
    <3>4. QED
      BY <2>4, <3>2, <3>3 DEF ReprotectRecord
  <2>5. CASE \/ RefreshScan \/ RefreshReconcile \/ LiftDirectory
             \/ FlagTarget \/ LockDirectory \/ ReprotectFlag
             \/ \E k \in SealKeys : CommitStart(k)
             \/ \E p \in Paths : HashTarget(p)
    BY <2>5 DEF RefreshScan, RefreshReconcile, LiftDirectory, FlagTarget,
         LockDirectory, ReprotectFlag, CommitStart, HashTarget,
         CustodyReconcile, storeVars
  <2>6. QED
    BY <1>3, <2>1, <2>2, <2>3, <2>4, <2>5 DEF PortalStep
<1>4. QED
  BY <1>1, <1>2, <1>3 DEF Next

-----------------------------------------------------------------------------
(* How many manifests there are.                                           *)

\* The numbers are those of finite sets, though keys may be infinitely many.
CountInv == /\ IsFiniteSet(Committed)
            /\ IsFiniteSet(Retirements)
            /\ OneManifestPerOperation

\* A move that records no manifest commits no operation and receipts no
\* retirement; each of the other two adds one to one of the two sets.
LEMMA CountKept ==
    ASSUME IInv, CountInv, Next
    PROVE  CountInv'
<1>0. /\ TypeOK /\ PortalOK
      /\ seal \in [SealKeys -> SealOps] /\ manifest \in Seq(Manifests)
      /\ object \in [Paths -> Objects]
  BY DEF IInv, TypeOK
<1>1. /\ IsFiniteSet(Committed) /\ IsFiniteSet(Retirements)
      /\ Len(manifest) = Cardinality(Committed) + Cardinality(Retirements)
      /\ Cardinality(Committed) \in Nat /\ Cardinality(Retirements) \in Nat
  BY FS_CardinalityType DEF CountInv, OneManifestPerOperation, Committed, Retirements
<1>s. SUFFICES /\ IsFiniteSet(Committed') /\ IsFiniteSet(Retirements')
               /\ Len(manifest') = Cardinality(Committed') + Cardinality(Retirements')
  BY DEF CountInv, OneManifestPerOperation, Committed, Retirements
<1>2. CASE UNCHANGED <<object, seal, manifest, receipt, chain>>
  <2>1. Committed' = Committed /\ Retirements' = Retirements
    BY <1>2 DEF Committed, Retirements
  <2>2. QED
    BY <1>1, <1>2, <2>1
<1>3. ASSUME NEW k \in SealKeys, NEW T \in SUBSET Paths, NEW w \in BOOLEAN,
             Opened(k, T, w)
      PROVE  /\ UNCHANGED manifest
             /\ Committed' = Committed /\ Retirements' = Retirements
  <2>1. /\ seal'[k].phase = "REQUESTED" /\ seal[k].phase = "none"
        /\ \A l \in SealKeys \ {k} : seal'[l] = seal[l]
    BY <1>0, <1>3 DEF Opened
  <2>2. Committed' = Committed
    BY <2>1 DEF Committed
  <2>3. QED
    BY <1>3, <2>2 DEF Opened, Retirements
<1>4. CASE portal.key \in SealKeys /\ CustodySealCommit(portal.key, portal.facts)
  <2> DEFINE k == portal.key
  <2>1. /\ k \in SealKeys
        /\ seal[k].phase = "REQUESTED" /\ seal'[k].phase = "COMMITTED"
        /\ \A l \in SealKeys \ {k} : seal'[l] = seal[l]
    BY <1>0, <1>4 DEF CustodySealCommit, SealOps
  <2>2. /\ receipt' = receipt
        /\ manifest' = Append(manifest, ManifestOf(object', {}))
    BY <1>4 DEF CustodySealCommit
  <2> HIDE DEF k
  <2>3. Committed' = Committed \cup {k} /\ k \notin Committed
    BY <2>1 DEF Committed
  <2>4. Retirements' = Retirements
    BY <2>2 DEF Retirements
  <2>5. Len(manifest') = Len(manifest) + 1
    BY <1>0, <2>2 DEF ManifestOf, Manifests, SealedIn
  <2>6. IsFiniteSet(Committed') /\ Cardinality(Committed') = Cardinality(Committed) + 1
    BY <1>1, <2>3, FS_AddElement
  <2>7. QED
    BY <1>1, <2>4, <2>5, <2>6
<1>5. ASSUME NEW p \in Paths, NEW b \in BatchKeys, CustodyRetire(p, b)
      PROVE  /\ IsFiniteSet(Committed') /\ IsFiniteSet(Retirements')
             /\ Len(manifest') = Cardinality(Committed') + Cardinality(Retirements')
  <2> DEFINE r == <<"RETIRE", p, b>>
  <2>1. /\ r \notin receipt /\ receipt' = receipt \cup {r} /\ r[1] = "RETIRE"
        /\ seal' = seal
        /\ manifest' = Append(manifest, ManifestOf(object', {p}))
    BY <1>5 DEF CustodyRetire, Receipted
  <2> HIDE DEF r
  <2>2. Retirements' = Retirements \cup {r} /\ r \notin Retirements
    BY <2>1 DEF Retirements
  <2>3. Committed' = Committed
    BY <2>1 DEF Committed
  <2>4. Len(manifest') = Len(manifest) + 1
    BY <1>0, <2>1 DEF ManifestOf, Manifests, SealedIn
  <2>5. /\ IsFiniteSet(Retirements')
        /\ Cardinality(Retirements') = Cardinality(Retirements) + 1
    BY <1>1, <2>2, FS_AddElement
  <2>6. QED
    BY <1>1, <2>3, <2>4, <2>5
<1>6. ASSUME NEW p \in Paths, NEW b \in BatchKeys,
             \/ Noted("FILE_IGNORED", "IGNORE", p, b)
             \/ Noted("EVIDENCE_REPROTECTED", "REPROTECT", p, b)
      PROVE  /\ UNCHANGED manifest
             /\ Committed' = Committed /\ Retirements' = Retirements
  <2>1. PICK verb \in {"IGNORE", "REPROTECT"} :
           receipt' = receipt \cup {<<verb, p, b>>}
    BY <1>6 DEF Noted
  <2>2. Retirements' = Retirements
    BY <2>1 DEF Retirements
  <2>3. QED
    BY <1>6, <2>2 DEF Noted, Committed
<1>7. QED
  <2>1. CASE UNCHANGED manifest /\ Committed' = Committed /\ Retirements' = Retirements
    BY <1>1, <2>1
  <2>2. QED
    BY <1>0, <1>2, <1>3, <1>4, <1>5, <1>6, <2>1, RecordMoves

\* Every committed seal and every receipted retirement made exactly one
\* manifest, however often custody_seal_commit and custody_retire were called
\* again: for any number of operations and keys, and any crash between them.
THEOREM ManifestsAreCounted == Spec => []OneManifestPerOperation
<1>1. Init => CountInv
  <2> SUFFICES ASSUME Init PROVE CountInv
    OBVIOUS
  <2>1. Committed = {} /\ Retirements = {} /\ Len(manifest) = 0
    BY DEF Init, StoreInit, Committed, Retirements
  <2>2. QED
    <3>1. IsFiniteSet({}) /\ Cardinality({}) = 0
      BY FS_EmptySet
    <3>2. Len(manifest) = Cardinality(Committed) + Cardinality(Retirements)
      BY <2>1, <3>1
    <3>3. QED
      BY <2>1, <3>1, <3>2 DEF CountInv, OneManifestPerOperation, Committed,
           Retirements
<1>2. IInv /\ CountInv /\ [Next]_vars => CountInv'
  <2> SUFFICES ASSUME IInv, CountInv, [Next]_vars PROVE CountInv'
    OBVIOUS
  <2>1. CASE UNCHANGED vars
    BY <2>1 DEF vars, storeVars, CountInv, Committed, Retirements,
         OneManifestPerOperation
  <2>2. QED
    BY <2>1, CountKept
<1>3. CountInv => OneManifestPerOperation
  BY DEF CountInv
<1>4. QED
  BY <1>1, <1>2, <1>3, Invariance, PTL DEF Spec

-----------------------------------------------------------------------------
(* What the chain tells.                                                   *)

Tellers == {"EVIDENCE_SEALED", "FILE_RETIRED"}
Told(e) == IF e.type = "FILE_RETIRED" THEN "retired" ELSE "sealed"

\* An appended event has the last word on the paths it tells about, and
\* leaves the last word on the others as it was.
LEMMA TellsAppend ==
    ASSUME NEW s \in Seq(Events), NEW e \in Events, NEW p, NEW st, Tells(s, p, st)
    PROVE  /\ p \in e.paths /\ e.type \in Tellers =>
                Tells(Append(s, e), p, Told(e))
           /\ ~(p \in e.paths /\ e.type \in Tellers) =>
                Tells(Append(s, e), p, st)
<1> DEFINE t == Append(s, e)
<1> DEFINE n == Len(s) + 1
<1>1. /\ DOMAIN s = 1..Len(s) /\ DOMAIN t = 1..n /\ Len(s) \in Nat
      /\ t[n] = e /\ \A i \in 1..Len(s) : t[i] = s[i]
  OBVIOUS
<1> HIDE DEF t
<1>2. Telling(s, p) \subseteq 1..Len(s)
  BY <1>1 DEF Telling
<1>3. CASE p \in e.paths /\ e.type \in Tellers
  <2>1. Telling(t, p) = Telling(s, p) \cup {n}
    BY <1>1, <1>3 DEF Telling, Tellers
  <2>2. n \in Telling(t, p) /\ \A j \in Telling(t, p) : j <= n
    BY <1>1, <1>2, <2>1
  <2>3. Tells(t, p, Told(e))
    BY <1>1, <2>2 DEF Tells, Told
  <2>4. QED
    BY <1>3, <2>3 DEF t
<1>4. CASE ~(p \in e.paths /\ e.type \in Tellers)
  <2>1. Telling(t, p) = Telling(s, p)
    BY <1>1, <1>4 DEF Telling, Tellers
  <2>2. \A i \in Telling(s, p) : t[i] = s[i]
    BY <1>1, <1>2
  <2>3. Tells(t, p, st)
    BY <2>1, <2>2 DEF Tells
  <2>4. QED
    BY <1>4, <2>3 DEF t
<1>5. QED
  BY <1>3, <1>4

\* An appended event is one more of its type.
LEMMA CountAppend ==
    ASSUME NEW s \in Seq(Events), NEW e \in Events, NEW type
    PROVE  /\ Cardinality(OfType(s, type)) \in Nat
           /\ e.type = type =>
                Cardinality(OfType(Append(s, e), type)) =
                    Cardinality(OfType(s, type)) + 1
           /\ e.type # type => OfType(Append(s, e), type) = OfType(s, type)
<1> DEFINE t == Append(s, e)
<1> DEFINE n == Len(s) + 1
<1>1. /\ DOMAIN s = 1..Len(s) /\ DOMAIN t = 1..n /\ Len(s) \in Nat
      /\ t[n] = e /\ \A i \in 1..Len(s) : t[i] = s[i]
  OBVIOUS
<1> HIDE DEF t
<1>2. OfType(s, type) \in SUBSET (1..Len(s))
  BY <1>1 DEF OfType
<1>3. IsFiniteSet(1..Len(s))
  BY <1>1, FS_Interval
<1>4. IsFiniteSet(OfType(s, type))
  BY <1>2, <1>3, FS_Subset
<1>5. Cardinality(OfType(s, type)) \in Nat
  BY <1>4, FS_CardinalityType
<1>6. CASE e.type = type
  <2>1. OfType(t, type) = OfType(s, type) \cup {n} /\ n \notin OfType(s, type)
    BY <1>1, <1>6 DEF OfType
  <2>2. Cardinality(OfType(t, type)) = Cardinality(OfType(s, type)) + 1
    BY <1>4, <2>1, FS_AddElement
  <2>3. QED
    BY <1>5, <1>6, <2>2 DEF t
<1>7. CASE e.type # type
  <2>1. OfType(t, type) = OfType(s, type)
    BY <1>1, <1>7 DEF OfType
  <2>2. QED
    BY <1>5, <1>7, <2>1 DEF t
<1>8. QED
  BY <1>6, <1>7

\* How many windows the chain s shows opened, and how many closed.
Opens(s) == Cardinality(OfType(s, "SEAL_WINDOW_OPENED"))
Closes(s) == Cardinality(OfType(s, "SEAL_WINDOW_CLOSED"))

\* Only the two events of a window change its balance.
LEMMA WindowsAppend ==
    ASSUME NEW s \in Seq(Events), NEW e \in Events
    PROVE  /\ Opens(s) \in Nat /\ Closes(s) \in Nat
           /\ Opens(Append(s, e)) =
                 Opens(s) + (IF e.type = "SEAL_WINDOW_OPENED" THEN 1 ELSE 0)
           /\ Closes(Append(s, e)) =
                 Closes(s) + (IF e.type = "SEAL_WINDOW_CLOSED" THEN 1 ELSE 0)
<1>1. /\ Opens(s) \in Nat
      /\ Opens(Append(s, e)) =
            Opens(s) + (IF e.type = "SEAL_WINDOW_OPENED" THEN 1 ELSE 0)
  BY CountAppend DEF Opens
<1>2. /\ Closes(s) \in Nat
      /\ Closes(Append(s, e)) =
            Closes(s) + (IF e.type = "SEAL_WINDOW_CLOSED" THEN 1 ELSE 0)
  BY CountAppend DEF Closes
<1>3. QED
  BY <1>1, <1>2

\* The events a commit appends, one after the other.
LEMMA CommitAppends ==
    ASSUME NEW s \in Seq(Events), NEW a \in Events, NEW b \in Events, NEW c \in Events
    PROVE  /\ s \o <<a, b>> \o <<c>> = Append(Append(Append(s, a), b), c)
           /\ s \o <<a, b>> \o <<>> = Append(Append(s, a), b)
           /\ Append(s, a) \in Seq(Events)
           /\ Append(Append(s, a), b) \in Seq(Events)
<1>1. <<a, b>> \in Seq(Events) /\ <<a>> \in Seq(Events) /\ <<b>> \in Seq(Events)
  OBVIOUS
<1>2. Append(s, a) \in Seq(Events) /\ Append(Append(s, a), b) \in Seq(Events)
  OBVIOUS
<1>3. s \o <<a, b>> = Append(Append(s, a), b)
  <2>1. Append(Append(s, a), b) = (s \o <<a>>) \o <<b>>
    BY <1>2, AppendIsConcat
  <2>2. (s \o <<a>>) \o <<b>> = s \o (<<a>> \o <<b>>)
    BY <1>1, ConcatAssociative
  <2>3. <<a>> \o <<b>> = <<a, b>>
    <3> DEFINE u == <<a>> \o <<b>>
    <3>1. /\ u \in Seq(Events) /\ Len(u) = 2
          /\ \A i \in 1..2 : u[i] = <<a, b>>[i]
      BY <1>1, ConcatProperties
    <3>2. Len(<<a, b>>) = 2
      OBVIOUS
    <3> HIDE DEF u
    <3>3. u = <<a, b>>
      BY <1>1, <3>1, <3>2, SeqEqual
    <3>4. QED
      BY <3>3 DEF u
  <2>4. QED
    BY <2>1, <2>2, <2>3
<1>4. QED
  BY <1>2, <1>3, AppendIsConcat, ConcatEmptySeq

\* A word of the chain on every object; a balance of windows.
ObjectsTold == \A p \in Paths : Tells(chain, p, object[p].status)
WindowsTold == Opens(chain) = Closes(chain) + Cardinality(OpenWindows)

\* An object changes only together with an event that says so: the commit's
\* EVIDENCE_SEALED names the targets, FILE_RETIRED the path retired.
LEMMA ObjectsToldKept ==
    ASSUME IInv, ObjectsTold, Next
    PROVE  ObjectsTold'
<1>0. /\ TypeOK /\ PortalOK
      /\ object \in [Paths -> Objects] /\ seal \in [SealKeys -> SealOps]
      /\ chain \in Seq(Events) /\ manifest \in Seq(Manifests)
      /\ Len(manifest) + 1 \in Nat
  BY DEF IInv, TypeOK
<1>1. \A type \in {"SEAL_WINDOW_OPENED", "EVIDENCE_SEALED", "MANIFEST_SEALED",
                   "SEAL_WINDOW_CLOSED", "FILE_IGNORED", "FILE_RETIRED",
                   "EVIDENCE_REPROTECTED"}, T \in SUBSET Paths, v \in Nat :
         /\ Event(type, T, v) \in Events
         /\ Event(type, T, v).type = type
         /\ Event(type, T, v).paths = T
  BY DEF Event, Events
<1>2. ASSUME UNCHANGED object,
             NEW type \in {"SEAL_WINDOW_OPENED", "FILE_IGNORED",
                           "EVIDENCE_REPROTECTED"},
             NEW T \in SUBSET Paths, chain' = Append(chain, Event(type, T, 0))
      PROVE  ObjectsTold'
  <2> DEFINE e == Event(type, T, 0)
  <2>1. e \in Events /\ e.type \notin Tellers
    BY <1>1 DEF Tellers
  <2> HIDE DEF e
  <2>2. \A p \in Paths : Tells(Append(chain, e), p, object[p].status)
    BY <1>0, <2>1, TellsAppend DEF ObjectsTold
  <2>3. QED
    BY <1>2, <2>2 DEF ObjectsTold, e
<1>3. CASE UNCHANGED <<object, chain>>
  BY <1>3 DEF ObjectsTold
<1>4. ASSUME NEW k \in SealKeys, NEW T \in SUBSET Paths, NEW w \in BOOLEAN,
             Opened(k, T, w)
      PROVE  ObjectsTold'
  BY <1>2, <1>3, <1>4 DEF Opened
<1>5. CASE portal.key \in SealKeys /\ CustodySealCommit(portal.key, portal.facts)
  <2> DEFINE k == portal.key
             T == seal[k].targets
             v == Len(manifest) + 1
             a == Event("EVIDENCE_SEALED", T, v)
             b == Event("MANIFEST_SEALED", {}, v)
             c == Event("SEAL_WINDOW_CLOSED", {}, v)
  <2>1. T \in SUBSET Paths
    BY <1>0, <1>5 DEF SealOps
  <2>2. /\ \A p \in T : object'[p].status = "sealed"
        /\ \A p \in Paths \ T : object'[p] = object[p]
    BY <1>5, <2>1 DEF CustodySealCommit
  <2>3. /\ a \in Events /\ a.type = "EVIDENCE_SEALED" /\ a.paths = T
        /\ b \in Events /\ b.type = "MANIFEST_SEALED"
        /\ c \in Events /\ c.type = "SEAL_WINDOW_CLOSED"
    <3> HIDE DEF T, v
    <3>1. v \in Nat /\ {} \in SUBSET Paths
      BY <1>0 DEF v
    <3>2. QED
      BY <1>1, <2>1, <3>1
  <2>4. chain' = chain \o <<a, b>> \o (IF seal[k].window THEN <<c>> ELSE <<>>)
    BY <1>5 DEF CustodySealCommit, WindowClosed
  <2> DEFINE s1 == Append(chain, a)
             s2 == Append(s1, b)
             s3 == Append(s2, c)
  <2> HIDE DEF k, T, v, a, b, c
  <2>5. /\ chain' = s3 \/ chain' = s2
        /\ s1 \in Seq(Events) /\ s2 \in Seq(Events)
    BY <1>0, <2>3, <2>4, CommitAppends
  <2> HIDE DEF s1, s2, s3
  <2>6. ASSUME NEW p \in Paths
        PROVE  Tells(chain', p, object'[p].status)
    <3>1. Tells(chain, p, object[p].status)
      BY DEF ObjectsTold
    <3>2. Tells(s1, p, object'[p].status)
      <4>1. CASE p \in T
        BY <1>0, <2>2, <2>3, <3>1, <4>1, TellsAppend DEF s1, Told, Tellers
      <4>2. CASE p \notin T
        BY <1>0, <2>2, <2>3, <3>1, <4>2, TellsAppend DEF s1
      <4>3. QED
        BY <4>1, <4>2
    <3>3. Tells(s2, p, object'[p].status)
      BY <2>3, <2>5, <3>2, TellsAppend DEF s2, Tellers
    <3>4. Tells(s3, p, object'[p].status)
      BY <2>3, <2>5, <3>3, TellsAppend DEF s3, Tellers
    <3>5. QED
      BY <2>5, <3>3, <3>4
  <2>7. QED
    BY <2>6 DEF ObjectsTold
<1>6. ASSUME NEW q \in Paths, NEW b \in BatchKeys, CustodyRetire(q, b)
      PROVE  ObjectsTold'
  <2> DEFINE e == Event("FILE_RETIRED", {q}, Len(manifest) + 1)
  <2>1. e \in Events /\ e.type = "FILE_RETIRED" /\ e.paths = {q}
    BY <1>0, <1>1
  <2>2. chain' = Append(chain, e)
    BY <1>6 DEF CustodyRetire
  <2>3. object' = [object EXCEPT ![q] = [object[q] EXCEPT !.status = "retired"]]
    BY <1>6 DEF CustodyRetire
  <2>4. object'[q].status = "retired" /\ \A p \in Paths \ {q} : object'[p] = object[p]
    BY <1>0, <2>3 DEF Objects
  <2> HIDE DEF e
  <2>5. ASSUME NEW p \in Paths
        PROVE  Tells(chain', p, object'[p].status)
    <3>1. Tells(chain, p, object[p].status)
      BY DEF ObjectsTold
    <3>2. CASE p = q
      BY <1>0, <2>1, <2>2, <2>4, <3>1, <3>2, TellsAppend DEF Told, Tellers
    <3>3. CASE p # q
      BY <1>0, <2>1, <2>2, <2>4, <3>1, <3>3, TellsAppend
    <3>4. QED
      BY <3>2, <3>3
  <2>6. QED
    BY <2>5 DEF ObjectsTold
<1>7. ASSUME NEW p \in Paths, NEW b \in BatchKeys,
             \/ Noted("FILE_IGNORED", "IGNORE", p, b)
             \/ Noted("EVIDENCE_REPROTECTED", "REPROTECT", p, b)
      PROVE  ObjectsTold'
  <2>1. {p} \in SUBSET Paths
    OBVIOUS
  <2>2. QED
    BY <1>2, <1>7, <2>1 DEF Noted
<1>8. QED
  BY <1>0, <1>3, <1>4, <1>5, <1>6, <1>7, RecordMoves

\* The one operation in progress is the only one whose window can be open:
\* opening it is recorded with the operation, closing it with its commit.
LEMMA WindowsToldKept ==
    ASSUME IInv, WindowsTold, Next
    PROVE  WindowsTold'
<1>0. /\ TypeOK /\ PortalOK /\ OneActiveSeal
      /\ object \in [Paths -> Objects] /\ seal \in [SealKeys -> SealOps]
      /\ chain \in Seq(Events) /\ manifest \in Seq(Manifests)
      /\ Len(manifest) + 1 \in Nat
  BY DEF IInv, TypeOK
<1>1. \A type \in {"SEAL_WINDOW_OPENED", "EVIDENCE_SEALED", "MANIFEST_SEALED",
                   "SEAL_WINDOW_CLOSED", "FILE_IGNORED", "FILE_RETIRED",
                   "EVIDENCE_REPROTECTED"}, T \in SUBSET Paths, v \in Nat :
         /\ Event(type, T, v) \in Events
         /\ Event(type, T, v).type = type
  BY DEF Event, Events
<1>2. Cardinality({}) = 0 /\ \A k : Cardinality({k}) = 1
  BY FS_EmptySet, FS_Singleton
<1>3. ASSUME UNCHANGED seal,
             NEW type \in {"FILE_RETIRED", "FILE_IGNORED", "EVIDENCE_REPROTECTED"},
             NEW T \in SUBSET Paths, NEW v \in Nat,
             chain' = Append(chain, Event(type, T, v))
      PROVE  WindowsTold'
  <2> DEFINE e == Event(type, T, v)
  <2>1. /\ e \in Events
        /\ e.type # "SEAL_WINDOW_OPENED" /\ e.type # "SEAL_WINDOW_CLOSED"
    BY <1>1
  <2>2. chain' = Append(chain, e)
    BY <1>3
  <2> HIDE DEF e
  <2>3. Opens(chain') = Opens(chain) /\ Closes(chain') = Closes(chain)
    BY <1>0, <2>1, <2>2, WindowsAppend
  <2>4. OpenWindows' = OpenWindows
    BY <1>3 DEF OpenWindows, ActiveSeals
  <2>5. QED
    BY <2>3, <2>4 DEF WindowsTold
<1>4. CASE UNCHANGED <<seal, chain>>
  BY <1>4 DEF WindowsTold, OpenWindows, ActiveSeals, Opens, Closes
<1>5. ASSUME NEW k \in SealKeys, NEW T \in SUBSET Paths, NEW w \in BOOLEAN,
             Opened(k, T, w)
      PROVE  WindowsTold'
  <2>1. /\ seal'[k].phase = "REQUESTED" /\ seal'[k].window = w
        /\ \A l \in SealKeys \ {k} : seal'[l] = seal[l]
        /\ ActiveSeals = {}
    BY <1>0, <1>5 DEF Opened
  <2>2. OpenWindows = {}
    BY <2>1 DEF OpenWindows
  <2>3. CASE w
    <3> DEFINE e == Event("SEAL_WINDOW_OPENED", T, 0)
    <3>1. e \in Events /\ e.type = "SEAL_WINDOW_OPENED"
      BY <1>1
    <3>2. chain' = Append(chain, e)
      BY <1>5, <2>3 DEF Opened
    <3> HIDE DEF e
    <3>3. /\ Opens(chain') = Opens(chain) + 1 /\ Closes(chain') = Closes(chain)
          /\ Opens(chain) \in Nat /\ Closes(chain) \in Nat
      BY <1>0, <3>1, <3>2, WindowsAppend
    <3>4. OpenWindows' = {k}
      BY <2>1, <2>3 DEF OpenWindows, ActiveSeals
    <3>5. Cardinality(OpenWindows) = 0 /\ Cardinality(OpenWindows') = 1
      BY <1>2, <2>2, <3>4
    <3>6. QED
      BY <3>3, <3>5 DEF WindowsTold
  <2>4. CASE ~w
    <3>1. chain' = chain
      BY <1>5, <2>4 DEF Opened
    <3>2. OpenWindows' = {}
      BY <2>1, <2>4 DEF OpenWindows, ActiveSeals
    <3>3. QED
      BY <2>2, <3>1, <3>2 DEF WindowsTold
  <2>5. QED
    BY <2>3, <2>4
<1>6. CASE portal.key \in SealKeys /\ CustodySealCommit(portal.key, portal.facts)
  <2> DEFINE k == portal.key
             T == seal[k].targets
             v == Len(manifest) + 1
             a == Event("EVIDENCE_SEALED", T, v)
             b == Event("MANIFEST_SEALED", {}, v)
             c == Event("SEAL_WINDOW_CLOSED", {}, v)
  <2>1. /\ k \in SealKeys /\ T \in SUBSET Paths
        /\ seal[k].phase = "REQUESTED" /\ seal'[k].phase = "COMMITTED"
        /\ \A l \in SealKeys \ {k} : seal'[l] = seal[l]
    BY <1>0, <1>6 DEF CustodySealCommit, SealOps
  <2>2. /\ a \in Events /\ a.type = "EVIDENCE_SEALED"
        /\ b \in Events /\ b.type = "MANIFEST_SEALED"
        /\ c \in Events /\ c.type = "SEAL_WINDOW_CLOSED"
    <3> HIDE DEF T, v
    <3>1. v \in Nat /\ {} \in SUBSET Paths
      BY <1>0 DEF v
    <3>2. QED
      BY <1>1, <2>1, <3>1
  <2>3. chain' = chain \o <<a, b>> \o (IF seal[k].window THEN <<c>> ELSE <<>>)
    BY <1>6 DEF CustodySealCommit, WindowClosed
  <2> DEFINE s1 == Append(chain, a)
             s2 == Append(s1, b)
             s3 == Append(s2, c)
  <2>w. seal[k].window \in BOOLEAN
    BY <1>0, <2>1 DEF SealOps
  <2> HIDE DEF k, T, v, a, b, c
  <2>4. /\ seal[k].window => chain' = s3
        /\ ~seal[k].window => chain' = s2
        /\ s1 \in Seq(Events) /\ s2 \in Seq(Events)
    BY <1>0, <2>2, <2>3, CommitAppends
  <2> HIDE DEF s1, s2, s3
  <2>5. /\ Opens(s1) = Opens(chain) /\ Closes(s1) = Closes(chain)
        /\ Opens(chain) \in Nat /\ Closes(chain) \in Nat
    BY <1>0, <2>2, WindowsAppend DEF s1
  <2>6. Opens(s2) = Opens(s1) /\ Closes(s2) = Closes(s1)
    BY <2>2, <2>4, WindowsAppend DEF s2
  <2>7. Opens(s3) = Opens(s2) /\ Closes(s3) = Closes(s2) + 1
    BY <2>2, <2>4, WindowsAppend DEF s3
  <2>8. ActiveSeals = {k}
    BY <1>0, <2>1 DEF OneActiveSeal, ActiveSeals
  <2>9. OpenWindows' = {}
    BY <2>1, <2>8 DEF OpenWindows, ActiveSeals
  <2>10. CASE seal[k].window
    <3>1. OpenWindows = {k}
      BY <2>8, <2>10 DEF OpenWindows
    <3>2. Cardinality(OpenWindows) = 1 /\ Cardinality(OpenWindows') = 0
      BY <1>2, <2>9, <3>1
    <3>3. Opens(chain') = Opens(chain) /\ Closes(chain') = Closes(chain) + 1
      BY <2>4, <2>5, <2>6, <2>7, <2>10
    <3>4. QED
      BY <2>5, <3>2, <3>3 DEF WindowsTold
  <2>11. CASE ~seal[k].window
    <3>1. OpenWindows = {}
      BY <2>8, <2>11 DEF OpenWindows
    <3>2. Opens(chain') = Opens(chain) /\ Closes(chain') = Closes(chain)
      BY <2>4, <2>5, <2>6, <2>11
    <3>3. QED
      BY <2>9, <3>1, <3>2 DEF WindowsTold
  <2>12. QED
    BY <2>10, <2>11
<1>7. ASSUME NEW p \in Paths, NEW b \in BatchKeys, CustodyRetire(p, b)
      PROVE  WindowsTold'
  <2>1. /\ {p} \in SUBSET Paths /\ UNCHANGED seal
        /\ chain' = Append(chain, Event("FILE_RETIRED", {p}, Len(manifest) + 1))
    BY <1>7 DEF CustodyRetire
  <2>2. QED
    BY <1>0, <1>3, <2>1
<1>8. ASSUME NEW p \in Paths, NEW b \in BatchKeys,
             \/ Noted("FILE_IGNORED", "IGNORE", p, b)
             \/ Noted("EVIDENCE_REPROTECTED", "REPROTECT", p, b)
      PROVE  WindowsTold'
  <2>1. {p} \in SUBSET Paths /\ 0 \in Nat
    OBVIOUS
  <2>2. QED
    BY <1>3, <1>8, <2>1 DEF Noted
<1>9. QED
  BY <1>0, <1>4, <1>5, <1>6, <1>7, <1>8, RecordMoves

\* The ledger of custody events can be replayed: read from its start it gives
\* the state of every object, and it shows a staging window open exactly while
\* an operation has one, whatever interleaves with the portal and wherever the
\* gateway dies.
THEOREM ChainTellsTheState == Spec => []ChainReplays
<1>1. Init => ObjectsTold /\ WindowsTold
  <2> SUFFICES ASSUME Init PROVE ObjectsTold /\ WindowsTold
    OBVIOUS
  <2>1. /\ chain = <<>> /\ OpenWindows = {}
        /\ \A p \in Paths : object[p].status = "none"
    BY DEF Init, StoreInit, OpenWindows, ActiveSeals
  <2>2. /\ \A p \in Paths : Telling(chain, p) = {}
        /\ \A type : OfType(chain, type) = {}
    BY <2>1 DEF Telling, OfType
  <2>3. Cardinality({}) = 0
    BY FS_EmptySet
  <2>4. ObjectsTold
    BY <2>1, <2>2 DEF ObjectsTold, Tells
  <2>5. WindowsTold
    <3>1. Opens(chain) = 0 /\ Closes(chain) = 0 /\ Cardinality(OpenWindows) = 0
      BY <2>1, <2>2, <2>3 DEF Opens, Closes
    <3>2. QED
      BY <3>1 DEF WindowsTold
  <2>6. QED
    BY <2>4, <2>5
<1>2. IInv /\ ObjectsTold /\ WindowsTold /\ [Next]_vars
        => ObjectsTold' /\ WindowsTold'
  <2> SUFFICES ASSUME IInv, ObjectsTold, WindowsTold, [Next]_vars
               PROVE  ObjectsTold' /\ WindowsTold'
    OBVIOUS
  <2>1. CASE UNCHANGED vars
    BY <2>1 DEF vars, storeVars, ObjectsTold, WindowsTold, OpenWindows,
         ActiveSeals, Opens, Closes
  <2>2. QED
    BY <2>1, ObjectsToldKept, WindowsToldKept
<1>3. ObjectsTold /\ WindowsTold => ChainReplays
  BY DEF ObjectsTold, WindowsTold, ChainReplays, Opens, Closes, OpenWindows
<1>4. QED
  BY <1>1, <1>2, <1>3, Invariance, PTL DEF Spec
=============================================================================
