------------------------- MODULE InvestigationProofs -------------------------
(***************************************************************************)
(* Proofs about Investigation, for any set of calls and of values, and any *)
(* number of items, edits and staged decisions.                            *)
(***************************************************************************)
EXTENDS Investigation, TLAPS

\* The kinds of items whose hash covers the whole content.
Texts == {"finding", "timeline"}

\* A call in state s may yet write an item of kind k.
Yet(s, k) ==
    \/ s.pc \in {"idle", "link"}
    \/ /\ s.pc \in {"upsert", "insert"}
       /\ s.kind = k \/ (s.kind = "finding" /\ k = "timeline")

Pending(k) == {c \in Calls : Yet(call[c], k)}

\* A call that is about to write has a number to write to, and the content is
\* the call's own.
CallOK(c, s) ==
    /\ s.pc = "link" => s.kind = "finding"
    /\ s.pc \in {"link", "upsert", "insert"} =>
           /\ s.id[s.kind] \in Ids
           /\ s.kind \in Texts => s.body.srcs = {c}

\* A version of an item, that is a content b with the hash h it had, against the
\* row r as it is now: the hash is of that content or of an earlier edit of it
\* (a rejection keeps the hash), it comes from no call that may yet write (P),
\* and of the same text the row's is the latest edit.
VersionOK(b, h, r, P) ==
    /\ h.srcs = b.srcs
    /\ h.value = b.value
    /\ h.edit <= b.edit
    /\ b.srcs \cap P = {}
    /\ r # NoRow /\ r.body.srcs = b.srcs => b.edit <= r.body.edit

\* A row is a version of itself, and what is approved verifies and was seen.
RowOK(r, P) ==
    r # NoRow =>
        /\ VersionOK(r.body, r.hash, r, P)
        /\ r.status = "APPROVED" => Verified(r) /\ Sighted(r)

\* A staged edit has room, and a decision that names a hash was taken on a
\* version of the item.
EntryOK(e, r, P) ==
    /\ e.mods => e.orig.edit < MaxEdits
    /\ e.kind \in Texts /\ e.hash # NoHash => VersionOK(e.view, e.hash, r, P)

CallsOK == \A c \in Calls : CallOK(c, call[c])
RowsOK == \A k \in Texts, n \in Ids : RowOK(row[k][n], Pending(k))
ScreensOK ==
    \A k \in Texts, n \in Ids : \A s \in shown[k][n] :
        VersionOK(s.body, s.hash, row[k][n], Pending(k))
EntriesOK == \A e \in delta : EntryOK(e, row[e.kind][e.id], Pending(e.kind))

\* Clients stage one decision on an item.
OneDecision ==
    \A e, f \in delta : e.kind = f.kind /\ e.id = f.id => e = f

\* The inductive invariant.
IInv ==
    /\ TypeOK
    /\ CallsOK
    /\ RowsOK
    /\ ScreensOK
    /\ EntriesOK
    /\ OneDecision
    /\ ReportWasSeen

-----------------------------------------------------------------------------
(* The shapes of the records.                                              *)

\* Bodies and their hashes.
LEMMA Hashed ==
    ASSUME NEW b \in Bodies
    PROVE  /\ b.srcs \in SUBSET Calls /\ b.value \in Values \cup {NoValue}
           /\ b.edit \in 0 .. MaxEdits /\ b.edit \in Nat
           /\ ContentHash(b) \in Hashes /\ IocHash(b) \in Hashes
           /\ ContentHash(b).srcs = b.srcs /\ ContentHash(b).edit = b.edit
           /\ ContentHash(b).value = b.value
           /\ IocHash(b).edit = b.edit
           /\ b \in Seen
<1>1. /\ b.srcs \in SUBSET Calls /\ b.value \in Values \cup {NoValue}
      /\ b.edit \in 0 .. MaxEdits /\ b.edit \in Nat
  BY InvestigationAssumption DEF Bodies
<1>2. ContentHash(b) \in Hashes /\ IocHash(b) \in Hashes
  BY <1>1 DEF ContentHash, IocHash, Hashes
<1>3. /\ ContentHash(b).srcs = b.srcs /\ ContentHash(b).edit = b.edit
      /\ ContentHash(b).value = b.value /\ IocHash(b).edit = b.edit
  BY DEF ContentHash, IocHash
<1>4. b \in Seen
  BY InvestigationAssumption DEF Bodies, Seen
<1>. QED BY <1>1, <1>2, <1>3, <1>4

\* An edit of a body.
LEMMA EditedIs ==
    ASSUME NEW b \in Bodies, NEW e \in Entries
    PROVE  /\ Edited(e, b) \in Seen
           /\ ~e.mods => Edited(e, b) = b
           /\ e.mods => Edited(e, b).edit = b.edit + 1
           /\ Edited(e, b).srcs = b.srcs /\ Edited(e, b).value = b.value
           /\ e.mods /\ b.edit < MaxEdits => Edited(e, b) \in Bodies
<1>1. /\ b \in Seen /\ b.edit \in Nat /\ b.edit <= MaxEdits /\ MaxEdits \in Nat
  BY Hashed, InvestigationAssumption
<1>2. /\ [b EXCEPT !.edit = @ + 1].edit = b.edit + 1
      /\ [b EXCEPT !.edit = @ + 1].srcs = b.srcs /\ [b EXCEPT !.edit = @ + 1].value = b.value
  BY DEF Bodies
<1>3. [b EXCEPT !.edit = @ + 1] \in Seen
  <2>1. b.edit + 1 \in 0 .. MaxEdits + 1
    BY <1>1
  <2>. QED BY <2>1 DEF Bodies, Seen
<1>4. b.edit < MaxEdits => [b EXCEPT !.edit = @ + 1] \in Bodies
  <2>1. b.edit < MaxEdits => b.edit + 1 \in 0 .. MaxEdits
    BY <1>1
  <2>. QED BY <2>1 DEF Bodies
<1>. QED BY <1>1, <1>2, <1>3, <1>4 DEF Edited

\* Rows and entries.
LEMMA RowIs ==
    ASSUME NEW r \in Rows
    PROVE  /\ r # NoRow /\ r.status \in {"DRAFT", "APPROVED", "REJECTED"}
           /\ r.body \in Bodies /\ r.hash \in Hashes /\ r.seen \in Seen
           /\ r.unchecked \in BOOLEAN
  BY InvestigationAssumption DEF Rows

\* The fields of a staged decision.
LEMMA EntryIs ==
    ASSUME NEW e \in Entries
    PROVE  /\ e.kind \in Kinds /\ e.id \in Ids /\ e.action \in {"approve", "reject", "edit"}
           /\ e.hash \in Hashes \cup {NoHash} /\ e.view \in Bodies /\ e.mods \in BOOLEAN /\ e.orig \in Bodies
  BY DEF Entries

\* The fields of a hash.
LEMMA HashIs ==
    ASSUME NEW h \in Hashes
    PROVE  h.srcs \in SUBSET Calls /\ h.edit \in 0 .. MaxEdits /\ h.edit \in Nat
  BY InvestigationAssumption DEF Hashes

\* The row an agent writes.
LEMMA AgentRowIs ==
    ASSUME NEW k \in Kinds, NEW b \in Bodies
    PROVE  /\ AgentRow(k, b) \in Rows
           /\ AgentRow(k, b).status = "DRAFT" /\ AgentRow(k, b).body = b
           /\ k \in Texts => AgentRow(k, b).hash = ContentHash(b)
<1>1. AgentHash(k, b) \in Hashes /\ (k \in Texts => AgentHash(k, b) = ContentHash(b))
  BY Hashed DEF AgentHash, Texts
<1>2. NoBody \in Seen
  BY InvestigationAssumption DEF NoBody, Seen
<1>. QED BY <1>1, <1>2 DEF AgentRow, Rows

\* Where a row is.
LEMMA RowAt ==
    ASSUME TypeOK, NEW k \in Kinds, NEW n \in Ids
    PROVE  row[k][n] \in Rows \cup {NoRow}
  BY DEF TypeOK

\* The states of a call.
LEMMA StateIs ==
    ASSUME NEW s \in CallStates
    PROVE  /\ s.pc \in {"idle", "link", "upsert", "insert", "iocs", "done"}
           /\ s.kind \in Kinds /\ s.id \in [Kinds -> 0 .. MaxItems]
           /\ s.body \in Bodies /\ s.tl \in BOOLEAN /\ s.value \in Values \cup {NoValue}
  BY DEF CallStates

\* Calls before their start and after their end.
LEMMA IdleIs ==
    /\ Idle \in CallStates /\ Idle.pc = "idle" /\ Done \in CallStates /\ Done.pc = "done"
    /\ NoBody \in Bodies
<1>1. NoBody \in Bodies
  BY InvestigationAssumption DEF NoBody, Bodies
<1>2. [k \in Kinds |-> 0] \in [Kinds -> 0 .. MaxItems]
  BY InvestigationAssumption
<1>3. Idle \in CallStates /\ Idle.pc = "idle"
  BY <1>1, <1>2 DEF Idle, CallStates, Kinds
<1>4. \A s \in CallStates : [s EXCEPT !.pc = "done"] \in CallStates
                            /\ [s EXCEPT !.pc = "done"].pc = "done"
  BY DEF CallStates
<1>. QED BY <1>1, <1>3, <1>4 DEF Done

\* After its write of one kind a call has that kind behind it.
LEMMA ProceedIs ==
    ASSUME NEW c \in Calls, NEW s \in CallStates, CallOK(c, s), s.pc \in {"upsert", "insert"}
    PROVE  /\ Proceed(s) \in CallStates /\ CallOK(c, Proceed(s))
           /\ Proceed(s).pc \in {"upsert", "iocs", "done"}
           /\ \A k \in Texts : Yet(Proceed(s), k) => Yet(s, k)
           /\ ~Yet(Proceed(s), s.kind)
<1>1. \A x \in {"iocs", "done"} : /\ [s EXCEPT !.pc = x] \in CallStates
                                  /\ [s EXCEPT !.pc = x].pc = x
  BY DEF CallStates
<1>. DEFINE u == [s EXCEPT !.pc = "upsert", !.kind = "timeline"]
<1>2. /\ u \in CallStates /\ u.pc = "upsert" /\ u.kind = "timeline"
      /\ u.id = s.id /\ u.body = s.body
  BY DEF CallStates, Kinds
<1>3. Proceed(s) \in {u, [s EXCEPT !.pc = "iocs"], Done}
      /\ (Proceed(s) = u => (s.kind = "finding" /\ s.id["timeline"] # 0)
                            \/ u \in {[s EXCEPT !.pc = "iocs"], Done})
  BY DEF Proceed
<1>. HIDE DEF u
<1>4. CASE s.kind = "finding" /\ s.id["timeline"] # 0 /\ Proceed(s) = u
  <2>1. s.id["timeline"] \in Ids
    BY <1>4, StateIs, InvestigationAssumption DEF Ids, Kinds
  <2>2. CallOK(c, u)
    BY <1>2, <1>4, <2>1 DEF CallOK, Texts
  <2>. QED BY <1>2, <1>4, <2>2 DEF Yet, Texts
<1>5. CASE Proceed(s) \in {[s EXCEPT !.pc = "iocs"], Done}
  <2>1. Proceed(s) \in CallStates /\ Proceed(s).pc \in {"iocs", "done"}
    BY <1>1, <1>5, IdleIs
  <2>. QED BY <2>1 DEF CallOK, Yet
<1>. QED BY <1>3, <1>4, <1>5


-----------------------------------------------------------------------------
(* Agents' steps.                                                          *)

\* What holds of versions and rows holds with fewer calls pending.
LEMMA FewerPending ==
    ASSUME NEW P, NEW Q \in SUBSET P
    PROVE  /\ \A b, h, r : VersionOK(b, h, r, P) => VersionOK(b, h, r, Q)
           /\ \A r : RowOK(r, P) => RowOK(r, Q)
<1>1. \A b, h, r : VersionOK(b, h, r, P) => VersionOK(b, h, r, Q)
  BY DEF VersionOK
<1>. QED BY <1>1 DEF RowOK

\* Whatever is a version of the item with the row r is one with the row q.
Later(r, q, P) == \A b \in Bodies : \A h : VersionOK(b, h, r, P) => VersionOK(b, h, q, P)

\* Rows move on while screens and decisions stay.
LEMMA VersionsStay ==
    ASSUME TypeOK, ScreensOK, EntriesOK, shown' = shown, delta' = delta,
           \A k \in Texts : Pending(k)' \subseteq Pending(k),
           \A k \in Texts, n \in Ids : Later(row[k][n], row'[k][n], Pending(k))
    PROVE  ScreensOK' /\ EntriesOK'
<1>1. \A k \in Texts, n \in Ids : \A b \in Bodies : \A h :
        VersionOK(b, h, row[k][n], Pending(k)) => VersionOK(b, h, row'[k][n], Pending(k)')
  BY FewerPending DEF Later
<1>2. ASSUME NEW k \in Texts, NEW n \in Ids, NEW s \in shown[k][n]
      PROVE  VersionOK(s.body, s.hash, row'[k][n], Pending(k)')
  <2>1. k \in Kinds
    BY DEF Texts, Kinds
  <2>2. s \in Copies
    BY <2>1 DEF TypeOK
  <2>3. s.body \in Bodies
    BY <2>2 DEF Copies
  <2>. QED BY <1>1, <2>3 DEF ScreensOK
<1>3. ASSUME NEW e \in delta PROVE EntryOK(e, row'[e.kind][e.id], Pending(e.kind)')
  <2>1. /\ EntryOK(e, row[e.kind][e.id], Pending(e.kind)) /\ e.id \in Ids
        /\ e.view \in Bodies
    BY EntryIs DEF EntriesOK, TypeOK
  <2>. QED BY <1>1, <2>1 DEF EntryOK
<1>. QED BY <1>2, <1>3 DEF ScreensOK, EntriesOK

\* A step of one call that does not write.
LEMMA CallStep ==
    ASSUME IInv, NEW c \in Calls, NEW s \in CallStates,
           call' = [call EXCEPT ![c] = s], CallOK(c, s),
           \A k \in Texts : Yet(s, k) => Yet(call[c], k),
           UNCHANGED <<row, shown, delta, portal, ledger, gen, report>>
    PROVE  IInv'
<1>1. /\ TypeOK /\ CallsOK /\ RowsOK /\ ScreensOK /\ EntriesOK /\ OneDecision
      /\ ReportWasSeen
  BY DEF IInv
<1>2. call \in [Calls -> CallStates]
  BY <1>1 DEF TypeOK
<1>3. call' \in [Calls -> CallStates] /\ call'[c] = s
      /\ \A d \in Calls : d # c => call'[d] = call[d]
  BY <1>2
<1>4. TypeOK'
  BY <1>1, <1>3 DEF TypeOK
<1>5. CallsOK'
  BY <1>1, <1>3 DEF CallsOK
<1>6. \A k \in Texts : Pending(k)' \subseteq Pending(k)
  BY <1>3 DEF Pending
<1>7. RowsOK'
  <2>1. ASSUME NEW k \in Texts, NEW n \in Ids PROVE RowOK(row'[k][n], Pending(k)')
    <3>1. RowOK(row[k][n], Pending(k))
      BY <1>1 DEF RowsOK
    <3>. QED BY <1>6, <3>1, FewerPending
  <2>. QED BY <2>1 DEF RowsOK
<1>8. ScreensOK' /\ EntriesOK'
  BY <1>1, <1>6, VersionsStay DEF Later
<1>9. OneDecision' /\ ReportWasSeen'
  BY <1>1 DEF OneDecision, ReportWasSeen
<1>. QED BY <1>4, <1>5, <1>7, <1>8, <1>9 DEF IInv

\* A step of one call that writes its target and goes on.
LEMMA WriteStep ==
    ASSUME IInv, NEW c \in Calls, call[c].pc \in {"upsert", "insert"},
           WriteTarget(c), call' = [call EXCEPT ![c] = Proceed(@)],
           UNCHANGED <<shown, delta, portal, ledger, gen, report>>
    PROVE  IInv'
<1>1. /\ TypeOK /\ CallsOK /\ RowsOK /\ ScreensOK /\ EntriesOK /\ OneDecision
      /\ ReportWasSeen
  BY DEF IInv
<1>2. call \in [Calls -> CallStates] /\ row \in [Kinds -> [Ids -> Rows \cup {NoRow}]]
  BY <1>1 DEF TypeOK
<1>3. CallOK(c, call[c]) /\ call[c] \in CallStates
  BY <1>1, <1>2 DEF CallsOK
<1>0. PICK k \in Kinds : k = call[c].kind
  BY <1>3, StateIs
<1>. DEFINE n == call[c].id[k]
            b == call[c].body
            w == AgentRow(k, b)
            s == Proceed(call[c])
<1>4. /\ k \in Kinds /\ b \in Bodies /\ n \in Ids
      /\ k \in Texts => b.srcs = {c}
  BY <1>0, <1>3, StateIs DEF CallOK
<1>5. /\ s \in CallStates /\ CallOK(c, s) /\ ~Yet(s, k)
      /\ \A j \in Texts : Yet(s, j) => Yet(call[c], j)
  BY <1>0, <1>3, ProceedIs
<1>6. /\ w \in Rows /\ w.status = "DRAFT" /\ w.body = b
      /\ k \in Texts => w.hash = ContentHash(b)
  BY <1>4, AgentRowIs
<1>7. row' = [row EXCEPT ![k][n] = w] /\ call' = [call EXCEPT ![c] = s]
  BY <1>0 DEF WriteTarget
<1>. HIDE DEF n, b, w, s
<1>8. \A j \in Kinds, m \in Ids : row'[j][m] = IF j = k /\ m = n THEN w ELSE row[j][m]
  BY <1>2, <1>4, <1>7
<1>9. call' \in [Calls -> CallStates] /\ call'[c] = s
      /\ \A d \in Calls : d # c => call'[d] = call[d]
  BY <1>2, <1>5, <1>7
<1>10. TypeOK'
  <2>1. row' \in [Kinds -> [Ids -> Rows \cup {NoRow}]]
    BY <1>2, <1>4, <1>6, <1>7
  <2>. QED BY <1>1, <1>9, <2>1 DEF TypeOK
<1>11. CallsOK'
  BY <1>1, <1>5, <1>9 DEF CallsOK
<1>12. /\ \A j \in Texts : Pending(j)' \subseteq Pending(j)
       /\ c \notin Pending(k)'
       /\ k \in Texts => c \in Pending(k)
  <2>1. Yet(call[c], k)
    BY <1>0 DEF Yet
  <2>. QED BY <1>5, <1>9, <2>1 DEF Pending
<1>13. k \in Texts => RowOK(w, Pending(k)')
  <2>1. SUFFICES ASSUME k \in Texts PROVE RowOK(w, Pending(k)')
    OBVIOUS
  <2>2. /\ w.hash.srcs = {c} /\ w.body.srcs = {c} /\ w.hash.value = b.value
        /\ w.hash.edit = b.edit /\ b.edit \in Nat
    BY <1>4, <1>6, <2>1, Hashed
  <2>3. w.hash.edit <= w.body.edit /\ w.body.edit <= w.body.edit /\ w.status # "APPROVED"
    BY <1>6, <2>2
  <2>4. VersionOK(w.body, w.hash, w, Pending(k)')
    BY <1>6, <1>12, <2>2, <2>3 DEF VersionOK
  <2>. QED BY <2>3, <2>4 DEF RowOK
<1>14. RowsOK'
  <2>1. ASSUME NEW j \in Texts, NEW m \in Ids PROVE RowOK(row'[j][m], Pending(j)')
    <3>1. RowOK(row[j][m], Pending(j))
      BY <1>1 DEF RowsOK
    <3>2. RowOK(row[j][m], Pending(j)')
      BY <1>12, <3>1, FewerPending
    <3>3. j \in Kinds
      BY DEF Texts, Kinds
    <3>. QED BY <1>8, <1>13, <3>2, <3>3
  <2>. QED BY <2>1 DEF RowsOK
<1>15. ScreensOK' /\ EntriesOK'
  <2>1. ASSUME NEW j \in Texts, NEW m \in Ids PROVE Later(row[j][m], row'[j][m], Pending(j))
    <3>1. j \in Kinds
      BY DEF Texts, Kinds
    <3>2. CASE ~(j = k /\ m = n)
      BY <1>8, <3>1, <3>2 DEF Later
    <3>3. CASE j = k /\ m = n
      <4>1. w.body.srcs = {c} /\ c \in Pending(j) /\ row'[j][m] = w
        BY <1>4, <1>6, <1>8, <1>12, <3>1, <3>3
      <4>. QED BY <4>1 DEF Later, VersionOK
    <3>. QED BY <3>2, <3>3
  <2>. QED BY <1>1, <1>12, <2>1, VersionsStay
<1>16. OneDecision' /\ ReportWasSeen'
  BY <1>1 DEF OneDecision, ReportWasSeen
<1>. QED BY <1>10, <1>11, <1>14, <1>15, <1>16 DEF IInv


\* The states of calls, from the invariant.
LEMMA CallIs ==
    ASSUME IInv, NEW c \in Calls
    PROVE  call[c] \in CallStates /\ CallOK(c, call[c])
  BY DEF IInv, TypeOK, CallsOK

\* What a call writes is its own.
LEMMA OwnBody ==
    ASSUME NEW c \in Calls
    PROVE  LET b == [srcs |-> {c}, value |-> NoValue, edit |-> 0]
           IN  b \in Bodies /\ b.srcs = {c}
  BY InvestigationAssumption DEF Bodies

\* A call begins with a finding.
LEMMA RecordFindingInv ==
    ASSUME IInv, NEW c \in Calls, NEW tl \in BOOLEAN, NEW v \in Values \cup {NoValue},
           RecordFinding(c, tl, v)
    PROVE  IInv'
<1>. DEFINE m == _next_seq("finding")
            b == [srcs |-> {c}, value |-> NoValue, edit |-> 0]
            s == [Idle EXCEPT !.pc = "link", !.id = [@ EXCEPT !["finding"] = m],
                              !.body = b, !.tl = tl, !.value = v]
<1>1. /\ m \in Ids /\ call' = [call EXCEPT ![c] = s] /\ call[c].pc = "idle"
      /\ UNCHANGED <<row, shown, delta, portal, ledger, gen, report>>
  BY DEF RecordFinding, CallOnly
<1>2. b \in Bodies /\ b.srcs = {c}
  BY OwnBody
<1>. HIDE DEF m, b
<1>3. m \in 0 .. MaxItems
  BY <1>1, InvestigationAssumption DEF Ids
<1>4. \A x \in CallStates :
        LET y == [x EXCEPT !.pc = "link", !.id = [@ EXCEPT !["finding"] = m],
                           !.body = b, !.tl = tl, !.value = v]
        IN  /\ y \in CallStates /\ y.pc = "link" /\ y.kind = x.kind /\ y.body = b
            /\ y.id["finding"] = m
  BY <1>2, <1>3 DEF CallStates, Kinds
<1>5. s \in CallStates /\ s.pc = "link" /\ s.kind = Idle.kind /\ s.body = b
      /\ s.id["finding"] = m
  BY <1>4, IdleIs
<1>. HIDE DEF s
<1>6. CallOK(c, s)
  BY <1>1, <1>2, <1>5 DEF CallOK, Idle
<1>7. \A k \in Texts : Yet(call[c], k)
  BY <1>1 DEF Yet
<1>. QED BY <1>1, <1>5, <1>6, <1>7, CallStep

\* A call begins with a timeline event.
LEMMA RecordTimelineInv ==
    ASSUME IInv, NEW c \in Calls, RecordTimelineEvent(c)
    PROVE  IInv'
<1>. DEFINE m == _next_seq("timeline")
            b == [srcs |-> {c}, value |-> NoValue, edit |-> 0]
            s == [Idle EXCEPT !.pc = "upsert", !.kind = "timeline",
                              !.id = [@ EXCEPT !["timeline"] = m], !.body = b]
<1>1. /\ m \in Ids /\ call' = [call EXCEPT ![c] = s] /\ call[c].pc = "idle"
      /\ UNCHANGED <<row, shown, delta, portal, ledger, gen, report>>
  BY DEF RecordTimelineEvent, CallOnly
<1>2. b \in Bodies /\ b.srcs = {c}
  BY OwnBody
<1>. HIDE DEF m, b
<1>3. m \in 0 .. MaxItems
  BY <1>1, InvestigationAssumption DEF Ids
<1>4. \A x \in CallStates :
        LET y == [x EXCEPT !.pc = "upsert", !.kind = "timeline",
                           !.id = [@ EXCEPT !["timeline"] = m], !.body = b]
        IN  /\ y \in CallStates /\ y.pc = "upsert" /\ y.kind = "timeline" /\ y.body = b
            /\ y.id["timeline"] = m
  BY <1>2, <1>3 DEF CallStates, Kinds
<1>5. s \in CallStates /\ s.pc = "upsert" /\ s.kind = "timeline" /\ s.body = b
      /\ s.id["timeline"] = m
  BY <1>4, IdleIs
<1>. HIDE DEF s
<1>6. CallOK(c, s)
  BY <1>1, <1>2, <1>5 DEF CallOK
<1>7. \A k \in Texts : Yet(call[c], k)
  BY <1>1 DEF Yet
<1>. QED BY <1>1, <1>5, <1>6, <1>7, CallStep

\* The number of the linked event is reserved.
LEMMA LinkTimelineInv ==
    ASSUME IInv, NEW c \in Calls, LinkTimeline(c)
    PROVE  IInv'
<1>1. call[c] \in CallStates /\ CallOK(c, call[c]) /\ call[c].pc = "link"
  BY CallIs DEF LinkTimeline
<1>. DEFINE m == IF call[c].tl THEN _next_seq("timeline") ELSE 0
<1>0. m \in 0 .. MaxItems
  BY InvestigationAssumption DEF LinkTimeline, Ids
<1>2. call' = [call EXCEPT ![c].pc = "upsert", ![c].id["timeline"] = m]
  BY DEF LinkTimeline
<1>. HIDE DEF m
<1>. DEFINE s == [call[c] EXCEPT !.pc = "upsert", !.id["timeline"] = m]
<1>3. call' = [call EXCEPT ![c] = s]
  BY <1>2
<1>4. \A x \in CallStates :
        LET y == [x EXCEPT !.pc = "upsert", !.id["timeline"] = m]
        IN  /\ y \in CallStates /\ y.pc = "upsert" /\ y.kind = x.kind /\ y.body = x.body
            /\ y.id["finding"] = x.id["finding"]
  BY <1>0 DEF CallStates, Kinds
<1>5. /\ s \in CallStates /\ s.pc = "upsert" /\ s.kind = call[c].kind
      /\ s.body = call[c].body /\ s.id["finding"] = call[c].id["finding"]
  BY <1>1, <1>4
<1>. HIDE DEF s
<1>6. CallOK(c, s)
  BY <1>1, <1>5 DEF CallOK
<1>7. \A k \in Texts : Yet(call[c], k)
  BY <1>1 DEF Yet
<1>. QED BY <1>3, <1>5, <1>6, <1>7, CallStep DEF LinkTimeline, CallOnly

\* No row is found.
LEMMA UpsertMissingInv ==
    ASSUME IInv, NEW c \in Calls, UpsertMissing(c)
    PROVE  IInv'
<1>1. call[c] \in CallStates /\ CallOK(c, call[c]) /\ call[c].pc = "upsert"
  BY CallIs DEF UpsertMissing
<1>. DEFINE s == [call[c] EXCEPT !.pc = "insert"]
<1>2. call' = [call EXCEPT ![c] = s]
  BY DEF UpsertMissing
<1>3. \A x \in CallStates :
        LET y == [x EXCEPT !.pc = "insert"]
        IN  y \in CallStates /\ y.pc = "insert" /\ y.kind = x.kind /\ y.body = x.body /\ y.id = x.id
  BY DEF CallStates
<1>4. /\ s \in CallStates /\ s.pc = "insert" /\ s.kind = call[c].kind
      /\ s.body = call[c].body /\ s.id = call[c].id
  BY <1>1, <1>3
<1>. HIDE DEF s
<1>5. CallOK(c, s)
  BY <1>1, <1>4 DEF CallOK
<1>6. \A k \in Texts : Yet(s, k) => Yet(call[c], k)
  BY <1>1, <1>4 DEF Yet
<1>. QED BY <1>2, <1>4, <1>5, <1>6, CallStep DEF UpsertMissing, CallOnly

\* A reviewed row, or a store that fails: the call goes on without the write.
LEMMA UnwrittenInv ==
    ASSUME IInv, NEW c \in Calls, UpsertRefused(c) \/ StoreFails(c)
    PROVE  IInv'
<1>1. call[c] \in CallStates /\ CallOK(c, call[c]) /\ call[c].pc \in {"upsert", "insert"}
  BY CallIs DEF UpsertRefused, StoreFails
<1>2. PICK s \in {Done, Proceed(call[c])} : call' = [call EXCEPT ![c] = s]
  BY DEF UpsertRefused, StoreFails
<1>3. Done \in CallStates /\ CallOK(c, Done) /\ \A k \in Texts : ~Yet(Done, k)
  BY IdleIs DEF CallOK, Yet
<1>4. s \in CallStates /\ CallOK(c, s) /\ \A k \in Texts : Yet(s, k) => Yet(call[c], k)
  BY <1>1, <1>2, <1>3, ProceedIs
<1>. QED BY <1>2, <1>4, CallStep DEF UpsertRefused, StoreFails, CallOnly

\* The IOCs are looked up.
LEMMA LoadIocsInv ==
    ASSUME IInv, NEW c \in Calls, LoadIocs(c)
    PROVE  IInv'
<1>1. call[c] \in CallStates /\ call[c].pc = "iocs"
  BY CallIs DEF LoadIocs
<1>. DEFINE v == call[c].value
            known == {n \in Present("ioc") : row["ioc"][n].body.value = v}
            B(n) == IF known = {} THEN [srcs |-> {c}, value |-> v, edit |-> 0]
                    ELSE [row["ioc"][n].body EXCEPT !.srcs = @ \cup {c}]
<1>2. PICK n \in IF known = {} THEN {_next_seq("ioc")} ELSE known :
          call' = [call EXCEPT ![c].pc = "upsert", ![c].kind = "ioc", ![c].id["ioc"] = n,
                               ![c].body = B(n)]
  BY DEF LoadIocs
<1>3. n \in Ids
  BY <1>2 DEF LoadIocs, Present
<1>4. B(n) \in Bodies
  <2>1. CASE known = {}
    <3>1. v \in Values \cup {NoValue}
      BY <1>1, StateIs
    <3>. QED BY <2>1, <3>1, InvestigationAssumption DEF Bodies
  <2>2. CASE known # {}
    <3>1. row["ioc"][n] # NoRow
      BY <1>2, <2>2 DEF Present
    <3>2. row["ioc"][n] \in Rows
      BY <1>3, <3>1, RowAt DEF IInv, Kinds
    <3>3. row["ioc"][n].body \in Bodies
      BY <3>2, RowIs
    <3>4. \A b \in Bodies : [b EXCEPT !.srcs = @ \cup {c}] \in Bodies
      BY DEF Bodies
    <3>. QED BY <2>2, <3>3, <3>4
  <2>. QED BY <2>1, <2>2
<1>. HIDE DEF B
<1>. DEFINE s == [call[c] EXCEPT !.pc = "upsert", !.kind = "ioc", !.id["ioc"] = n, !.body = B(n)]
<1>5. call' = [call EXCEPT ![c] = s]
  BY <1>2
<1>6. \A x \in CallStates, b \in Bodies :
        LET y == [x EXCEPT !.pc = "upsert", !.kind = "ioc", !.id["ioc"] = n, !.body = b]
        IN  y \in CallStates /\ y.pc = "upsert" /\ y.kind = "ioc" /\ y.id["ioc"] = n
  <2>1. n \in 0 .. MaxItems
    BY <1>3, InvestigationAssumption DEF Ids
  <2>. QED BY <2>1 DEF CallStates, Kinds
<1>7. s \in CallStates /\ s.pc = "upsert" /\ s.kind = "ioc" /\ s.id["ioc"] = n
  BY <1>1, <1>4, <1>6
<1>. HIDE DEF s
<1>8. CallOK(c, s) /\ \A k \in Texts : ~Yet(s, k)
  BY <1>3, <1>7 DEF CallOK, Yet, Texts
<1>. QED BY <1>5, <1>7, <1>8, CallStep DEF LoadIocs, CallOnly

\* Every step of an agent's call.
LEMMA AgentInv ==
    ASSUME IInv, NEW c \in Calls, AgentNext(c)
    PROVE  IInv'
<1>1. ASSUME UpsertUpdate(c) \/ Insert(c) PROVE IInv'
  BY <1>1, WriteStep DEF UpsertUpdate, Insert, CallOnly
<1>2. ASSUME NEW q \in Requests, RecordFinding(c, q[1], q[2]) PROVE IInv'
  <2>1. q[1] \in BOOLEAN /\ q[2] \in Values \cup {NoValue}
    BY InvestigationAssumption
  <2>. QED BY <1>2, <2>1, RecordFindingInv
<1>. QED BY <1>1, <1>2, RecordTimelineInv, LinkTimelineInv, UpsertMissingInv,
            UnwrittenInv, LoadIocsInv DEF AgentNext


-----------------------------------------------------------------------------
(* The portal's steps.                                                     *)

PortalStates ==
    [pc: {"idle", "reauth", "applied", "cleared"}, reauth: BOOLEAN,
     batch: SUBSET (Kinds \X Ids)]

\* The handler's states.
LEMMA PortalIs ==
    /\ PortalIdle \in PortalStates /\ PortalIdle.pc = "idle"
    /\ \A x \in PortalStates, pc \in {"idle", "reauth", "applied", "cleared"} :
           [x EXCEPT !.pc = pc] \in PortalStates
  BY DEF PortalIdle, PortalStates

\* A step of the portal that leaves the items and the calls alone.
LEMMA PortalStep ==
    ASSUME IInv, UNCHANGED <<row, shown, call, ledger>>,
           delta' \subseteq Entries, portal' \in PortalStates, gen' \in {"idle", "reauth"},
           report' \subseteq Items,
           \A e \in delta' : EntryOK(e, row[e.kind][e.id], Pending(e.kind)),
           OneDecision', ReportWasSeen'
    PROVE  IInv'
<1>1. TypeOK'
  BY DEF IInv, TypeOK, PortalStates
<1>2. \A k : Pending(k)' = Pending(k)
  BY DEF Pending
<1>3. CallsOK'
  BY DEF IInv, CallsOK
<1>4. RowsOK'
  <2>1. ASSUME NEW k \in Texts, NEW n \in Ids PROVE RowOK(row'[k][n], Pending(k)')
    BY <1>2 DEF IInv, RowsOK
  <2>. QED BY <2>1 DEF RowsOK
<1>6. ScreensOK'
  BY <1>2 DEF IInv, ScreensOK
<1>5. EntriesOK'
  <2>1. ASSUME NEW e \in delta' PROVE EntryOK(e, row'[e.kind][e.id], Pending(e.kind)')
    BY <1>2
  <2>. QED BY <2>1 DEF EntriesOK
<1>. QED BY <1>1, <1>3, <1>4, <1>5, <1>6 DEF IInv

\* The parts of the invariant the portal's steps start from.
LEMMA PortalFacts ==
    ASSUME IInv
    PROVE  /\ delta \subseteq Entries /\ portal \in PortalStates /\ gen \in {"idle", "reauth"}
           /\ report \subseteq Items /\ OneDecision /\ ReportWasSeen
           /\ \A e \in delta : EntryOK(e, row[e.kind][e.id], Pending(e.kind))
  BY DEF IInv, TypeOK, PortalStates, EntriesOK

\* A browser polls.
LEMMA PollInv ==
    ASSUME IInv, NEW k \in Reviewable, NEW n \in Ids, Poll(k, n)
    PROVE  IInv'
<1>. DEFINE s == [body |-> row[k][n].body, hash |-> row[k][n].hash]
<1>1. PICK kept \in SUBSET shown[k][n] : shown' = [shown EXCEPT ![k][n] = kept \cup {s}]
  BY DEF Poll
<1>2. UNCHANGED <<row, call, delta, portal, ledger, gen, report>> /\ row[k][n] # NoRow
  BY DEF Poll
<1>3. k \in Kinds /\ row[k][n] \in Rows
  BY <1>2, InvestigationAssumption, RowAt DEF IInv
<1>4. s \in Copies /\ s.body = row[k][n].body /\ s.hash = row[k][n].hash
  BY <1>3, RowIs DEF Copies
<1>. HIDE DEF s
<1>5. shown \in [Kinds -> [Ids -> SUBSET Copies]]
  BY DEF IInv, TypeOK
<1>6. shown' \in [Kinds -> [Ids -> SUBSET Copies]]
  BY <1>1, <1>3, <1>4, <1>5
<1>7. TypeOK'
  BY <1>2, <1>6 DEF IInv, TypeOK
<1>8. \A j : Pending(j)' = Pending(j)
  BY <1>2 DEF Pending
<1>9. CallsOK' /\ OneDecision' /\ ReportWasSeen'
  BY <1>2 DEF IInv, CallsOK, OneDecision, ReportWasSeen
<1>10. RowsOK'
  BY <1>2, <1>8 DEF IInv, RowsOK
<1>11. EntriesOK'
  BY <1>2, <1>8 DEF IInv, EntriesOK
<1>12. ScreensOK'
  <2>1. ASSUME NEW j \in Texts, NEW m \in Ids, NEW x \in shown'[j][m]
        PROVE  VersionOK(x.body, x.hash, row[j][m], Pending(j))
    <3>1. j \in Kinds
      BY DEF Texts, Kinds
    <3>2. x \in shown[j][m] \/ (j = k /\ m = n /\ x = s)
      BY <1>1, <1>5, <3>1
    <3>3. CASE x \in shown[j][m]
      BY <3>3 DEF IInv, ScreensOK
    <3>4. CASE j = k /\ m = n /\ x = s
      BY <1>2, <1>4, <3>4 DEF IInv, RowsOK, RowOK
    <3>. QED BY <3>2, <3>3, <3>4
  <2>. QED BY <1>2, <1>8, <2>1 DEF ScreensOK
<1>. QED BY <1>7, <1>9, <1>10, <1>11, <1>12 DEF IInv

\* A decision that is sound by itself is posted.
LEMMA PostInv ==
    ASSUME IInv, NEW item \in Entries, PostDelta(item),
           EntryOK(item, row[item.kind][item.id], Pending(item.kind))
    PROVE  IInv'
<1>1. PICK kept \in SUBSET (delta \ On(item.kind, item.id)) : delta' = kept \cup {item}
  BY DEF PostDelta
<1>2. UNCHANGED <<row, shown, call, portal, ledger, gen, report>>
  BY DEF PostDelta
<1>3. \A e \in kept : e \in delta /\ ~(e.kind = item.kind /\ e.id = item.id)
  BY DEF On
<1>4. delta' \subseteq Entries
  BY <1>1, <1>3, PortalFacts
<1>5. \A e \in delta' : EntryOK(e, row[e.kind][e.id], Pending(e.kind))
  BY <1>1, <1>3, PortalFacts
<1>6. OneDecision'
  BY <1>1, <1>3, PortalFacts DEF OneDecision
<1>7. ReportWasSeen'
  BY <1>2, PortalFacts DEF ReportWasSeen
<1>. QED BY <1>2, <1>4, <1>5, <1>6, <1>7, PortalFacts, PortalStep

\* A decision on a copy that is shown.
LEMMA DecisionOK ==
    ASSUME IInv, NEW k \in Reviewable, NEW n \in Ids, NEW named \in BOOLEAN,
           NEW action \in {"approve", "reject", "edit"}, NEW s \in shown[k][n]
    PROVE  LET d == Decision(k, n, action, s, named)
           IN  /\ s.body \in Bodies
               /\ d \in Entries /\ d.kind = k /\ d.id = n
               /\ EntryOK(d, row[k][n], Pending(k))
<1>. DEFINE h == IF named THEN s.hash ELSE NoHash
            v == IF named THEN s.body ELSE NoBody
            d == Decision(k, n, action, s, named)
<1>1. k \in Kinds /\ s \in Copies
  BY InvestigationAssumption DEF IInv, TypeOK
<1>2. s.body \in Bodies /\ s.hash \in Hashes
  BY <1>1 DEF Copies
<1>3. h \in Hashes \cup {NoHash} /\ v \in Bodies
  BY <1>2, IdleIs
<1>4. h # NoHash => h = s.hash /\ v = s.body
  OBVIOUS
<1>5. d = [kind |-> k, id |-> n, action |-> action, hash |-> h, view |-> v,
           mods |-> FALSE, orig |-> NoBody]
  BY DEF Decision
<1>. HIDE DEF h, v, d
<1>6. d \in Entries /\ d.kind = k /\ d.id = n /\ d.hash = h /\ d.view = v /\ ~d.mods
  BY <1>1, <1>3, <1>5, IdleIs DEF Entries
<1>7. k \in Texts => VersionOK(s.body, s.hash, row[k][n], Pending(k))
  BY DEF IInv, ScreensOK
<1>8. EntryOK(d, row[k][n], Pending(k))
  BY <1>4, <1>6, <1>7 DEF EntryOK
<1>. QED BY <1>2, <1>6, <1>8 DEF d

\* A decision is staged.
LEMMA StageDecisionInv ==
    ASSUME IInv, NEW k \in Reviewable, NEW n \in Ids, NEW action \in {"approve", "reject"},
           NEW named \in BOOLEAN, NEW s \in shown[k][n],
           StageDecision(k, n, action, s, named)
    PROVE  IInv'
  BY DecisionOK, PostInv DEF StageDecision

\* An edit is staged, alone or with the decision already there.
LEMMA StageEditInv ==
    ASSUME IInv, NEW k \in Reviewable, NEW n \in Ids, NEW named \in BOOLEAN,
           NEW s \in shown[k][n], StageEdit(k, n, s, named)
    PROVE  IInv'
<1>1. PICK e \in IF On(k, n) = {} THEN {Decision(k, n, "edit", s, named)} ELSE On(k, n) :
          PostDelta([e EXCEPT !.mods = TRUE, !.orig = s.body])
  BY DEF StageEdit
<1>2. s.body \in Bodies /\ s.body.edit < MaxEdits
  BY DecisionOK DEF StageEdit
<1>3. e \in Entries /\ e.kind = k /\ e.id = n /\ EntryOK(e, row[k][n], Pending(k))
  <2>1. CASE On(k, n) = {}
    BY <1>1, <2>1, DecisionOK
  <2>2. CASE On(k, n) # {}
    BY <1>1, <2>2, PortalFacts DEF On
  <2>. QED BY <2>1, <2>2
<1>. DEFINE With(d) == [d EXCEPT !.mods = TRUE, !.orig = s.body]
<1>4. \A d \in Entries :
        /\ With(d) \in Entries /\ With(d).kind = d.kind /\ With(d).id = d.id
        /\ With(d).hash = d.hash /\ With(d).view = d.view /\ With(d).orig = s.body
  BY <1>2 DEF Entries
<1>5. PostDelta(With(e))
  BY <1>1
<1>. HIDE DEF With
<1>6. EntryOK(With(e), row[k][n], Pending(k))
  BY <1>2, <1>3, <1>4 DEF EntryOK
<1>. QED BY <1>3, <1>4, <1>5, <1>6, PostInv

\* Steps that shrink the delta, or move only the handlers.
LEMMA HandlersInv ==
    ASSUME IInv, UNCHANGED <<row, shown, call, ledger, report>>, delta' \subseteq delta,
           portal' \in PortalStates, gen' \in {"idle", "reauth"}
    PROVE  IInv'
<1>1. delta' \subseteq Entries /\ report' \subseteq Items
      /\ \A e \in delta' : EntryOK(e, row[e.kind][e.id], Pending(e.kind))
  BY PortalFacts
<1>2. OneDecision' /\ ReportWasSeen'
  BY PortalFacts DEF OneDecision, ReportWasSeen
<1>. QED BY <1>1, <1>2, PortalStep

\* The ledger's events: none.
LEMMA AttestInv ==
    ASSUME IInv, AttestApproved
    PROVE  IInv'
<1>1. \A x : ~LedgerTakes(x)
  BY DEF LedgerTakes, HashShape, LedgerShape
<1>2. ledger' = ledger
  BY <1>1 DEF AttestApproved
<1>. QED BY <1>2, HandlersInv, PortalIs, PortalFacts DEF AttestApproved

\* A report is made of what is approved.
LEMMA ReportGenerateInv ==
    ASSUME IInv, ReportGenerate
    PROVE  IInv'
<1>1. ASSUME NEW k \in Texts, NEW n \in Approved(k)
      PROVE  ItemOf(k, n) \in Items /\ ItemOf(k, n).verified /\ ItemOf(k, n).sighted
  <2>1. n \in Ids /\ row[k][n] # NoRow /\ row[k][n].status = "APPROVED" /\ k \in Kinds
    BY DEF Approved, Present, Texts, Kinds
  <2>2. Verified(row[k][n]) /\ Sighted(row[k][n])
    BY <2>1 DEF IInv, RowsOK, RowOK
  <2>3. row[k][n] \in Rows
    BY <2>1, RowAt DEF IInv
  <2>4. Verified(row[k][n]) \in BOOLEAN /\ Sighted(row[k][n]) \in BOOLEAN
    BY <2>3, RowIs DEF Verified, Sighted
  <2>. QED BY <2>1, <2>2, <2>4 DEF ItemOf, Items
<1>2. \A it \in report' : \E k \in Texts : \E n \in Approved(k) : it = ItemOf(k, n)
  BY DEF ReportGenerate, Texts
<1>3. report' \subseteq Items /\ ReportWasSeen'
  BY <1>1, <1>2 DEF ReportWasSeen
<1>4. UNCHANGED <<row, shown, call, delta, portal, ledger>> /\ gen' = "idle"
  BY DEF ReportGenerate
<1>5. OneDecision'
  BY <1>4, PortalFacts DEF OneDecision
<1>. QED BY <1>3, <1>4, <1>5, PortalFacts, PortalStep


\* What a review makes of a row.
LEMMA ReviewedIs ==
    ASSUME NEW r \in Rows, NEW e \in Entries, e.mods => r.body.edit < MaxEdits
    PROVE  LET q == Reviewed(r, e)
               b == Edited(e, r.body)
           IN  /\ q \in Rows /\ q.body = b
               /\ q.unchecked \/ /\ e.hash # NoHash /\ Verified(r)
                                 /\ q.seen = Edited(e, e.view)
               /\ e.action = "reject" => q.status = "REJECTED" /\ q.hash = r.hash
               /\ e.action # "reject" => q.hash = ContentHash(b)
<1>. DEFINE b == Edited(e, r.body)
            c == e.hash # NoHash /\ r.hash = ContentHash(r.body)
            st == CASE e.action = "approve" -> "APPROVED"
                    [] e.action = "reject" -> "REJECTED"
                    [] OTHER -> r.status
            h == IF e.action = "reject" THEN r.hash ELSE ContentHash(b)
            v == IF c THEN Edited(e, e.view) ELSE NoBody
            u == ~c
<1>1. /\ r.body \in Bodies /\ r.hash \in Hashes
      /\ r.status \in {"DRAFT", "APPROVED", "REJECTED"}
  BY RowIs
<1>2. /\ e.view \in Bodies /\ e.mods \in BOOLEAN /\ e.action \in {"approve", "reject", "edit"}
  BY EntryIs
<1>3. b \in Bodies
  BY <1>1, <1>2, EditedIs
<1>4. v \in Seen
  <2>1. Edited(e, e.view) \in Seen /\ NoBody \in Seen
    BY <1>2, EditedIs, IdleIs, Hashed
  <2>. QED BY <2>1
<1>5. h \in Hashes
  <2>. HIDE DEF b
  <2>. QED BY <1>1, <1>3, Hashed
<1>6. /\ st \in {"DRAFT", "APPROVED", "REJECTED"}
      /\ e.action = "reject" => st = "REJECTED"
  BY <1>1, <1>2
<1>7. u \in BOOLEAN /\ (u \/ (e.hash # NoHash /\ Verified(r) /\ v = Edited(e, e.view)))
  BY DEF Verified
<1>8. Reviewed(r, e) = [status |-> st, body |-> b, hash |-> h, seen |-> v, unchecked |-> u]
  BY DEF Reviewed
<1>9. (e.action = "reject" => h = r.hash) /\ (e.action # "reject" => h = ContentHash(b))
  OBVIOUS
<1>. HIDE DEF b, c, st, h, v, u
<1>10. /\ Reviewed(r, e) \in Rows /\ Reviewed(r, e).body = b /\ Reviewed(r, e).seen = v
       /\ Reviewed(r, e).status = st /\ Reviewed(r, e).hash = h
       /\ Reviewed(r, e).unchecked = u
  BY <1>3, <1>4, <1>5, <1>6, <1>7, <1>8 DEF Rows
<1>. QED BY <1>6, <1>7, <1>9, <1>10 DEF b

\* What an accepted edit was made on has room for it.
LEMMA RoomToEdit ==
    ASSUME NEW e \in Entries, row[e.kind][e.id] \in Rows, Accepted(e), e.mods,
           e.orig.edit < MaxEdits
    PROVE  row[e.kind][e.id].body.edit < MaxEdits
<1>1. e.orig \in Bodies /\ row[e.kind][e.id].body \in Bodies
  BY EntryIs, RowIs
<1>2. AgentHash(e.kind, e.orig) = AgentHash(e.kind, row[e.kind][e.id].body)
  BY DEF Accepted, Field
<1>3. \A b \in Bodies : AgentHash(e.kind, b).edit = b.edit
  BY Hashed DEF AgentHash
<1>4. e.orig.edit = row[e.kind][e.id].body.edit
  BY <1>1, <1>2, <1>3
<1>. QED BY <1>4

\* A version with the row's hash, where that is of the row's content, is what
\* the row holds.
LEMMA SameVersion ==
    ASSUME NEW P, NEW r \in Rows, NEW b \in Bodies, NEW h \in Hashes,
           VersionOK(b, h, r, P), h = r.hash, Verified(r)
    PROVE  b = r.body
<1>1. r # NoRow /\ r.body \in Bodies /\ h = ContentHash(r.body)
  BY RowIs DEF Verified
<1>2. h.srcs = r.body.srcs /\ h.value = r.body.value /\ h.edit = r.body.edit
  BY <1>1, Hashed
<1>3. b.srcs = r.body.srcs /\ b.value = r.body.value
  BY <1>2 DEF VersionOK
<1>4. h.edit <= b.edit /\ b.edit <= r.body.edit
  BY <1>1, <1>3 DEF VersionOK
<1>5. b.edit = r.body.edit
  BY <1>1, <1>2, <1>4, Hashed
<1>6. \A x, y \in Bodies : x.srcs = y.srcs /\ x.value = y.value /\ x.edit = y.edit => x = y
  BY DEF Bodies
<1>. QED BY <1>1, <1>3, <1>5, <1>6

\* A review keeps what is known of its row, and of the versions of the item.
LEMMA ReviewKeeps ==
    ASSUME NEW P, NEW r \in Rows, NEW e \in Entries, e.mods => r.body.edit < MaxEdits,
           e.hash \in {r.hash, NoHash}, e.kind \in Texts, RowOK(r, P), EntryOK(e, r, P)
    PROVE  RowOK(Reviewed(r, e), P) /\ Later(r, Reviewed(r, e), P)
<1>. DEFINE q == Reviewed(r, e)
            b == Edited(e, r.body)
<1>1. /\ q \in Rows /\ q.body = b
      /\ q.unchecked \/ (e.hash # NoHash /\ Verified(r) /\ q.seen = Edited(e, e.view))
      /\ e.action = "reject" => q.status = "REJECTED" /\ q.hash = r.hash
      /\ e.action # "reject" => q.hash = ContentHash(b)
  BY ReviewedIs
<1>2. /\ r # NoRow /\ r.body \in Bodies /\ r.hash \in Hashes /\ e.mods \in BOOLEAN
      /\ r.hash.edit \in Nat /\ r.body.edit \in Nat /\ e.view \in Bodies
      /\ e.hash \in Hashes \cup {NoHash}
  BY RowIs, EntryIs, Hashed, HashIs
<1>3. /\ r.hash.edit <= r.body.edit /\ r.hash.value = r.body.value
      /\ r.hash.srcs = r.body.srcs /\ r.body.srcs \cap P = {}
  BY <1>2 DEF RowOK, VersionOK
<1>4. /\ b \in Bodies /\ b.srcs = r.body.srcs /\ b.value = r.body.value /\ b.edit \in Nat
      /\ r.body.edit <= b.edit
  <2>1. b \in Bodies /\ b.srcs = r.body.srcs /\ b.value = r.body.value
    BY <1>2, EditedIs
  <2>2. b.edit = r.body.edit \/ b.edit = r.body.edit + 1
    BY <1>2, EditedIs
  <2>. QED BY <1>2, <2>1, <2>2
<1>5. e.hash # NoHash /\ Verified(r) => e.view = r.body
  <2>1. SUFFICES ASSUME e.hash # NoHash, Verified(r) PROVE e.view = r.body
    OBVIOUS
  <2>2. e.hash \in Hashes /\ e.hash = r.hash /\ VersionOK(e.view, e.hash, r, P)
    BY <1>2, <2>1 DEF EntryOK
  <2>. QED BY <1>2, <2>1, <2>2, SameVersion
<1>6. q.unchecked \/ q.body = q.seen
  BY <1>1, <1>5
<1>7. /\ ContentHash(b).srcs = b.srcs /\ ContentHash(b).edit = b.edit
      /\ ContentHash(b).value = b.value
  BY <1>4, Hashed
<1>. HIDE DEF q, b
<1>8. q.hash.srcs = b.srcs /\ q.hash.value = b.value /\ q.hash.edit <= b.edit
  <2>1. CASE e.action = "reject"
    <3>1. q.hash = r.hash
      BY <1>1, <2>1
    <3>2. r.hash.edit <= b.edit
      BY <1>2, <1>3, <1>4
    <3>. QED BY <1>3, <1>4, <3>1, <3>2
  <2>2. CASE e.action # "reject"
    <3>1. q.hash = ContentHash(b) /\ b.edit <= b.edit
      BY <1>1, <1>4, <2>2
    <3>. QED BY <1>7, <3>1
  <2>. QED BY <2>1, <2>2
<1>9. VersionOK(q.body, q.hash, q, P)
  <2>1. b.edit <= b.edit
    BY <1>4
  <2>. QED BY <1>1, <1>3, <1>4, <1>8, <2>1 DEF VersionOK
<1>10. q.status = "APPROVED" => Verified(q) /\ Sighted(q)
  BY <1>1, <1>6 DEF Verified, Sighted
<1>11. Later(r, q, P)
  <2>1. SUFFICES ASSUME NEW x \in Bodies, NEW h, VersionOK(x, h, r, P)
                 PROVE  VersionOK(x, h, q, P)
    BY DEF Later
  <2>2. b.srcs = x.srcs => x.edit <= r.body.edit
    BY <1>2, <1>4, <2>1 DEF VersionOK
  <2>3. b.srcs = x.srcs => x.edit <= b.edit
    BY <1>2, <1>4, <2>2, Hashed
  <2>. QED BY <1>1, <2>1, <2>3 DEF VersionOK
<1>. QED BY <1>9, <1>10, <1>11 DEF q, RowOK

\* The batch is applied.
LEMMA ApplyReviewInv ==
    ASSUME IInv, NEW recorded \in BOOLEAN, ApplyReview(recorded)
    PROVE  IInv'
<1>. DEFINE batch == {e \in delta : Accepted(e)}
            of(k, n) == {e \in batch : e.kind = k /\ e.id = n}
            Pick(k, n) == CHOOSE e \in of(k, n) : TRUE
<1>1. /\ row' = [k \in Kinds |-> [n \in Ids |->
                    IF of(k, n) = {} THEN row[k][n] ELSE Reviewed(row[k][n], Pick(k, n))]]
      /\ portal' = [pc |-> "applied", reauth |-> recorded,
                    batch |-> {<<e.kind, e.id>> :
                                  e \in {x \in batch : x.action = "approve"}}]
      /\ UNCHANGED <<shown, call, delta, ledger, gen, report>>
  BY DEF ApplyReview
<1>2. \A k, n : of(k, n) # {} => Pick(k, n) \in of(k, n)
  OBVIOUS
<1>4. \A e \in batch : /\ e \in Entries /\ e \in delta /\ Accepted(e)
                       /\ row[e.kind][e.id] \in Rows
                       /\ e.hash \in {row[e.kind][e.id].hash, NoHash}
                       /\ e.mods => row[e.kind][e.id].body.edit < MaxEdits
  <2>1. SUFFICES ASSUME NEW e \in batch
                 PROVE  /\ e \in Entries /\ e \in delta /\ Accepted(e)
                        /\ row[e.kind][e.id] \in Rows
                        /\ e.hash \in {row[e.kind][e.id].hash, NoHash}
                        /\ e.mods => row[e.kind][e.id].body.edit < MaxEdits
    OBVIOUS
  <2>2. e \in Entries /\ e \in delta /\ Accepted(e)
    BY PortalFacts
  <2>3. row[e.kind][e.id] \in Rows /\ e.hash \in {row[e.kind][e.id].hash, NoHash}
    BY <2>2, EntryIs, RowAt DEF IInv, Accepted
  <2>4. EntryOK(e, row[e.kind][e.id], Pending(e.kind))
    BY <2>2, PortalFacts
  <2>5. e.mods => row[e.kind][e.id].body.edit < MaxEdits
    BY <2>2, <2>3, <2>4, RoomToEdit DEF EntryOK
  <2>. QED BY <2>2, <2>3, <2>5
<1>5. \A k \in Kinds, n \in Ids :
        row'[k][n] = IF of(k, n) = {} THEN row[k][n] ELSE Reviewed(row[k][n], Pick(k, n))
  BY <1>1
<1>6. ASSUME NEW k \in Kinds, NEW n \in Ids
      PROVE  \/ of(k, n) = {} /\ row'[k][n] = row[k][n]
             \/ \E e \in batch : /\ e.kind = k /\ e.id = n
                                 /\ row'[k][n] = Reviewed(row[k][n], e)
  BY <1>2, <1>5
<1>9. portal' \in PortalStates
  <2>1. {<<e.kind, e.id>> : e \in {x \in batch : x.action = "approve"}}
            \in SUBSET (Kinds \X Ids)
    BY <1>4, EntryIs
  <2>. HIDE DEF batch
  <2>. QED BY <1>1, <2>1 DEF PortalStates
<1>. HIDE DEF batch, of, Pick
<1>10. TypeOK'
  <2>1. \A k \in Kinds, n \in Ids : row'[k][n] \in Rows \cup {NoRow}
    <3>1. ASSUME NEW k \in Kinds, NEW n \in Ids PROVE row'[k][n] \in Rows \cup {NoRow}
      <4>1. CASE row'[k][n] = row[k][n]
        BY <4>1, RowAt DEF IInv
      <4>2. ASSUME NEW e \in batch, e.kind = k, e.id = n, row'[k][n] = Reviewed(row[k][n], e)
            PROVE  row'[k][n] \in Rows
        BY <1>4, <4>2, ReviewedIs
      <4>. QED BY <1>6, <4>1, <4>2
    <3>. QED BY <3>1
  <2>2. row' \in [Kinds -> [Ids -> Rows \cup {NoRow}]]
    <3>1. row' = [k \in Kinds |-> [n \in Ids |-> row'[k][n]]]
      BY <1>1
    <3>. QED BY <2>1, <3>1
  <2>. QED BY <1>1, <1>9, <2>2 DEF IInv, TypeOK, PortalStates
<1>11. CallsOK' /\ OneDecision' /\ ReportWasSeen'
  BY <1>1 DEF IInv, CallsOK, OneDecision, ReportWasSeen
<1>12. \A k : Pending(k)' = Pending(k)
  BY <1>1 DEF Pending
<1>13. ASSUME NEW k \in Texts, NEW n \in Ids
       PROVE  /\ RowOK(row'[k][n], Pending(k))
              /\ Later(row[k][n], row'[k][n], Pending(k))
  <2>1. RowOK(row[k][n], Pending(k))
    BY DEF IInv, RowsOK
  <2>2. CASE row'[k][n] = row[k][n]
    BY <2>1, <2>2 DEF Later
  <2>3. ASSUME NEW e \in batch, e.kind = k, e.id = n, row'[k][n] = Reviewed(row[k][n], e)
        PROVE  /\ RowOK(row'[k][n], Pending(k))
               /\ Later(row[k][n], row'[k][n], Pending(k))
    <3>1. /\ row[k][n] \in Rows /\ e \in Entries /\ e.hash \in {row[k][n].hash, NoHash}
          /\ e.mods => row[k][n].body.edit < MaxEdits
      BY <1>4, <2>3
    <3>2. EntryOK(e, row[k][n], Pending(k))
      BY <1>4, <2>3, PortalFacts
    <3>. QED BY <2>1, <2>3, <3>1, <3>2, ReviewKeeps
  <2>4. k \in Kinds
    BY DEF Texts, Kinds
  <2>. QED BY <1>6, <2>2, <2>3, <2>4
<1>14. RowsOK'
  BY <1>12, <1>13 DEF RowsOK
<1>15. ScreensOK' /\ EntriesOK'
  BY <1>1, <1>12, <1>13, VersionsStay DEF IInv
<1>. QED BY <1>10, <1>11, <1>14, <1>15 DEF IInv


\* Every step of the portal.
LEMMA PortalInv ==
    ASSUME IInv, PortalNext
    PROVE  IInv'
<1>0. ASSUME NEW k \in Reviewable, NEW n \in Ids, Poll(k, n) PROVE IInv'
  BY <1>0, PollInv
<1>1. ASSUME NEW k \in Reviewable, NEW n \in Ids, NEW action \in {"approve", "reject"},
             NEW named \in BOOLEAN, NEW s \in shown[k][n],
             StageDecision(k, n, action, s, named)
      PROVE  IInv'
  BY <1>1, StageDecisionInv
<1>2. ASSUME NEW k \in Reviewable, NEW n \in Ids, NEW named \in BOOLEAN,
             NEW s \in shown[k][n], StageEdit(k, n, s, named)
      PROVE  IInv'
  BY <1>2, StageEditInv
<1>3. ASSUME NEW e \in delta, UnstageDecision(e) PROVE IInv'
  BY <1>3, HandlersInv, PortalFacts DEF UnstageDecision
<1>4. CASE CommitStart \/ CommitDenied
  <2>1. portal' \in PortalStates
    BY <1>4, PortalIs, PortalFacts DEF CommitStart, CommitDenied
  <2>. QED BY <1>4, <2>1, HandlersInv, PortalFacts DEF CommitStart, CommitDenied
<1>5. ASSUME NEW recorded \in BOOLEAN, ApplyReview(recorded) PROVE IInv'
  BY <1>5, ApplyReviewInv
<1>6. CASE ClearDelta
  <2>1. portal' \in PortalStates
    BY <1>6, PortalIs, PortalFacts DEF ClearDelta
  <2>. QED BY <1>6, <2>1, HandlersInv, PortalFacts DEF ClearDelta
<1>7. CASE AttestApproved
  BY <1>7, AttestInv
<1>8. CASE ReportStart \/ ReportDenied
  BY <1>8, HandlersInv, PortalFacts DEF ReportStart, ReportDenied
<1>9. CASE ReportGenerate
  BY <1>9, ReportGenerateInv
<1>. QED BY <1>0, <1>1, <1>2, <1>3, <1>4, <1>5, <1>6, <1>7, <1>8, <1>9 DEF PortalNext

\* The gateway dies.
LEMMA CrashInv ==
    ASSUME IInv, Crash
    PROVE  IInv'
<1>1. /\ call' = [c \in Calls |-> IF call[c].pc = "idle" THEN call[c] ELSE Done]
      /\ portal' = PortalIdle /\ gen' = "idle" /\ report' = {}
      /\ UNCHANGED <<row, shown, delta, ledger>>
  BY DEF Crash
<1>2. call' \in [Calls -> CallStates]
  BY <1>1, CallIs, IdleIs
<1>3. TypeOK'
  BY <1>1, <1>2, PortalIs DEF IInv, TypeOK, PortalStates
<1>4. \A c \in Calls : \/ call'[c] = call[c]
                       \/ CallOK(c, call'[c]) /\ \A k \in Texts : ~Yet(call'[c], k)
  BY <1>1, IdleIs DEF CallOK, Yet
<1>5. CallsOK'
  BY <1>4 DEF IInv, CallsOK
<1>6. \A k \in Texts : Pending(k)' \subseteq Pending(k)
  BY <1>4 DEF Pending
<1>7. RowsOK'
  <2>1. ASSUME NEW k \in Texts, NEW n \in Ids PROVE RowOK(row'[k][n], Pending(k)')
    <3>1. RowOK(row[k][n], Pending(k))
      BY DEF IInv, RowsOK
    <3>. QED BY <1>1, <1>6, <3>1, FewerPending
  <2>. QED BY <2>1 DEF RowsOK
<1>8. ScreensOK' /\ EntriesOK'
  BY <1>1, <1>6, VersionsStay DEF IInv, Later
<1>9. OneDecision' /\ ReportWasSeen'
  BY <1>1, PortalFacts DEF OneDecision, ReportWasSeen
<1>. QED BY <1>3, <1>5, <1>7, <1>8, <1>9 DEF IInv

\* Every step.
LEMMA NextIInv == IInv /\ [Next]_vars => IInv'
<1>. SUFFICES ASSUME IInv, [Next]_vars PROVE IInv'
  OBVIOUS
<1>1. CASE UNCHANGED vars
  BY <1>1, HandlersInv, PortalFacts DEF vars
<1>. QED BY <1>1, AgentInv, PortalInv, CrashInv DEF Next

-----------------------------------------------------------------------------
(* The theorems.                                                           *)

\* What calls, rows and staged decisions are known to hold, through agents'
\* late writes, reviews and crashes.
THEOREM Invariance == Spec => []IInv
<1>1. Init => IInv
  <2>. SUFFICES ASSUME Init PROVE IInv
    OBVIOUS
  <2>1. TypeOK
    BY IdleIs, PortalIs DEF Init, TypeOK, PortalStates
  <2>2. CallsOK
    BY IdleIs DEF Init, CallsOK, CallOK
  <2>3. RowsOK
    <3>1. \A k \in Texts, n \in Ids : row[k][n] = NoRow
      BY DEF Init, Texts, Kinds
    <3>. QED BY <3>1 DEF RowsOK, RowOK
  <2>4. ScreensOK /\ EntriesOK /\ OneDecision /\ ReportWasSeen
    BY DEF Init, ScreensOK, EntriesOK, OneDecision, ReportWasSeen, Texts, Kinds
  <2>. QED BY <2>1, <2>2, <2>3, <2>4 DEF IInv
<1>. QED BY <1>1, NextIInv, PTL DEF Spec

\* The type invariant: no edit passes the bound, because an accepted edit was
\* made on the row's own content (apply_review's comparison of the original).
THEOREM TypeCorrect == Spec => []TypeOK
<1>1. IInv => TypeOK
  BY DEF IInv
<1>. QED BY <1>1, Invariance, PTL

\* The hash of an approved finding or event is of its content, and that is what
\* the examiner was shown, with the examiner's edits, however old the browser's
\* copy was, unless the decision named no hash or a rejection had edited the
\* content and kept the hash (apply_review).
THEOREM ApprovalsWereSeen == Spec => []ApprovedWasSeen
<1>1. IInv => ApprovedWasSeen
  BY DEF IInv, RowsOK, RowOK, Texts, ApprovedWasSeen
<1>. QED BY <1>1, Invariance, PTL

\* What a report shows verifies, and was seen where the server had a hash of the
\* content to compare (report_inputs).
THEOREM ReportsWereSeen == Spec => []ReportWasSeen
<1>1. IInv => ReportWasSeen
  BY DEF IInv
<1>. QED BY <1>1, Invariance, PTL

\* What OnlyBlindInsertsOverwrite asks of a step.
LocksHold ==
    \A k \in Kinds, n \in Ids :
        /\ row[k][n] # NoRow
        /\ row[k][n].status \in {"APPROVED", "REJECTED"}
        /\ portal' = portal
        /\ row'[k][n] # row[k][n]
        => \E c \in Calls : /\ call[c].pc = "insert"
                            /\ call[c].kind = k
                            /\ call[c].id[k] = n
                            /\ call'[c] # call[c]

\* An agent's write changes its target alone.
LEMMA OnlyTarget ==
    ASSUME IInv, NEW c \in Calls, call[c].pc \in {"upsert", "insert"}, WriteTarget(c),
           NEW k \in Kinds, NEW n \in Ids, row'[k][n] # row[k][n]
    PROVE  call[c].kind = k /\ call[c].id[k] = n
<1>1. call[c].kind \in Kinds /\ call[c].id[call[c].kind] \in Ids
  BY CallIs, StateIs DEF CallOK
<1>2. row \in [Kinds -> [Ids -> Rows \cup {NoRow}]]
  BY DEF IInv, TypeOK
<1>. QED BY <1>1, <1>2 DEF WriteTarget

\* Every step.
LEMMA StepLocksHold == IInv /\ [Next]_vars => LocksHold
<1>. SUFFICES ASSUME IInv, [Next]_vars, NEW k \in Kinds, NEW n \in Ids,
                     row[k][n] # NoRow, row[k][n].status \in {"APPROVED", "REJECTED"},
                     portal' = portal, row'[k][n] # row[k][n]
              PROVE  \E c \in Calls : /\ call[c].pc = "insert"
                                      /\ call[c].kind = k
                                      /\ call[c].id[k] = n
                                      /\ call'[c] # call[c]
  BY DEF LocksHold
<1>1. ASSUME NEW c \in Calls, Insert(c)
      PROVE  /\ call[c].pc = "insert" /\ call[c].kind = k /\ call[c].id[k] = n
             /\ call'[c] # call[c]
  <2>1. /\ call[c].pc = "insert" /\ WriteTarget(c)
        /\ call' = [call EXCEPT ![c] = Proceed(@)]
    BY <1>1 DEF Insert
  <2>2. call[c].kind = k /\ call[c].id[k] = n
    BY <2>1, OnlyTarget
  <2>3. call \in [Calls -> CallStates]
    BY DEF IInv, TypeOK
  <2>4. call'[c] = Proceed(call[c])
    BY <2>1, <2>3
  <2>5. Proceed(call[c]).pc \in {"upsert", "iocs", "done"}
    BY <2>1, CallIs, ProceedIs
  <2>. QED BY <2>1, <2>2, <2>4, <2>5
<1>2. ASSUME NEW c \in Calls, UpsertUpdate(c) PROVE FALSE
  <2>1. call[c].kind = k /\ call[c].id[k] = n
    BY <1>2, OnlyTarget DEF UpsertUpdate
  <2>. QED BY <1>2, <2>1 DEF UpsertUpdate, Target, is_human_locked, HUMAN_LOCKED_STATUSES
<1>3. ASSUME NEW recorded \in BOOLEAN, ApplyReview(recorded) PROVE FALSE
  <2>1. portal.pc = "reauth" /\ portal'.pc = "applied"
    BY <1>3 DEF ApplyReview
  <2>. QED BY <2>1
<1>4. ASSUME NEW c \in Calls, AgentNext(c), ~Insert(c), ~UpsertUpdate(c) PROVE row' = row
  BY <1>4 DEF AgentNext, RecordFinding, LinkTimeline, RecordTimelineEvent, UpsertRefused,
              UpsertMissing, LoadIocs, StoreFails
<1>5. ASSUME PortalNext, ~\E recorded \in BOOLEAN : ApplyReview(recorded) PROVE row' = row
  BY <1>5 DEF PortalNext, Poll, StageDecision, StageEdit, PostDelta, UnstageDecision, CommitStart,
              CommitDenied, ClearDelta, AttestApproved, ReportStart, ReportDenied,
              ReportGenerate
<1>6. ASSUME Crash \/ UNCHANGED vars PROVE row' = row
  BY <1>6 DEF Crash, vars
<1>. QED BY <1>1, <1>2, <1>3, <1>4, <1>5, <1>6 DEF Next

\* A reviewed row is changed outside of a review only by an insert whose
\* select found no row (is_human_locked, _agent_upsert).
THEOREM LocksBindAgents == Spec => OnlyBlindInsertsOverwrite
<1>1. Spec => [][LocksHold]_vars
  BY StepLocksHold, Invariance, PTL DEF Spec
<1>. QED BY <1>1 DEF OnlyBlindInsertsOverwrite, LocksHold


=============================================================================
