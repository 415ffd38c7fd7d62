---------------------------- MODULE Investigation ----------------------------
(***************************************************************************)
(* The investigation authority: agents record findings, timeline events    *)
(* and IOCs as drafts, examiners review them through the portal, and a     *)
(* report is made of what was approved.                                    *)
(*                                                                         *)
(* Agents' tool calls run in threads of the gateway                        *)
(* (sift_core/case_manager.py); the portal's handlers run on its event     *)
(* loop (case_dashboard/routes.py), so between two awaits no other         *)
(* handler runs, while the threads do.  The tables are those of            *)
(* sift_core/investigation_store.py.                                       *)
(*                                                                         *)
(* Browsers poll the items every 15 seconds (useDataPolling.js) and stage  *)
(* decisions on the copies they show, whatever the tables hold by then.    *)
(*                                                                         *)
(* One case and one examiner's slug, whose items are numbered 1, 2, ....   *)
(* The version column is left out: every review holds the row's lock from  *)
(* its read to its write, so the guard on it never fails, and the portal's *)
(* delta has no field to name the version that was seen.                   *)
(***************************************************************************)
EXTENDS Naturals, FiniteSets, FiniteSetsExt

CONSTANTS
    Calls,      \* tool calls of agents, each made once
    Values,     \* values of IOCs
    Requests,   \* findings to record: with a time or not, and which IOC
    Reviewable, \* the kinds of items on which clients stage decisions
    MaxItems,   \* bound on the items of a kind
    MaxEdits,   \* bound on the examiner's edits of an item
    MaxStaged,  \* bound on the decisions staged at a time
    MaxScreens, \* bound on the copies of an item shown at a time
    NoValue,    \* the value of an item that is no IOC
    NoHash,     \* the hash of a decision that names none
    NoRow       \* the row of an item that does not exist

Kinds == {"finding", "timeline", "ioc"}
Ids == 1 .. MaxItems
HUMAN_LOCKED_STATUSES == {"APPROVED", "REJECTED"}

\* The content of an item: the calls it comes from, the IOC's value and how
\* often an examiner edited it.
Bodies ==
    [srcs: SUBSET Calls, value: Values \cup {NoValue}, edit: 0 .. MaxEdits]

NoBody == [srcs |-> {}, value |-> NoValue, edit |-> 0]

VARIABLES
    row,     \* row[k][n]: the row of an item in the table of its kind
    shown,   \* shown[k][n]: the copies of an item that browsers show
    call,    \* call[c]: the progress of a tool call
    delta,   \* pending-reviews.json: the decisions staged in the portal
    portal,  \* the commit handler
    ledger,  \* app.approval_commit_events
    gen,     \* the report handler
    report   \* _PENDING_REPORTS: the latest report, saved as it is

vars == <<row, shown, call, delta, portal, ledger, gen, report>>

-----------------------------------------------------------------------------
(* Hashes.  compute_content_hash covers the whole content; _compute_ioc_   *)
(* hash leaves the sightings out.  Both are 64 hexadecimal digits.         *)

ContentHash(b) ==
    [of |-> "content", srcs |-> b.srcs, value |-> b.value, edit |-> b.edit]

IocHash(b) ==
    [of |-> "ioc", srcs |-> {}, value |-> b.value, edit |-> b.edit]

AgentHash(k, b) == IF k = "ioc" THEN IocHash(b) ELSE ContentHash(b)

Hashes == [of: {"content", "ioc"}, srcs: SUBSET Calls,
           value: Values \cup {NoValue}, edit: 0 .. MaxEdits]

\* The shape of the hashes above, and the one the ledger's table accepts.
HashShape == "hex64"
LedgerShape == "sha256:hex64"

\* What an examiner decided on, with the edits then made.
Seen == [srcs: SUBSET Calls, value: Values \cup {NoValue}, edit: 0 .. MaxEdits + 1]

\* seen and unchecked are history variables: what the last decision on the row
\* was taken on, and whether the server had no hash to compare that with.
Rows == [status: {"DRAFT", "APPROVED", "REJECTED"}, body: Bodies,
         hash: Hashes, seen: Seen, unchecked: BOOLEAN]

Copies == [body: Bodies, hash: Hashes]

ASSUME InvestigationAssumption ==
    /\ MaxItems \in Nat
    /\ MaxEdits \in Nat
    /\ MaxStaged \in Nat
    /\ MaxScreens \in Nat
    /\ Reviewable \subseteq Kinds
    /\ NoValue \notin Values
    /\ Requests \subseteq BOOLEAN \X (Values \cup {NoValue})
    /\ NoHash \notin Hashes
    /\ NoRow \notin Rows

Entries == [kind: Kinds, id: Ids, action: {"approve", "reject", "edit"},
            hash: Hashes \cup {NoHash}, view: Bodies, mods: BOOLEAN, orig: Bodies]

\* An item of a report: whether its hash verifies, and, for the history,
\* whether it had been seen.
Items == [kind: Kinds, id: Ids, verified: BOOLEAN, sighted: BOOLEAN]

CallStates ==
    [pc: {"idle", "link", "upsert", "insert", "iocs", "done"}, kind: Kinds,
     id: [Kinds -> 0 .. MaxItems], body: Bodies, tl: BOOLEAN,
     value: Values \cup {NoValue}]

Idle == [pc |-> "idle", kind |-> "finding", id |-> [k \in Kinds |-> 0],
         body |-> NoBody, tl |-> FALSE, value |-> NoValue]

Done == [Idle EXCEPT !.pc = "done"]

\* The references of an event in the approval ledger.
Events == [kind: Kinds, id: Ids, hash: Hashes]

PortalIdle == [pc |-> "idle", reauth |-> FALSE, batch |-> {}]

TypeOK ==
    /\ row \in [Kinds -> [Ids -> Rows \cup {NoRow}]]
    /\ shown \in [Kinds -> [Ids -> SUBSET Copies]]
    /\ call \in [Calls -> CallStates]
    /\ delta \subseteq Entries
    /\ portal \in [pc: {"idle", "reauth", "applied", "cleared"},
                   reauth: BOOLEAN, batch: SUBSET (Kinds \X Ids)]
    /\ ledger \subseteq Events
    /\ gen \in {"idle", "reauth"}
    /\ report \subseteq Items

Init ==
    /\ row = [k \in Kinds |-> [n \in Ids |-> NoRow]]
    /\ shown = [k \in Kinds |-> [n \in Ids |-> {}]]
    /\ call = [c \in Calls |-> Idle]
    /\ delta = {}
    /\ portal = PortalIdle
    /\ ledger = {}
    /\ gen = "idle"
    /\ report = {}

-----------------------------------------------------------------------------
(* Agents' tools.                                                          *)

LockedApproved(r) == r.status = "APPROVED"  \* a fault: rejections forgotten

is_human_locked(r) == r.status \in HUMAN_LOCKED_STATUSES

Present(k) == {n \in Ids : row[k][n] # NoRow}

_next_seq(k) == Max({0} \cup Present(k)) + 1

CallOnly == UNCHANGED <<shown, delta, portal, ledger, gen, report>>

\* record_finding up to the content hash: the validated finding gets the
\* number after the highest of those it has read.
RecordFinding(c, tl, v) ==
    /\ call[c].pc = "idle"
    /\ _next_seq("finding") \in Ids
    /\ call' = [call EXCEPT ![c] =
           [Idle EXCEPT !.pc = "link", !.id = [@ EXCEPT !["finding"] = _next_seq("finding")],
                        !.body = [srcs |-> {c}, value |-> NoValue, edit |-> 0],
                        !.tl = tl, !.value = v]]
    /\ UNCHANGED row
    /\ CallOnly

\* A finding of type "finding" with a time reserves the number of a linked
\* timeline event before it is written itself.
LinkTimeline(c) ==
    /\ call[c].pc = "link"
    /\ call[c].tl => _next_seq("timeline") \in Ids
    /\ call' = [call EXCEPT ![c].pc = "upsert",
                            ![c].id["timeline"] =
                                IF call[c].tl THEN _next_seq("timeline") ELSE 0]
    /\ UNCHANGED row
    /\ CallOnly

RecordTimelineEvent(c) ==
    /\ call[c].pc = "idle"
    /\ _next_seq("timeline") \in Ids
    /\ call' = [call EXCEPT ![c] =
           [Idle EXCEPT !.pc = "upsert", !.kind = "timeline",
                        !.id = [@ EXCEPT !["timeline"] = _next_seq("timeline")],
                        !.body = [srcs |-> {c}, value |-> NoValue, edit |-> 0]]]
    /\ UNCHANGED row
    /\ CallOnly

\* What the call does after its write of one kind: the linked timeline event,
\* then the IOCs.
Proceed(s) ==
    CASE s.kind = "finding" /\ s.id["timeline"] # 0 ->
             [s EXCEPT !.pc = "upsert", !.kind = "timeline"]
      [] s.kind # "ioc" /\ s.value # NoValue /\ ~(s.kind = "finding" /\ s.id["timeline"] # 0) ->
             [s EXCEPT !.pc = "iocs"]
      [] OTHER -> Done

Target(c) == row[call[c].kind][call[c].id[call[c].kind]]

AgentRow(k, b) ==
    [status |-> "DRAFT", body |-> b, hash |-> AgentHash(k, b), seen |-> NoBody,
     unchecked |-> FALSE]

WriteTarget(c) ==
    row' = [row EXCEPT ![call[c].kind][call[c].id[call[c].kind]] =
                AgentRow(call[c].kind, call[c].body)]

\* _agent_upsert finds a reviewed row: nothing is written, and the caller does
\* not look at the answer.
UpsertRefused(c) ==
    /\ call[c].pc = "upsert"
    /\ Target(c) # NoRow
    /\ is_human_locked(Target(c))
    /\ call' = [call EXCEPT ![c] = Proceed(@)]
    /\ UNCHANGED row
    /\ CallOnly

\* It finds a draft and overwrites it while it holds the row's lock.
UpsertUpdate(c) ==
    /\ call[c].pc = "upsert"
    /\ Target(c) # NoRow
    /\ ~is_human_locked(Target(c))
    /\ WriteTarget(c)
    /\ call' = [call EXCEPT ![c] = Proceed(@)]
    /\ CallOnly

\* It finds no row, and so has locked none.
UpsertMissing(c) ==
    /\ call[c].pc = "upsert"
    /\ Target(c) = NoRow
    /\ call' = [call EXCEPT ![c].pc = "insert"]
    /\ UNCHANGED row
    /\ CallOnly

\* insert ... on conflict do update: whatever is there by now is overwritten.
Insert(c) ==
    /\ call[c].pc = "insert"
    /\ WriteTarget(c)
    /\ call' = [call EXCEPT ![c] = Proceed(@)]
    /\ CallOnly

\* _process_iocs reads the IOCs: a known value gets another sighting, a new
\* one the next number.
LoadIocs(c) ==
    /\ call[c].pc = "iocs"
    /\ LET v == call[c].value
           known == {n \in Present("ioc") : row["ioc"][n].body.value = v}
       IN  /\ known = {} => _next_seq("ioc") \in Ids
           /\ \E n \in IF known = {} THEN {_next_seq("ioc")} ELSE known :
                call' = [call EXCEPT
                  ![c].pc = "upsert", ![c].kind = "ioc", ![c].id["ioc"] = n,
                  ![c].body =
                      IF known = {}
                      THEN [srcs |-> {c}, value |-> v, edit |-> 0]
                      ELSE [row["ioc"][n].body EXCEPT !.srcs = @ \cup {c}]]
    /\ UNCHANGED row
    /\ CallOnly

\* The store raises: a finding's or an event's own write ends the call, a
\* linked event's or an IOC's is caught.
StoreFails(c) ==
    /\ call[c].pc \in {"upsert", "insert"}
    /\ call' = [call EXCEPT ![c] =
                  IF @.kind = "finding" THEN Done ELSE Proceed(@)]
    /\ UNCHANGED row
    /\ CallOnly

-----------------------------------------------------------------------------
(* The portal's review.  Handlers interleave where they await.             *)

Loop == portal.pc \in {"idle", "reauth"}

\* useDataPolling: a browser shows the item as the table has it, in the place
\* of the copy it showed before; others keep theirs.
Poll(k, n) ==
    /\ Loop
    /\ row[k][n] # NoRow
    /\ \E kept \in SUBSET shown[k][n] :
          /\ Cardinality(kept) < MaxScreens
          /\ shown' = [shown EXCEPT ![k][n] =
                          kept \cup {[body |-> row[k][n].body, hash |-> row[k][n].hash]}]
    /\ UNCHANGED <<row, call, delta, portal, ledger, gen, report>>

On(k, n) == {e \in delta : e.kind = k /\ e.id = n}

\* post_delta takes the whole document: the browser's copy of the delta, which
\* may lack what others staged since, with its item in the place of an earlier
\* decision.
PostDelta(item) ==
    /\ Loop
    /\ \E kept \in SUBSET (delta \ On(item.kind, item.id)) :
          /\ Cardinality(kept) < MaxStaged
          /\ delta' = kept \cup {item}
    /\ UNCHANGED <<row, shown, call, portal, ledger, gen, report>>

\* A decision names the hash of the copy s it is taken on, or none:
\* _REQUIRED_DELTA_KEYS asks for none.
Decision(k, n, action, s, named) ==
    [kind |-> k, id |-> n, action |-> action,
     hash |-> IF named THEN s.hash ELSE NoHash,
     view |-> IF named THEN s.body ELSE NoBody,
     mods |-> FALSE, orig |-> NoBody]

\* buildStageItem
StageDecision(k, n, action, s, named) ==
    PostDelta(Decision(k, n, action, s, named))

\* buildEditItem: an edit of the copy s joins the decision already staged on
\* the item, which keeps the hash of the copy that was taken on.
StageEdit(k, n, s, named) ==
    /\ s.body.edit < MaxEdits
    /\ \E e \in IF On(k, n) = {} THEN {Decision(k, n, "edit", s, named)} ELSE On(k, n) :
          PostDelta([e EXCEPT !.mods = TRUE, !.orig = s.body])

\* delete_delta_item
UnstageDecision(e) ==
    /\ Loop
    /\ e \in delta
    /\ delta' = delta \ {e}
    /\ UNCHANGED <<row, shown, call, portal, ledger, gen, report>>

\* post_commit up to the await of the password's verification.
CommitStart ==
    /\ portal.pc = "idle"
    /\ delta # {}
    /\ portal' = [portal EXCEPT !.pc = "reauth"]
    /\ UNCHANGED <<row, shown, call, delta, ledger, gen, report>>

\* A wrong password, an unreachable control plane, or nothing staged any more.
CommitDenied ==
    /\ portal.pc = "reauth"
    /\ portal' = PortalIdle
    /\ UNCHANGED <<row, shown, call, delta, ledger, gen, report>>

\* What an edit's "original" is compared with.
Field(k, b) == AgentHash(k, b)

AcceptedUnseen(e) ==  \* a fault: the hash that was shown is not compared
    /\ row[e.kind][e.id] # NoRow
    /\ e.mods => Field(e.kind, e.orig) = Field(e.kind, row[e.kind][e.id].body)
    /\ e.action = "edit" => e.mods

\* The server compares the hash only of a decision that names one.
Accepted(e) ==
    /\ row[e.kind][e.id] # NoRow
    /\ e.hash \in {row[e.kind][e.id].hash, NoHash}
    /\ e.mods => Field(e.kind, e.orig) = Field(e.kind, row[e.kind][e.id].body)
    /\ e.action = "edit" => e.mods

Edited(e, b) == IF e.mods THEN [b EXCEPT !.edit = @ + 1] ELSE b

ReviewedAsAction(r, e) ==  \* a fault: an edit becomes a status
    [status |-> CASE e.action = "approve" -> "APPROVED"
                  [] e.action = "reject" -> "REJECTED"
                  [] OTHER -> "EDITED",
     body |-> Edited(e, r.body),
     hash |-> ContentHash(Edited(e, r.body)),
     seen |-> Edited(e, e.view),
     unchecked |-> FALSE]

Reviewed(r, e) ==
    LET b == Edited(e, r.body)
        checked == e.hash # NoHash /\ r.hash = ContentHash(r.body)
    IN  [status |-> CASE e.action = "approve" -> "APPROVED"
                      [] e.action = "reject" -> "REJECTED"
                      [] OTHER -> r.status,
         body |-> b,
         hash |-> IF e.action = "reject" THEN r.hash ELSE ContentHash(b),
         seen |-> IF checked THEN Edited(e, e.view) ELSE NoBody,
         unchecked |-> ~checked]

\* _apply_delta_db reads the delta, records the re-authentication (an error
\* leaves it without a record) and applies the batch in one transaction; what
\* is stale is skipped.
ApplyReview(recorded) ==
    /\ portal.pc = "reauth"
    /\ delta # {}
    /\ LET batch == {e \in delta : Accepted(e)}
           of(k, n) == {e \in batch : e.kind = k /\ e.id = n}
       IN  /\ row' = [k \in Kinds |-> [n \in Ids |->
                        IF of(k, n) = {} THEN row[k][n]
                        ELSE Reviewed(row[k][n], CHOOSE e \in of(k, n) : TRUE)]]
           /\ portal' = [pc |-> "applied", reauth |-> recorded,
                         batch |-> {<<e.kind, e.id>> :
                                       e \in {x \in batch : x.action = "approve"}}]
    /\ UNCHANGED <<shown, call, delta, ledger, gen, report>>

ClearDelta ==
    /\ portal.pc = "applied"
    /\ delta' = {}
    /\ portal' = [portal EXCEPT !.pc = "cleared"]
    /\ UNCHANGED <<row, shown, call, ledger, gen, report>>

\* The commit event of an approved item: the hash is read back, from the table
\* of findings unless the item is an event.  The table's constraints refuse a
\* hash of another shape and an approval with no record of the
\* re-authentication; a refused event is only named in the answer.  As the
\* shapes differ, the ledger takes no approval at all.
CommitEvent(k, n) == [kind |-> k, id |-> n, hash |-> row[k][n].hash]

LedgerTakes(k) ==
    /\ k # "ioc"
    /\ HashShape = LedgerShape
    /\ portal.reauth

AttestApproved ==
    /\ portal.pc = "cleared"
    /\ ledger' = ledger \cup {CommitEvent(x[1], x[2]) : x \in {y \in portal.batch : LedgerTakes(y[1])}}
    /\ portal' = PortalIdle
    /\ UNCHANGED <<row, shown, call, delta, gen, report>>

-----------------------------------------------------------------------------
(* Reports.                                                                *)

ApprovedOrEdited(k) ==  \* a fault: what a human touched counts as approved
    {n \in Present(k) : row[k][n].status # "REJECTED"}

Approved(k) == {n \in Present(k) : row[k][n].status = "APPROVED"}

\* generate_report_route: an approved finding makes the case eligible, and one
\* generation is in flight at a time; then the password is verified.
ReportStart ==
    /\ Loop
    /\ gen = "idle"
    /\ Approved("finding") # {}
    /\ gen' = "reauth"
    /\ UNCHANGED <<row, shown, call, delta, portal, ledger, report>>

ReportDenied ==
    /\ Loop
    /\ gen = "reauth"
    /\ gen' = "idle"
    /\ UNCHANGED <<row, shown, call, delta, portal, ledger, report>>

\* reconcile_verification_db
Verified(r) == r.hash = ContentHash(r.body)

\* The row is what the examiner was shown, with the examiner's own edits, or the
\* server had no hash of the content to compare.
Sighted(r) == r.unchecked \/ r.body = r.seen

ItemOf(k, n) == [kind |-> k, id |-> n, verified |-> Verified(row[k][n]),
                 sighted |-> Sighted(row[k][n])]

\* report_inputs and generate_report_data: findings and events that are
\* approved now.
ReportGenerate ==
    /\ Loop
    /\ gen = "reauth"
    /\ gen' = "idle"
    /\ report' = {ItemOf("finding", n) : n \in Approved("finding")}
                 \cup {ItemOf("timeline", n) : n \in Approved("timeline")}
    /\ UNCHANGED <<row, shown, call, delta, portal, ledger>>

\* The gateway dies: its threads, handlers and pending report are gone, the tables and
\* the delta file stay.
Crash ==
    /\ \/ portal.pc # "idle"
       \/ gen # "idle"
       \/ \E c \in Calls : call[c].pc \notin {"idle", "done"}
    /\ call' = [c \in Calls |->
                  IF call[c].pc = "idle" THEN call[c] ELSE Done]
    /\ portal' = PortalIdle
    /\ gen' = "idle"
    /\ report' = {}
    /\ UNCHANGED <<row, shown, delta, ledger>>

-----------------------------------------------------------------------------
AgentNext(c) ==
    \/ \E q \in Requests : RecordFinding(c, q[1], q[2])
    \/ LinkTimeline(c)
    \/ RecordTimelineEvent(c)
    \/ UpsertRefused(c)
    \/ UpsertUpdate(c)
    \/ UpsertMissing(c)
    \/ Insert(c)
    \/ LoadIocs(c)
    \/ StoreFails(c)

PortalNext ==
    \/ \E k \in Reviewable, n \in Ids : Poll(k, n)
    \/ \E k \in Reviewable, n \in Ids, action \in {"approve", "reject"}, named \in BOOLEAN :
          \E s \in shown[k][n] : StageDecision(k, n, action, s, named)
    \/ \E k \in Reviewable, n \in Ids, named \in BOOLEAN :
          \E s \in shown[k][n] : StageEdit(k, n, s, named)
    \/ \E e \in delta : UnstageDecision(e)
    \/ CommitStart
    \/ CommitDenied
    \/ \E recorded \in BOOLEAN : ApplyReview(recorded)
    \/ ClearDelta
    \/ AttestApproved
    \/ ReportStart
    \/ ReportDenied
    \/ ReportGenerate

Next == (\E c \in Calls : AgentNext(c)) \/ PortalNext \/ Crash

Spec == Init /\ [][Next]_vars

-----------------------------------------------------------------------------
(* Properties.                                                             *)

\* The hash of an approved finding or event is of its content, and that is what
\* the examiner was shown, with the examiner's own edits: no agent's write,
\* however late, and no other examiner's edit is approved from a copy that is
\* out of date (apply_review's stale checks and new_hash).  Unless the server
\* had nothing to compare: the decision named no hash, or a rejection had
\* edited the content and kept the hash.
ApprovedWasSeen ==
    \A k \in {"finding", "timeline"}, n \in Ids :
        row[k][n] # NoRow /\ row[k][n].status = "APPROVED" =>
            Verified(row[k][n]) /\ Sighted(row[k][n])

\* Whatever a report shows an examiner approved, its verification finds no
\* mismatch, and what was checked against a hash was seen (report_inputs,
\* reconcile_verification_db), although the eligibility of the case was tested
\* before the password was.
ReportWasSeen ==
    \A it \in report : it.verified /\ it.sighted

\* A reviewed row is human locked (is_human_locked): no step outside of a review
\* changes it, but for an insert whose select found no row to lock and which
\* the review overtook (_agent_upsert).
OnlyBlindInsertsOverwrite ==
    [][ \A k \in Kinds, n \in Ids :
          /\ row[k][n] # NoRow
          /\ row[k][n].status \in {"APPROVED", "REJECTED"}
          /\ portal' = portal
          /\ row'[k][n] # row[k][n]
          => \E c \in Calls : /\ call[c].pc = "insert"
                              /\ call[c].kind = k
                              /\ call[c].id[k] = n
                              /\ call'[c] # call[c] ]_vars
=============================================================================
