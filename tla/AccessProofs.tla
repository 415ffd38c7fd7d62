---------------------------- MODULE AccessProofs ----------------------------
(***************************************************************************)
(* Proofs about Access, for any principals, tokens, cases, tools and calls *)
(* and any lifetime of a cached identity.                                  *)
(***************************************************************************)
EXTENDS Access, TLAPS

\* A call works in no case or in its agent's own, and what ran did so in the
\* case that the call had pinned; a case-scoped tool gets past CaseContext with
\* a case only.
Pinned(u) ==
    /\ u.case \in {NoCase, HomeCase[Owner[u.token]]}
    /\ u.pc \in {"audit", "dispatch", "receipt"} /\ u.tool \in CaseScoped
           => u.case # NoCase
    /\ u.ran # Never => /\ u.ran = u.case
                        /\ u.pc \in {"receipt", "done"}
                        /\ u.tool \in CaseScoped => u.case # NoCase

\* The audit rows w of a call at each stage.
Trailed(u, w) ==
    /\ u.pc \notin {"dispatch", "receipt", "done"} => w.requested = {}
    /\ u.pc \notin {"receipt", "done"} => w.result = {}
    /\ u.pc = "dispatch" \/ u.ran # Never =>
           /\ w.requested \subseteq {u.case}
           /\ w.result \subseteq {u.case}
           /\ u.tool \in Mutating => w.requested = {u.case}

CallsOK == \A c \in Calls : Pinned(call[c]) /\ Trailed(call[c], trail[c])

\* The inductive invariant behind what a call does.
CallInv == TypeOK /\ CallsOK

\* When identities were read and cached: none is cached for longer than its
\* lifetime, and a row is read before it is revoked and cached soon after.
TimesOK ==
    /\ \A t \in Tokens : cache[t] # Never => cache[t] <= now + CacheTTL
    /\ \A c \in Calls :
           call[c].pc = "cache_put" =>
               /\ call[c].read \in Nat
               /\ call[c].read <= now
               /\ now <= call[c].read + MaxLag
    /\ \A p \in Principals : revoke[p] = "no" <=> revokedAt[p] = Never

\* After its revocation every identity of a principal is on its way out.
RevokedOK ==
    \A p \in Principals :
        revokedAt[p] # Never =>
            /\ \A t \in TokensOf(p) :
                   cache[t] # Never => cache[t] <= revokedAt[p] + MaxLag + CacheTTL
            /\ \A c \in Calls :
                   call[c].pc = "cache_put" /\ Principal(c) = p
                       => call[c].read <= revokedAt[p]

\* The inductive invariant behind revocation.
RevokeInv == TypeOK /\ TimesOK /\ RevokedOK /\ NoResidueOfRevoked

-----------------------------------------------------------------------------
(* Types.                                                                  *)

\* A call as it arrives.
Made(t, u, a) == [Idle EXCEPT !.token = t, !.tool = u, !.arg = a]

\* The records of calls.
LEMMA CallsTyped ==
    /\ Idle \in CallStates
    /\ Refused \in CallStates
    /\ \A t \in Tokens, u \in Tools, a \in MaybeCase : Made(t, u, a) \in CallStates
<1>1. Idle \in CallStates
  BY AccessAssumption DEF Idle, CallStates, Stages, MaybeCase, MaybeTime
<1>2. ASSUME NEW i \in CallStates
      PROVE  /\ [i EXCEPT !.pc = "done"] \in CallStates
             /\ \A t \in Tokens, u \in Tools, a \in MaybeCase :
                   [i EXCEPT !.token = t, !.tool = u, !.arg = a] \in CallStates
  BY DEF CallStates, Stages
<1>. QED BY <1>1, <1>2 DEF Refused, Made

\* A new call, and what is refused, has no case and has not run.
LEMMA FreshFields ==
    /\ Idle.case = NoCase /\ Idle.ran = Never /\ Idle.pc = "idle"
    /\ Refused.case = NoCase /\ Refused.ran = Never /\ Refused.pc = "done"
    /\ \A t \in Tokens, u \in Tools, a \in MaybeCase :
          /\ Made(t, u, a).case = NoCase /\ Made(t, u, a).ran = Never
          /\ Made(t, u, a).token = t
<1>1. Idle.case = NoCase /\ Idle.ran = Never /\ Idle.pc = "idle"
  BY DEF Idle
<1>2. ASSUME NEW i \in CallStates
      PROVE  /\ LET d == [i EXCEPT !.pc = "done"]
                IN  d.case = i.case /\ d.ran = i.ran /\ d.pc = "done"
             /\ \A t \in Tokens, u \in Tools, a \in MaybeCase :
                   LET m == [i EXCEPT !.token = t, !.tool = u, !.arg = a] IN
                   m.case = i.case /\ m.ran = i.ran /\ m.token = t
  BY DEF CallStates
<1>3. Refused.case = NoCase /\ Refused.ran = Never /\ Refused.pc = "done"
  BY <1>1, <1>2, CallsTyped DEF Refused
<1>4. ASSUME NEW t \in Tokens, NEW u \in Tools, NEW a \in MaybeCase
      PROVE  /\ Made(t, u, a).case = NoCase /\ Made(t, u, a).ran = Never
             /\ Made(t, u, a).token = t
  <2>1. Idle \in CallStates
    BY CallsTyped
  <2>. QED BY <1>1, <1>2, <2>1 DEF Made
<1>. QED BY <1>1, <1>3, <1>4

\* Updates of a call keep its type and leave the other fields alone.
LEMMA Updates ==
    ASSUME NEW u \in CallStates, NEW s \in Stages, NEW time \in MaybeTime,
           NEW k \in MaybeCase, NEW ran \in MaybeCase \cup {Never}
    PROVE  /\ [u EXCEPT !.pc = s] \in CallStates
           /\ [u EXCEPT !.pc = s, !.read = time] \in CallStates
           /\ [u EXCEPT !.pc = s, !.case = k] \in CallStates
           /\ [u EXCEPT !.pc = s, !.ran = ran] \in CallStates
  BY DEF CallStates

\* A step that gives one call another record and other audit rows.
LEMMA OneCall ==
    ASSUME CallInv, NEW c \in Calls, NEW u \in CallStates, NEW w \in Rows,
           Pinned(u), Trailed(u, w),
           call' = [call EXCEPT ![c] = u], trail' = [trail EXCEPT ![c] = w]
    PROVE  /\ call' \in [Calls -> CallStates]
           /\ trail' \in [Calls -> Rows]
           /\ CallsOK'
<1>1. call \in [Calls -> CallStates] /\ trail \in [Calls -> Rows]
  BY DEF CallInv, TypeOK
<1>2. ASSUME NEW d \in Calls PROVE Pinned(call'[d]) /\ Trailed(call'[d], trail'[d])
  <2>1. CASE d = c
    BY <1>1, <2>1
  <2>2. CASE d # c
    BY <1>1, <2>2 DEF CallInv, CallsOK
  <2>. QED BY <2>1, <2>2
<1>3. CallsOK'
  BY <1>2 DEF CallsOK
<1>. QED BY <1>1, <1>3

\* The steps that a call takes by itself.
CallStep(c) ==
    \/ \E t \in Tokens, u \in Tools, a \in MaybeCase : Resolve(c, t, u, a)
    \/ GetUser(c) \/ Lookup(c) \/ CachePut(c) \/ Authorize(c) \/ CaseContext(c)
    \/ AuditRequest(c) \/ Dispatch(c) \/ AuditResult(c)

\* What the middleware does to a call and its audit rows.
LEMMA CallKept ==
    ASSUME CallInv, NEW c \in Calls, CallStep(c)
    PROVE  /\ call' \in [Calls -> CallStates]
           /\ trail' \in [Calls -> Rows]
           /\ CallsOK'
<1>. DEFINE Goal == call' \in [Calls -> CallStates] /\ trail' \in [Calls -> Rows] /\ CallsOK'
<1>. SUFFICES Goal
  OBVIOUS
<1>1. /\ call \in [Calls -> CallStates] /\ trail \in [Calls -> Rows]
      /\ active \in MaybeCase /\ now \in Nat
  BY AccessAssumption DEF CallInv, TypeOK, Times
<1>2. call[c] \in CallStates /\ trail[c] \in Rows /\ Pinned(call[c]) /\ Trailed(call[c], trail[c])
  BY <1>1 DEF CallInv, CallsOK
<1>3. ASSUME NEW u \in CallStates, call' = [call EXCEPT ![c] = u], trail' = trail,
             Pinned(u), Trailed(u, trail[c])
      PROVE  Goal
  <2>1. trail' = [trail EXCEPT ![c] = trail[c]]
    BY <1>1, <1>3
  <2>. QED BY <1>2, <1>3, <2>1, OneCall
<1>4. ASSUME Deny(c), trail' = trail, call[c].pc # "idle"
      PROVE  Goal
  <2>1. Pinned(Refused) /\ Trailed(Refused, trail[c])
    BY FreshFields DEF Pinned, Trailed
  <2>. QED BY <1>3, <1>4, <2>1, CallsTyped DEF Deny
<1>5. ASSUME NEW s \in Stages, call' = [call EXCEPT ![c] = [call[c] EXCEPT !.pc = s]],
             trail' = trail, call[c].ran = Never,
             call[c].pc \in {"get_user", "lookup", "authorize", "case"},
             s \in {"lookup", "cache_put", "authorize", "case", "audit"},
             s = "audit" => call[c].tool \notin CaseScoped
      PROVE  Goal
  <2>. DEFINE u == [call[c] EXCEPT !.pc = s]
  <2>1. /\ u \in CallStates /\ u.pc = s /\ u.case = call[c].case /\ u.ran = call[c].ran
        /\ u.token = call[c].token /\ u.tool = call[c].tool
    BY <1>2 DEF CallStates
  <2>. HIDE DEF u
  <2>2. Pinned(u)
    BY <1>2, <1>5, <2>1 DEF Pinned
  <2>3. Trailed(u, trail[c])
    BY <1>2, <1>5, <2>1 DEF Trailed
  <2>. QED BY <1>3, <1>5, <2>1, <2>2, <2>3 DEF u
<1>6. call[c].pc \notin {"receipt", "done"} => call[c].ran = Never
  BY <1>2 DEF Pinned
<1>. HIDE DEF Goal
<1>7. ASSUME NEW t \in Tokens, NEW u \in Tools, NEW a \in MaybeCase, Resolve(c, t, u, a)
      PROVE  Goal
  <2>. DEFINE m == Made(t, u, a)
  <2>1. m \in CallStates /\ m.case = NoCase /\ m.ran = Never
    BY CallsTyped, FreshFields
  <2>2. trail' = trail /\ call[c].pc = "idle"
    BY <1>7 DEF Resolve
  <2>. HIDE DEF m
  <2>3. ASSUME NEW v \in CallStates, v.case = NoCase, v.ran = Never,
               v.pc \in {"authorize", "get_user"}, call' = [call EXCEPT ![c] = v]
        PROVE  Goal
    <3>1. Pinned(v) /\ Trailed(v, trail[c])
      BY <1>2, <2>2, <2>3 DEF Pinned, Trailed
    <3>. QED BY <1>3, <2>2, <2>3, <3>1
  <2>4. CASE Accept(c, m)
    <3>. DEFINE v == [m EXCEPT !.pc = "authorize", !.read = Never]
    <3>1. v \in CallStates /\ v.case = NoCase /\ v.ran = Never /\ v.pc = "authorize"
      BY <2>1 DEF CallStates, Stages, MaybeTime
    <3>. HIDE DEF v
    <3>2. call' = [call EXCEPT ![c] = v]
      BY <2>4 DEF Accept, v
    <3>. QED BY <2>3, <3>1, <3>2
  <2>5. CASE call' = [call EXCEPT ![c] = [m EXCEPT !.pc = "get_user"]]
    <3>. DEFINE v == [m EXCEPT !.pc = "get_user"]
    <3>1. v \in CallStates /\ v.case = NoCase /\ v.ran = Never /\ v.pc = "get_user"
      BY <2>1 DEF CallStates, Stages
    <3>. HIDE DEF v
    <3>2. call' = [call EXCEPT ![c] = v]
      BY <2>5 DEF v
    <3>. QED BY <2>3, <3>1, <3>2
  <2>. QED BY <1>7, <2>4, <2>5 DEF Resolve, m, Made
<1>8. CASE GetUser(c)
  BY <1>4, <1>5, <1>6, <1>8 DEF GetUser, Advance, Stages
<1>9. CASE Lookup(c)
  <2>1. trail' = trail /\ call[c].pc = "lookup"
    BY <1>9 DEF Lookup
  <2>2. CASE call' = [call EXCEPT ![c].pc = "cache_put", ![c].read = now]
    <3>. DEFINE u == [call[c] EXCEPT !.pc = "cache_put", !.read = now]
    <3>1. /\ u \in CallStates /\ u.pc = "cache_put" /\ u.case = call[c].case
          /\ u.ran = call[c].ran /\ u.token = call[c].token /\ u.tool = call[c].tool
      BY <1>1, <1>2 DEF CallStates, Stages, MaybeTime
    <3>2. call' = [call EXCEPT ![c] = u]
      BY <1>1, <2>2
    <3>. HIDE DEF u
    <3>3. Pinned(u) /\ Trailed(u, trail[c])
      BY <1>2, <1>6, <2>1, <3>1 DEF Pinned, Trailed
    <3>. QED BY <1>3, <2>1, <3>1, <3>2, <3>3
  <2>. QED BY <1>4, <1>9, <2>1, <2>2 DEF Lookup
<1>10. CASE CachePut(c)
  <2>. DEFINE u == [call[c] EXCEPT !.pc = "authorize", !.read = Never]
  <2>1. /\ u \in CallStates /\ u.pc = "authorize" /\ u.case = call[c].case
        /\ u.ran = call[c].ran /\ u.token = call[c].token /\ u.tool = call[c].tool
    BY <1>1, <1>2 DEF CallStates, Stages, MaybeTime
  <2>2. call' = [call EXCEPT ![c] = u] /\ trail' = trail /\ call[c].pc = "cache_put"
    BY <1>10 DEF CachePut, Accept
  <2>. HIDE DEF u
  <2>3. Pinned(u) /\ Trailed(u, trail[c])
    BY <1>2, <1>6, <2>1, <2>2 DEF Pinned, Trailed
  <2>. QED BY <1>3, <2>1, <2>2, <2>3
<1>11. CASE Authorize(c)
  BY <1>4, <1>5, <1>6, <1>11 DEF Authorize, Advance, Stages
<1>12. CASE CaseContext(c)
  <2>1. trail' = trail /\ call[c].pc = "case"
    BY <1>12 DEF CaseContext
  <2>2. CASE /\ Member(Principal(c), active)
             /\ call' = [call EXCEPT ![c].pc = "audit", ![c].case = active]
    <3>. DEFINE u == [call[c] EXCEPT !.pc = "audit", !.case = active]
    <3>1. /\ u \in CallStates /\ u.pc = "audit" /\ u.case = active
          /\ u.ran = call[c].ran /\ u.token = call[c].token /\ u.tool = call[c].tool
      BY <1>1, <1>2 DEF CallStates, Stages
    <3>2. call' = [call EXCEPT ![c] = u]
      BY <1>1, <2>2
    <3>3. active # NoCase /\ active = HomeCase[Owner[call[c].token]]
      BY <2>2 DEF Member, Principal
    <3>. HIDE DEF u
    <3>4. Pinned(u) /\ Trailed(u, trail[c])
      BY <1>2, <1>6, <2>1, <3>1, <3>3 DEF Pinned, Trailed
    <3>. QED BY <1>3, <2>1, <3>1, <3>2, <3>4
  <2>3. CASE call[c].tool \notin CaseScoped /\ Advance(c, "audit")
    BY <1>5, <1>6, <2>1, <2>3 DEF Advance, Stages
  <2>. QED BY <1>4, <1>12, <2>1, <2>2, <2>3 DEF CaseContext
<1>13. CASE AuditRequest(c)
  <2>. DEFINE u == [call[c] EXCEPT !.pc = "dispatch"]
  <2>1. /\ u \in CallStates /\ u.pc = "dispatch" /\ u.case = call[c].case
        /\ u.ran = call[c].ran /\ u.token = call[c].token /\ u.tool = call[c].tool
        /\ call[c].case \in MaybeCase
    BY <1>1, <1>2 DEF CallStates, Stages
  <2>2. call[c].pc = "audit" /\ call[c].ran = Never
    BY <1>6, <1>13 DEF AuditRequest
  <2>3. Advance(c, "dispatch") => call' = [call EXCEPT ![c] = u]
    BY DEF Advance
  <2>. HIDE DEF u
  <2>4. Pinned(u)
    BY <1>2, <2>1, <2>2 DEF Pinned
  <2>5. CASE trail' = [trail EXCEPT ![c].requested = {call[c].case}] /\ Advance(c, "dispatch")
    <3>. DEFINE w == [trail[c] EXCEPT !.requested = {call[c].case}]
    <3>1. w \in Rows /\ w.requested = {call[c].case} /\ w.result = trail[c].result
      BY <1>2, <2>1 DEF Rows
    <3>2. trail' = [trail EXCEPT ![c] = w]
      BY <1>1, <2>5
    <3>. HIDE DEF w
    <3>3. Trailed(u, w)
      BY <1>2, <2>1, <2>2, <3>1 DEF Trailed
    <3>. QED BY <2>1, <2>3, <2>4, <2>5, <3>1, <3>2, <3>3, OneCall DEF Goal
  <2>6. CASE UNCHANGED trail /\ call[c].tool \notin Mutating /\ Advance(c, "dispatch")
    <3>1. Trailed(u, trail[c])
      BY <1>2, <2>1, <2>2, <2>6 DEF Trailed
    <3>. QED BY <1>3, <2>1, <2>3, <2>4, <2>6, <3>1
  <2>. QED BY <1>4, <1>13, <2>2, <2>5, <2>6 DEF AuditRequest, ProceedUnrecorded
<1>14. CASE Dispatch(c)
  <2>. DEFINE refused == /\ call[c].tool \in CaseScoped \cap Proxied
                         /\ call[c].arg \notin {NoCase, call[c].case}
              r == IF refused THEN Never ELSE call[c].case
              u == [call[c] EXCEPT !.pc = "receipt", !.ran = r]
  <2>1. /\ u \in CallStates /\ u.pc = "receipt" /\ u.case = call[c].case
        /\ u.ran \in {Never, call[c].case} /\ u.token = call[c].token /\ u.tool = call[c].tool
    BY <1>1, <1>2 DEF CallStates, Stages
  <2>2. trail' = trail /\ call[c].pc = "dispatch" /\ call' = [call EXCEPT ![c] = u]
    BY <1>1, <1>14 DEF Dispatch
  <2>. HIDE DEF u
  <2>3. Pinned(u) /\ Trailed(u, trail[c])
    BY <1>2, <2>1, <2>2 DEF Pinned, Trailed
  <2>. QED BY <1>3, <2>1, <2>2, <2>3
<1>15. CASE AuditResult(c)
  <2>. DEFINE u == [call[c] EXCEPT !.pc = "done"]
  <2>1. /\ u \in CallStates /\ u.pc = "done" /\ u.case = call[c].case
        /\ u.ran = call[c].ran /\ u.token = call[c].token /\ u.tool = call[c].tool
        /\ call[c].case \in MaybeCase
    BY <1>1, <1>2 DEF CallStates, Stages
  <2>2. call[c].pc = "receipt" /\ call' = [call EXCEPT ![c] = u]
    BY <1>15 DEF AuditResult, Advance
  <2>. HIDE DEF u
  <2>3. Pinned(u)
    BY <1>2, <2>1, <2>2 DEF Pinned
  <2>4. CASE trail' = [trail EXCEPT ![c].result = {ReceiptCase(c)}]
    <3>. DEFINE w == [trail[c] EXCEPT !.result = {call[c].case}]
    <3>1. w \in Rows /\ w.result = {call[c].case} /\ w.requested = trail[c].requested
      BY <1>2, <2>1 DEF Rows
    <3>2. trail' = [trail EXCEPT ![c] = w]
      BY <1>1, <2>4 DEF ReceiptCase
    <3>. HIDE DEF w
    <3>3. Trailed(u, w)
      BY <1>2, <2>1, <2>2, <3>1 DEF Trailed
    <3>. QED BY <2>1, <2>2, <2>3, <3>1, <3>2, <3>3, OneCall DEF Goal
  <2>5. CASE UNCHANGED trail
    <3>1. Trailed(u, trail[c])
      BY <1>2, <2>1, <2>2 DEF Trailed
    <3>. QED BY <1>3, <2>1, <2>2, <2>3, <2>5, <3>1
  <2>. QED BY <1>15, <2>4, <2>5 DEF AuditResult
<1>. QED BY <1>7, <1>8, <1>9, <1>10, <1>11, <1>12, <1>13, <1>14, <1>15 DEF CallStep

\* Operators, time and restarts.
WorldStep ==
    \/ \E k \in Cases : SetActiveCase(k)
    \/ \E p \in Principals : DisableRow(p) \/ DeleteUser(p) \/ Invalidate(p)
    \/ Tick
    \/ Restart

\* A restart ends the calls that were under way.
LEMMA RestartCalls ==
    ASSUME CallInv, Restart, NEW c \in Calls
    PROVE  /\ call'[c] \in CallStates
           /\ call'[c].pc = "idle" <=> call[c].pc = "idle"
           /\ call'[c].pc \in {"idle", "done"}
           /\ call'[c].case = call[c].case /\ call'[c].ran = call[c].ran
           /\ call'[c].token = call[c].token /\ call'[c].tool = call[c].tool
<1>1. call[c] \in CallStates
  BY DEF CallInv, TypeOK
<1>2. call'[c] = [call[c] EXCEPT !.pc = IF call[c].pc = "idle" THEN "idle" ELSE "done"]
  BY DEF Restart
<1>. QED BY <1>1, <1>2 DEF CallStates, Stages

\* None of these changes what a call has pinned or recorded.
LEMMA WorldCalls ==
    ASSUME CallInv, WorldStep
    PROVE  /\ call' \in [Calls -> CallStates]
           /\ trail' \in [Calls -> Rows]
           /\ CallsOK'
<1>1. call \in [Calls -> CallStates] /\ trail \in [Calls -> Rows]
  BY DEF CallInv, TypeOK
<1>2. CASE UNCHANGED <<call, trail>>
  BY <1>1, <1>2 DEF CallInv, CallsOK
<1>3. CASE Restart
  <2>1. trail' = trail
    BY <1>3 DEF Restart
  <2>2. ASSUME NEW c \in Calls PROVE Pinned(call'[c]) /\ Trailed(call'[c], trail'[c])
    <3>1. Pinned(call[c]) /\ Trailed(call[c], trail[c])
      BY DEF CallInv, CallsOK
    <3>2. Pinned(call'[c])
      BY <1>3, <3>1, RestartCalls DEF Pinned
    <3>3. Trailed(call'[c], trail'[c])
      BY <1>3, <2>1, <3>1, RestartCalls DEF Trailed
    <3>. QED BY <3>2, <3>3
  <2>3. call' \in [Calls -> CallStates]
    <3>1. call' = [c \in Calls |-> call'[c]]
      BY <1>3 DEF Restart
    <3>. QED BY <1>3, <3>1, RestartCalls
  <2>. QED BY <1>1, <2>1, <2>2, <2>3 DEF CallsOK
<1>. QED BY <1>2, <1>3 DEF WorldStep, SetActiveCase, DisableRow, DeleteUser, Invalidate, Tick

\* The other variables keep their types.
LEMMA OthersTyped ==
    ASSUME TypeOK, (\E c \in Calls : CallStep(c)) \/ WorldStep
    PROVE  /\ now' \in Times
           /\ cache' \in [Tokens -> MaybeTime]
           /\ active' \in MaybeCase
           /\ user' \in [Principals -> BOOLEAN]
           /\ revoke' \in [Principals -> {"no", "disabled", "deleted", "failed", "done"}]
           /\ revokedAt' \in [Principals -> MaybeTime]
           /\ raced' \in [Principals -> BOOLEAN]
<1>. DEFINE States == {"no", "disabled", "deleted", "failed", "done"}
<1>1. /\ now \in Times /\ now \in Nat /\ cache \in [Tokens -> MaybeTime] /\ active \in MaybeCase
      /\ user \in [Principals -> BOOLEAN] /\ revoke \in [Principals -> States]
      /\ revokedAt \in [Principals -> MaybeTime] /\ raced \in [Principals -> BOOLEAN]
  BY AccessAssumption DEF TypeOK, Times
<1>2. Never \in MaybeTime /\ now \in MaybeTime /\ now + CacheTTL \in MaybeTime
  BY <1>1, AccessAssumption DEF MaybeTime
<1>3. ASSUME NEW c \in Calls, CallStep(c)
      PROVE  UNCHANGED <<now, active, revokeVars>> /\ cache' \in [Tokens -> MaybeTime]
  <2>1. UNCHANGED <<now, active, revokeVars>>
    BY <1>3 DEF CallStep, Resolve, GetUser, Lookup, CachePut, Authorize, CaseContext,
       AuditRequest, Dispatch, AuditResult
  <2>2. ASSUME NEW t \in Tokens, NEW u \in Tools, NEW a \in MaybeCase, Resolve(c, t, u, a)
        PROVE  cache' \in [Tokens -> MaybeTime]
    BY <1>1, <1>2, <2>2 DEF Resolve
  <2>3. CASE CachePut(c)
    BY <1>1, <1>2, <2>3 DEF CachePut
  <2>4. CASE UNCHANGED cache
    BY <1>1, <2>1, <2>4
  <2>. QED BY <1>3, <2>1, <2>2, <2>3, <2>4 DEF CallStep, GetUser, Lookup, Authorize,
          CaseContext, AuditRequest, Dispatch, AuditResult
<1>4. CASE \E k \in Cases : SetActiveCase(k)
  BY <1>1, <1>4 DEF SetActiveCase, MaybeCase, revokeVars
<1>5. ASSUME NEW p \in Principals, DisableRow(p) \/ DeleteUser(p) \/ Invalidate(p)
      PROVE  /\ UNCHANGED <<now, active>>
             /\ cache' \in [Tokens -> MaybeTime]
             /\ user' \in [Principals -> BOOLEAN]
             /\ revoke' \in [Principals -> States]
             /\ revokedAt' \in [Principals -> MaybeTime]
             /\ raced' \in [Principals -> BOOLEAN]
  <2>1. CASE DisableRow(p)
    BY <1>1, <1>2, <2>1 DEF DisableRow
  <2>2. CASE DeleteUser(p)
    BY <1>1, <2>2 DEF DeleteUser
  <2>3. CASE Invalidate(p)
    <3>1. raced' \in [Principals -> BOOLEAN]
      BY <1>1, <2>3 DEF Invalidate
    <3>2. cache' \in [Tokens -> MaybeTime]
      BY <1>1, <1>2, <2>3 DEF Invalidate, invalidate_principal
    <3>. QED BY <1>1, <2>3, <3>1, <3>2 DEF Invalidate
  <2>. QED BY <1>5, <2>1, <2>2, <2>3
<1>6. CASE Tick
  BY <1>1, <1>6, AccessAssumption DEF Tick, Times, revokeVars
<1>7. CASE Restart
  BY <1>1, <1>2, <1>7 DEF Restart
<1>. QED BY <1>1, <1>3, <1>4, <1>5, <1>6, <1>7 DEF WorldStep, revokeVars

-----------------------------------------------------------------------------
(* What a call does.                                                       *)

\* Every initial state satisfies both invariants.
LEMMA InitOK == Init => CallInv /\ RevokeInv
<1>. SUFFICES ASSUME Init PROVE CallInv /\ RevokeInv
  OBVIOUS
<1>1. TypeOK
  BY CallsTyped, AccessAssumption DEF Init, TypeOK, Times, MaybeTime, Rows
<1>2. CallsOK
  BY FreshFields DEF Init, CallsOK, Pinned, Trailed
<1>3. TimesOK /\ RevokedOK /\ NoResidueOfRevoked
  BY FreshFields DEF Init, TimesOK, RevokedOK, NoResidueOfRevoked, TokensOf
<1>. QED BY <1>1, <1>2, <1>3 DEF CallInv, RevokeInv

\* Next, by who acts.
LEMMA NextSplit == Next => (\E c \in Calls : CallStep(c)) \/ WorldStep
  BY DEF Next, CallStep, WorldStep

\* Every step keeps the invariant of calls.
LEMMA NextCallInv == CallInv /\ [Next]_vars => CallInv'
<1>. SUFFICES ASSUME CallInv, [Next]_vars PROVE CallInv'
  OBVIOUS
<1>1. CASE Next
  <2>1. call' \in [Calls -> CallStates] /\ trail' \in [Calls -> Rows] /\ CallsOK'
    BY <1>1, NextSplit, CallKept, WorldCalls
  <2>2. TypeOK'
    BY <1>1, <2>1, NextSplit, OthersTyped DEF CallInv, TypeOK
  <2>. QED BY <2>1, <2>2 DEF CallInv
<1>2. CASE UNCHANGED vars
  BY <1>2 DEF vars, CallInv, TypeOK, CallsOK
<1>. QED BY <1>1, <1>2

\* The invariant of calls holds for ever.
THEOREM CallInvariance == Spec => []CallInv
  BY InitOK, NextCallInv, PTL DEF Spec

\* Types.
THEOREM TypeCorrect == Spec => []TypeOK
<1>1. CallInv => TypeOK
  BY DEF CallInv
<1>. QED BY <1>1, CallInvariance, PTL

\* CaseContextMiddleware and ProxyActiveCaseMiddleware: whichever case a call
\* names and however the active case is switched under it, a tool runs for an
\* agent in the agent's own case, and a case-scoped one in no other way.
THEOREM AgentsStayInTheirCase == Spec => []AgentStaysInItsCase
<1>1. CallInv => AgentStaysInItsCase
  BY DEF CallInv, CallsOK, Pinned, AgentStaysInItsCase, Principal
<1>. QED BY <1>1, CallInvariance, PTL

\* AuditEnvelopeMiddleware: no mutating tool ran unrecorded, although the audit
\* database may fail at any call.
THEOREM MutationsAudited == Spec => []MutationsAreAudited
<1>1. CallInv => MutationsAreAudited
  BY DEF CallInv, CallsOK, Pinned, Trailed, MutationsAreAudited
<1>. QED BY <1>1, CallInvariance, PTL

\* AuditEnvelopeMiddleware: request and receipt name the case the tool ran in,
\* whichever is active when they are written.
THEOREM TrailNamesItsCase == Spec => []TrailNamesTheCase
<1>1. CallInv => TrailNamesTheCase
  BY DEF CallInv, CallsOK, Pinned, Trailed, TrailNamesTheCase
<1>. QED BY <1>1, CallInvariance, PTL

-----------------------------------------------------------------------------
(* Revocation.                                                             *)

\* How identities come and go: a row is read while it is active, cached by the
\* call that read it, and accepted from there or from the cache.
LEMMA CallEffect ==
    ASSUME TypeOK, NEW c \in Calls, CallStep(c)
    PROVE  /\ UNCHANGED <<now, revokeVars>>
           /\ \A d \in Calls : d # c => call'[d] = call[d]
           /\ call'[c].pc = "cache_put" =>
                  /\ call'[c].token \in Tokens
                  /\ call'[c].read = now
                  /\ revoke[Owner[call'[c].token]] = "no"
           /\ \/ \A t \in Tokens : cache'[t] \in {Never, cache[t]}
              \/ /\ call[c].pc = "cache_put"
                 /\ cache' = [cache EXCEPT ![call[c].token] = now + CacheTTL]
           /\ call'[c].pc = "authorize" /\ call[c].pc # "authorize" =>
                  LET t == call'[c].token IN
                  \/ t \in Tokens /\ cache[t] # Never /\ cache[t] > now
                  \/ call[c].pc = "cache_put" /\ t = call[c].token
<1>1. /\ call \in [Calls -> CallStates] /\ call[c] \in CallStates
      /\ cache \in [Tokens -> MaybeTime]
  BY DEF TypeOK
<1>2. Refused.pc = "done"
  BY FreshFields
<1>3. ASSUME NEW t \in Tokens, NEW u \in Tools, NEW a \in MaybeCase, Resolve(c, t, u, a)
      PROVE  /\ \A d \in Calls : d # c => call'[d] = call[d]
             /\ call'[c].pc # "cache_put"
             /\ \A v \in Tokens : cache'[v] \in {Never, cache[v]}
             /\ call'[c].pc = "authorize" =>
                   call'[c].token = t /\ cache[t] # Never /\ cache[t] > now
  <2>1. Made(t, u, a) \in CallStates /\ Made(t, u, a).token = t
    BY CallsTyped, FreshFields
  <2>2. CASE _cache_get(t)
    <3>1. call' = [call EXCEPT ![c] = [Made(t, u, a) EXCEPT !.pc = "authorize", !.read = Never]]
      BY <1>3, <2>2 DEF Resolve, Accept, Made
    <3>2. cache' = cache /\ cache[t] # Never /\ cache[t] > now
      BY <1>3, <2>2 DEF Resolve, _cache_get
    <3>3. call'[c] = [Made(t, u, a) EXCEPT !.pc = "authorize", !.read = Never]
      BY <1>1, <3>1
    <3>4. call'[c].pc = "authorize" /\ call'[c].token = t
      BY <2>1, <3>3 DEF CallStates
    <3>. QED BY <1>1, <3>1, <3>2, <3>4
  <2>3. CASE ~_cache_get(t)
    <3>1. call' = [call EXCEPT ![c] = [Made(t, u, a) EXCEPT !.pc = "get_user"]]
      BY <1>3, <2>3 DEF Resolve, Made
    <3>2. cache' = [cache EXCEPT ![t] = Never]
      BY <1>3, <2>3 DEF Resolve
    <3>3. call'[c].pc = "get_user"
      BY <1>1, <2>1, <3>1 DEF CallStates
    <3>. QED BY <1>1, <3>1, <3>2, <3>3
  <2>. QED BY <2>2, <2>3
<1>4. CASE Lookup(c)
  <2>1. CASE Deny(c)
    BY <1>1, <1>2, <1>4, <2>1 DEF Lookup, Deny
  <2>2. CASE /\ revoke[Principal(c)] = "no"
             /\ call' = [call EXCEPT ![c].pc = "cache_put", ![c].read = now]
    <3>1. call'[c].token = call[c].token /\ call'[c].read = now /\ call'[c].pc = "cache_put"
          /\ call[c].token \in Tokens
      BY <1>1, <2>2 DEF CallStates
    <3>. QED BY <1>1, <1>4, <2>2, <3>1 DEF Lookup, Principal
  <2>. QED BY <1>4, <2>1, <2>2 DEF Lookup
<1>5. CASE CachePut(c)
  <2>1. call' = [call EXCEPT ![c] = [call[c] EXCEPT !.pc = "authorize", !.read = Never]]
    BY <1>5 DEF CachePut, Accept
  <2>2. call'[c].token = call[c].token /\ call'[c].pc = "authorize"
    BY <1>1, <2>1 DEF CallStates
  <2>. QED BY <1>1, <1>5, <2>1, <2>2 DEF CachePut
<1>6. ASSUME NEW s \in {"lookup", "case", "audit", "dispatch", "done"}, Advance(c, s)
      PROVE  (\A d \in Calls : d # c => call'[d] = call[d]) /\ call'[c].pc = s
  BY <1>1, <1>6 DEF Advance, CallStates
<1>7. ASSUME Deny(c)
      PROVE  (\A d \in Calls : d # c => call'[d] = call[d]) /\ call'[c].pc = "done"
  BY <1>1, <1>2, <1>7 DEF Deny
<1>8. CASE GetUser(c) \/ Authorize(c) \/ AuditRequest(c) \/ AuditResult(c)
  BY <1>6, <1>7, <1>8 DEF GetUser, Authorize, AuditRequest, AuditResult
<1>9. CASE CaseContext(c)
  <2>1. CASE call' = [call EXCEPT ![c].pc = "audit", ![c].case = active]
    <3>1. call'[c].pc = "audit" /\ (\A d \in Calls : d # c => call'[d] = call[d])
      BY <1>1, <2>1 DEF CallStates
    <3>. QED BY <1>9, <3>1 DEF CaseContext
  <2>. QED BY <1>6, <1>7, <1>9, <2>1 DEF CaseContext
<1>10. CASE Dispatch(c)
  <2>1. PICK r : call' = [call EXCEPT ![c].pc = "receipt", ![c].ran = r]
    BY <1>10 DEF Dispatch
  <2>2. call'[c].pc = "receipt" /\ (\A d \in Calls : d # c => call'[d] = call[d])
    BY <1>1, <2>1 DEF CallStates
  <2>. QED BY <1>10, <2>2 DEF Dispatch
<1>11. UNCHANGED <<now, revokeVars>>
  BY DEF CallStep, Resolve, GetUser, Lookup, CachePut, Authorize, CaseContext,
     AuditRequest, Dispatch, AuditResult
<1>. QED BY <1>3, <1>4, <1>5, <1>8, <1>9, <1>10, <1>11 DEF CallStep

\* The types that the proofs about revocation use.
LEMMA TimesTyped ==
    ASSUME TypeOK
    PROVE  /\ now \in Nat /\ CacheTTL \in Nat /\ CacheTTL > 0 /\ MaxLag \in Nat
           /\ cache \in [Tokens -> MaybeTime]
           /\ revokedAt \in [Principals -> MaybeTime]
           /\ \A t \in Tokens : cache[t] # Never => cache[t] \in Nat
           /\ \A p \in Principals : revokedAt[p] # Never => revokedAt[p] \in Nat
           /\ \A c \in Calls : call[c].token \in Tokens /\ Principal(c) \in Principals
           /\ \A p \in Principals : TokensOf(p) \subseteq Tokens
  BY AccessAssumption DEF TypeOK, Times, MaybeTime, CallStates, Principal, TokensOf

\* The steps of calls keep the invariant of revocation.
LEMMA CallRevokeInv ==
    ASSUME RevokeInv, NEW c \in Calls, CallStep(c)
    PROVE  TimesOK' /\ RevokedOK' /\ NoResidueOfRevoked'
<1>. USE TimesTyped DEF RevokeInv
<1>1. /\ now' = now /\ revoke' = revoke /\ revokedAt' = revokedAt /\ raced' = raced
      /\ \A d \in Calls : d # c => call'[d] = call[d]
  BY CallEffect DEF revokeVars
<1>2. call'[c].pc = "cache_put" =>
          /\ call'[c].token \in Tokens
          /\ call'[c].read = now
          /\ revoke[Owner[call'[c].token]] = "no"
  BY CallEffect
<1>3. \/ \A t \in Tokens : cache'[t] \in {Never, cache[t]}
      \/ /\ call[c].pc = "cache_put"
         /\ cache' = [cache EXCEPT ![call[c].token] = now + CacheTTL]
  BY CallEffect
<1>4. TimesOK'
  <2>1. ASSUME NEW t \in Tokens, cache'[t] # Never PROVE cache'[t] <= now + CacheTTL
    BY <1>3, <2>1 DEF TimesOK
  <2>2. ASSUME NEW d \in Calls, call'[d].pc = "cache_put"
        PROVE  call'[d].read \in Nat /\ call'[d].read <= now /\ now <= call'[d].read + MaxLag
    <3>1. CASE d = c
      BY <1>2, <2>2, <3>1
    <3>2. CASE d # c
      BY <1>1, <2>2, <3>2 DEF TimesOK
    <3>. QED BY <3>1, <3>2
  <2>. QED BY <1>1, <2>1, <2>2 DEF TimesOK
<1>5. RevokedOK'
  <2>. SUFFICES ASSUME NEW p \in Principals, revokedAt[p] # Never
                PROVE  /\ \A t \in TokensOf(p) : cache'[t] # Never =>
                              cache'[t] <= revokedAt[p] + MaxLag + CacheTTL
                       /\ \A d \in Calls : call'[d].pc = "cache_put" /\ Owner[call'[d].token] = p
                              => call'[d].read <= revokedAt[p]
    BY <1>1 DEF RevokedOK, TokensOf, Principal
  <2>1. ASSUME NEW t \in TokensOf(p), cache'[t] # Never
        PROVE  cache'[t] <= revokedAt[p] + MaxLag + CacheTTL
    <3>1. CASE cache'[t] = cache[t]
      BY <2>1, <3>1 DEF RevokedOK
    <3>2. CASE cache'[t] # cache[t]
      <4>1. call[c].pc = "cache_put" /\ t = call[c].token /\ cache'[t] = now + CacheTTL
        BY <1>3, <2>1, <3>2 DEF TokensOf
      <4>2. call[c].read \in Nat /\ now <= call[c].read + MaxLag
        BY <4>1 DEF TimesOK
      <4>3. call[c].read <= revokedAt[p]
        BY <4>1 DEF RevokedOK, TokensOf, Principal
      <4>. QED BY <4>1, <4>2, <4>3
    <3>. QED BY <3>1, <3>2
  <2>2. ASSUME NEW d \in Calls, call'[d].pc = "cache_put", Owner[call'[d].token] = p
        PROVE  call'[d].read <= revokedAt[p]
    <3>1. CASE d = c
      BY <1>2, <2>2, <3>1 DEF TimesOK
    <3>2. CASE d # c
      BY <1>1, <2>2, <3>2 DEF RevokedOK, Principal
    <3>. QED BY <3>1, <3>2
  <2>. QED BY <2>1, <2>2
<1>6. NoResidueOfRevoked'
  <2>. SUFFICES ASSUME NEW p \in Principals, revoke[p] = "done", ~raced[p]
                PROVE  /\ \A t \in TokensOf(p) : cache'[t] = Never
                       /\ \A d \in Calls : call'[d].pc = "cache_put" => Owner[call'[d].token] # p
    BY <1>1 DEF NoResidueOfRevoked, TokensOf, Principal
  <2>1. /\ \A t \in TokensOf(p) : cache[t] = Never
        /\ \A d \in Calls : call[d].pc = "cache_put" => Owner[call[d].token] # p
    BY DEF NoResidueOfRevoked, Principal
  <2>2. ASSUME NEW t \in TokensOf(p) PROVE cache'[t] = Never
    BY <1>3, <2>1, <2>2 DEF TokensOf
  <2>3. ASSUME NEW d \in Calls, call'[d].pc = "cache_put" PROVE Owner[call'[d].token] # p
    <3>1. CASE d = c
      BY <1>2, <2>3, <3>1
    <3>2. CASE d # c
      BY <1>1, <2>1, <2>3, <3>2
    <3>. QED BY <3>1, <3>2
  <2>. QED BY <2>2, <2>3
<1>. QED BY <1>4, <1>5, <1>6

\* So do operators, time and restarts.
LEMMA WorldRevokeInv ==
    ASSUME CallInv, RevokeInv, WorldStep
    PROVE  TimesOK' /\ RevokedOK' /\ NoResidueOfRevoked'
<1>. USE TimesTyped DEF RevokeInv
<1>0. revoke \in [Principals -> {"no", "disabled", "deleted", "failed", "done"}]
      /\ raced \in [Principals -> BOOLEAN]
  BY DEF TypeOK
<1>1. CASE \E k \in Cases : SetActiveCase(k)
  BY <1>1 DEF SetActiveCase, revokeVars, TimesOK, RevokedOK, NoResidueOfRevoked, Principal, TokensOf
<1>2. ASSUME NEW p \in Principals, DisableRow(p)
      PROVE  TimesOK' /\ RevokedOK' /\ NoResidueOfRevoked'
  <2>1. UNCHANGED <<now, call, cache, raced>> /\ revoke' = [revoke EXCEPT ![p] = "disabled"]
    BY <1>2 DEF DisableRow
  <2>2. revokedAt' = [revokedAt EXCEPT ![p] = IF revokedAt[p] = Never THEN now ELSE revokedAt[p]]
    BY <1>2 DEF DisableRow
  <2>3. now # Never
    BY AccessAssumption
  <2>4. TimesOK'
    BY <1>0, <2>1, <2>2, <2>3 DEF TimesOK
  <2>5. RevokedOK'
    BY <2>1, <2>2 DEF TimesOK, RevokedOK, TokensOf, Principal
  <2>6. NoResidueOfRevoked'
    BY <1>0, <2>1 DEF NoResidueOfRevoked, TokensOf, Principal
  <2>. QED BY <2>4, <2>5, <2>6
<1>3. ASSUME NEW p \in Principals, DeleteUser(p)
      PROVE  TimesOK' /\ RevokedOK' /\ NoResidueOfRevoked'
  <2>1. UNCHANGED <<now, call, cache, raced, revokedAt>> /\ revoke[p] = "disabled"
    BY <1>3 DEF DeleteUser
  <2>2. PICK r \in {"deleted", "failed"} : revoke' = [revoke EXCEPT ![p] = r]
    BY <1>3 DEF DeleteUser
  <2>3. TimesOK'
    BY <1>0, <2>1, <2>2 DEF TimesOK
  <2>4. RevokedOK'
    BY <2>1 DEF RevokedOK, TokensOf, Principal
  <2>5. NoResidueOfRevoked'
    BY <1>0, <2>1, <2>2 DEF NoResidueOfRevoked, TokensOf, Principal
  <2>. QED BY <2>3, <2>4, <2>5
<1>4. ASSUME NEW p \in Principals, Invalidate(p)
      PROVE  TimesOK' /\ RevokedOK' /\ NoResidueOfRevoked'
  <2>1. UNCHANGED <<now, call, revokedAt>> /\ revoke[p] = "deleted"
        /\ revoke' = [revoke EXCEPT ![p] = "done"]
    BY <1>4 DEF Invalidate
  <2>2. cache' = [t \in Tokens |-> IF Owner[t] = p THEN Never ELSE cache[t]]
    BY <1>4 DEF Invalidate, invalidate_principal
  <2>3. raced' = [raced EXCEPT ![p] =
                     \E c \in Calls : Principal(c) = p /\ call[c].pc = "cache_put"]
    BY <1>4 DEF Invalidate
  <2>4. TimesOK'
    BY <1>0, <2>1, <2>2 DEF TimesOK
  <2>5. RevokedOK'
    BY <2>1, <2>2 DEF RevokedOK, TokensOf, Principal
  <2>6. NoResidueOfRevoked'
    <3>. SUFFICES ASSUME NEW q \in Principals, revoke'[q] = "done", ~raced'[q]
                  PROVE  /\ \A t \in TokensOf(q) : cache'[t] = Never
                         /\ \A d \in Calls : call[d].pc = "cache_put" => Owner[call[d].token] # q
      BY <2>1 DEF NoResidueOfRevoked, TokensOf, Principal
    <3>1. CASE q = p
      <4>1. ~\E c \in Calls : Principal(c) = p /\ call[c].pc = "cache_put"
        BY <1>0, <2>3, <3>1
      <4>. QED BY <2>2, <3>1, <4>1 DEF TokensOf, Principal
    <3>2. CASE q # p
      <4>1. revoke[q] = "done" /\ ~raced[q]
        BY <1>0, <2>1, <2>3, <3>2
      <4>. QED BY <2>2, <4>1 DEF NoResidueOfRevoked, TokensOf, Principal
    <3>. QED BY <3>1, <3>2
  <2>. QED BY <2>4, <2>5, <2>6
<1>5. CASE Tick
  <2>1. /\ UNCHANGED <<call, cache, revoke, revokedAt, raced>> /\ now' = now + 1
        /\ \A c \in Calls : call[c].pc = "cache_put" => now < call[c].read + MaxLag
    BY <1>5 DEF Tick, revokeVars
  <2>2. TimesOK'
    <3>1. ASSUME NEW c \in Calls, call[c].pc = "cache_put"
          PROVE  /\ call[c].read \in Nat
                 /\ call[c].read <= now + 1
                 /\ now + 1 <= call[c].read + MaxLag
      BY <2>1, <3>1 DEF TimesOK
    <3>2. ASSUME NEW t \in Tokens, cache[t] # Never PROVE cache[t] <= (now + 1) + CacheTTL
      BY <3>2 DEF TimesOK
    <3>. QED BY <2>1, <3>1, <3>2 DEF TimesOK
  <2>3. RevokedOK' /\ NoResidueOfRevoked'
    BY <2>1 DEF RevokedOK, NoResidueOfRevoked, TokensOf, Principal
  <2>. QED BY <2>2, <2>3
<1>6. CASE Restart
  <2>1. /\ UNCHANGED <<now, revokedAt, raced>>
        /\ cache' = [t \in Tokens |-> Never]
        /\ revoke' = [p \in Principals |->
               IF revoke[p] \in {"disabled", "deleted"} THEN "failed" ELSE revoke[p]]
    BY <1>6 DEF Restart
  <2>2. \A c \in Calls : call'[c].pc # "cache_put"
    BY <1>6, RestartCalls
  <2>3. TimesOK'
    BY <1>0, <2>1, <2>2 DEF TimesOK
  <2>4. RevokedOK' /\ NoResidueOfRevoked'
    BY <2>1, <2>2 DEF RevokedOK, NoResidueOfRevoked, TokensOf
  <2>. QED BY <2>3, <2>4
<1>. QED BY <1>1, <1>2, <1>3, <1>4, <1>5, <1>6 DEF WorldStep

\* The invariant of revocation holds for ever.
LEMMA NextRevokeInv == CallInv /\ RevokeInv /\ [Next]_vars => RevokeInv'
<1>. SUFFICES ASSUME CallInv, RevokeInv, [Next]_vars PROVE RevokeInv'
  OBVIOUS
<1>1. CASE Next
  BY <1>1, NextSplit, NextCallInv, CallRevokeInv, WorldRevokeInv DEF RevokeInv, CallInv
<1>2. CASE UNCHANGED vars
  BY <1>2 DEF vars, RevokeInv, TypeOK, TimesOK, RevokedOK, NoResidueOfRevoked, TokensOf, Principal
<1>. QED BY <1>1, <1>2

\* Lookup, CachePut, the three steps of revoke_principal and the clock keep
\* what is known of calls, of cached identities and of their times.
THEOREM RevokeInvariance == Spec => [](CallInv /\ RevokeInv)
<1>1. CallInv /\ RevokeInv /\ [Next]_vars => (CallInv /\ RevokeInv)'
  BY NextCallInv, NextRevokeInv
<1>. QED BY <1>1, InitOK, PTL DEF Spec

\* revoke_principal: when it has returned, no identity of the principal is in
\* the cache or on its way there, but for a resolution it overtook.
THEOREM NothingLeftOfRevoked == Spec => []NoResidueOfRevoked
<1>1. RevokeInv => NoResidueOfRevoked
  BY DEF RevokeInv
<1>. QED BY <1>1, RevokeInvariance, PTL

\* What DeniedWithinTTL says of a step.
TimelyStep ==
    \A c \in Calls :
        LET at == revokedAt[Owner[call'[c].token]]
            accepted == call'[c].pc = "authorize" /\ call[c].pc # "authorize"
        IN accepted /\ at # Never => now < at + MaxLag + CacheTTL

\* Who is accepted was cached or read in time.
LEMMA AcceptedInTime == CallInv /\ RevokeInv /\ [Next]_vars => TimelyStep
<1>. SUFFICES ASSUME CallInv, RevokeInv, [Next]_vars, NEW c \in Calls,
                     call'[c].pc = "authorize", call[c].pc # "authorize",
                     revokedAt[Owner[call'[c].token]] # Never
              PROVE  now < revokedAt[Owner[call'[c].token]] + MaxLag + CacheTTL
  BY DEF TimelyStep
<1>. USE TimesTyped DEF RevokeInv
<1>1. CallStep(c)
  <2>1. ASSUME NEW d \in Calls, CallStep(d) PROVE d = c
    BY <2>1, CallEffect
  <2>2. ~WorldStep
    BY RestartCalls DEF WorldStep, SetActiveCase, DisableRow, DeleteUser, Invalidate, Tick
  <2>3. ~UNCHANGED vars
    BY DEF vars
  <2>. QED BY <2>1, <2>2, <2>3, NextSplit
<1>. DEFINE t == call'[c].token
<1>2. CASE t \in Tokens /\ cache[t] # Never /\ cache[t] > now
  <2>1. Owner[t] \in Principals /\ t \in TokensOf(Owner[t])
    BY <1>2, AccessAssumption DEF TokensOf
  <2>2. cache[t] <= revokedAt[Owner[t]] + MaxLag + CacheTTL
    BY <1>2, <2>1 DEF RevokedOK
  <2>. QED BY <1>2, <2>1, <2>2
<1>3. CASE call[c].pc = "cache_put" /\ t = call[c].token
  <2>1. call[c].read \in Nat /\ now <= call[c].read + MaxLag
    BY <1>3 DEF TimesOK
  <2>2. Owner[t] \in Principals /\ call[c].read <= revokedAt[Owner[t]]
    BY <1>3 DEF RevokedOK, Principal
  <2>. QED BY <2>1, <2>2
<1>. QED BY <1>1, <1>2, <1>3, CallEffect

\* admin_revoke_user: issued tokens "are denied within the resolver cache TTL" of
\* the revocation of the row, plus the lag between reading and caching a row.
THEOREM DeniedInTime == Spec => DeniedWithinTTL
<1>1. CallInv /\ RevokeInv /\ [Next]_vars => [TimelyStep]_vars
  BY AcceptedInTime
<1>2. Spec => [][TimelyStep]_vars
  BY <1>1, RevokeInvariance, PTL DEF Spec
<1>. QED BY <1>2 DEF DeniedWithinTTL, TimelyStep

=============================================================================
