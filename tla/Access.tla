-------------------------------- MODULE Access --------------------------------
(***************************************************************************)
(* An agent's tool call on its way to a tool: the token is resolved to a   *)
(* principal (supabase_auth.py), the principal's rate and tool scopes are  *)
(* checked, the active case is pinned, the call is recorded in the audit   *)
(* trail, bound to its case and answered (policy_middleware.py).           *)
(*                                                                         *)
(* Meanwhile operators revoke principals and switch the active case, time  *)
(* passes, Supabase and the audit database fail, and the gateway restarts. *)
(* Calls are coroutines of one event loop: what happens between two awaits *)
(* is one action.  Every principal has been issued; the evidence gate that *)
(* follows the audit envelope is in Custody.                               *)
(***************************************************************************)
EXTENDS Naturals

CONSTANTS
    Principals, Tokens, Cases, Tools,
    Calls,           \* tool calls, each made once
    Owner,           \* Owner[t]: the principal a token was issued to
    HomeCase,        \* HomeCase[p]: default_case_id of an agent
    Scopes,          \* Scopes[p]: the tools its active tool scopes allow
    Mutating,        \* the tools that change something
    CaseScoped,      \* the tools that work in the active case
    Proxied,         \* the tools of add-on backends, which take a case argument
    CacheTTL,        \* principal_cache_ttl_seconds
    MaxLag,          \* bound on the time between reading a row and caching it
    MaxTime,         \* bound on the clock
    NoCase, Never

Times == 0 .. MaxTime

ASSUME AccessAssumption ==
    /\ Tokens # {} /\ Tools # {}
    /\ Owner \in [Tokens -> Principals]
    /\ HomeCase \in [Principals -> Cases]
    /\ Scopes \in [Principals -> SUBSET Tools]
    /\ Mutating \subseteq Tools
    /\ CaseScoped \subseteq Tools
    /\ Proxied \subseteq Tools
    /\ CacheTTL \in Nat \ {0}
    /\ MaxLag \in Nat
    /\ MaxTime \in Nat
    /\ NoCase \notin Cases
    /\ Never \notin Nat

VARIABLES
    now,        \* time.monotonic()
    call,       \* call[c]: the progress of a tool call
    cache,      \* cache[t]: when the cached identity of a token expires
    active,     \* app.active_case_state
    trail,      \* trail[c]: the cases that the audit rows of a call name
    user,       \* user[p]: the principal's user exists in Supabase
    revoke,     \* revoke[p]: the progress of the principal's revocation
    revokedAt,  \* when its row was set to 'revoked'
    raced       \* a resolution was under way when its revocation ended

vars == <<now, call, cache, active, trail, user, revoke,
          revokedAt, raced>>

MaybeCase == Cases \cup {NoCase}
MaybeTime == Nat \cup {Never}

\* The awaits a call stops at, in their order.
Stages == {"idle", "get_user", "lookup", "cache_put", "authorize", "case",
           "audit", "dispatch", "receipt", "done"}

\* read: when its principal's row was read.
CallStates ==
    [pc: Stages, token: Tokens, tool: Tools, arg: MaybeCase, read: MaybeTime,
     case: MaybeCase, ran: MaybeCase \cup {Never}]

Rows == [requested: SUBSET MaybeCase, result: SUBSET MaybeCase]

TypeOK ==
    /\ now \in Times
    /\ call \in [Calls -> CallStates]
    /\ cache \in [Tokens -> MaybeTime]
    /\ active \in MaybeCase
    /\ trail \in [Calls -> Rows]
    /\ user \in [Principals -> BOOLEAN]
    /\ revoke \in [Principals -> {"no", "disabled", "deleted", "failed", "done"}]
    /\ revokedAt \in [Principals -> MaybeTime]
    /\ raced \in [Principals -> BOOLEAN]

Idle == [pc |-> "idle", token |-> CHOOSE t \in Tokens : TRUE,
         tool |-> CHOOSE u \in Tools : TRUE, arg |-> NoCase, read |-> Never,
         case |-> NoCase, ran |-> Never]

Init ==
    /\ now = 0
    /\ call = [c \in Calls |-> Idle]
    /\ cache = [t \in Tokens |-> Never]
    /\ active \in MaybeCase
    /\ trail = [c \in Calls |-> [requested |-> {}, result |-> {}]]
    /\ user = [p \in Principals |-> TRUE]
    /\ revoke = [p \in Principals |-> "no"]
    /\ revokedAt = [p \in Principals |-> Never]
    /\ raced = [p \in Principals |-> FALSE]

Principal(c) == Owner[call[c].token]

revokeVars == <<user, revoke, revokedAt, raced>>

\* Call c goes on to stage s, or is refused.
Advance(c, s) == call' = [call EXCEPT ![c].pc = s]

Refused == [Idle EXCEPT !.pc = "done"]

Deny(c) == call' = [call EXCEPT ![c] = Refused]

-----------------------------------------------------------------------------
(* SupabasePrincipalResolver.resolve, called by SiftTokenVerifier.         *)

Accept(c, u) ==
    call' = [call EXCEPT ![c] = [u EXCEPT !.pc = "authorize", !.read = Never]]

\* A fault: an entry that expires now is served.
CacheGetLate(t) == cache[t] # Never /\ cache[t] >= now

_cache_get(t) == cache[t] # Never /\ cache[t] > now

\* A call arrives with a token, a tool and perhaps a case argument.
Resolve(c, t, u, a) ==
    /\ call[c].pc = "idle"
    /\ a # NoCase => u \in Proxied
    /\ LET made == [Idle EXCEPT !.token = t, !.tool = u, !.arg = a] IN
       IF _cache_get(t)
       THEN /\ Accept(c, made)
            /\ UNCHANGED cache
       ELSE /\ call' = [call EXCEPT ![c] = [made EXCEPT !.pc = "get_user"]]
            /\ cache' = [cache EXCEPT ![t] = Never]
    /\ UNCHANGED <<now, active, trail, revokeVars>>

\* get_user: Supabase rejects the tokens of deleted users, and may be down.
GetUser(c) ==
    /\ call[c].pc = "get_user"
    /\ \/ user[Principal(c)] /\ Advance(c, "lookup")
       \/ Deny(c)
    /\ UNCHANGED <<now, cache, active, trail, revokeVars>>

\* lookup_by_auth_user_id, in a thread; only active principals pass.
Lookup(c) ==
    /\ call[c].pc = "lookup"
    /\ IF revoke[Principal(c)] = "no"
       THEN call' = [call EXCEPT ![c].pc = "cache_put", ![c].read = now]
       ELSE Deny(c)
    /\ UNCHANGED <<now, cache, active, trail, revokeVars>>

CachePut(c) ==
    /\ call[c].pc = "cache_put"
    /\ cache' = [cache EXCEPT ![call[c].token] = now + CacheTTL]
    /\ Accept(c, call[c])
    /\ UNCHANGED <<now, active, trail, revokeVars>>

-----------------------------------------------------------------------------
(* The policy middleware, from the outermost inwards.                      *)

\* ToolAuthorizationMiddleware: the principal's rate, which may be used up,
\* and its tool scopes.
Authorize(c) ==
    /\ call[c].pc = "authorize"
    /\ \/ call[c].tool \in Scopes[Principal(c)] /\ Advance(c, "case")
       \/ Deny(c)
    /\ UNCHANGED <<now, cache, active, trail, revokeVars>>

\* A fault: any active case is everybody's.
MemberOfAny(p, k) == k # NoCase

\* membership_role: an agent belongs to its default case.
Member(p, k) == k # NoCase /\ HomeCase[p] = k

\* CaseContextMiddleware: require_active_case_for_principal.  Without a case
\* only the tools that need none go on.
CaseContext(c) ==
    /\ call[c].pc = "case"
    /\ \/ /\ Member(Principal(c), active)
          /\ call' = [call EXCEPT ![c].pc = "audit", ![c].case = active]
       \/ /\ ~Member(Principal(c), active)
          /\ call[c].tool \notin CaseScoped
          /\ Advance(c, "audit")
       \/ /\ ~Member(Principal(c), active)
          /\ call[c].tool \in CaseScoped
          /\ Deny(c)
    /\ UNCHANGED <<now, cache, active, trail, revokeVars>>

\* A fault: the call goes on without its row whatever the tool.
ProceedAlways(c) == TRUE

ProceedUnrecorded(c) == call[c].tool \notin Mutating

\* AuditEnvelopeMiddleware before the dispatch: the row must be written for
\* a mutating tool, and may be missing for the others.
AuditRequest(c) ==
    /\ call[c].pc = "audit"
    /\ \/ /\ trail' = [trail EXCEPT ![c].requested = {call[c].case}]
          /\ Advance(c, "dispatch")
       \/ /\ UNCHANGED trail
          /\ IF ProceedUnrecorded(c) THEN Advance(c, "dispatch") ELSE Deny(c)
    /\ UNCHANGED <<now, cache, active, revokeVars>>

\* ProxyActiveCaseMiddleware refuses a case argument that names another case
\* and injects the pinned case; a core tool reads the pinned case.
Dispatch(c) ==
    /\ call[c].pc = "dispatch"
    /\ LET mine == call[c].case
           refused == /\ call[c].tool \in CaseScoped \cap Proxied
                      /\ call[c].arg \notin {NoCase, mine}
       IN call' = [call EXCEPT ![c].pc = "receipt",
                               ![c].ran = IF refused THEN Never ELSE mine]
    /\ UNCHANGED <<now, cache, active, trail, revokeVars>>

\* A fault: the receipt names the case that is active by then.
ReceiptCaseNow(c) == active

ReceiptCase(c) == call[c].case

\* AuditEnvelopeMiddleware after the dispatch: the receipt is best effort.
AuditResult(c) ==
    /\ call[c].pc = "receipt"
    /\ \/ trail' = [trail EXCEPT ![c].result = {ReceiptCase(c)}]
       \/ UNCHANGED trail
    /\ Advance(c, "done")
    /\ UNCHANGED <<now, cache, active, revokeVars>>

-----------------------------------------------------------------------------
(* Operators, and the world.                                               *)

\* set_active_case, by an operator with a role that may write.
SetActiveCase(k) ==
    /\ active' = k
    /\ UNCHANGED <<now, call, cache, trail, revokeVars>>

\* revoke_principal: _disable_principal_row ...
DisableRow(p) ==
    /\ revoke[p] \in {"no", "failed", "done"}
    /\ revoke' = [revoke EXCEPT ![p] = "disabled"]
    /\ revokedAt' = [revokedAt EXCEPT ![p] = IF @ = Never THEN now ELSE @]
    /\ UNCHANGED <<now, call, cache, active, trail, user, raced>>

\* ... then admin_revoke_user, which may fail with or without effect: the
\* operator is told and may try again ...
DeleteUser(p) ==
    /\ revoke[p] = "disabled"
    /\ \/ /\ user' = [user EXCEPT ![p] = FALSE]
          /\ revoke' = [revoke EXCEPT ![p] = "deleted"]
       \/ /\ user' \in {user, [user EXCEPT ![p] = FALSE]}
          /\ revoke' = [revoke EXCEPT ![p] = "failed"]
    /\ UNCHANGED <<now, call, cache, active, trail, revokedAt, raced>>

TokensOf(p) == {t \in Tokens : Owner[t] = p}

\* A fault: one cached identity is dropped.
InvalidateOne(p) ==
    [t \in Tokens |-> IF Owner[t] = p /\ t = CHOOSE u \in TokensOf(p) : TRUE
                      THEN Never ELSE cache[t]]

\* A fault: the tokens are forgotten with their identities.
InvalidateForgets(p) == [t \in Tokens \ TokensOf(p) |-> cache[t]]

invalidate_principal(p) ==
    [t \in Tokens |-> IF Owner[t] = p THEN Never ELSE cache[t]]

\* ... and the cached identities of all its tokens are dropped.
Invalidate(p) ==
    /\ revoke[p] = "deleted"
    /\ cache' = invalidate_principal(p)
    /\ revoke' = [revoke EXCEPT ![p] = "done"]
    /\ raced' = [raced EXCEPT ![p] =
                     \E c \in Calls : Principal(c) = p /\ call[c].pc = "cache_put"]
    /\ UNCHANGED <<now, call, active, trail, user, revokedAt>>

\* Time passes; a row that was read is cached within MaxLag.
Tick ==
    /\ now < MaxTime
    /\ \A c \in Calls : call[c].pc = "cache_put" => now < call[c].read + MaxLag
    /\ now' = now + 1
    /\ UNCHANGED <<call, cache, active, trail, revokeVars>>

\* A restart of the gateway loses its cache, the calls under way and a
\* revocation's remaining steps.
Restart ==
    /\ call' = [c \in Calls |->
           [call[c] EXCEPT !.pc = IF @ = "idle" THEN "idle" ELSE "done"]]
    /\ cache' = [t \in Tokens |-> Never]
    /\ revoke' = [p \in Principals |->
           IF revoke[p] \in {"disabled", "deleted"} THEN "failed" ELSE revoke[p]]
    /\ UNCHANGED <<now, active, trail, user, revokedAt, raced>>

Next ==
    \/ \E c \in Calls :
          \/ \E t \in Tokens, u \in Tools, a \in MaybeCase : Resolve(c, t, u, a)
          \/ GetUser(c)
          \/ Lookup(c)
          \/ CachePut(c)
          \/ Authorize(c)
          \/ CaseContext(c)
          \/ AuditRequest(c)
          \/ Dispatch(c)
          \/ AuditResult(c)
    \/ \E k \in Cases : SetActiveCase(k)
    \/ \E p \in Principals : DisableRow(p) \/ DeleteUser(p) \/ Invalidate(p)
    \/ Tick
    \/ Restart

Spec == Init /\ [][Next]_vars

-----------------------------------------------------------------------------
(* Properties.                                                             *)

\* admin_revoke_user promises that issued access tokens "are denied within
\* the resolver cache TTL": whatever was cached, in flight, retried or failed,
\* no token of a principal is accepted CacheTTL after its row was revoked, up
\* to the lag between reading the row and caching it.
DeniedWithinTTL ==
    [][\A c \in Calls :
          LET at == revokedAt[Owner[call'[c].token]]
              accepted == call'[c].pc = "authorize" /\ call[c].pc # "authorize"
          IN accepted /\ at # Never => now < at + MaxLag + CacheTTL]_vars

\* revoke_principal drops every cached identity of the principal: once it has
\* returned, no token of it is in the cache or on its way there, unless a
\* resolution had read the row before and was still to cache it.
NoResidueOfRevoked ==
    \A p \in Principals :
        revoke[p] = "done" /\ ~raced[p] =>
            /\ \A t \in TokensOf(p) : cache[t] = Never
            /\ \A c \in Calls : call[c].pc = "cache_put" => Principal(c) # p

\* CaseContextMiddleware and ProxyActiveCaseMiddleware: a case-scoped tool ran
\* for an agent in the agent's own case and nowhere else, whichever case its
\* argument named and whichever was made active while the call was under way.
AgentStaysInItsCase ==
    \A c \in Calls :
        call[c].ran # Never =>
            /\ call[c].ran \in {NoCase, HomeCase[Principal(c)]}
            /\ call[c].tool \in CaseScoped => call[c].ran # NoCase

\* AuditEnvelopeMiddleware: what a mutating tool did was recorded before it
\* ran, under the case it ran in.
MutationsAreAudited ==
    \A c \in Calls :
        call[c].ran # Never /\ call[c].tool \in Mutating
            => trail[c].requested = {call[c].ran}

\* The rows of a call agree: the receipt names the case the tool ran in and
\* the request was recorded under, not the one active when it is written.
TrailNamesTheCase ==
    \A c \in Calls :
        call[c].ran # Never
            => trail[c].requested \cup trail[c].result \subseteq {call[c].ran}

=============================================================================
