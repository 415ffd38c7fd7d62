----------------------------- MODULE OpenCTIClient -----------------------------
(***************************************************************************)
(* The OpenCTI client (opencti_mcp/client.py): searches for indicators and *)
(* health checks in threads that share a connection, a circuit breaker and *)
(* a response cache, against a server that goes away, comes back, refuses  *)
(* the token or has another major version.                                 *)
(*                                                                         *)
(* Time is kept as what has lapsed: the breaker's recovery timeout, the    *)
(* cache entry and the health result.  One query, so one entry; the other  *)
(* queries show as the eviction of that entry.  The rate limiter may       *)
(* refuse any search.  The server, and a session's death with it, are      *)
(* external.                                                               *)
(***************************************************************************)
EXTENDS Naturals, FiniteSetsExt

CONSTANTS
    Requests,           \* the threads that ask
    failure_threshold,
    max_retries,
    response_caching,    \* the feature flag FF_RESPONSE_CACHING
    graceful_degradation \* the feature flag FF_GRACEFUL_DEGRADATION

ASSUME ClientAssumption ==
    /\ failure_threshold \in Nat \ {0}
    /\ max_retries \in Nat
    /\ response_caching \in BOOLEAN
    /\ graceful_degradation \in BOOLEAN

VARIABLES
    server,    \* the OpenCTI server
    client,    \* _client: none, or a session that is live or has died
    breaker,   \* the circuit breaker; ripe: recovery_timeout has passed
    degraded,  \* _degraded
    cache,     \* the entry of the query in _search_cache
    health,    \* _health_cache holds a result of the last HEALTH_CHECK_TTL
    req,       \* req[r]: what a thread is doing
    known      \* a search was answered, and the entry not evicted since

vars == <<server, client, breaker, degraded, cache, health, req, known>>

Sessions == {"none", "live", "dead"}

\* "mismatch": the server is up, with another major version than pycti's.
Servers == {"up", "down", "denied", "mismatch"}

TypeOK ==
    /\ server \in Servers
    /\ client \in Sessions
    /\ breaker \in [state: {"CLOSED", "OPEN", "HALF_OPEN"},
                    failures: 0 .. failure_threshold, ripe: BOOLEAN]
    /\ degraded \in BOOLEAN
    /\ cache \in {"none", "fresh", "expired"}
    /\ health \in BOOLEAN
    /\ req \in [Requests ->
           [pc: {"idle", "execute", "connect", "query", "backoff"},
            kind: {"search", "health"}, attempt: 0 .. max_retries,
            session: Sessions, auth: BOOLEAN,
            last: {"none", "answered", "limited", "failed"}]]
    /\ known \in BOOLEAN

Idle(outcome) == [pc |-> "idle", kind |-> "search", attempt |-> 0,
                  session |-> "none", auth |-> FALSE, last |-> outcome]

-----------------------------------------------------------------------------
(* CircuitBreaker.  Counts past the threshold are not told apart.          *)

Closed == [state |-> "CLOSED", failures |-> 0, ripe |-> FALSE]

\* A fault: a half-open circuit forgets the failures.
StateForgets(b) ==
    IF b.state = "OPEN" /\ b.ripe
    THEN [b EXCEPT !.state = "HALF_OPEN", !.failures = 0] ELSE b

\* The property state, which turns an open circuit half-open.
state(b) ==
    IF b.state = "OPEN" /\ b.ripe THEN [b EXCEPT !.state = "HALF_OPEN"] ELSE b

allow_request(b) == state(b).state # "OPEN"

record_failure(b) ==
    LET n == Min({b.failures + 1, failure_threshold}) IN
    [state |-> IF n >= failure_threshold THEN "OPEN" ELSE b.state,
     failures |-> n, ripe |-> FALSE]

record_success(b) == [Closed EXCEPT !.ripe = b.ripe]

-----------------------------------------------------------------------------
(* Start.  validate_startup probes the server: unreachable means degraded, *)
(* and every failure counts.  The probe does not ask for the same major    *)
(* version, but its query may fail on another.                             *)

StartDegraded(s) == s = "down"

StartBreakers(s) ==
    CASE s = "up" -> {Closed}
      [] s = "mismatch" -> {Closed, record_failure(Closed)}
      [] OTHER -> {record_failure(Closed)}

Init ==
    /\ server \in Servers
    /\ degraded = StartDegraded(server)
    /\ breaker \in StartBreakers(server)
    /\ client = "none"
    /\ cache = "none"
    /\ health = FALSE
    /\ req = [r \in Requests |-> Idle("none")]
    /\ known = FALSE

Restart ==
    /\ degraded' = StartDegraded(server)
    /\ breaker' \in StartBreakers(server)
    /\ client' = "none"
    /\ cache' = "none"
    /\ health' = FALSE
    /\ req' = [r \in Requests |-> Idle("none")]
    /\ known' = FALSE
    /\ UNCHANGED server

-----------------------------------------------------------------------------
(* Requests.                                                               *)

\* _get_fallback: any entry, however old.
_get_fallback == graceful_degradation /\ cache # "none"

Failed(r) == [req EXCEPT ![r] = Idle(IF @.kind = "search" /\ _get_fallback
                                     THEN "answered" ELSE "failed")]

\* search_indicators up to the call: a fresh entry answers, an open circuit
\* falls back, the rate limiter may refuse.
Search(r) ==
    /\ req[r].pc = "idle"
    /\ IF response_caching /\ cache = "fresh"
       THEN /\ req' = [req EXCEPT ![r] = Idle("answered")]
            /\ UNCHANGED breaker
       ELSE /\ breaker' = state(breaker)
            /\ \/ /\ ~allow_request(breaker)
                  /\ req' = Failed(r)
               \/ /\ allow_request(breaker)
                  /\ req' = [req EXCEPT ![r] = [Idle("none") EXCEPT !.pc = "execute"]]
    /\ UNCHANGED <<server, client, degraded, cache, health, known>>

RateLimited(r) ==
    /\ req[r].pc = "idle"
    /\ ~(response_caching /\ cache = "fresh")
    /\ allow_request(breaker)
    /\ breaker' = state(breaker)
    /\ req' = [req EXCEPT ![r] = Idle("limited")]
    /\ UNCHANGED <<server, client, degraded, cache, health, known>>

\* is_available: one attempt, unless a recent result is known.
IsAvailable(r) ==
    /\ req[r].pc = "idle"
    /\ breaker' = state(breaker)
    /\ req' = IF allow_request(breaker) /\ ~health
              THEN [req EXCEPT ![r] = [Idle("none") EXCEPT !.pc = "connect",
                                                           !.kind = "health"]]
              ELSE req
    /\ UNCHANGED <<server, client, degraded, cache, health, known>>

\* _execute_with_retry asks the breaker again; another thread may have
\* opened it in between.
Execute(r) ==
    /\ req[r].pc = "execute"
    /\ breaker' = state(breaker)
    /\ req' = IF allow_request(breaker) THEN [req EXCEPT ![r].pc = "connect"] ELSE Failed(r)
    /\ UNCHANGED <<server, client, degraded, cache, health, known>>

RetryLeftOver(r) == req[r].attempt <= max_retries  \* a fault: one retry more

RetryLeft(r) == req[r].attempt < max_retries

\* An attempt fails with a transient error, which may be an auth error too (an
\* HTTPError with status 401): a search tries again while it has retries left,
\* a health check never does.
Transient(r, auth) ==
    IF req[r].kind = "search" /\ RetryLeft(r)
    THEN /\ req' = [req EXCEPT ![r].pc = "backoff", ![r].auth = auth]
         /\ UNCHANGED breaker
    ELSE /\ req' = Failed(r)
         /\ breaker' = record_failure(breaker)

\* connect: a degraded client refuses, a missing session is made.  A server of
\* another major version is refused, unless its version cannot be read.
Connect(r) ==
    /\ req[r].pc = "connect"
    /\ \/ /\ degraded \/ (client = "none" /\ server = "mismatch")
          /\ breaker' = record_failure(breaker)
          /\ req' = Failed(r)
          /\ UNCHANGED client
       \/ /\ ~degraded
          /\ client = "none"
          /\ server \in {"down", "denied"}
          /\ Transient(r, FALSE)
          /\ UNCHANGED client
       \/ /\ ~degraded
          /\ client # "none" \/ server \in {"up", "mismatch"}
          /\ client' = IF client = "none" THEN "live" ELSE client
          /\ req' = [req EXCEPT ![r].pc = "query", ![r].session = client']
          /\ UNCHANGED breaker
    /\ UNCHANGED <<server, degraded, cache, health, known>>

\* The query on the session that connect returned.  A server of another major
\* version may reject it as invalid, which is neither transient nor auth.
Query(r) ==
    LET live == req[r].session = "live"
        searching == req[r].kind = "search"
    IN
    /\ req[r].pc = "query"
    /\ \/ /\ live /\ server \in {"up", "mismatch"}
          /\ breaker' = record_success(breaker)
          /\ req' = [req EXCEPT ![r] = Idle("answered")]
          /\ cache' = IF searching /\ response_caching THEN "fresh" ELSE cache
          /\ health' = (health \/ ~searching)
          /\ known' = (known \/ searching)
       \/ /\ live /\ server = "denied"
          /\ breaker' = IF searching THEN breaker ELSE record_failure(breaker)
          /\ req' = Failed(r)
          /\ UNCHANGED <<cache, health, known>>
       \/ /\ live /\ server = "mismatch"
          /\ breaker' = record_failure(breaker)
          /\ req' = Failed(r)
          /\ UNCHANGED <<cache, health, known>>
       \/ /\ live /\ server = "denied"
          /\ Transient(r, TRUE)
          /\ UNCHANGED <<cache, health, known>>
       \/ /\ ~live \/ server = "down"
          /\ Transient(r, FALSE)
          /\ UNCHANGED <<cache, health, known>>
    /\ UNCHANGED <<server, client, degraded>>

ClientKept(r) == client  \* a fault: the session that failed is used again

\* The shared session is dropped, whoever made it, but not for an auth error.
ClientDropped(r) == IF req[r].auth THEN client ELSE "none"

\* After the delay comes the next attempt.
Backoff(r) ==
    /\ req[r].pc = "backoff"
    /\ client' = ClientDropped(r)
    /\ req' = [req EXCEPT ![r].pc = "connect", ![r].attempt = @ + 1, ![r].auth = FALSE]
    /\ UNCHANGED <<server, breaker, degraded, cache, health, known>>

-----------------------------------------------------------------------------
(* Time and the server.                                                    *)

RecoveryTimeout ==
    /\ breaker.state = "OPEN" /\ ~breaker.ripe
    /\ breaker' = [breaker EXCEPT !.ripe = TRUE]
    /\ UNCHANGED <<server, client, degraded, cache, health, req, known>>

ExpiredGone == "none"  \* a fault: an expired entry is deleted

\* TTLCache keeps an expired entry for get_stale.
Expired == "expired"

CacheExpires ==
    /\ cache = "fresh"
    /\ cache' = Expired
    /\ UNCHANGED <<server, client, breaker, degraded, health, req, known>>

\* The entries of other queries reach max_size and push this one out.
Evict ==
    /\ cache # "none"
    /\ cache' = "none"
    /\ known' = FALSE
    /\ UNCHANGED <<server, client, breaker, degraded, health, req>>

HealthExpires ==
    /\ health
    /\ health' = FALSE
    /\ UNCHANGED <<server, client, breaker, degraded, cache, req, known>>

\* An outage kills the sessions.
ServerChanges(s) ==
    LET after(h) == IF s = "down" /\ h = "live" THEN "dead" ELSE h IN
    /\ server # s
    /\ server' = s
    /\ client' = after(client)
    /\ req' = [r \in Requests |-> [req[r] EXCEPT !.session = after(@)]]
    /\ UNCHANGED <<breaker, degraded, cache, health, known>>

Step(r) == Execute(r) \/ Connect(r) \/ Query(r) \/ Backoff(r)

Next ==
    \/ \E r \in Requests : Search(r) \/ RateLimited(r) \/ IsAvailable(r) \/ Step(r)
    \/ RecoveryTimeout
    \/ CacheExpires
    \/ Evict
    \/ HealthExpires
    \/ \E s \in Servers : ServerChanges(s)
    \/ Restart

\* Every call ends, time passes, and agents keep searching.
Fairness ==
    /\ \A r \in Requests : WF_vars(Step(r)) /\ WF_vars(Search(r))
    /\ WF_vars(RecoveryTimeout)
    /\ WF_vars(CacheExpires)
    /\ WF_vars(HealthExpires)

Spec == Init /\ [][Next]_vars /\ Fairness

-----------------------------------------------------------------------------
(* Properties.                                                             *)

\* The circuit is closed exactly while fewer failures than the threshold were
\* counted since the last success, whichever threads recorded them in which
\* order: one failed test request reopens a half-open circuit.
BreakerConsistent ==
    breaker.state = "CLOSED" <=> breaker.failures < failure_threshold

\* _get_fallback, "stale data is better than no data during an outage": with
\* caching and degradation on, once a search for indicators was answered, the
\* same search fails no more, however old the answer and whatever the server,
\* the circuit and other threads do, until other queries evict the answer or
\* the backend restarts; the limiter alone may refuse it.
OutageIsMasked ==
    [][\A r \in Requests :
          /\ response_caching /\ graceful_degradation
          /\ known
          /\ req[r].kind = "search"
          /\ req'[r] # req[r]
          => req'[r].last # "failed"]_vars

HealthChecked == \E r \in Requests : req[r].kind = "health"

\* A server that came back for good, with the major version of pycti, is found
\* again, however the outage left the threads, the shared session and the
\* circuit: unless the client started degraded, or health checks, which keep a
\* dead session, go on reopening the circuit, it closes and stays closed.
Recovers ==
    <>[](server = "up" /\ ~degraded /\ ~HealthChecked)
        => <>[](breaker.state = "CLOSED")

=============================================================================
