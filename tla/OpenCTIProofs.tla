---------------------------- MODULE OpenCTIProofs ----------------------------
(***************************************************************************)
(* Proofs about OpenCTIClient, for any number of threads, any threshold    *)
(* and any number of retries.                                              *)
(***************************************************************************)
EXTENDS OpenCTIClient, TLAPS

\* A thread at rest has no session, one at work no outcome yet, and one that
\* waits for a retry has it left.
ThreadsOK ==
    \A r \in Requests :
        /\ req[r].pc = "idle" => req[r].session = "none"
        /\ req[r].pc # "idle" => req[r].last = "none"
        /\ req[r].pc = "backoff" => req[r].attempt < max_retries

\* What was answered and not evicted is in the cache, however old.
AnswersKept == known /\ response_caching => cache # "none"

\* The inductive invariant.
IInv == TypeOK /\ BreakerConsistent /\ ThreadsOK /\ AnswersKept

Breakers == [state: {"CLOSED", "OPEN", "HALF_OPEN"},
             failures: 0 .. failure_threshold, ripe: BOOLEAN]

ReqStates == [pc: {"idle", "execute", "connect", "query", "backoff"},
              kind: {"search", "health"}, attempt: 0 .. max_retries,
              session: Sessions, auth: BOOLEAN,
              last: {"none", "answered", "limited", "failed"}]

\* What BreakerConsistent says of a breaker.
Consistent(b) == b.state = "CLOSED" <=> b.failures < failure_threshold

-----------------------------------------------------------------------------
\* The lesser of two numbers.
LEMMA MinOfTwo ==
    ASSUME NEW a \in Nat, NEW b \in Nat
    PROVE  Min({a, b}) = IF a <= b THEN a ELSE b
<1>. DEFINE m == IF a <= b THEN a ELSE b
<1>1. m \in {a, b} /\ \A y \in {a, b} : m <= y
  OBVIOUS
<1>2. \A x \in {a, b} : (\A y \in {a, b} : x <= y) => x = m
  OBVIOUS
<1>. QED BY <1>1, <1>2 DEF Min

\* Whatever the threads record, the breaker stays a consistent breaker.
LEMMA BreakerOps ==
    ASSUME NEW b \in Breakers, Consistent(b)
    PROVE  /\ state(b) \in Breakers /\ Consistent(state(b))
           /\ record_failure(b) \in Breakers /\ Consistent(record_failure(b))
           /\ record_success(b) \in Breakers /\ Consistent(record_success(b))
           /\ Closed \in Breakers /\ Consistent(Closed)
<1>. USE ClientAssumption
<1>1. state(b) \in Breakers /\ Consistent(state(b))
  BY DEF state, Breakers, Consistent
<1>2. record_failure(b) \in Breakers /\ Consistent(record_failure(b))
  <2>. DEFINE n == Min({b.failures + 1, failure_threshold})
  <2>1. /\ n \in 0 .. failure_threshold
        /\ b.failures < failure_threshold => n = b.failures + 1
        /\ b.failures = failure_threshold => n = failure_threshold
    BY MinOfTwo DEF Breakers
  <2>2. b.failures \in 0 .. failure_threshold
    BY DEF Breakers
  <2>. HIDE DEF n
  <2>3. record_failure(b) =
          [state |-> IF n >= failure_threshold THEN "OPEN" ELSE b.state,
           failures |-> n, ripe |-> FALSE]
    BY DEF record_failure, n
  <2>. QED BY <2>1, <2>2, <2>3 DEF Breakers, Consistent
<1>3. record_success(b) \in Breakers /\ Consistent(record_success(b))
  BY DEF record_success, Closed, Breakers, Consistent
<1>4. Closed \in Breakers /\ Consistent(Closed)
  BY DEF Closed, Breakers, Consistent
<1>. QED BY <1>1, <1>2, <1>3, <1>4

\* A start leaves a consistent breaker.
LEMMA StartOK ==
    ASSUME NEW s, NEW b \in StartBreakers(s)
    PROVE  b \in Breakers /\ Consistent(b)
<1>1. Closed \in Breakers /\ Consistent(Closed)
  BY ClientAssumption DEF Closed, Breakers, Consistent
<1>2. b \in {Closed, record_failure(Closed)}
  BY DEF StartBreakers
<1>. QED BY <1>1, <1>2, BreakerOps

\* The type invariant, with its sets named.
LEMMA TypeNamed ==
    TypeOK <=> /\ server \in Servers
               /\ client \in Sessions
               /\ breaker \in Breakers
               /\ degraded \in BOOLEAN
               /\ cache \in {"none", "fresh", "expired"}
               /\ health \in BOOLEAN
               /\ req \in [Requests -> ReqStates]
               /\ known \in BOOLEAN
  BY DEF TypeOK, Breakers, ReqStates

\* A thread at rest, and what a failed request leaves.
LEMMA IdleOK ==
    ASSUME NEW o \in {"none", "answered", "limited", "failed"}
    PROVE  Idle(o) \in ReqStates
  BY ClientAssumption DEF Idle, ReqStates, Sessions


\* Every initial state satisfies the invariant.
LEMMA InitIInv == Init => IInv
<1>. SUFFICES ASSUME Init PROVE IInv
  OBVIOUS
<1>1. TypeOK
  BY StartOK, IdleOK, TypeNamed DEF Init, StartDegraded, Sessions
<1>2. BreakerConsistent
  BY StartOK DEF Init, BreakerConsistent, Consistent
<1>3. ThreadsOK /\ AnswersKept
  BY DEF Init, ThreadsOK, AnswersKept, Idle
<1>. QED BY <1>1, <1>2, <1>3 DEF IInv

\* What a step does to the threads: a thread that it moves rests without a
\* session or works without an outcome, and waits only for a retry it has.
Moves(r) ==
    \E q \in ReqStates :
        /\ req' = [req EXCEPT ![r] = q]
        /\ q.pc = "idle" => q.session = "none"
        /\ q.pc # "idle" => q.last = "none"
        /\ q.pc = "backoff" => q.attempt < max_retries

\* Such a step keeps the threads' types and ThreadsOK.
LEMMA MovesKeep ==
    ASSUME IInv, NEW r \in Requests, Moves(r)
    PROVE  req' \in [Requests -> ReqStates] /\ ThreadsOK'
<1>1. PICK q \in ReqStates :
        /\ req' = [req EXCEPT ![r] = q]
        /\ q.pc = "idle" => q.session = "none"
        /\ q.pc # "idle" => q.last = "none"
        /\ q.pc = "backoff" => q.attempt < max_retries
  BY DEF Moves
<1>2. req \in [Requests -> ReqStates]
  BY TypeNamed DEF IInv
<1>. QED BY <1>1, <1>2 DEF IInv, ThreadsOK

\* Every outcome is a move.
LEMMA IdleMoves ==
    ASSUME NEW r \in Requests, NEW o \in {"none", "answered", "limited", "failed"},
           req' = [req EXCEPT ![r] = Idle(o)]
    PROVE  Moves(r)
  BY IdleOK DEF Moves, Idle

\* How a health check begins.
LEMMA HealthBegins ==
    LET q == [Idle("none") EXCEPT !.pc = "connect", !.kind = "health"]
    IN  q \in ReqStates /\ q.pc = "connect" /\ q.last = "none"
<1>1. ASSUME NEW i \in ReqStates
      PROVE  LET q == [i EXCEPT !.pc = "connect", !.kind = "health"]
             IN  q \in ReqStates /\ q.pc = "connect" /\ q.last = i.last
  BY DEF ReqStates
<1>2. Idle("none") \in ReqStates /\ Idle("none").last = "none"
  BY IdleOK DEF Idle
<1>. QED BY <1>1, <1>2

\* A request that failed is answered from the cache or not at all.
LEMMA FailedMoves ==
    ASSUME NEW r \in Requests, TypeOK, req' = Failed(r)
    PROVE  Moves(r)
<1>1. req' = [req EXCEPT ![r] = Idle("answered")] \/ req' = [req EXCEPT ![r] = Idle("failed")]
  BY DEF Failed
<1>. QED BY <1>1, IdleMoves

\* A failed attempt of a thread at work.
LEMMA TransientMoves ==
    ASSUME IInv, NEW r \in Requests, req[r].pc # "idle", NEW auth \in BOOLEAN,
           Transient(r, auth)
    PROVE  Moves(r) /\ breaker' \in Breakers /\ Consistent(breaker')
<1>1. req \in [Requests -> ReqStates] /\ breaker \in Breakers /\ Consistent(breaker)
  BY TypeNamed DEF IInv, BreakerConsistent, Consistent
<1>2. CASE req[r].kind = "search" /\ RetryLeft(r)
  <2>. DEFINE q == [req[r] EXCEPT !.pc = "backoff", !.auth = auth]
  <2>1. /\ q \in ReqStates /\ q.pc = "backoff"
        /\ q.last = req[r].last /\ q.attempt = req[r].attempt
    BY <1>1 DEF ReqStates
  <2>2. req[r].last = "none" /\ req[r].attempt < max_retries
    BY <1>2 DEF IInv, ThreadsOK, RetryLeft
  <2>3. req' = [req EXCEPT ![r] = q] /\ breaker' = breaker
    BY <1>1, <1>2 DEF Transient
  <2>. HIDE DEF q
  <2>. QED BY <1>1, <2>1, <2>2, <2>3 DEF Moves
<1>3. CASE ~(req[r].kind = "search" /\ RetryLeft(r))
  BY <1>1, <1>3, FailedMoves, BreakerOps DEF Transient, IInv
<1>. QED BY <1>2, <1>3

\* A thread's move that leaves a consistent breaker keeps the invariant, if the
\* rest of the state stays typed and the answers stay.
LEMMA MoveKeepsIInv ==
    ASSUME IInv, NEW r \in Requests, Moves(r),
           breaker' \in Breakers, Consistent(breaker'),
           server' = server, client' \in Sessions, degraded' = degraded,
           cache' \in {"none", "fresh", "expired"}, health' \in BOOLEAN,
           known' \in BOOLEAN, AnswersKept'
    PROVE  IInv'
<1>1. req' \in [Requests -> ReqStates] /\ ThreadsOK'
  BY MovesKeep
<1>2. server' \in Servers /\ degraded' \in BOOLEAN
  BY DEF IInv, TypeOK
<1>3. TypeOK'
  BY <1>1, <1>2 DEF TypeOK, Breakers, ReqStates
<1>4. BreakerConsistent'
  BY DEF BreakerConsistent, Consistent
<1>. QED BY <1>1, <1>3, <1>4 DEF IInv

\* The actions of threads keep the invariant.
LEMMA RequestIInv ==
    ASSUME IInv, NEW r \in Requests,
           Search(r) \/ RateLimited(r) \/ IsAvailable(r) \/ Step(r)
    PROVE  IInv'
<1>. DEFINE Same == UNCHANGED <<server, client, degraded, cache, health, known>>
<1>1. /\ req \in [Requests -> ReqStates]
      /\ breaker \in Breakers /\ Consistent(breaker)
      /\ client \in Sessions /\ cache \in {"none", "fresh", "expired"}
      /\ health \in BOOLEAN /\ known \in BOOLEAN /\ server \in Servers
      /\ degraded \in BOOLEAN
  BY TypeNamed DEF IInv, BreakerConsistent, Consistent
<1>2. state(breaker) \in Breakers /\ Consistent(state(breaker))
  BY <1>1, BreakerOps
<1>3. ASSUME Same, Moves(r), breaker' \in Breakers, Consistent(breaker')
      PROVE  IInv'
  <2>1. AnswersKept'
    BY <1>3 DEF IInv, AnswersKept
  <2>. QED BY <1>1, <1>3, <2>1, MoveKeepsIInv
<1>4. ASSUME Search(r) PROVE IInv'
  <2>1. Same
    BY <1>4 DEF Search
  <2>2. breaker' \in {breaker, state(breaker)}
    BY <1>4 DEF Search
  <2>3. CASE req' = [req EXCEPT ![r] = Idle("answered")]
    BY <1>1, <1>2, <1>3, <2>1, <2>2, <2>3, IdleMoves
  <2>4. CASE req' = Failed(r)
    BY <1>1, <1>2, <1>3, <2>1, <2>2, <2>4, FailedMoves DEF IInv
  <2>5. CASE req' = [req EXCEPT ![r] = [Idle("none") EXCEPT !.pc = "execute"]]
    <3>. DEFINE q == [Idle("none") EXCEPT !.pc = "execute"]
    <3>1. q \in ReqStates /\ q.pc = "execute" /\ q.last = "none"
      <4>1. \A x \in ReqStates : LET y == [x EXCEPT !.pc = "execute"]
                                IN  y \in ReqStates /\ y.pc = "execute" /\ y.last = x.last
        BY DEF ReqStates
      <4>2. Idle("none") \in ReqStates /\ Idle("none").last = "none"
        BY IdleOK DEF Idle
      <4>. QED BY <4>1, <4>2
    <3>3. req' = [req EXCEPT ![r] = q]
      BY <2>5
    <3>. HIDE DEF q
    <3>2. Moves(r)
      BY <3>1, <3>3 DEF Moves
    <3>. QED BY <1>1, <1>2, <1>3, <2>1, <2>2, <3>2
  <2>. QED BY <1>4, <2>3, <2>4, <2>5 DEF Search
<1>5. ASSUME RateLimited(r) PROVE IInv'
  <2>1. Same /\ breaker' = state(breaker) /\ req' = [req EXCEPT ![r] = Idle("limited")]
    BY <1>5 DEF RateLimited
  <2>. QED BY <1>2, <1>3, <2>1, IdleMoves
<1>6. ASSUME IsAvailable(r) PROVE IInv'
  <2>1. Same /\ breaker' = state(breaker)
    BY <1>6 DEF IsAvailable
  <2>. DEFINE q == [Idle("none") EXCEPT !.pc = "connect", !.kind = "health"]
  <2>2. CASE req' = [req EXCEPT ![r] = q]
    <3>1. q \in ReqStates /\ q.pc = "connect" /\ q.last = "none"
      BY HealthBegins
    <3>. HIDE DEF q
    <3>2. Moves(r)
      BY <2>2, <3>1 DEF Moves
    <3>. QED BY <1>2, <1>3, <2>1, <3>2
  <2>3. CASE req' = req
    <3>1. /\ req[r] \in ReqStates /\ req' = [req EXCEPT ![r] = req[r]]
          /\ req[r].pc = "idle" /\ req[r].session = "none"
      BY <1>1, <1>6, <2>3 DEF IsAvailable, IInv, ThreadsOK
    <3>. QED BY <1>2, <1>3, <2>1, <3>1 DEF Moves
  <2>. QED BY <1>6, <2>2, <2>3 DEF IsAvailable
<1>7. ASSUME req[r].pc # "idle", NEW q \in ReqStates, q.pc \in {"connect", "query"},
             q.last = req[r].last, req' = [req EXCEPT ![r] = q]
      PROVE  Moves(r)
  BY <1>7 DEF IInv, ThreadsOK, Moves
<1>8. ASSUME Execute(r) PROVE IInv'
  <2>1. Same /\ breaker' = state(breaker)
    BY <1>8 DEF Execute
  <2>2. CASE req' = [req EXCEPT ![r].pc = "connect"]
    <3>. DEFINE q == [req[r] EXCEPT !.pc = "connect"]
    <3>1. q \in ReqStates /\ q.pc = "connect" /\ q.last = req[r].last
      BY <1>1 DEF ReqStates
    <3>2. req' = [req EXCEPT ![r] = q] /\ req[r].pc # "idle"
      BY <1>1, <1>8, <2>2 DEF Execute
    <3>. HIDE DEF q
    <3>3. Moves(r)
      BY <1>7, <3>1, <3>2
    <3>. QED BY <1>2, <1>3, <2>1, <3>3
  <2>3. CASE req' = Failed(r)
    BY <1>2, <1>3, <2>1, <2>3, FailedMoves DEF IInv
  <2>. QED BY <1>8, <2>2, <2>3 DEF Execute
<1>9. ASSUME Connect(r) PROVE IInv'
  <2>1. UNCHANGED <<server, degraded, cache, health, known>> /\ AnswersKept'
    BY <1>9 DEF Connect, IInv, AnswersKept
  <2>2. CASE breaker' = record_failure(breaker) /\ req' = Failed(r) /\ UNCHANGED client
    BY <1>1, <2>1, <2>2, FailedMoves, BreakerOps, MoveKeepsIInv DEF IInv
  <2>3. CASE Transient(r, FALSE) /\ UNCHANGED client
    BY <1>1, <1>9, <2>1, <2>3, TransientMoves, MoveKeepsIInv DEF Connect
  <2>4. CASE /\ client' = IF client = "none" THEN "live" ELSE client
             /\ req' = [req EXCEPT ![r].pc = "query", ![r].session = client']
             /\ UNCHANGED breaker
    <3>1. client' \in Sessions
      BY <1>1, <2>4 DEF Sessions
    <3>. DEFINE q == [req[r] EXCEPT !.pc = "query", !.session = client']
    <3>2. q \in ReqStates /\ q.pc = "query" /\ q.last = req[r].last
      BY <1>1, <3>1 DEF ReqStates
    <3>4. req' = [req EXCEPT ![r] = q] /\ req[r].pc # "idle"
      BY <1>1, <1>9, <2>4 DEF Connect
    <3>. HIDE DEF q
    <3>3. Moves(r)
      BY <1>7, <3>2, <3>4
    <3>. QED BY <1>1, <2>1, <2>4, <3>1, <3>3, MoveKeepsIInv
  <2>. QED BY <1>9, <2>2, <2>3, <2>4 DEF Connect
<1>10. ASSUME Query(r) PROVE IInv'
  <2>1. UNCHANGED <<server, client, degraded>>
    BY <1>10 DEF Query
  <2>2. CASE /\ breaker' = record_success(breaker)
             /\ req' = [req EXCEPT ![r] = Idle("answered")]
             /\ cache' = IF req[r].kind = "search" /\ response_caching THEN "fresh" ELSE cache
             /\ health' = (health \/ req[r].kind # "search")
             /\ known' = (known \/ req[r].kind = "search")
    <3>1. AnswersKept' /\ cache' \in {"none", "fresh", "expired"}
      BY <1>1, <2>2 DEF IInv, AnswersKept
    <3>2. health' \in BOOLEAN /\ known' \in BOOLEAN
      BY <2>2
    <3>3. Moves(r)
      BY <2>2, IdleMoves
    <3>4. breaker' \in Breakers /\ Consistent(breaker')
      BY <1>1, <2>2, BreakerOps
    <3>. QED BY <1>1, <2>1, <3>1, <3>2, <3>3, <3>4, MoveKeepsIInv
  <2>3. CASE UNCHANGED <<cache, health, known>>
    <3>1. AnswersKept'
      BY <2>3 DEF IInv, AnswersKept
    <3>2. CASE breaker' \in {breaker, record_failure(breaker)} /\ req' = Failed(r)
      BY <1>1, <2>1, <2>3, <3>1, <3>2, FailedMoves, BreakerOps, MoveKeepsIInv DEF IInv
    <3>3. CASE Transient(r, FALSE) \/ Transient(r, TRUE)
      BY <1>1, <1>10, <2>1, <2>3, <3>1, <3>3, TransientMoves, MoveKeepsIInv DEF Query
    <3>4. CASE req' = [req EXCEPT ![r] = Idle("answered")] /\ breaker' = record_success(breaker)
      BY <1>1, <2>1, <2>3, <3>1, <3>4, IdleMoves, BreakerOps, MoveKeepsIInv
    <3>. QED BY <1>10, <3>2, <3>3, <3>4 DEF Query
  <2>. QED BY <1>10, <2>2, <2>3 DEF Query
<1>11. ASSUME Backoff(r) PROVE IInv'
  <2>1. UNCHANGED <<server, breaker, degraded, cache, health, known>> /\ AnswersKept'
    BY <1>11 DEF Backoff, IInv, AnswersKept
  <2>2. client' \in Sessions
    BY <1>1, <1>11 DEF Backoff, ClientDropped, Sessions
  <2>3. req[r].attempt + 1 \in 0 .. max_retries
    BY <1>1, <1>11, ClientAssumption DEF Backoff, IInv, ThreadsOK, ReqStates
  <2>. DEFINE q == [req[r] EXCEPT !.pc = "connect", !.attempt = @ + 1, !.auth = FALSE]
  <2>4. q \in ReqStates /\ q.pc = "connect" /\ q.last = req[r].last
    <3>1. \A x \in ReqStates, n \in 0 .. max_retries :
            LET y == [x EXCEPT !.pc = "connect", !.attempt = n, !.auth = FALSE]
            IN  y \in ReqStates /\ y.pc = "connect" /\ y.last = x.last
      BY DEF ReqStates
    <3>2. req[r] \in ReqStates
      BY <1>1
    <3>. QED BY <2>3, <3>1, <3>2
  <2>6. req' = [req EXCEPT ![r] = q] /\ req[r].pc # "idle"
    BY <1>1, <1>11 DEF Backoff
  <2>. HIDE DEF q
  <2>5. Moves(r)
    BY <1>7, <2>4, <2>6
  <2>. QED BY <1>1, <2>1, <2>2, <2>5, MoveKeepsIInv
<1>. QED BY <1>4, <1>5, <1>6, <1>8, <1>9, <1>10, <1>11 DEF Step

\* Time, the server and restarts keep the invariant.
LEMMA WorldIInv ==
    ASSUME IInv,
           \/ RecoveryTimeout
           \/ CacheExpires
           \/ Evict
           \/ HealthExpires
           \/ \E s \in Servers : ServerChanges(s)
           \/ Restart
    PROVE  IInv'
<1>1. CASE RecoveryTimeout
  BY <1>1 DEF RecoveryTimeout, IInv, TypeOK, BreakerConsistent, ThreadsOK, AnswersKept
<1>2. CASE CacheExpires
  BY <1>2 DEF CacheExpires, Expired, IInv, TypeOK, BreakerConsistent, ThreadsOK, AnswersKept
<1>6. CASE Evict
  BY <1>6 DEF Evict, IInv, TypeOK, BreakerConsistent, ThreadsOK, AnswersKept
<1>3. CASE HealthExpires
  BY <1>3 DEF HealthExpires, IInv, TypeOK, BreakerConsistent, ThreadsOK, AnswersKept
<1>4. ASSUME NEW s \in Servers, ServerChanges(s) PROVE IInv'
  <2>. DEFINE after(h) == IF s = "down" /\ h = "live" THEN "dead" ELSE h
  <2>1. \A h \in Sessions : after(h) \in Sessions
    BY DEF Sessions
  <2>2. req \in [Requests -> ReqStates] /\ client \in Sessions
    BY TypeNamed DEF IInv
  <2>3. client' = after(client) /\ server' = s
    BY <1>4 DEF ServerChanges
  <2>4. req' = [r \in Requests |-> [req[r] EXCEPT !.session = after(req[r].session)]]
    BY <1>4 DEF ServerChanges
  <2>5. UNCHANGED <<breaker, degraded, cache, health, known>>
    BY <1>4 DEF ServerChanges
  <2>6. ASSUME NEW r \in Requests
        PROVE  /\ req'[r] \in ReqStates
               /\ req'[r].pc = req[r].pc
               /\ req'[r].last = req[r].last
               /\ req'[r].attempt = req[r].attempt
               /\ req[r].session = "none" => req'[r].session = "none"
    BY <2>1, <2>2, <2>4 DEF ReqStates
  <2>7. req' \in [Requests -> ReqStates]
    BY <2>4, <2>6
  <2>8. TypeOK'
    BY <2>1, <2>2, <2>3, <2>5, <2>7 DEF IInv, TypeOK, ReqStates
  <2>9. ThreadsOK'
    BY <2>6 DEF IInv, ThreadsOK
  <2>. QED BY <2>5, <2>8, <2>9 DEF IInv, BreakerConsistent, AnswersKept
<1>5. CASE Restart
  <2>1. TypeOK'
    BY <1>5, StartOK, IdleOK DEF Restart, StartDegraded, IInv, TypeOK, Sessions,
       Breakers, ReqStates
  <2>2. BreakerConsistent'
    BY <1>5, StartOK DEF Restart, BreakerConsistent, Consistent
  <2>3. ThreadsOK' /\ AnswersKept'
    BY <1>5 DEF Restart, ThreadsOK, AnswersKept, Idle
  <2>. QED BY <2>1, <2>2, <2>3 DEF IInv
<1>. QED BY <1>1, <1>2, <1>3, <1>4, <1>5, <1>6

\* Every step keeps the invariant.
LEMMA NextIInv == IInv /\ [Next]_vars => IInv'
<1>. SUFFICES ASSUME IInv, [Next]_vars PROVE IInv'
  OBVIOUS
<1>1. CASE UNCHANGED vars
  BY <1>1 DEF vars, IInv, TypeOK, BreakerConsistent, ThreadsOK, AnswersKept
<1>. QED BY <1>1, RequestIInv, WorldIInv DEF Next

-----------------------------------------------------------------------------
(* Theorems.                                                               *)

\* The invariant holds for ever.
THEOREM Invariance == Spec => []IInv
  BY InitIInv, NextIInv, PTL DEF Spec

\* Types, the bound on the failures counted and the number of retries included.
THEOREM TypeCorrect == Spec => []TypeOK
<1>1. IInv => TypeOK
  BY DEF IInv
<1>. QED BY <1>1, Invariance, PTL

\* CircuitBreaker: threads record failures and successes in any order, and the
\* circuit is closed exactly while fewer failures than the threshold were counted
\* since the last success.
THEOREM BreakerIsConsistent == Spec => []BreakerConsistent
<1>1. IInv => BreakerConsistent
  BY DEF IInv
<1>. QED BY <1>1, Invariance, PTL

\* What OutageIsMasked says of a step.
MaskedStep ==
    \A r \in Requests :
        /\ response_caching /\ graceful_degradation
        /\ known
        /\ req[r].kind = "search"
        /\ req'[r] # req[r]
        => req'[r].last # "failed"

\* With a known answer the fallback has one.
LEMMA MaskedByStep == IInv /\ [Next]_vars => MaskedStep
<1>. SUFFICES ASSUME IInv, [Next]_vars, NEW r \in Requests,
                     response_caching, graceful_degradation, known, req[r].kind = "search",
                     req'[r] # req[r], req'[r].last = "failed"
              PROVE  FALSE
  BY DEF MaskedStep
<1>1. req \in [Requests -> ReqStates] /\ cache # "none" /\ _get_fallback
  BY TypeNamed DEF IInv, AnswersKept, _get_fallback
<1>2. req' # Failed(r)
  BY <1>1 DEF Failed, Idle
<1>3. req[r].last # "failed" \/ req[r].pc = "idle"
  BY DEF IInv, ThreadsOK
<1>4. ASSUME NEW q \in Requests, Search(q) \/ RateLimited(q) \/ IsAvailable(q) \/ Step(q)
      PROVE  FALSE
  <2>1. q = r
    BY <1>1, <1>4 DEF Search, RateLimited, IsAvailable, Step, Execute, Connect, Query,
       Backoff, Transient, Failed
  <2>2. CASE Search(r) \/ RateLimited(r)
    <3>1. /\ Idle("answered").last = "answered" /\ Idle("limited").last = "limited"
          /\ [Idle("none") EXCEPT !.pc = "execute"].last = "none"
      BY DEF Idle
    <3>. QED BY <1>1, <1>2, <2>2, <3>1 DEF Search, RateLimited
  <2>4. CASE IsAvailable(r)
    <3>1. [Idle("none") EXCEPT !.pc = "connect", !.kind = "health"].last = "none"
      BY HealthBegins
    <3>. QED BY <1>1, <2>4, <3>1 DEF IsAvailable
  <2>3. CASE Step(r)
    <3>1. req[r].pc # "idle" /\ req[r].last = "none"
      BY <2>3 DEF Step, Execute, Connect, Query, Backoff, IInv, ThreadsOK
    <3>2. CASE Execute(r)
      BY <1>1, <1>2, <3>1, <3>2 DEF Execute, ReqStates
    <3>3. CASE Connect(r)
      <4>1. CASE Transient(r, FALSE)
        BY <1>1, <1>2, <3>1, <4>1 DEF Transient, ReqStates
      <4>2. CASE req' = [req EXCEPT ![r].pc = "query", ![r].session = client']
        BY <1>1, <3>1, <4>2 DEF ReqStates
      <4>. QED BY <1>2, <3>3, <4>1, <4>2 DEF Connect
    <3>4. CASE Query(r)
      <4>1. CASE Transient(r, FALSE) \/ Transient(r, TRUE)
        BY <1>1, <1>2, <3>1, <4>1 DEF Transient, ReqStates
      <4>2. Idle("answered").last = "answered"
        BY DEF Idle
      <4>. QED BY <1>1, <1>2, <3>4, <4>1, <4>2 DEF Query
    <3>5. CASE Backoff(r)
      BY <1>1, <1>2, <3>1, <3>5 DEF Backoff, ReqStates
    <3>. QED BY <2>3, <3>2, <3>3, <3>4, <3>5 DEF Step
  <2>. QED BY <1>4, <2>1, <2>2, <2>3, <2>4
<1>5. ASSUME NEW s \in Servers, ServerChanges(s) PROVE FALSE
  <2>1. req'[r] = [req[r] EXCEPT !.session =
                     IF s = "down" /\ req[r].session = "live" THEN "dead" ELSE req[r].session]
    BY <1>5 DEF ServerChanges
  <2>2. req'[r].last = req[r].last
    BY <1>1, <2>1 DEF ReqStates
  <2>3. req[r].session = "none"
    BY <1>3, <2>2 DEF IInv, ThreadsOK
  <2>. QED BY <1>1, <2>1, <2>3 DEF ReqStates
<1>6. ~Restart
  BY DEF Restart, Idle
<1>7. ~(RecoveryTimeout \/ CacheExpires \/ Evict \/ HealthExpires \/ UNCHANGED vars)
  BY DEF RecoveryTimeout, CacheExpires, Evict, HealthExpires, vars
<1>. QED BY <1>4, <1>5, <1>6, <1>7 DEF Next

\* _get_fallback: with caching and degradation on, a search for indicators that was
\* answered once fails no more before its entry is evicted or the backend restarts,
\* whatever the server, the circuit and the other threads do; the limiter alone may
\* refuse.
THEOREM OutagesAreMasked == Spec => OutageIsMasked
<1>1. IInv /\ [Next]_vars => [MaskedStep]_vars
  BY MaskedByStep
<1>2. Spec => [][MaskedStep]_vars
  BY <1>1, Invariance, PTL DEF Spec
<1>. QED BY <1>2 DEF OutageIsMasked, MaskedStep

=============================================================================
