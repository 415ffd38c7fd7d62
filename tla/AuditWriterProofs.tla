-------------------------- MODULE AuditWriterProofs --------------------------
(***************************************************************************)
(* Proofs about AuditWriter, for any processes and threads, any number of  *)
(* calls, crashes and days.                                                *)
(***************************************************************************)
EXTENDS AuditWriter, FiniteSetTheorems, WellFoundedInduction, TLAPS

\* The threads whose call has yet to mint, and yet to write.
Unminted == {t \in Threads : thread[t].pc \in {"flock", "mint"}}
Unwritten == {t \in Threads : thread[t].pc \in {"flock", "mint", "append"}}

\* Numbers stay below the number of calls: every mint goes one up, and every
\* call mints once.  The calls still to mint are counted ahead.
NumbersBound ==
    LET n == Cardinality(Unminted) IN
    /\ \A p \in Processes : mem[p].seq + n <= calls
    /\ sidecar.seq + n <= calls
    /\ \A t \in Threads : thread[t].id.seq + n <= calls
    /\ \A i \in Ids : log[i] > 0 => i.seq + n <= calls

\* So do the entries of an id.
EntriesBound == \A i \in Ids : log[i] + Cardinality(Unwritten) <= calls

\* Whose number goes to the sidecar has written its entry.
NotedIsWritten ==
    \A t \in Threads : thread[t].pc = "sidecar" => log[thread[t].id] > 0

\* The sidecar is missing or names an id.
SidecarIsId == sidecar = Fresh \/ sidecar \in Ids

\* The inductive invariant behind types and the order of the two files.
IInv ==
    /\ TypeOK
    /\ NumbersBound
    /\ EntriesBound
    /\ NotedIsWritten
    /\ SidecarIsId
    /\ SidecarFollowsLog

Inside(t) == thread[t].pc \in {"mint", "append", "sidecar", "release"}

\* Unless two threads of a process shared it or a call went without, the file
\* lock excludes.
Exclusive ==
    unguarded \/
        /\ \A t \in Threads : Inside(t) => holder = ProcessOf[t]
        /\ \A t, u \in Threads : Inside(t) /\ Inside(u) => t = u

\* The entries of a day have numbers up to n.
UpTo(d, n) == \A i \in Ids : log[i] > 0 /\ i.day = d => i.seq <= n

\* A minted number is above those of its day, and the sidecar is the highest of
\* its day but for an entry that is about to be noted.
Ordered ==
    cut \/ unguarded \/
        /\ \A t \in Threads : thread[t].pc = "append" =>
               UpTo(thread[t].id.day, thread[t].id.seq - 1)
        /\ \A t \in Threads : thread[t].pc = "sidecar" =>
               UpTo(thread[t].id.day, thread[t].id.seq)
        /\ \A i \in Ids : log[i] > 0 /\ i.day = sidecar.day =>
               \/ i.seq <= sidecar.seq
               \/ \E t \in Threads : thread[t].pc = "sidecar" /\ thread[t].id = i

\* The inductive invariant behind uniqueness.
UniqueInv == IInv /\ Exclusive /\ Ordered /\ UniqueWhileGuarded

\* What a process minted, if it is all of one day, its counter has passed.
CounterAhead ==
    \A p \in Processes :
        (\A i, j \in minted[p] : i.day = j.day) =>
            \A i \in minted[p] : i.day = mem[p].day /\ i.seq <= mem[p].seq

-----------------------------------------------------------------------------
(* The greatest number of a set.                                           *)

\* Bounded, non-empty sets of numbers have a greatest element.
LEMMA MaxExists ==
    ASSUME NEW n \in Nat, NEW S \in SUBSET (0 .. n), S # {}
    PROVE  \E x \in S : \A y \in S : x >= y
<1>. DEFINE R == OpToRel(<, Nat)
            T == {n - x : x \in S}
<1>1. T \subseteq Nat /\ T # {}
  <2>1. \A x \in 0 .. n : n - x \in Nat
    OBVIOUS
  <2>2. PICK x : x \in S
    OBVIOUS
  <2>3. n - x \in T
    BY <2>2
  <2>. QED BY <2>1, <2>3
<1>2. \A a, b \in Nat : a < b => <<a, b>> \in R
  BY DEF OpToRel
<1>3. IsWellFoundedOn(R, Nat)
  BY NatLessThanWellFounded
<1>. HIDE DEF R
<1>4. PICK m \in T : \A y \in T : <<y, m>> \notin R
  <2>. HIDE DEF T
  <2>. QED BY <1>1, <1>3, WFMin
<1>5. PICK x \in S : m = n - x
  OBVIOUS
<1>6. ASSUME NEW y \in S PROVE x >= y
  <2>1. ~(n - y < m)
    BY <1>1, <1>2, <1>4
  <2>. QED BY <1>5, <2>1
<1>. QED BY <1>6

\* What Max returns.
LEMMA MaxIs ==
    ASSUME NEW n \in Nat, NEW S \in SUBSET (0 .. n), S # {}
    PROVE  Max(S) \in S /\ \A y \in S : Max(S) >= y
  BY MaxExists DEF Max

-----------------------------------------------------------------------------
(* Minting.                                                                *)

ThreadStates ==
    [pc: {"idle", "flock", "mint", "append", "sidecar", "release"}, id: Ids,
     locked: BOOLEAN]

\* The constants, and the calls that are pending.
LEMMA Basics ==
    /\ MaxCalls \in Nat /\ MaxDays \in Nat /\ 1 \in Days /\ 0 \in Numbers
    /\ Numbers \subseteq Nat /\ Days \subseteq Nat /\ 0 \notin Days
    /\ Idle \in ThreadStates /\ Idle.pc = "idle" /\ Idle.id.seq = 0
    /\ \A i \in Ids : i.day \in Days /\ i.seq \in Numbers
    /\ \A d \in Days, n \in Numbers : [day |-> d, seq |-> n] \in Ids
    /\ IsFiniteSet(Unminted) /\ IsFiniteSet(Unwritten)
    /\ Cardinality(Unminted) \in Nat /\ Cardinality(Unwritten) \in Nat
<1>1. /\ MaxCalls \in Nat /\ MaxDays \in Nat /\ 1 \in Days /\ 0 \in Numbers
      /\ Numbers \subseteq Nat /\ Days \subseteq Nat /\ 0 \notin Days
  BY AuditAssumption DEF Days, Numbers
<1>2. /\ \A i \in Ids : i.day \in Days /\ i.seq \in Numbers
      /\ \A d \in Days, n \in Numbers : [day |-> d, seq |-> n] \in Ids
  BY DEF Ids
<1>3. Idle \in ThreadStates /\ Idle.pc = "idle" /\ Idle.id.seq = 0
  BY <1>1 DEF Idle, ThreadStates, Ids
<1>4. IsFiniteSet(Unminted) /\ IsFiniteSet(Unwritten)
  BY AuditAssumption, FS_Subset DEF Unminted, Unwritten
<1>5. Cardinality(Unminted) \in Nat /\ Cardinality(Unwritten) \in Nat
  BY <1>4, FS_CardinalityType
<1>. QED BY <1>1, <1>2, <1>3, <1>4, <1>5

\* _resume_sequence: a number that was noted or written, or none; if the sidecar
\* is of another day, no entry of the day has a higher one.
LEMMA Resumed ==
    ASSUME TypeOK, NumbersBound, NEW d \in Days
    PROVE  /\ _resume_sequence(d) \in Numbers
           /\ _resume_sequence(d) + Cardinality(Unminted) <= calls
           /\ sidecar.day = d => _resume_sequence(d) = sidecar.seq
           /\ sidecar.day # d => UpTo(d, _resume_sequence(d))
<1>. DEFINE W == {j \in Ids : j.day = d /\ log[j] > 0}
            S == {0} \cup {i.seq : i \in W}
            n == Cardinality(Unminted)
<1>1. sidecar.seq \in Numbers /\ sidecar.seq \in Nat /\ calls \in Nat /\ n \in Nat
  <2>1. sidecar.seq \in Numbers /\ calls \in Nat
    BY AuditAssumption DEF TypeOK
  <2>. HIDE DEF n
  <2>2. n \in Nat
    BY Basics DEF n
  <2>. QED BY <2>1, <2>2, Basics
<1>2. S \in SUBSET (0 .. MaxCalls) /\ S # {}
  BY Basics DEF Numbers
<1>3. Max(S) \in S /\ \A y \in S : Max(S) >= y
  <2>. HIDE DEF S
  <2>. QED BY <1>2, Basics, MaxIs
<1>4. Max(S) \in Numbers
  BY <1>2, <1>3 DEF Numbers
<1>5. Max(S) + n <= calls
  <2>1. 0 + n <= calls
    <3>1. sidecar.seq + n <= calls
      BY DEF NumbersBound
    <3>. HIDE DEF n
    <3>. QED BY <1>1, <3>1
  <2>2. \A i \in W : i.seq + n <= calls
    BY DEF NumbersBound
  <2>. QED BY <1>3, <2>1, <2>2
<1>6. UpTo(d, Max(S))
  <2>1. ASSUME NEW i \in Ids, log[i] > 0, i.day = d PROVE i.seq <= Max(S)
    <3>1. i.seq \in S /\ i.seq \in Nat /\ Max(S) \in Nat
      BY <2>1, <1>4, Basics
    <3>. QED BY <1>3, <3>1
  <2>. QED BY <2>1 DEF UpTo
<1>7. _resume_sequence(d) = IF sidecar.day = d THEN sidecar.seq ELSE Max(S)
  BY DEF _resume_sequence
<1>8. sidecar.seq + n <= calls
  BY DEF NumbersBound
<1>. HIDE DEF S
<1>. QED BY <1>1, <1>4, <1>5, <1>6, <1>7, <1>8

\* _mint_seq_locked goes past what is on disk, and past what the process
\* itself counted on the day, by one.
LEMMA Minted ==
    ASSUME TypeOK, NumbersBound, NEW p \in Processes, NEW d \in Days
    PROVE  /\ _mint_seq_locked(p, d) \in Nat
           /\ _mint_seq_locked(p, d) + Cardinality(Unminted) <= calls + 1
           /\ _mint_seq_locked(p, d) > _resume_sequence(d)
           /\ mem[p].day = d => _mint_seq_locked(p, d) > mem[p].seq
<1>. DEFINE r == _resume_sequence(d)
            n == Cardinality(Unminted)
            S == {mem[p].seq, r}
<1>0. r \in Numbers /\ r + n <= calls
  BY Resumed
<1>5. mem[p].seq \in Numbers /\ mem[p].seq + n <= calls
  BY DEF TypeOK, NumbersBound
<1>6. n \in Nat /\ calls \in Nat
  BY Basics DEF TypeOK
<1>1. /\ r \in Numbers /\ r \in Nat /\ r + n <= calls
      /\ mem[p].seq \in Numbers /\ mem[p].seq \in Nat /\ mem[p].seq + n <= calls
      /\ n \in Nat /\ calls \in Nat
  BY <1>0, <1>5, <1>6, Basics
<1>. HIDE DEF r, n
<1>2. Max(S) \in S /\ \A y \in S : Max(S) >= y
  <2>1. S \in SUBSET (0 .. MaxCalls) /\ S # {}
    BY <1>1 DEF Numbers
  <2>. HIDE DEF S
  <2>. QED BY <2>1, Basics, MaxIs
<1>3. _mint_seq_locked(p, d) = (IF mem[p].day = d THEN Max(S) ELSE r) + 1
  BY DEF _mint_seq_locked, r
<1>4. Max(S) \in Nat /\ Max(S) + n <= calls /\ Max(S) >= r /\ Max(S) >= mem[p].seq
  BY <1>1, <1>2
<1>. HIDE DEF S
<1>. QED BY <1>1, <1>3, <1>4 DEF r, n

-----------------------------------------------------------------------------
(* Types, and the order of the two files.                                  *)

\* Sets of threads are counted.
LEMMA Counted ==
    ASSUME NEW S \in SUBSET Threads
    PROVE  /\ IsFiniteSet(S) /\ Cardinality(S) \in Nat
           /\ \A T \in SUBSET S : Cardinality(T) <= Cardinality(S)
           /\ \A t \in S : Cardinality(S \ {t}) = Cardinality(S) - 1
           /\ \A t \in Threads : t \notin S => Cardinality(S \cup {t}) = Cardinality(S) + 1
<1>1. IsFiniteSet(S)
  BY AuditAssumption, FS_Subset
<1>. QED BY <1>1, FS_CardinalityType, FS_Subset, FS_RemoveElement, FS_AddElement

\* How one thread's step moves the pending calls.
LEMMA PendingMoves ==
    ASSUME TypeOK, NEW t \in Threads, NEW s \in ThreadStates,
           thread' = [thread EXCEPT ![t] = s]
    PROVE  /\ thread' \in [Threads -> ThreadStates] /\ thread'[t] = s
           /\ \A u \in Threads : u # t => thread'[u] = thread[u]
           /\ thread[t].pc \in {"flock", "mint"} /\ s.pc \in {"flock", "mint"}
                => Unminted' = Unminted
           /\ thread[t].pc \notin {"flock", "mint"} /\ s.pc \notin {"flock", "mint"}
                => Unminted' = Unminted
           /\ thread[t].pc = "idle" /\ s.pc = "flock"
                => /\ Unminted' = Unminted \cup {t} /\ t \notin Unminted
                   /\ Unwritten' = Unwritten \cup {t} /\ t \notin Unwritten
           /\ thread[t].pc = "mint" /\ s.pc = "append"
                => Unminted' = Unminted \ {t} /\ t \in Unminted
           /\ thread[t].pc \in {"flock", "mint", "append"} /\ s.pc \in {"flock", "mint", "append"}
                => Unwritten' = Unwritten
           /\ thread[t].pc \in {"sidecar", "release"} /\ s.pc \in {"release", "idle"}
                => Unwritten' = Unwritten
           /\ thread[t].pc = "append" /\ s.pc \in {"sidecar", "release"}
                => Unwritten' = Unwritten \ {t} /\ t \in Unwritten
<1>1. thread \in [Threads -> ThreadStates]
  BY DEF TypeOK, ThreadStates
<1>2. /\ thread' \in [Threads -> ThreadStates] /\ thread'[t] = s
      /\ \A u \in Threads : u # t => thread'[u] = thread[u]
  BY <1>1
<1>. QED BY <1>2 DEF Unminted, Unwritten

\* The state without its bounds.
LEMMA TypeSplit ==
    TypeOK <=> /\ today \in Days
               /\ holder \in Processes \cup {Nobody}
               /\ mem \in [Processes -> [day: {0} \cup Days, seq: Numbers]]
               /\ log \in [Ids -> 0 .. MaxCalls]
               /\ sidecar \in [day: {0} \cup Days, seq: Numbers]
               /\ thread \in [Threads -> ThreadStates]
               /\ calls \in 0 .. MaxCalls
               /\ minted \in [Processes -> SUBSET Ids]
               /\ cut \in BOOLEAN
               /\ unguarded \in BOOLEAN
               /\ crashes \in 0 .. MaxCrashes
  BY DEF TypeOK, ThreadStates

\* The first states.
LEMMA InitIInv == Init => IInv
<1>. SUFFICES ASSUME Init PROVE IInv
  OBVIOUS
<1>1. TypeOK
  <2>1. Fresh \in [day: {0} \cup Days, seq: Numbers]
    BY Basics DEF Fresh
  <2>2. 0 \in 0 .. MaxCalls /\ 0 \in 0 .. MaxCrashes
    BY AuditAssumption
  <2>. QED BY <2>1, <2>2, Basics, TypeSplit DEF Init
<1>2. Unminted = {} /\ Unwritten = {}
  BY Basics DEF Init, Unminted, Unwritten
<1>3. Cardinality(Unminted) = 0 /\ Cardinality(Unwritten) = 0
  BY <1>2, FS_EmptySet
<1>4. Fresh.seq = 0 /\ Idle.id.seq = 0 /\ Idle.pc = "idle"
  BY Basics DEF Fresh
<1>5. NumbersBound /\ EntriesBound
  BY <1>3, <1>4 DEF Init, NumbersBound, EntriesBound
<1>6. NotedIsWritten /\ SidecarIsId /\ SidecarFollowsLog
  BY <1>4 DEF Init, NotedIsWritten, SidecarIsId, SidecarFollowsLog
<1>. QED BY <1>1, <1>5, <1>6 DEF IInv

\* What the invariant says of the numbers, with the counts named.
LEMMA Facts ==
    ASSUME IInv
    PROVE  /\ calls \in Nat /\ MaxCalls \in Nat /\ calls <= MaxCalls
           /\ Cardinality(Unminted) \in Nat /\ Cardinality(Unwritten) \in Nat
           /\ Cardinality(Unminted) <= calls
           /\ \A i \in Ids : log[i] \in Nat /\ i.seq \in Nat /\ i.day \in Days
           /\ \A t \in Threads : /\ thread[t] \in ThreadStates /\ thread[t].id \in Ids
                                 /\ thread[t].id.seq \in Nat /\ thread[t].id.day \in Days
                                 /\ ProcessOf[t] \in Processes
           /\ \A p \in Processes : mem[p].seq \in Nat
           /\ sidecar.seq \in Nat
<1>1. calls \in Nat /\ MaxCalls \in Nat /\ calls <= MaxCalls
  BY AuditAssumption DEF IInv, TypeOK
<1>2. Cardinality(Unminted) \in Nat /\ Cardinality(Unwritten) \in Nat
  BY Basics
<1>3. \A i \in Ids : log[i] \in Nat /\ i.seq \in Nat /\ i.day \in Days
  <2>1. \A i \in Ids : log[i] \in Nat
    BY DEF IInv, TypeOK
  <2>2. \A i \in Ids : i.seq \in Nat /\ i.day \in Days
    BY Basics
  <2>. QED BY <2>1, <2>2
<1>4. \A t \in Threads : thread[t] \in ThreadStates
  BY TypeSplit DEF IInv
<1>5. \A s \in ThreadStates : s.id \in Ids
  BY DEF ThreadStates
<1>6. \A t \in Threads : ProcessOf[t] \in Processes
  BY AuditAssumption
<1>7. sidecar.seq \in Nat /\ \A p \in Processes : mem[p].seq \in Nat
  BY Basics DEF IInv, TypeOK
<1>8. sidecar.seq + Cardinality(Unminted) <= calls
  BY DEF IInv, NumbersBound
<1>9. Cardinality(Unminted) <= calls
  BY <1>1, <1>2, <1>7, <1>8
<1>10. \A t \in Threads : thread[t].id \in Ids
  BY <1>4, <1>5
<1>11. \A t \in Threads : thread[t].id.seq \in Nat /\ thread[t].id.day \in Days
  BY <1>3, <1>10
<1>. QED BY <1>1, <1>2, <1>3, <1>4, <1>6, <1>7, <1>9, <1>10, <1>11

\* A call begins.
LEMMA BeginIInv ==
    ASSUME IInv, NEW t \in Threads, Begin(t)
    PROVE  IInv'
<1>. DEFINE n == Cardinality(Unminted)
            w == Cardinality(Unwritten)
            s == [pc |-> "flock", id |-> [day |-> today, seq |-> 0], locked |-> FALSE]
<1>1. s \in ThreadStates /\ s.pc = "flock" /\ s.id.seq = 0
  <2>1. [day |-> today, seq |-> 0] \in Ids
    BY Basics DEF IInv, TypeOK
  <2>. QED BY <2>1 DEF ThreadStates
<1>2. thread' = [thread EXCEPT ![t] = s] /\ thread[t].pc = "idle" /\ calls' = calls + 1
      /\ calls < MaxCalls
      /\ UNCHANGED <<today, holder, mem, log, sidecar, minted, cut, unguarded, crashes>>
  BY DEF Begin, histVars
<1>. HIDE DEF s
<1>3. TypeOK /\ NumbersBound /\ EntriesBound /\ NotedIsWritten /\ SidecarIsId
      /\ SidecarFollowsLog
  BY DEF IInv
<1>4. /\ thread' \in [Threads -> ThreadStates] /\ thread'[t] = s
      /\ \A u \in Threads : u # t => thread'[u] = thread[u]
      /\ Unminted' = Unminted \cup {t} /\ t \notin Unminted
      /\ Unwritten' = Unwritten \cup {t} /\ t \notin Unwritten
  BY <1>1, <1>2, <1>3, PendingMoves
<1>5. Cardinality(Unminted)' = n + 1 /\ Cardinality(Unwritten)' = w + 1
  BY <1>4, Counted DEF Unminted, Unwritten
<1>6. calls \in Nat /\ MaxCalls \in Nat /\ n \in Nat /\ w \in Nat /\ n <= calls
      /\ sidecar.seq \in Nat
  BY Facts
<1>7. TypeOK'
  <2>1. calls' \in 0 .. MaxCalls
    BY <1>2, <1>6
  <2>. QED BY <1>2, <1>3, <1>4, <2>1, TypeSplit DEF TypeOK, ThreadStates
<1>8. NumbersBound'
  <2>. HIDE DEF n
  <2>1. /\ \A p \in Processes : mem[p].seq + n <= calls
        /\ sidecar.seq + n <= calls
        /\ \A u \in Threads : thread[u].id.seq + n <= calls
        /\ \A i \in Ids : log[i] > 0 => i.seq + n <= calls
    BY <1>3 DEF NumbersBound, n
  <2>2. \A p \in Processes : mem'[p].seq + (n + 1) <= calls'
    BY <1>2, <1>6, <2>1, Facts
  <2>3. sidecar'.seq + (n + 1) <= calls'
    BY <1>2, <1>6, <2>1
  <2>4. \A u \in Threads : thread'[u].id.seq + (n + 1) <= calls'
    BY <1>1, <1>2, <1>4, <1>6, <2>1, Facts
  <2>5. \A i \in Ids : log'[i] > 0 => i.seq + (n + 1) <= calls'
    BY <1>2, <1>6, <2>1, Facts
  <2>. QED BY <1>5, <2>2, <2>3, <2>4, <2>5 DEF NumbersBound
<1>9. EntriesBound'
  <2>. HIDE DEF w
  <2>1. \A i \in Ids : log[i] + w <= calls
    BY <1>3 DEF EntriesBound, w
  <2>2. \A i \in Ids : log'[i] + (w + 1) <= calls'
    BY <1>2, <1>6, <2>1, Facts
  <2>. QED BY <1>5, <2>2 DEF EntriesBound
<1>10. NotedIsWritten' /\ SidecarIsId' /\ SidecarFollowsLog'
  BY <1>1, <1>2, <1>3, <1>4 DEF NotedIsWritten, SidecarIsId, SidecarFollowsLog
<1>. QED BY <1>7, <1>8, <1>9, <1>10 DEF IInv


\* The file lock is got, or the call goes on without it.
LEMMA AcquireIInv ==
    ASSUME IInv, NEW t \in Threads, AcquireXprocLock(t) \/ ProceedUnlocked(t)
    PROVE  IInv'
<1>0. \A x \in ThreadStates :
        /\ [x EXCEPT !.pc = "mint"] \in ThreadStates
        /\ [x EXCEPT !.pc = "mint"].pc = "mint" /\ [x EXCEPT !.pc = "mint"].id = x.id
        /\ [x EXCEPT !.pc = "mint", !.locked = TRUE] \in ThreadStates
        /\ [x EXCEPT !.pc = "mint", !.locked = TRUE].pc = "mint"
        /\ [x EXCEPT !.pc = "mint", !.locked = TRUE].id = x.id
  BY DEF ThreadStates
<1>1. PICK s \in ThreadStates :
        s.pc = "mint" /\ s.id = thread[t].id /\ thread' = [thread EXCEPT ![t] = s]
  <2>1. \/ thread' = [thread EXCEPT ![t] = [thread[t] EXCEPT !.pc = "mint"]]
        \/ thread' = [thread EXCEPT ![t] = [thread[t] EXCEPT !.pc = "mint", !.locked = TRUE]]
    BY DEF AcquireXprocLock, ProceedUnlocked
  <2>2. thread[t] \in ThreadStates
    BY Facts
  <2>. QED BY <1>0, <2>1, <2>2
<1>2. /\ thread[t].pc = "flock"
      /\ holder' \in {holder, ProcessOf[t]} /\ unguarded' \in BOOLEAN
      /\ UNCHANGED <<today, mem, log, sidecar, calls, minted, cut, crashes>>
  BY DEF AcquireXprocLock, ProceedUnlocked
<1>3. TypeOK /\ NumbersBound /\ EntriesBound /\ NotedIsWritten /\ SidecarIsId
      /\ SidecarFollowsLog
  BY DEF IInv
<1>4. /\ thread' \in [Threads -> ThreadStates] /\ thread'[t] = s
      /\ \A u \in Threads : u # t => thread'[u] = thread[u]
      /\ Unminted' = Unminted /\ Unwritten' = Unwritten
  BY <1>1, <1>2, <1>3, PendingMoves
<1>5. \A u \in Threads : thread'[u].id = thread[u].id
  BY <1>1, <1>4
<1>6. TypeOK'
  <2>1. holder' \in Processes \cup {Nobody} /\ unguarded' \in BOOLEAN
    BY <1>2, <1>3, Facts DEF TypeOK
  <2>. QED BY <1>2, <1>3, <1>4, <2>1, TypeSplit DEF TypeOK, ThreadStates
<1>7. NumbersBound' /\ EntriesBound'
  BY <1>2, <1>3, <1>4, <1>5 DEF NumbersBound, EntriesBound
<1>8. NotedIsWritten' /\ SidecarIsId' /\ SidecarFollowsLog'
  BY <1>1, <1>2, <1>3, <1>4 DEF NotedIsWritten, SidecarIsId, SidecarFollowsLog
<1>. QED BY <1>6, <1>7, <1>8 DEF IInv

\* The id of a mint.
MintOf(t) ==
    [day |-> thread[t].id.day, seq |-> _mint_seq_locked(ProcessOf[t], thread[t].id.day)]

\* What a mint changes, and that its id is within the bounds.
LEMMA MintIs ==
    ASSUME IInv, NEW t \in Threads, MintSeq(t)
    PROVE  /\ thread[t].pc = "mint" /\ MintOf(t) \in Ids
           /\ MintOf(t).day = thread[t].id.day
           /\ MintOf(t).seq = _mint_seq_locked(ProcessOf[t], thread[t].id.day)
           /\ thread' \in [Threads -> ThreadStates]
           /\ thread'[t].pc = "append" /\ thread'[t].id = MintOf(t)
           /\ \A u \in Threads : u # t => thread'[u] = thread[u]
           /\ Unminted' = Unminted \ {t} /\ t \in Unminted /\ Unwritten' = Unwritten
           /\ Cardinality(Unminted)' = Cardinality(Unminted) - 1
           /\ MintOf(t).seq + (Cardinality(Unminted) - 1) <= calls
           /\ mem' = [mem EXCEPT ![ProcessOf[t]] = MintOf(t)]
           /\ minted' = [minted EXCEPT ![ProcessOf[t]] = @ \cup {MintOf(t)}]
           /\ UNCHANGED <<today, holder, log, sidecar, calls, cut, unguarded, crashes>>
<1>. DEFINE n == Cardinality(Unminted)
            m == _mint_seq_locked(ProcessOf[t], thread[t].id.day)
            s == [thread[t] EXCEPT !.pc = "append", !.id = MintOf(t)]
<1>1. /\ thread' = [thread EXCEPT ![t] = s] /\ thread[t].pc = "mint"
      /\ mem' = [mem EXCEPT ![ProcessOf[t]] = MintOf(t)]
      /\ minted' = [minted EXCEPT ![ProcessOf[t]] = @ \cup {MintOf(t)}]
      /\ UNCHANGED <<today, holder, log, sidecar, calls, cut, unguarded, crashes>>
  BY DEF MintSeq, MintOf
<1>2. t \in Unminted
  BY <1>1 DEF Unminted
<1>3. Cardinality(Unminted \ {t}) = n - 1 /\ Cardinality(Unminted \ {t}) \in Nat
  <2>1. Unminted \in SUBSET Threads /\ Unminted \ {t} \in SUBSET Threads
    BY DEF Unminted
  <2>. QED BY <1>2, <2>1, Counted
<1>4. ProcessOf[t] \in Processes /\ thread[t].id.day \in Days
      /\ calls \in Nat /\ MaxCalls \in Nat /\ calls <= MaxCalls /\ n \in Nat
  BY Facts
<1>5. m \in Nat /\ m + n <= calls + 1
  BY <1>4, Minted DEF IInv
<1>. HIDE DEF m, n
<1>6. m + (n - 1) <= calls /\ m \in 0 .. MaxCalls
  BY <1>3, <1>4, <1>5
<1>7. MintOf(t).day = thread[t].id.day /\ MintOf(t).seq = m
  BY DEF MintOf, m
<1>8. MintOf(t) \in Ids
  BY <1>4, <1>6 DEF MintOf, m, Ids, Numbers
<1>9. s \in ThreadStates /\ s.pc = "append" /\ s.id = MintOf(t)
  <2>1. \A x \in ThreadStates, i \in Ids :
          /\ [x EXCEPT !.pc = "append", !.id = i] \in ThreadStates
          /\ [x EXCEPT !.pc = "append", !.id = i].pc = "append"
          /\ [x EXCEPT !.pc = "append", !.id = i].id = i
    BY DEF ThreadStates
  <2>. QED BY <1>8, <2>1, Facts
<1>. HIDE DEF s
<1>10. /\ thread' \in [Threads -> ThreadStates] /\ thread'[t] = s
       /\ \A u \in Threads : u # t => thread'[u] = thread[u]
       /\ Unminted' = Unminted \ {t} /\ Unwritten' = Unwritten
  BY <1>1, <1>9, PendingMoves DEF IInv
<1>. QED BY <1>1, <1>2, <1>3, <1>6, <1>7, <1>8, <1>9, <1>10 DEF m, n

\* An id is minted.
LEMMA MintIInv ==
    ASSUME IInv, NEW t \in Threads, MintSeq(t)
    PROVE  IInv'
<1>. DEFINE n == Cardinality(Unminted)
            id == MintOf(t)
            p == ProcessOf[t]
<1>1. TypeOK /\ NumbersBound /\ EntriesBound /\ NotedIsWritten /\ SidecarIsId
      /\ SidecarFollowsLog
  BY DEF IInv
<1>2. /\ thread' \in [Threads -> ThreadStates] /\ id \in Ids /\ p \in Processes
      /\ thread'[t].pc = "append" /\ thread'[t].id = id
      /\ \A u \in Threads : u # t => thread'[u] = thread[u]
      /\ Cardinality(Unminted)' = n - 1 /\ Unwritten' = Unwritten
      /\ id.seq + (n - 1) <= calls
      /\ mem' = [mem EXCEPT ![p] = id]
      /\ minted' = [minted EXCEPT ![p] = @ \cup {id}]
      /\ UNCHANGED <<today, holder, log, sidecar, calls, cut, unguarded, crashes>>
  <2>1. p \in Processes
    BY Facts
  <2>. QED BY <2>1, MintIs
<1>. HIDE DEF id, p
<1>3. id \in [day: {0} \cup Days, seq: Numbers]
  BY <1>2 DEF Ids
<1>4. TypeOK'
  <2>1. mem' \in [Processes -> [day: {0} \cup Days, seq: Numbers]]
    BY <1>1, <1>2, <1>3 DEF TypeOK
  <2>2. minted' \in [Processes -> SUBSET Ids]
    BY <1>1, <1>2 DEF TypeOK
  <2>. QED BY <1>1, <1>2, <2>1, <2>2, TypeSplit DEF TypeOK, ThreadStates
<1>5. NumbersBound'
  <2>. HIDE DEF n
  <2>1. n \in Nat /\ calls \in Nat
    BY Facts DEF n
  <2>2. /\ \A q \in Processes : mem[q].seq + n <= calls
        /\ sidecar.seq + n <= calls
        /\ \A u \in Threads : thread[u].id.seq + n <= calls
        /\ \A i \in Ids : log[i] > 0 => i.seq + n <= calls
    BY <1>1 DEF NumbersBound, n
  <2>3. \A q \in Processes : mem'[q].seq + (n - 1) <= calls'
    <3>1. \A q \in Processes : mem'[q] = IF q = p THEN id ELSE mem[q]
      BY <1>1, <1>2 DEF TypeOK
    <3>. QED BY <1>2, <2>1, <2>2, <3>1, Facts
  <2>4. sidecar'.seq + (n - 1) <= calls'
    BY <1>2, <2>1, <2>2, Facts
  <2>5. \A u \in Threads : thread'[u].id.seq + (n - 1) <= calls'
    BY <1>2, <2>1, <2>2, Facts
  <2>6. \A i \in Ids : log'[i] > 0 => i.seq + (n - 1) <= calls'
    BY <1>2, <2>1, <2>2, Facts
  <2>. QED BY <1>2, <2>3, <2>4, <2>5, <2>6 DEF NumbersBound, n
<1>6. EntriesBound'
  <2>1. Cardinality(Unwritten)' = Cardinality(Unwritten)
    BY <1>2
  <2>. QED BY <1>1, <1>2, <2>1 DEF EntriesBound
<1>7. NotedIsWritten' /\ SidecarIsId' /\ SidecarFollowsLog'
  BY <1>1, <1>2 DEF NotedIsWritten, SidecarIsId, SidecarFollowsLog
<1>. QED BY <1>4, <1>5, <1>6, <1>7 DEF IInv


\* An entry is written, or is not.
LEMMA WriteIInv ==
    ASSUME IInv, NEW t \in Threads, WriteEntry(t)
    PROVE  IInv'
<1>. DEFINE w == Cardinality(Unwritten)
            id == thread[t].id
<1>1. TypeOK /\ NumbersBound /\ EntriesBound /\ NotedIsWritten /\ SidecarIsId
      /\ SidecarFollowsLog
  BY DEF IInv
<1>2. PICK pc \in {"sidecar", "release"} :
        /\ thread' = [thread EXCEPT ![t].pc = pc] /\ thread[t].pc = "append"
        /\ log' \in {log, [log EXCEPT ![id] = @ + 1]}
        /\ pc = "sidecar" => log' = [log EXCEPT ![id] = @ + 1]
        /\ cut' \in BOOLEAN
        /\ UNCHANGED <<today, holder, mem, sidecar, calls, minted, unguarded, crashes>>
  BY <1>1 DEF WriteEntry, AfterFailure, TypeOK
<1>. DEFINE s == [thread[t] EXCEPT !.pc = pc]
<1>3. s \in ThreadStates /\ s.pc = pc /\ s.id = id /\ thread' = [thread EXCEPT ![t] = s]
  <2>1. \A x \in ThreadStates : /\ [x EXCEPT !.pc = pc] \in ThreadStates
                                /\ [x EXCEPT !.pc = pc].pc = pc
                                /\ [x EXCEPT !.pc = pc].id = x.id
    BY DEF ThreadStates
  <2>. QED BY <1>2, <2>1, Facts
<1>. HIDE DEF s
<1>4. /\ thread' \in [Threads -> ThreadStates] /\ thread'[t] = s
      /\ \A u \in Threads : u # t => thread'[u] = thread[u]
      /\ Unminted' = Unminted /\ Unwritten' = Unwritten \ {t} /\ t \in Unwritten
  BY <1>1, <1>2, <1>3, PendingMoves
<1>5. \A u \in Threads : thread'[u].id = thread[u].id
  BY <1>3, <1>4
<1>6. /\ Cardinality(Unwritten)' = w - 1 /\ w - 1 \in Nat
      /\ Cardinality(Unminted)' = Cardinality(Unminted)
  <2>1. Unwritten \in SUBSET Threads /\ Unwritten \ {t} \in SUBSET Threads
    BY DEF Unwritten
  <2>. QED BY <1>4, <2>1, Counted
<1>7. id \in Ids /\ w \in Nat /\ calls \in Nat /\ MaxCalls \in Nat /\ calls <= MaxCalls
      /\ log \in [Ids -> 0 .. MaxCalls] /\ \A i \in Ids : log[i] \in Nat
  BY <1>1, Facts DEF TypeOK
<1>. HIDE DEF id
<1>8. \A i \in Ids : log[i] + w <= calls
  BY <1>1 DEF EntriesBound
<1>. HIDE DEF w
<1>9. /\ log' \in [Ids -> 0 .. MaxCalls]
      /\ \A i \in Ids : log'[i] + (w - 1) <= calls
      /\ \A i \in Ids : log'[i] > 0 => i = id \/ log[i] > 0
      /\ \A i \in Ids : log[i] > 0 => log'[i] > 0
      /\ pc = "sidecar" => log'[id] > 0
  <2>1. CASE log' = [log EXCEPT ![id] = @ + 1]
    <3>1. log' = [log EXCEPT ![id] = @ + 1]
      BY <2>1
    <3>2. \A i \in Ids : log'[i] = IF i = id THEN log[i] + 1 ELSE log[i]
      BY <1>7, <3>1
    <3>3. log[id] + 1 \in 0 .. MaxCalls
      BY <1>6, <1>7, <1>8
    <3>4. log' \in [Ids -> 0 .. MaxCalls]
      BY <1>7, <3>1, <3>3
    <3>. QED BY <1>6, <1>7, <1>8, <3>2, <3>4
  <2>2. CASE log' = log /\ pc # "sidecar"
    BY <1>6, <1>7, <1>8, <2>2
  <2>. QED BY <1>2, <2>1, <2>2
<1>10. TypeOK'
  BY <1>1, <1>2, <1>4, <1>9, TypeSplit DEF TypeOK, ThreadStates
<1>11. NumbersBound'
  <2>1. /\ \A q \in Processes : mem[q].seq + Cardinality(Unminted) <= calls
        /\ sidecar.seq + Cardinality(Unminted) <= calls
        /\ \A u \in Threads : thread[u].id.seq + Cardinality(Unminted) <= calls
        /\ \A i \in Ids : log[i] > 0 => i.seq + Cardinality(Unminted) <= calls
    BY <1>1 DEF NumbersBound
  <2>2. id.seq + Cardinality(Unminted) <= calls
    BY <2>1 DEF id
  <2>3. \A i \in Ids : log'[i] > 0 => i.seq + Cardinality(Unminted) <= calls
    BY <1>9, <2>1, <2>2
  <2>. QED BY <1>2, <1>5, <1>6, <2>1, <2>3 DEF NumbersBound
<1>12. EntriesBound'
  BY <1>2, <1>6, <1>9 DEF EntriesBound
<1>13. NotedIsWritten'
  <2>1. ASSUME NEW u \in Threads, thread'[u].pc = "sidecar" PROVE log'[thread'[u].id] > 0
    <3>1. CASE u = t
      BY <1>3, <1>4, <1>9, <2>1, <3>1
    <3>2. CASE u # t
      <4>1. log[thread[u].id] > 0 /\ thread[u].id \in Ids /\ thread'[u] = thread[u]
        BY <1>1, <1>4, <2>1, <3>2, Facts DEF NotedIsWritten
      <4>. QED BY <1>9, <4>1
    <3>. QED BY <3>1, <3>2
  <2>. QED BY <2>1 DEF NotedIsWritten
<1>14. SidecarIsId'
  BY <1>1, <1>2 DEF SidecarIsId
<1>15. SidecarFollowsLog'
  <2>1. SUFFICES ASSUME sidecar # Fresh PROVE log'[sidecar] > 0
    BY <1>2 DEF SidecarFollowsLog
  <2>2. log[sidecar] > 0
    BY <1>1, <2>1 DEF SidecarFollowsLog
  <2>. QED BY <1>1, <1>9, <2>1, <2>2 DEF SidecarIsId
<1>. QED BY <1>10, <1>11, <1>12, <1>13, <1>14, <1>15 DEF IInv


\* The number is noted, or is not.
LEMMA NoteIInv ==
    ASSUME IInv, NEW t \in Threads, WriteSidecar(t)
    PROVE  IInv'
<1>. DEFINE s == [thread[t] EXCEPT !.pc = "release"]
            id == thread[t].id
<1>1. TypeOK /\ NumbersBound /\ EntriesBound /\ NotedIsWritten /\ SidecarIsId
      /\ SidecarFollowsLog
  BY DEF IInv
<1>2. s \in ThreadStates /\ s.pc = "release" /\ s.id = id
  <2>1. \A x \in ThreadStates : /\ [x EXCEPT !.pc = "release"] \in ThreadStates
                                /\ [x EXCEPT !.pc = "release"].pc = "release"
                                /\ [x EXCEPT !.pc = "release"].id = x.id
    BY DEF ThreadStates
  <2>. QED BY <2>1, Facts
<1>3. /\ thread' = [thread EXCEPT ![t] = s] /\ thread[t].pc = "sidecar"
      /\ sidecar' \in {id, sidecar} /\ cut' \in BOOLEAN
      /\ UNCHANGED <<today, holder, mem, log, calls, minted, unguarded, crashes>>
  BY <1>1 DEF WriteSidecar, TypeOK
<1>. HIDE DEF s
<1>4. /\ thread' \in [Threads -> ThreadStates] /\ thread'[t] = s
      /\ \A u \in Threads : u # t => thread'[u] = thread[u]
      /\ Unminted' = Unminted /\ Unwritten' = Unwritten
  BY <1>1, <1>2, <1>3, PendingMoves
<1>5. \A u \in Threads : thread'[u].id = thread[u].id
  BY <1>2, <1>4
<1>6. id \in Ids /\ log[id] > 0
  BY <1>1, <1>3, Facts DEF NotedIsWritten
<1>7. TypeOK'
  <2>1. id \in [day: {0} \cup Days, seq: Numbers]
    BY <1>6 DEF Ids
  <2>2. sidecar' \in [day: {0} \cup Days, seq: Numbers] /\ cut' \in BOOLEAN
    BY <1>1, <1>3, <2>1 DEF TypeOK
  <2>. QED BY <1>1, <1>3, <1>4, <2>2, TypeSplit DEF TypeOK, ThreadStates
<1>8. NumbersBound' /\ EntriesBound'
  BY <1>1, <1>3, <1>4, <1>5 DEF NumbersBound, EntriesBound
<1>9. NotedIsWritten' /\ SidecarIsId' /\ SidecarFollowsLog'
  BY <1>1, <1>2, <1>3, <1>4, <1>6 DEF NotedIsWritten, SidecarIsId, SidecarFollowsLog
<1>. QED BY <1>7, <1>8, <1>9 DEF IInv

\* The file lock is given up.
LEMMA ReleaseIInv ==
    ASSUME IInv, NEW t \in Threads, ReleaseXprocLock(t)
    PROVE  IInv'
<1>1. TypeOK /\ NumbersBound /\ EntriesBound /\ NotedIsWritten /\ SidecarIsId
      /\ SidecarFollowsLog
  BY DEF IInv
<1>2. Idle \in ThreadStates /\ Idle.pc = "idle" /\ Idle.id.seq = 0
  BY Basics
<1>3. /\ thread' = [thread EXCEPT ![t] = Idle] /\ thread[t].pc = "release"
      /\ holder' \in {holder, Nobody}
      /\ UNCHANGED <<today, mem, log, sidecar, calls, minted, cut, unguarded, crashes>>
  BY DEF ReleaseXprocLock, _release_xproc_lock, histVars
<1>4. /\ thread' \in [Threads -> ThreadStates] /\ thread'[t] = Idle
      /\ \A u \in Threads : u # t => thread'[u] = thread[u]
      /\ Unminted' = Unminted /\ Unwritten' = Unwritten
  BY <1>1, <1>2, <1>3, PendingMoves
<1>5. TypeOK'
  <2>1. holder' \in Processes \cup {Nobody}
    BY <1>1, <1>3 DEF TypeOK
  <2>. QED BY <1>1, <1>3, <1>4, <2>1, TypeSplit DEF TypeOK, ThreadStates
<1>6. NumbersBound'
  <2>1. 0 + Cardinality(Unminted) <= calls
    BY Facts
  <2>2. \A u \in Threads : thread'[u].id.seq + Cardinality(Unminted) <= calls
    BY <1>1, <1>2, <1>4, <2>1 DEF NumbersBound
  <2>. QED BY <1>1, <1>3, <1>4, <2>2 DEF NumbersBound
<1>7. EntriesBound'
  BY <1>1, <1>3, <1>4 DEF EntriesBound
<1>8. NotedIsWritten' /\ SidecarIsId' /\ SidecarFollowsLog'
  BY <1>1, <1>2, <1>3, <1>4 DEF NotedIsWritten, SidecarIsId, SidecarFollowsLog
<1>. QED BY <1>5, <1>6, <1>7, <1>8 DEF IInv

\* What a crash does to the threads.
LEMMA CrashThreads ==
    ASSUME IInv, NEW p \in Processes, Crash(p)
    PROVE  /\ thread' \in [Threads -> ThreadStates]
           /\ \A u \in Threads :
                thread'[u] = IF ProcessOf[u] = p THEN Idle ELSE thread[u]
  BY Basics, Facts DEF Crash

\* A process dies.
LEMMA CrashIInv ==
    ASSUME IInv, NEW p \in Processes, Crash(p)
    PROVE  IInv'
<1>. DEFINE n == Cardinality(Unminted)
            w == Cardinality(Unwritten)
<1>1. TypeOK /\ NumbersBound /\ EntriesBound /\ NotedIsWritten /\ SidecarIsId
      /\ SidecarFollowsLog
  BY DEF IInv
<1>2. /\ crashes < MaxCrashes /\ crashes' = crashes + 1 /\ cut' \in BOOLEAN
      /\ mem' = [mem EXCEPT ![p] = Fresh]
      /\ minted' = [minted EXCEPT ![p] = {}]
      /\ holder' \in {holder, Nobody}
      /\ UNCHANGED <<today, log, sidecar, calls, unguarded>>
  BY <1>1 DEF Crash, TypeOK
<1>3. Idle.pc = "idle" /\ Idle.id.seq = 0
  BY Basics
<1>4. Unminted' \subseteq Unminted /\ Unwritten' \subseteq Unwritten
  BY <1>3, CrashThreads DEF Unminted, Unwritten
<1>5. Cardinality(Unminted)' <= n /\ Cardinality(Unwritten)' <= w
      /\ Cardinality(Unminted)' \in Nat /\ Cardinality(Unwritten)' \in Nat
  <2>1. Unminted \in SUBSET Threads /\ Unwritten \in SUBSET Threads
    BY DEF Unminted, Unwritten
  <2>2. Unminted' \in SUBSET Threads /\ Unwritten' \in SUBSET Threads
    BY <1>4, <2>1
  <2>3. \A S \in SUBSET Threads : Cardinality(S) \in Nat
    BY Counted
  <2>4. \A S \in SUBSET Threads : \A T \in SUBSET S : Cardinality(T) <= Cardinality(S)
    BY Counted
  <2>. QED BY <1>4, <2>1, <2>2, <2>3, <2>4
<1>6. TypeOK'
  <2>1. holder' \in Processes \cup {Nobody} /\ crashes' \in 0 .. MaxCrashes
    BY <1>1, <1>2, AuditAssumption DEF TypeOK
  <2>2. Fresh \in [day: {0} \cup Days, seq: Numbers]
    BY Basics DEF Fresh
  <2>3. mem' \in [Processes -> [day: {0} \cup Days, seq: Numbers]]
    BY <1>1, <1>2, <2>2 DEF TypeOK
  <2>4. minted' \in [Processes -> SUBSET Ids]
    BY <1>1, <1>2 DEF TypeOK
  <2>. QED BY <1>1, <1>2, CrashThreads, <2>1, <2>3, <2>4, TypeSplit DEF TypeOK, ThreadStates
<1>7. NumbersBound'
  <2>. DEFINE m == Cardinality(Unminted)'
  <2>1. n \in Nat /\ m \in Nat /\ m <= n /\ n <= calls /\ calls \in Nat
    BY <1>5, Facts
  <2>. HIDE DEF n, m
  <2>2. /\ \A q \in Processes : mem[q].seq + n <= calls
        /\ sidecar.seq + n <= calls
        /\ \A u \in Threads : thread[u].id.seq + n <= calls
        /\ \A i \in Ids : log[i] > 0 => i.seq + n <= calls
    BY <1>1 DEF NumbersBound, n
  <2>3. \A q \in Processes : mem'[q].seq + m <= calls
    <3>1. \A q \in Processes : mem'[q] = IF q = p THEN Fresh ELSE mem[q]
      BY <1>1, <1>2 DEF TypeOK
    <3>2. Fresh.seq = 0
      BY DEF Fresh
    <3>. QED BY <2>1, <2>2, <3>1, <3>2, Facts
  <2>4. sidecar.seq + m <= calls
    BY <2>1, <2>2, Facts
  <2>5. \A u \in Threads : thread'[u].id.seq + m <= calls
    BY <1>3, <2>1, <2>2, CrashThreads, Facts
  <2>6. \A i \in Ids : log[i] > 0 => i.seq + m <= calls
    BY <2>1, <2>2, Facts
  <2>. QED BY <1>2, <2>3, <2>4, <2>5, <2>6 DEF NumbersBound, m
<1>8. EntriesBound'
  <2>1. \A i \in Ids : log[i] + w <= calls
    BY <1>1 DEF EntriesBound
  <2>2. \A i \in Ids : log[i] + Cardinality(Unwritten)' <= calls
    <3>1. w \in Nat /\ calls \in Nat /\ \A i \in Ids : log[i] \in Nat
      BY Facts
    <3>. QED BY <1>5, <2>1, <3>1
  <2>. QED BY <1>2, <2>2 DEF EntriesBound
<1>9. NotedIsWritten' /\ SidecarIsId' /\ SidecarFollowsLog'
  BY <1>1, <1>2, <1>3, CrashThreads DEF NotedIsWritten, SidecarIsId, SidecarFollowsLog
<1>. QED BY <1>6, <1>7, <1>8, <1>9 DEF IInv

\* What only the history and the date change keeps the invariant.
LEMMA QuietIInv ==
    ASSUME IInv, today' \in Days,
           UNCHANGED <<holder, mem, log, sidecar, thread, calls, minted, cut, unguarded, crashes>>
    PROVE  IInv'
  BY DEF IInv, TypeOK, NumbersBound, EntriesBound, NotedIsWritten, SidecarIsId,
         SidecarFollowsLog, Unminted, Unwritten

\* Every step.
LEMMA NextIInv == IInv /\ [Next]_vars => IInv'
<1>. SUFFICES ASSUME IInv, [Next]_vars PROVE IInv'
  OBVIOUS
<1>1. ASSUME NEW t \in Threads, Begin(t) \/ ProceedUnlocked(t) \/ Step(t) PROVE IInv'
  BY <1>1, BeginIInv, AcquireIInv, MintIInv, WriteIInv, NoteIInv, ReleaseIInv DEF Step
<1>2. ASSUME NEW p \in Processes, Crash(p) PROVE IInv'
  BY <1>2, CrashIInv
<1>3. CASE Midnight
  <2>1. today' \in Days
    BY <1>3, AuditAssumption DEF Midnight, IInv, TypeOK, Days
  <2>. QED BY <1>3, <2>1, QuietIInv DEF Midnight, histVars
<1>4. CASE UNCHANGED vars
  <2>1. today' \in Days
    BY <1>4 DEF vars, IInv, TypeOK
  <2>. QED BY <1>4, <2>1, QuietIInv DEF vars
<1>. QED BY <1>1, <1>2, <1>3, <1>4 DEF Next

\* The bounds on the numbers, the types and the order of the files hold in every
\* reachable state of AuditWriter.log.
THEOREM Invariance == Spec => []IInv
  BY InitIInv, NextIInv, PTL DEF Spec

\* The type invariant, the numbers of ids included: a mint never passes the
\* number of calls of log().
THEOREM TypeCorrect == Spec => []TypeOK
<1>1. IInv => TypeOK
  BY DEF IInv
<1>. QED BY <1>1, Invariance, PTL

\* The entry is in the log before the sidecar names its id, whatever writes
\* fail and processes die (_write_entry before _write_seq_sidecar_locked).
THEOREM SidecarNeverLeads == Spec => []SidecarFollowsLog
<1>1. IInv => SidecarFollowsLog
  BY DEF IInv
<1>. QED BY <1>1, Invariance, PTL


-----------------------------------------------------------------------------
(* The file lock.                                                          *)

\* How a step moves its own thread and leaves the others.
LEMMA Moves ==
    ASSUME IInv, NEW t \in Threads, Begin(t) \/ ProceedUnlocked(t) \/ Step(t)
    PROVE  /\ \A u \in Threads : u # t => thread'[u] = thread[u]
           /\ Begin(t) => thread[t].pc = "idle" /\ thread'[t].pc = "flock"
           /\ AcquireXprocLock(t) => thread[t].pc = "flock" /\ thread'[t].pc = "mint"
           /\ ProceedUnlocked(t) => thread[t].pc = "flock" /\ thread'[t].pc = "mint"
           /\ MintSeq(t) => thread[t].pc = "mint" /\ thread'[t].pc = "append"
           /\ WriteEntry(t) => /\ thread[t].pc = "append"
                               /\ thread'[t].pc \in {"sidecar", "release"}
                               /\ thread'[t].id = thread[t].id
           /\ WriteSidecar(t) => thread[t].pc = "sidecar" /\ thread'[t].pc = "release"
           /\ ReleaseXprocLock(t) => thread[t].pc = "release" /\ thread'[t].pc = "idle"
<1>1. thread \in [Threads -> ThreadStates]
  BY TypeSplit DEF IInv
<1>2. ASSUME NEW pc \in {"mint", "sidecar", "release"}, thread' = [thread EXCEPT ![t].pc = pc]
      PROVE  /\ thread'[t].pc = pc /\ thread'[t].id = thread[t].id
             /\ \A u \in Threads : u # t => thread'[u] = thread[u]
  <2>1. \A x \in ThreadStates : [x EXCEPT !.pc = pc].pc = pc /\ [x EXCEPT !.pc = pc].id = x.id
    BY DEF ThreadStates
  <2>2. thread'[t] = [thread[t] EXCEPT !.pc = pc]
        /\ \A u \in Threads : u # t => thread'[u] = thread[u]
    BY <1>1, <1>2
  <2>. QED BY <1>1, <2>1, <2>2
<1>3. (\/ thread' = [thread EXCEPT ![t].pc = "mint"]
       \/ thread' = [thread EXCEPT ![t].pc = "sidecar"]
       \/ thread' = [thread EXCEPT ![t].pc = "release"]) =>
          /\ \A u \in Threads : u # t => thread'[u] = thread[u]
          /\ thread'[t].id = thread[t].id
          /\ thread' = [thread EXCEPT ![t].pc = "mint"] => thread'[t].pc = "mint"
          /\ thread' = [thread EXCEPT ![t].pc = "sidecar"] => thread'[t].pc = "sidecar"
          /\ thread' = [thread EXCEPT ![t].pc = "release"] => thread'[t].pc = "release"
  BY <1>2
<1>4. ASSUME NEW x, thread' = [thread EXCEPT ![t] = x]
      PROVE  thread'[t] = x /\ \A u \in Threads : u # t => thread'[u] = thread[u]
  BY <1>1, <1>4
<1>5. CASE Begin(t)
  <2>1. thread' = [thread EXCEPT ![t] =
            [pc |-> "flock", id |-> [day |-> today, seq |-> 0], locked |-> FALSE]]
        /\ thread[t].pc = "idle"
    BY <1>5 DEF Begin
  <2>2. thread'[t] = [pc |-> "flock", id |-> [day |-> today, seq |-> 0], locked |-> FALSE]
        /\ \A u \in Threads : u # t => thread'[u] = thread[u]
    BY <1>4, <2>1
  <2>3. thread'[t].pc = "flock"
    BY <2>2
  <2>. QED BY <2>1, <2>2, <2>3 DEF AcquireXprocLock, ProceedUnlocked, MintSeq, WriteEntry, WriteSidecar,
       ReleaseXprocLock
<1>6. CASE AcquireXprocLock(t) \/ ProceedUnlocked(t)
  <2>1. /\ thread[t].pc = "flock"
        /\ \/ thread' = [thread EXCEPT ![t] = [thread[t] EXCEPT !.pc = "mint"]]
           \/ thread' = [thread EXCEPT ![t] = [thread[t] EXCEPT !.pc = "mint", !.locked = TRUE]]
    BY <1>6 DEF AcquireXprocLock, ProceedUnlocked
  <2>2. \A x \in ThreadStates : /\ [x EXCEPT !.pc = "mint"].pc = "mint"
                                /\ [x EXCEPT !.pc = "mint", !.locked = TRUE].pc = "mint"
    BY DEF ThreadStates
  <2>3. PICK x : thread' = [thread EXCEPT ![t] = x] /\ x.pc = "mint"
    BY <1>1, <2>1, <2>2
  <2>4. thread'[t].pc = "mint" /\ \A u \in Threads : u # t => thread'[u] = thread[u]
    BY <1>4, <2>3
  <2>. QED BY <2>1, <2>4 DEF Begin, MintSeq, WriteEntry, WriteSidecar,
       ReleaseXprocLock
<1>7. CASE MintSeq(t)
  <2>1. /\ thread'[t].pc = "append" /\ thread[t].pc = "mint"
        /\ \A u \in Threads : u # t => thread'[u] = thread[u]
    BY <1>7, MintIs
  <2>. QED BY <2>1 DEF Begin, AcquireXprocLock, ProceedUnlocked, WriteEntry, WriteSidecar,
       ReleaseXprocLock
<1>8. CASE WriteEntry(t)
  <2>1. /\ thread[t].pc = "append"
        /\ \/ thread' = [thread EXCEPT ![t].pc = "sidecar"]
           \/ thread' = [thread EXCEPT ![t].pc = "release"]
    BY <1>8 DEF WriteEntry, AfterFailure
  <2>2. /\ thread'[t].pc \in {"sidecar", "release"} /\ thread'[t].id = thread[t].id
        /\ \A u \in Threads : u # t => thread'[u] = thread[u]
    BY <1>3, <2>1
  <2>. QED BY <2>1, <2>2 DEF Begin, AcquireXprocLock, ProceedUnlocked, MintSeq, WriteSidecar, ReleaseXprocLock
<1>9. CASE WriteSidecar(t)
  <2>1. thread' = [thread EXCEPT ![t].pc = "release"] /\ thread[t].pc = "sidecar"
    BY <1>9 DEF WriteSidecar
  <2>. QED BY <1>3, <2>1 DEF Begin, AcquireXprocLock, ProceedUnlocked, MintSeq, WriteEntry, ReleaseXprocLock
<1>10. CASE ReleaseXprocLock(t)
  <2>1. thread' = [thread EXCEPT ![t] = Idle] /\ thread[t].pc = "release"
    BY <1>10 DEF ReleaseXprocLock
  <2>2. thread'[t].pc = "idle" /\ \A u \in Threads : u # t => thread'[u] = thread[u]
    BY <1>4, <2>1, Basics
  <2>. QED BY <2>1, <2>2 DEF Begin, AcquireXprocLock, ProceedUnlocked, MintSeq, WriteEntry, WriteSidecar
<1>. QED BY <1>5, <1>6, <1>7, <1>8, <1>9, <1>10 DEF Step

\* The file lock excludes, step by step.
LEMMA NextExclusive == IInv /\ Exclusive /\ [Next]_vars => Exclusive'
<1>. SUFFICES ASSUME IInv, Exclusive, [Next]_vars PROVE Exclusive'
  OBVIOUS
<1>0. /\ \A u \in Threads : ProcessOf[u] \in Processes
      /\ Nobody \notin Processes
  BY AuditAssumption
<1>1. ASSUME NEW t \in Threads, Begin(t) PROVE Exclusive'
  BY <1>1, Moves DEF Begin, Exclusive, Inside, histVars
<1>2. ASSUME NEW t \in Threads, AcquireXprocLock(t) PROVE Exclusive'
  <2>1. SUFFICES ASSUME ~unguarded' PROVE Exclusive'
    BY DEF Exclusive
  <2>2. holder = Nobody /\ holder' = ProcessOf[t] /\ ~unguarded
    BY <1>2, <2>1 DEF AcquireXprocLock
  <2>3. \A u \in Threads : ~Inside(u)
    BY <1>0, <2>2 DEF Exclusive
  <2>4. /\ \A u \in Threads : u # t => thread'[u] = thread[u]
    BY <1>2, Moves DEF Step
  <2>5. \A u \in Threads : Inside(u)' => u = t
    BY <2>3, <2>4 DEF Inside
  <2>. QED BY <2>2, <2>5 DEF Exclusive
<1>7. ASSUME NEW t \in Threads, ProceedUnlocked(t) PROVE Exclusive'
  BY <1>7 DEF ProceedUnlocked, Exclusive
<1>3. ASSUME NEW t \in Threads, MintSeq(t) \/ WriteEntry(t) \/ WriteSidecar(t) PROVE Exclusive'
  <2>1. holder' = holder /\ unguarded' = unguarded
    BY <1>3 DEF MintSeq, WriteEntry, WriteSidecar, histVars
  <2>2. \A u \in Threads : Inside(u)' <=> Inside(u)
    BY <1>3, Moves DEF Step, Inside
  <2>. QED BY <2>1, <2>2 DEF Exclusive
<1>4. ASSUME NEW t \in Threads, ReleaseXprocLock(t) PROVE Exclusive'
  <2>1. unguarded' = unguarded /\ thread[t].pc = "release" /\ thread'[t].pc = "idle"
        /\ \A u \in Threads : u # t => thread'[u] = thread[u]
    BY <1>4, Moves DEF Step, ReleaseXprocLock, histVars
  <2>2. SUFFICES ASSUME ~unguarded' PROVE \A u \in Threads : ~Inside(u)'
    BY DEF Exclusive
  <2>3. \A u \in Threads : u # t => ~Inside(u)
    BY <2>1, <2>2 DEF Exclusive, Inside
  <2>. QED BY <2>1, <2>3 DEF Inside
<1>5. ASSUME NEW p \in Processes, Crash(p) PROVE Exclusive'
  <2>1. unguarded' = unguarded /\ holder' = IF holder = p THEN Nobody ELSE holder
    BY <1>5 DEF Crash
  <2>2. \A u \in Threads : Inside(u)' => Inside(u) /\ ProcessOf[u] # p
    BY <1>5, CrashThreads, Basics DEF Inside
  <2>. QED BY <2>1, <2>2 DEF Exclusive
<1>6. CASE Midnight \/ UNCHANGED vars
  BY <1>6 DEF Midnight, vars, histVars, Exclusive, Inside
<1>. QED BY <1>1, <1>2, <1>3, <1>4, <1>5, <1>6, <1>7 DEF Next, Step


-----------------------------------------------------------------------------
(* Unique ids.                                                             *)

\* The thread that is inside is alone there.
LEMMA Alone ==
    ASSUME Exclusive, ~unguarded, NEW t \in Threads, Inside(t)
    PROVE  \A u \in Threads : u # t => ~Inside(u)
  BY DEF Exclusive

\* A mint passes every entry of its day.
LEMMA MintPasses ==
    ASSUME UniqueInv, ~cut, ~unguarded, NEW t \in Threads, MintSeq(t)
    PROVE  UpTo(MintOf(t).day, MintOf(t).seq - 1)
<1>. DEFINE d == thread[t].id.day
            m == _mint_seq_locked(ProcessOf[t], d)
            r == _resume_sequence(d)
<1>1. IInv /\ TypeOK /\ NumbersBound /\ Exclusive /\ Ordered
  BY DEF UniqueInv, IInv
<1>2. /\ ProcessOf[t] \in Processes /\ d \in Days
      /\ \A i \in Ids : i.seq \in Nat
  BY <1>1, Facts
<1>3. /\ thread[t].pc = "mint" /\ MintOf(t).day = d /\ MintOf(t).seq = m
  BY <1>1, MintIs
<1>4. m \in Nat /\ m > r /\ r \in Nat
  <2>1. m \in Nat /\ m > r
    BY <1>1, <1>2, Minted
  <2>2. r \in Numbers
    BY <1>1, <1>2, Resumed
  <2>. QED BY <2>1, <2>2, Basics
<1>5. \A u \in Threads : thread[u].pc # "sidecar"
  BY <1>1, <1>3, Alone DEF Inside
<1>6. UpTo(d, r)
  <2>1. CASE sidecar.day = d
    <3>1. r = sidecar.seq
      BY <1>1, <1>2, <2>1, Resumed
    <3>2. \A i \in Ids : log[i] > 0 /\ i.day = sidecar.day => i.seq <= sidecar.seq
      BY <1>1, <1>5 DEF Ordered
    <3>. QED BY <2>1, <3>1, <3>2 DEF UpTo
  <2>2. CASE sidecar.day # d
    BY <1>1, <1>2, <2>2, Resumed
  <2>. QED BY <2>1, <2>2
<1>. HIDE DEF d, m, r
<1>7. UpTo(d, m - 1)
  BY <1>2, <1>4, <1>6 DEF UpTo
<1>. QED BY <1>3, <1>7

\* Neither mark of the history is taken back.
LEMMA MarksStay == [Next]_vars => (cut => cut') /\ (unguarded => unguarded')
<1>. SUFFICES ASSUME [Next]_vars PROVE (cut => cut') /\ (unguarded => unguarded')
  OBVIOUS
<1>1. ASSUME NEW t \in Threads, Begin(t) PROVE (cut => cut') /\ (unguarded => unguarded')
  BY <1>1 DEF Begin, histVars
<1>2. ASSUME NEW t \in Threads, AcquireXprocLock(t) PROVE (cut => cut') /\ (unguarded => unguarded')
  BY <1>2 DEF AcquireXprocLock
<1>9. ASSUME NEW t \in Threads, ProceedUnlocked(t) PROVE (cut => cut') /\ (unguarded => unguarded')
  BY <1>9 DEF ProceedUnlocked
<1>3. ASSUME NEW t \in Threads, MintSeq(t) PROVE (cut => cut') /\ (unguarded => unguarded')
  BY <1>3 DEF MintSeq
<1>4. ASSUME NEW t \in Threads, WriteEntry(t) PROVE (cut => cut') /\ (unguarded => unguarded')
  BY <1>4 DEF WriteEntry
<1>5. ASSUME NEW t \in Threads, WriteSidecar(t) PROVE (cut => cut') /\ (unguarded => unguarded')
  BY <1>5 DEF WriteSidecar
<1>6. ASSUME NEW t \in Threads, ReleaseXprocLock(t) PROVE (cut => cut') /\ (unguarded => unguarded')
  BY <1>6 DEF ReleaseXprocLock, histVars
<1>7. ASSUME NEW p \in Processes, Crash(p) PROVE (cut => cut') /\ (unguarded => unguarded')
  BY <1>7 DEF Crash
<1>8. CASE Midnight \/ UNCHANGED vars
  BY <1>8 DEF Midnight, vars, histVars
<1>. QED BY <1>1, <1>2, <1>3, <1>4, <1>5, <1>6, <1>7, <1>8, <1>9 DEF Next, Step

\* Order and uniqueness, without the marks.
OrderedNow ==
    /\ \A t \in Threads : thread[t].pc = "append" =>
           UpTo(thread[t].id.day, thread[t].id.seq - 1)
    /\ \A t \in Threads : thread[t].pc = "sidecar" =>
           UpTo(thread[t].id.day, thread[t].id.seq)
    /\ \A i \in Ids : log[i] > 0 /\ i.day = sidecar.day =>
           \/ i.seq <= sidecar.seq
           \/ \E t \in Threads : thread[t].pc = "sidecar" /\ thread[t].id = i

UniqueNow == \A i \in Ids : log[i] <= 1

\* A step that leaves the two files alone and moves a thread neither to the
\* append nor from or to the note keeps order and uniqueness.
LEMMA QuietOrdered ==
    ASSUME OrderedNow, UniqueNow, UNCHANGED <<log, sidecar>>,
           \A u \in Threads : \/ thread'[u] = thread[u]
                              \/ /\ thread[u].pc # "sidecar"
                                 /\ thread'[u].pc \notin {"append", "sidecar"}
    PROVE  OrderedNow' /\ UniqueNow'
<1>1. UniqueNow'
  BY DEF UniqueNow
<1>2. ASSUME NEW i \in Ids, log'[i] > 0, i.day = sidecar'.day
      PROVE  \/ i.seq <= sidecar'.seq
             \/ \E t \in Threads : thread'[t].pc = "sidecar" /\ thread'[t].id = i
  BY <1>2 DEF OrderedNow
<1>3. ASSUME NEW u \in Threads, thread'[u].pc = "append"
      PROVE  UpTo(thread[u].id.day, thread[u].id.seq - 1)'
  <2>1. thread'[u] = thread[u]
    BY <1>3
  <2>. QED BY <1>3, <2>1 DEF OrderedNow, UpTo
<1>4. ASSUME NEW u \in Threads, thread'[u].pc = "sidecar"
      PROVE  UpTo(thread[u].id.day, thread[u].id.seq)'
  <2>1. thread'[u] = thread[u]
    BY <1>4
  <2>. QED BY <1>4, <2>1 DEF OrderedNow, UpTo
<1>. QED BY <1>1, <1>2, <1>3, <1>4 DEF OrderedNow

\* An id is minted.
LEMMA MintOrdered ==
    ASSUME UniqueInv, OrderedNow, UniqueNow, ~cut, ~unguarded, NEW t \in Threads, MintSeq(t)
    PROVE  OrderedNow' /\ UniqueNow'
<1>1. IInv /\ Exclusive
  BY DEF UniqueInv
<1>2. /\ thread[t].pc = "mint" /\ thread'[t].pc = "append" /\ thread'[t].id = MintOf(t)
      /\ \A u \in Threads : u # t => thread'[u] = thread[u]
      /\ UNCHANGED <<log, sidecar>>
  BY <1>1, MintIs
<1>3. thread'[t].pc = "append" /\ thread'[t].id = MintOf(t)
  BY <1>2
<1>4. \A u \in Threads : u # t => thread'[u].pc \notin {"append", "sidecar"}
  BY <1>1, <1>2, Alone DEF Inside
<1>5. UpTo(MintOf(t).day, MintOf(t).seq - 1)
  BY MintPasses
<1>6. UniqueNow'
  BY <1>2 DEF UniqueNow
<1>7. \A i \in Ids : log'[i] > 0 /\ i.day = sidecar'.day => i.seq <= sidecar'.seq
  <2>1. \A u \in Threads : thread[u].pc # "sidecar"
    BY <1>1, <1>2, Alone DEF Inside
  <2>. QED BY <1>2, <2>1 DEF OrderedNow
<1>8. \A u \in Threads : thread'[u].pc = "append" => u = t
  BY <1>4
<1>9. \A u \in Threads : thread'[u].pc # "sidecar"
  BY <1>3, <1>4
<1>10. \A i \in Ids : log'[i] > 0 /\ i.day = MintOf(t).day => i.seq <= MintOf(t).seq - 1
  BY <1>2, <1>5 DEF UpTo
<1>. QED BY <1>3, <1>6, <1>7, <1>8, <1>9, <1>10 DEF OrderedNow, UpTo

\* An entry is written: none has its id.
LEMMA WriteOrdered ==
    ASSUME UniqueInv, OrderedNow, UniqueNow, ~cut, ~unguarded, NEW t \in Threads,
           WriteEntry(t), ~cut'
    PROVE  OrderedNow' /\ UniqueNow'
<1>. DEFINE id == thread[t].id
<1>1. IInv /\ Exclusive
  BY DEF UniqueInv
<1>2. /\ thread[t].pc = "append" /\ thread'[t].id = id
      /\ thread'[t].pc \in {"sidecar", "release"}
      /\ \A u \in Threads : u # t => thread'[u] = thread[u]
      /\ sidecar' = sidecar
  <2>1. sidecar' = sidecar
    BY DEF WriteEntry
  <2>. QED BY <1>1, <2>1, Moves DEF Step
<1>3. \A u \in Threads : u # t => thread[u].pc \notin {"append", "sidecar"}
  BY <1>1, <1>2, Alone DEF Inside
<1>4. /\ id \in Ids /\ id.seq \in Nat /\ log \in [Ids -> 0 .. MaxCalls]
      /\ \A i \in Ids : log[i] \in Nat /\ i.seq \in Nat
  BY <1>1, Facts DEF IInv, TypeOK
<1>5. CASE log' = log /\ thread'[t].pc = "release"
  BY <1>2, <1>5, QuietOrdered
<1>6. CASE log' = [log EXCEPT ![id] = @ + 1] /\ thread'[t].pc = "sidecar"
  <2>1. \A i \in Ids : log'[i] = IF i = id THEN log[i] + 1 ELSE log[i]
    BY <1>4, <1>6
  <2>2. UpTo(id.day, id.seq - 1)
    BY <1>2 DEF OrderedNow
  <2>. HIDE DEF id
  <2>3. log[id] = 0
    <3>1. SUFFICES ASSUME log[id] > 0 PROVE FALSE
      BY <1>4
    <3>2. id.seq <= id.seq - 1
      BY <1>4, <2>2, <3>1 DEF UpTo
    <3>. QED BY <1>4, <3>2
  <2>4. UniqueNow'
    BY <2>1, <2>3 DEF UniqueNow
  <2>5. \A i \in Ids : log'[i] > 0 /\ i.day = id.day => i.seq <= id.seq
    <3>1. ASSUME NEW i \in Ids, log'[i] > 0, i.day = id.day, i # id PROVE i.seq <= id.seq
      <4>1. log[i] > 0
        BY <2>1, <3>1
      <4>2. i.seq <= id.seq - 1
        BY <2>2, <3>1, <4>1 DEF UpTo
      <4>. QED BY <1>4, <4>2
    <3>. QED BY <1>4, <3>1
  <2>6. \A u \in Threads : u # t => thread'[u].pc \notin {"append", "sidecar"}
    BY <1>2, <1>3
  <2>7. \A i \in Ids : log'[i] > 0 /\ i.day = sidecar'.day => i = id \/ i.seq <= sidecar'.seq
    <3>1. \A u \in Threads : thread[u].pc # "sidecar"
      BY <1>2, <1>3
    <3>. QED BY <1>2, <2>1, <3>1 DEF OrderedNow
  <2>. QED BY <1>2, <1>6, <2>4, <2>5, <2>6, <2>7 DEF OrderedNow, UpTo
<1>7. \/ log' = log /\ thread'[t].pc = "release"
      \/ log' = [log EXCEPT ![id] = @ + 1] /\ thread'[t].pc = "sidecar"
  <2>1. thread \in [Threads -> ThreadStates]
    BY <1>1, TypeSplit DEF IInv
  <2>2. \A x \in ThreadStates, pc \in {"sidecar", "release"} : [x EXCEPT !.pc = pc].pc = pc
    BY DEF ThreadStates
  <2>3. CASE log' = log /\ thread' = [thread EXCEPT ![t].pc = "release"]
    BY <2>1, <2>2, <2>3
  <2>4. CASE log' = [log EXCEPT ![id] = @ + 1] /\ thread' = [thread EXCEPT ![t].pc = "sidecar"]
    BY <2>1, <2>2, <2>4
  <2>. QED BY <2>3, <2>4 DEF WriteEntry, AfterFailure
<1>. QED BY <1>5, <1>6, <1>7

\* The number of the last entry is noted.
LEMMA NoteOrdered ==
    ASSUME UniqueInv, OrderedNow, UniqueNow, ~cut, ~unguarded, NEW t \in Threads,
           WriteSidecar(t), ~cut'
    PROVE  OrderedNow' /\ UniqueNow'
<1>. DEFINE id == thread[t].id
<1>1. IInv /\ Exclusive
  BY DEF UniqueInv
<1>2. /\ thread[t].pc = "sidecar" /\ thread'[t].pc = "release"
      /\ \A u \in Threads : u # t => thread'[u] = thread[u]
  BY <1>1, Moves DEF Step
<1>3. sidecar' = id /\ log' = log
  BY DEF WriteSidecar
<1>4. UpTo(id.day, id.seq)
  BY <1>2 DEF OrderedNow
<1>5. \A u \in Threads : thread'[u].pc \notin {"append", "sidecar"}
  BY <1>1, <1>2, Alone DEF Inside
<1>6. \A i \in Ids : log'[i] > 0 /\ i.day = sidecar'.day => i.seq <= sidecar'.seq
  BY <1>3, <1>4 DEF UpTo
<1>7. UniqueNow'
  BY <1>3 DEF UniqueNow
<1>. QED BY <1>5, <1>6, <1>7 DEF OrderedNow

\* Every step.
LEMMA NextUniqueInv == UniqueInv /\ [Next]_vars => UniqueInv'
<1>. SUFFICES ASSUME UniqueInv, [Next]_vars PROVE UniqueInv'
  OBVIOUS
<1>1. IInv /\ Exclusive
  BY DEF UniqueInv
<1>2. IInv' /\ Exclusive'
  BY <1>1, NextIInv, NextExclusive
<1>3. SUFFICES ASSUME ~cut', ~unguarded' PROVE OrderedNow' /\ UniqueNow'
  BY <1>2 DEF UniqueInv, Ordered, OrderedNow, UniqueWhileGuarded, UniqueNow
<1>4. ~cut /\ ~unguarded
  BY <1>3, MarksStay
<1>5. OrderedNow /\ UniqueNow
  BY <1>4 DEF UniqueInv, Ordered, OrderedNow, UniqueWhileGuarded, UniqueNow
<1>6. ASSUME NEW t \in Threads,
             Begin(t) \/ AcquireXprocLock(t) \/ ProceedUnlocked(t) \/ ReleaseXprocLock(t)
      PROVE  OrderedNow' /\ UniqueNow'
  <2>1. UNCHANGED <<log, sidecar>>
    BY <1>6 DEF Begin, AcquireXprocLock, ProceedUnlocked, ReleaseXprocLock, histVars
  <2>2. \A u \in Threads : u # t => thread'[u] = thread[u]
    BY <1>1, <1>6, Moves DEF Step
  <2>3. thread[t].pc # "sidecar" /\ thread'[t].pc \notin {"append", "sidecar"}
    BY <1>1, <1>6, Moves DEF Step
  <2>. QED BY <1>5, <2>1, <2>2, <2>3, QuietOrdered
<1>7. ASSUME NEW t \in Threads, MintSeq(t) PROVE OrderedNow' /\ UniqueNow'
  BY <1>4, <1>5, <1>7, MintOrdered
<1>8. ASSUME NEW t \in Threads, WriteEntry(t) PROVE OrderedNow' /\ UniqueNow'
  BY <1>3, <1>4, <1>5, <1>8, WriteOrdered
<1>9. ASSUME NEW t \in Threads, WriteSidecar(t) PROVE OrderedNow' /\ UniqueNow'
  BY <1>3, <1>4, <1>5, <1>9, NoteOrdered
<1>10. ASSUME NEW p \in Processes, Crash(p) PROVE OrderedNow' /\ UniqueNow'
  <2>1. UNCHANGED <<log, sidecar>>
        /\ \A u \in Threads : ProcessOf[u] = p => thread[u].pc # "sidecar"
    BY <1>3, <1>10 DEF Crash
  <2>2. \A u \in Threads : \/ thread'[u] = thread[u]
                           \/ thread[u].pc # "sidecar" /\ thread'[u].pc = "idle"
    BY <1>1, <1>10, <2>1, CrashThreads, Basics
  <2>. QED BY <1>5, <2>1, <2>2, QuietOrdered
<1>11. CASE Midnight \/ UNCHANGED vars
  <2>1. UNCHANGED <<log, sidecar, thread>>
    BY <1>11 DEF Midnight, vars
  <2>. QED BY <1>5, <2>1, QuietOrdered
<1>. QED BY <1>6, <1>7, <1>8, <1>9, <1>10, <1>11 DEF Next, Step

\* The lock, the order of the numbers and their uniqueness hold in every
\* reachable state.
THEOREM UniqueInvariance == Spec => []UniqueInv
<1>1. Init => UniqueInv
  <2>1. SUFFICES ASSUME Init PROVE UniqueInv
    OBVIOUS
  <2>2. IInv
    BY <2>1, InitIInv
  <2>3. \A t \in Threads : thread[t].pc = "idle"
    BY <2>1, Basics DEF Init
  <2>4. \A i \in Ids : log[i] = 0
    BY <2>1 DEF Init
  <2>5. Exclusive
    BY <2>3 DEF Exclusive, Inside
  <2>6. Ordered /\ UniqueWhileGuarded
    BY <2>3, <2>4 DEF Ordered, UniqueWhileGuarded
  <2>. QED BY <2>2, <2>5, <2>6 DEF UniqueInv
<1>. QED BY <1>1, NextUniqueInv, PTL DEF Spec

\* Processes that share a directory write no audit id twice, as long as every
\* entry was noted, no process held the lock for two threads at once and no call
\* went on without it (AuditWriter.log, _acquire_xproc_lock, _resume_sequence).
THEOREM IdsAreUnique == Spec => []UniqueWhileGuarded
<1>1. UniqueInv => UniqueWhileGuarded
  BY DEF UniqueInv
<1>. QED BY <1>1, UniqueInvariance, PTL


-----------------------------------------------------------------------------
(* One writer.                                                             *)

\* A mint's own day and number, beside the counter it passes.
LEMMA MintAhead ==
    ASSUME IInv, NEW t \in Threads, MintSeq(t)
    PROVE  /\ ProcessOf[t] \in Processes
           /\ mem[ProcessOf[t]].seq \in Nat /\ MintOf(t).seq \in Nat
           /\ mem[ProcessOf[t]].day = MintOf(t).day => MintOf(t).seq > mem[ProcessOf[t]].seq
<1>1. ProcessOf[t] \in Processes /\ thread[t].id.day \in Days /\ mem[ProcessOf[t]].seq \in Nat
  BY Facts
<1>2. /\ MintOf(t).day = thread[t].id.day
      /\ MintOf(t).seq = _mint_seq_locked(ProcessOf[t], thread[t].id.day)
  BY MintIs
<1>. QED BY <1>1, <1>2, Minted DEF IInv

\* The counter stays ahead.
LEMMA NextCounterAhead == IInv /\ CounterAhead /\ [Next]_vars => CounterAhead'
<1>. SUFFICES ASSUME IInv, CounterAhead, [Next]_vars,
                     NEW p \in Processes, \A i, j \in minted'[p] : i.day = j.day,
                     NEW i \in minted'[p]
              PROVE  i.day = mem'[p].day /\ i.seq <= mem'[p].seq
  BY DEF CounterAhead
<1>0. /\ mem \in [Processes -> [day: {0} \cup Days, seq: Numbers]]
      /\ minted \in [Processes -> SUBSET Ids]
      /\ \A j \in Ids : j.seq \in Nat
  BY Basics DEF IInv, TypeOK
<1>1. ASSUME mem'[p] = mem[p], minted'[p] = minted[p]
      PROVE  i.day = mem'[p].day /\ i.seq <= mem'[p].seq
  BY <1>1 DEF CounterAhead
<1>2. ASSUME NEW t \in Threads, MintSeq(t)
      PROVE  i.day = mem'[p].day /\ i.seq <= mem'[p].seq
  <2>. DEFINE id == MintOf(t)
  <2>1. /\ mem' = [mem EXCEPT ![ProcessOf[t]] = id] /\ id \in Ids
        /\ minted' = [minted EXCEPT ![ProcessOf[t]] = @ \cup {id}]
    BY <1>2, MintIs
  <2>2. /\ mem[ProcessOf[t]].seq \in Nat /\ id.seq \in Nat
        /\ mem[ProcessOf[t]].day = id.day => id.seq > mem[ProcessOf[t]].seq
    BY <1>2, MintAhead
  <2>. HIDE DEF id
  <2>3. CASE p # ProcessOf[t]
    BY <1>0, <1>1, <2>1, <2>3
  <2>4. CASE p = ProcessOf[t]
    <3>1. mem'[p] = id /\ minted'[p] = minted[p] \cup {id}
      BY <1>0, <2>1, <2>4
    <3>2. i.day = id.day
      BY <3>1
    <3>3. CASE i = id
      BY <2>2, <3>1, <3>3
    <3>4. CASE i \in minted[p]
      <4>1. i.day = mem[p].day /\ i.seq <= mem[p].seq
        BY <3>1, <3>4 DEF CounterAhead
      <4>2. i.seq \in Nat
        BY <1>0, <3>4
      <4>. QED BY <2>2, <2>4, <3>1, <3>2, <4>1, <4>2
    <3>. QED BY <3>1, <3>3, <3>4
  <2>. QED BY <2>3, <2>4
<1>3. ASSUME NEW q \in Processes, Crash(q)
      PROVE  i.day = mem'[p].day /\ i.seq <= mem'[p].seq
  <2>1. mem' = [mem EXCEPT ![q] = Fresh] /\ minted' = [minted EXCEPT ![q] = {}]
    BY <1>3 DEF Crash
  <2>2. p # q
    BY <1>0, <2>1
  <2>. QED BY <1>0, <1>1, <2>1, <2>2
<1>4. CASE UNCHANGED <<mem, minted>>
  BY <1>1, <1>4
<1>5. ASSUME NEW t \in Threads,
             \/ Begin(t) \/ AcquireXprocLock(t) \/ ProceedUnlocked(t) \/ WriteEntry(t)
             \/ WriteSidecar(t) \/ ReleaseXprocLock(t)
      PROVE  UNCHANGED <<mem, minted>>
  BY <1>5 DEF Begin, AcquireXprocLock, ProceedUnlocked, WriteEntry, WriteSidecar,
              ReleaseXprocLock, histVars
<1>6. ASSUME Midnight \/ UNCHANGED vars PROVE UNCHANGED <<mem, minted>>
  BY <1>6 DEF Midnight, vars, histVars
<1>. QED BY <1>2, <1>3, <1>4, <1>5, <1>6 DEF Next, Step

\* What OneWriterMintsFresh asks of a step.
MintsFresh ==
    \A t \in Threads :
        LET mine == minted[ProcessOf[t]]
            twice == /\ thread[t].pc = "mint"
                     /\ thread'[t].pc = "append"
                     /\ thread'[t].id \in mine
        IN twice => \E i, j \in mine : i.day # j.day

\* A mint that repeats an id of its process comes after mints of two days.
LEMMA StepMintsFresh == IInv /\ CounterAhead /\ [Next]_vars => MintsFresh
<1>. SUFFICES ASSUME IInv, CounterAhead, [Next]_vars, NEW t \in Threads,
                     thread[t].pc = "mint", thread'[t].pc = "append",
                     thread'[t].id \in minted[ProcessOf[t]],
                     \A i, j \in minted[ProcessOf[t]] : i.day = j.day
              PROVE  FALSE
  BY DEF MintsFresh
<1>1. CASE MintSeq(t)
  <2>2. thread'[t].id = MintOf(t)
    BY <1>1, MintIs
  <2>3. /\ ProcessOf[t] \in Processes
        /\ mem[ProcessOf[t]].seq \in Nat /\ MintOf(t).seq \in Nat
        /\ mem[ProcessOf[t]].day = MintOf(t).day => MintOf(t).seq > mem[ProcessOf[t]].seq
    BY <1>1, MintAhead
  <2>4. MintOf(t).day = mem[ProcessOf[t]].day /\ MintOf(t).seq <= mem[ProcessOf[t]].seq
    BY <2>2, <2>3 DEF CounterAhead
  <2>. QED BY <2>3, <2>4
<1>2. ASSUME NEW u \in Threads, Begin(u) \/ ProceedUnlocked(u) \/ Step(u), u # t PROVE FALSE
  BY <1>2, Moves
<1>3. CASE Begin(t) \/ ProceedUnlocked(t) \/ Step(t)
  <2>1. CASE \/ Begin(t) \/ AcquireXprocLock(t) \/ ProceedUnlocked(t) \/ WriteEntry(t)
             \/ WriteSidecar(t) \/ ReleaseXprocLock(t)
    <3>1. thread[t].pc # "mint" \/ thread'[t].pc # "append"
      BY <2>1, Moves DEF Step
    <3>. QED BY <3>1
  <2>. QED BY <1>1, <1>3, <2>1 DEF Step
<1>4. ASSUME NEW p \in Processes, Crash(p) PROVE FALSE
  BY <1>4, CrashThreads, Basics
<1>5. CASE Midnight \/ UNCHANGED vars
  BY <1>5 DEF Midnight, vars
<1>. QED BY <1>2, <1>3, <1>4, <1>5 DEF Next

\* The threads of one writer mint ids of their own: whatever the interleaving,
\* an id is minted again only by a process that has minted for two days
\* (_mint_seq_locked under the in-process lock).
THEOREM WriterMintsFresh == Spec => OneWriterMintsFresh
<1>1. Init => CounterAhead
  BY DEF Init, CounterAhead
<1>2. Spec => []CounterAhead
  <2>1. IInv /\ CounterAhead /\ [Next]_vars => CounterAhead'
    BY NextCounterAhead
  <2>. QED BY <1>1, <2>1, Invariance, PTL DEF Spec
<1>3. Spec => [][MintsFresh]_vars
  BY <1>2, StepMintsFresh, Invariance, PTL DEF Spec
<1>. QED BY <1>3 DEF OneWriterMintsFresh, MintsFresh


=============================================================================
