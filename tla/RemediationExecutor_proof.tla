---------------------- MODULE RemediationExecutor_proof ----------------------
(* Theorems about RemediationExecutor, for every set of threads and        *)
(* requests, every budget and every bound.                                 *)
EXTENDS RemediationExecutor, FiniteSetTheorems, TLAPS

\* A thread inside execute() has a request.
Occupied == \A t \in Threads : pc[t] # "idle" => req[t] \in Requests

\* What ties the memory of the process to its threads: one lease per thread
\* beyond try_acquire, one reservation per thread that has not concluded.
Leases ==
    /\ \A t \in Threads : pc[t] \in Holding => DomainOf[req[t]] \in held
    /\ OneLease

Reservations ==
    \A t \in Threads : pc[t] \in Reserving => budget.rec[req[t]].st = "inflight"

\* Nobody is beyond the lock before the file has been read.
Early == ~loaded => \A t \in Threads : pc[t] \in {"idle", "admitted"}

\* What ties the memory of the process to the file: the file is read before
\* the first lock is taken, and from then on memory only runs ahead of it.
Ledger ==
    /\ disk.state # "unreadable"
    /\ disk.state = "absent" => disk.snap = NewBudget
    /\ ~loaded => \A t \in Threads : pc[t] \in {"idle", "admitted"}
    /\ loaded => \A r \in Requests : Later(disk.snap.rec[r].st, budget.rec[r].st)

\* What ties the host to both: a reservation that reached the file precedes
\* the write, and a request that is still to be written was never written.
Writes ==
    /\ \A t \in Threads : pc[t] = "opened" => disk.snap.rec[req[t]].st # "none"
    /\ \A t \in Threads : pc[t] \in {"reserved", "opened"} => writes[req[t]] = 0
    /\ WriteAheadLedger
    /\ AtMostOnceCommit

IInv == TypeOK /\ Occupied /\ Leases /\ Reservations /\ Ledger /\ Writes

-----------------------------------------------------------------------------
(* The budget's operations keep its type.                                  *)

\* The delay of a failure streak is a natural number, and so is the largest of two.
LEMMA BackoffType ==
    /\ \A d \in Nat : NextBackoff(d) \in Nat
    /\ \A x, y \in Nat : Larger(x, y) \in Nat
  BY ConstantsAssumption DEF NextBackoff, Smaller, Larger

\* The budget of a fresh process is a budget, without any record.
LEMMA NewBudgetType ==
    /\ NewBudget \in Budget
    /\ \A r \in Requests : NewBudget.rec[r].st = "none"
  BY DEF NewBudget, Budget, Record, States

\* acquire() adds one record in flight and touches no other.
LEMMA ReserveType ==
    ASSUME NEW b \in Budget, NEW r \in Requests, NEW now \in Nat
    PROVE  /\ Reserve(b, r, now) \in Budget
           /\ \A q \in Requests : Reserve(b, r, now).rec[q].st
                                    = IF q = r THEN "inflight" ELSE b.rec[q].st
  BY DEF Reserve, Budget, Record, States

\* complete() settles one record and touches no other.
LEMMA CompleteType ==
    ASSUME NEW b \in Budget, NEW r \in Requests, NEW ok \in BOOLEAN, NEW now \in Nat
    PROVE  /\ Complete(b, r, ok, now) \in Budget
           /\ Complete(b, r, ok, now).rec[r].st \in {"ok", "failed"}
           /\ \A q \in Requests \ {r} : Complete(b, r, ok, now).rec[q] = b.rec[q]
  <1> DEFINE k == Key(r)
             delay == IF ok THEN 0 ELSE NextBackoff(b.backoff[k])
  <1>1. k \in Keys
    BY DEF Key, Keys
  <1>2. delay \in Nat /\ now + Larger(Cooldown, delay) \in Nat
    <2>1. delay \in Nat
      BY <1>1, BackoffType DEF Budget
    <2>2. Larger(Cooldown, delay) \in Nat
      BY <2>1, BackoffType, ConstantsAssumption
    <2> QED BY <2>1, <2>2
  <1> DEFINE st == IF ok THEN "ok" ELSE "failed"
             until == now + Larger(Cooldown, delay)
  <1>3. Complete(b, r, ok, now) =
          [b EXCEPT !.rec[r].st = st, !.backoff[k] = delay, !.until[k] = until]
    BY DEF Complete
  <1>4. st \in {"ok", "failed"} /\ until \in Nat
    BY <1>2
  <1> HIDE DEF k, delay, st, until
  <1>5. [b.rec EXCEPT ![r].st = st] \in [Requests -> Record]
    BY <1>4 DEF Budget, Record, States
  <1>6. Complete(b, r, ok, now) =
          [rec     |-> [b.rec EXCEPT ![r].st = st],
           backoff |-> [b.backoff EXCEPT ![k] = delay],
           until   |-> [b.until EXCEPT ![k] = until]]
    BY <1>3 DEF Budget
  <1>7. [b.rec EXCEPT ![r].st = st][r].st = st
    BY DEF Budget, Record
  <1> QED BY <1>1, <1>2, <1>4, <1>5, <1>6, <1>7 DEF Budget

\* Reconciliation turns what was in flight into failures and touches no other record.
LEMMA ReconciledType ==
    ASSUME NEW b \in Budget, NEW now \in Nat
    PROVE  /\ Reconciled(b, now) \in Budget
           /\ \A r \in Requests : Reconciled(b, now).rec[r].st
                                    = IF b.rec[r].st = "inflight" THEN "failed" ELSE b.rec[r].st
  <1> DEFINE hit == {Key(r) : r \in InFlight(b)}
             rec == [r \in Requests |-> IF r \in InFlight(b)
                                        THEN [b.rec[r] EXCEPT !.st = "failed"] ELSE b.rec[r]]
             backoff == [k \in Keys |-> IF k \in hit THEN NextBackoff(b.backoff[k])
                                                     ELSE b.backoff[k]]
             until == [k \in Keys |-> IF k \in hit THEN now + Larger(Cooldown, backoff[k])
                                                   ELSE b.until[k]]
  <1>1. Reconciled(b, now) = [rec |-> rec, backoff |-> backoff, until |-> until]
    BY DEF Reconciled
  <1>2. rec \in [Requests -> Record]
    BY DEF Budget, Record, States
  <1>3. backoff \in [Keys -> Nat]
    BY BackoffType DEF Budget
  <1>4. until \in [Keys -> Nat]
    <2> SUFFICES ASSUME NEW k \in Keys PROVE until[k] \in Nat
      OBVIOUS
    <2>1. Larger(Cooldown, backoff[k]) \in Nat
      BY <1>3, BackoffType, ConstantsAssumption
    <2>2. b.until[k] \in Nat
      BY DEF Budget
    <2> QED BY <2>1, <2>2
  <1>5. \A r \in Requests : rec[r].st = IF b.rec[r].st = "inflight" THEN "failed" ELSE b.rec[r].st
    BY DEF InFlight, Budget, Record
  <1> HIDE DEF rec, backoff, until
  <1> QED BY <1>1, <1>2, <1>3, <1>4, <1>5 DEF Budget

-----------------------------------------------------------------------------
(* Type correctness.                                                       *)

LEMMA TypeInit == Init => TypeOK /\ Occupied
  <1> SUFFICES ASSUME Init PROVE TypeOK /\ Occupied
    OBVIOUS
  <1>1. Never \in Nat
    BY ConstantsAssumption DEF Never
  <1>2. TypeOK
    BY <1>1, NewBudgetType DEF Init, TypeOK, Disk, Steps
  <1>3. Occupied
    BY DEF Init, Occupied
  <1> QED BY <1>2, <1>3

\* Reading the ledger keeps the types of what it touches.
LEMMA LoadType ==
    ASSUME TypeOK, LoadBudget
    PROVE  disk' \in Disk /\ loaded' \in BOOLEAN /\ loadError' \in BOOLEAN /\ budget' \in Budget
  <1>1. disk.snap \in Budget /\ clock \in Nat
    BY DEF TypeOK, Disk
  <1>2. Reconciled(disk.snap, clock) \in Budget
    BY <1>1, ReconciledType
  <1>3. CASE loaded /\ UNCHANGED <<disk, loaded, loadError, budget>>
    BY <1>3 DEF TypeOK
  <1>4. CASE LoadAbsent
    BY <1>4, NewBudgetType DEF LoadAbsent, TypeOK
  <1>5. CASE LoadReadable
    <2>1. disk' = [state |-> disk.state, snap |-> Reconciled(disk.snap, clock)]
      BY <1>5 DEF LoadReadable, TypeOK, Disk
    <2> QED BY <1>2, <1>5, <2>1 DEF LoadReadable, TypeOK, Disk
  <1>6. CASE LoadFailed
    BY <1>6, NewBudgetType DEF LoadFailed, TypeOK
  <1> QED BY <1>3, <1>4, <1>5, <1>6 DEF LoadBudget

LEMMA TypeStep == TypeOK /\ Occupied /\ [Next]_vars => TypeOK' /\ Occupied'
  <1> SUFFICES ASSUME TypeOK, Occupied, [Next]_vars PROVE TypeOK' /\ Occupied'
    OBVIOUS
  <1> USE DEF history, process
  <1>1. ASSUME NEW t \in Threads, NEW r \in Requests, Preflight(t, r) PROVE TypeOK' /\ Occupied'
    BY <1>1 DEF Preflight, TypeOK, Occupied, Steps
  <1>2. ASSUME NEW t \in Threads, Load(t) PROVE TypeOK' /\ Occupied'
    BY <1>2, LoadType DEF Load, Goto, TypeOK, Occupied, Steps
  <1>3. ASSUME NEW t \in Threads, TryLock(t) PROVE TypeOK' /\ Occupied'
    BY <1>3 DEF TryLock, Goto, Leave, TypeOK, Occupied, Steps
  <1>4. ASSUME NEW t \in Threads, Acquire(t) PROVE TypeOK' /\ Occupied'
    <2>1. req[t] \in Requests
      BY <1>4 DEF Acquire, Occupied
    <2>2. Reserve(budget, req[t], clock) \in Budget
      BY <2>1, ReserveType DEF TypeOK
    <2> QED BY <1>4, <2>2 DEF Acquire, Goto, Leave, TypeOK, Occupied, Steps
  <1>5. ASSUME NEW t \in Threads, PersistReservation(t) PROVE TypeOK' /\ Occupied'
    BY <1>5 DEF PersistReservation, Snapshot, Goto, TypeOK, Disk, Occupied, Steps
  <1>6. ASSUME NEW t \in Threads, AbandonReservation(t) PROVE TypeOK' /\ Occupied'
    BY <1>6 DEF AbandonReservation, Leave, TypeOK, Occupied, Steps
  <1>7. ASSUME NEW t \in Threads, Commit(t) PROVE TypeOK' /\ Occupied'
    <2>1. req[t] \in Requests
      BY <1>7 DEF Commit, Occupied
    <2>2. budget.rec[req[t]].at \in Nat
      BY <2>1 DEF TypeOK, Budget, Record
    <2> QED BY <1>7, <2>1, <2>2 DEF Commit, Goto, TypeOK, Occupied, Steps
  <1>8. ASSUME NEW t \in Threads, NotCommitted(t) \/ Observe(t) PROVE TypeOK' /\ Occupied'
    BY <1>8 DEF NotCommitted, Observe, Verdict, TypeOK, Occupied, Steps
  <1>9. ASSUME NEW t \in Threads, Conclude(t) PROVE TypeOK' /\ Occupied'
    <2>1. req[t] \in Requests
      BY <1>9 DEF Conclude, Occupied
    <2>2. Complete(budget, req[t], outcome[t], clock) \in Budget
      BY <2>1, CompleteType DEF TypeOK
    <2> QED BY <1>9, <2>2 DEF Conclude, Goto, TypeOK, Occupied, Steps
  <1>10. ASSUME NEW t \in Threads, PersistOutcome(t) PROVE TypeOK' /\ Occupied'
    BY <1>10 DEF PersistOutcome, Snapshot, Goto, TypeOK, Disk, Occupied, Steps
  <1>11. ASSUME NEW t \in Threads, Release(t) PROVE TypeOK' /\ Occupied'
    BY <1>11 DEF Release, Leave, TypeOK, Occupied, Steps
  <1>12. CASE SafetyStatus
    BY <1>12, LoadType DEF SafetyStatus, TypeOK, Occupied
  <1>13. CASE Tick \/ SetStop
    <2>1. clock' \in Nat
      BY <1>13 DEF Tick, SetStop, TypeOK
    <2>2. paused' \in BOOLEAN
      BY <1>13 DEF Tick, SetStop, TypeOK
    <2> QED BY <1>13, <2>1, <2>2 DEF Tick, SetStop, TypeOK, Occupied
  <1>14. CASE Crash
    <2>1. crashes' \in Nat
      BY <1>14 DEF Crash, TypeOK
    <2> QED BY <1>14, <2>1, NewBudgetType DEF Crash, TypeOK, Occupied, Steps
  <1>15. CASE Rot
    <2>1. disk' = [state |-> "unreadable", snap |-> disk.snap]
      BY <1>15 DEF Rot, TypeOK, Disk
    <2> QED BY <1>15, <2>1 DEF Rot, TypeOK, Disk, Occupied
  <1>16. CASE UNCHANGED vars
    BY <1>16 DEF vars, TypeOK, Occupied
  <1> QED BY <1>1, <1>2, <1>3, <1>4, <1>5, <1>6, <1>7, <1>8, <1>9, <1>10, <1>11, <1>12,
             <1>13, <1>14, <1>15, <1>16 DEF Next, Step

\* Every state execute() and its guards reach is of the declared type, and
\* whichever faults strike: no operation of the ledger leaves a partial record.
THEOREM TypeCorrect == Spec => []TypeOK
  <1>1. Init => TypeOK /\ Occupied
    BY TypeInit
  <1>2. TypeOK /\ Occupied /\ [Next]_vars => (TypeOK /\ Occupied)'
    BY TypeStep
  <1> QED BY <1>1, <1>2, PTL DEF Spec

-----------------------------------------------------------------------------
(* Leases: one thread per failure domain.                                  *)

LEMMA LeasesStep == TypeOK /\ Occupied /\ Leases /\ [Next]_vars => Leases'
  <1> SUFFICES ASSUME TypeOK, Occupied, Leases, [Next]_vars PROVE Leases'
    OBVIOUS
  <1> USE DEF Leases, OneLease, Holding
  <1>1. ASSUME NEW t \in Threads, NEW r \in Requests, Preflight(t, r) PROVE Leases'
    BY <1>1 DEF Preflight, TypeOK
  <1>2. ASSUME NEW t \in Threads, Load(t) PROVE Leases'
    BY <1>2 DEF Load, Goto, TypeOK
  <1>3. ASSUME NEW t \in Threads, TryLock(t) PROVE Leases'
    BY <1>3 DEF TryLock, Goto, Leave, TypeOK
  <1>4. ASSUME NEW t \in Threads, Acquire(t) PROVE Leases'
    BY <1>4 DEF Acquire, Goto, Leave, TypeOK
  <1>5. ASSUME NEW t \in Threads, AbandonReservation(t) PROVE Leases'
    BY <1>5 DEF AbandonReservation, Leave, TypeOK
  <1>6. ASSUME NEW t \in Threads,
               \/ PersistReservation(t) \/ Commit(t) \/ NotCommitted(t) \/ Observe(t)
               \/ Conclude(t) \/ PersistOutcome(t)
        PROVE  Leases'
    <2>1. /\ pc[t] \in Holding
          /\ \E step \in Holding : pc' = [pc EXCEPT ![t] = step]
          /\ UNCHANGED <<req, held>>
      BY <1>6 DEF PersistReservation, Commit, NotCommitted, Observe, Verdict, Conclude,
                  PersistOutcome, Goto
    <2> QED BY <2>1 DEF TypeOK
  <1>7. ASSUME NEW t \in Threads, Release(t) PROVE Leases'
    BY <1>7 DEF Release, Leave, TypeOK
  <1>8. CASE Crash
    BY <1>8 DEF Crash
  <1>9. CASE SafetyStatus \/ Tick \/ SetStop \/ Rot \/ UNCHANGED vars
    BY <1>9 DEF SafetyStatus, Tick, SetStop, Rot, process, vars
  <1> QED BY <1>1, <1>2, <1>3, <1>4, <1>5, <1>6, <1>7, <1>8, <1>9 DEF Next, Step

LEMMA LeasesInit == Init => Leases
  BY DEF Init, Leases, OneLease, Holding

\* No two executions in progress share a failure domain, whatever the number
\* of threads, the ledger's faults and the crashes: the lease table alone
\* carries it (try_acquire to the release of the finally clause).
THEOREM Exclusive == Spec => []ExclusiveDomain
  <1>1. Init => TypeOK /\ Occupied /\ Leases
    BY TypeInit, LeasesInit
  <1>2. TypeOK /\ Occupied /\ Leases /\ [Next]_vars => (TypeOK /\ Occupied /\ Leases)'
    BY TypeStep, LeasesStep
  <1>3. TypeOK /\ Leases => ExclusiveDomain
    BY DEF Leases, ExclusiveDomain
  <1> QED BY <1>1, <1>2, <1>3, PTL DEF Spec

-----------------------------------------------------------------------------
(* Reservations: a thread between acquire and complete has its own record  *)
(* in flight, since threads in progress differ in their domains.           *)

LEMMA ReservationsInit == Init => Reservations
  BY DEF Init, Reservations, Reserving

LEMMA ReservationsStep ==
    TypeOK /\ Occupied /\ Leases /\ Reservations /\ Early /\ [Next]_vars => Reservations'
  <1> SUFFICES ASSUME TypeOK, Occupied, Leases, Reservations, Early, [Next]_vars
               PROVE  Reservations'
    OBVIOUS
  <1> USE DEF Reservations, Reserving
  <1>1. ASSUME NEW t \in Threads, NEW r \in Requests, Preflight(t, r) PROVE Reservations'
    BY <1>1 DEF Preflight, TypeOK
  <1>2. ASSUME NEW t \in Threads, Load(t) PROVE Reservations'
    <2>1. CASE UNCHANGED budget
      BY <1>2, <2>1 DEF Load, Goto, TypeOK
    <2>2. CASE ~loaded
      BY <1>2, <2>2 DEF Load, Goto, TypeOK, Early
    <2> QED BY <1>2, <2>1, <2>2 DEF Load, LoadBudget, LoadAbsent, LoadReadable, LoadFailed
  <1>3. ASSUME NEW t \in Threads, TryLock(t) PROVE Reservations'
    BY <1>3 DEF TryLock, Goto, Leave, TypeOK
  <1>4. ASSUME NEW t \in Threads, Acquire(t) PROVE Reservations'
    <2>1. req[t] \in Requests
      BY <1>4 DEF Acquire, Occupied
    <2>2. \A q \in Requests : Reserve(budget, req[t], clock).rec[q].st
                                = IF q = req[t] THEN "inflight" ELSE budget.rec[q].st
      BY <2>1, ReserveType DEF TypeOK
    <2> QED BY <1>4, <2>1, <2>2 DEF Acquire, Goto, Leave, TypeOK, Occupied
  <1>5. ASSUME NEW t \in Threads,
               \/ PersistReservation(t) \/ Commit(t) \/ NotCommitted(t) \/ Observe(t)
        PROVE  Reservations'
    <2>1. /\ pc[t] \in Reserving
          /\ \E step \in Reserving : pc' = [pc EXCEPT ![t] = step]
          /\ UNCHANGED <<req, budget>>
      BY <1>5 DEF PersistReservation, Commit, NotCommitted, Observe, Verdict, Goto
    <2> QED BY <2>1 DEF TypeOK
  <1>6. ASSUME NEW t \in Threads, AbandonReservation(t) PROVE Reservations'
    BY <1>6 DEF AbandonReservation, Leave, TypeOK
  <1>7. ASSUME NEW t \in Threads, Conclude(t) PROVE Reservations'
    <2> SUFFICES ASSUME NEW u \in Threads, pc'[u] \in Reserving
                 PROVE  budget'.rec[req'[u]].st = "inflight"
      OBVIOUS
    <2>1. /\ pc[t] = "verdict" /\ req' = req /\ pc' = [pc EXCEPT ![t] = "completed"]
          /\ budget' = Complete(budget, req[t], outcome[t], clock)
      BY <1>7 DEF Conclude, Goto
    <2>2. u # t /\ pc[u] \in Reserving
      BY <2>1 DEF TypeOK
    <2>3. req[t] \in Requests /\ req[u] \in Requests
      BY <2>1, <2>2 DEF Occupied
    <2>4. req[u] # req[t]
      BY <2>1, <2>2 DEF Leases, OneLease, Holding
    <2>5. Complete(budget, req[t], outcome[t], clock).rec[req[u]] = budget.rec[req[u]]
      BY <2>3, <2>4, CompleteType DEF TypeOK
    <2> QED BY <2>1, <2>2, <2>5
  <1>8. ASSUME NEW t \in Threads, PersistOutcome(t) PROVE Reservations'
    BY <1>8 DEF PersistOutcome, Goto, TypeOK
  <1>9. ASSUME NEW t \in Threads, Release(t) PROVE Reservations'
    BY <1>9 DEF Release, Leave, TypeOK
  <1>10. CASE SafetyStatus
    BY <1>10 DEF SafetyStatus, Early
  <1>11. CASE Crash
    BY <1>11 DEF Crash
  <1>12. CASE Tick \/ SetStop \/ Rot \/ UNCHANGED vars
    BY <1>12 DEF Tick, SetStop, Rot, process, vars
  <1> QED BY <1>1, <1>2, <1>3, <1>4, <1>5, <1>6, <1>7, <1>8, <1>9, <1>10, <1>11, <1>12
          DEF Next, Step

-----------------------------------------------------------------------------
(* Concurrency: the executions in progress are as many as their records.   *)

LEMMA EarlyInit == Init => Early
  BY DEF Init, Early

LEMMA EarlyStep == TypeOK /\ Early /\ [Next]_vars => Early'
  <1> SUFFICES ASSUME TypeOK, Early, [Next]_vars PROVE Early'
    OBVIOUS
  <1> USE DEF Early
  <1>1. ASSUME NEW t \in Threads, NEW r \in Requests, Preflight(t, r) PROVE Early'
    BY <1>1 DEF Preflight, TypeOK
  <1>2. ASSUME NEW t \in Threads, Load(t) PROVE Early'
    BY <1>2 DEF Load, LoadBudget, LoadAbsent, LoadReadable, LoadFailed
  <1>3. ASSUME NEW t \in Threads,
               \/ TryLock(t) \/ Acquire(t) \/ PersistReservation(t) \/ AbandonReservation(t)
               \/ Commit(t) \/ NotCommitted(t) \/ Observe(t)
               \/ Conclude(t) \/ PersistOutcome(t) \/ Release(t)
        PROVE  Early'
    <2>1. pc[t] \notin {"idle", "admitted"} /\ loaded' = loaded
      BY <1>3 DEF TryLock, Acquire, PersistReservation, AbandonReservation, Commit,
                  NotCommitted, Observe, Verdict, Conclude, PersistOutcome, Release
    <2> QED BY <2>1
  <1>4. CASE SafetyStatus
    BY <1>4 DEF SafetyStatus
  <1>5. CASE Crash
    BY <1>5 DEF Crash
  <1>6. CASE Tick \/ SetStop \/ Rot \/ UNCHANGED vars
    BY <1>6 DEF Tick, SetStop, Rot, process, vars
  <1> QED BY <1>1, <1>2, <1>3, <1>4, <1>5, <1>6 DEF Next, Step

\* The budget counts what it has in flight, orphans of failed writes included.
Limited == Cardinality(InFlight(budget)) <= MaxConcurrency

\* A budget of finitely many requests with fewer records in flight is limited too.
LEMMA FewerInFlight ==
    ASSUME IsFiniteSet(Requests), NEW b, NEW c, InFlight(c) \subseteq InFlight(b),
           Cardinality(InFlight(b)) <= MaxConcurrency
    PROVE  Cardinality(InFlight(c)) <= MaxConcurrency
  <1>1. InFlight(b) \in SUBSET Requests
    BY DEF InFlight
  <1>2. IsFiniteSet(InFlight(b))
    BY <1>1, FS_Subset
  <1>3. IsFiniteSet(InFlight(c)) /\ Cardinality(InFlight(c)) <= Cardinality(InFlight(b))
    BY <1>2, FS_Subset
  <1> HIDE DEF InFlight
  <1>4. Cardinality(InFlight(b)) \in Nat /\ Cardinality(InFlight(c)) \in Nat
    BY <1>2, <1>3, FS_CardinalityType
  <1> QED BY <1>3, <1>4, ConstantsAssumption

LEMMA NoneInFlight ==
    ASSUME NEW b, InFlight(b) = {}
    PROVE  Cardinality(InFlight(b)) <= MaxConcurrency
  BY FS_EmptySet, ConstantsAssumption

\* One more element is at most one more.
LEMMA OneMore ==
    ASSUME NEW S, NEW x, IsFiniteSet(S)
    PROVE  /\ IsFiniteSet(S \union {x})
           /\ Cardinality(S \union {x}) <= Cardinality(S) + 1
  <1>1. Cardinality(S) \in Nat
    BY FS_CardinalityType
  <1>2. /\ IsFiniteSet(S \union {x})
        /\ Cardinality(S \union {x}) = IF x \in S THEN Cardinality(S) ELSE Cardinality(S) + 1
    BY FS_AddElement
  <1> QED BY <1>1, <1>2

LEMMA LimitedInit == Init => Limited
  <1> SUFFICES ASSUME Init PROVE Limited
    OBVIOUS
  <1>1. InFlight(budget) = {}
    BY NewBudgetType DEF Init, InFlight
  <1> QED BY <1>1, NoneInFlight DEF Limited

LEMMA LimitedStep ==
    ASSUME IsFiniteSet(Requests)
    PROVE  TypeOK /\ Occupied /\ Limited /\ [Next]_vars => Limited'
  <1> SUFFICES ASSUME TypeOK, Occupied, Limited, [Next]_vars PROVE Limited'
    OBVIOUS
  <1> SUFFICES Cardinality(InFlight(budget')) <= MaxConcurrency
    BY DEF Limited, InFlight
  <1>1. CASE UNCHANGED budget
    BY <1>1 DEF Limited
  <1>2. CASE LoadBudget
    <2>1. CASE budget' = NewBudget
      <3>1. InFlight(budget') = {}
        BY <2>1, NewBudgetType DEF InFlight
      <3> QED BY <3>1, NoneInFlight
    <2>2. CASE LoadReadable
      <3>1. disk.snap \in Budget /\ clock \in Nat
        BY DEF TypeOK, Disk
      <3>2. InFlight(budget') = {}
        BY <2>2, <3>1, ReconciledType DEF LoadReadable, InFlight
      <3> QED BY <3>2, NoneInFlight
    <2> QED BY <1>1, <1>2, <2>1, <2>2 DEF LoadBudget, LoadAbsent, LoadFailed
  <1>3. ASSUME NEW t \in Threads, Acquire(t) PROVE Cardinality(InFlight(budget')) <= MaxConcurrency
    <2>1. CASE UNCHANGED budget
      BY <2>1, <1>1
    <2>2. CASE budget' = Reserve(budget, req[t], clock) /\ Allowed(budget, req[t], clock)
      <3>1. req[t] \in Requests
        BY <1>3 DEF Acquire, Occupied
      <3>2. InFlight(budget') = InFlight(budget) \union {req[t]}
        <4>1. budget \in Budget /\ clock \in Nat
          BY DEF TypeOK
        <4>2. \A q \in Requests : budget'.rec[q].st
                                   = IF q = req[t] THEN "inflight" ELSE budget.rec[q].st
          BY <2>2, <3>1, <4>1, ReserveType
        <4> QED BY <3>1, <4>2 DEF InFlight
      <3>3. InFlight(budget) \in SUBSET Requests
        BY DEF InFlight
      <3>4. IsFiniteSet(InFlight(budget))
        BY <3>3, FS_Subset
      <3>5. Cardinality(InFlight(budget)) \in Nat
        BY <3>4, FS_CardinalityType
      <3>6. Cardinality(InFlight(budget)) < MaxConcurrency
        BY <2>2 DEF Allowed
      <3> HIDE DEF InFlight
      <3>7. /\ Cardinality(InFlight(budget) \union {req[t]}) <= Cardinality(InFlight(budget)) + 1
            /\ Cardinality(InFlight(budget) \union {req[t]}) \in Nat
        BY <3>4, OneMore, FS_CardinalityType
      <3> QED BY <3>2, <3>5, <3>6, <3>7, ConstantsAssumption
    <2> QED BY <1>3, <2>1, <2>2 DEF Acquire
  <1>4. ASSUME NEW t \in Threads, Conclude(t) PROVE Cardinality(InFlight(budget')) <= MaxConcurrency
    <2>1. /\ req[t] \in Requests /\ budget \in Budget /\ outcome[t] \in BOOLEAN /\ clock \in Nat
          /\ budget' = Complete(budget, req[t], outcome[t], clock)
      BY <1>4 DEF Conclude, Occupied, TypeOK
    <2>2. InFlight(budget') \subseteq InFlight(budget)
      BY <2>1, CompleteType DEF InFlight
    <2> QED BY <2>2, FewerInFlight DEF Limited
  <1>5. CASE Crash
    <2>1. InFlight(budget') = {}
      BY <1>5, NewBudgetType DEF Crash, InFlight
    <2> QED BY <2>1, NoneInFlight
  <1>6. ASSUME NEW t \in Threads,
               \/ \E r \in Requests : Preflight(t, r)
               \/ TryLock(t) \/ PersistReservation(t) \/ AbandonReservation(t)
               \/ Commit(t) \/ NotCommitted(t) \/ Observe(t) \/ PersistOutcome(t) \/ Release(t)
        PROVE  UNCHANGED budget
    BY <1>6 DEF Preflight, TryLock, PersistReservation, AbandonReservation, Commit,
                NotCommitted, Observe, Verdict, PersistOutcome, Release
  <1>7. CASE Tick \/ SetStop \/ Rot \/ UNCHANGED vars
    BY <1>1, <1>7 DEF Tick, SetStop, Rot, process, vars
  <1> QED BY <1>1, <1>2, <1>3, <1>4, <1>5, <1>6, <1>7 DEF Next, Step, Load, SafetyStatus

\* At most max_concurrency executions lie between their reservation and their
\* verdict, for any number of threads and whatever the ledger's faults and the
\* crashes: their requests differ, since their domains do, and each has a record
\* in flight in the budget that acquire() counted.
THEOREM Concurrency == ASSUME IsFiniteSet(Requests) PROVE Spec => []ConcurrencyLimit
  <1> DEFINE Inv == TypeOK /\ Occupied /\ Leases /\ Reservations /\ Early /\ Limited
  <1>1. Init => Inv
    BY TypeInit, LeasesInit, ReservationsInit, EarlyInit, LimitedInit
  <1>2. Inv /\ [Next]_vars => Inv'
    BY TypeStep, LeasesStep, ReservationsStep, EarlyStep, LimitedStep
  <1>3. Inv => ConcurrencyLimit
    <2> SUFFICES ASSUME Inv PROVE ConcurrencyLimit
      OBVIOUS
    <2> DEFINE busy == {t \in Threads : pc[t] \in Reserving}
               own == [t \in busy |-> req[t]]
    <2>1. own \in [busy -> InFlight(budget)]
      BY DEF Occupied, Reservations, Reserving, InFlight
    <2>2. \A t, u \in busy : t # u => own[t] # own[u]
      BY DEF Leases, OneLease, Reserving, Holding
    <2>3. own \in Injection(busy, InFlight(budget))
      BY <2>1, <2>2 DEF Injection, IsInjective
    <2>4. InFlight(budget) \in SUBSET Requests
      BY DEF InFlight
    <2>5. IsFiniteSet(InFlight(budget))
      BY <2>4, FS_Subset
    <2>6. IsFiniteSet(busy) /\ Cardinality(busy) <= Cardinality(InFlight(budget))
      BY <2>3, <2>5, FS_Injection
    <2>7. Cardinality(busy) \in Nat /\ Cardinality(InFlight(budget)) \in Nat
      BY <2>5, <2>6, FS_CardinalityType
    <2> HIDE DEF busy, own
    <2>8. Cardinality(busy) <= MaxConcurrency
      BY <2>6, <2>7, ConstantsAssumption DEF Limited
    <2> QED BY <2>8 DEF ConcurrencyLimit, busy
  <1> HIDE DEF Inv
  <1> QED BY <1>1, <1>2, <1>3, PTL DEF Spec

-----------------------------------------------------------------------------
(* The ledger, as long as its file can be read and reconciled: memory is   *)
(* ahead of the file, so a snapshot taken from memory loses nothing.       *)

ReadableLedger == Faults \cap {"load", "rot"} = {}

LEMMA LedgerInit == Init => Ledger
  BY NewBudgetType DEF Init, Ledger

\* A transition of one record composes with a later one.
LEMMA LaterTransitive ==
    ASSUME NEW x, NEW y, NEW z, Later(x, y), Later(y, z)
    PROVE  Later(x, z)
  BY DEF Later

\* Reading the ledger once per process brings memory level with the file.
LEMMA LoadLedger ==
    ASSUME ReadableLedger, TypeOK, Ledger, LoadBudget
    PROVE  /\ loaded'
           /\ disk'.state # "unreadable"
           /\ disk'.state = "absent" => disk'.snap = NewBudget
           /\ \A r \in Requests : /\ Later(disk'.snap.rec[r].st, budget'.rec[r].st)
                                  /\ Later(disk.snap.rec[r].st, disk'.snap.rec[r].st)
                                  /\ disk.snap.rec[r].st # "none" => disk'.snap.rec[r].st # "none"
  <1>1. CASE loaded /\ UNCHANGED <<disk, loaded, loadError, budget>>
    BY <1>1 DEF Ledger, Later
  <1>2. CASE LoadAbsent
    BY <1>2 DEF LoadAbsent, Ledger, Later
  <1>3. CASE LoadReadable
    <2>1. disk.snap \in Budget /\ clock \in Nat
      BY DEF TypeOK, Disk
    <2>2. \A r \in Requests : Reconciled(disk.snap, clock).rec[r].st
                                = IF disk.snap.rec[r].st = "inflight" THEN "failed"
                                  ELSE disk.snap.rec[r].st
      BY <2>1, ReconciledType
    <2>3. disk'.snap = budget' /\ disk'.state = "readable" /\ loaded'
      BY <1>3 DEF LoadReadable, TypeOK, Disk
    <2>4. budget' = Reconciled(disk.snap, clock)
      BY <1>3 DEF LoadReadable
    <2> QED BY <2>2, <2>3, <2>4 DEF Later
  <1>4. CASE LoadFailed
    BY <1>4 DEF LoadFailed, Ledger, ReadableLedger
  <1> QED BY <1>1, <1>2, <1>3, <1>4 DEF LoadBudget

LEMMA LedgerStep ==
    ReadableLedger /\ TypeOK /\ Occupied /\ Leases /\ Reservations /\ Ledger /\ [Next]_vars
        => Ledger'
  <1> SUFFICES ASSUME ReadableLedger, TypeOK, Occupied, Leases, Reservations, Ledger, [Next]_vars
               PROVE  Ledger'
    OBVIOUS
  <1>1. ASSUME NEW t \in Threads, NEW r \in Requests, Preflight(t, r) PROVE Ledger'
    BY <1>1 DEF Preflight, TypeOK, Ledger
  <1>2. ASSUME NEW t \in Threads, Load(t) PROVE Ledger'
    BY <1>2, LoadLedger DEF Load, Ledger
  <1>3. CASE SafetyStatus
    BY <1>3, LoadLedger DEF SafetyStatus, Ledger
  <1>4. ASSUME NEW t \in Threads,
               \/ TryLock(t) \/ AbandonReservation(t) \/ Commit(t) \/ NotCommitted(t)
               \/ Observe(t) \/ Release(t)
        PROVE  Ledger'
    <2>1. loaded /\ UNCHANGED <<disk, loaded, budget>>
      BY <1>4 DEF TryLock, AbandonReservation, Commit, NotCommitted, Observe, Verdict, Release,
                  Ledger
    <2> QED BY <2>1 DEF Ledger
  <1>5. ASSUME NEW t \in Threads, Acquire(t) PROVE Ledger'
    <2>1. loaded /\ UNCHANGED <<disk, loaded>>
      BY <1>5 DEF Acquire, Ledger
    <2>2. CASE UNCHANGED budget
      BY <2>1, <2>2 DEF Ledger
    <2>3. CASE Allowed(budget, req[t], clock) /\ budget' = Reserve(budget, req[t], clock)
      <3>1. req[t] \in Requests
        BY <1>5 DEF Acquire, Occupied
      <3>2. \A q \in Requests : budget'.rec[q].st
                                  = IF q = req[t] THEN "inflight" ELSE budget.rec[q].st
        BY <2>3, <3>1, ReserveType DEF TypeOK
      <3>3. budget.rec[req[t]].st = "none"
        BY <2>3 DEF Allowed
      <3>4. \A q \in Requests : Later(budget.rec[q].st, budget'.rec[q].st)
        BY <3>2, <3>3 DEF Later
      <3> QED BY <2>1, <3>4, LaterTransitive DEF Ledger
    <2> QED BY <1>5, <2>2, <2>3 DEF Acquire
  <1>6. ASSUME NEW t \in Threads, PersistReservation(t) \/ PersistOutcome(t) PROVE Ledger'
    <2>1. loaded /\ UNCHANGED <<loaded, budget>>
      BY <1>6 DEF PersistReservation, PersistOutcome, Ledger
    <2>2. UNCHANGED disk \/ disk' = [state |-> "readable", snap |-> budget]
      BY <1>6 DEF PersistReservation, PersistOutcome, Snapshot
    <2> QED BY <2>1, <2>2 DEF Ledger, Later
  <1>7. ASSUME NEW t \in Threads, Conclude(t) PROVE Ledger'
    <2>1. /\ loaded /\ UNCHANGED <<disk, loaded>>
          /\ req[t] \in Requests /\ budget.rec[req[t]].st = "inflight"
          /\ budget' = Complete(budget, req[t], outcome[t], clock)
      BY <1>7 DEF Conclude, Ledger, Occupied, Reservations, Reserving
    <2>2. /\ budget'.rec[req[t]].st \in {"ok", "failed"}
          /\ \A q \in Requests \ {req[t]} : budget'.rec[q] = budget.rec[q]
      <3>1. outcome[t] \in BOOLEAN /\ clock \in Nat /\ budget \in Budget
        BY DEF TypeOK
      <3>2. /\ Complete(budget, req[t], outcome[t], clock).rec[req[t]].st \in {"ok", "failed"}
            /\ \A q \in Requests \ {req[t]} :
                 Complete(budget, req[t], outcome[t], clock).rec[q] = budget.rec[q]
        BY <2>1, <3>1, CompleteType
      <3> QED BY <2>1, <3>2
    <2>3. \A q \in Requests : Later(budget.rec[q].st, budget'.rec[q].st)
      BY <2>1, <2>2 DEF Later
    <2> QED BY <2>1, <2>3, LaterTransitive DEF Ledger
  <1>8. CASE Crash
    BY <1>8 DEF Crash, Ledger
  <1>9. CASE Rot
    BY <1>9 DEF Rot, ReadableLedger
  <1>10. CASE Tick \/ SetStop \/ UNCHANGED vars
    BY <1>10 DEF Tick, SetStop, process, vars, Ledger
  <1> QED BY <1>1, <1>2, <1>3, <1>4, <1>5, <1>6, <1>7, <1>8, <1>9, <1>10 DEF Next, Step

\* A record the file has stays, and only goes from in flight to an outcome.
LEMMA LedgerAction ==
    ReadableLedger /\ TypeOK /\ Ledger /\ [Next]_vars
        => \A r \in Requests : /\ Later(disk.snap.rec[r].st, disk'.snap.rec[r].st)
                               /\ disk.snap.rec[r].st # "none" => disk'.snap.rec[r].st # "none"
  <1> SUFFICES ASSUME ReadableLedger, TypeOK, Ledger, [Next]_vars, NEW r \in Requests
               PROVE  /\ Later(disk.snap.rec[r].st, disk'.snap.rec[r].st)
                      /\ disk.snap.rec[r].st # "none" => disk'.snap.rec[r].st # "none"
    OBVIOUS
  <1>1. CASE UNCHANGED disk
    BY <1>1 DEF Later
  <1>2. CASE LoadBudget
    BY <1>2, LoadLedger
  <1>3. ASSUME NEW t \in Threads, pc[t] \in {"reserved", "completed"}, Snapshot
        PROVE  /\ Later(disk.snap.rec[r].st, disk'.snap.rec[r].st)
               /\ disk.snap.rec[r].st # "none" => disk'.snap.rec[r].st # "none"
    BY <1>3 DEF Snapshot, Ledger, Later
  <1>4. \/ UNCHANGED disk
        \/ LoadBudget
        \/ \E t \in Threads : pc[t] \in {"reserved", "completed"} /\ Snapshot
    BY DEF Next, Step, vars, Preflight, Load, TryLock, Acquire, PersistReservation,
           AbandonReservation, Commit, NotCommitted, Observe, Verdict, Conclude, PersistOutcome,
           Release, SafetyStatus, Tick, SetStop, Crash, Rot, ReadableLedger
  <1> QED BY <1>1, <1>2, <1>3, <1>4

-----------------------------------------------------------------------------
(* The host: what is still to be written has never been written.           *)

LEMMA WritesInit == Init => Writes
  BY DEF Init, Writes, WriteAheadLedger, AtMostOnceCommit

LEMMA WritesStep == ReadableLedger /\ IInv /\ [Next]_vars => Writes'
  <1> SUFFICES ASSUME ReadableLedger, IInv, [Next]_vars PROVE Writes'
    OBVIOUS
  <1> USE DEF IInv, Writes, WriteAheadLedger, AtMostOnceCommit
  <1>1. \A r \in Requests : disk.snap.rec[r].st # "none" => disk'.snap.rec[r].st # "none"
    BY LedgerAction
  <1>2. ASSUME NEW t \in Threads, NEW r \in Requests, Preflight(t, r) PROVE Writes'
    BY <1>1, <1>2 DEF Preflight, TypeOK, Occupied, history
  <1>3. ASSUME NEW t \in Threads, Load(t) \/ TryLock(t) PROVE Writes'
    <2>1. /\ UNCHANGED history
          /\ \A u \in Threads : pc'[u] \in {"reserved", "opened"}
                                  => pc'[u] = pc[u] /\ req'[u] = req[u]
      BY <1>3 DEF Load, TryLock, Goto, Leave, TypeOK
    <2> QED BY <1>1, <2>1 DEF Occupied, history
  <1>4. ASSUME NEW t \in Threads, Acquire(t) PROVE Writes'
    <2>1. loaded /\ req[t] \in Requests /\ UNCHANGED <<disk, writes>>
      BY <1>4 DEF Acquire, Ledger, Occupied, history
    <2>2. CASE Allowed(budget, req[t], clock) /\ Goto(t, "reserved")
      <3>1. Later(disk.snap.rec[req[t]].st, "none")
        BY <2>1, <2>2 DEF Allowed, Ledger
      <3>2. writes[req[t]] = 0
        BY <2>1, <3>1 DEF Later, TypeOK
      <3> QED BY <2>1, <2>2, <3>2 DEF Goto, TypeOK
    <2>3. CASE Leave(t)
      BY <2>1, <2>3 DEF Leave, TypeOK
    <2> QED BY <1>4, <2>2, <2>3 DEF Acquire
  <1>5. ASSUME NEW t \in Threads, PersistReservation(t) PROVE Writes'
    <2>1. /\ pc[t] = "reserved" /\ UNCHANGED <<writes, req>> /\ disk'.snap = budget
          /\ pc' = [pc EXCEPT ![t] = "opened"]
      BY <1>5 DEF PersistReservation, Snapshot, Goto, history
    <2>2. disk'.snap.rec[req[t]].st # "none"
      BY <2>1 DEF Reservations, Reserving
    <2> QED BY <1>1, <2>1, <2>2 DEF TypeOK, Occupied
  <1>6. ASSUME NEW t \in Threads, Commit(t) PROVE Writes'
    <2> DEFINE r == req[t]
    <2>1. /\ pc[t] = "opened" /\ r \in Requests /\ UNCHANGED <<disk, req>>
          /\ pc' = [pc EXCEPT ![t] = "committed"]
          /\ writes' = [writes EXCEPT ![r] = writes[r] + 1]
      BY <1>6 DEF Commit, Goto, Occupied
    <2>2. writes[r] = 0 /\ disk.snap.rec[r].st # "none"
      BY <2>1
    <2>3. \A u \in Threads : pc'[u] \in {"reserved", "opened"}
                               => req[u] # r /\ pc[u] = pc'[u] /\ req[u] \in Requests
      BY <2>1 DEF Leases, OneLease, Holding, Occupied, TypeOK
    <2>4. writes'[r] = 1 /\ \A q \in Requests \ {r} : writes'[q] = writes[q]
      BY <2>1, <2>2 DEF TypeOK
    <2> HIDE DEF r
    <2>5. \A q \in Requests : writes'[q] <= 1
      BY <2>4
    <2>6. \A q \in Requests : writes'[q] > 0 => disk'.snap.rec[q].st # "none"
      BY <2>1, <2>2, <2>4
    <2>7. \A u \in Threads : pc'[u] \in {"reserved", "opened"} => writes'[req'[u]] = 0
      BY <2>1, <2>3, <2>4
    <2>8. \A u \in Threads : pc'[u] = "opened" => disk'.snap.rec[req'[u]].st # "none"
      BY <2>1, <2>3
    <2> QED BY <2>5, <2>6, <2>7, <2>8
  <1>7. ASSUME NEW t \in Threads,
               \/ AbandonReservation(t) \/ NotCommitted(t) \/ Observe(t) \/ Conclude(t)
               \/ PersistOutcome(t) \/ Release(t)
        PROVE  Writes'
    <2>1. /\ UNCHANGED writes
          /\ \A u \in Threads : pc'[u] \in {"reserved", "opened"}
                                  => pc'[u] = pc[u] /\ req'[u] = req[u]
      BY <1>7 DEF AbandonReservation, NotCommitted, Observe, Verdict, Conclude, PersistOutcome,
                  Release, Goto, Leave, TypeOK, history
    <2> QED BY <1>1, <2>1 DEF Occupied
  <1>8. CASE Crash
    BY <1>1, <1>8 DEF Crash, history
  <1>9. CASE SafetyStatus \/ Tick \/ SetStop \/ Rot \/ UNCHANGED vars
    BY <1>1, <1>9 DEF SafetyStatus, Tick, SetStop, Rot, process, history, vars, Occupied
  <1> QED BY <1>2, <1>3, <1>4, <1>5, <1>6, <1>7, <1>8, <1>9 DEF Next, Step

LEMMA IInvInit == Init => IInv
  BY TypeInit, LeasesInit, ReservationsInit, LedgerInit, WritesInit DEF IInv

LEMMA IInvStep == ReadableLedger /\ IInv /\ [Next]_vars => IInv'
  <1>1. Ledger => Early
    BY DEF Ledger, Early
  <1> QED BY <1>1, TypeStep, LeasesStep, ReservationsStep, LedgerStep, WritesStep DEF IInv

LEMMA Inductive == ASSUME ReadableLedger PROVE Spec => []IInv
  <1>1. IInv /\ [Next]_vars => IInv'
    BY IInvStep
  <1> QED BY IInvInit, <1>1, PTL DEF Spec

\* One host write per request, whatever the interleaving of the threads, the
\* process deaths and the failed ledger writes - as long as the file can be read
\* back and reconciled: execute() admits an unreadable ledger otherwise.
THEOREM AtMostOnce == ASSUME ReadableLedger PROVE Spec => []AtMostOnceCommit
  <1>1. IInv => AtMostOnceCommit
    BY DEF IInv, Writes
  <1> QED BY <1>1, Inductive, PTL

\* The reservation of every host write is in the file before the write and
\* stays there: the ledger is a write-ahead log of the executor.
THEOREM WriteAhead == ASSUME ReadableLedger PROVE Spec => []WriteAheadLedger
  <1>1. IInv => WriteAheadLedger
    BY DEF IInv, Writes
  <1> QED BY <1>1, Inductive, PTL

\* No thread's snapshot makes the file forget a record or change an outcome.
THEOREM LedgerGrows == ASSUME ReadableLedger PROVE Spec => LedgerOnlyGrows
  <1>1. IInv /\ [Next]_vars
          => [\A r \in Requests : Later(disk.snap.rec[r].st, disk'.snap.rec[r].st)]_disk
    BY LedgerAction DEF IInv
  <1> QED BY <1>1, Inductive, PTL DEF Spec, LedgerOnlyGrows

-----------------------------------------------------------------------------
(* Pacing.  The writes are paced, for every set of threads and requests and *)
(* every limit, as long as the ledger can be read: what the budget in        *)
(* memory and the one in the file know of past writes is enough to space     *)
(* the next ones, and neither ever knows less.                               *)

\* The records of a window that ends with the reservation of r.
Near(b, r) == {q \in Requests : /\ b.rec[q].st # "none"
                                /\ b.rec[q].at <= b.rec[r].at
                                /\ b.rec[q].at + Window >= b.rec[r].at}

\* No window holds more than m records of one asset (domain, incident).
Within(b, F, m) ==
    \A r \in Requests : b.rec[r].st # "none"
        => Cardinality({q \in Near(b, r) : F[q] = F[r]}) <= m

\* What a budget has to know at `now`, when the writes w were made at ca and
\* had been reserved at sa: each of them, and for how long its key is to rest.
Recorded(b, w, sa) == \A r \in Requests : w[r] > 0 => b.rec[r].st # "none" /\ b.rec[r].at = sa[r]
Past(b, now) == \A r \in Requests : b.rec[r].st # "none" => b.rec[r].at <= now
Limits(b) == /\ Within(b, AssetOf, MaxPerAsset)
             /\ Within(b, DomainOf, MaxPerDomain)
             /\ Within(b, IncidentOf, MaxPerIncident)
Rested(b, w, ca) == \A r \in Requests : w[r] > 0
    => b.rec[r].st = "inflight" \/ b.until[Key(r)] >= ca[r] + Cooldown

Knows(b, now, w, ca, sa) ==
    Recorded(b, w, sa) /\ Past(b, now) /\ Limits(b) /\ Rested(b, w, ca)

\* Memory and file know enough and agree on when a reservation was made; a
\* write in flight has a thread that will conclude it; and a reservation that
\* is about to write is a cooldown after every earlier write of its key.
Agree == loaded => \A r \in Requests :
    disk.snap.rec[r].st # "none" => budget.rec[r].at = disk.snap.rec[r].at
Made(now, w, ca) == \A r \in Requests : w[r] > 0 => ca[r] <= now
Owned == loaded => \A r \in Requests : writes[r] > 0 /\ budget.rec[r].st = "inflight"
    => \E t \in Threads : pc[t] \in Reserving /\ req[t] = r
Spaced == \A t \in Threads, q \in Requests :
    pc[t] \in {"reserved", "opened"} /\ writes[q] > 0 /\ Key(q) = Key(req[t])
        => budget.rec[req[t]].at >= commitAt[q] + Cooldown

Pacing ==
    /\ loaded => Knows(budget, clock, writes, commitAt, startAt)
    /\ Knows(disk.snap, clock, writes, commitAt, startAt)
    /\ Agree /\ Made(clock, writes, commitAt) /\ Owned /\ Spaced
    /\ CooldownSpacing

-----------------------------------------------------------------------------
(* What the operations of the budget leave of that knowledge.              *)

\* The windows depend on when the records were made, not on their outcomes.
LEMMA SameRecords ==
    ASSUME NEW b, NEW c, NEW w, NEW sa, NEW now,
           \A q \in Requests : /\ (c.rec[q].st = "none") <=> (b.rec[q].st = "none")
                               /\ c.rec[q].at = b.rec[q].at,
           Recorded(b, w, sa), Past(b, now), Limits(b)
    PROVE  Recorded(c, w, sa) /\ Past(c, now) /\ Limits(c)
  <1>1. \A r \in Requests : Near(c, r) = Near(b, r)
    BY DEF Near
  <1>2. ASSUME NEW F, NEW m, Within(b, F, m) PROVE Within(c, F, m)
    BY <1>1, <1>2 DEF Within
  <1>3. Recorded(c, w, sa) /\ Past(c, now)
    BY DEF Recorded, Past
  <1> QED BY <1>2, <1>3 DEF Limits

\* complete(): the key rests for a cooldown at least.
LEMMA CompleteRests ==
    ASSUME NEW b \in Budget, NEW r \in Requests, NEW ok \in BOOLEAN, NEW now \in Nat
    PROVE  /\ \A q \in Requests : Complete(b, r, ok, now).rec[q].at = b.rec[q].at
           /\ Complete(b, r, ok, now).rec[r].st \in {"ok", "failed"}
           /\ \A q \in Requests \ {r} : Complete(b, r, ok, now).rec[q] = b.rec[q]
           /\ Complete(b, r, ok, now).until[Key(r)] >= now + Cooldown
           /\ \A q \in Requests : Key(q) # Key(r)
                => Complete(b, r, ok, now).until[Key(q)] = b.until[Key(q)]
  <1> DEFINE k == Key(r)
             delay == IF ok THEN 0 ELSE NextBackoff(b.backoff[k])
             st == IF ok THEN "ok" ELSE "failed"
             until == now + Larger(Cooldown, delay)
  <1>1. \A q \in Requests : Key(q) \in Keys
    BY DEF Key, Keys
  <1>2. delay \in Nat
    BY <1>1, BackoffType DEF Budget
  <1>3. until >= now + Cooldown /\ until \in Nat
    BY <1>2, ConstantsAssumption DEF Larger
  <1>4. Complete(b, r, ok, now) =
          [b EXCEPT !.rec[r].st = st, !.backoff[k] = delay, !.until[k] = until]
    BY DEF Complete
  <1> HIDE DEF k, delay, st, until
  <1>5. Complete(b, r, ok, now) =
          [rec     |-> [b.rec EXCEPT ![r].st = st],
           backoff |-> [b.backoff EXCEPT ![k] = delay],
           until   |-> [b.until EXCEPT ![k] = until]]
    BY <1>4 DEF Budget
  <1>6. \A q \in Requests : [b.rec EXCEPT ![r].st = st][q].at = b.rec[q].at
    BY DEF Budget, Record
  <1>7. \A x \in Keys : [b.until EXCEPT ![k] = until][x] = IF x = k THEN until ELSE b.until[x]
    BY DEF Budget
  <1>8. /\ Complete(b, r, ok, now).rec[r].st \in {"ok", "failed"}
        /\ \A q \in Requests \ {r} : Complete(b, r, ok, now).rec[q] = b.rec[q]
    BY CompleteType
  <1>9. \A q \in Requests : Complete(b, r, ok, now).rec[q].at = b.rec[q].at
    BY <1>5, <1>6
  <1>10. Complete(b, r, ok, now).until[Key(r)] >= now + Cooldown
    BY <1>1, <1>3, <1>5, <1>7 DEF k
  <1>11. \A q \in Requests : Key(q) # Key(r)
           => Complete(b, r, ok, now).until[Key(q)] = b.until[Key(q)]
    BY <1>1, <1>5, <1>7 DEF k
  <1> QED BY <1>8, <1>9, <1>10, <1>11

LEMMA CompleteKnows ==
    ASSUME NEW b \in Budget, NEW r \in Requests, NEW ok \in BOOLEAN, NEW now \in Nat,
           NEW w \in [Requests -> Nat], NEW ca \in [Requests -> Nat], NEW sa \in [Requests -> Nat],
           b.rec[r].st = "inflight", Made(now, w, ca), Knows(b, now, w, ca, sa)
    PROVE  Knows(Complete(b, r, ok, now), now, w, ca, sa)
  <1> DEFINE c == Complete(b, r, ok, now)
  <1>0. c \in Budget
    BY CompleteType
  <1>1. /\ \A q \in Requests : c.rec[q].at = b.rec[q].at
        /\ c.rec[r].st \in {"ok", "failed"}
        /\ \A q \in Requests \ {r} : c.rec[q] = b.rec[q]
        /\ c.until[Key(r)] >= now + Cooldown
        /\ \A q \in Requests : Key(q) # Key(r) => c.until[Key(q)] = b.until[Key(q)]
    BY CompleteRests
  <1> HIDE DEF c
  <1>2. \A q \in Requests : (c.rec[q].st = "none") <=> (b.rec[q].st = "none")
    BY <1>1
  <1>3. Recorded(c, w, sa) /\ Past(c, now) /\ Limits(c)
    BY <1>1, <1>2, SameRecords DEF Knows
  <1>4. ASSUME NEW q \in Requests, w[q] > 0
        PROVE  c.rec[q].st = "inflight" \/ c.until[Key(q)] >= ca[q] + Cooldown
    <2>1. CASE Key(q) = Key(r)
      <3>1. ca[q] <= now /\ ca[q] \in Nat
        BY <1>4 DEF Made
      <3>2. c.until[Key(q)] \in Nat
        BY <1>0 DEF Budget, Key, Keys
      <3> QED BY <1>1, <2>1, <3>1, <3>2, ConstantsAssumption
    <2>2. CASE Key(q) # Key(r)
      BY <1>1, <1>4, <2>2 DEF Knows, Rested
    <2> QED BY <2>1, <2>2
  <1>5. Rested(c, w, ca)
    BY <1>4 DEF Rested
  <1> QED BY <1>3, <1>5 DEF Knows, c

\* Reconciliation: every key left in flight rests for a cooldown from now.
LEMMA ReconciledRests ==
    ASSUME NEW b \in Budget, NEW now \in Nat
    PROVE  \A q \in Requests :
             /\ Reconciled(b, now).rec[q].at = b.rec[q].at
             /\ \/ Reconciled(b, now).until[Key(q)] >= now + Cooldown
                \/ /\ b.rec[q].st # "inflight"
                   /\ Reconciled(b, now).until[Key(q)] = b.until[Key(q)]
  <1> SUFFICES ASSUME NEW q \in Requests
               PROVE  /\ Reconciled(b, now).rec[q].at = b.rec[q].at
                      /\ \/ Reconciled(b, now).until[Key(q)] >= now + Cooldown
                         \/ /\ b.rec[q].st # "inflight"
                            /\ Reconciled(b, now).until[Key(q)] = b.until[Key(q)]
    OBVIOUS
  <1> DEFINE hit == {Key(r) : r \in InFlight(b)}
             backoff == [k \in Keys |-> IF k \in hit THEN NextBackoff(b.backoff[k])
                                                     ELSE b.backoff[k]]
             until == [k \in Keys |-> IF k \in hit THEN now + Larger(Cooldown, backoff[k])
                                                   ELSE b.until[k]]
  <1>1. Reconciled(b, now).until = until
    BY DEF Reconciled
  <1>2. Reconciled(b, now).rec[q].at = b.rec[q].at
    BY DEF Reconciled, Budget, Record
  <1>3. Key(q) \in Keys
    BY DEF Key, Keys
  <1>4. backoff[Key(q)] \in Nat
    BY <1>3, BackoffType DEF Budget
  <1>5. now + Larger(Cooldown, backoff[Key(q)]) >= now + Cooldown
    BY <1>4, ConstantsAssumption DEF Larger
  <1>6. b.rec[q].st = "inflight" => Key(q) \in hit
    BY DEF InFlight
  <1>7. until[Key(q)] = IF Key(q) \in hit THEN now + Larger(Cooldown, backoff[Key(q)])
                                          ELSE b.until[Key(q)]
    BY <1>3
  <1> HIDE DEF hit, backoff, until
  <1> QED BY <1>1, <1>2, <1>5, <1>6, <1>7

LEMMA ReconciledKnows ==
    ASSUME NEW b \in Budget, NEW now \in Nat,
           NEW w \in [Requests -> Nat], NEW ca \in [Requests -> Nat], NEW sa \in [Requests -> Nat],
           Made(now, w, ca), Knows(b, now, w, ca, sa)
    PROVE  Knows(Reconciled(b, now), now, w, ca, sa)
  <1> DEFINE c == Reconciled(b, now)
  <1>0. /\ c \in Budget
        /\ \A q \in Requests : c.rec[q].st = IF b.rec[q].st = "inflight" THEN "failed" ELSE b.rec[q].st
    BY ReconciledType
  <1>1. \A q \in Requests :
             /\ c.rec[q].at = b.rec[q].at
             /\ \/ c.until[Key(q)] >= now + Cooldown
                \/ b.rec[q].st # "inflight" /\ c.until[Key(q)] = b.until[Key(q)]
    BY ReconciledRests
  <1> HIDE DEF c
  <1>2. Recorded(c, w, sa) /\ Past(c, now) /\ Limits(c)
    BY <1>0, <1>1, SameRecords DEF Knows
  <1>3. ASSUME NEW q \in Requests, w[q] > 0
        PROVE  c.until[Key(q)] >= ca[q] + Cooldown
    <2>1. ca[q] <= now /\ ca[q] \in Nat
      BY <1>3 DEF Made
    <2>2. c.until[Key(q)] \in Nat
      BY <1>0 DEF Budget, Key, Keys
    <2>3. b.rec[q].st = "inflight" \/ b.until[Key(q)] >= ca[q] + Cooldown
      BY <1>3 DEF Knows, Rested
    <2> QED BY <1>1, <2>1, <2>2, <2>3, ConstantsAssumption
  <1>4. Rested(c, w, ca)
    BY <1>3 DEF Rested
  <1> QED BY <1>2, <1>4 DEF Knows, c

\* acquire(): every window stays within its limit, since the records that a new
\* one joins are among those that the refusal counts.
LEMMA ReserveWithin ==
    ASSUME IsFiniteSet(Requests), NEW b \in Budget, NEW r \in Requests, NEW now \in Nat,
           NEW F, NEW m \in Nat, Past(b, now), b.rec[r].st = "none", Within(b, F, m),
           Cardinality({q \in Recent(b, now) : F[q] = F[r]}) < m
    PROVE  Within(Reserve(b, r, now), F, m)
  <1> DEFINE c == Reserve(b, r, now)
  <1>1. \A q \in Requests : c.rec[q] = IF q = r THEN [st |-> "inflight", at |-> now] ELSE b.rec[q]
    BY DEF Reserve, Budget
  <1>2. \A q \in Requests : b.rec[q].at \in Nat
    BY DEF Budget, Record
  <1> HIDE DEF c
  <1> SUFFICES ASSUME NEW s \in Requests, c.rec[s].st # "none"
               PROVE  Cardinality({q \in Near(c, s) : F[q] = F[s]}) <= m
    BY DEF Within, c
  <1> DEFINE joined == {q \in Recent(b, now) : F[q] = F[r]}
             window == {q \in Near(c, s) : F[q] = F[s]}
  <1>3. CASE c.rec[s].at = now /\ F[s] = F[r]
    <2>1. joined \in SUBSET Requests
      BY DEF Recent
    <2>2. IsFiniteSet(joined) /\ Cardinality(joined) \in Nat
      BY <2>1, FS_Subset, FS_CardinalityType
    <2>3. window \in SUBSET (joined \union {r})
      BY <1>1, <1>2, <1>3 DEF Near, Recent
    <2> HIDE DEF joined, window
    <2>4. /\ IsFiniteSet(joined \union {r})
          /\ Cardinality(joined \union {r}) <= Cardinality(joined) + 1
      BY <2>2, OneMore
    <2>5. IsFiniteSet(window) /\ Cardinality(window) <= Cardinality(joined \union {r})
      BY <2>3, <2>4, FS_Subset
    <2>6. Cardinality(window) \in Nat /\ Cardinality(joined \union {r}) \in Nat
      BY <2>4, <2>5, FS_CardinalityType
    <2>7. Cardinality(joined) < m
      BY DEF joined
    <2>8. Cardinality(window) <= m
      BY <2>2, <2>4, <2>5, <2>6, <2>7
    <2> QED BY <2>8 DEF window
  <1>4. CASE ~(c.rec[s].at = now /\ F[s] = F[r])
    <2>1. s # r /\ b.rec[s].st # "none"
      BY <1>1, <1>4
    <2>2. window = {q \in Near(b, s) : F[q] = F[s]}
      <3>1. c.rec[s] = b.rec[s] /\ b.rec[s].at <= now
        BY <1>1, <2>1 DEF Past
      <3>2. r \notin window
        BY <1>1, <1>2, <1>4, <3>1 DEF Near
      <3>3. r \notin Near(b, s)
        BY DEF Near
      <3>4. \A q \in Requests \ {r} : q \in Near(c, s) <=> q \in Near(b, s)
        BY <1>1, <3>1 DEF Near
      <3>5. Near(c, s) \subseteq Requests /\ Near(b, s) \subseteq Requests
        BY DEF Near
      <3> QED BY <3>2, <3>3, <3>4, <3>5
    <2> QED BY <2>1, <2>2 DEF Within
  <1> QED BY <1>3, <1>4

LEMMA ReserveKnows ==
    ASSUME IsFiniteSet(Requests), NEW b \in Budget, NEW r \in Requests, NEW now \in Nat,
           NEW w \in [Requests -> Nat], NEW ca, NEW sa,
           Allowed(b, r, now), w[r] = 0, Knows(b, now, w, ca, sa)
    PROVE  Knows(Reserve(b, r, now), now, w, ca, sa)
  <1> DEFINE c == Reserve(b, r, now)
  <1>1. /\ \A q \in Requests : c.rec[q] = IF q = r THEN [st |-> "inflight", at |-> now] ELSE b.rec[q]
        /\ c.until = b.until
    BY DEF Reserve, Budget
  <1> HIDE DEF c
  <1>2. Recorded(c, w, sa)
    BY <1>1 DEF Knows, Recorded
  <1>3. Past(c, now)
    BY <1>1 DEF Knows, Past
  <1>4. Rested(c, w, ca)
    BY <1>1 DEF Knows, Rested
  <1>5. /\ Past(b, now) /\ b.rec[r].st = "none"
        /\ Cardinality({q \in Recent(b, now) : AssetOf[q] = AssetOf[r]}) < MaxPerAsset
        /\ Cardinality({q \in Recent(b, now) : DomainOf[q] = DomainOf[r]}) < MaxPerDomain
        /\ Cardinality({q \in Recent(b, now) : IncidentOf[q] = IncidentOf[r]}) < MaxPerIncident
    BY DEF Allowed, Knows
  <1>6. MaxPerAsset \in Nat /\ MaxPerDomain \in Nat /\ MaxPerIncident \in Nat
    BY ConstantsAssumption
  <1>7. Limits(b)
    BY DEF Knows
  <1>8. Within(c, AssetOf, MaxPerAsset)
    BY <1>5, <1>6, <1>7, ReserveWithin DEF Limits, c
  <1>9. Within(c, DomainOf, MaxPerDomain)
    BY <1>5, <1>6, <1>7, ReserveWithin DEF Limits, c
  <1>10. Within(c, IncidentOf, MaxPerIncident)
    BY <1>5, <1>6, <1>7, ReserveWithin DEF Limits, c
  <1> QED BY <1>2, <1>3, <1>4, <1>8, <1>9, <1>10 DEF Knows, Limits, c

\* A fresh budget knows enough as long as nothing was written.
LEMMA NewKnows ==
    ASSUME NEW now, NEW w \in [Requests -> Nat], NEW ca, NEW sa, \A r \in Requests : w[r] = 0
    PROVE  Knows(NewBudget, now, w, ca, sa)
  <1>1. \A r \in Requests : NewBudget.rec[r].st = "none" /\ ~(w[r] > 0)
    BY NewBudgetType
  <1> QED BY <1>1 DEF Knows, Recorded, Past, Limits, Within, Rested

\* Time passes.
LEMMA LaterKnows ==
    ASSUME NEW b \in Budget, NEW now \in Nat, NEW w, NEW ca, NEW sa, Knows(b, now, w, ca, sa)
    PROVE  Knows(b, now + 1, w, ca, sa)
  <1>1. Past(b, now + 1)
    BY DEF Knows, Past, Budget, Record
  <1> QED BY <1>1 DEF Knows

\* The host write of r, whose record is in flight, becomes one to be known of.
LEMMA CommitKnows ==
    ASSUME NEW b \in Budget, NEW r \in Requests, NEW now \in Nat,
           NEW w \in [Requests -> Nat], NEW ca \in [Requests -> Nat], NEW sa \in [Requests -> Nat],
           b.rec[r].st = "inflight", Knows(b, now, w, ca, sa)
    PROVE  Knows(b, now, [w EXCEPT ![r] = @ + 1], [ca EXCEPT ![r] = now],
                 [sa EXCEPT ![r] = b.rec[r].at])
  <1>1. Recorded(b, [w EXCEPT ![r] = @ + 1], [sa EXCEPT ![r] = b.rec[r].at])
    BY DEF Knows, Recorded
  <1>2. Rested(b, [w EXCEPT ![r] = @ + 1], [ca EXCEPT ![r] = now])
    BY DEF Knows, Rested
  <1> QED BY <1>1, <1>2 DEF Knows

-----------------------------------------------------------------------------
(* The steps of the executor.                                              *)

LEMMA PacingInit == Init => Pacing
  <1> SUFFICES ASSUME Init PROVE Pacing
    OBVIOUS
  <1>1. writes \in [Requests -> Nat] /\ \A r \in Requests : writes[r] = 0
    BY DEF Init
  <1>2. Knows(disk.snap, clock, writes, commitAt, startAt)
    BY <1>1, NewKnows DEF Init
  <1>3. ~loaded /\ \A t \in Threads : pc[t] = "idle"
    BY DEF Init
  <1> QED BY <1>1, <1>2, <1>3 DEF Pacing, Agree, Made, Owned, Spaced, CooldownSpacing

\* What a step that moves threads only has to show.
LEMMA Unmoved ==
    ASSUME Pacing, UNCHANGED <<clock, disk, loaded, budget, history>>, Owned', Spaced'
    PROVE  Pacing'
  BY DEF Pacing, Agree, Made, CooldownSpacing, history

\* The first read of the ledger, by a thread or by the console.
LEMMA LoadPacing ==
    ASSUME ReadableLedger, IInv, Pacing, ~loaded, LoadBudget, UNCHANGED <<clock, history>>,
           \A t \in Threads : pc'[t] \in {"idle", "admitted", "ready"}
    PROVE  Pacing'
  <1>1. /\ disk.snap \in Budget /\ clock \in Nat
        /\ writes \in [Requests -> Nat] /\ commitAt \in [Requests -> Nat]
        /\ startAt \in [Requests -> Nat]
    BY DEF IInv, TypeOK, Disk
  <1>2. ~LoadFailed /\ (disk.state = "absent" => disk.snap = NewBudget)
    BY DEF IInv, Ledger, LoadFailed, ReadableLedger
  <1>3. Knows(Reconciled(disk.snap, clock), clock, writes, commitAt, startAt)
    BY <1>1, ReconciledKnows DEF Pacing
  <1>4. budget' = disk'.snap /\ Knows(budget', clock, writes, commitAt, startAt)
    <2>1. CASE LoadAbsent
      BY <1>2, <2>1 DEF LoadAbsent, Pacing
    <2>2. CASE LoadReadable
      BY <1>1, <1>3, <2>2 DEF LoadReadable, IInv, TypeOK, Disk
    <2> QED BY <1>2, <2>1, <2>2 DEF LoadBudget
  <1>5. \A r \in Requests : budget'.rec[r].st # "inflight"
    <2>1. CASE LoadAbsent
      BY <2>1, NewBudgetType DEF LoadAbsent
    <2>2. CASE LoadReadable
      BY <1>1, <2>2, ReconciledType DEF LoadReadable
    <2> QED BY <1>2, <2>1, <2>2 DEF LoadBudget
  <1>6. Owned' /\ Spaced' /\ Agree'
    BY <1>4, <1>5 DEF Owned, Spaced, Agree
  <1> QED BY <1>4, <1>6 DEF Pacing, Made, CooldownSpacing, history

\* A thread that reserves: its key is idle, because a thread that still wrote
\* to it would hold the same lease.
LEMMA AcquirePacing ==
    ASSUME IsFiniteSet(Requests), IInv, Pacing, NEW t \in Threads, Acquire(t)
    PROVE  Pacing'
  <1> DEFINE r == req[t]
  <1>1. /\ budget \in Budget /\ clock \in Nat /\ writes \in [Requests -> Nat]
        /\ commitAt \in [Requests -> Nat] /\ pc \in [Threads -> Steps]
        /\ req \in [Threads -> Requests \union {None}]
    BY DEF IInv, TypeOK
  <1>2. pc[t] = "locked" /\ r \in Requests /\ loaded
    BY DEF Acquire, IInv, Occupied, Ledger
  <1>3. CASE Leave(t) /\ UNCHANGED budget
    <2>1. Owned' /\ Spaced'
      BY <1>1, <1>2, <1>3 DEF Acquire, Leave, Pacing, Owned, Spaced, Reserving, history
    <2> QED BY <1>3, <2>1, Unmoved DEF Acquire
  <1>4. CASE Allowed(budget, r, clock) /\ budget' = Reserve(budget, r, clock) /\ Goto(t, "reserved")
    <2>1. UNCHANGED <<clock, disk, loaded, history>> /\ UNCHANGED <<req, writes, commitAt, startAt>>
      BY <1>4 DEF Acquire, Goto, history
    <2>2. budget.rec[r].st = "none" /\ budget.until[Key(r)] <= clock
      BY <1>4 DEF Allowed
    <2>3. writes[r] = 0
      BY <1>1, <1>2, <2>2 DEF Pacing, Knows, Recorded
    <2>4. Knows(budget', clock, writes, commitAt, startAt)
      BY <1>1, <1>2, <1>4, <2>3, ReserveKnows DEF Pacing
    <2>5. \A q \in Requests : budget'.rec[q] = IF q = r THEN [st |-> "inflight", at |-> clock]
                                                       ELSE budget.rec[q]
      BY <1>1, <1>2, <1>4 DEF Reserve, Budget
    <2>6. Agree'
      BY <1>2, <2>1, <2>2, <2>5 DEF Pacing, Agree, IInv, Ledger, Later
    <2>7. Owned'
      <3> SUFFICES ASSUME NEW q \in Requests, writes[q] > 0, budget'.rec[q].st = "inflight"
                   PROVE  \E u \in Threads : pc'[u] \in Reserving /\ req'[u] = q
        BY <2>1 DEF Owned
      <3>1. q # r /\ budget.rec[q].st = "inflight"
        BY <2>3, <2>5
      <3>2. PICK u \in Threads : pc[u] \in Reserving /\ req[u] = q
        BY <1>2, <3>1 DEF Pacing, Owned
      <3>3. u # t
        BY <1>2, <3>2 DEF Reserving
      <3> QED BY <1>1, <1>4, <2>1, <3>2, <3>3 DEF Goto
    <2>8. ASSUME NEW u \in Threads, NEW q \in Requests, pc'[u] \in {"reserved", "opened"},
                 writes[q] > 0, Key(q) = Key(req[u])
          PROVE  budget'.rec[req[u]].at >= commitAt[q] + Cooldown
      <3>1. CASE u = t
        <4>1. budget.rec[q].st # "inflight"
          <5> SUFFICES ASSUME budget.rec[q].st = "inflight" PROVE FALSE
            OBVIOUS
          <5>1. PICK x \in Threads : pc[x] \in Reserving /\ req[x] = q
            BY <1>2, <2>8 DEF Pacing, Owned
          <5>2. x # t /\ DomainOf[req[x]] = DomainOf[req[t]]
            BY <1>2, <2>8, <3>1, <5>1 DEF Key, Reserving
          <5> QED BY <1>2, <5>1, <5>2 DEF IInv, Leases, OneLease, Holding, Reserving
        <4>2. budget.until[Key(q)] >= commitAt[q] + Cooldown
          BY <1>2, <2>8, <4>1 DEF Pacing, Knows, Rested
        <4>3. budget.until[Key(q)] \in Nat /\ commitAt[q] \in Nat
          BY <1>1 DEF Budget, Key, Keys
        <4>4. budget'.rec[req[u]].at = clock
          BY <1>2, <2>5, <3>1
        <4> QED BY <1>1, <2>2, <2>8, <3>1, <4>2, <4>3, <4>4, ConstantsAssumption
      <3>2. CASE u # t
        <4>1. pc[u] \in {"reserved", "opened"}
          BY <1>1, <1>4, <2>8, <3>2 DEF Goto
        <4>2. req[u] # r /\ req[u] \in Requests
          BY <1>2, <3>2, <4>1 DEF IInv, Occupied, Leases, OneLease, Holding
        <4> QED BY <2>5, <2>8, <4>1, <4>2 DEF Pacing, Spaced
      <3> QED BY <3>1, <3>2
    <2>9. Spaced'
      BY <2>1, <2>8 DEF Spaced
    <2> QED BY <2>1, <2>4, <2>6, <2>7, <2>9 DEF Pacing, Made, CooldownSpacing
  <1> QED BY <1>3, <1>4 DEF Acquire

\* The host write: the reservation it stands on is old enough, and is in flight
\* in memory and in the file.
LEMMA CommitPacing ==
    ASSUME IInv, Pacing, NEW t \in Threads, Commit(t)
    PROVE  Pacing'
  <1> DEFINE r == req[t]
  <1>1. /\ budget \in Budget /\ disk.snap \in Budget /\ clock \in Nat
        /\ writes \in [Requests -> Nat] /\ commitAt \in [Requests -> Nat]
        /\ startAt \in [Requests -> Nat] /\ pc \in [Threads -> Steps]
    BY DEF IInv, TypeOK, Disk
  <1>2. pc[t] = "opened" /\ r \in Requests /\ loaded
    BY DEF Commit, IInv, Occupied, Ledger
  <1>3. /\ writes' = [writes EXCEPT ![r] = @ + 1]
        /\ commitAt' = [commitAt EXCEPT ![r] = clock]
        /\ startAt' = [startAt EXCEPT ![r] = budget.rec[r].at]
        /\ pc' = [pc EXCEPT ![t] = "committed"]
        /\ UNCHANGED <<clock, disk, loaded, budget, req>>
    BY DEF Commit, Goto
  <1>4. writes[r] = 0 /\ budget.rec[r].st = "inflight"
    BY <1>2 DEF IInv, Writes, Reservations, Reserving
  <1>5. disk.snap.rec[r].st = "inflight" /\ disk.snap.rec[r].at = budget.rec[r].at
    <2>1. disk.snap.rec[r].st # "none" /\ Later(disk.snap.rec[r].st, "inflight")
      BY <1>2, <1>4 DEF IInv, Writes, Ledger
    <2> QED BY <1>2, <2>1 DEF Later, Pacing, Agree
  <1>6. Knows(budget, clock, writes', commitAt', startAt')
    BY <1>1, <1>2, <1>3, <1>4, CommitKnows DEF Pacing
  <1>7. Knows(disk.snap, clock, writes', commitAt', startAt')
    BY <1>1, <1>2, <1>3, <1>5, CommitKnows DEF Pacing
  <1>8. Agree'
    BY <1>3 DEF Pacing, Agree
  <1>9. Made(clock, writes', commitAt')
    BY <1>1, <1>2, <1>3 DEF Pacing, Made
  <1>10. Owned'
    <2> SUFFICES ASSUME NEW q \in Requests, writes'[q] > 0, budget.rec[q].st = "inflight"
                 PROVE  \E u \in Threads : pc'[u] \in Reserving /\ req[u] = q
      BY <1>3 DEF Owned
    <2>1. CASE q = r
      BY <1>1, <1>3, <2>1 DEF Reserving
    <2>2. CASE q # r
      <3>1. PICK u \in Threads : pc[u] \in Reserving /\ req[u] = q
        BY <1>1, <1>2, <1>3, <2>2 DEF Pacing, Owned
      <3>2. u # t
        BY <2>2, <3>1
      <3> QED BY <1>1, <1>3, <3>1, <3>2
    <2> QED BY <2>1, <2>2
  <1>11. Spaced'
    <2> SUFFICES ASSUME NEW u \in Threads, NEW q \in Requests, pc'[u] \in {"reserved", "opened"},
                        writes'[q] > 0, Key(q) = Key(req[u])
                 PROVE  budget.rec[req[u]].at >= commitAt'[q] + Cooldown
      BY <1>3 DEF Spaced
    <2>1. u # t /\ pc[u] \in {"reserved", "opened"}
      BY <1>1, <1>3
    <2>2. q # r
      BY <1>2, <2>1 DEF IInv, Leases, OneLease, Holding, Key
    <2> QED BY <1>1, <1>3, <2>1, <2>2 DEF Pacing, Spaced
  <1>12. CooldownSpacing'
    <2>1. \A q \in Requests : writes[q] > 0 /\ Key(q) = Key(r)
            => budget.rec[r].at >= commitAt[q] + Cooldown
      BY <1>2 DEF Pacing, Spaced
    <2>2. \A q \in Requests \ {r} : /\ writes'[q] = writes[q] /\ commitAt'[q] = commitAt[q]
                                    /\ startAt'[q] = startAt[q]
      BY <1>1, <1>2, <1>3
    <2>3. startAt'[r] = budget.rec[r].at
      BY <1>1, <1>2, <1>3
    <2> QED BY <2>1, <2>2, <2>3 DEF Pacing, CooldownSpacing
  <1> QED BY <1>3, <1>6, <1>7, <1>8, <1>9, <1>10, <1>11, <1>12 DEF Pacing

\* complete(): the key rests from now on, and the thread lets go of its record.
LEMMA ConcludePacing ==
    ASSUME IInv, Pacing, NEW t \in Threads, Conclude(t)
    PROVE  Pacing'
  <1> DEFINE r == req[t]
  <1>1. /\ budget \in Budget /\ clock \in Nat /\ outcome[t] \in BOOLEAN
        /\ writes \in [Requests -> Nat] /\ commitAt \in [Requests -> Nat]
        /\ startAt \in [Requests -> Nat] /\ pc \in [Threads -> Steps]
    BY DEF IInv, TypeOK
  <1>2. pc[t] = "verdict" /\ r \in Requests /\ loaded /\ budget.rec[r].st = "inflight"
    BY DEF Conclude, IInv, Occupied, Ledger, Reservations, Reserving
  <1>3. /\ budget' = Complete(budget, r, outcome[t], clock)
        /\ pc' = [pc EXCEPT ![t] = "completed"]
        /\ UNCHANGED <<clock, disk, loaded, req, writes, commitAt, startAt>>
    BY DEF Conclude, Goto, history
  <1>4. Knows(budget', clock, writes, commitAt, startAt)
    BY <1>1, <1>2, <1>3, CompleteKnows DEF Pacing
  <1>5. /\ \A q \in Requests : budget'.rec[q].at = budget.rec[q].at
        /\ budget'.rec[r].st # "inflight"
        /\ \A q \in Requests \ {r} : budget'.rec[q] = budget.rec[q]
    <2>1. budget \in Budget /\ r \in Requests /\ outcome[t] \in BOOLEAN /\ clock \in Nat
      BY <1>1, <1>2
    <2> HIDE DEF r
    <2>2. \A q \in Requests : Complete(budget, r, outcome[t], clock).rec[q].at = budget.rec[q].at
      BY <2>1, CompleteRests
    <2>3. Complete(budget, r, outcome[t], clock).rec[r].st \in {"ok", "failed"}
      BY <2>1, CompleteRests
    <2>4. \A q \in Requests \ {r} : Complete(budget, r, outcome[t], clock).rec[q] = budget.rec[q]
      BY <2>1, CompleteRests
    <2> QED BY <1>3, <2>2, <2>3, <2>4 DEF r
  <1>6. Agree'
    BY <1>3, <1>5 DEF Pacing, Agree
  <1>7. Owned'
    <2> SUFFICES ASSUME NEW q \in Requests, writes[q] > 0, budget'.rec[q].st = "inflight"
                 PROVE  \E u \in Threads : pc'[u] \in Reserving /\ req[u] = q
      BY <1>3 DEF Owned
    <2>1. q # r /\ budget.rec[q].st = "inflight"
      BY <1>5
    <2>2. PICK u \in Threads : pc[u] \in Reserving /\ req[u] = q
      BY <1>2, <2>1 DEF Pacing, Owned
    <2> QED BY <1>1, <1>3, <2>1, <2>2
  <1>8. Spaced'
    <2> SUFFICES ASSUME NEW u \in Threads, NEW q \in Requests, pc'[u] \in {"reserved", "opened"},
                        writes[q] > 0, Key(q) = Key(req[u])
                 PROVE  budget'.rec[req[u]].at >= commitAt[q] + Cooldown
      BY <1>3 DEF Spaced
    <2>1. pc[u] \in {"reserved", "opened"} /\ req[u] \in Requests
      BY <1>1, <1>3 DEF IInv, Occupied
    <2> QED BY <1>5, <2>1 DEF Pacing, Spaced
  <1> QED BY <1>3, <1>4, <1>6, <1>7, <1>8 DEF Pacing, Made, CooldownSpacing

\* A snapshot hands the file what memory knows.
LEMMA SnapshotPacing ==
    ASSUME IInv, Pacing, loaded, NEW t \in Threads,
           PersistReservation(t) \/ PersistOutcome(t)
    PROVE  Pacing'
  <1>1. pc \in [Threads -> Steps]
    BY DEF IInv, TypeOK
  <1>2. /\ disk'.snap = budget \/ UNCHANGED disk
        /\ UNCHANGED <<clock, loaded, budget, req, history>>
        /\ UNCHANGED <<writes, commitAt, startAt>>
    <2>1. Snapshot \/ UNCHANGED disk
      BY DEF PersistReservation, PersistOutcome
    <2>2. disk'.snap = budget \/ UNCHANGED disk
      BY <2>1 DEF Snapshot
    <2>3. UNCHANGED <<clock, loaded, budget, req, history>>
      BY DEF PersistReservation, PersistOutcome, Goto
    <2> QED BY <2>2, <2>3 DEF history
  <1>3. \A u \in Threads : /\ pc[u] \in Reserving => pc'[u] \in Reserving
                           /\ pc'[u] \in {"reserved", "opened"} => pc[u] \in {"reserved", "opened"}
    BY <1>1 DEF PersistReservation, PersistOutcome, Goto, Reserving
  <1>4. Owned' /\ Spaced'
    BY <1>2, <1>3 DEF Pacing, Owned, Spaced
  <1>5. Agree' /\ Knows(disk.snap, clock, writes, commitAt, startAt)'
    BY <1>2 DEF Pacing, Agree
  <1> QED BY <1>2, <1>4, <1>5 DEF Pacing, Made, CooldownSpacing

LEMMA PacingStep ==
    ASSUME ReadableLedger, IsFiniteSet(Requests)
    PROVE  IInv /\ Pacing /\ [Next]_vars => Pacing'
  <1> SUFFICES ASSUME IInv, Pacing, [Next]_vars PROVE Pacing'
    OBVIOUS
  <1>1. pc \in [Threads -> Steps] /\ req \in [Threads -> Requests \union {None}]
    BY DEF IInv, TypeOK
  <1>2. ~loaded => \A t \in Threads : pc[t] \in {"idle", "admitted"}
    BY DEF IInv, Ledger
  <1>3. ASSUME NEW t \in Threads,
               \/ \E r \in Requests : Preflight(t, r)
               \/ TryLock(t) \/ NotCommitted(t) \/ Observe(t) \/ Release(t)
        PROVE  Pacing'
    <2>1. UNCHANGED <<clock, disk, loaded, budget, history>>
      BY <1>3 DEF Preflight, TryLock, NotCommitted, Observe, Verdict, Release
    <2>2. \A u \in Threads : /\ pc[u] \in Reserving => pc'[u] \in Reserving /\ req'[u] = req[u]
                             /\ pc'[u] \in {"reserved", "opened"}
                                  => pc[u] \in {"reserved", "opened"} /\ req'[u] = req[u]
      BY <1>1, <1>3 DEF Preflight, TryLock, NotCommitted, Observe, Verdict, Release, Goto, Leave, Reserving
    <2>3. Owned' /\ Spaced'
      BY <2>1, <2>2 DEF Pacing, Owned, Spaced, history
    <2> QED BY <2>1, <2>3, Unmoved
  <1>4. ASSUME NEW t \in Threads, AbandonReservation(t) PROVE Pacing'
    <2>1. UNCHANGED <<clock, disk, loaded, budget, history>>
      BY <1>4 DEF AbandonReservation
    <2>2. writes[req[t]] = 0
      BY <1>4 DEF AbandonReservation, IInv, Writes
    <2>3. \A u \in Threads : u # t => pc'[u] = pc[u] /\ req'[u] = req[u]
      BY <1>1, <1>4 DEF AbandonReservation, Leave
    <2>4. pc'[t] = "idle"
      BY <1>1, <1>4 DEF AbandonReservation, Leave
    <2>5. Owned'
      <3> SUFFICES ASSUME loaded, NEW q \in Requests, writes[q] > 0, budget.rec[q].st = "inflight"
                   PROVE  \E u \in Threads : pc'[u] \in Reserving /\ req'[u] = q
        BY <2>1 DEF Owned, history
      <3>1. PICK u \in Threads : pc[u] \in Reserving /\ req[u] = q
        BY DEF Pacing, Owned
      <3> QED BY <2>2, <2>3, <3>1
    <2>6. Spaced'
      BY <2>1, <2>3, <2>4 DEF Pacing, Spaced, history
    <2> QED BY <2>1, <2>5, <2>6, Unmoved
  <1>5. ASSUME NEW t \in Threads, Load(t) PROVE Pacing'
    <2>1. CASE loaded
      <3>1. UNCHANGED <<clock, disk, loaded, budget, history>>
        BY <1>5, <2>1 DEF Load, LoadBudget, LoadAbsent, LoadReadable, LoadFailed
      <3>2. Owned' /\ Spaced'
        BY <1>1, <1>5, <3>1 DEF Load, Goto, Pacing, Owned, Spaced, Reserving, history
      <3> QED BY <3>1, <3>2, Unmoved
    <2>2. CASE ~loaded
      <3>1. \A u \in Threads : pc'[u] \in {"idle", "admitted", "ready"}
        BY <1>1, <1>2, <1>5, <2>2 DEF Load, Goto
      <3> QED BY <1>5, <2>2, <3>1, LoadPacing DEF Load
    <2> QED BY <2>1, <2>2
  <1>6. CASE SafetyStatus
    <2>1. \A u \in Threads : pc'[u] \in {"idle", "admitted", "ready"}
      BY <1>2, <1>6 DEF SafetyStatus
    <2> QED BY <1>6, <2>1, LoadPacing DEF SafetyStatus
  <1>7. ASSUME NEW t \in Threads, PersistReservation(t) \/ PersistOutcome(t) PROVE Pacing'
    <2>1. loaded
      BY <1>2, <1>7 DEF PersistReservation, PersistOutcome
    <2> QED BY <1>7, <2>1, SnapshotPacing
  <1>8. CASE Crash
    <2>1. /\ ~loaded' /\ \A t \in Threads : pc'[t] = "idle"
          /\ UNCHANGED <<clock, disk, history>> /\ UNCHANGED <<writes, commitAt, startAt>>
      BY <1>8 DEF Crash, history
    <2>2. Agree' /\ Owned' /\ Spaced'
      BY <2>1 DEF Agree, Owned, Spaced
    <2> QED BY <2>1, <2>2 DEF Pacing, Made, CooldownSpacing
  <1>9. CASE Tick
    <2>1. /\ clock' = clock + 1 /\ UNCHANGED <<disk, loaded, budget, pc, req, writes, commitAt, startAt>>
      BY <1>9 DEF Tick, process, history
    <2>2. clock \in Nat /\ budget \in Budget /\ disk.snap \in Budget /\ commitAt \in [Requests -> Nat]
      BY DEF IInv, TypeOK, Disk
    <2>3. /\ loaded => Knows(budget, clock + 1, writes, commitAt, startAt)
          /\ Knows(disk.snap, clock + 1, writes, commitAt, startAt)
      BY <2>2, LaterKnows DEF Pacing
    <2>4. Made(clock + 1, writes, commitAt)
      BY <2>2 DEF Pacing, Made
    <2>5. Agree' /\ Owned' /\ Spaced' /\ CooldownSpacing'
      BY <2>1 DEF Pacing, Agree, Owned, Spaced, CooldownSpacing
    <2> QED BY <2>1, <2>3, <2>4, <2>5 DEF Pacing
  <1>10. CASE SetStop \/ Rot \/ UNCHANGED vars
    <2>1. ~Rot
      BY DEF Rot, ReadableLedger
    <2>2. UNCHANGED <<clock, disk, loaded, budget, history>> /\ UNCHANGED <<pc, req, writes, commitAt>>
      BY <1>10, <2>1 DEF SetStop, process, history, vars
    <2>3. Owned' /\ Spaced'
      BY <2>2 DEF Pacing, Owned, Spaced
    <2> QED BY <2>2, <2>3, Unmoved
  <1> QED BY <1>3, <1>4, <1>5, <1>6, <1>7, <1>8, <1>9, <1>10,
             AcquirePacing, CommitPacing, ConcludePacing DEF Next, Step

-----------------------------------------------------------------------------
\* What the file knows of the writes bounds them.
LEMMA WritesWithin ==
    ASSUME IsFiniteSet(Requests), IInv, Pacing,
           NEW F, NEW m \in Nat, Within(disk.snap, F, m), NEW r \in Requests, writes[r] > 0
    PROVE  Cardinality({q \in {x \in Requests : /\ writes[x] > 0
                                                /\ startAt[x] <= startAt[r]
                                                /\ startAt[x] + Window >= startAt[r]} :
                          F[q] = F[r]}) <= m
  <1> DEFINE near == {x \in Requests : /\ writes[x] > 0
                                       /\ startAt[x] <= startAt[r]
                                       /\ startAt[x] + Window >= startAt[r]}
             made == {q \in near : F[q] = F[r]}
             known == {q \in Near(disk.snap, r) : F[q] = F[r]}
  <1>1. Recorded(disk.snap, writes, startAt)
    BY DEF Pacing, Knows
  <1>2. made \in SUBSET known
    BY <1>1 DEF Recorded, Near
  <1>3. known \in SUBSET Requests
    BY DEF Near
  <1>4. Cardinality(known) <= m
    BY <1>1 DEF Within, Recorded
  <1> HIDE DEF known, made
  <1>5. IsFiniteSet(known)
    BY <1>3, FS_Subset
  <1>6. IsFiniteSet(made) /\ Cardinality(made) <= Cardinality(known)
    BY <1>2, <1>5, FS_Subset
  <1>7. Cardinality(made) \in Nat /\ Cardinality(known) \in Nat
    BY <1>5, <1>6, FS_CardinalityType
  <1>8. Cardinality(made) <= m
    BY <1>4, <1>6, <1>7
  <1> QED BY <1>8 DEF made

\* Two writes to one asset and domain are a cooldown apart, and the writes of
\* any window stay within the three rolling limits - over all threads, refused
\* and resubmitted requests, failed ledger writes and process deaths, as long as
\* the file can be read back and reconciled.
THEOREM Paced == ASSUME ReadableLedger, IsFiniteSet(Requests) PROVE Spec => []PacingKept
  <1>1. Init => IInv /\ Pacing
    BY IInvInit, PacingInit
  <1>2. IInv /\ Pacing /\ [Next]_vars => (IInv /\ Pacing)'
    BY IInvStep, PacingStep
  <1>3. IInv /\ Pacing => PacingKept
    <2> SUFFICES ASSUME IInv, Pacing PROVE WindowBudget
      BY DEF PacingKept, Pacing
    <2>1. Limits(disk.snap)
      BY DEF Pacing, Knows
    <2>2. MaxPerAsset \in Nat /\ MaxPerDomain \in Nat /\ MaxPerIncident \in Nat
      BY ConstantsAssumption
    <2> QED BY <2>1, <2>2, WritesWithin DEF WindowBudget, Limits
  <1> QED BY <1>1, <1>2, <1>3, PTL DEF Spec

=============================================================================
