------------------------- MODULE RemediationExecutor -------------------------
(***************************************************************************)
(* The gateway's autonomous executor: execute() of                         *)
(* frontend/gateway/app/remediation.py with the three guards it takes from *)
(* core/remediate/safety.py - the rolling RemediationBudget with its       *)
(* durable ledger, the in-memory DomainLock and the durable EmergencyStop. *)
(*                                                                         *)
(* Several threads run execute() at once (HTTP requests, the sentinel's    *)
(* loop, investigations), the process may die between any two steps, and   *)
(* a ledger write may fail.  A request is one execution_id: a caller that  *)
(* submits it again, before or after a crash, presents the same id.        *)
(***************************************************************************)
EXTENDS Naturals, FiniteSets

CONSTANTS
    Threads,         \* threads of the gateway that may call execute()
    Requests,        \* execution ids (incident, asset, domain, action, key)
    IncidentOf, AssetOf, DomainOf,  \* the fields execution_id() hashes
    MaxPerIncident, MaxPerAsset, MaxPerDomain, MaxConcurrency,
    Window, Cooldown, BackoffBase, BackoffMax,
    Faults,          \* which writes of the ledger may fail: see FaultKinds
    None,            \* no request: the thread is outside execute()
    MaxTime,         \* bound: last instant of the clock
    MaxCrashes       \* bound: process deaths

FaultKinds == {"reserve", "final", "load", "rot"}

ASSUME ConstantsAssumption ==
    /\ {MaxPerIncident, MaxPerAsset, MaxPerDomain, MaxConcurrency} \subseteq Nat \ {0}
    /\ {Window, Cooldown, BackoffBase, BackoffMax, MaxTime, MaxCrashes} \subseteq Nat
    /\ Faults \subseteq FaultKinds
    /\ None \notin Requests

VARIABLES
    clock,      \* time.time(), never going back
    paused,     \* the EmergencyStop file (durable); missing or corrupt counts as paused
    disk,       \* the ledger file (durable)
    loaded,     \* _BUDGET is not None
    loadError,  \* _BUDGET_LOAD_ERROR is not None
    budget,     \* the RemediationBudget in memory
    held,       \* domains the DomainLock has a lease for
    pc, req,    \* where each thread is in execute(), and for which request
    outcome,    \* the verdict a thread carries to budget.complete
    crashes,    \* process deaths so far
    writes,     \* history: host writes made for each request
    commitAt,   \* history: when the last of them was made ...
    startAt     \* history: ... and when it had been reserved

process == <<loaded, loadError, budget, held, pc, req, outcome>>
history == <<writes, commitAt, startAt>>
vars == <<clock, paused, disk, process, crashes, history>>

-----------------------------------------------------------------------------
(* The budget: records, backoff and not_before, as to_dict() stores them.  *)

Keys == {<<AssetOf[r], DomainOf[r]>> : r \in Requests}
Key(r) == <<AssetOf[r], DomainOf[r]>>

States == {"none", "inflight", "ok", "failed"}
Record == [st : States, at : Nat]
\* backoff[k] is the delay the current failure streak of k stands for
\* (0: no streak); until[k] is _not_before.
Budget == [rec : [Requests -> Record], backoff : [Keys -> Nat], until : [Keys -> Nat]]

NewBudget == [rec     |-> [r \in Requests |-> [st |-> "none", at |-> 0]],
              backoff |-> [k \in Keys |-> 0],
              until   |-> [k \in Keys |-> 0]]

InFlight(b) == {r \in Requests : b.rec[r].st = "inflight"}
\* started_at >= now - window_seconds
Recent(b, now) == {r \in Requests : \/ b.rec[r].st = "inflight"
                                    \/ b.rec[r].st # "none" /\ b.rec[r].at + Window >= now}

AllowedTwice(b, r, now) ==
    /\ Cardinality(InFlight(b)) < MaxConcurrency
    /\ Cardinality({q \in Recent(b, now) : IncidentOf[q] = IncidentOf[r]}) < MaxPerIncident
    /\ b.until[Key(r)] <= now

AllowedOneMore(b, r, now) ==
    /\ b.rec[r].st = "none"
    /\ Cardinality(InFlight(b)) <= MaxConcurrency
    /\ b.until[Key(r)] <= now

Allowed(b, r, now) ==
    LET recent == Recent(b, now) IN
    /\ b.rec[r].st = "none"                                   \* duplicate_execution
    /\ Cardinality(InFlight(b)) < MaxConcurrency
    /\ Cardinality({q \in recent : IncidentOf[q] = IncidentOf[r]}) < MaxPerIncident
    /\ Cardinality({q \in recent : AssetOf[q] = AssetOf[r]}) < MaxPerAsset
    /\ Cardinality({q \in recent : DomainOf[q] = DomainOf[r]}) < MaxPerDomain
    /\ b.until[Key(r)] <= now                                 \* cooldown_active

Reserve(b, r, now) == [b EXCEPT !.rec[r] = [st |-> "inflight", at |-> now]]

Larger(x, y) == IF x >= y THEN x ELSE y
Smaller(x, y) == IF x <= y THEN x ELSE y

\* min(backoff_max, backoff_base * 2^(streak-1)), one failure after delay d
NextBackoff(d) == IF d = 0 THEN Smaller(BackoffMax, BackoffBase) ELSE Smaller(BackoffMax, 2 * d)

Complete(b, r, ok, now) ==
    LET k == Key(r)
        backoff == IF ok THEN 0 ELSE NextBackoff(b.backoff[k])
    IN [b EXCEPT !.rec[r].st = IF ok THEN "ok" ELSE "failed",
                 !.backoff[k] = backoff,
                 !.until[k] = now + Larger(Cooldown, backoff)]

ReconciledDropped(b, now) ==
    [b EXCEPT !.rec = [r \in Requests |-> IF r \in InFlight(b)
                                          THEN [st |-> "none", at |-> 0] ELSE b.rec[r]]]

ReconciledFree(b, now) ==
    [b EXCEPT !.rec = [r \in Requests |-> IF r \in InFlight(b)
                                          THEN [b.rec[r] EXCEPT !.st = "failed"] ELSE b.rec[r]]]

\* Reconciliation at load: every reservation a dead process left in flight is
\* completed as failed.  The DomainLock allows one per domain, so each key in
\* flight pays exactly one failure whatever the order.
Reconciled(b, now) ==
    LET hit == {Key(r) : r \in InFlight(b)}
        backoff == [k \in Keys |-> IF k \in hit THEN NextBackoff(b.backoff[k]) ELSE b.backoff[k]]
    IN [rec     |-> [r \in Requests |-> IF r \in InFlight(b)
                                        THEN [b.rec[r] EXCEPT !.st = "failed"] ELSE b.rec[r]],
        backoff |-> backoff,
        until   |-> [k \in Keys |-> IF k \in hit THEN now + Larger(Cooldown, backoff[k])
                                                 ELSE b.until[k]]]

-----------------------------------------------------------------------------
Steps == {"idle", "admitted", "ready", "locked", "reserved", "opened",
          "committed", "verdict", "completed", "releasing"}
Never == MaxTime + 1     \* a request whose host write has not been made

Disk == [state : {"absent", "readable", "unreadable"}, snap : Budget]

TypeOK ==
    /\ clock \in Nat
    /\ paused \in BOOLEAN
    /\ disk \in Disk
    /\ loaded \in BOOLEAN
    /\ loadError \in BOOLEAN
    /\ budget \in Budget
    /\ held \subseteq {DomainOf[r] : r \in Requests}
    /\ pc \in [Threads -> Steps]
    /\ req \in [Threads -> Requests \union {None}]
    /\ outcome \in [Threads -> BOOLEAN]
    /\ crashes \in Nat
    /\ writes \in [Requests -> Nat]
    /\ commitAt \in [Requests -> Nat]
    /\ startAt \in [Requests -> Nat]

Init ==
    /\ clock = 0
    /\ paused \in BOOLEAN
    /\ disk = [state |-> "absent", snap |-> NewBudget]
    /\ loaded = FALSE
    /\ loadError = FALSE
    /\ budget = NewBudget
    /\ held = {}
    /\ pc = [t \in Threads |-> "idle"]
    /\ req = [t \in Threads |-> None]
    /\ outcome = [t \in Threads |-> FALSE]
    /\ crashes = 0
    /\ writes = [r \in Requests |-> 0]
    /\ commitAt = [r \in Requests |-> Never]
    /\ startAt = [r \in Requests |-> Never]

Goto(t, step) ==
    /\ pc' = [pc EXCEPT ![t] = step]
    /\ UNCHANGED <<req, outcome>>

\* execute() returns or raises.
Leave(t) ==
    /\ pc' = [pc EXCEPT ![t] = "idle"]
    /\ req' = [req EXCEPT ![t] = None]
    /\ outcome' = [outcome EXCEPT ![t] = FALSE]

-----------------------------------------------------------------------------
(* execute(), step by step.                                                *)

\* preflight(): the only place the stop file and the load error are read.
\* A refusal changes nothing.
Preflight(t, r) ==
    /\ pc[t] = "idle"
    /\ ~paused
    /\ ~loadError
    /\ pc' = [pc EXCEPT ![t] = "admitted"]
    /\ req' = [req EXCEPT ![t] = r]
    /\ UNCHANGED <<clock, paused, disk, loaded, loadError, budget, held, outcome, crashes, history>>

LoadAbsent ==
    /\ ~loaded
    /\ disk.state = "absent"
    /\ loaded' = TRUE
    /\ budget' = NewBudget
    /\ UNCHANGED <<disk, loadError>>

LoadReadable ==
    /\ ~loaded
    /\ disk.state = "readable"
    /\ loaded' = TRUE
    /\ budget' = Reconciled(disk.snap, clock)
    /\ disk' = [disk EXCEPT !.snap = Reconciled(disk.snap, clock)]
    /\ UNCHANGED loadError

\* The file does not parse, or writing the reconciled snapshot back fails: an
\* empty budget and a load error, and the file stays as it is.
LoadFailed ==
    /\ ~loaded
    /\ \/ disk.state = "unreadable"
       \/ disk.state = "readable" /\ InFlight(disk.snap) # {} /\ "load" \in Faults
    /\ loaded' = TRUE
    /\ loadError' = TRUE
    /\ budget' = NewBudget
    /\ UNCHANGED disk

\* _load_budget() under _SAFETY_LOCK: the ledger is read once per process.
LoadBudget ==
    \/ loaded /\ UNCHANGED <<disk, loaded, loadError, budget>>
    \/ LoadAbsent
    \/ LoadReadable
    \/ LoadFailed

Load(t) ==
    /\ pc[t] = "admitted"
    /\ LoadBudget
    /\ Goto(t, "ready")
    /\ UNCHANGED <<clock, paused, held, crashes, history>>

\* safety_status(): the console's read loads the ledger as a side effect.
SafetyStatus ==
    /\ ~loaded
    /\ LoadBudget
    /\ UNCHANGED <<clock, paused, held, pc, req, outcome, crashes, history>>

TryLockShared(t) ==
    /\ pc[t] = "ready"
    /\ Goto(t, "locked")
    /\ held' = held \union {DomainOf[req[t]]}
    /\ UNCHANGED <<clock, paused, disk, loaded, loadError, budget, crashes, history>>

\* _DOMAIN_LOCKS.try_acquire(failure_domain, execution_id), without expiry.
TryLock(t) ==
    /\ pc[t] = "ready"
    /\ \/ /\ DomainOf[req[t]] \in held
          /\ Leave(t)
          /\ UNCHANGED held
       \/ /\ DomainOf[req[t]] \notin held
          /\ Goto(t, "locked")
          /\ held' = held \union {DomainOf[req[t]]}
    /\ UNCHANGED <<clock, paused, disk, loaded, loadError, budget, crashes, history>>

AcquireKeepsLease(t) ==
    /\ pc[t] = "locked"
    /\ \/ /\ Allowed(budget, req[t], clock)
          /\ budget' = Reserve(budget, req[t], clock)
          /\ Goto(t, "reserved")
       \/ ~Allowed(budget, req[t], clock) /\ Leave(t) /\ UNCHANGED budget
    /\ UNCHANGED <<clock, paused, disk, loaded, loadError, held, crashes, history>>

\* budget.acquire(); a refusal releases the lease again.
Acquire(t) ==
    /\ pc[t] = "locked"
    /\ \/ /\ Allowed(budget, req[t], clock)
          /\ budget' = Reserve(budget, req[t], clock)
          /\ Goto(t, "reserved")
          /\ UNCHANGED held
       \/ /\ ~Allowed(budget, req[t], clock)
          /\ held' = held \ {DomainOf[req[t]]}
          /\ Leave(t)
          /\ UNCHANGED budget
    /\ UNCHANGED <<clock, paused, disk, loaded, loadError, crashes, history>>

\* _persist_budget() replaces the file by the whole budget in memory, the
\* records of other threads included.
Snapshot == disk' = [state |-> "readable", snap |-> budget]

PersistReservationLater(t) ==
    /\ pc[t] = "reserved"
    /\ Goto(t, "opened")
    /\ UNCHANGED <<clock, paused, disk, loaded, loadError, budget, held, crashes, history>>

PersistReservation(t) ==
    /\ pc[t] = "reserved"
    /\ Snapshot
    /\ Goto(t, "opened")
    /\ UNCHANGED <<clock, paused, loaded, loadError, budget, held, crashes, history>>

\* The write fails before the try block: the exception leaves the lease held
\* and the reservation in flight.
AbandonReservation(t) ==
    /\ pc[t] = "reserved"
    /\ "reserve" \in Faults
    /\ Leave(t)
    /\ UNCHANGED <<clock, paused, disk, loaded, loadError, budget, held, crashes, history>>

\* FollowUp.run(): the baseline is readable, and the host command of commit()
\* runs.
Commit(t) ==
    LET r == req[t] IN
    /\ pc[t] = "opened"
    /\ Goto(t, "committed")
    /\ writes' = [writes EXCEPT ![r] = @ + 1]
    /\ commitAt' = [commitAt EXCEPT ![r] = clock]
    /\ startAt' = [startAt EXCEPT ![r] = budget.rec[r].at]
    /\ UNCHANGED <<clock, paused, disk, loaded, loadError, budget, held, crashes>>

Verdict(t, passed) ==
    /\ pc' = [pc EXCEPT ![t] = "verdict"]
    /\ outcome' = [outcome EXCEPT ![t] = passed]
    /\ UNCHANGED <<clock, paused, disk, loaded, loadError, budget, held, req, crashes, history>>

\* A probe without a baseline, or commit() refuses the target (UnsafeTarget):
\* nothing was written.
NotCommitted(t) ==
    /\ pc[t] = "opened"
    /\ Verdict(t, FALSE)

\* The windows close with a verdict; or commit() says that the change did not
\* land, or raises, after its command has run.
Observe(t) ==
    /\ pc[t] = "committed"
    /\ \E passed \in BOOLEAN : Verdict(t, passed)

\* budget.complete(), in memory.
Conclude(t) ==
    /\ pc[t] = "verdict"
    /\ budget' = Complete(budget, req[t], outcome[t], clock)
    /\ Goto(t, "completed")
    /\ UNCHANGED <<clock, paused, disk, loaded, loadError, held, crashes, history>>

\* The final _persist_budget(); when it fails the finally clause still runs.
PersistOutcome(t) ==
    /\ pc[t] = "completed"
    /\ \/ Snapshot
       \/ "final" \in Faults /\ UNCHANGED disk
    /\ Goto(t, "releasing")
    /\ UNCHANGED <<clock, paused, loaded, loadError, budget, held, crashes, history>>

\* finally: lease.release()
Release(t) ==
    /\ pc[t] = "releasing"
    /\ held' = held \ {DomainOf[req[t]]}
    /\ Leave(t)
    /\ UNCHANGED <<clock, paused, disk, loaded, loadError, budget, crashes, history>>

-----------------------------------------------------------------------------
(* The environment.                                                        *)

Tick ==
    /\ clock < MaxTime
    /\ clock' = clock + 1
    /\ UNCHANGED <<paused, disk, process, crashes, history>>

\* pause() and resume() replace the stop file atomically.
SetStop ==
    /\ paused' = ~paused
    /\ UNCHANGED <<clock, disk, process, crashes, history>>

\* The process dies and is started again: only the files survive.
Crash ==
    /\ crashes < MaxCrashes
    /\ crashes' = crashes + 1
    /\ loaded' = FALSE
    /\ loadError' = FALSE
    /\ budget' = NewBudget
    /\ held' = {}
    /\ pc' = [t \in Threads |-> "idle"]
    /\ req' = [t \in Threads |-> None]
    /\ outcome' = [t \in Threads |-> FALSE]
    /\ UNCHANGED <<clock, paused, disk, history>>

\* Another program or the file system damages the ledger.
Rot ==
    /\ "rot" \in Faults
    /\ disk.state = "readable"
    /\ disk' = [disk EXCEPT !.state = "unreadable"]
    /\ UNCHANGED <<clock, paused, process, crashes, history>>

Step(t) ==
    \/ \E r \in Requests : Preflight(t, r)
    \/ Load(t) \/ TryLock(t) \/ Acquire(t)
    \/ PersistReservation(t) \/ AbandonReservation(t)
    \/ Commit(t) \/ NotCommitted(t) \/ Observe(t)
    \/ Conclude(t) \/ PersistOutcome(t) \/ Release(t)

Next ==
    \/ \E t \in Threads : Step(t)
    \/ SafetyStatus \/ Tick \/ SetStop \/ Crash \/ Rot

Spec == Init /\ [][Next]_vars

\* A thread inside execute() keeps running: its blocking calls have timeouts.
Progress(t) ==
    \/ Load(t) \/ TryLock(t) \/ Acquire(t) \/ PersistReservation(t)
    \/ Commit(t) \/ NotCommitted(t) \/ Observe(t)
    \/ Conclude(t) \/ PersistOutcome(t) \/ Release(t)

FairSpec == Spec /\ \A t \in Threads : WF_vars(Progress(t))

-----------------------------------------------------------------------------
(* What the executor promises.                                             *)

Holding == {"locked", "reserved", "opened", "committed", "verdict", "completed", "releasing"}
Reserving == {"reserved", "opened", "committed", "verdict"}

\* One host write per request: a request that is submitted again - by a second
\* thread, after a refusal, or after the process died in the middle of the
\* first attempt - never changes the host a second time (acquire's
\* duplicate_execution refusal, the reservation persisted before the commit,
\* and the reconciliation of _load_budget).
AtMostOnceCommit == \A r \in Requests : writes[r] <= 1

\* Every host write has its reservation in the ledger file, so no crash makes
\* a write that the budget does not know of.
WriteAheadLedger == \A r \in Requests : writes[r] > 0 => disk.snap.rec[r].st # "none"

\* Two executions in progress never share a failure domain ("one in-flight
\* lease per failure domain"), whatever threads, refusals and crashes do.
OneLease ==
    \A t, u \in Threads : t # u /\ pc[t] \in Holding /\ pc[u] \in Holding
                              => DomainOf[req[t]] # DomainOf[req[u]]
ExclusiveDomain == TypeOK /\ OneLease

\* max_concurrency bounds the executions between their reservation and their
\* verdict over all domains, the check and the reservation being one step.
ConcurrencyLimit == Cardinality({t \in Threads : pc[t] \in Reserving}) <= MaxConcurrency

\* Two writes to the same asset and domain are a cooldown apart: the later
\* one was reserved at least Cooldown after the earlier one was made, also when
\* the process that made the earlier one died before it could complete it.
CooldownSpacing ==
    \A q, r \in Requests :
        q # r /\ writes[q] > 0 /\ writes[r] > 0 /\ Key(q) = Key(r)
            => \/ startAt[q] >= commitAt[r] + Cooldown
               \/ startAt[r] >= commitAt[q] + Cooldown

\* The writes reserved in any window of length Window stay within the three
\* rolling limits, counted over the life of the ledger and not of a process.
WindowBudget ==
    \A r \in Requests :
        LET near == {q \in Requests : /\ writes[q] > 0
                                      /\ startAt[q] <= startAt[r]
                                      /\ startAt[q] + Window >= startAt[r]}
        IN writes[r] > 0 =>
            /\ Cardinality({q \in near : AssetOf[q] = AssetOf[r]}) <= MaxPerAsset
            /\ Cardinality({q \in near : DomainOf[q] = DomainOf[r]}) <= MaxPerDomain
            /\ Cardinality({q \in near : IncidentOf[q] = IncidentOf[r]}) <= MaxPerIncident

\* Both: writes keep their distance from each other, and stay within the limits
\* of any window, across threads, resubmissions and process deaths.
PacingKept == CooldownSpacing /\ WindowBudget

\* A record may go from absent to any state and from in flight to an outcome.
Later(was, now) ==
    \/ was \in {now, "none"}
    \/ was = "inflight" /\ now # "none"

\* The ledger never forgets an execution and never changes an outcome it has
\* recorded ("completed execution outcome cannot be changed"), although every
\* thread rewrites the whole file from memory.
LedgerOnlyGrows ==
    [][\A r \in Requests : Later(disk.snap.rec[r].st, disk'.snap.rec[r].st)]_disk

\* A lease is always given back and a reservation always settled while the
\* process lives (the finally clause), so a domain never stays blocked.
DomainFreed == \A r \in Requests :
    /\ DomainOf[r] \in held ~> DomainOf[r] \notin held
    /\ budget.rec[r].st = "inflight" ~> budget.rec[r].st # "inflight"

=============================================================================
