# Autopoiesis-AgentSys in TLA+

Autopoiesis-AgentSys watches a small network, explains what goes wrong in it and,
within narrow limits, repairs it. This directory specifies the parts of it in which
threads, crashes, lost replies and other operators meet: the autonomous executor with
the watch windows it runs a repair under and the recovery graph it records into; the
sentinel that decides to repair; the approved, durable device changes of the console;
the collector that reads the logs; the retrieval indexes and the case memory behind
them; and the desk that turns alerts into investigations.

The specifications are TLA+; small instances are checked by TLC and the main
safety results are proved for every instance with TLAPS.

- [1. The system](#1-the-system)
- [2. Modules](#2-modules)
- [3. Runs](#3-runs)
- [4. Proofs](#4-proofs)
- [5. Where the code departs from what it says](#5-where-the-code-departs-from-what-it-says)
- [6. Abstractions and what is left out](#6-abstractions-and-what-is-left-out)
- [7. Plan](#7-plan)

## 1. The system

| component | source | state | operations | modelled |
|---|---|---|---|---|
| autonomous executor | `frontend/gateway/app/remediation.py`, `core/remediate/safety.py` | rolling budget in memory and in a ledger file, domain leases in memory, emergency-stop file | `execute`, `safety_status`, pause/resume, load and reconciliation of the ledger | `RemediationExecutor` |
| bake-in follow-up | `core/remediate/followup.py`, commits in `domains/network_rca/remediation.py` | baseline, two streak counters per probe, the window | `FollowUp.run` | `FollowUp`, `FollowUpGraph` |
| recovery graph | `core/remediate/recovery_graph.py` | registered edges; per incident a state, attempts, budget, audit | open, precheck, commit, two observations, revert, propose_next, escalate | `RecoveryGraph`, `RecoveryIncident` |
| device change control | `core/remediate/change_control.py`, `frontend/gateway/app/change_routes.py` | SQLite tables of changes, leases, rules and rule uses | prepare, approve, preauthorize, execute, abort, cancel, restore, reconcile at start, advance in the background | `ChangeControl` |
| sentinel | `core/remediate/sentinel.py`, `recurrence.py`, `sentinel_wiring.py` | streaks, cooldowns, escalations in memory; the timeline file | poll, act, reconcile interrupted watches | `Sentinel` |
| source ingest | `frontend/gateway/ingest/facts_ingest.py` | checkpoint and status files, archive tables, the detector's windows in memory | poll, drain of a rotated file, warm-up at start | `SourceIngest` |
| retrieval indexes | `core/memory/segmented_bm25.py`, `vector_lifecycle.py`, `index_maintenance.py`, `store.py` | segments, deltas, version tables; two maintenance threads | upsert, delete, seal, compact, clear, rebuild after a rollback | `Corpus`, `LiveIndex`, `SegmentedIndex`, `VectorLifecycle`, `RetrievalIndexes` |
| case memory, memory evolution | `core/memory/store.py`, `postgres_repository.py`, `core/orchestrator/evolving_service.py` | rows with versions in PostgreSQL; working set, expected versions and snapshots in memory | flush, reload, rollback, redact, purge; run, sentinel chain, reflection, procedure | `CaseMemory` |
| investigation | `frontend/gateway/app/investigation_cases.py`, `investigate.py`, `domains/network_rca/investigation_case.py` | case rows and source index in SQLite; session snapshots; claims and a queue in memory | ingest, merge, claim, open, decide, repair, read back, resume, compaction at start | `InvestigationDesk` |
| orchestrator, network RCA rules, console, evaluation, observability | `core/orchestrator`, `domains`, `frontend/src`, `core/eval`, `core/obs`, ... | mostly per request | sequential, driven by a language model, or presentation | no |

`PROJECT.json` lists every component with the reason where one is not modelled.

**How they interact.** The collector feeds the alert detector and the archive. Landed
alerts become cases; a dispatcher hands cases to worker threads that investigate them
and may ask for a repair. HTTP requests, the sentinel's thread and investigations call
`execute()` in threads of one process. `execute()` takes a lease per failure
domain, reserves in the budget, writes the ledger, opens an incident in a recovery
graph and hands the host action to `FollowUp.run()`, which calls the action's
`commit`, the probes and the action's `revert`; the verdict goes back into the
graph, the budget and the ledger. What was verified goes into the case memory: a
working set guarded by the request lock, flushed into PostgreSQL, and served through a
lexical and a dense index that their own threads compact. Change control is separate:
routes and background threads run `ChangeService` over a SQLite store and an adapter to
the device; each `transition()` is a transaction and everything between two of them
interleaves with other threads, operators and process death.

**What is hard in it.** Two threads on one domain, device or case; a process that dies
between a write and its record, and the reconciliation at the next start; a write of
the ledger that fails; a command whose reply is lost; an operator's abort that acts
on a status it read earlier; another operator, or a script, writing to the same device
or the same row; a log that is rotated between two commands about it; an index
installed from a view that is no longer current; a case merged away under the worker
that investigates it, or made too light to be looked at again; streaks that straddle two windows; limits at their boundary.
`PROJECT.json` lists each under `hazards` with its line and the properties that cover it.

**What makes each part correct.**

- *Executor*: a request writes to a host at most once, whatever is resubmitted or
  crashes; every write is in the ledger before it happens; one execution per domain;
  the rolling limits and the cooldown hold over the life of the ledger; nothing
  stays blocked.
- *Follow-up*: a verdict says what the readings say; the window closes in the round
  of the regression; every run ends.
- *Recovery graph*: one change on the host at a time; attempts never repeat, rise in
  impact or exceed the budget; the audit tells the run, with or without its first row.
- *Sentinel*: a change a dead process left behind is reported, once; a key is not acted
  on before its cooldown; a repair that keeps not holding is given up, restarts or not.
- *Change control*: one writer per device; a change with an unknown result keeps its
  device; nothing runs twice or is reported as undone when it is not; after a crash
  nothing claims to be in progress; everything in progress is settled, but for the race of section 5.
- *Source ingest*: a line is lost only at places the code names; the detector's windows
  hold what came within their reach; what is written is read in the end.
- *Retrieval indexes*: the lexical one finds exactly what it was told, the dense one never
  anything it has left behind; the two agree; maintenance comes to rest with nothing due.
- *Case memory*: no update is lost, nothing erased comes back, nothing rolled back stays.
- *Investigation*: what has been recorded of a case survives merges and deaths, but for
  decisions said again later; claims never leak; every goal that was begun is decided, as
  long as its case passes the gate.

## 2. Modules

### RemediationExecutor (with `_proof`, `MC`)

`execute()` step by step for each thread: `Preflight`, `Load`, `TryLock`,
`Acquire`, `PersistReservation` (or `AbandonReservation` when the write fails),
`Commit`, `Observe` / `NotCommitted`, `Conclude`, `PersistOutcome`, `Release`. The
boundaries are the lock regions of `safety.py` and the file writes; between two of
them any other thread runs, the clock ticks, the stop file changes, the ledger rots
or the process dies (`Crash`: only the files survive).

| code | model |
|---|---|
| `_BUDGET`, `_BUDGET_LOAD_ERROR` | `budget`, `loaded`, `loadError` |
| the ledger file | `disk` (absent, readable with a snapshot, unreadable) |
| `RemediationBudget.acquire / complete / _recent / backoff_delay` | `Allowed`, `Reserve`, `Complete`, `Recent`, `NextBackoff` |
| `_load_budget` | `LoadBudget` with `Reconciled` |
| `_DOMAIN_LOCKS` | `held` |
| `EmergencyStop` | `paused` |

`backoff[k]` holds the delay the current failure streak stands for instead of the
streak, which determines it. A request is an execution id: presenting the same
request again is the resubmission that `duplicate_execution` refuses.

### FollowUp, FollowUpGraph (with `FollowUpGraph_proof`, `MC`)

`FollowUp.run()` for one action: `Baseline`, `RunCommand` and `ReturnFromCommit` (the
host command, and separately what `commit()` says about it), `OpenFast`,
`SampleFast`, `CloseFast`, `SampleStable`, `CloseStability`, `Revert`, `Readback`. A
round reads every probe, each finding it healthy, unhealthy or missing; a round is
one step because a reading already ranges over everything the host could be at that
moment. `log` and `after` are histories: the properties are stated over the rounds
really taken, not over the streak counters that the code decides by.

`FollowUpGraph` maps a follow-up onto `RecoveryGraph` with one registered action
(`Graph == INSTANCE RecoveryGraph WITH ...`, `FollowsGraph == Graph!Spec`). The code
reports to the graph when the run is over; the mapping reads the graph's state off
the follow-up at every step, so it shows that the calls `execute()` makes at the end
are a history the change has really had.

### RecoveryGraph, RecoveryIncident (with `FollowUpGraph_proof`, `MC`)

One `RecoveryRun` over an arbitrary registered graph. Its caller may call any method
in any order and report anything; `Act` is the caller changing the host, and
`changed` what is on the host as a consequence. Calls that raise change nothing and
are not steps, except an opening whose record raises: it leaves a proposed run without its
first row (section 5). It is the abstract specification the follow-up implements, and has
content of its own: `ProposeNext` with budget, edge and evidence. `RecoveryIncident` states what is promised of any
history of calls (`Incident == INSTANCE RecoveryGraph`); its proofs stand behind those of the follow-up, in `FollowUpGraph_proof`.

### Sentinel (with `_proof`)

The polling loop over one timeline. `Poll`, `Consider` (confirmation, escalation,
cooldown, or on to the action), then `_act()` as `Decline` / `Admit`,
`ExecutionError`, `NotLanded` / `Commit`, `OpenWatch`, `CloseWatch`, `Report`,
`Resolve`: one step per row written. `Crash` leaves only the rows; the next process
announces the watches its predecessors left open (`Announce`, one row per step), then
restores cooldowns and starts the loop (`Ready`).

| code | model |
|---|---|
| the timeline file | `log`, a sequence of rows |
| `_unfinished_watches()` | `Advance` for one row, `Folded` for all of them, `Pending` |
| `recurrence.project()`, `history_for()` | `FailedToHold`, `Recurrences` |
| `_streak`, `_cooldown_until`, `_escalated` | `streak`, `cooling`, `escalated` |
| `committed_at`, which identifies a watch | the position of its `committed` row |

The properties are stated over positions of rows, not through the folds: that the
folds compute what the rows say is part of what is checked. The module stands beside
`RemediationExecutor` and `FollowUp`: it knows an execution by the rows it emits.

### ChangeControl (with `_proof`, `MC`)

`ChangeService` and `ChangeStore` for several changes, worker threads and devices.
Status transitions are compare-and-set steps (`Set`, `Take`, `Drop`); `execute()` is
`Admit`, `Begin`, `Connect`, `Verify`, then `Check`, `Apply`, `Readback` per
operation, `Sample`, `Conclude`, `Finish`; `_recover()` is `Undo`, `UndoApply`,
`UndoReadback` per key in reverse and `Close`; `restore()` is `BeginRestore`,
`Reconnect`, the recovery, `Restored`. Routes: `Prepare`, `Approve`, `Cancel`,
`Expire`, `AbortRead` and `AbortWrite` (two transactions, as in the code);
preauthorisation is `UseRule` and `ApproveByRule`, also two. `GiveUp` is the except
clause: from any step an adapter or a check may fail. `Apply` takes effect and is
acknowledged, takes effect and raises, or raises without effect. The environment:
`Drift` (another operator), `SetControl`, `Lapse`, `Crash`, `Start` with its
reconciliation.

History variables: `author` (who wrote an item last), `unproven` (the change has
written and its result is not known), `runs`, `automatic`.

### SourceIngest (with `_proof`)

The live collector over one log and its rotated files. The source: `Write` (half a
line at a time, so that a poll may see half of one), `Rotate`, `Compress`, `Truncate`.
The collector: `Start`, `FirstCheckpoint`, `Warm`, then per turn of the loop `Poll`,
`FindRotated` / `DeclareGap`, `ProbeRotated` / `ProbeFails`, `DrainRotated` or
`ReadLog`, and per flush `NextFlush`, `Insert` (facts, then security), `Detect`,
`Advance` (the checkpoint); `Drained`, `Report`. Each SSH command is a step of its own:
the source moves between any two. `Die` is an exception outside
`RecoverableSSHError`, or the death of the process, at any step.

| code | model |
|---|---|
| checkpoint (inode, offset) | `ckpt`; an inode is the file's number, offsets count half lines |
| the path found by `_find_source_file` | `dist`, the distance from the newest file |
| the two tables and the alert store | `stored` |
| the windows of the alert pipeline | `windows` |
| `source_gap_latched`, `source_gap_detected` | `latch`, `gapStatus` |

History: `givenUp`, the lines the collector went past, each at one named place.

### Corpus, LiveIndex, SegmentedIndex, VectorLifecycle, RetrievalIndexes (with `_proof`, `MC`)

`SegmentedIndex` and `VectorLifecycle` are the two indexes as *values*: a record, and an
operator per operation that the code runs under the index's lock. `RetrievalIndexes`
is the store at work: `Begin`, `Write` and `Dense` (one record, lexical and then
dense), `EmbedFails`, `Commit` / `FlushFails`, the rollback (`RollbackDurable` or
`Rollback`, then `Drop`, `Renew`, `Add`, `Filled`), and per maintenance thread `Wake`,
`Check`, `CaptureLexical` / `CaptureDense`, `InstallLexical` / `InstallDense`,
`Continue`. `Write` takes out of the lexical index what a reindex had indexed, and whatever
a quarantine names; `Redact` (redact, delete, purge) erases a record in the repository at once and takes
it out of both indexes whether it is there or not, which leaves tombstones of absent
documents. Building from a capture is off every lock: it is the time between capture
and install. `LiveIndex` is the abstract specification, in two strengths. `SpecAtOnce`: a
query finds exactly what was told, at every moment; `LexicalServes` says that of the lexical index.
`Spec`: a document is found by what was told of it, or not yet by the newest of it, and
never again by something older; `DenseServes` says that of the dense one, which a failed embedding leaves behind.

### CaseMemory (with `_proof`)

One repository, one working set. The holder of the request lock runs an operation of
one of three kinds: a diagnosis (`Consolidate`, `Retain`), a sentinel chain
(`Consolidate`, its flush, the timeline, `Retain`) or a reflection (`Reflect`,
`Readback`). A flush is two steps, `Flush` (the transaction with its expected
versions) and `Note` (versions and snapshots); a failure leads to `Reload`, `Replace`,
`TakeVersions`, or to `Restore`. An investigation writes a procedure without the lock (`Remember`,
`FlushProcedure` or `FlushHeld`, `NoteProcedure`). Scripts `Edit`, `Redact` and `Purge`
rows. Content is the set of the numbered edits a record was made of, which is
enough to tell lost, overwritten and resurrected apart.

History: `mine` (the edits of the operation under way), `acknowledged`, `rejected`,
`erased`, and three facts that weaken a promise where the code gives none: `unsure` (a
transaction had effect and raised), `raced` (the procedure was written while the lock
was held), `torn` (a rollback broke off).

### InvestigationDesk (with `_proof`, `MC`)

Three stores and the process between them. The poll thread: `AlertLands` and
`SuggestionLands` (ingest with source index and merge, one transaction), `Dispatch`
(claim and enqueue). A worker: `Take`, `Start` (open or resume a session), `Announce`
(the started event), `Save` (the snapshot), `Decide`, `Persist`, `Reason`, `Act`,
`Readback`, `Report`. `Raise` is the exception that ends a worker's turn and gives the
claim back; `Crash` loses sessions, claims and queue, and stands for the start that follows,
which compacts the trails (`Cleaned`) unless that fails.

What an event says of its case (`Facts`) is the scope it bounds the case to and its grade: severe
enough for unattended work, minor, or barred from it (a controlled or acceptance record). An
alert that joins a case replaces both, unless a suggestion has given the scope. `Due` is what a worker asks of a case it
takes, `Eligible` what the dispatcher asks of one it claims; both contain the gate, `Actionable`.

| code | model |
|---|---|
| case row with its events | `row[c]`: status, trail of started sessions and decisions, scope, grade |
| `case_sources` | `lead` |
| snapshot files | `snap` |
| the sessions in memory | `sess` |
| claims, queue | `claimed`, `queue` |
| `_merge_timeline`, `_compact_repeated_decisions` | `MergedTrail`, `Compacted`: the events at chosen spots, in order (`Laid`) |
| the gate on severity, suggestion and local-in deny | `Actionable` |
| `_append_case_event` swallowing a database error | `Writes`, `Records` with the row unchanged |

History: `severed`, that cases have been merged or the write of a decision was swallowed.

## 3. Runs

| run | instance | what it shows |
|---|---|---|
| `executor_threads` | 2 threads, 3 requests in 2 domains, 1 crash, ledger may rot or fail to load back or to store an outcome; no time | typing, `ExclusiveDomain`, `ConcurrencyLimit`; under fairness `DomainFreed` |
| `executor_ledger` | 2 threads (symmetric), 3 requests on one asset, clock 0..2, 1 crash, failing writes | `AtMostOnceCommit`, `WriteAheadLedger`, `PacingKept`, `LedgerOnlyGrows` |
| `recovery_graph` | all graphs over 3 actions (2 mechanisms, 2 impacts), budget up to 3 | `OneChangeAtATime`, `AttemptsDescend`, `TrailTellsRun` |
| `follow_up` | a target and a guard, thresholds 2, windows of 2 rounds each, 3 healthy readings needed | `VerdictIsProven`; under fairness `Concludes`; the refinement `FollowsGraph` |
| `sentinel` | one key, 6 polls with confirmation by 2, 2 crashes, clock 0..3, recurrence window 2 | `WatchAccounted`, `Spaced`, `RepairBudget` |
| `change_device` | 2 changes of one device (3 and 2 operations), 2 workers, 2 disturbances | `OneWriterPerDevice`, `UnprovenKeepsLease`, `RunsOnce`, `RolledBackClean`, `NoOrphan`, `SuccessIsWhole` |
| `change_settles` | 2 changes of one operation, 1 worker, a rule with one use, 1 disturbance | `RuleWithinCap`; under fairness `Settles` |
| `source_ingest` | 3 lines in 3 files, 1 truncation, 1 death, batches of 2, a blank line | `LossAccounted`, `WindowKept`; under fairness `EveryLineLands` |
| `retrieval_indexes` | 2 documents, 2 contents, every threshold at its least, 3 writes or erasures, 1 fault | `IndexesAgree`, `SnapshotsRestore`; the refinements `LexicalServes`, `DenseServes`; under fairness `MaintenanceSettles` |
| `case_memory` | a record of each kind, 3 edits, 1 fault, 1 death, 1 script | `BaselineTrue`, `ErasureHolds`, `AcknowledgedKept`, `RolledBackGone` |
| `investigation_desk` | an alert and a suggestion, 2 workers (symmetric), exact scope, up to 2 suggestions delivered, 1 fault or death | `RecordsAgree`, `ClaimsTell`, `TrailKept` |
| `investigation_goals` | 2 alerts, 1 worker, the other scopes, every grade, up to 2 faults or deaths | under fairness `EveryGoalDecided` |

Each property has a mutant in `PROJECT.json`: a definition of the
model changed the way a plausible bug would change the code, under which TLC finds
the property violated. The mutated operators stand beside the originals in the
modules. The type invariant of a module is the first conjunct of one of its
invariants (`ExclusiveDomain`, `AttemptsDescend`, `VerdictIsProven`, `WatchAccounted`,
`OneWriterPerDevice`, `LossAccounted`, `IndexesAgree`, `BaselineTrue`, `RecordsAgree`).

**Bounds and why they are enough.**

- *Executor.* Every conflict in the code is between two executions: of one domain, of
  one key, or of one unit of `max_concurrency = 1`. Two threads and a third request make every
  pair occur, and three requests exceed limits of 2. `MaxTime` of 2 with `Window` and
  `Cooldown` of 1 places records inside, on and outside both boundaries. One crash
  in the middle and one resubmission after it is the whole crash story, since
  `Reconciled` leaves nothing in flight. `executor_threads` has no clock: its
  properties do not depend on time. Deadlock is checked: an idle thread can always be given a request or the
  stop file set.
- *Follow-up.* Windows of two rounds with thresholds of 2 let a streak lie inside
  each window and across both; 3 healthy readings with windows of 2 make the last
  check depend on a streak that began in the first window. Probes do not influence
  one another except through the verdict, so one of each role is enough.
- *Recovery graph.* Three actions with two equal mechanisms and a drop in impact
  contain every kind of edge the constructor accepts or refuses, and cycles of
  length 2 and 3 among the candidates.
- *Sentinel.* Everything is kept per key; keys share only the clock and the poll, so one
  key is checked. Six polls confirm three times: three repairs, one more than `Limit`
  of 2. `Cooldown` 1, `CooldownMax` 2 and `Window` 2 in a clock of 0..3 place an action
  inside, on and outside each: repairs do leave the recurrence window. Two crashes are what an interruption needs to be
  reported by one process and remembered by the next. Rows carry their time only where something reads it.
- *Change control.* The long plan writes one item twice, ending at its original
  value, and a second item; the other plan has a transient operation and conflicts
  with the first. `MaxDisturbances` bounds the *environment's* steps together
  (abort, pause, lapse, foreign write, crash): any two of them in any order and at
  any place, which covers a crash during the recovery from a crash or an abort of a
  change a foreign write has already broken. Adapter failures are not counted.
  `Samples = 3` and `Grace = 1` are the smallest window that can close, and the
  smallest in which a bad reading is forgiven and a second is not.
- *Source ingest.* Three files are the least in which a file is rotated past without being
  polled, and in which the path of a rotated file comes to hold another. Three lines
  with batches of 2 give a flush that is due and one at the end; one blank line makes
  the checkpoint move without a flush. A second death repeats the first: what
  survives a death does not tell how many there were.
- *Retrieval indexes.* The indexes treat documents alike and relate them only by their
  number. With every threshold at its least, one write seals and two make a
  compaction due, so three writes leave some before, during and after a build. Both
  refinements and `IndexesAgree` are proved for every bound.
- *Case memory.* One record of each kind, for a record of one operation is a foreign record
  to the others. One fault, one death and one script in any order are any two of the
  three and more; two scripts give 8.9 million states, and no violation either.
- *Investigation.* Every merge is between two cases, so two sources; the second suggestion delivered is the
  one that merges after both have been worked on. A start may find a decision repeated once two decided cases
  were merged, so one fault, the death before it, is enough. The scope of a case only selects what is decided and the grade only what is
  dispatched, so the first run leaves them at one value, the exact scope, in which every decision and the repair
  can follow; the second run has the other three and the grades. There two alerts do: one opens the case, the other joins it, at any
  moment and with any facts. Sessions are never used up (4 and 6; with 5 and 7 the states are the same). It has no
  suggestion, since `EveryGoalDecided` excepts merges.

`CHECK_DEADLOCK FALSE` is given where the modelled world may really come to rest: a
run of the follow-up ends in a verdict, an incident in a final state, a set
of changes in settled statuses, the sentinel, the indexes, the case memory and the desk
when their bounds are used up. For the follow-up, change control, the
indexes and the desk, `Concludes`, `Settles`, `MaintenanceSettles` and
`EveryGoalDecided` say what a deadlock check would.

**Fairness.**

- `RemediationExecutor`: weak fairness of each thread's progress inside
  `execute()`, since every blocking call in it (subprocess, sleep, file write) has a
  timeout or returns; nothing is assumed about requests, crashes or the clock. A failing
  *reservation* write is no progress in that run (section 5 shows what it breaks).
- `FollowUp`: the same for its one thread. `ChangeControl`: weak fairness of a worker's
  progress (adapters have timeouts) and of `Start` (the service manager restarts the
  gateway; the number of crashes is bounded).
- `SourceIngest`: weak fairness of the collector, which loops for ever and is restarted
  by systemd; strong fairness of three SSH commands succeeding, because a
  command that fails is tried again in the next turn. Nothing is asked of the source.
- `RetrievalIndexes`: weak fairness of the writer inside an operation and of each
  maintenance thread. No writer has to begin anything.
- `InvestigationDesk`: weak fairness of each worker's step, whose calls have timeouts,
  and strong fairness of `Dispatch` for the cases exempt from the age limits: the
  poll loop catches every exception and comes round for ever, but a full queue or a
  retry interval keeps a case out for a while. Nothing is assumed about landings,
  and `Raise` and `Crash` are bounded.

## 4. Proofs

Eight modules of proofs, all for every value of the constants the
assumptions admit.

`RemediationExecutor_proof`, for all sets of threads and requests, all limits
and any number of crashes:

- `TypeCorrect`, `Exclusive` (`ExclusiveDomain`) without further assumptions;
- `Concurrency` (`ConcurrencyLimit`) for a finite set of requests;
- `AtMostOnce`, `WriteAhead`, `LedgerGrows` for a ledger that can be read and
  reconciled (`ReadableLedger`: neither `rot` nor `load` among the `Faults`). Without it they are false:
  an unreadable ledger starts an empty budget (section 5).

The properties are not inductive: `writes[r] <= 1` says nothing of why a second
execution of `r` is refused. The strengthening says where the knowledge of a request
lives at each step: a thread between reservation and completion owns an in-flight record in
memory; a record once persisted is in the file and stays at least as far along in
memory; a request that has written is in the file; a thread about to
commit is the only one with that request, because leases are per domain and equal
requests have equal domains. Each action then has one step, and under it one per
conjunct it can disturb.

It also proves `Paced` (`PacingKept`) for a readable ledger and
finitely many requests: memory and file both know the past writes and agree on when they were
reserved, a write in flight has a thread, and a reservation about to write is
rested, that is, within the limits and past the cooldown when it was made.

`FollowUpGraph_proof` proves, of `FollowUp`, `TypeCorrect`, `Verdicts` (`VerdictIsProven`) and `Early` (no
round after the one that proves a regression). The invariant ties each streak counter to the trailing run
of the log it counts, across the boundary of the two windows. Then `Implements`: every
follow-up is a behaviour of `RecoveryGraph`. The mapped history is a path determined by the step the follow-up is at, with the
verdict at its end, so each step appends what the graph's action appends. It assumes that `None` is not the
name of the action.

The same module then proves `RunTyped`, `OneChange` (`OneChangeAtATime`), `Descending` (`AttemptsDescend`) and
`FinalKept` of `RecoveryIncident`, for every set of actions, mechanisms, impacts, edges and budgets, and every caller. Its invariant adds to
the properties that consecutive attempts are registered edges ending at the current
action (`Links`). That no action is attempted twice then follows from the acyclicity
of the registered edges by `WalksEnd`: the actions of a walk that returns would be a
set each member of which has an edge into the set, which `Acyclic` excludes. This
formulation avoids induction over paths. `Told` (`TrailTellsRun`) speaks of the account of a run, its trail
with the first row in its place where the record of the opening raised; once missing, that row stays missing, and no other ever is. It is stated by counting: the rank of a proposal
in the trail is the number of proposals up to it, so that an appended entry changes no earlier rank and the
proof needs the cardinality of one more element, not an induction over the trail.

`ChangeControl_proof` proves `OneWriter`, `Unproven`, `Once`, `Accompanied`,
`Capped`, `RolledBack` (`RolledBackClean`) and `Succeeds` (`SuccessIsWhole`). A first invariant, `Shape`, types every variable, the place in the plan of each worker included. The
second, `Guarded`, says what a lease, a status and a worker say of one another: a worker past
`Begin` holds its device, is alone on it, has marked its change as begun, and a change with an unproven write is held.
Every action is classified once, as one that continues, ends or takes work, runs aside from it, crashes or starts,
and preservation is shown per class. The rule's cap needs the uses to be finite, and the maximum of a set of naturals below a bound.

That a change recorded as rolled back has left nothing behind is a matter of the whole recovery, not of its last step.
Its invariant, `Undoing`, follows a worker through it: what the change wrote last belongs to an operation that was tried
(`Tried`); where the plan stands bounds what was tried (`Placed`); and as long as nothing has failed, every item whose
first operation lies above the one at hand is as it was (`SoFar`). That the recovery skips all but the first operation on
an item costs no item is `UpToLast`. No other change disturbs it, because one worker at a time has the device
(`Guarded`) and an item is one device's (`ItemsAssumption`). `Landed`, for the success, is the mirror image:
while a change goes forward, what it has tried is on the device or was replaced by another operator.

`RetrievalIndexes_proof` proves `LexicalImplements`, `DenseImplements`, `Agreement` and `Restores`.
For the lexical index, which implements the abstract index without delay: the newest version of a document, wherever it lies, tells what was told, so that
a query finds exactly that, and a capture that passes the clock test was taken of the current index. For the dense one: no two vectors of one document share a
version, and no vector has a version above the table's. `Agreement` adds that the dense half differs from the
lexical one only in the write under way or after a failed embedding (`Docs # {}`).
`Restores` (`SnapshotsRestore`) compares the statistics that the writer keeps by increments with the ones `load` counts
afresh: the sum over the live documents is stated as the number of `Occurrences`, so that a write is one document that leaves the count
(`CountedOut`) and one that joins it (`Joins`). That no version was given twice is inductive only together with `Newest`: the
table has the newest stored version of each document and no version exceeds the clock.

`InvestigationDesk_proof` proves `Claims` (`ClaimsTell`): the queue is a sequence without repetition, and a
claim is in it or in exactly one worker's hands; every step of a worker takes, continues or ends (finitely many workers).
It also proves `RecordsAgreed` (`RecordsAgree`) and `TrailsKept` (`TrailKept`). The three stores are written at different
moments, so the invariant, `Agreed`, says what each knows of the others in between. `Named`: a case that exists leads
to itself, which makes a merge visible to everything that still holds the old name. `Homed`: a session's own case leads to
the case whose trail has the session, or to none that has it, so a late event goes to the right trail or nowhere. `Unsaved`: before
the first fault a session without a snapshot is about to get one from the worker that opened it, and any other worker that holds
it writes to no case. `Kept`: so the session of a decision is in the snapshots before the first fault, and
in one of memory and snapshots before the second. A trail that was merged or compacted
is a set of *spots*, places in the trails it is made of, laid out in their order: every place in the new trail is taken by exactly one spot
(`PlacesAll`, `LaidOut`). In a merge every event has a first spot (`FirstSpotOf`), hence the merged trail has the events of all of them and
no other (`Merging`); in a compaction every decision has a last spot that says the same (`LastSpotOf`), so that what is
dropped is said again (`Compacting`, `CrashKeeps`). The number of
sources is finite, and `None` is no event, row or session (`NoneAssumption`).

`SourceIngest_proof` proves `NoLineLost` (`LossAccounted`) and, where the warm-up reads at
least as many lines as a window reaches back (`WarmLines >= Window`), `WindowsWarm`
(`WindowKept`). The first needs to know, beyond where each line is, that the offset of a
checkpoint is inside a line only if that line was given up (a torn line the next read skips),
that the range being streamed belongs to the checkpoint's file, and how far a chunk has come through
the sinks; truncation is the hard step, since the same offset then means another content (`stale`).
The second says that whenever the log is about to be read the last `Window` lines before the offset
have been seen, and that a flush leaves nothing out but blank lines and the torn one.
A lemma on `Min` over sets of naturals rests on the well-foundedness of `<`.

`CaseMemory_proof` proves all four properties of the run. `Erasure` (`ErasureHolds`) needs `MemoryAssumption` alone. An erased edit may live on in the
process, in the working set, in the snapshot of a reflection or in what a reload has read; what keeps it
from coming back is that any version the process will expect of that record is refused (`Erased`). A redaction
establishes this because no version the process knows exceeds the row's (`Bounded`); a purge, after
which the row has no version to exceed, because each such version is positive, which takes that nobody wrote under the lock
holder and no transaction was misreported. A new edit has a number nothing erased bears (`Fresh`),
and at most one transaction is pending (`Pending`).

The other three hold while nobody writes under the lock holder and no rollback breaks off, and, where the property says so, no
transaction is misreported; they assume that a reflection's record bears no other record's name (`IdsAssumption`).
`Baselines` (`BaselineTrue`) rests on `Trusted`: a pair of version and content that the process may take for its baseline,
now or after what it still has to note, is one the database has really had under that version. `Acknowledged` (`AcknowledgedKept`)
adds that a record a flush may send has all the edits of the row it would replace (`Above`), because the expected version
refuses it otherwise, that what a reflection restores is what it found (`Snapshot`), and that what was trusted lasts (`Lasting`).
`RolledBack` (`RolledBackGone`) follows the edits of the operation under way: until its transaction has had effect, they are in the
records it names and nowhere else (`Own`), so a rollback that comes to its end leaves none of them (`Rejected`).

`Sentinel_proof` proves all three properties of the run and the types (`TypeCorrect`), for any number of keys and timelines of any
length. Two folds stand between the rows and the properties. `Recurrences` counts positions, so an appended row changes the count by at
most the one repair it undoes. `_unfinished_watches()` is a real fold: `Folded` is a recursive function, its value is shown to be unique and
to exist by the well-foundedness of `<` (`TracksSame`, `TracksExist`), and then only `FoldedNext` is used, that one more
row advances what was folded before.

- `Spacing` (`Spaced`). `Cool` says that the process remembers, for each key, a time no earlier than what every interruption ever
  reported asks for, unless that has passed, and every action of its own; and that a key under consideration has passed it. That the cooldown
  of an old action stays what it was follows because it is computed from the rows before that action (`PrefixKept`).
- `Budget` (`RepairBudget`). `Budgeted` says that only the last repair of a key can be holding, and that none is while the key is
  acted on, because an action follows a detection and a detection undoes the hold. So what the limit was compared with counts every
  recent repair of that key (`Recent` is then `FailedToHold` within the window), and the repair that follows is at most the `Limit`-th.
- `Accounted` (`WatchAccounted`), when storing an outcome cannot fail (`"report" \notin Faults`; section 5 says what happens
  otherwise). `Books` relates the fold to the rows in nine parts: an unfinished watch that has been left behind was never a change
  (`Landed`), the announcements are exactly the interruption rows (`Reported`), an active watch is one nothing has happened to since its
  commit (`Tracked`), every commit is pursued, closed or reported (`Answered`), a running process has in the fold the one watch it is
  in (`Following`), and a report comes before the start of the process that runs (`Restarted`). Each kind of row is one lemma.

**Only model-checked.** The liveness properties (`DomainFreed`, `Concludes`, `Settles`,
`EveryLineLands`, `MaintenanceSettles`, `EveryGoalDecided`): fairness and ENABLED are out of the
prover's reach here. Every safety and action property and every refinement of the runs is proved.

**What is assumed.** Beside the types of the constants: `None` is nothing else (`ConstantsAssumption`,
`DeskAssumption`, `NoneAssumption`); limits, thresholds and batches are positive;
the sets of requests, documents, sources and workers are finite where something is counted; an item belongs to one device;
the names of reflections are their own. The theorems that hold only under a hypothesis on the environment state it as
`ASSUME` (`ReadableLedger`, `WarmLines >= Window`, `Docs # {}`, `"report" \notin Faults`); the named assumptions are evaluated by TLC on every run of their module.

**What the proofs changed.** `MergedTrail`, the trail of the recovery graph, the index statistics and the note of a
memory operation were first written as folds, recursions or overlapping cases; they are now the sets and counts above, with the
same reachable states, since no prover here does induction over data. The fold of the sentinel's rows was a library fold; as
a recursive function it can be reasoned about one row at a time.
That an item is one device's and that a reflection has its own name were silently true of the instances; they are now
assumptions, each justified by the code: an item's key contains its device, a reflection's key its incident.

## 5. Where the code departs from what it says

Most of what follows was met while modelling; where a model contains the behaviour, a
property says what holds in spite of it, and the condition in it names the departure.

**Executor.**

1. *A failed reservation write blocks the domain for the life of the process.*
   `remediation.py:480` persists after the lease and the
   reservation are taken and before the `try` whose `finally` gives them back.
   Everything between there and line 505 shares the problem. With `"reserve"` among the
   `Faults`, `DomainFreed` is false.
2. *The execution that discovers an unreadable ledger writes.*
   The load error is checked in `preflight`, the ledger is loaded after it
   (`remediation.py:441`). In a fresh process the first execution runs with an empty budget and then
   replaces the damaged file by its own snapshot.
3. *A change that is on the host can end unwatched* (`followup.py:227`). The
   host actions return the reading taken immediately after their command; when it is
   not healthy yet, or the command times out, the follow-up takes the change for one
   that did not land.

**Change control.** *An abort can strand a device.* The abort route
(`change_routes.py:313-320`) writes back the status it read in an earlier
transaction. If the change was still approved then and is executing now, it
becomes approved while it runs; its worker is refused every further transition, and
the lease it leaves behind belongs to a change no reconciliation looks at. `RunsOnce`
and `UnprovenKeepsLease` hold in spite of it; `Settles` excepts it as `PutBack`, and
without the exception one abort refutes it.

**Recovery graph.** `open_incident` registers the run before it records it
(`recovery_graph.py:445-446`), and the record raises when `at` has no time zone. The caller has an exception, the
graph a proposed run that may be carried on, and its audit begins without the first row. `TrailTellsRun` puts that row in its place.

**Sentinel.** *A watch that passed can be reported as interrupted.* A change
that did not land opens a row; if storing its outcome then fails, the sentinel writes
`execution_error`, which ends no watch. The next commit on the key is taken for the
same watch, its own `bakein_opened` for another, and the committed one is never closed
in the fold of `_unfinished_watches` (`sentinel.py:249-256`). An escalated key is
acted on again once its cycles have left the window although its condition never
cleared. `bakein_regressed` ends a watch before the revert has run.

**Source ingest.** `live()` overwrites the status file (`facts_ingest.py:1045`) before it
reads `source_gap_latched` from it (1102), so a gap is forgotten at the next
start, where `docs/FACTS_INGEST_SERVICE.md:61` has it latched. The warm-up
reads only the checkpoint's own file, so that windows are cold after a restart just
behind a rotation. Lines are passed over without a declared gap when the log is rotated
twice between two polls, when a rotated file is compressed or renamed between the
search and the drain, and when it is truncated and grows past the old offset.

**Index maintenance.** A `stop()` whose join times out followed by `start()` leaves no
thread; an exception in `around_run` ends it. A compaction that was dropped is tried again only
on a later trigger, and only verified runs trigger.

**Case memory.**

- An investigation's procedure is stored without the request lock
  (`investigate.py:3617`). A flush held back by a run swallows the procedure's
  (`evolving_service.py:104`) and the call reports it as indexed; its flush in the retention
  phase commits half a run; a reflection's rollback followed by a flush overwrites a durable
  procedure. No reader takes `_state_lock`. `raced` is this condition.
- An embedder that fails in `replace_records` leaves part of the working set (`torn`). A reload
  that fails leaves uncommitted records for the next flush.
- A commit that took effect and raised is reported as a failure (`unsure`).
- `purge` leaves no version, so that a record may be created again by a retry.
- An edit between a transaction and its snapshot is never dirty.
- The sentinel's second flush, of its timeline, has no rollback.
- `core/memory/knowledge_sync.py` writes the new fingerprint before a corpus is published
  (about line 333): a failure in between is not tried again. It is outside the models.

**Investigation.**

- A suggestion may merge the case under investigation into another one. The worker's
  decision goes to the deleted row, while the canonical case inherits the started event and
  stays owed; `investigation_cases.py:418-420` says that a started goal is always
  decided. `EveryGoalDecided` excepts this by `severed`. After a merge two workers may hold one session.
- The gate on severity and scope (`investigation_cases.py:428-432`, `693-698`) binds goals that were begun as well,
  in spite of the comment at 418-420. An alert that joins the case replaces its severity and facts
  (`investigation_case.py:570-597`): a local-in deny that was begun, interrupted and joined by a minor forward alert is never taken up again.
  `EveryGoalDecided` excepts a case that stays below the gate (`Wanted`); without that TLC finds such a history.
- Every start deletes all but the newest of the decisions of a case that say the same
  (`investigation_case.py:121-154`; `tests_py/test_investigation_case.py:800` has it so), also those of two cases that were merged. `TrailKept`
  says that a start drops nothing else.
- A decision whose write was swallowed, followed by `configuration_change_proposed`, leaves a case waiting and undecided.
- A death after `action_ready`, during the repair, or after an event that sets
  `waiting`, is not resumed; nor is a refused repair. `policy_outcome_unresolved` stays
  `investigating` and cannot be resumed.
- A death between the started event and the snapshot loses the session; `RecordsAgree`
  says that one failure alone loses no session with a decision.
- `open()` checks and then acts, and may set a decided case back to `investigating`.
- Events are recognised by id among those already there, so the order A, B, A is stored as
  A, B; a duplicate's events are appended after the canonical case's.

## 6. Abstractions and what is left out

- Commands, configurations, digests, texts and journals are values of small sets. An
  approval's digest is the fact that the approval is the change's own.
- A wall clock that goes back, and with it `complete()` raising, is not modelled.
- `execute()` of change control is modelled at the service: the HTTP layer's
  confirmation and authentication are not.
- `AbortRead` is restricted to statuses the route can act on; an abort of a settled change writes nothing.
- Operations deferred in recovery are not modelled. `Verify` reads identity, preconditions, baselines and guards in one
  step: it writes nothing, and every one of its checks may also fail by `GiveUp`.
- An adapter's write that has returned or raised has had its whole effect; a write
  that lands later, after the recovery has read the item, is outside the model.
- Sentinel: the timeline can be read and written; a key has one action and its subject is its
  target, as in every detector of the repository; the follow-up's samples are not rows
  (a watch is identified by its commit); the poll lock is taken as given; the background loop is
  enabled, so every process writes `sentinel_started`. Detections without an action and the hand-over of
  finished incidents to memory are left out.
- `snapshot()`/`restore()` of the recovery graph have no caller in the repository.
- Source ingest: a line is a number, and whether a parser takes it is fixed. Backfill is
  sequential and keeps no checkpoint. The detector's rules and the flow collector are left out.
- Indexes: a document is its set of terms, an embedding its content. Scores and rank
  fusion are real-valued. A snapshot is the value that its file stands for.
- Case memory: dirty set, expected versions and transaction of a flush are one step, since nothing
  else writes the working set between them but the procedure, which `raced` covers. The
  checkpoint of retention's decay counts as a record of a run. Event log triggers, authorisations and paging are left out.
- Investigation: `Dispatch` reads the cases and claims one in a single step (a case that is no longer
  due when a worker takes it is dropped by `Take`; the claim of a case that ceased to be due between
  reading and claiming is the same detour). Probes write only their own events and are part of `Decide`; the start of a repair is part of `Act`.
  The retry interval and time stamps in the future, which pass by themselves, only delay a dispatch and are left out; the
  age limits are a choice at each look. The class of a decision stands for its whole signature. The compaction's removal of legacy
  events and of retrieval notes, which the model does not keep, is left out. Operator
  sessions, opening and closing by hand, the closing of routine observations and the
  `businessTransitions` a suggestion carries are left out.
- Follow-up and graph: the calls `execute()` makes to the graph after a run (`remediation.py:527`) are not steps of a model;
  `FollowsGraph` shows that what they report is a history the graph accepts.
- Not modelled, by component: device and host adapters (dialogues whose outcomes
  `ChangeControl` and `FollowUp` range over), the orchestrator (one thread, decisions made by a language model),
  gateway routes and projections (read-side), the rules and parsers of the network
  domain (pure functions of large data), other domains, observability, evaluation,
  the web console (presentation). `PROJECT.json` has a row for each.

## 7. Plan

Done: the executor, change control, follow-up and recovery graph, sentinel, ingest,
indexes, case memory, investigation. What would add most next:

1. Composition: the sentinel with the executor's ledger (the cooldown of an action
   whose watch was closed before a restart); the desk with the case memory (a confirmed
   procedure while its case is merged).
2. Knowledge synchronisation: fingerprint and corpus as two writes.
3. The operator's sessions beside the unattended ones.
