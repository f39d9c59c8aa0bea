---------------------------- MODULE ChangeControl ----------------------------
(* Durable, approved device changes: ChangeService and ChangeStore of      *)
(* core/remediate/change_control.py, driven by the HTTP routes, background *)
(* threads and start_worker of frontend/gateway/app/change_routes.py.      *)
(*                                                                         *)
(* The change, lease and rule tables are in SQLite, and a transition() is  *)
(* one transaction; between two of them any other thread may act, another  *)
(* operator may write to the device, the adapter may time out with or      *)
(* without having written, and the process may die.                        *)
EXTENDS Integers, Sequences, FiniteSets

CONSTANTS
    Changes,      \* change ids
    Workers,      \* threads running a change, a restore or a preauthorisation
    Devices, DeviceOf,
    Keys, Values, \* configuration items of the devices and what they may hold
    Factory,      \* what they hold at first
    Plan,         \* per change, its operations: <<[key, after, irreversible], ...>>
    Samples, Grace, \* observation_samples (at least 3) and grace_samples
    RuleCap,      \* min(10, max_uses) of the one preauthorisation rule
    None, Other,  \* no change; another operator
    MaxDisturbances \* bound: aborts, pauses, lapses, writes of others, crashes

ASSUME ConstantsAssumption ==
    /\ DeviceOf \in [Changes -> Devices]
    /\ Factory \in [Keys -> Values]
    /\ Plan \in [Changes -> Seq([key : Keys, after : Values, irreversible : BOOLEAN])]
    /\ \A c \in Changes : Len(Plan[c]) > 0
    /\ {Samples, Grace, RuleCap, MaxDisturbances} \subseteq Nat
    /\ None \notin Changes /\ Other \notin Changes /\ None # Other

VARIABLES
    status,     \* changes.status
    approved,   \* the change holds an approval with its own digest
    aborted,    \* abort_requested
    before,     \* the values prepare() found at the change's keys
    lease,      \* leases: the change each device is held for
    uses,       \* rule_uses: the changes the rule was used for
    expired,    \* expires_at has passed
    cfg,        \* external: the device configuration
    paused,     \* writes_paused()
    up,         \* the process serves requests
    work,       \* what each worker is doing
    abortSeen,  \* the status a pending abort request has read
    disturbances, \* counter of the bound
    author,     \* history: who wrote each item last, undone writes aside
    unproven,   \* history: the change has written and its result is not known good
    runs,       \* history: how often each change was started
    automatic   \* history: changes the rule has approved

stored == <<status, approved, aborted, before, lease, uses>>
history == <<author, unproven, runs, automatic>>
vars == <<stored, expired, cfg, paused, up, work, abortSeen, disturbances, history>>

-----------------------------------------------------------------------------
Active == {"executing", "observing", "restoring"}
Settled == {"succeeded", "rolled_back", "needs_human", "expired", "cancelled", "restored"}
Statuses == {"absent", "awaiting_approval", "approved"} \union Active \union Settled

ASSUME NoneAssumption == None \notin Statuses

\* Where a worker stands in execute(), _recover() and restore().
Running == {"connect", "verify", "check", "apply", "readback", "sample", "finish"}
Recovering == {"undo", "undoApply", "undoReadback", "health"}
Places == {"idle", "granted", "admitted", "reconnect", "restored"} \union Running \union Recovering

\* op: the operation at hand; tried: len(attempted); taken, streak: readings,
\* and how many of the last ones had target_ok (negative: had not);
\* failed: _recover's failures are not empty; restoring: called by restore().
Idle == [at |-> "idle", chg |-> None, op |-> 0, tried |-> 0, taken |-> 0, streak |-> 0,
         failed |-> FALSE, restoring |-> FALSE]
Work == [at : Places, chg : Changes \union {None}, op : Nat, tried : Nat, taken : Nat,
         streak : Int, failed : BOOLEAN, restoring : BOOLEAN]

Op(c, i) == Plan[c][i]
Ops(c) == 1 .. Len(Plan[c])
KeysOf(c) == {Op(c, i).key : i \in Ops(c)}

\* An item is one device's: changes of different devices have none in common.
ASSUME ItemsAssumption ==
    \A c, d \in Changes : DeviceOf[c] # DeviceOf[d] => KeysOf(c) \intersect KeysOf(d) = {}

\* op['before']: what the preceding operation on the key leaves, or what
\* prepare() read.
Before(c, i) ==
    LET earlier == {j \in 1 .. i - 1 : Op(c, j).key = Op(c, i).key}
    IN IF earlier = {} THEN before[c][Op(c, i).key]
       ELSE Op(c, CHOOSE j \in earlier : \A k \in earlier : k <= j).after

\* _recover() restores each key once, through the first operation on it ...
First(c, i) == \A j \in 1 .. i - 1 : Op(c, j).key # Op(c, i).key
UpTo(c, i) ==
    LET firsts == {j \in 1 .. i : First(c, j)}
    IN IF firsts = {} THEN 0 ELSE CHOOSE j \in firsts : \A k \in firsts : k <= j
\* ... unless the key holds a value none of the attempted operations wrote.
Permitted(c, tried, key) == {Op(c, j).after : j \in {i \in 1 .. tried : Op(c, i).key = key}}

TypeOK ==
    /\ status \in [Changes -> Statuses]
    /\ approved \in [Changes -> BOOLEAN]
    /\ aborted \in [Changes -> BOOLEAN]
    /\ before \in [Changes -> [Keys -> Values]]
    /\ lease \in [Devices -> Changes \union {None}]
    /\ uses \subseteq Changes
    /\ expired \in [Changes -> BOOLEAN]
    /\ cfg \in [Keys -> Values]
    /\ paused \in BOOLEAN
    /\ up \in BOOLEAN
    /\ work \in [Workers -> Work]
    /\ abortSeen \in [Changes -> Statuses \union {None}]
    /\ disturbances \in Nat
    /\ author \in [Keys -> Changes \union {None, Other}]
    /\ unproven \in [Changes -> BOOLEAN]
    /\ runs \in [Changes -> Nat]
    /\ automatic \subseteq Changes

Init ==
    /\ status = [c \in Changes |-> "absent"]
    /\ approved = [c \in Changes |-> FALSE]
    /\ aborted = [c \in Changes |-> FALSE]
    /\ before = [c \in Changes |-> Factory]
    /\ lease = [d \in Devices |-> None]
    /\ uses = {}
    /\ expired = [c \in Changes |-> FALSE]
    /\ cfg = Factory
    /\ paused \in BOOLEAN
    /\ up = TRUE
    /\ work = [w \in Workers |-> Idle]
    /\ abortSeen = [c \in Changes |-> None]
    /\ disturbances = 0
    /\ author = [k \in Keys |-> None]
    /\ unproven = [c \in Changes |-> FALSE]
    /\ runs = [c \in Changes |-> 0]
    /\ automatic = {}

-----------------------------------------------------------------------------
(* ChangeStore.transition(): a compare-and-set of one status.              *)

Free(c) == lease[DeviceOf[c]] = None      \* the INSERT into leases succeeds
Set(c, new) == status' = [status EXCEPT ![c] = new]
Take(c) == lease' = [lease EXCEPT ![DeviceOf[c]] = c]
Drop(c) == lease' = [d \in Devices |-> IF lease[d] = c THEN None ELSE lease[d]]

At(w, place) == up /\ work[w].at = place
Move(w, place) == work' = [work EXCEPT ![w].at = place]
Stop(w) == work' = [work EXCEPT ![w] = Idle]

\* One of the boundedly many events that cross the ordinary course.
Disturb == disturbances < MaxDisturbances /\ disturbances' = disturbances + 1

Environment == <<expired, paused, up, abortSeen, disturbances>>

-----------------------------------------------------------------------------
(* Preview and approval.                                                   *)

\* prepare(): a plan that differs from the device, and the values it replaces.
Prepare(c) ==
    /\ up
    /\ status[c] = "absent"
    /\ \E i \in Ops(c) : cfg[Op(c, i).key] # Op(c, i).after
    /\ Set(c, "awaiting_approval")
    /\ before' = [before EXCEPT ![c] = [k \in Keys |-> IF k \in KeysOf(c) THEN cfg[k] ELSE @[k]]]
    /\ UNCHANGED <<approved, aborted, lease, uses, cfg, work, Environment, history>>

Approve(c) ==
    /\ up
    /\ ~expired[c]
    /\ status[c] = "awaiting_approval"
    /\ Set(c, "approved")
    /\ approved' = [approved EXCEPT ![c] = TRUE]
    /\ UNCHANGED <<aborted, before, lease, uses, cfg, work, Environment, history>>

UseRuleOnceMore(w, c) ==
    /\ At(w, "idle")
    /\ status[c] = "awaiting_approval" /\ ~expired[c]
    /\ Cardinality(uses) <= RuleCap /\ c \notin uses
    /\ uses' = uses \union {c}
    /\ work' = [work EXCEPT ![w] = [Idle EXCEPT !.at = "granted", !.chg = c]]
    /\ UNCHANGED <<status, approved, aborted, before, lease, cfg, Environment, history>>

\* preauthorize(), first transaction: the count and the use of the rule. A
\* second use for the same change violates UNIQUE(change_id) and changes nothing.
UseRule(w, c) ==
    /\ At(w, "idle")
    /\ status[c] = "awaiting_approval"
    /\ ~expired[c]
    /\ Cardinality(uses) < RuleCap
    /\ c \notin uses
    /\ uses' = uses \union {c}
    /\ work' = [work EXCEPT ![w] = [Idle EXCEPT !.at = "granted", !.chg = c]]
    /\ UNCHANGED <<status, approved, aborted, before, lease, cfg, Environment, history>>

\* preauthorize(), second transaction: approve(), or its refusal.
ApproveByRule(w) ==
    LET c == work[w].chg IN
    /\ At(w, "granted")
    /\ Stop(w)
    /\ \/ /\ ~expired[c]
          /\ status[c] = "awaiting_approval"
          /\ Set(c, "approved")
          /\ approved' = [approved EXCEPT ![c] = TRUE]
          /\ automatic' = automatic \union {c}
       \/ /\ expired[c] \/ status[c] # "awaiting_approval"
          /\ UNCHANGED <<status, approved, automatic>>
    /\ UNCHANGED <<aborted, before, lease, uses, cfg, Environment, author, unproven, runs>>

Cancel(c) ==
    /\ up
    /\ status[c] \in {"awaiting_approval", "approved"}
    /\ Set(c, "cancelled")
    /\ UNCHANGED <<approved, aborted, before, lease, uses, cfg, work, Environment, history>>

\* The abort route reads the change in one transaction ...
AbortRead(c) ==
    /\ up
    /\ Disturb
    /\ abortSeen[c] = None
    /\ status[c] \in {"awaiting_approval", "approved", "executing", "observing"}
    /\ abortSeen' = [abortSeen EXCEPT ![c] = status[c]]
    /\ UNCHANGED <<stored, expired, cfg, paused, up, work, history>>

\* ... and writes the status it has read back in another.
AbortWrite(c) ==
    /\ up
    /\ abortSeen[c] # None
    /\ abortSeen' = [abortSeen EXCEPT ![c] = None]
    /\ \/ /\ status[c] \in {"executing", "observing"}
          /\ Set(c, abortSeen[c])
          /\ aborted' = [aborted EXCEPT ![c] = TRUE]
       \/ /\ status[c] \notin {"executing", "observing"}
          /\ UNCHANGED <<status, aborted>>
    /\ UNCHANGED <<approved, before, lease, uses, expired, cfg, paused, up, work, disturbances,
                   history>>

-----------------------------------------------------------------------------
(* execute()                                                               *)

\* Everything up to the transition to executing reads a snapshot of the change.
Admit(w, c) ==
    /\ At(w, "idle")
    /\ status[c] \notin Settled \union {"absent"}     \* same change ID cannot run twice
    /\ ~paused
    /\ ~expired[c]
    /\ approved[c]
    /\ work' = [work EXCEPT ![w] = [Idle EXCEPT !.at = "admitted", !.chg = c]]
    /\ UNCHANGED <<stored, cfg, Environment, history>>

Expire(c) ==
    /\ up
    /\ ~paused
    /\ expired[c]
    /\ status[c] \in {"awaiting_approval", "approved"}
    /\ Set(c, "expired")
    /\ UNCHANGED <<approved, aborted, before, lease, uses, cfg, work, Environment, history>>

BeginUnleased(w) ==
    LET c == work[w].chg IN
    /\ At(w, "admitted")
    /\ \/ /\ status[c] = "approved"
          /\ Set(c, "executing") /\ Take(c)
          /\ Move(w, "connect")
          /\ runs' = [runs EXCEPT ![c] = @ + 1]
       \/ status[c] # "approved" /\ Stop(w) /\ UNCHANGED <<status, lease, runs>>
    /\ UNCHANGED <<approved, aborted, before, uses, cfg, Environment, author, unproven, automatic>>

\* The transition from approved to executing takes the device's lease.
Begin(w) ==
    LET c == work[w].chg IN
    /\ At(w, "admitted")
    /\ \/ /\ status[c] = "approved" /\ Free(c)
          /\ Set(c, "executing") /\ Take(c)
          /\ Move(w, "connect")
          /\ runs' = [runs EXCEPT ![c] = @ + 1]
       \/ /\ ~(status[c] = "approved" /\ Free(c))
          /\ Stop(w)
          /\ UNCHANGED <<status, lease, runs>>
    /\ UNCHANGED <<approved, aborted, before, uses, cfg, Environment, author, unproven, automatic>>

\* The except clause: restore what was attempted, last operation first.
ToRecovery(w, tried) ==
    LET last == UpTo(work[w].chg, tried)
    IN work' = [work EXCEPT ![w].at = IF last = 0 THEN "health" ELSE "undo",
                            ![w].op = last, ![w].tried = tried]

\* adapter_for(): without a connection nothing was written.
Connect(w) ==
    LET c == work[w].chg IN
    /\ At(w, "connect")
    /\ \/ Move(w, "verify") /\ UNCHANGED <<status, lease>>
       \/ /\ status[c] = "executing"
          /\ Set(c, "needs_human") /\ Drop(c)
          /\ Stop(w)
       \/ /\ status[c] # "executing"      \* the transition raises out of execute()
          /\ Stop(w)
          /\ UNCHANGED <<status, lease>>
    /\ UNCHANGED <<approved, aborted, before, uses, cfg, Environment, history>>

\* Identity, preconditions, every baseline and the guards, before any write.
Verify(w) ==
    LET c == work[w].chg IN
    /\ At(w, "verify")
    /\ \A k \in KeysOf(c) : cfg[k] = before[c][k]
    /\ work' = [work EXCEPT ![w].at = "check", ![w].op = 1]
    /\ UNCHANGED <<stored, cfg, Environment, history>>

Check(w) ==
    LET c == work[w].chg
        i == work[w].op
    IN /\ At(w, "check")
       /\ ~paused
       /\ ~aborted[c]
       /\ cfg[Op(c, i).key] = Before(c, i)
       /\ Move(w, "apply")
       /\ UNCHANGED <<stored, cfg, Environment, history>>

\* adapter.apply(): acknowledged, or an ambiguous reply with or without effect.
Apply(w) ==
    LET c == work[w].chg
        i == work[w].op
        land == /\ cfg' = [cfg EXCEPT ![Op(c, i).key] = Op(c, i).after]
                /\ author' = [author EXCEPT ![Op(c, i).key] = c]
    IN /\ At(w, "apply")
       /\ \/ land /\ work' = [work EXCEPT ![w].at = "readback", ![w].tried = i]
          \/ land /\ ToRecovery(w, i)
          \/ UNCHANGED <<cfg, author>> /\ ToRecovery(w, i)
       /\ unproven' = [unproven EXCEPT ![c] = TRUE]
       /\ UNCHANGED <<stored, Environment, runs, automatic>>

ReadbackEarly(w) ==
    LET c == work[w].chg
        i == work[w].op
    IN /\ At(w, "readback")
       /\ cfg[Op(c, i).key] = Op(c, i).after
       /\ \/ /\ i + 1 < Len(Plan[c])
             /\ work' = [work EXCEPT ![w].at = "check", ![w].op = i + 1]
             /\ UNCHANGED status
          \/ /\ i + 1 >= Len(Plan[c]) /\ status[c] = "executing"
             /\ Set(c, "observing")
             /\ Move(w, "sample")
       /\ UNCHANGED <<approved, aborted, before, lease, uses, cfg, Environment, history>>

\* The readback, then the next operation or the transition to observing.
Readback(w) ==
    LET c == work[w].chg
        i == work[w].op
    IN /\ At(w, "readback")
       /\ Op(c, i).irreversible \/ cfg[Op(c, i).key] = Op(c, i).after
       /\ \/ /\ i < Len(Plan[c])
             /\ work' = [work EXCEPT ![w].at = "check", ![w].op = i + 1]
             /\ UNCHANGED status
          \/ /\ i = Len(Plan[c]) /\ status[c] = "executing"
             /\ Set(c, "observing")
             /\ Move(w, "sample")
       /\ UNCHANGED <<approved, aborted, before, lease, uses, cfg, Environment, history>>

\* What the configuration holds once every operation is applied.
InPlace(c) ==
    \A i \in Ops(c) : \/ Op(c, i).irreversible
                      \/ \E j \in i + 1 .. Len(Plan[c]) : Op(c, j).key = Op(c, i).key
                      \/ cfg[Op(c, i).key] = Op(c, i).after

Streak(w, ok) ==
    LET s == work[w].streak
    IN CASE ok /\ s > 0   -> IF s < 3 THEN s + 1 ELSE s
         [] ok /\ s <= 0  -> 1
         [] ~ok /\ s < 0  -> s - 1
         [] ~ok /\ s >= 0 -> -1

\* One reading of the observation window that does not end it.
Sample(w) ==
    LET c == work[w].chg IN
    /\ At(w, "sample")
    /\ work[w].taken < Samples
    /\ ~aborted[c]
    /\ InPlace(c)
    /\ \E ok \in BOOLEAN :
         /\ ~(Streak(w, ok) <= -2 /\ work[w].taken >= Grace)
         /\ work' = [work EXCEPT ![w].taken = @ + 1, ![w].streak = Streak(w, ok)]
    /\ UNCHANGED <<stored, cfg, Environment, history>>

\* Three healthy readings in a row close the window; finalize() succeeds.
Conclude(w) ==
    /\ At(w, "sample")
    /\ work[w].taken = Samples
    /\ work[w].streak >= 3
    /\ Move(w, "finish")
    /\ UNCHANGED <<stored, cfg, Environment, history>>

Finish(w) ==
    LET c == work[w].chg IN
    /\ At(w, "finish")
    /\ status[c] = "observing"
    /\ Set(c, "succeeded") /\ Drop(c)
    /\ Stop(w)
    /\ unproven' = [unproven EXCEPT ![c] = FALSE]
    /\ UNCHANGED <<approved, aborted, before, uses, cfg, Environment, author, runs, automatic>>

\* Any check that fails, reply that is missing or transition that is refused.
GiveUp(w) ==
    /\ up /\ work[w].at \in Running \ {"connect", "apply"}
    /\ ToRecovery(w, work[w].tried)
    /\ UNCHANGED <<stored, cfg, Environment, history>>

-----------------------------------------------------------------------------
(* _recover() and restore()                                                *)

NextUndoForgetful(w, failed) ==
    LET prior == UpTo(work[w].chg, work[w].op - 1)
    IN work' = [work EXCEPT ![w].at = IF prior = 0 THEN "health" ELSE "undo",
                            ![w].op = prior, ![w].failed = FALSE]

\* The next key to restore, or the closing health check.
NextUndo(w, failed) ==
    LET prior == UpTo(work[w].chg, work[w].op - 1)
    IN work' = [work EXCEPT ![w].at = IF prior = 0 THEN "health" ELSE "undo",
                            ![w].op = prior, ![w].failed = @ \/ failed]

\* Never overwrite another operator's change: the key holds the original value
\* already, or one this change wrote, or it is left alone.
Undo(w) ==
    LET c == work[w].chg
        op == Op(c, work[w].op)
        actual == cfg[op.key]
    IN /\ At(w, "undo")
       /\ \/ NextUndo(w, TRUE)              \* the read fails, or what follows forces it
          \/ /\ ~op.irreversible
             /\ actual = before[c][op.key]
             /\ NextUndo(w, FALSE)
          \/ /\ ~op.irreversible
             /\ actual # before[c][op.key]
             /\ actual \in Permitted(c, work[w].tried, op.key)
             /\ Move(w, "undoApply")
       /\ UNCHANGED <<stored, cfg, Environment, history>>

UndoApply(w) ==
    LET c == work[w].chg
        key == Op(c, work[w].op).key
        land == /\ cfg' = [cfg EXCEPT ![key] = before[c][key]]
                /\ author' = [author EXCEPT ![key] = None]
    IN /\ At(w, "undoApply")
       /\ \/ land /\ Move(w, "undoReadback")
          \/ land /\ NextUndo(w, TRUE)
          \/ UNCHANGED <<cfg, author>> /\ NextUndo(w, TRUE)
       /\ unproven' = [unproven EXCEPT ![c] = TRUE]
       /\ UNCHANGED <<stored, Environment, runs, automatic>>

UndoReadback(w) ==
    LET c == work[w].chg
        key == Op(c, work[w].op).key
    IN /\ At(w, "undoReadback")
       /\ \/ cfg[key] = before[c][key] /\ NextUndo(w, FALSE)
          \/ NextUndo(w, TRUE)
       /\ UNCHANGED <<stored, cfg, Environment, history>>

\* The guards after recovery, finalize() and the closing transition. The lease
\* is released only when nothing failed; a refused transition raises.
Close(w) ==
    LET c == work[w].chg
        expected == IF work[w].restoring THEN {"restoring"} ELSE {"executing", "observing"}
    IN /\ At(w, "health")
       /\ \E healthy \in BOOLEAN :
            LET failed == work[w].failed \/ ~healthy
                result == IF failed \/ work[w].tried = 0 THEN "needs_human" ELSE "rolled_back"
            IN \/ /\ status[c] \in expected
                  /\ Set(c, result)
                  /\ IF failed THEN UNCHANGED <<lease, unproven>>
                     ELSE Drop(c) /\ unproven' = [unproven EXCEPT ![c] = FALSE]
                  /\ IF work[w].restoring /\ result = "rolled_back" THEN Move(w, "restored")
                     ELSE Stop(w)
               \/ /\ status[c] \notin expected
                  /\ Stop(w)
                  /\ UNCHANGED <<status, lease, unproven>>
       /\ UNCHANGED <<approved, aborted, before, uses, cfg, Environment, author, runs, automatic>>

BeginRestoreUnleased(w, c) ==
    /\ At(w, "idle")
    /\ \A i \in Ops(c) : ~Op(c, i).irreversible
    /\ status[c] = "succeeded"
    /\ Set(c, "restoring") /\ Take(c)
    /\ work' = [work EXCEPT ![w] = [Idle EXCEPT !.at = "reconnect", !.chg = c, !.restoring = TRUE]]
    /\ UNCHANGED <<approved, aborted, before, uses, cfg, Environment, history>>

\* restore(), by an operator or by the worker when restore_at has passed.
BeginRestore(w, c) ==
    /\ At(w, "idle")
    /\ \A i \in Ops(c) : ~Op(c, i).irreversible       \* manual_restore
    /\ status[c] = "succeeded"
    /\ Free(c)
    /\ Set(c, "restoring") /\ Take(c)
    /\ work' = [work EXCEPT ![w] = [Idle EXCEPT !.at = "reconnect", !.chg = c, !.restoring = TRUE]]
    /\ UNCHANGED <<approved, aborted, before, uses, cfg, Environment, history>>

\* Connection and identity; without them the lease is kept.
Reconnect(w) ==
    LET c == work[w].chg IN
    /\ At(w, "reconnect")
    /\ \/ ToRecovery(w, Len(Plan[c])) /\ UNCHANGED status
       \/ Set(c, "needs_human") /\ Stop(w)
    /\ UNCHANGED <<approved, aborted, before, lease, uses, cfg, Environment, history>>

Restored(w) ==
    LET c == work[w].chg IN
    /\ At(w, "restored")
    /\ status[c] = "rolled_back"
    /\ Set(c, "restored")
    /\ Stop(w)
    /\ UNCHANGED <<approved, aborted, before, lease, uses, cfg, Environment, history>>

-----------------------------------------------------------------------------
(* The environment.                                                        *)

\* expires_at passes; only a change that is not started yet looks at it.
Lapse(c) ==
    /\ status[c] \in {"awaiting_approval", "approved"}
    /\ ~expired[c]
    /\ Disturb
    /\ expired' = [expired EXCEPT ![c] = TRUE]
    /\ UNCHANGED <<stored, cfg, paused, up, work, abortSeen, history>>

\* Another operator writes to the device.
Drift(k, v) ==
    /\ Disturb
    /\ v # cfg[k]
    /\ cfg' = [cfg EXCEPT ![k] = v]
    /\ author' = [author EXCEPT ![k] = Other]
    /\ UNCHANGED <<stored, expired, paused, up, work, abortSeen, unproven, runs, automatic>>

SetControl ==
    /\ Disturb
    /\ paused' = ~paused
    /\ UNCHANGED <<stored, expired, cfg, up, work, abortSeen, history>>

Crash ==
    /\ up
    /\ Disturb
    /\ up' = FALSE
    /\ work' = [w \in Workers |-> Idle]
    /\ abortSeen' = [c \in Changes |-> None]
    /\ UNCHANGED <<stored, expired, cfg, paused, history>>

StartReleasing ==
    /\ ~up /\ up' = TRUE
    /\ status' = [c \in Changes |-> IF status[c] \in Active THEN "needs_human" ELSE status[c]]
    /\ lease' = [d \in Devices |-> None]
    /\ UNCHANGED <<approved, aborted, before, uses, expired, cfg, paused, work, abortSeen,
                   disturbances, history>>

StartPartly ==
    /\ ~up /\ up' = TRUE
    /\ status' = [c \in Changes |-> IF status[c] \in {"executing", "observing"} THEN "needs_human"
                                    ELSE status[c]]
    /\ UNCHANGED <<approved, aborted, before, lease, uses, expired, cfg, paused, work, abortSeen,
                   disturbances, history>>

\* start_worker(): reconcile_interrupted() before the first request.
Start ==
    /\ ~up
    /\ up' = TRUE
    /\ status' = [c \in Changes |-> IF status[c] \in Active THEN "needs_human" ELSE status[c]]
    /\ UNCHANGED <<approved, aborted, before, lease, uses, expired, cfg, paused, work, abortSeen,
                   disturbances, history>>

Progress(w) ==
    \/ ApproveByRule(w) \/ Begin(w) \/ Connect(w) \/ Verify(w) \/ Check(w) \/ Apply(w)
    \/ Readback(w) \/ Sample(w) \/ Conclude(w) \/ Finish(w) \/ GiveUp(w)
    \/ Undo(w) \/ UndoApply(w) \/ UndoReadback(w) \/ Close(w) \/ Reconnect(w) \/ Restored(w)

Operator(c) ==
    \/ Prepare(c) \/ Approve(c) \/ Cancel(c) \/ AbortRead(c) \/ AbortWrite(c)
    \/ Expire(c) \/ Lapse(c)

Next ==
    \/ \E w \in Workers : Progress(w)
    \/ \E w \in Workers, c \in Changes : UseRule(w, c) \/ Admit(w, c) \/ BeginRestore(w, c)
    \/ \E c \in Changes : Operator(c)
    \/ \E k \in Keys, v \in Values : Drift(k, v)
    \/ SetControl \/ Crash \/ Start

Spec == Init /\ [][Next]_vars

\* Every call of an adapter has a timeout, so a worker's thread goes on; the
\* service manager starts a dead process again.
FairSpec == Spec /\ WF_vars(Start) /\ \A w \in Workers : WF_vars(Progress(w))

-----------------------------------------------------------------------------
(* What change control promises.                                           *)

Busy(w) == work[w].at \notin {"idle", "granted", "admitted", "restored"}

\* Two threads never work on one device: the durable lease keeps every other
\* change, and every other run of the same change, away from it.
OneWriterPerDevice ==
    /\ TypeOK
    /\ \A v, w \in Workers : v # w /\ Busy(v) /\ Busy(w)
                                 => DeviceOf[work[v].chg] # DeviceOf[work[w].chg]

\* "A crash or ambiguous device reply never means success": from its first
\* write until it is observed healthy or completely restored, a change keeps
\* its device, whoever died, aborted, timed out or refused meanwhile.
UnprovenKeepsLease == \A c \in Changes : unproven[c] => lease[DeviceOf[c]] = c

\* "Same change ID cannot run twice", although an abort may put a change that
\* runs back to approved.
RunsOnce == \A c \in Changes : runs[c] <= 1

\* A change reported as rolled back or restored left nothing of it on the
\* device: no item it wrote last holds anything but the value before it.
RolledBackClean ==
    \A c \in Changes : status[c] \in {"rolled_back", "restored"}
        => \A k \in KeysOf(c) : author[k] = c => cfg[k] = before[c][k]

\* While requests are served, a change that claims to be in progress has a
\* thread working on it: reconciliation leaves no orphan behind a crash.
NoOrphan ==
    up => \A c \in Changes : status[c] \in Active => \E w \in Workers : Busy(w) /\ work[w].chg = c

\* The rule approves at most RuleCap changes, each with a use of its own on
\* record, also when a thread dies between the use and the approval.
RuleWithinCap == automatic \subseteq uses /\ Cardinality(uses) <= RuleCap

\* Success is success of the whole plan: every operation was sent, and what it
\* wrote is on the device unless another operator has replaced it meanwhile.
SuccessIsWhole ==
    [][\A c \in Changes : status[c] # "succeeded" /\ status'[c] = "succeeded"
         => /\ \E w \in Workers : work[w].chg = c /\ work[w].tried = Len(Plan[c])
            /\ \A i \in Ops(c) : ~Op(c, i).irreversible => author[Op(c, i).key] \in {c, Other}]_vars

\* An abort that was read before the run began and written after it: the change
\* reads as not started, its device stays leased, and nothing but an operator's
\* cancel() moves it on.
PutBack(c) == aborted[c] /\ status[c] \in {"awaiting_approval", "approved"}

\* A change in progress reaches a status that ends it, also across a crash,
\* unless an abort's late write has put it back to not started.
Settles == \A c \in Changes : status[c] \in Active ~> (status[c] \in Settled \/ PutBack(c))

=============================================================================
