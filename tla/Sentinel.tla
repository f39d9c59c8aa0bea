------------------------------ MODULE Sentinel ------------------------------
(* The loop that notices, decides and acts (core/remediate/sentinel.py),   *)
(* with the recurrence count it takes its decisions by                     *)
(* (core/remediate/recurrence.py) and its start in the gateway             *)
(* (sentinel_wiring.start_background).                                     *)
(*                                                                         *)
(* The sentinel keeps two kinds of memory.  The timeline is a file of rows *)
(* that is only appended to and outlives the process; everything else      *)
(* (streaks, cooldowns, escalations, where it is in a poll) dies with it.  *)
(* A new process reconstructs what it can from the rows: watches its       *)
(* predecessors left open, the cooldowns these deserve, and how often a    *)
(* repair has failed to hold.                                              *)
(*                                                                         *)
(* A key is a detection's (detector, subject), with the one action that    *)
(* detector proposes for it; every detector of the repository that         *)
(* proposes an action proposes the subject itself as its target.  The      *)
(* execution is seen through the rows execute() emits; RemediationExecutor *)
(* and FollowUp model what happens inside it.                              *)
EXTENDS Naturals, FiniteSets, Sequences, FiniteSetsExt

CONSTANTS
    Keys,           \* (detector, subject) pairs
    None,           \* the key of a row that belongs to no subject
    ConfirmPolls,   \* CONFIRM_POLLS
    Cooldown,       \* COOLDOWN_SEC
    CooldownMax,    \* recurrence.COOLDOWN_MAX_SEC
    Limit,          \* recurrence.LIMIT
    Window,         \* recurrence.WINDOW_SEC
    Faults,         \* what may go wrong: see FaultKinds
    MaxTime,        \* bound: the clock
    MaxPolls,       \* bound: polls, over all processes
    MaxCrashes      \* bound: process deaths

\* "report": execute() raises after the row of a change that did not land
\* (storing the outcome in the ledger fails).
FaultKinds == {"report"}

ASSUME ConstantsAssumption ==
    /\ None \notin Keys
    /\ {ConfirmPolls, Limit} \subseteq Nat \ {0}
    /\ {Cooldown, CooldownMax, Window, MaxTime, MaxPolls, MaxCrashes} \subseteq Nat
    /\ Cooldown <= CooldownMax
    /\ Faults \subseteq FaultKinds

VARIABLES
    clock,          \* the wall clock and the monotonic one
    log,            \* the timeline (durable)
    up,             \* the process has reconciled and its loop runs
    streak,         \* _streak
    cooling,        \* _cooldown_until
    escalated,      \* _escalated
    todo,           \* detections of this poll not looked at yet
    step, target,   \* where _act is, and for which key
    polls, crashes  \* counted for the bounds

memory == <<streak, cooling, escalated, todo, step, target>>
vars == <<clock, log, up, memory, polls, crashes>>

-----------------------------------------------------------------------------
(* The timeline.                                                           *)

\* "closed" is bakein_passed or bakein_regressed; "preflight" an eligible one.
Kinds == {"started", "detected", "preflight", "committed", "opened", "closed",
          "remediated", "resolved", "interrupted"}

\* The kinds whose time something reads; the others' is left out.
TimedKinds == {"preflight", "resolved", "interrupted"}

\* watch is the position of the committed row a row speaks of: its own for
\* "committed", the one named by committed_at for "interrupted", else 0.
Row == [kind : Kinds, key : Keys \cup {None}, at : Nat, watch : Nat]

Entry(kind, k, watch) ==
    [kind |-> kind, key |-> k, at |-> IF kind \in TimedKinds THEN clock ELSE 0, watch |-> watch]
Write(kind, k) == log' = Append(log, Entry(kind, k, 0))

Positions(kind, k) == {i \in DOMAIN log : log[i].kind = kind /\ log[i].key = k}

-----------------------------------------------------------------------------
(* Recurrence: project() over the timeline.                                *)

\* A repair of k that passed, and whose fault was detected again afterwards.
FailedToHold(rows, k) ==
    {i \in DOMAIN rows :
        /\ rows[i].kind = "resolved" /\ rows[i].key = k
        /\ \E j \in i+1..Len(rows) :
              /\ rows[j].kind = "detected" /\ rows[j].key = k
              /\ \A m \in i+1..j : ~(rows[m].kind = "resolved" /\ rows[m].key = k)}

RecurrencesOfLife(rows, k, now) ==
    Cardinality({i \in FailedToHold(rows, k) :
        \A m \in i..Len(rows) : rows[m].kind # "started"})

\* history_for(...).recurrences: those within the window, its edge included.
Recurrences(rows, k, now) ==
    Cardinality({i \in FailedToHold(rows, k) : rows[i].at + Window >= now})

Smaller(x, y) == IF x <= y THEN x ELSE y

\* cooldown_for: doubling with each repair that did not hold, up to a ceiling.
CooldownFor(n) == IF n = 0 THEN Cooldown ELSE Smaller(Cooldown * 2^n, CooldownMax)

-----------------------------------------------------------------------------
(* Watches: _unfinished_watches() folds the rows into those that never     *)
(* reached a terminal row.  active holds at most one watch per key.        *)

TerminalKinds == {"closed", "remediated", "resolved"}

NoWatches == [active |-> {}, unfinished |-> {}, announced |-> {}]

Identity(w) == [key |-> w.key, watch |-> w.commit]

\* The commit of the watch in mine, 0 if there is none.
CommitOf(mine) ==
    IF \E w \in mine : w.commit # 0 THEN (CHOOSE w \in mine : TRUE).commit ELSE 0

\* The follow-up of that watch has opened.
OpenedIn(mine) == \E w \in mine : w.opened

Advance(seen, row) ==
    LET mine   == {w \in seen.active : w.key = row.key}
        others == seen.active \ mine
        commit == CommitOf(mine)
        opened == OpenedIn(mine)
    IN CASE row.kind = "started" ->
              [seen EXCEPT !.active = {}, !.unfinished = @ \cup seen.active]
         [] row.kind = "interrupted" ->
              [seen EXCEPT !.announced = @ \cup {[key |-> row.key, watch |-> row.watch]},
                           !.active = {w \in @ : Identity(w) # [key |-> row.key, watch |-> row.watch]}]
         [] row.kind = "committed" ->
              LET another == commit # 0 IN
              [seen EXCEPT
                  !.unfinished = @ \cup (IF another THEN mine ELSE {}),
                  !.active = others \cup {[key |-> row.key, commit |-> row.watch,
                                           opened |-> opened /\ ~another]}]
         [] row.kind = "opened" ->
              [seen EXCEPT
                  !.unfinished = @ \cup (IF opened THEN mine ELSE {}),
                  !.active = others \cup {[key |-> row.key, opened |-> TRUE,
                                           commit |-> IF opened THEN 0 ELSE commit]}]
         [] row.kind \in TerminalKinds -> [seen EXCEPT !.active = others]
         [] OTHER -> seen

\* The rows one after the other.
Folded(rows) ==
    LET seen[n \in 0..Len(rows)] ==
            IF n = 0 THEN NoWatches ELSE Advance(seen[n - 1], rows[n])
    IN  seen[Len(rows)]

Watches == Folded(log)

\* Announcements that name a watch by its key alone.
PendingByKey ==
    LET w == Watches IN
    {i \in {Identity(x) : x \in w.unfinished \cup w.active} :
        \A a \in w.announced : a.key # i.key}

\* Watches to announce at a start: identities not announced before.
Pending ==
    LET w == Watches IN
    {Identity(x) : x \in w.unfinished \cup w.active} \ w.announced

-----------------------------------------------------------------------------
Init ==
    /\ clock = 0 /\ log = <<>> /\ up = FALSE
    /\ streak = [k \in Keys |-> 0]
    /\ cooling = [k \in Keys |-> 0]
    /\ escalated = {} /\ todo = {}
    /\ step = "looking" /\ target = None
    /\ polls = 0 /\ crashes = 0

(* Start: reconcile_interrupted_watches() writes one row per watch it found *)
(* (the watches still pending are recomputed at each row: a row removes     *)
(* exactly its own), restores the cooldowns, then the loop starts.  A death *)
(* before the loop starts loses nothing but what the rows say anyway, and   *)
(* is a stuttering step.                                                    *)

Announce ==
    /\ ~up
    /\ \E i \in Pending :
          log' = Append(log, Entry("interrupted", i.key, i.watch))
    /\ UNCHANGED <<clock, up, memory, polls, crashes>>

\* cooldown_sec - (wall_now - interrupted_at), from every interruption ever
\* announced; one that has run out restores nothing.
Restored(rows, k) ==
    LET ends == {rows[i].at + Cooldown : i \in {j \in DOMAIN rows :
                    rows[j].kind = "interrupted" /\ rows[j].key = k}}
        open == {e \in ends : e > clock}
    IN IF open = {} THEN 0 ELSE Max(open)

ReadyForgetful ==
    LET last == Max({i \in DOMAIN log : log[i].kind = "started"} \cup {0}) IN
    /\ ~up
    /\ Pending = {}
    /\ cooling' = [k \in Keys |-> Restored(SubSeq(log, last + 1, Len(log)), k)]
    /\ Write("started", None)
    /\ up' = TRUE
    /\ UNCHANGED <<clock, streak, escalated, todo, step, target, polls, crashes>>

Ready ==
    /\ ~up
    /\ Pending = {}
    /\ cooling' = [k \in Keys |-> Restored(log, k)]
    /\ Write("started", None)
    /\ up' = TRUE
    /\ UNCHANGED <<clock, streak, escalated, todo, step, target, polls, crashes>>

(* One poll.  A key is not in found when its condition has cleared, when    *)
(* its detector raised, and when an operator's poll asked other detectors.  *)

Poll(found) ==
    /\ up /\ step = "looking" /\ todo = {}
    /\ polls < MaxPolls
    /\ polls' = polls + 1
    /\ streak' = [k \in Keys |-> IF k \in found THEN streak[k] ELSE 0]
    /\ escalated' = escalated \cap found
    /\ todo' = found
    /\ UNCHANGED <<clock, log, up, cooling, step, target, crashes>>

\* A detection is written before anything is decided about it, so the count
\* of recurrences includes the return that is being looked at.
Detect(k) ==
    /\ up /\ step = "looking" /\ k \in todo
    /\ todo' = todo \ {k}
    /\ streak' = [streak EXCEPT ![k] = @ + 1]
    /\ Write("detected", k)
    /\ UNCHANGED <<clock, up, cooling, polls, crashes>>

Confirmed(k) == streak'[k] >= ConfirmPolls
Exhausted(k) == Recurrences(log', k, clock) >= Limit
Cooled(k) == clock >= cooling[k]

ConsiderHot(k) ==
    /\ Detect(k)
    /\ \/ /\ ~Confirmed(k)
          /\ UNCHANGED <<escalated, step, target>>
       \/ /\ Confirmed(k) /\ Exhausted(k)
          /\ escalated' = escalated \cup {k}
          /\ UNCHANGED <<step, target>>
       \/ /\ Confirmed(k) /\ ~Exhausted(k)
          /\ step' = "preflight" /\ target' = k
          /\ UNCHANGED escalated

Consider(k) ==
    /\ Detect(k)
    /\ \/ /\ ~Confirmed(k)                       \* awaiting_confirmation
          /\ UNCHANGED <<escalated, step, target>>
       \/ /\ Confirmed(k) /\ Exhausted(k)
          /\ escalated' = escalated \cup {k}
          /\ UNCHANGED <<step, target>>
       \/ /\ Confirmed(k) /\ ~Exhausted(k) /\ ~Cooled(k)
          /\ UNCHANGED <<escalated, step, target>>
       \/ /\ Confirmed(k) /\ ~Exhausted(k) /\ Cooled(k)
          /\ step' = "preflight" /\ target' = k
          /\ UNCHANGED escalated

(* _act() for the key looked at, one step per row or call.  After an error  *)
(* or a refusal the loop goes on with the rest of the poll.                 *)

Return == step' = "looking" /\ target' = None

\* The preflight raises, or declines.
Decline ==
    /\ up /\ step = "preflight"
    /\ Return
    /\ UNCHANGED <<clock, log, up, streak, cooling, escalated, todo, polls, crashes>>

\* Eligible: the cooldown is set before the execution, by the recurrences
\* there are now, and no outcome takes it back.
Admit ==
    /\ up /\ step = "preflight"
    /\ Write("preflight", target)
    /\ cooling' = [cooling EXCEPT ![target] =
                      clock + CooldownFor(Recurrences(log, target, clock))]
    /\ step' = "execute"
    /\ UNCHANGED <<clock, up, streak, escalated, todo, target, polls, crashes>>

\* execute() raises before any change, or after the last row of its watch.
ExecutionError ==
    /\ up
    /\ \/ step \in {"execute", "closed"}
       \/ step = "unlanded" /\ "report" \in Faults
    /\ Return
    /\ UNCHANGED <<clock, log, up, streak, cooling, escalated, todo, polls, crashes>>

\* "remediated": the disposition of a refusal, of a change that did not land,
\* of a regression (its revert over), and of a passed watch that still needs a
\* person.
Report ==
    /\ up /\ step \in {"execute", "unlanded", "closed"}
    /\ Write("remediated", target)
    /\ Return
    /\ UNCHANGED <<clock, up, streak, cooling, escalated, todo, polls, crashes>>

\* The follow-up of a change that did not land opens a watch all the same
\* (committed: False).
NotLanded ==
    /\ up /\ step = "execute"
    /\ Write("opened", target)
    /\ step' = "unlanded"
    /\ UNCHANGED <<clock, up, streak, cooling, escalated, todo, target, polls, crashes>>

Commit ==
    /\ up /\ step = "execute"
    /\ log' = Append(log, Entry("committed", target, Len(log) + 1))
    /\ step' = "committed"
    /\ UNCHANGED <<clock, up, streak, cooling, escalated, todo, target, polls, crashes>>

OpenWatch ==
    /\ up /\ step = "committed"
    /\ Write("opened", target)
    /\ step' = "watching"
    /\ UNCHANGED <<clock, up, streak, cooling, escalated, todo, target, polls, crashes>>

CloseWatch ==
    /\ up /\ step = "watching"
    /\ Write("closed", target)
    /\ step' = "closed"
    /\ UNCHANGED <<clock, up, streak, cooling, escalated, todo, target, polls, crashes>>

\* The watch passed and needs nobody: "remediated" and "resolved", and the
\* streak starts anew.  A death between the two rows leaves what a death
\* before both leaves: the watch is closed and nothing is resolved.
Resolve ==
    /\ up /\ step = "closed"
    /\ log' = log \o <<Entry("remediated", target, 0), Entry("resolved", target, 0)>>
    /\ streak' = [streak EXCEPT ![target] = 0]
    /\ Return
    /\ UNCHANGED <<clock, up, cooling, escalated, todo, polls, crashes>>

(* The environment.                                                        *)

Tick ==
    /\ clock < MaxTime
    /\ clock' = clock + 1
    /\ UNCHANGED <<log, up, memory, polls, crashes>>

Crash ==
    /\ up /\ crashes < MaxCrashes
    /\ crashes' = crashes + 1
    /\ up' = FALSE
    /\ streak' = [k \in Keys |-> 0]
    /\ cooling' = [k \in Keys |-> 0]
    /\ escalated' = {} /\ todo' = {}
    /\ Return
    /\ UNCHANGED <<clock, log, polls>>

Next ==
    \/ Announce \/ Ready
    \/ \E found \in SUBSET Keys : Poll(found)
    \/ \E k \in Keys : Consider(k)
    \/ Decline \/ Admit \/ ExecutionError \/ Report
    \/ NotLanded \/ Commit \/ OpenWatch \/ CloseWatch \/ Resolve
    \/ Tick \/ Crash

Spec == Init /\ [][Next]_vars

-----------------------------------------------------------------------------
(* Properties.                                                             *)

Steps == {"looking", "preflight", "execute", "committed", "unlanded",
          "watching", "closed"}

\* Typing; a process that has not reconciled remembers nothing, and a key is
\* at hand exactly while an action is under way.
TypeOK ==
    /\ clock \in 0..MaxTime /\ polls \in 0..MaxPolls /\ crashes \in 0..MaxCrashes
    /\ log \in Seq(Row) /\ up \in BOOLEAN
    /\ streak \in [Keys -> 0..MaxPolls]
    /\ cooling \in [Keys -> Nat]
    /\ escalated \subseteq Keys /\ todo \subseteq Keys
    /\ step \in Steps /\ target \in Keys \cup {None}
    /\ (step = "looking") = (target = None)
    /\ ~up => escalated = {} /\ todo = {} /\ step = "looking"

Between(i, j, k, kinds) ==
    \E m \in i+1..j-1 : log[m].kind \in kinds /\ log[m].key \in {k, None}

\* The watch of the commit at i reached a disposition in its own process.
Closed(i) ==
    \E j \in i+1..Len(log) :
        /\ log[j].key = log[i].key /\ log[j].kind \in TerminalKinds
        /\ ~Between(i, j, log[i].key, {"started", "committed"})

Announcements(i) == {j \in Positions("interrupted", log[i].key) : log[j].watch = i}

Commits == {i \in DOMAIN log : log[i].kind = "committed"}

\* A watch that reached its disposition is never reported as interrupted.
\* (_unfinished_watches; tests_py/test_interrupted_watch.py:126.)
ClosedNeverReported == \A i \in Commits : Closed(i) => Announcements(i) = {}

\* Every change a dead process made is accounted for before a new loop can act:
\* its watch was closed by the process that opened it and is not reported, or it
\* is reported as interrupted, once, however many restarts follow.
\* (_unfinished_watches, reconcile_interrupted_watches.)
WatchAccounted ==
    /\ TypeOK
    /\ ClosedNeverReported
    /\ \A i \in Commits :
        /\ Cardinality(Announcements(i)) <= 1
        /\ up /\ (\E m \in i+1..Len(log) : log[m].kind = "started")
              => Closed(i) \/ Announcements(i) # {}

Admissions(k) == Positions("preflight", k)

\* The sentinel does not act on a key again before its cooldown: within a
\* process, the one that the recurrences at the time of the last action ask
\* for; after an interruption was reported, in whichever process and after
\* however many further restarts, the base cooldown from the report on.
\* (_cooldown_until, recurrence.cooldown_for, the restoring loop at the start.)
Spaced ==
    \A k \in Keys : \A j \in Admissions(k) :
        /\ \A i \in Admissions(k) :
              i < j /\ ~Between(i, j, None, {"started"}) =>
                 log[j].at >= log[i].at
                     + CooldownFor(Recurrences(SubSeq(log, 1, i - 1), k, log[i].at))
        /\ \A i \in Positions("interrupted", k) :
              i < j => log[j].at >= log[i].at + Cooldown

\* A repair that keeps not holding is given up: in any Window there are at most
\* Limit repairs of a key that passed, restarts or not.  (LIMIT, WINDOW_SEC,
\* _history, the escalation in poll_once.)
RepairBudget ==
    \A k \in Keys : \A j \in Positions("resolved", k) :
        Cardinality({i \in Positions("resolved", k) :
                        i <= j /\ log[i].at + Window >= log[j].at}) <= Limit
=============================================================================
