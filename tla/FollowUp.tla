------------------------------- MODULE FollowUp -------------------------------
(***************************************************************************)
(* One change under its watch windows: FollowUp.run() of                   *)
(* core/remediate/followup.py with the commit() of a host action, between  *)
(* the calls execute() makes on the recovery graph (remediation.py).       *)
(*                                                                         *)
(* A round reads every probe once; what a probe finds is the environment's *)
(* choice, so a reading between two probes of a round needs no step of its *)
(* own.  The grace period and the interval are time without state.         *)
(***************************************************************************)
EXTENDS Naturals, Sequences, FiniteSets

CONSTANTS
    Probes, Targets,     \* probes; those of role target, the others are guards
    Threshold,           \* failure_threshold or consecutive_bad of each
    FastRounds,          \* window_seconds / interval_seconds
    StableRounds,        \* stability_window_seconds / interval_seconds
    SuccessConsecutive,  \* success_consecutive
    None

ASSUME BakeInAssumption ==
    /\ Probes # {}                     \* "no probes proves nothing"
    /\ Targets \subseteq Probes
    /\ Threshold \in [Probes -> Nat \ {0}]
    /\ {FastRounds, StableRounds} \subseteq Nat
    /\ SuccessConsecutive \in Nat \ {0}

VARIABLES
    inverse,   \* the action has a revert(); fixed
    pc,
    baseline,  \* the reading of each probe before the change
    written,   \* external: the host command of commit() has run
    stable,    \* the stability window was opened
    bad, good, \* bad_streak, good_streak
    log,       \* history: the rounds of both windows
    after,     \* history: the readings after the revert
    outcome

vars == <<inverse, pc, baseline, written, stable, bad, good, log, after, outcome>>

Readings == {"healthy", "unhealthy", "missing"}
Round == [Probes -> Readings]
Outcomes == {"none", "passed", "reverted", "revert_unverified", "not_committed", "raised"}
Steps == {"start", "opened", "baseline", "commit", "ran", "grace", "fast", "stability",
          "revert", "readback", "done"}

TypeOK ==
    /\ inverse \in BOOLEAN
    /\ pc \in Steps
    /\ baseline \in Round
    /\ written \in BOOLEAN
    /\ stable \in BOOLEAN
    /\ bad \in [Probes -> Nat]
    /\ good \in [Probes -> Nat]
    /\ log \in Seq(Round)
    /\ after \in Round \union {None}
    /\ outcome \in Outcomes

Unread == [p \in Probes |-> "missing"]

Init ==
    /\ inverse \in BOOLEAN
    /\ pc = "start"
    /\ baseline = Unread
    /\ written = FALSE
    /\ stable = FALSE
    /\ bad = [p \in Probes |-> 0]
    /\ good = [p \in Probes |-> 0]
    /\ log = <<>>
    /\ after = None
    /\ outcome = "none"

Watch == <<bad, good, log>>

End(verdict) ==
    /\ pc' = "done"
    /\ outcome' = verdict

-----------------------------------------------------------------------------
(* Before the change                                                       *)

\* graph.open_incident() and graph.precheck(), whose metric is always there.
OpenIncident ==
    /\ pc = "start"
    /\ pc' = "opened"
    /\ UNCHANGED <<inverse, baseline, written, stable, Watch, after, outcome>>

Precheck ==
    /\ pc = "opened"
    /\ pc' = "baseline"
    /\ UNCHANGED <<inverse, baseline, written, stable, Watch, after, outcome>>

\* Telemetry that cannot be read refuses the change.
Baseline ==
    /\ pc = "baseline"
    /\ baseline' \in Round
    /\ IF \E p \in Probes : baseline'[p] = "missing"
       THEN End("not_committed")
       ELSE pc' = "commit" /\ UNCHANGED outcome
    /\ UNCHANGED <<inverse, written, stable, Watch, after>>

\* commit(): its own checks refuse the target, or the host command runs ...
RunCommand ==
    /\ pc = "commit"
    /\ \/ End("raised") /\ UNCHANGED written
       \/ /\ written' = TRUE
          /\ pc' = "ran"
          /\ UNCHANGED outcome
    /\ UNCHANGED <<inverse, baseline, stable, Watch, after>>

\* ... and the readback finds the target recovered or not, or the command timed
\* out and commit() raises.
ReturnFromCommit ==
    /\ pc = "ran"
    /\ \/ pc' = "grace" /\ UNCHANGED outcome
       \/ End("not_committed")
       \/ End("raised")
    /\ UNCHANGED <<inverse, baseline, written, stable, Watch, after>>

-----------------------------------------------------------------------------
(* The windows                                                             *)

OpenFast ==
    /\ pc = "grace"
    /\ pc' = "fast"
    /\ UNCHANGED <<inverse, baseline, written, stable, Watch, after, outcome>>

\* Baseline-relative: a guard that was broken before is not blamed.
Regression(p, reading) ==
    \/ reading = "missing"
    \/ reading = "unhealthy" /\ (p \in Targets \/ baseline[p] = "healthy")

Streak(was, hit) == IF hit THEN was + 1 ELSE 0

\* One pass over the probes; a streak at its threshold ends the window.
SampleRound(last) ==
    /\ Len(log) < last
    /\ \E r \in Round :
         /\ log' = Append(log, r)
         /\ bad' = [p \in Probes |-> Streak(bad[p], Regression(p, r[p]))]
         /\ good' = [p \in Probes |-> Streak(good[p], r[p] = "healthy")]
    /\ pc' = IF \E p \in Probes : bad'[p] >= Threshold[p] THEN "revert" ELSE pc
    /\ UNCHANGED <<inverse, baseline, written, stable, after, outcome>>

SampleFast == pc = "fast" /\ SampleRound(FastRounds)
SampleStable == pc = "stability" /\ SampleRound(FastRounds + StableRounds)

Unrecovered == {p \in Targets : good[p] < 1}
Unstable == {p \in Probes : /\ p \in Targets \/ baseline[p] = "healthy"
                            /\ good[p] < SuccessConsecutive}

CloseFastAfresh ==
    /\ pc = "fast"
    /\ Len(log) = FastRounds
    /\ IF Unrecovered # {}
       THEN pc' = "revert" /\ UNCHANGED <<stable, bad>>
       ELSE pc' = "stability" /\ stable' = TRUE /\ bad' = [p \in Probes |-> 0]
    /\ UNCHANGED <<inverse, baseline, written, good, log, after, outcome>>

CloseFastPassed ==
    /\ pc = "fast"
    /\ Len(log) = FastRounds
    /\ IF Unrecovered # {} THEN pc' = "revert" /\ UNCHANGED outcome ELSE End("passed")
    /\ UNCHANGED <<inverse, baseline, written, stable, Watch, after>>

\* A target that is not healthy at the end of the fast window is a regression;
\* otherwise the second window opens, with the streaks of the first.
CloseFast ==
    /\ pc = "fast"
    /\ Len(log) = FastRounds
    /\ IF Unrecovered # {}
       THEN pc' = "revert" /\ UNCHANGED stable
       ELSE pc' = "stability" /\ stable' = TRUE
    /\ UNCHANGED <<inverse, baseline, written, Watch, after, outcome>>

\* Without a stability window there is nothing more to ask.
CloseStability ==
    /\ pc = "stability"
    /\ Len(log) = FastRounds + StableRounds
    /\ IF StableRounds > 0 /\ Unstable # {}
       THEN pc' = "revert" /\ UNCHANGED outcome
       ELSE End("passed")
    /\ UNCHANGED <<inverse, baseline, written, stable, Watch, after>>

-----------------------------------------------------------------------------
(* The revert                                                              *)

RevertWithInverse ==
    /\ pc = "revert"
    /\ inverse
    /\ \/ pc' = "readback" /\ UNCHANGED outcome
       \/ End("revert_unverified")
    /\ UNCHANGED <<inverse, baseline, written, stable, Watch, after>>

\* An action without inverse, or a revert() that raises, goes to a person.
Revert ==
    /\ pc = "revert"
    /\ \/ inverse /\ pc' = "readback" /\ UNCHANGED outcome
       \/ End("revert_unverified")
    /\ UNCHANGED <<inverse, baseline, written, stable, Watch, after>>

\* Reverts are verified: read again, and compared with the baseline.
Readback ==
    /\ pc = "readback"
    /\ after' \in Round
    /\ End(IF \A p \in Probes : /\ after'[p] # "missing"
                                /\ baseline[p] = "healthy" => after'[p] = "healthy"
           THEN "reverted" ELSE "revert_unverified")
    /\ UNCHANGED <<inverse, baseline, written, stable, Watch>>

Next ==
    \/ OpenIncident \/ Precheck \/ Baseline \/ RunCommand \/ ReturnFromCommit
    \/ OpenFast \/ SampleFast \/ CloseFast \/ SampleStable \/ CloseStability
    \/ Revert \/ Readback

Spec == Init /\ [][Next]_vars

\* run() is one thread whose probes and commands have timeouts.
FairSpec == Spec /\ WF_vars(Next)

-----------------------------------------------------------------------------
(* What the follow-up promises, over the rounds it has really taken.       *)

Regressed(p, i) == Regression(p, log[i][p])

\* Probe p has had its threshold of consecutive regressions by round n.
Tripped(p, n) ==
    \E i \in 1 .. n : /\ i + Threshold[p] <= n + 1
                      /\ \A j \in i .. i + Threshold[p] - 1 : Regressed(p, j)

HealthyLast(p, k, n) == k <= n /\ \A j \in n - k + 1 .. n : log[j][p] = "healthy"

Proven ==
    /\ Len(log) = FastRounds + StableRounds
    /\ \A p \in Probes : ~Tripped(p, Len(log))
    /\ \A p \in Targets : HealthyLast(p, 1, FastRounds)
    /\ StableRounds > 0 =>
         \A p \in Probes : p \in Targets \/ baseline[p] = "healthy"
                             => HealthyLast(p, SuccessConsecutive, Len(log))

\* A verdict says what the readings say: "passed" exactly when both windows were
\* taken in full, no probe regressed for its threshold in a row - also across
\* the two windows - and what must be healthy was so to the end; "reverted"
\* only when the readings after the revert are as good as the baseline.
Verdict ==
    /\ outcome = "passed" => Proven
    /\ outcome \in {"reverted", "revert_unverified"} => ~Proven
    /\ outcome = "reverted" =>
         \A p \in Probes : /\ after[p] # "missing"
                           /\ baseline[p] = "healthy" => after[p] = "healthy"
VerdictIsProven == TypeOK /\ Verdict

\* "The watcher stops early the moment a regression appears": it takes no
\* round after the one in which a probe has reached its threshold.
StopsAtOnce == \A p \in Probes : ~Tripped(p, IF log = <<>> THEN 0 ELSE Len(log) - 1)

\* Every run comes to a verdict.
Concludes == <>(pc = "done")

=============================================================================
