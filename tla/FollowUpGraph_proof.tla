-------------------------- MODULE FollowUpGraph_proof --------------------------
(***************************************************************************)
(* The safety of a follow-up, for all probes, thresholds and windows: its  *)
(* types, and that the streak counters the code decides by say of the      *)
(* rounds really taken what the properties ask of them.  Then that every   *)
(* follow-up is a history the recovery graph allows.  Last, what the graph *)
(* promises of such histories: the safety of RecoveryGraph itself.         *)
(***************************************************************************)
EXTENDS FollowUpGraph, RecoveryIncident, SequenceTheorems, FiniteSetTheorems, TLAPS

Before == {"start", "opened", "baseline", "commit", "ran", "grace"}

\* A counter is the length of the run of hits that ends the log.
BadRun(p) ==
    /\ bad[p] \in 0 .. Len(log)
    /\ \A j \in Len(log) - bad[p] + 1 .. Len(log) : Regressed(p, j)
    /\ bad[p] < Len(log) => ~Regressed(p, Len(log) - bad[p])

GoodRun(p) ==
    /\ good[p] \in 0 .. Len(log)
    /\ \A j \in Len(log) - good[p] + 1 .. Len(log) : log[j][p] = "healthy"
    /\ good[p] < Len(log) => log[Len(log) - good[p]][p] # "healthy"

Streaks == \A p \in Probes : BadRun(p) /\ GoodRun(p)

\* What each step of the run knows of the rounds.
Stage ==
    /\ pc \in Before => log = <<>> /\ \A p \in Probes : bad[p] = 0 /\ good[p] = 0
    /\ pc = "fast" => Len(log) <= FastRounds
    /\ pc = "stability" => /\ Len(log) \in FastRounds .. FastRounds + StableRounds
                           /\ \A p \in Targets : HealthyLast(p, 1, FastRounds)
    /\ pc \in {"fast", "stability"} => \A p \in Probes : ~Tripped(p, Len(log))
    /\ pc \in {"revert", "readback"} => ~Proven
    /\ pc # "done" => outcome = "none"

Inv == TypeOK /\ Streaks /\ Stage /\ StopsAtOnce /\ Verdict

-----------------------------------------------------------------------------
(* Streaks and the log                                                     *)

\* A streak at its threshold is a trip ...
LEMMA StreakTrips ==
    ASSUME TypeOK, NEW p \in Probes, BadRun(p), bad[p] >= Threshold[p]
    PROVE  Tripped(p, Len(log))
  <1>1. Threshold[p] \in Nat \ {0} /\ Len(log) \in Nat /\ bad[p] \in Nat
    BY BakeInAssumption DEF TypeOK
  <1> DEFINE i == Len(log) - Threshold[p] + 1
  <1>2. i \in 1 .. Len(log) /\ i + Threshold[p] <= Len(log) + 1
    BY <1>1 DEF BadRun
  <1>3. \A j \in i .. i + Threshold[p] - 1 : j \in Len(log) - bad[p] + 1 .. Len(log)
    BY <1>1
  <1>4. \A j \in i .. i + Threshold[p] - 1 : Regressed(p, j)
    BY <1>3 DEF BadRun
  <1> HIDE DEF i
  <1> QED BY <1>2, <1>4 DEF Tripped

\* ... and a trip that was not one a round earlier is a streak at its threshold.
LEMMA TripStreaks ==
    ASSUME TypeOK, NEW p \in Probes, BadRun(p), log # <<>>,
           Tripped(p, Len(log)), ~Tripped(p, Len(log) - 1)
    PROVE  bad[p] >= Threshold[p]
  <1>1. Threshold[p] \in Nat \ {0} /\ Len(log) \in Nat /\ bad[p] \in Nat
    BY BakeInAssumption DEF TypeOK
  <1>2. PICK i \in 1 .. Len(log) : /\ i + Threshold[p] <= Len(log) + 1
                                   /\ \A j \in i .. i + Threshold[p] - 1 : Regressed(p, j)
    BY DEF Tripped
  <1>3. i + Threshold[p] = Len(log) + 1
    <2> SUFFICES ASSUME i + Threshold[p] # Len(log) + 1 PROVE FALSE
      OBVIOUS
    <2>1. i \in 1 .. Len(log) - 1 /\ i + Threshold[p] <= Len(log) - 1 + 1
      BY <1>1, <1>2
    <2> QED BY <1>2, <2>1 DEF Tripped
  <1>4. CASE bad[p] < Threshold[p]
    <2>1. bad[p] < Len(log) /\ Len(log) - bad[p] \in i .. i + Threshold[p] - 1
      BY <1>1, <1>2, <1>3, <1>4
    <2> QED BY <1>2, <2>1 DEF BadRun
  <1> QED BY <1>1, <1>4

StreaksTell ==
    /\ \A p \in Probes : bad[p] >= Threshold[p] => Tripped(p, Len(log))
    /\ \A p \in Probes : log # <<>> /\ Tripped(p, Len(log)) /\ ~Tripped(p, Len(log) - 1)
                           => bad[p] >= Threshold[p]

LEMMA StreaksDecide == TypeOK /\ Streaks => StreaksTell
  BY StreakTrips, TripStreaks DEF Streaks, StreaksTell

\* A target or a sound guard is unstable exactly when its last readings are not
\* all healthy.
LEMMA HealthyStreak ==
    ASSUME TypeOK, NEW p \in Probes, GoodRun(p), NEW k \in Nat \ {0}
    PROVE  good[p] >= k <=> HealthyLast(p, k, Len(log))
  <1>1. Len(log) \in Nat /\ good[p] \in Nat
    BY DEF TypeOK
  <1>2. ASSUME good[p] >= k PROVE HealthyLast(p, k, Len(log))
    BY <1>1, <1>2 DEF HealthyLast, GoodRun
  <1>3. ASSUME good[p] < k, HealthyLast(p, k, Len(log)) PROVE FALSE
    <2>1. good[p] < Len(log) /\ Len(log) - good[p] \in Len(log) - k + 1 .. Len(log)
      BY <1>1, <1>3 DEF HealthyLast
    <2> QED BY <1>3, <2>1 DEF HealthyLast, GoodRun
  <1> QED BY <1>1, <1>2, <1>3

\* One more round leaves what was said of the rounds before it.
LEMMA Longer ==
    ASSUME TypeOK, NEW r \in Round, log' = Append(log, r), baseline' = baseline
    PROVE  /\ Len(log') = Len(log) + 1 /\ Len(log) \in Nat /\ log'[Len(log')] = r
           /\ \A j \in 1 .. Len(log) : log'[j] = log[j]
           /\ \A p \in Probes : \A j \in 1 .. Len(log) : Regressed(p, j)' <=> Regressed(p, j)
           /\ \A p \in Probes : \A j \in {Len(log) + 1} : Regressed(p, j)' <=> Regression(p, r[p])
  <1>1. /\ Len(log') = Len(log) + 1 /\ Len(log) \in Nat /\ log'[Len(log')] = r
        /\ \A j \in 1 .. Len(log) : log'[j] = log[j]
    BY DEF TypeOK
  <1>2. \A p \in Probes, j \in Nat : Regressed(p, j)' <=> Regression(p, log'[j][p])
    BY DEF Regressed, Regression
  <1>3. \A p \in Probes, j \in 1 .. Len(log) : Regression(p, log'[j][p]) <=> Regressed(p, j)
    BY <1>1 DEF Regressed
  <1> QED BY <1>1, <1>2, <1>3

LEMMA SameTrips ==
    ASSUME TypeOK, NEW r \in Round, log' = Append(log, r), baseline' = baseline,
           NEW p \in Probes, NEW n \in 0 .. Len(log)
    PROVE  Tripped(p, n)' <=> Tripped(p, n)
  <1>1. Threshold[p] \in Nat \ {0} /\ Len(log) \in Nat
    BY BakeInAssumption DEF TypeOK
  <1>2. \A i \in 1 .. n : i + Threshold[p] <= n + 1
            => \A j \in i .. i + Threshold[p] - 1 : j \in 1 .. Len(log)
    BY <1>1
  <1>3. \A j \in 1 .. Len(log) : Regressed(p, j)' <=> Regressed(p, j)
    BY Longer
  <1>4. \A i \in 1 .. n : i + Threshold[p] <= n + 1
            => ((\A j \in i .. i + Threshold[p] - 1 : Regressed(p, j)')
                <=> \A j \in i .. i + Threshold[p] - 1 : Regressed(p, j))
    BY <1>2, <1>3
  <1>5. Tripped(p, n)' <=> \E i \in 1 .. n : /\ i + Threshold[p] <= n + 1
                              /\ \A j \in i .. i + Threshold[p] - 1 : Regressed(p, j)'
    BY DEF Tripped
  <1> QED BY <1>4, <1>5 DEF Tripped

LEMMA StreaksKept ==
    ASSUME TypeOK, Streaks, NEW r \in Round, log' = Append(log, r), baseline' = baseline,
           bad' = [p \in Probes |-> Streak(bad[p], Regression(p, r[p]))],
           good' = [p \in Probes |-> Streak(good[p], r[p] = "healthy")]
    PROVE  Streaks'
  <1> SUFFICES ASSUME NEW p \in Probes PROVE BadRun(p)' /\ GoodRun(p)'
    BY DEF Streaks
  <1>1. /\ Len(log') = Len(log) + 1 /\ Len(log) \in Nat /\ log'[Len(log')] = r
        /\ \A j \in 1 .. Len(log) : log'[j] = log[j]
        /\ \A j \in 1 .. Len(log) : Regressed(p, j)' <=> Regressed(p, j)
        /\ \A j \in {Len(log) + 1} : Regressed(p, j)' <=> Regression(p, r[p])
    BY Longer
  <1>2. BadRun(p) /\ GoodRun(p)
    BY DEF Streaks
  <1>3. BadRun(p)'
    <2>1. CASE Regression(p, r[p])
      <3>1. bad'[p] = bad[p] + 1
        BY <2>1 DEF Streak
      <3>2. Len(log') - bad'[p] + 1 = Len(log) - bad[p] + 1 /\ Len(log') - bad'[p] = Len(log) - bad[p]
        BY <1>1, <1>2, <3>1 DEF BadRun
      <3>3. \A j \in Len(log) - bad[p] + 1 .. Len(log) + 1 : Regressed(p, j)'
        BY <1>1, <1>2, <2>1 DEF BadRun
      <3>4. \A j \in {Len(log) - bad[p]} : bad[p] < Len(log) => ~Regressed(p, j)'
        BY <1>1, <1>2 DEF BadRun
      <3> QED BY <1>1, <1>2, <3>1, <3>2, <3>3, <3>4 DEF BadRun
    <2>2. CASE ~Regression(p, r[p])
      <3>1. bad'[p] = 0
        BY <2>2 DEF Streak
      <3>2. Len(log') - bad'[p] = Len(log) + 1
        BY <1>1, <3>1
      <3> QED BY <1>1, <2>2, <3>1, <3>2 DEF BadRun
    <2> QED BY <2>1, <2>2
  <1>4. GoodRun(p)'
    <2>1. CASE r[p] = "healthy"
      <3>1. good'[p] = good[p] + 1
        BY <2>1 DEF Streak
      <3> QED BY <1>1, <1>2, <2>1, <3>1 DEF GoodRun
    <2>2. CASE r[p] # "healthy"
      <3>1. good'[p] = 0
        BY <2>2 DEF Streak
      <3> QED BY <1>1, <2>2, <3>1 DEF GoodRun
    <2> QED BY <2>1, <2>2
  <1> QED BY <1>3, <1>4

-----------------------------------------------------------------------------
(* The steps                                                               *)

\* What the windows say stays as it is in a step that takes no round and does
\* not read the baseline again.
LEMMA Unwatched ==
    ASSUME UNCHANGED <<log, baseline>>
    PROVE  /\ Proven' <=> Proven
           /\ StopsAtOnce' <=> StopsAtOnce
           /\ \A p \in Probes : Tripped(p, Len(log))' <=> Tripped(p, Len(log))
           /\ \A p \in Targets : HealthyLast(p, 1, FastRounds)' <=> HealthyLast(p, 1, FastRounds)
  BY DEF Proven, StopsAtOnce, Tripped, Regressed, Regression, HealthyLast

LEMMA TypeStep == TypeOK /\ [Next]_vars => TypeOK'
  <1> SUFFICES ASSUME TypeOK, [Next]_vars PROVE TypeOK'
    OBVIOUS
  <1> USE DEF TypeOK, Outcomes, Steps
  <1>1. ASSUME NEW last \in Nat, SampleRound(last), pc \in {"fast", "stability"} PROVE TypeOK'
    <2>1. PICK r \in Round :
            /\ log' = Append(log, r)
            /\ bad' = [p \in Probes |-> Streak(bad[p], Regression(p, r[p]))]
            /\ good' = [p \in Probes |-> Streak(good[p], r[p] = "healthy")]
      BY <1>1 DEF SampleRound
    <2>2. log' \in Seq(Round)
      BY <2>1
    <2>3. bad' \in [Probes -> Nat] /\ good' \in [Probes -> Nat]
      BY <2>1 DEF Streak
    <2>4. pc' \in Steps
      BY <1>1 DEF SampleRound
    <2> QED BY <1>1, <2>2, <2>3, <2>4 DEF SampleRound
  <1>2. FastRounds \in Nat /\ FastRounds + StableRounds \in Nat
    BY BakeInAssumption
  <1>3. CASE SampleFast \/ SampleStable
    BY <1>1, <1>2, <1>3 DEF SampleFast, SampleStable
  <1>4. CASE OpenIncident \/ Precheck \/ Baseline \/ RunCommand \/ ReturnFromCommit
    BY <1>4 DEF OpenIncident, Precheck, Baseline, RunCommand, ReturnFromCommit, End, Watch
  <1>5. CASE OpenFast \/ CloseFast \/ CloseStability
    BY <1>5 DEF OpenFast, CloseFast, CloseStability, End, Watch
  <1>6. CASE Revert \/ Readback
    BY <1>6 DEF Revert, Readback, End, Watch
  <1>7. CASE UNCHANGED vars
    BY <1>7 DEF vars
  <1> QED BY <1>3, <1>4, <1>5, <1>6, <1>7 DEF Next

LEMMA InitInv == Init => Inv
  <1> SUFFICES ASSUME Init PROVE Inv
    OBVIOUS
  <1> USE DEF Init
  <1>0. Unread \in Round /\ log \in Seq(Round)
    BY DEF Unread, Round, Readings
  <1>1. TypeOK
    BY <1>0 DEF TypeOK, Outcomes, Steps
  <1>2. Streaks
    BY DEF Streaks, BadRun, GoodRun
  <1>3. Stage
    BY DEF Stage, Before
  <1>4. StopsAtOnce
    BY DEF StopsAtOnce, Tripped
  <1> QED BY <1>1, <1>2, <1>3, <1>4 DEF Inv, Verdict

\* A round of either window.
LEMMA RoundStep ==
    ASSUME Inv, TypeOK', NEW last \in Nat, SampleRound(last),
           \/ pc = "fast" /\ last = FastRounds
           \/ pc = "stability" /\ last = FastRounds + StableRounds
    PROVE  Inv'
  <1> USE DEF Inv
  <1>1. PICK r \in Round :
          /\ log' = Append(log, r)
          /\ bad' = [p \in Probes |-> Streak(bad[p], Regression(p, r[p]))]
          /\ good' = [p \in Probes |-> Streak(good[p], r[p] = "healthy")]
    BY DEF SampleRound
  <1>2. /\ Len(log) < last /\ baseline' = baseline /\ outcome' = outcome
        /\ pc' = IF \E p \in Probes : bad'[p] >= Threshold[p] THEN "revert" ELSE pc
    BY DEF SampleRound
  <1>3. Streaks'
    BY <1>1, <1>2, StreaksKept
  <1>4. TypeOK' /\ Streaks' => StreaksTell'
    BY StreaksDecide, PTL
  <1>5. Len(log') = Len(log) + 1 /\ Len(log) \in Nat /\ log' # <<>>
    BY <1>1, <1>2, Longer DEF TypeOK
  <1>6. \A p \in Probes : ~Tripped(p, Len(log))
    BY DEF Stage
  <1>7. \A p \in Probes : \A n \in 0 .. Len(log) : Tripped(p, n)' <=> Tripped(p, n)
    BY <1>1, <1>2, SameTrips
  <1>8. \A p \in Probes : ~Tripped(p, Len(log) - 1)'
    <2> SUFFICES ASSUME NEW p \in Probes PROVE ~Tripped(p, Len(log) - 1)'
      OBVIOUS
    <2>1. \A n : n = Len(log) => ~Tripped(p, n)'
      BY <1>5, <1>6, <1>7
    <2> QED BY <1>5, <2>1
  <1>9. StopsAtOnce'
    BY <1>5, <1>8 DEF StopsAtOnce
  <1>10. CASE \E p \in Probes : bad'[p] >= Threshold[p]
    <2>1. PICK p \in Probes : bad'[p] >= Threshold[p]
      BY <1>10
    <2>2. Tripped(p, Len(log))'
      BY <1>3, <1>4, <2>1 DEF StreaksTell
    <2>3. ~Proven'
      BY <2>2 DEF Proven
    <2>4. Stage'
      BY <1>2, <1>10, <2>3 DEF Stage, Before
    <2> QED BY <1>2, <1>3, <1>9, <1>10, <2>3, <2>4 DEF Verdict, Stage
  <1>11. CASE \A p \in Probes : ~(bad'[p] >= Threshold[p])
    <2>1. pc' = pc
      BY <1>2, <1>11
    <2>2. \A p \in Probes : ~Tripped(p, Len(log))'
      BY <1>3, <1>5, <1>4, <1>8, <1>11 DEF StreaksTell
    <2>3. pc = "stability" => \A p \in Targets : HealthyLast(p, 1, FastRounds)'
      <3> SUFFICES ASSUME pc = "stability", NEW p \in Targets PROVE HealthyLast(p, 1, FastRounds)'
        OBVIOUS
      <3>1. HealthyLast(p, 1, FastRounds) /\ FastRounds \in 0 .. Len(log)
        BY BakeInAssumption, <1>5 DEF Stage
      <3>2. \A j \in 1 .. Len(log) : log'[j] = log[j]
        BY <1>1, <1>2, Longer
      <3> QED BY BakeInAssumption, <1>5, <3>1, <3>2 DEF HealthyLast
    <2>4. Stage'
      BY <1>2, <1>5, <2>1, <2>2, <2>3, BakeInAssumption DEF Stage, Before
    <2> QED BY <1>2, <1>3, <1>9, <2>1, <2>4 DEF Verdict, Stage
  <1> QED BY <1>10, <1>11

LEMMA NextInv == Inv /\ [Next]_vars => Inv'
  <1> SUFFICES ASSUME Inv, [Next]_vars PROVE Inv'
    OBVIOUS
  <1>0. TypeOK /\ Streaks /\ Stage /\ StopsAtOnce /\ Verdict
    BY DEF Inv
  <1>1. TypeOK'
    BY <1>0, TypeStep
  <1>2. FastRounds \in Nat /\ StableRounds \in Nat /\ FastRounds + StableRounds \in Nat
        /\ SuccessConsecutive \in Nat \ {0} /\ Targets \subseteq Probes /\ Len(log) \in Nat
    BY <1>0, BakeInAssumption DEF TypeOK
  \* A step without a round needs to answer for its stage and its verdict only.
  <1>3. ASSUME UNCHANGED <<log, bad, good, baseline>>, Stage', Verdict' PROVE Inv'
    <2>1. Streaks'
      BY <1>0, <1>3 DEF Streaks, BadRun, GoodRun, Regressed, Regression
    <2>2. StopsAtOnce'
      BY <1>0, <1>3, Unwatched
    <2> QED BY <1>1, <1>3, <2>1, <2>2 DEF Inv
  <1>4. CASE OpenIncident \/ Precheck \/ RunCommand \/ ReturnFromCommit
    <2>1. UNCHANGED <<log, bad, good, baseline>>
      BY <1>4 DEF OpenIncident, Precheck, RunCommand, ReturnFromCommit, Watch
    <2>2. Stage' /\ Verdict'
      BY <1>0, <1>4 DEF OpenIncident, Precheck, RunCommand, ReturnFromCommit, Watch, End,
                        Stage, Before, Verdict
    <2> QED BY <1>3, <2>1, <2>2
  <1>5. CASE Baseline
    <2>1. log = <<>> /\ log' = <<>> /\ UNCHANGED <<bad, good>> /\ \A p \in Probes : bad[p] = 0 /\ good[p] = 0
      BY <1>0, <1>5 DEF Baseline, Watch, Stage, Before
    <2>2. Streaks' /\ StopsAtOnce'
      BY <2>1 DEF Streaks, BadRun, GoodRun, StopsAtOnce, Tripped
    <2>3. Stage' /\ Verdict'
      BY <1>0, <1>5, <2>1 DEF Baseline, Watch, End, Stage, Before, Verdict
    <2> QED BY <1>1, <2>2, <2>3 DEF Inv
  <1>6. CASE OpenFast
    <2>1. UNCHANGED <<log, bad, good, baseline>> /\ log = <<>> /\ log' = <<>>
      BY <1>0, <1>6 DEF OpenFast, Watch, Stage, Before
    <2>2. \A p \in Probes : ~Tripped(p, Len(log))'
      BY <2>1 DEF Tripped
    <2>3. Stage' /\ Verdict'
      BY <1>0, <1>2, <1>6, <2>1, <2>2 DEF OpenFast, Watch, Stage, Before, Verdict
    <2> QED BY <1>3, <2>1, <2>3
  <1>7. CASE SampleFast \/ SampleStable
    BY <1>1, <1>2, <1>7, RoundStep DEF SampleFast, SampleStable
  <1>8. CASE CloseFast
    <2>1. /\ UNCHANGED <<log, bad, good, baseline, outcome>> /\ pc = "fast" /\ Len(log) = FastRounds
          /\ outcome = "none"
      BY <1>0, <1>8 DEF CloseFast, Watch, Stage
    <2>2. CASE Unrecovered # {}
      <3>1. PICK p \in Targets : good[p] < 1
        BY <2>2 DEF Unrecovered
      <3>2. ~HealthyLast(p, 1, FastRounds)
        BY <1>0, <1>2, <2>1, <3>1, HealthyStreak DEF Streaks, GoodRun
      <3>3. ~Proven'
        BY <2>1, <3>2, Unwatched DEF Proven
      <3>4. pc' = "revert"
        BY <1>8, <2>2 DEF CloseFast
      <3>5. Stage' /\ Verdict'
        BY <2>1, <3>3, <3>4 DEF Stage, Before, Verdict
      <3> QED BY <1>3, <2>1, <3>5
    <2>3. CASE Unrecovered = {}
      <3>1. \A p \in Targets : HealthyLast(p, 1, FastRounds)
        <4> SUFFICES ASSUME NEW p \in Targets PROVE HealthyLast(p, 1, FastRounds)
          OBVIOUS
        <4>1. good[p] >= 1
          BY <1>0, <1>2, <2>3 DEF Unrecovered, TypeOK
        <4> QED BY <1>0, <1>2, <2>1, <4>1, HealthyStreak DEF Streaks
      <3>2. /\ \A p \in Targets : HealthyLast(p, 1, FastRounds)'
            /\ \A p \in Probes : ~Tripped(p, Len(log))'
        BY <1>0, <2>1, <3>1, Unwatched DEF Stage
      <3>3. pc' = "stability"
        BY <1>8, <2>3 DEF CloseFast
      <3>4. Stage' /\ Verdict'
        BY <1>2, <2>1, <3>2, <3>3 DEF Stage, Before, Verdict
      <3> QED BY <1>3, <2>1, <3>4
    <2> QED BY <2>2, <2>3
  <1>9. CASE CloseStability
    <2>1. /\ UNCHANGED <<log, bad, good, baseline>> /\ pc = "stability" /\ outcome = "none"
          /\ Len(log) = FastRounds + StableRounds
      BY <1>0, <1>9 DEF CloseStability, Watch, Stage
    <2>2. \A p \in Probes : good[p] >= SuccessConsecutive
                             <=> HealthyLast(p, SuccessConsecutive, Len(log))
      BY <1>0, <1>2, HealthyStreak DEF Streaks
    <2>3. CASE StableRounds > 0 /\ Unstable # {}
      <3>1. PICK p \in Probes : /\ p \in Targets \/ baseline[p] = "healthy"
                                /\ good[p] < SuccessConsecutive
        BY <2>3 DEF Unstable
      <3>2. ~HealthyLast(p, SuccessConsecutive, Len(log))
        BY <1>0, <1>2, <2>2, <3>1 DEF TypeOK
      <3>3. ~Proven'
        BY <2>1, <2>3, <3>1, <3>2, Unwatched DEF Proven
      <3>4. pc' = "revert" /\ outcome' = "none"
        BY <1>9, <2>1, <2>3 DEF CloseStability
      <3>5. Stage' /\ Verdict'
        BY <2>1, <3>3, <3>4 DEF Stage, Before, Verdict
      <3> QED BY <1>3, <2>1, <3>5
    <2>4. CASE ~(StableRounds > 0 /\ Unstable # {})
      <3>1. StableRounds > 0 => \A p \in Probes : p \in Targets \/ baseline[p] = "healthy"
                                   => HealthyLast(p, SuccessConsecutive, Len(log))
        <4> SUFFICES ASSUME StableRounds > 0, NEW p \in Probes, p \in Targets \/ baseline[p] = "healthy"
                     PROVE  HealthyLast(p, SuccessConsecutive, Len(log))
          OBVIOUS
        <4>1. ~(good[p] < SuccessConsecutive)
          BY <2>4 DEF Unstable
        <4> QED BY <1>0, <1>2, <2>2, <4>1 DEF TypeOK
      <3>2. Proven
        BY <1>0, <2>1, <3>1 DEF Proven, Stage
      <3>3. Proven' /\ pc' = "done" /\ outcome' = "passed"
        BY <1>9, <2>1, <2>4, <3>2, Unwatched DEF CloseStability, End
      <3>4. Stage' /\ Verdict'
        BY <3>3 DEF Stage, Before, Verdict
      <3> QED BY <1>3, <2>1, <3>4
    <2> QED BY <2>3, <2>4
  <1>10. CASE Revert \/ Readback
    <2>1. UNCHANGED <<log, bad, good, baseline>> /\ pc \in {"revert", "readback"} /\ ~Proven
      BY <1>0, <1>10 DEF Revert, Readback, Watch, Stage
    <2>2. ~Proven'
      BY <2>1, Unwatched
    <2>3. Stage' /\ Verdict'
      BY <1>0, <1>10, <2>1, <2>2 DEF Revert, Readback, End, Stage, Before, Verdict
    <2> QED BY <1>3, <2>1, <2>3
  <1>11. CASE UNCHANGED vars
    <2>1. UNCHANGED <<log, bad, good, baseline, pc, outcome, after>>
      BY <1>11 DEF vars
    <2>2. Verdict'
      BY <1>0, <2>1, Unwatched DEF Verdict
    <2>3. Stage'
      BY <1>0, <1>2, <2>1, Unwatched DEF Stage
    <2> QED BY <1>3, <2>1, <2>2, <2>3
  <1> QED BY <1>4, <1>5, <1>6, <1>7, <1>8, <1>9, <1>10, <1>11 DEF Next

-----------------------------------------------------------------------------
(* The theorems                                                            *)

LEMMA Invariance == Spec => []Inv
  BY InitInv, NextInv, PTL DEF Spec

\* Every reachable state of a follow-up has its types.
THEOREM TypeCorrect == Spec => []TypeOK
  <1>1. Inv => TypeOK
    BY DEF Inv
  <1> QED BY <1>1, Invariance, PTL

\* For all probes, thresholds and windows the verdict is what the readings say:
\* a run passes exactly when no probe regressed for its threshold in a row, in
\* either window or across both, and what must be healthy was so to the end.
THEOREM Verdicts == Spec => []VerdictIsProven
  <1>1. Inv => VerdictIsProven
    BY DEF Inv, VerdictIsProven
  <1> QED BY <1>1, Invariance, PTL

\* No follow-up takes a round after the one in which a probe reached its threshold.
THEOREM Early == Spec => []StopsAtOnce
  <1>1. Inv => StopsAtOnce
    BY DEF Inv
  <1> QED BY <1>1, Invariance, PTL

-----------------------------------------------------------------------------
(* The recovery graph.                                                     *)

\* The command runs at its own step, and a run has no outcome before its end.
Phases ==
    /\ pc \in Steps /\ outcome \in Outcomes
    /\ pc # "done" <=> outcome = "none"
    /\ pc \in {"start", "opened", "baseline", "commit"} => written = FALSE
    /\ pc = "ran" => written = TRUE
    /\ pc \in Before => stable = FALSE
    /\ pc = "fast" => stable = FALSE
    /\ pc = "stability" => stable = TRUE
    /\ written \in BOOLEAN /\ stable \in BOOLEAN

LEMMA PhasesInit == Init => Phases
  BY DEF Init, Phases, Before, Steps, Outcomes

LEMMA PhasesStep == Phases /\ [Next]_vars => Phases'
  <1> SUFFICES ASSUME Phases, [Next]_vars PROVE Phases'
    OBVIOUS
  <1> USE DEF Phases, Before, Steps, Outcomes
  <1>1. CASE OpenIncident \/ Precheck \/ Baseline \/ RunCommand \/ ReturnFromCommit
    BY <1>1 DEF OpenIncident, Precheck, Baseline, RunCommand, ReturnFromCommit, End, Watch
  <1>2. CASE OpenFast \/ SampleFast \/ SampleStable
    BY <1>2 DEF OpenFast, SampleFast, SampleStable, SampleRound, Watch
  <1>3. CASE CloseFast \/ CloseStability \/ Revert \/ Readback
    BY <1>3 DEF CloseFast, CloseStability, Revert, Readback, End, Watch
  <1>4. CASE UNCHANGED vars
    BY <1>4 DEF vars
  <1> QED BY <1>1, <1>2, <1>3, <1>4 DEF Next

-----------------------------------------------------------------------------
(* The history and its audit                                               *)

Names == {Path[i] : i \in 1 .. 5} \union {"passed", "reverted", "escalated"}
Row(to) == [action |-> "action", to |-> to]
Audit(h) == [i \in 1 .. Len(h) |-> Row(h[i])]
StateOf(h) == IF h = <<>> THEN "absent" ELSE h[Len(h)]

LEMMA AuditGrows ==
    ASSUME NEW h \in Seq(Names), NEW s \in Names
    PROVE  /\ Audit(Append(h, s)) = Append(Audit(h), Row(s))
           /\ StateOf(Append(h, s)) = s
  <1> DEFINE Rows == {Row(x) : x \in Names}
  <1>1. /\ Append(h, s) \in Seq(Names) /\ Append(h, s) # <<>>
        /\ Len(Append(h, s)) = Len(h) + 1 /\ Len(h) \in Nat
        /\ Append(h, s)[Len(h) + 1] = s
        /\ \A i \in 1 .. Len(h) : Append(h, s)[i] = h[i]
    BY AppendProperties, LenProperties
  <1>2. StateOf(Append(h, s)) = s
    BY <1>1 DEF StateOf
  <1>3. ASSUME NEW g \in Seq(Names)
        PROVE  /\ Audit(g) \in Seq(Rows) /\ Len(Audit(g)) = Len(g)
               /\ \A i \in 1 .. Len(g) : Audit(g)[i] = Row(g[i])
    <2>1. Len(g) \in Nat /\ \A i \in 1 .. Len(g) : Row(g[i]) \in Rows
      BY ElementOfSeq, LenProperties
    <2>2. Audit(g) \in [1 .. Len(g) -> Rows]
      BY <2>1 DEF Audit
    <2> QED BY <2>1, <2>2, SeqDef DEF Audit
  <1>4. /\ Append(Audit(h), Row(s)) \in Seq(Rows)
        /\ Len(Append(Audit(h), Row(s))) = Len(h) + 1
        /\ Append(Audit(h), Row(s))[Len(h) + 1] = Row(s)
        /\ \A i \in 1 .. Len(h) : Append(Audit(h), Row(s))[i] = Row(h[i])
    <2>1. Row(s) \in Rows
      OBVIOUS
    <2> HIDE DEF Rows
    <2> QED BY <1>1, <1>3, <2>1, AppendProperties
  <1>5. Audit(Append(h, s)) = Append(Audit(h), Row(s))
    <2>1. Audit(Append(h, s))[Len(h) + 1] = Append(Audit(h), Row(s))[Len(h) + 1]
      BY <1>1, <1>4 DEF Audit
    <2>2. \A i \in 1 .. Len(h) : Audit(Append(h, s))[i] = Append(Audit(h), Row(s))[i]
      BY <1>1, <1>4 DEF Audit
    <2>3. ASSUME NEW i \in 1 .. Len(h) + 1
          PROVE  Audit(Append(h, s))[i] = Append(Audit(h), Row(s))[i]
      <3>1. CASE i = Len(h) + 1
        BY <2>1, <3>1, Zenon
      <3>2. CASE i \in 1 .. Len(h)
        BY <2>2, <3>2, Zenon
      <3>3. i = Len(h) + 1 \/ i \in 1 .. Len(h)
        BY <1>1
      <3> QED BY <3>1, <3>2, <3>3, Zenon
    <2> HIDE DEF Rows
    <2>4. /\ Audit(Append(h, s)) \in Seq(Rows)
          /\ Len(Audit(Append(h, s))) = Len(h) + 1
      BY <1>1, <1>3
    <2>5. Append(Audit(h), Row(s)) \in Seq(Rows)
      BY <1>4
    <2> DEFINE left == Audit(Append(h, s))
               right == Append(Audit(h), Row(s))
    <2>6. /\ left \in Seq(Rows) /\ right \in Seq(Rows)
          /\ Len(left) = Len(right)
          /\ \A i \in 1 .. Len(left) : left[i] = right[i]
      BY <1>4, <2>3, <2>4, <2>5
    <2> HIDE DEF left, right
    <2>7. left = right
      BY <2>6, SeqEqual
    <2> QED BY <2>7 DEF left, right
  <1> QED BY <1>2, <1>5

LEMMA PathGrows ==
    /\ \A d \in 0 .. 5 : SubSeq(Path, 1, d) \in Seq(Names)
    /\ SubSeq(Path, 1, 0) = <<>>
    /\ \A d \in 0 .. 4 : SubSeq(Path, 1, d + 1) = Append(SubSeq(Path, 1, d), Path[d + 1])
    /\ \A d \in 1 .. 5 : StateOf(SubSeq(Path, 1, d)) = Path[d]
    /\ \A d \in 1 .. 5 : Path[d] \in Names
  <1>1. Path \in Seq(Names) /\ Len(Path) = 5
    <2>1. Len(Path) = 5
      BY DEF Path
    <2>2. \A i \in 1 .. 5 : Path[i] \in Names
      BY DEF Names
    <2>3. Path = [i \in 1 .. 5 |-> Path[i]]
      BY DEF Path
    <2> QED BY <2>1, <2>2, <2>3, SeqDef
  <1>2. ASSUME NEW d \in 0 .. 5
        PROVE  /\ SubSeq(Path, 1, d) \in Seq(Names) /\ Len(SubSeq(Path, 1, d)) = d
               /\ \A i \in 1 .. d : SubSeq(Path, 1, d)[i] = Path[i]
    <2>1. \A i \in 1 .. d : Path[i] \in Names
      BY DEF Names
    <2>2. /\ SubSeq(Path, 1, d) \in Seq(Names)
          /\ Len(SubSeq(Path, 1, d)) = IF 1 <= d THEN d - 1 + 1 ELSE 0
          /\ \A i \in 1 .. d - 1 + 1 : SubSeq(Path, 1, d)[i] = Path[1 + i - 1]
      BY <2>1, SubSeqProperties
    <2> QED BY <2>2
  <1>3. SubSeq(Path, 1, 0) = <<>>
    BY <1>2, EmptySeq
  <1>4. \A d \in 1 .. 5 : Path[d] \in Names
    BY DEF Names
  <1>5. ASSUME NEW d \in 0 .. 4
        PROVE  SubSeq(Path, 1, d + 1) = Append(SubSeq(Path, 1, d), Path[d + 1])
    <2>1. d + 1 \in 1 .. Len(Path) /\ (d + 1) - 1 = d /\ 1 \in 1 .. Len(Path) /\ d + 1 \in 1 .. 5
      BY <1>1
    <2>2. SubSeq(Path, 1, d + 1) = SubSeq(Path, 1, d) \o <<Path[d + 1]>>
      BY <1>1, <2>1, SubSeqRecursiveSecond
    <2>3. SubSeq(Path, 1, d) \in Seq(Names) /\ Path[d + 1] \in Names
      BY <1>2, <1>4, <2>1
    <2> QED BY <2>2, <2>3, AppendIsConcat
  <1>6. ASSUME NEW d \in 1 .. 5 PROVE StateOf(SubSeq(Path, 1, d)) = Path[d]
    <2>1. Len(SubSeq(Path, 1, d)) = d /\ SubSeq(Path, 1, d)[d] = Path[d]
      BY <1>2
    <2>2. Len(<<>>) = 0 /\ d # 0
      OBVIOUS
    <2>3. SubSeq(Path, 1, d) # <<>>
      BY <2>1, <2>2, Zenon
    <2> QED BY <2>1, <2>3 DEF StateOf
  <1> QED BY <1>2, <1>3, <1>4, <1>5, <1>6

\* Two ways to write one more row: the run comes a state further on its path ...
LEMMA Advances ==
    ASSUME Depth \in 0 .. 4, Depth' = Depth + 1, Final = <<>>, Final' = <<>>
    PROVE  /\ StateOf(History) = IF Depth = 0 THEN "absent" ELSE Path[Depth]
           /\ StateOf(History)' = Path[Depth + 1]
           /\ Audit(History)' = Append(Audit(History), Row(Path[Depth + 1]))
  <1>1. /\ SubSeq(Path, 1, Depth) \in Seq(Names) /\ SubSeq(Path, 1, Depth') \in Seq(Names)
        /\ SubSeq(Path, 1, Depth') = Append(SubSeq(Path, 1, Depth), Path[Depth + 1])
        /\ Path[Depth + 1] \in Names
    BY PathGrows
  <1>2. History = SubSeq(Path, 1, Depth) /\ History' = SubSeq(Path, 1, Depth')
    BY <1>1, ConcatEmptySeq DEF History, Path
  <1>3. StateOf(History) = IF Depth = 0 THEN "absent" ELSE Path[Depth]
    BY <1>2, PathGrows DEF StateOf
  <1>4. /\ Audit(History') = Append(Audit(History), Row(Path[Depth + 1]))
        /\ StateOf(History') = Path[Depth + 1]
    BY <1>1, <1>2, AuditGrows
  <1>5. Audit(History)' = Audit(History') /\ StateOf(History)' = StateOf(History')
    BY DEF Audit, StateOf, Row
  <1> QED BY <1>3, <1>4, <1>5

\* ... or it ends, with what execute() reports.
LEMMA Ends ==
    ASSUME Depth \in 1 .. 5, Depth' = Depth, Final = <<>>,
           NEW v \in {"passed", "reverted", "escalated"}, Final' = <<v>>
    PROVE  /\ StateOf(History) = Path[Depth]
           /\ StateOf(History)' = v
           /\ Audit(History)' = Append(Audit(History), Row(v))
  <1>1. SubSeq(Path, 1, Depth) \in Seq(Names) /\ v \in Names
    BY PathGrows DEF Names
  <1>2. History = SubSeq(Path, 1, Depth) /\ History' = SubSeq(Path, 1, Depth) \o <<v>>
    BY <1>1, ConcatEmptySeq DEF History, Path
  <1>3. History' = Append(History, v)
    BY <1>1, <1>2, AppendIsConcat
  <1>4. StateOf(History) = Path[Depth]
    BY <1>2, PathGrows
  <1>5. Audit(History') = Append(Audit(History), Row(v)) /\ StateOf(History') = v
    BY <1>1, <1>2, <1>3, AuditGrows
  <1>6. Audit(History)' = Audit(History') /\ StateOf(History)' = StateOf(History')
    BY DEF Audit, StateOf, Row
  <1> QED BY <1>4, <1>5, <1>6

\* The graph's state and audit, as the mapping writes them.
GraphState == IF History = <<>> THEN "absent" ELSE History[Len(History)]
GraphTrail == [i \in 1 .. Len(History) |-> [action |-> "action", to |-> History[i]]]
GraphCurrent == IF pc = "start" THEN None ELSE "action"

LEMMA Mapped ==
    /\ GraphState = StateOf(History) /\ GraphTrail = Audit(History)
    /\ GraphState' = StateOf(History)' /\ GraphTrail' = Audit(History)'
  BY DEF GraphState, GraphTrail, StateOf, Audit, Row

-----------------------------------------------------------------------------
(* The refinement                                                          *)

LEMMA MapsInit == Init => Graph!Init
  <1> SUFFICES ASSUME Init PROVE Graph!Init
    OBVIOUS
  <1>1. Depth = 0 /\ Final = <<>> /\ pc = "start" /\ outcome = "none" /\ written = FALSE
    BY DEF Init, Depth, Final
  <1>2. SubSeq(Path, 1, Depth) = <<>>
    BY <1>1, PathGrows
  <1>3. History = <<>> /\ Len(History) = 0
    BY <1>1, <1>2, ConcatEmptySeq, EmptySeq DEF History
  <1>4. GraphTrail = <<>>
    BY <1>3 DEF GraphTrail
  <1>5. {} \in {E \in SUBSET ({"action"} \X {"action"}) : Graph!Registered(E)}
    BY DEF Graph!Registered, Graph!Acyclic
  <1> QED BY <1>1, <1>3, <1>4, <1>5 DEF Graph!Init, GraphTrail

\* A step to the graph's next state.
LEMMA MapsMove ==
    ASSUME NEW to, GraphState' = to, GraphTrail' = Append(GraphTrail, Row(to)),
           pc # "start", pc' # "start"
    PROVE  Graph!Move(to)
  BY DEF Graph!Move, Graph!MoveTo, GraphState, GraphTrail, Row

LEMMA MapsStep ==
    ASSUME None # "action"
    PROVE  Phases /\ [Next]_vars => [Graph!Next]_(Graph!vars)
  <1> SUFFICES ASSUME Phases, [Next]_vars PROVE Graph!Next \/ UNCHANGED Graph!vars
    OBVIOUS
  <1> USE DEF Phases, Before
  \* A step that the graph does not see.
  <1>0. ASSUME Depth' = Depth, Final' = Final, pc # "start", pc' # "start", written' = written,
               outcome # "reverted", outcome' # "reverted"
        PROVE  UNCHANGED Graph!vars
    <2>1. History' = History
      BY <1>0 DEF History, Path
    <2> QED BY <1>0, <2>1 DEF Graph!vars
  <1>1. Path[1] = "proposed" /\ Path[2] = "prechecked" /\ Path[3] = "committed"
        /\ Path[4] = "fast_observing" /\ Path[5] = "stability_observing"
    BY DEF Path
  \* A verdict that ends the graph's run.
  <1>2. ASSUME Depth \in 1 .. 5, Depth' = Depth, Final = <<>>, Final' = <<"escalated">>,
               pc # "start", pc' # "start", written' = written,
               outcome # "reverted", outcome' # "reverted"
        PROVE  Graph!Next
    <2>1. GraphState = Path[Depth] /\ GraphState' = "escalated"
          /\ GraphTrail' = Append(GraphTrail, Row("escalated"))
      BY <1>2, Ends, Mapped
    <2>2. GraphState \in Graph!RunStates \ Graph!Terminal
      BY <1>1, <1>2, <2>1 DEF Graph!RunStates, Graph!Terminal
    <2>3. Graph!Move("escalated")
      BY <1>2, <2>1, MapsMove
    <2>4. Graph!Escalate
      BY <1>2, <2>2, <2>3 DEF Graph!Escalate, Graph!Run, GraphState
    <2> QED BY <2>4 DEF Graph!Next
  \* A gate that lets the run through.
  <1>3. ASSUME Depth \in 1 .. 4, Depth' = Depth + 1, Final = <<>>, Final' = <<>>,
               pc # "start", pc' # "start", outcome = "none", outcome' = "none", written' = written
        PROVE  /\ Depth # 2 => Graph!Gate(Path[Depth], Path[Depth + 1])
               /\ GraphState = Path[Depth] /\ Graph!Move(Path[Depth + 1])
    <2>1. GraphState = Path[Depth] /\ GraphState' = Path[Depth + 1]
          /\ GraphTrail' = Append(GraphTrail, Row(Path[Depth + 1]))
      BY <1>3, Advances, Mapped
    <2>2. Graph!Move(Path[Depth + 1])
      BY <1>3, <2>1, MapsMove
    <2> QED BY <1>3, <2>1, <2>2 DEF Graph!Gate, Graph!Run, GraphState
  <1>4. CASE OpenIncident
    <2>1. /\ pc = "start" /\ pc' = "opened" /\ outcome = "none" /\ outcome' = "none"
          /\ written = FALSE /\ written' = FALSE
          /\ Depth = 0 /\ Depth' = 1 /\ Final = <<>> /\ Final' = <<>>
      BY <1>4 DEF OpenIncident, Depth, Final
    <2>2. GraphState = "absent" /\ GraphState' = "proposed"
          /\ GraphTrail' = Append(GraphTrail, Row("proposed"))
      BY <1>1, <2>1, Advances, Mapped
    <2>3. Graph!MoveTo("action", "proposed")
      BY <2>1, <2>2 DEF Graph!MoveTo, GraphState, GraphTrail, Row
    <2>4. Graph!OpenIncident("action")
      BY <2>1, <2>2, <2>3 DEF Graph!OpenIncident, GraphState
    <2> QED BY <2>4 DEF Graph!Next
  <1>5. CASE Precheck
    <2>1. /\ pc = "opened" /\ pc' = "baseline" /\ outcome = "none" /\ outcome' = "none"
          /\ written' = written
          /\ Depth = 1 /\ Depth' = 2 /\ Final = <<>> /\ Final' = <<>>
      BY <1>5 DEF Precheck, Depth, Final
    <2>2. Graph!Gate("proposed", "prechecked")
      BY <1>1, <1>3, <2>1
    <2> QED BY <2>2 DEF Graph!Next, Graph!Precheck
  <1>6. CASE Baseline
    <2>1. /\ pc = "baseline" /\ outcome = "none" /\ written' = written
          /\ \/ pc' = "commit" /\ outcome' = "none"
             \/ pc' = "done" /\ outcome' = "not_committed"
      BY <1>6 DEF Baseline, End
    <2>2. Depth = 2 /\ Depth' = 2 /\ Final = <<>>
          /\ Final' = IF pc' = "done" THEN <<"escalated">> ELSE <<>>
      BY <2>1 DEF Depth, Final
    <2> QED BY <1>0, <1>2, <2>1, <2>2
  <1>7. CASE RunCommand
    <2>1. CASE pc' = "done" /\ outcome' = "raised" /\ written' = written
      <3>1. Depth = 2 /\ Depth' = 2 /\ Final = <<>> /\ Final' = <<>> /\ pc = "commit" /\ outcome = "none"
        BY <1>7, <2>1 DEF RunCommand, Depth, Final
      <3> QED BY <1>0, <2>1, <3>1
    <2>2. CASE written' = TRUE /\ pc' = "ran" /\ outcome' = outcome
      <3>1. Depth = 2 /\ Depth' = 2 /\ Final = <<>> /\ Final' = <<>> /\ pc = "commit"
            /\ outcome = "none" /\ written = FALSE
        BY <1>7, <2>2 DEF RunCommand, Depth, Final
      <3>2. History = SubSeq(Path, 1, 2) /\ History' = History
        BY <3>1, PathGrows, ConcatEmptySeq DEF History, Path
      <3>3. GraphState = "prechecked"
        BY <1>1, <3>2, PathGrows, Mapped
      <3>4. Graph!Act
        BY <2>2, <3>1, <3>2, <3>3 DEF Graph!Act, Graph!Run, GraphState
      <3> QED BY <3>4 DEF Graph!Next
    <2> QED BY <1>7, <2>1, <2>2 DEF RunCommand, End
  <1>8. CASE ReturnFromCommit
    <2>1. pc = "ran" /\ outcome = "none" /\ written' = written /\ Depth = 2 /\ Final = <<>>
      BY <1>8 DEF ReturnFromCommit, Depth, Final
    <2>2. CASE pc' = "grace" /\ outcome' = outcome
      <3>1. Depth' = 3 /\ Final' = <<>>
        BY <2>1, <2>2 DEF Depth, Final
      <3>2. GraphState = "prechecked" /\ Graph!Move("committed")
        BY <1>1, <1>3, <2>1, <2>2, <3>1
      <3>3. Graph!Commit
        BY <2>1, <2>2, <3>2 DEF Graph!Commit, Graph!Run, GraphState
      <3> QED BY <3>3 DEF Graph!Next
    <2>3. CASE pc' = "done" /\ outcome' \in {"not_committed", "raised"}
      <3>1. Depth' = 2 /\ Final' = IF outcome' = "raised" THEN <<>> ELSE <<"escalated">>
        BY <2>3 DEF Depth, Final
      <3> QED BY <1>0, <1>2, <2>1, <2>3, <3>1
    <2> QED BY <1>8, <2>2, <2>3 DEF ReturnFromCommit, End
  <1>9. CASE OpenFast
    <2>1. /\ pc = "grace" /\ pc' = "fast" /\ outcome = "none" /\ outcome' = "none"
          /\ written' = written /\ stable = FALSE /\ stable' = FALSE
      BY <1>9 DEF OpenFast
    <2>2. Depth = 3 /\ Depth' = 4 /\ Final = <<>> /\ Final' = <<>>
      BY <2>1 DEF Depth, Final
    <2>3. Graph!Gate("committed", "fast_observing")
      BY <1>1, <1>3, <2>1, <2>2
    <2> QED BY <2>3 DEF Graph!Next, Graph!BeginFastObservation
  <1>10. CASE SampleFast \/ SampleStable
    <2>1. /\ pc \in {"fast", "stability"} /\ pc' \in {pc, "revert"} /\ outcome = "none"
          /\ outcome' = "none" /\ UNCHANGED <<written, stable>>
      BY <1>10 DEF SampleFast, SampleStable, SampleRound
    <2>2. Depth' = Depth /\ Final' = Final
      BY <2>1 DEF Depth, Final
    <2> QED BY <1>0, <2>1, <2>2
  <1>11. CASE CloseFast
    <2>1. /\ pc = "fast" /\ outcome = "none" /\ outcome' = "none" /\ written' = written
          /\ stable = FALSE
          /\ \/ pc' = "revert" /\ stable' = stable
             \/ pc' = "stability" /\ stable' = TRUE
      BY <1>11 DEF CloseFast
    <2>2. CASE pc' = "revert" /\ stable' = stable
      <3>1. Depth' = Depth /\ Final' = Final
        BY <2>1, <2>2 DEF Depth, Final
      <3> QED BY <1>0, <2>1, <2>2, <3>1
    <2>3. CASE pc' = "stability" /\ stable' = TRUE
      <3>1. Depth = 4 /\ Depth' = 5 /\ Final = <<>> /\ Final' = <<>>
        BY <2>1, <2>3 DEF Depth, Final
      <3>2. Graph!Gate("fast_observing", "stability_observing")
        BY <1>1, <1>3, <2>1, <2>3, <3>1
      <3> QED BY <3>2 DEF Graph!Next, Graph!BeginStabilityObservation
    <2> QED BY <2>1, <2>2, <2>3
  <1>12. CASE CloseStability
    <2>1. /\ pc = "stability" /\ outcome = "none" /\ UNCHANGED <<written, stable>> /\ stable = TRUE
          /\ \/ pc' = "revert" /\ outcome' = outcome
             \/ pc' = "done" /\ outcome' = "passed"
      BY <1>12 DEF CloseStability, End
    <2>2. CASE pc' = "revert" /\ outcome' = outcome
      <3>1. Depth' = Depth /\ Final' = Final
        BY <2>1, <2>2 DEF Depth, Final
      <3> QED BY <1>0, <2>1, <2>2, <3>1
    <2>3. CASE pc' = "done" /\ outcome' = "passed"
      <3>1. Depth = 5 /\ Depth' = 5 /\ Final = <<>> /\ Final' = <<"passed">>
        BY <2>1, <2>3 DEF Depth, Final
      <3>2. GraphState = "stability_observing" /\ GraphState' = "passed"
            /\ GraphTrail' = Append(GraphTrail, Row("passed"))
        BY <1>1, <3>1, Ends, Mapped
      <3>3. Graph!Move("passed")
        BY <2>1, <2>3, <3>2, MapsMove
      <3>4. Graph!Gate("stability_observing", "passed")
        BY <2>1, <2>3, <3>2, <3>3 DEF Graph!Gate, Graph!Run, GraphState
      <3> QED BY <3>4 DEF Graph!Next, Graph!PassStability
    <2> QED BY <2>1, <2>2, <2>3
  <1>13. CASE Revert
    <2>1. /\ pc = "revert" /\ outcome = "none" /\ UNCHANGED <<written, stable>>
          /\ \/ pc' = "readback" /\ outcome' = outcome
             \/ pc' = "done" /\ outcome' = "revert_unverified"
      BY <1>13 DEF Revert, End
    <2>2. Depth \in 4 .. 5 /\ Depth' = Depth /\ Final = <<>>
          /\ Final' = IF pc' = "done" THEN <<"escalated">> ELSE <<>>
      BY <2>1 DEF Depth, Final
    <2> QED BY <1>0, <1>2, <2>1, <2>2
  <1>14. CASE Readback
    <2>1. /\ pc = "readback" /\ outcome = "none" /\ UNCHANGED <<written, stable>>
          /\ pc' = "done" /\ outcome' \in {"reverted", "revert_unverified"}
      BY <1>14 DEF Readback, End
    <2>2. Depth \in 4 .. 5 /\ Depth' = Depth /\ Final = <<>>
          /\ Final' = IF outcome' = "reverted" THEN <<"reverted">> ELSE <<"escalated">>
      BY <2>1 DEF Depth, Final
    <2>3. CASE outcome' = "reverted"
      <3>1. GraphState = Path[Depth] /\ GraphState' = "reverted"
            /\ GraphTrail' = Append(GraphTrail, Row("reverted"))
        BY <2>2, <2>3, Ends, Mapped
      <3>2. Graph!Move("reverted")
        BY <2>1, <3>1, MapsMove
      <3>3. GraphState \in Graph!Observing
        BY <1>1, <2>2, <3>1 DEF Graph!Observing
      <3>4. Graph!Revert
        BY <2>1, <2>3, <3>2, <3>3 DEF Graph!Revert, GraphState
      <3> QED BY <3>4 DEF Graph!Next
    <2>4. CASE outcome' = "revert_unverified"
      BY <1>2, <2>1, <2>2, <2>4
    <2> QED BY <2>1, <2>3, <2>4
  <1>15. CASE UNCHANGED vars
    <2>1. UNCHANGED <<pc, outcome, written, stable>>
      BY <1>15 DEF vars
    <2>2. History' = History
      BY <2>1 DEF History, Path, Depth, Final
    <2> QED BY <2>1, <2>2 DEF Graph!vars
  <1> QED BY <1>4, <1>5, <1>6, <1>7, <1>8, <1>9, <1>10, <1>11, <1>12, <1>13, <1>14, <1>15 DEF Next

\* What execute() tells the recovery graph of a follow-up is always a history
\* the change has really had: every step of a run is one the graph allows.
THEOREM Implements == ASSUME None # "action" PROVE Spec => FollowsGraph
  <1>1. Init => Graph!Init
    BY MapsInit
  <1>2. Phases /\ [Next]_vars => [Graph!Next]_(Graph!vars)
    BY MapsStep
  <1> QED BY <1>1, <1>2, PhasesInit, PhasesStep, PTL DEF Spec, FollowsGraph, Graph!Spec


-----------------------------------------------------------------------------
(* What the graph promises for every set of actions, graph and budget,     *)
(* whatever its caller does (RecoveryIncident).                            *)

\* Links: consecutive attempts are registered edges, and the run stands at the
\* last one; the fallback of a reverted run starts from the current action.
Links ==
    /\ \A k \in 1 .. Len(attempted) - 1 : <<attempted[k], attempted[k + 1]>> \in edges
    /\ state # "absent" => Len(attempted) > 0 /\ current = attempted[Len(attempted)]
    /\ state = "absent" => attempted = <<>> /\ changed = {}
    /\ state = "reverted" => reverted = current /\ changed = {}

\* What an attempt has in common with every earlier one, kept step by step.
Falling ==
    /\ Len(attempted) <= budget
    /\ \A i, j \in 1 .. Len(attempted) : i < j =>
         /\ Impact[attempted[j]] <= Impact[attempted[i]]
         /\ j = i + 1 => Mechanism[attempted[i]] # Mechanism[attempted[j]]

IInv == Incident!TypeOK /\ Incident!Registered(edges) /\ OneChangeAtATime /\ Links /\ Falling

-----------------------------------------------------------------------------
\* In an acyclic graph no walk returns: its actions would be a set each member
\* of which has an edge into the set.
LEMMA WalksEnd ==
    ASSUME NEW E \in SUBSET (Actions \X Actions), Incident!Acyclic(E),
           NEW s \in Seq(Actions),
           \A k \in 1 .. Len(s) - 1 : <<s[k], s[k + 1]>> \in E,
           NEW i \in 1 .. Len(s), NEW j \in 1 .. Len(s), i < j
    PROVE  s[i] # s[j]
<1> SUFFICES ASSUME s[i] = s[j] PROVE FALSE
  OBVIOUS
<1> DEFINE S == {s[k] : k \in i .. j - 1}
<1>1. S \in SUBSET Actions /\ S # {}
  <2>1. i \in i .. j - 1
    OBVIOUS
  <2>2. \A k \in i .. j - 1 : s[k] \in Actions
    OBVIOUS
  <2> QED
    BY <2>1, <2>2
<1>2. PICK a \in S : \A b \in S : <<a, b>> \notin E
  BY <1>1 DEF Incident!Acyclic
<1>3. PICK k \in i .. j - 1 : a = s[k]
  BY <1>2
<1>4. <<s[k], s[k + 1]>> \in E
  BY <1>3
<1>5. s[k + 1] \in S
  <2>1. CASE k + 1 \in i .. j - 1
    BY <2>1
  <2>2. CASE k + 1 = j
    <3>1. i \in i .. j - 1
      OBVIOUS
    <3> QED
      BY <2>2, <3>1
  <2> QED
    BY <1>3, <2>1, <2>2
<1> QED
  BY <1>2, <1>3, <1>4, <1>5

\* The strengthened invariant gives the property of the attempts.
LEMMA Descent == IInv => AttemptsDescend
<1> SUFFICES ASSUME IInv PROVE AttemptsDescend
  OBVIOUS
<1>1. \A i, j \in 1 .. Len(attempted) : i < j => attempted[i] # attempted[j]
  <2> TAKE i, j \in 1 .. Len(attempted)
  <2> HAVE i < j
  <2> QED
    BY WalksEnd DEF IInv, Incident!TypeOK, Incident!Registered, Links
<1> QED
  BY <1>1 DEF IInv, Falling, AttemptsDescend

-----------------------------------------------------------------------------
\* A step that moves the run without a new attempt, and the rows it may add.
LEMMA Moved ==
    ASSUME Incident!TypeOK, NEW to \in Incident!RunStates, Incident!Move(to), state # "absent",
    current \in Actions
    PROVE  /\ state' = to /\ current' = current
           /\ trail' \in Seq([action : Actions, to : Incident!RunStates])
BY DEF Incident!Move, Incident!MoveTo, Incident!TypeOK

LEMMA InitIInv == Incident!Init => IInv
<1> SUFFICES ASSUME Incident!Init PROVE IInv
  OBVIOUS
<1>1. Incident!TypeOK
  <2>1. edges \in SUBSET (Actions \X Actions)
    BY DEF Incident!Init
  <2>2. attempted \in Seq(Actions) /\ trail \in Seq([action : Actions, to : Incident!RunStates])
    BY DEF Incident!Init
  <2> QED
    BY <2>1, <2>2 DEF Incident!Init, Incident!TypeOK
<1>2. Incident!Registered(edges)
  BY DEF Incident!Init
<1>3. OneChangeAtATime /\ Links /\ Falling
  BY DEF Incident!Init, OneChangeAtATime, Links, Falling
<1> QED
  BY <1>1, <1>2, <1>3 DEF IInv

LEMMA StepIInv == IInv /\ [Incident!Next]_(Incident!vars) => IInv'
<1> SUFFICES ASSUME IInv, [Incident!Next]_(Incident!vars) PROVE IInv'
  OBVIOUS
<1>g. Impact \in [Actions -> Nat] /\ MaxActions \in Nat \ {0} /\ NoAction \notin Actions
  BY IncidentAssumption DEF Incident!WellFormed
<1> USE DEF IInv
<1>0. state # "absent" => current \in Actions
  BY DEF Links, Incident!TypeOK
<1>1. ASSUME NEW a \in Actions, Incident!OpenIncident(a) PROVE IInv'
  <2>0. trail' \in Seq([action : Actions, to : Incident!RunStates])
    <3>1. [action |-> a, to |-> "proposed"] \in [action : Actions, to : Incident!RunStates]
      BY <1>1 DEF Incident!RunStates
    <3>2. trail' = trail \/ trail' = Append(trail, [action |-> a, to |-> "proposed"])
      BY <1>1 DEF Incident!OpenIncident, Incident!MoveTo
    <3>3. trail \in Seq([action : Actions, to : Incident!RunStates])
      BY DEF Incident!TypeOK
    <3>4. \A S, r : trail \in Seq(S) /\ r \in S => Append(trail, r) \in Seq(S)
      OBVIOUS
    <3> QED
      BY <3>1, <3>2, <3>3, <3>4
  <2>1. Incident!TypeOK'
    BY <1>1, <1>g, <2>0 DEF Incident!OpenIncident, Incident!MoveTo, Incident!TypeOK, Incident!RunStates
  <2>2. OneChangeAtATime' /\ Links' /\ Falling'
    BY <1>1, <1>g DEF Incident!OpenIncident, Incident!MoveTo, OneChangeAtATime, Links,
        Falling, Incident!TypeOK
  <2> QED
    BY <1>1, <2>1, <2>2 DEF Incident!OpenIncident, Incident!Registered
<1>2. ASSUME NEW a \in Actions, Incident!ProposeNext(a) PROVE IInv'
  <2>1. PICK rows \in SUBSET [fact : Facts, age : Ages] :
          \/ /\ Incident!Selected(a, rows)
             /\ attempted' = Append(attempted, a)
             /\ verified' = FALSE
             /\ Incident!MoveTo(a, "proposed")
          \/ /\ ~Incident!Selected(a, rows)
             /\ Incident!Move("escalated")
             /\ UNCHANGED <<attempted, verified>>
    BY <1>2 DEF Incident!ProposeNext
  <2>2. state = "reverted" /\ UNCHANGED <<edges, budget, reverted, changed>>
    BY <1>2 DEF Incident!ProposeNext
  <2>3. CASE Incident!Selected(a, rows)
    <3>1. attempted' = Append(attempted, a) /\ verified' = FALSE /\ Incident!MoveTo(a, "proposed")
      BY <2>1, <2>3
    <3>2. reverted = attempted[Len(attempted)] /\ Len(attempted) > 0 /\ changed = {}
      BY <2>2 DEF Links
    <3>3. <<attempted[Len(attempted)], a>> \in edges
      BY <2>3, <3>2 DEF Incident!Selected
    <3>4. Mechanism[attempted[Len(attempted)]] # Mechanism[a]
          /\ Impact[a] <= Impact[attempted[Len(attempted)]]
      BY <2>3, <3>2 DEF Incident!Selected, Incident!Descends
    <3>5. Incident!TypeOK'
      <4>1. attempted' \in Seq(Actions)
        BY <3>1 DEF Incident!TypeOK
      <4>2. "proposed" \in Incident!RunStates /\ state' = "proposed" /\ current' = a
        BY <3>1 DEF Incident!MoveTo, Incident!RunStates
      <4>3. [action |-> a, to |-> "proposed"] \in [action : Actions, to : Incident!RunStates]
        BY <4>2
      <4>4. trail' \in Seq([action : Actions, to : Incident!RunStates])
        BY <3>1, <4>3 DEF Incident!MoveTo, Incident!TypeOK
      <4> QED
        BY <2>2, <3>1, <4>1, <4>2, <4>4 DEF Incident!TypeOK
    <3>6. OneChangeAtATime'
      BY <2>2, <3>1, <3>2 DEF Incident!MoveTo, OneChangeAtATime
    <3>7. Links'
      <4>1. Len(attempted') = Len(attempted) + 1 /\ attempted'[Len(attempted')] = a
        BY <3>1 DEF Incident!TypeOK
      <4>2. \A k \in 1 .. Len(attempted) : attempted'[k] = attempted[k]
        BY <3>1 DEF Incident!TypeOK
      <4>3. ASSUME NEW k \in 1 .. Len(attempted') - 1
            PROVE  <<attempted'[k], attempted'[k + 1]>> \in edges'
        <5>1. CASE k \in 1 .. Len(attempted) - 1
          <6>1. k \in 1 .. Len(attempted) /\ k + 1 \in 1 .. Len(attempted)
            BY <5>1 DEF Incident!TypeOK
          <6> QED
            BY <2>2, <4>2, <5>1, <6>1 DEF Links
        <5>2. CASE k = Len(attempted)
          BY <2>2, <3>2, <3>3, <4>1, <4>2, <5>2
        <5> QED
          BY <4>1, <5>1, <5>2 DEF Incident!TypeOK
      <4>4. state' = "proposed" /\ current' = a
        BY <3>1 DEF Incident!MoveTo
      <4>5. Len(attempted') > 0
        BY <4>1 DEF Incident!TypeOK
      <4> QED
        BY <4>1, <4>3, <4>4, <4>5 DEF Links
    <3>8. Falling'
      <4>1. Len(attempted') <= budget'
        BY <2>2, <2>3, <3>1 DEF Incident!Selected, Incident!TypeOK
      <4>2. ASSUME NEW i \in 1 .. Len(attempted'), NEW j \in 1 .. Len(attempted'), i < j
            PROVE  /\ Impact[attempted'[j]] <= Impact[attempted'[i]]
                   /\ j = i + 1 => Mechanism[attempted'[i]] # Mechanism[attempted'[j]]
        <5>1. i \in 1 .. Len(attempted) /\ attempted'[i] = attempted[i]
          BY <3>1, <4>2 DEF Incident!TypeOK
        <5>2. CASE j \in 1 .. Len(attempted)
          BY <3>1, <4>2, <5>1, <5>2 DEF Falling, Incident!TypeOK
        <5>3. CASE j = Len(attempted) + 1
          <6>1. attempted'[j] = a
            BY <3>1, <5>3 DEF Incident!TypeOK
          <6>2. Impact[attempted[Len(attempted)]] <= Impact[attempted[i]]
            BY <5>1, <3>2, <1>g DEF Falling, Incident!TypeOK
          <6>3. /\ Impact[a] \in Nat /\ Impact[attempted[i]] \in Nat
                /\ Impact[attempted[Len(attempted)]] \in Nat
            BY <5>1, <3>2, <1>g DEF Incident!TypeOK
          <6>4. Impact[a] <= Impact[attempted[i]]
            BY <3>4, <6>2, <6>3
          <6>5. j = i + 1 => i = Len(attempted)
            BY <5>3, <5>1 DEF Incident!TypeOK
          <6> QED
            BY <3>4, <5>1, <6>1, <6>4, <6>5
        <5> QED
          BY <3>1, <5>2, <5>3 DEF Incident!TypeOK
      <4> QED
        BY <4>1, <4>2 DEF Falling
    <3> QED
      BY <2>2, <3>5, <3>6, <3>7, <3>8 DEF Incident!Registered
  <2>4. CASE ~Incident!Selected(a, rows)
    <3>1. Incident!Move("escalated") /\ UNCHANGED <<attempted, verified>>
      BY <2>1, <2>4
    <3>2. state' = "escalated" /\ current' = current
          /\ trail' \in Seq([action : Actions, to : Incident!RunStates])
      BY <1>0, <2>2, <3>1, Moved DEF Incident!RunStates, Incident!Terminal
    <3> QED
      BY <2>2, <3>1, <3>2
      DEF Incident!TypeOK, Incident!RunStates, Incident!Terminal, OneChangeAtATime,
          Links, Falling, Incident!Registered
  <2> QED
    BY <2>3, <2>4
<1>3. ASSUME NEW from \in Incident!RunStates, NEW to \in Incident!RunStates \ {"proposed",
"reverted"}, Incident!Gate(from, to)
      PROVE  IInv'
  <2>1. PICK next \in Incident!RunStates \ {"proposed", "reverted"} : Incident!Move(next)
    BY <1>3 DEF Incident!Gate, Incident!RunStates, Incident!Terminal
  <2>2. state' = next /\ current' = current
        /\ trail' \in Seq([action : Actions, to : Incident!RunStates])
    BY <1>0, <1>3, <2>1, Moved DEF Incident!Gate, Incident!RunStates, Incident!Terminal
  <2>3. UNCHANGED <<edges, budget, attempted, reverted, verified, changed>> /\ state # "absent"
    BY <1>3 DEF Incident!Gate, Incident!Run, Incident!RunStates, Incident!Terminal
  <2>4. Incident!TypeOK'
    BY <2>2, <2>3 DEF Incident!TypeOK
  <2>5. OneChangeAtATime' /\ Links' /\ Falling'
    BY <2>2, <2>3 DEF OneChangeAtATime, Links, Falling, Incident!RunStates,
        Incident!Terminal
  <2> QED
    BY <2>3, <2>4, <2>5 DEF Incident!Registered
<1>4. CASE Incident!Act
  <2>1. current \in Actions
    BY <1>0, <1>4 DEF Incident!Act
  <2>2. Incident!TypeOK'
    BY <1>4, <2>1 DEF Incident!Act, Incident!Run, Incident!TypeOK
  <2>3. OneChangeAtATime' /\ Links' /\ Falling'
    BY <1>4 DEF Incident!Act, Incident!Run, OneChangeAtATime, Links, Falling
  <2> QED
    BY <1>4, <2>2, <2>3 DEF Incident!Act, Incident!Run, Incident!Registered
<1>5. ASSUME NEW to \in {"committed", "escalated"}, Incident!Move(to), state \in Incident!RunStates,
             UNCHANGED <<Incident!Run, changed>>
      PROVE  IInv'
  <2>1. state' = to /\ current' = current
        /\ trail' \in Seq([action : Actions, to : Incident!RunStates])
    BY <1>0, <1>5, Moved DEF Incident!RunStates, Incident!Terminal
  <2>2. Incident!TypeOK'
    BY <1>5, <2>1 DEF Incident!TypeOK, Incident!Run, Incident!RunStates, Incident!Terminal
  <2>3. OneChangeAtATime' /\ Links' /\ Falling'
    BY <1>5, <2>1 DEF Incident!Run, OneChangeAtATime, Links, Falling,
        Incident!RunStates, Incident!Terminal
  <2> QED
    BY <1>5, <2>2, <2>3 DEF Incident!Run, Incident!Registered
<1>6. CASE Incident!Revert
  <2>1. CASE /\ Incident!Move("reverted")
             /\ reverted' = current
             /\ verified' = TRUE
             /\ changed' = changed \ {current}
             /\ UNCHANGED <<edges, budget, attempted>>
    <3>1. state \in Incident!Observing
      BY <1>6 DEF Incident!Revert
    <3>2. state' = "reverted" /\ current' = current
          /\ trail' \in Seq([action : Actions, to : Incident!RunStates])
      BY <1>0, <2>1, <3>1, Moved DEF Incident!RunStates, Incident!Observing
    <3>3. changed' = {} /\ current \in Actions
      BY <1>0, <2>1, <3>1 DEF OneChangeAtATime, Incident!Observing
    <3>4. Incident!TypeOK'
      BY <2>1, <3>2, <3>3 DEF Incident!TypeOK, Incident!RunStates
    <3>5. OneChangeAtATime' /\ Links' /\ Falling'
      BY <2>1, <3>1, <3>2, <3>3 DEF OneChangeAtATime, Links, Falling, Incident!Observing
    <3> QED
      BY <2>1, <3>4, <3>5 DEF Incident!Registered
  <2>2. CASE Incident!Move("escalated") /\ UNCHANGED <<Incident!Run, changed>>
    BY <1>5, <1>6, <2>2 DEF Incident!Revert, Incident!Observing, Incident!RunStates
  <2> QED
    BY <1>6, <2>1, <2>2 DEF Incident!Revert
<1>7. CASE UNCHANGED Incident!vars
  BY <1>7 DEF Incident!vars, Incident!TypeOK, OneChangeAtATime, Links, Falling,
      Incident!Registered
<1>8. CASE Incident!Commit
  BY <1>5, <1>8 DEF Incident!Commit, Incident!RunStates
<1>9. CASE Incident!Escalate
  BY <1>5, <1>9 DEF Incident!Escalate
<1>10. CASE Incident!Precheck \/ Incident!BeginFastObservation \/ Incident!BeginStabilityObservation \/ Incident!PassStability
  BY <1>3, <1>10
  DEF Incident!Precheck, Incident!BeginFastObservation, Incident!BeginStabilityObservation,
      Incident!PassStability, Incident!RunStates, Incident!Terminal
<1> QED
  BY <1>1, <1>2, <1>4, <1>6, <1>7, <1>8, <1>9, <1>10 DEF Incident!Next

LEMMA Inductive == IncidentSpec => []IInv
<1>1. IInv /\ [Incident!Next]_(Incident!vars) => IInv'
  BY StepIInv
<1> QED
  BY InitIInv, <1>1, PTL DEF IncidentSpec, Incident!Spec

-----------------------------------------------------------------------------
\* Every reachable state of a recovery run is well typed (RecoveryRun).
THEOREM RunTyped == IncidentSpec => []Incident!TypeOK
<1>1. IInv => Incident!TypeOK
  BY DEF IInv
<1> QED
  BY Inductive, <1>1, PTL

\* The host never carries the effect of two actions of an incident, for every
\* graph and every order of calls (propose_next only after a verified revert).
THEOREM OneChange == IncidentSpec => []OneChangeAtATime
<1>1. IInv => OneChangeAtATime
  BY DEF IInv
<1> QED
  BY Inductive, <1>1, PTL

\* No action twice, within the budget, with falling impact: for every acyclic
\* graph the constructor accepts (_assert_acyclic, the edge checks).
THEOREM Descending == IncidentSpec => []AttemptsDescend
BY Inductive, Descent, PTL

\* A final run stays final and the audit only grows (_require_state, _record).
THEOREM FinalKept == IncidentSpec => FinalStays
<1>1. IInv /\ [Incident!Next]_(Incident!vars) =>
        [/\ state \notin Incident!Terminal
         /\ SubSeq(trail', 1, Len(trail)) = trail]_<<state, current, attempted, trail>>
  <2> SUFFICES ASSUME IInv, Incident!Next, ~UNCHANGED <<state, current, attempted, trail>>
               PROVE  state \notin Incident!Terminal /\ SubSeq(trail', 1, Len(trail)) = trail
    BY DEF Incident!vars
  <2>1. trail \in Seq([action : Actions, to : Incident!RunStates])
    BY DEF IInv, Incident!TypeOK
  <2>2. state # "absent" => current \in Actions
    BY DEF IInv, Links, Incident!TypeOK
  <2>3. ASSUME NEW act \in Actions, NEW to \in Incident!RunStates, Incident!MoveTo(act, to)
        PROVE  SubSeq(trail', 1, Len(trail)) = trail
    BY <2>1, <2>3 DEF Incident!MoveTo
  <2>4. ASSUME NEW to \in Incident!RunStates, Incident!Move(to), state # "absent"
        PROVE  SubSeq(trail', 1, Len(trail)) = trail
    BY <2>2, <2>3, <2>4 DEF Incident!Move
  <2>5. ASSUME NEW a \in Actions, Incident!OpenIncident(a) \/ Incident!ProposeNext(a)
        PROVE  state \notin Incident!Terminal /\ SubSeq(trail', 1, Len(trail)) = trail
    <3>1. CASE Incident!ProposeNext(a)
      BY <2>3, <2>4, <3>1 DEF Incident!ProposeNext, Incident!RunStates, Incident!Terminal
    <3>2. CASE Incident!OpenIncident(a)
      <4>1. state = "absent" /\ (Incident!MoveTo(a, "proposed") \/ trail' = trail)
        BY <3>2 DEF Incident!OpenIncident
      <4>2. SubSeq(trail, 1, Len(trail)) = trail
        BY <2>1
      <4> QED
        BY <2>3, <4>1, <4>2 DEF Incident!RunStates, Incident!Terminal
    <3> QED
      BY <2>5, <3>1, <3>2
  <2>6. ASSUME NEW from \in Incident!RunStates \ Incident!Terminal,
  NEW to \in Incident!RunStates, Incident!Gate(from, to)
        PROVE  state \notin Incident!Terminal /\ SubSeq(trail', 1, Len(trail)) = trail
    BY <2>4, <2>6 DEF Incident!Gate, Incident!RunStates, Incident!Terminal
  <2>7. CASE Incident!Precheck \/ Incident!BeginFastObservation \/ Incident!BeginStabilityObservation \/ Incident!PassStability
    BY <2>6, <2>7
    DEF Incident!Precheck, Incident!BeginFastObservation, Incident!BeginStabilityObservation,
        Incident!PassStability, Incident!RunStates, Incident!Terminal
  <2>8. CASE Incident!Act
    BY <2>8 DEF Incident!Act, Incident!Run
  <2>9. CASE Incident!Commit \/ Incident!Revert \/ Incident!Escalate
    BY <2>4, <2>9 DEF Incident!Commit, Incident!Revert, Incident!Escalate, Incident!Observing,
        Incident!RunStates, Incident!Terminal
  <2> QED
    BY <2>5, <2>7, <2>8, <2>9 DEF Incident!Next
<1> QED
  BY Inductive, <1>1, PTL DEF IncidentSpec, Incident!Spec, FinalStays

-----------------------------------------------------------------------------
(* The audit.  Proposals and Rank over any trail t, to compare two of them. *)

ProposalsOf(t) == {i \in 1 .. Len(t) : t[i].to = "proposed"}
RankOf(t, i) == Cardinality({j \in ProposalsOf(t) : j <= i})
Rows == [action : Actions, to : Incident!RunStates]

\* What TrailTellsRun says of the trail t of the attempts s.
Tells(t, s) ==
    /\ Len(t) > 0 => t[1].to = "proposed"
    /\ Cardinality(ProposalsOf(t)) = Len(s)
    /\ \A i \in ProposalsOf(t) :
         /\ t[i].action = s[RankOf(t, i)]
         /\ i > 1 => t[i - 1] = [action |-> s[RankOf(t, i) - 1], to |-> "reverted"]

Audited ==
    /\ state = "absent" => trail = <<>>
    /\ state # "absent" => Len(Account) > 0 /\ Account[Len(Account)] = [action |-> current, to |-> state]
    /\ Tells(Account, attempted)

\* Once the run is open, each row of the trail is one of the account: whether the
\* first row is missing is settled, as none but a first row is a bare proposal.
LEMMA AccountGrows ==
    ASSUME trail \in Seq(Rows), attempted \in Seq(Actions), Len(attempted) > 0, state # "absent",
           NEW row \in Rows, trail' = Append(trail, row), attempted'[1] = attempted[1],
           state' # "absent", trail = <<>> => row.to # "proposed",
           "proposed" \in Incident!RunStates
    PROVE  Account \in Seq(Rows) /\ Account' = Append(Account, row)
<1>1. Len(trail) \in Nat /\ trail' \in Seq(Rows) /\ Len(trail') = Len(trail) + 1
  OBVIOUS
<1>2. trail'[1] = IF trail = <<>> THEN row ELSE trail[1]
  OBVIOUS
<1>3. trail' # <<>> /\ Unrecorded' = Unrecorded
  <2>1. trail' # <<>>
    BY <1>1
  <2>2. CASE trail = <<>>
    BY <1>2, <2>1, <2>2 DEF Unrecorded
  <2>3. CASE trail # <<>>
    BY <1>2, <2>1, <2>3 DEF Unrecorded
  <2> QED
    BY <2>1, <2>2, <2>3
<1>4. Opening' = Opening
  BY <1>3 DEF Opening
<1>5. Opening \in Seq(Rows)
  <2>1. attempted[1] \in Actions
    OBVIOUS
  <2>2. [action |-> attempted[1], to |-> "proposed"] \in Rows
    BY <2>1 DEF Rows
  <2> QED
    BY <2>2 DEF Opening
<1>6. \A o \in Seq(Rows) : o \o Append(trail, row) = Append(o \o trail, row) /\ o \o trail \in Seq(Rows)
  OBVIOUS
<1> QED
  BY <1>4, <1>5, <1>6 DEF Account

LEMMA ProposalsFinite ==
    ASSUME NEW t \in Seq(Rows), NEW i \in Nat
    PROVE  /\ IsFiniteSet(ProposalsOf(t)) /\ Cardinality(ProposalsOf(t)) \in Nat
           /\ IsFiniteSet({j \in ProposalsOf(t) : j <= i})
           /\ RankOf(t, i) \in Nat /\ RankOf(t, i) <= Cardinality(ProposalsOf(t))
           /\ i \in ProposalsOf(t) => RankOf(t, i) >= 1
<1>1. IsFiniteSet(1 .. Len(t))
  BY FS_Interval
<1>2. IsFiniteSet(ProposalsOf(t))
  BY <1>1, FS_Subset DEF ProposalsOf
<1> DEFINE R == {j \in ProposalsOf(t) : j <= i}
<1>3. IsFiniteSet(R) /\ Cardinality(R) <= Cardinality(ProposalsOf(t))
  BY <1>2, FS_Subset
<1>4. i \in ProposalsOf(t) => Cardinality(R) >= 1
  <2> SUFFICES ASSUME i \in ProposalsOf(t) PROVE Cardinality(R) >= 1
    OBVIOUS
  <2>1. R # {}
    OBVIOUS
  <2> HIDE DEF R
  <2>2. Cardinality(R) \in Nat /\ Cardinality(R) # 0
    BY <1>3, <2>1, FS_EmptySet, FS_CardinalityType
  <2> QED
    BY <2>2
<1> QED
  BY <1>2, <1>3, <1>4, FS_CardinalityType DEF RankOf

\* A proposal that is not the first row is not the first proposal.
LEMMA RankTwo ==
    ASSUME NEW t \in Seq(Rows), NEW i \in ProposalsOf(t), i > 1, t[1].to = "proposed"
    PROVE  RankOf(t, i) >= 2
<1> DEFINE R == {j \in ProposalsOf(t) : j <= i}
<1>1. i \in 1 .. Len(t) /\ 1 \in ProposalsOf(t) /\ i \in Nat
  BY DEF ProposalsOf
<1>2. {1} \union {i} \subseteq R /\ i \notin {1}
  BY <1>1
<1>3. IsFiniteSet({1}) /\ Cardinality({1}) = 1
  BY FS_Singleton
<1>4. IsFiniteSet({1} \union {i}) /\ Cardinality({1} \union {i}) = 2
  <2> DEFINE T == {1}
  <2>1. i \notin T /\ IsFiniteSet(T) /\ Cardinality(T) = 1
    BY <1>2, <1>3
  <2> HIDE DEF T
  <2>2. IsFiniteSet(T \union {i}) /\ Cardinality(T \union {i}) = Cardinality(T) + 1
    BY <2>1, FS_AddElement
  <2>3. IsFiniteSet(T \union {i}) /\ Cardinality(T \union {i}) = 2
    BY <2>1, <2>2
  <2> QED
    BY <2>3 DEF T
<1>5. IsFiniteSet(R)
  BY <1>1, ProposalsFinite
<1> HIDE DEF R
<1>6. Cardinality({1} \union {i}) <= Cardinality(R)
  BY <1>2, <1>5, FS_Subset
<1>7. Cardinality(R) \in Nat
  BY <1>5, FS_CardinalityType
<1> QED
  BY <1>4, <1>6, <1>7 DEF R, RankOf

\* A row that is no proposal changes nothing of what the trail tells.
LEMMA TellsOn ==
    ASSUME NEW t \in Seq(Rows), NEW s, NEW row \in Rows, row.to # "proposed", Len(t) > 0,
           Tells(t, s)
    PROVE  Tells(Append(t, row), s)
<1> DEFINE u == Append(t, row)
<1>1. /\ Len(u) = Len(t) + 1 /\ Len(t) \in Nat /\ u[Len(t) + 1] = row
      /\ \A i \in 1 .. Len(t) : u[i] = t[i]
  OBVIOUS
<1> HIDE DEF u
<1>2. ProposalsOf(u) = ProposalsOf(t)
  BY <1>1 DEF ProposalsOf
<1>3. \A i \in ProposalsOf(t) : i \in 1 .. Len(t) /\ (i > 1 => i - 1 \in 1 .. Len(t))
  BY <1>1 DEF ProposalsOf
<1>4. Tells(u, s)
  BY <1>1, <1>2, <1>3 DEF Tells, RankOf
<1> QED
  BY <1>4 DEF u

\* A proposal after a revert of the last attempt is the next attempt.
LEMMA TellsNext ==
    ASSUME NEW t \in Seq(Rows), NEW s \in Seq(Actions), NEW a \in Actions, Tells(t, s),
           "proposed" \in Incident!RunStates,
           \/ t = <<>> /\ s = <<>>
           \/ /\ Len(t) > 0 /\ Len(s) > 0
              /\ t[Len(t)] = [action |-> s[Len(s)], to |-> "reverted"]
    PROVE  Tells(Append(t, [action |-> a, to |-> "proposed"]), Append(s, a))
<1> DEFINE row == [action |-> a, to |-> "proposed"]
           u == Append(t, row)
           n == Len(t) + 1
           r == Append(s, a)
<1>1. /\ Len(u) = n /\ Len(t) \in Nat /\ u[n] = row /\ row.to = "proposed" /\ row.action = a
      /\ \A i \in 1 .. Len(t) : u[i] = t[i]
      /\ u \in Seq(Rows)
  BY DEF Rows
<1>2. /\ Len(r) = Len(s) + 1 /\ Len(s) \in Nat /\ r[Len(s) + 1] = a
      /\ \A i \in 1 .. Len(s) : r[i] = s[i]
  OBVIOUS
<1>3. CASE Len(t) > 0
  <2>1. Len(s) > 0 /\ t[Len(t)] = [action |-> s[Len(s)], to |-> "reverted"]
    BY <1>3
  <2> HIDE DEF row, u, r
  <2>2. ProposalsOf(u) = ProposalsOf(t) \union {n} /\ n \notin ProposalsOf(t)
    BY <1>1 DEF ProposalsOf
  <2>3. Cardinality(ProposalsOf(u)) = Len(s) + 1
    BY <2>2, FS_AddElement, ProposalsFinite DEF Tells
  <2>4. \A i \in ProposalsOf(t) : RankOf(u, i) = RankOf(t, i) /\ i \in 1 .. Len(t)
    <3> SUFFICES ASSUME NEW i \in ProposalsOf(t) PROVE RankOf(u, i) = RankOf(t, i) /\ i \in 1 .. Len(t)
      OBVIOUS
    <3>1. i \in 1 .. Len(t) /\ ~(n <= i)
      BY <1>1 DEF ProposalsOf
    <3>2. {j \in ProposalsOf(u) : j <= i} = {j \in ProposalsOf(t) : j <= i}
      BY <2>2, <3>1
    <3> QED
      BY <3>1, <3>2 DEF RankOf
  <2>5. RankOf(u, n) = Len(s) + 1
    <3>1. \A j \in ProposalsOf(u) : j <= n
      BY <1>1 DEF ProposalsOf
    <3>2. {j \in ProposalsOf(u) : j <= n} = ProposalsOf(u)
      BY <3>1
    <3> QED
      BY <2>3, <3>2 DEF RankOf
  <2>6. ASSUME NEW i \in ProposalsOf(u)
        PROVE  /\ u[i].action = r[RankOf(u, i)]
               /\ i > 1 => u[i - 1] = [action |-> r[RankOf(u, i) - 1], to |-> "reverted"]
    <3>1. CASE i \in ProposalsOf(t)
      <4>1. i \in 1 .. Len(t) /\ (i > 1 => i - 1 \in 1 .. Len(t)) /\ RankOf(u, i) = RankOf(t, i)
        BY <1>1, <2>4, <3>1
      <4>2. RankOf(t, i) \in 1 .. Len(s)
        <5>1. i \in Nat /\ Cardinality(ProposalsOf(t)) = Len(s)
          BY <4>1 DEF Tells
        <5>2. RankOf(t, i) \in Nat /\ RankOf(t, i) <= Len(s) /\ RankOf(t, i) >= 1
          BY <3>1, <5>1, ProposalsFinite
        <5> QED
          BY <1>2, <5>2
      <4>3. t[i].action = s[RankOf(t, i)] /\ u[i].action = r[RankOf(t, i)]
        BY <1>1, <1>2, <3>1, <4>1, <4>2 DEF Tells
      <4>4. ASSUME i > 1
            PROVE  u[i - 1] = [action |-> r[RankOf(t, i) - 1], to |-> "reverted"]
        <5>1. RankOf(t, i) - 1 \in 1 .. Len(s)
          <6>1. RankOf(t, i) >= 2
            BY <1>3, <3>1, <4>4, RankTwo DEF Tells
          <6> QED
            BY <1>2, <4>2, <6>1
        <5> QED
          BY <1>1, <1>2, <3>1, <4>1, <4>4, <5>1 DEF Tells
      <4> QED
        BY <4>1, <4>3, <4>4
    <3>2. CASE i = n
      <4>1. n - 1 = Len(t) /\ Len(t) \in 1 .. Len(t) /\ Len(s) \in 1 .. Len(s)
            /\ RankOf(u, i) = Len(s) + 1 /\ RankOf(u, i) - 1 = Len(s)
        BY <1>1, <1>2, <1>3, <2>1, <2>5, <3>2
      <4>2. u[n - 1] = t[Len(t)] /\ r[Len(s)] = s[Len(s)]
        BY <1>1, <1>2, <4>1
      <4> QED
        BY <1>1, <1>2, <2>1, <3>2, <4>1, <4>2
    <3> QED
      BY <2>2, <3>1, <3>2
  <2>7. u[1].to = "proposed"
    BY <1>1, <1>3 DEF Tells
  <2>8. Tells(u, r)
    BY <1>2, <2>3, <2>6, <2>7 DEF Tells
  <2> QED
    BY <2>8 DEF u, r, row
<1>4. CASE Len(t) = 0
  <2>1. n = 1 /\ Len(s) = 0
    BY <1>4
  <2> HIDE DEF row, u, r
  <2>2. ProposalsOf(u) = {1}
    BY <1>1, <2>1 DEF ProposalsOf
  <2>3. Cardinality(ProposalsOf(u)) = 1
    BY <2>2, FS_Singleton
  <2>4. RankOf(u, 1) = 1
    <3>1. {j \in ProposalsOf(u) : j <= 1} = {1}
      BY <2>2
    <3> QED
      BY <3>1, FS_Singleton DEF RankOf
  <2>5. Tells(u, r)
    BY <1>1, <1>2, <2>1, <2>2, <2>3, <2>4 DEF Tells
  <2> QED
    BY <2>5 DEF u, r, row
<1> QED
  BY <1>1, <1>3, <1>4

LEMMA AuditedInit == Incident!Init => Audited
<1> SUFFICES ASSUME Incident!Init PROVE Audited
  OBVIOUS
<1>1. trail = <<>> /\ attempted = <<>> /\ state = "absent"
  BY DEF Incident!Init
<1>2. Account = <<>>
  BY <1>1 DEF Account, Opening, Unrecorded
<1>3. ProposalsOf(Account) = {}
  BY <1>2 DEF ProposalsOf
<1> QED
  BY <1>1, <1>2, <1>3, FS_EmptySet DEF Audited, Tells

LEMMA AuditedStep == IInv /\ Audited /\ [Incident!Next]_(Incident!vars) => Audited'
<1> SUFFICES ASSUME IInv, Audited, [Incident!Next]_(Incident!vars) PROVE Audited'
  OBVIOUS
<1>1. /\ trail \in Seq(Rows) /\ attempted \in Seq(Actions)
      /\ state # "absent" => /\ current \in Actions /\ Len(attempted) > 0
                             /\ current = attempted[Len(attempted)]
      /\ state = "absent" => attempted = <<>>
      /\ "proposed" \in Incident!RunStates
  BY DEF IInv, Links, Incident!TypeOK, Rows, Incident!RunStates
\* A call that moves the run without a new attempt adds a row about the last one.
<1>2. ASSUME NEW to \in Incident!RunStates \ {"proposed"}, Incident!Move(to), state # "absent",
attempted' = attempted
      PROVE  Audited'
  <2> DEFINE row == [action |-> current, to |-> to]
  <2>1. row \in Rows /\ row.to # "proposed" /\ Len(Account) > 0
    BY <1>1, <1>2 DEF Rows, Audited
  <2>2. trail' = Append(trail, row) /\ state' = to /\ current' = current
    BY <1>2 DEF Incident!Move, Incident!MoveTo
  <2>3. row = [action |-> current', to |-> state'] /\ state' # "absent"
    BY <1>2, <2>2 DEF Incident!RunStates, Incident!Terminal
  <2> HIDE DEF row
  <2>4. Account \in Seq(Rows) /\ Account' = Append(Account, row)
    BY <1>1, <1>2, <2>1, <2>2, <2>3, AccountGrows
  <2>5. Account'[Len(Account')] = row /\ Len(Account') > 0
    BY <2>1, <2>4
  <2>6. Tells(Account', attempted')
    BY <1>1, <1>2, <2>1, <2>4, TellsOn DEF Audited
  <2> QED
    BY <2>3, <2>5, <2>6 DEF Audited
\* A further attempt: the account ends with the revert of the one before.
<1>3. ASSUME NEW a \in Actions, Incident!MoveTo(a, "proposed"), attempted' = Append(attempted, a),
             state = "reverted"
      PROVE  Audited'
  <2> DEFINE row == [action |-> a, to |-> "proposed"]
  <2>1. trail' = Append(trail, row) /\ state' = "proposed" /\ current' = a /\ row \in Rows
    BY <1>1, <1>3 DEF Incident!MoveTo, Rows
  <2>2. /\ Len(Account) > 0 /\ Len(attempted) > 0
        /\ Account[Len(Account)] = [action |-> attempted[Len(attempted)], to |-> "reverted"]
    BY <1>1, <1>3 DEF Audited
  <2>3. trail # <<>>
    <3>1. ASSUME trail = <<>> PROVE FALSE
      <4>1. Account = <<[action |-> attempted[1], to |-> "proposed"]>>
        BY <1>3, <3>1 DEF Account, Opening, Unrecorded
      <4>2. Account[Len(Account)].to = "proposed"
        BY <4>1
      <4> QED
        BY <2>2, <4>2
    <3> QED
      BY <3>1
  <2>4. attempted'[1] = attempted[1]
    BY <1>1, <1>3, <2>2
  <2>5. Account \in Seq(Rows) /\ Account' = Append(Account, row)
    BY <1>1, <1>3, <2>1, <2>2, <2>3, <2>4, AccountGrows
  <2>6. Account'[Len(Account')] = [action |-> current', to |-> state'] /\ Len(Account') > 0
    BY <2>1, <2>5
  <2>7. Tells(Account', attempted')
    BY <1>1, <1>3, <2>2, <2>5, TellsNext DEF Audited
  <2> QED
    BY <2>1, <2>6, <2>7 DEF Audited
\* The first attempt, with its row or without it.
<1>4. ASSUME NEW a \in Actions, Incident!OpenIncident(a) PROVE Audited'
  <2>1. /\ attempted' = <<a>> /\ current' = a /\ state' = "proposed"
        /\ trail' = <<>> \/ trail' = <<[action |-> a, to |-> "proposed"]>>
    BY <1>4 DEF Incident!OpenIncident, Incident!MoveTo, Audited
  <2>2. Account' = <<[action |-> a, to |-> "proposed"]>>
    <3> DEFINE row == [action |-> a, to |-> "proposed"]
    <3>1. row.to = "proposed" /\ attempted'[1] = a /\ state' # "absent"
      BY <2>1
    <3>2. \A r : <<>> \o <<r>> = <<r>> /\ <<r>> \o <<>> = <<r>> /\ <<r>>[1] = r /\ <<r>> # <<>>
      OBVIOUS
    <3> HIDE DEF row
    <3>3. CASE trail' = <<row>>
      <4>1. ~Unrecorded'
        BY <3>1, <3>2, <3>3 DEF Unrecorded
      <4> QED
        BY <3>2, <3>3, <4>1 DEF Account, Opening, row
    <3>4. CASE trail' = <<>>
      <4>1. Unrecorded'
        BY <3>1, <3>4 DEF Unrecorded
      <4>2. Opening' = <<row>>
        BY <3>1, <4>1 DEF Opening, row
      <4> QED
        BY <3>2, <3>4, <4>2 DEF Account, row
    <3> QED
      BY <2>1, <3>3, <3>4 DEF row
  <2>3. Tells(Append(<<>>, [action |-> a, to |-> "proposed"]), Append(<<>>, a))
    <3>1. Tells(<<>>, <<>>) /\ <<>> \in Seq(Rows) /\ <<>> \in Seq(Actions)
      <4>1. ProposalsOf(<<>>) = {}
        BY DEF ProposalsOf
      <4>2. Cardinality(ProposalsOf(<<>>)) = Len(<<>>)
        BY <4>1, FS_EmptySet
      <4>3. Tells(<<>>, <<>>)
        BY <4>1, <4>2 DEF Tells
      <4> QED
        BY <4>3
    <3> QED
      BY <1>1, <1>4, <3>1, TellsNext
  <2>4. Tells(Account', attempted')
    BY <2>1, <2>2, <2>3
  <2> QED
    BY <2>1, <2>2, <2>4 DEF Audited
<1>5. ASSUME NEW a \in Actions, Incident!ProposeNext(a) PROVE Audited'
  <2>1. /\ state = "reverted"
        /\ \/ attempted' = Append(attempted, a) /\ Incident!MoveTo(a, "proposed")
           \/ Incident!Move("escalated") /\ attempted' = attempted
    BY <1>5 DEF Incident!ProposeNext
  <2> QED
    BY <1>2, <1>3, <2>1 DEF Incident!RunStates, Incident!Terminal
<1>6. ASSUME NEW from \in Incident!RunStates, NEW to \in Incident!RunStates \ {"proposed"},
Incident!Gate(from, to)
      PROVE  Audited'
  <2>1. PICK next \in Incident!RunStates \ {"proposed"} : Incident!Move(next)
    BY <1>6 DEF Incident!Gate, Incident!RunStates, Incident!Terminal
  <2> QED
    BY <1>2, <1>6, <2>1 DEF Incident!Gate, Incident!Run, Incident!RunStates, Incident!Terminal
<1>7. CASE Incident!Precheck \/ Incident!BeginFastObservation \/ Incident!BeginStabilityObservation \/ Incident!PassStability
  BY <1>6, <1>7
  DEF Incident!Precheck, Incident!BeginFastObservation, Incident!BeginStabilityObservation,
      Incident!PassStability, Incident!RunStates, Incident!Terminal
<1>8. CASE Incident!Commit \/ Incident!Revert \/ Incident!Escalate
  BY <1>2, <1>8 DEF Incident!Commit, Incident!Revert, Incident!Escalate, Incident!Run,
      Incident!Observing, Incident!RunStates, Incident!Terminal
<1>9. CASE Incident!Act \/ UNCHANGED Incident!vars
  BY <1>9 DEF Incident!Act, Incident!Run, Incident!vars, Audited, Account, Opening, Unrecorded
<1> QED
  BY <1>4, <1>5, <1>7, <1>8, <1>9 DEF Incident!Next

\* The audit of any incident, of any length, tells which actions were tried, in
\* their order, and that each further one came after the revert of the one
\* before (_record, from which an operator reads the run); only the first row
\* can be missing, when open_incident() was given a time the record refuses.
THEOREM Told == IncidentSpec => []TrailTellsRun
<1>1. Audited => TrailTellsRun
  BY DEF Audited, Tells, TrailTellsRun, Proposals, Rank, ProposalsOf, RankOf
<1> QED
  BY AuditedInit, AuditedStep, Inductive, <1>1, PTL DEF IncidentSpec, Incident!Spec
=============================================================================
