-------------------------- MODULE ChangeControl_proof --------------------------
(***************************************************************************)
(* Safety of device changes, for all changes, plans, devices, threads and  *)
(* numbers of disturbances: typing, the lease, one run per change, no      *)
(* orphan after a restart, the cap of the rule, and what a change has left *)
(* on its device when it is recorded as rolled back or as succeeded.       *)
(***************************************************************************)
EXTENDS ChangeControl, FiniteSetTheorems, WellFoundedInduction, TLAPS

\* Where a worker stands fits the plan of its change.
Located(w) ==
    /\ work[w].at # "idle" => /\ work[w].chg \in Changes
                              /\ work[w].tried \in 0 .. Len(Plan[work[w].chg])
    /\ work[w].at \in {"check", "apply", "readback", "undo", "undoApply", "undoReadback"}
         => work[w].op \in Ops(work[w].chg)
    /\ work[w].at \in {"granted", "admitted"} => work[w].restoring = FALSE

Shape == TypeOK /\ \A w \in Workers : Located(w)

-----------------------------------------------------------------------------
(* UpTo(), which picks a largest element                                   *)

LEMMA Least ==
    ASSUME NEW T \in SUBSET Nat, T # {}
    PROVE  \E x \in T : \A y \in T : x <= y
  <1> DEFINE R == {ss \in Nat \X Nat : ss[1] < ss[2]}
  <1>1. IsWellFoundedOn(R, Nat)
    BY NatLessThanWellFounded DEF OpToRel
  <1>2. PICK x \in T : \A y \in T : ~ (<<y, x>> \in R)
    <2> HIDE DEF R
    <2> QED BY <1>1, WFMin
  <1>3. ASSUME NEW y \in T PROVE x <= y
    <2>1. x \in Nat /\ y \in Nat
      OBVIOUS
    <2>2. ~(y < x)
      BY <1>2, <2>1
    <2> QED BY <2>1, <2>2
  <1> QED BY <1>3

LEMMA Greatest ==
    ASSUME NEW n \in Nat, NEW T \in SUBSET (0 .. n), T # {}
    PROVE  \E x \in T : \A y \in T : y <= x
  <1> DEFINE U == {n - x : x \in T}
  <1>1. U \in SUBSET Nat /\ U # {}
    <2>1. \A x \in T : n - x \in Nat /\ n - x \in U
      OBVIOUS
    <2> QED BY <2>1
  <1>2. PICK u \in U : \A v \in U : u <= v
    <2> HIDE DEF U
    <2> QED BY <1>1, Least
  <1>3. PICK x \in T : u = n - x
    OBVIOUS
  <1>4. \A y \in T : n - x <= n - y
    BY <1>2, <1>3
  <1>5. \A y \in T : y <= x
    BY <1>4
  <1> QED BY <1>5

LEMMA UpToBounded ==
    ASSUME NEW c \in Changes, NEW i \in Nat
    PROVE  UpTo(c, i) \in 0 .. i
  <1> DEFINE F == {j \in 1 .. i : First(c, j)}
  <1>1. CASE F = {}
    BY <1>1 DEF UpTo
  <1>2. CASE F # {}
    <2>1. \E x \in F : \A y \in F : y <= x
      <3>1. F \in SUBSET (0 .. i)
        OBVIOUS
      <3> HIDE DEF F
      <3> QED BY <1>2, <3>1, Greatest
    <2>2. UpTo(c, i) \in F
      <3>1. UpTo(c, i) = CHOOSE x \in F : \A y \in F : y <= x
        BY <1>2 DEF UpTo
      <3> HIDE DEF F
      <3> QED BY <2>1, <3>1
    <2> QED BY <2>2
  <1> QED BY <1>1, <1>2

-----------------------------------------------------------------------------
(* Types                                                                   *)

LEMMA Planned ==
    ASSUME NEW c \in Changes
    PROVE  /\ Len(Plan[c]) \in Nat \ {0} /\ 1 \in Ops(c) /\ DeviceOf[c] \in Devices
           /\ \A i \in Ops(c) : /\ Op(c, i).key \in Keys /\ Op(c, i).after \in Values
                                /\ Op(c, i).key \in KeysOf(c)
  <1> DEFINE S == [key : Keys, after : Values, irreversible : BOOLEAN]
  <1>1. Plan[c] \in Seq(S) /\ Len(Plan[c]) > 0
    BY ConstantsAssumption
  <1>2. Len(Plan[c]) \in Nat \ {0} /\ 1 \in Ops(c) /\ DeviceOf[c] \in Devices
    BY <1>1, ConstantsAssumption DEF Ops
  <1>3. ASSUME NEW i \in Ops(c)
        PROVE  Op(c, i).key \in Keys /\ Op(c, i).after \in Values /\ Op(c, i).key \in KeysOf(c)
    <2>1. Plan[c][i] \in S
      <3> HIDE DEF S
      <3> QED BY <1>1 DEF Ops
    <2>2. Op(c, i).key \in Keys /\ Op(c, i).after \in Values
      BY <2>1 DEF Op
    <2>3. Op(c, i).key \in KeysOf(c)
      BY DEF KeysOf
    <2> QED BY <2>2, <2>3
  <1> QED BY <1>2, <1>3

\* A worker's step: the others stay where they are.
LEMMA OneMoves ==
    ASSUME Shape, NEW w \in Workers, NEW r \in Work, work' = [work EXCEPT ![w] = r],
           r.at # "idle" => r.chg \in Changes /\ r.tried \in 0 .. Len(Plan[r.chg]),
           r.at \in {"check", "apply", "readback", "undo", "undoApply", "undoReadback"}
             => r.op \in Ops(r.chg),
           r.at \in {"granted", "admitted"} => r.restoring = FALSE
    PROVE  work' \in [Workers -> Work] /\ \A v \in Workers : Located(v)'
  <1>1. \A v \in Workers : work'[v] = IF v = w THEN r ELSE work[v]
    BY DEF Shape, TypeOK
  <1>2. work' \in [Workers -> Work]
    BY DEF Shape, TypeOK
  <1>3. \A v \in Workers : Located(v)'
    BY <1>1 DEF Shape, Located, Ops
  <1> QED BY <1>2, <1>3

Typed == work' \in [Workers -> Work] /\ \A v \in Workers : Located(v)'

LEMMA Idling == Idle \in Work /\ Idle.at = "idle" /\ Idle.tried = 0 /\ Idle.restoring = FALSE
  BY DEF Idle, Work, Places

\* Move(w, p) and its kind, as one new record of the worker.
LEMMA Places1 ==
    ASSUME Shape, NEW w \in Workers, NEW p \in Places \ {"idle", "granted", "admitted"}, Move(w, p),
           work[w].at # "idle",
           p \in {"check", "apply", "readback", "undo", "undoApply", "undoReadback"}
             => work[w].op \in Ops(work[w].chg)
    PROVE  Typed
  <1> DEFINE r == [work[w] EXCEPT !.at = p]
  <1>1. work[w] \in Work /\ work' = [work EXCEPT ![w] = r]
    BY DEF Shape, TypeOK, Move
  <1>2. r \in Work
    BY <1>1 DEF Work
  <1>3. r.at = p /\ r.chg = work[w].chg /\ r.op = work[w].op /\ r.tried = work[w].tried
    BY <1>1 DEF Work
  <1>4. Located(w)
    BY DEF Shape
  <1> HIDE DEF r
  <1> QED BY <1>1, <1>2, <1>3, <1>4, OneMoves DEF Typed, Located

LEMMA Stops ==
    ASSUME Shape, NEW w \in Workers, Stop(w)
    PROVE  Typed
  <1>1. Idle \in Work /\ Idle.at = "idle"
    BY Idling
  <1> QED BY <1>1, OneMoves DEF Typed, Stop

LEMMA Recovers ==
    ASSUME Shape, NEW w \in Workers, work[w].at # "idle",
           NEW n \in 0 .. Len(Plan[work[w].chg]), ToRecovery(w, n)
    PROVE  Typed
  <1>1. work[w] \in Work /\ work[w].chg \in Changes /\ Len(Plan[work[w].chg]) \in Nat
    BY Planned DEF Shape, TypeOK, Located
  <1>2. UpTo(work[w].chg, n) \in 0 .. n
    BY <1>1, UpToBounded
  <1> DEFINE last == UpTo(work[w].chg, n)
             p == IF last = 0 THEN "health" ELSE "undo"
             r == [work[w] EXCEPT !.at = p, !.op = last, !.tried = n]
  <1>3. work' = [work EXCEPT ![w] = r]
    BY DEF ToRecovery
  <1>4. p \in Places \ {"idle", "granted", "admitted"} /\ last \in Nat /\ n \in Nat
    BY <1>1, <1>2 DEF Places, Recovering
  <1>5. r.at = p /\ r.chg = work[w].chg /\ r.op = last /\ r.tried = n
    BY <1>1 DEF Work
  <1>6. r \in Work
    <2> HIDE DEF p, last
    <2> QED BY <1>1, <1>4 DEF Work
  <1>7. p \in {"check", "apply", "readback", "undo", "undoApply", "undoReadback"}
          => last \in Ops(work[w].chg)
    BY <1>1, <1>2 DEF Ops
  <1> HIDE DEF r, p, last
  <1> QED BY <1>1, <1>3, <1>4, <1>5, <1>6, <1>7, OneMoves DEF Typed

LEMMA Undoes ==
    ASSUME Shape, NEW w \in Workers, work[w].at # "idle", work[w].op \in Ops(work[w].chg),
           NEW f \in BOOLEAN, NextUndo(w, f)
    PROVE  Typed
  <1>1. /\ work[w] \in Work /\ work[w].chg \in Changes /\ Len(Plan[work[w].chg]) \in Nat
        /\ work[w].tried \in 0 .. Len(Plan[work[w].chg])
    BY Planned DEF Shape, TypeOK, Located
  <1>2. work[w].op - 1 \in Nat /\ work[w].op <= Len(Plan[work[w].chg]) /\ work[w].op \in Nat
    BY <1>1 DEF Ops
  <1> DEFINE prior == UpTo(work[w].chg, work[w].op - 1)
             p == IF prior = 0 THEN "health" ELSE "undo"
             g == work[w].failed \/ f
             r == [work[w] EXCEPT !.at = p, !.op = prior, !.failed = g]
  <1>3. prior \in 0 .. work[w].op - 1
    BY <1>1, <1>2, UpToBounded
  <1>4. work' = [work EXCEPT ![w] = r]
    BY DEF NextUndo
  <1>5. p \in Places \ {"idle", "granted", "admitted"} /\ prior \in Nat
    BY <1>2, <1>3 DEF Places, Recovering
  <1>6. r.at = p /\ r.chg = work[w].chg /\ r.op = prior /\ r.tried = work[w].tried
    BY <1>1 DEF Work
  <1>7. g \in BOOLEAN
    OBVIOUS
  <1>8. r \in Work
    <2> HIDE DEF p, prior, g
    <2> QED BY <1>1, <1>5, <1>7 DEF Work
  <1>9. p \in {"check", "apply", "readback", "undo", "undoApply", "undoReadback"}
          => prior \in Ops(work[w].chg)
    BY <1>1, <1>2, <1>3 DEF Ops
  <1> HIDE DEF r, p, prior
  <1> QED BY <1>1, <1>4, <1>5, <1>6, <1>8, <1>9, OneMoves DEF Typed

\* All types but the workers'.
Stored ==
    /\ status \in [Changes -> Statuses]
    /\ approved \in [Changes -> BOOLEAN]
    /\ aborted \in [Changes -> BOOLEAN]
    /\ before \in [Changes -> [Keys -> Values]]
    /\ lease \in [Devices -> Changes \union {None}]
    /\ uses \subseteq Changes
    /\ expired \in [Changes -> BOOLEAN]
    /\ cfg \in [Keys -> Values]
    /\ paused \in BOOLEAN
    /\ up \in BOOLEAN
    /\ abortSeen \in [Changes -> Statuses \union {None}]
    /\ disturbances \in Nat
    /\ author \in [Keys -> Changes \union {None, Other}]
    /\ unproven \in [Changes -> BOOLEAN]
    /\ runs \in [Changes -> Nat]
    /\ automatic \subseteq Changes

LEMMA ShapeSplit == Shape <=> Stored /\ work \in [Workers -> Work] /\ \A w \in Workers : Located(w)
  BY DEF Shape, Stored, TypeOK

LEMMA Drops ==
    ASSUME lease \in [Devices -> Changes \union {None}], NEW c, Drop(c)
    PROVE  lease' \in [Devices -> Changes \union {None}]
  <1>1. \A d \in Devices : lease[d] \in Changes \union {None}
    OBVIOUS
  <1> QED BY <1>1 DEF Drop

LEMMA ShapeInit == Init => Shape
  <1> SUFFICES ASSUME Init PROVE Shape
    OBVIOUS
  <1> USE DEF Init
  <1>1. Stored
    BY ConstantsAssumption DEF Stored, Statuses
  <1>2. work \in [Workers -> Work] /\ \A w \in Workers : Located(w)
    BY Idling DEF Located
  <1> QED BY <1>1, <1>2, ShapeSplit

\* The steps of execute(), _recover() and restore() change workers by the helpers
\* above, and statuses, leases and items by values of their types.
LEMMA ProgressShape ==
    ASSUME Shape, NEW w \in Workers, Progress(w)
    PROVE  Typed /\ Stored'
  <1> DEFINE c == work[w].chg
  <1>1. Stored /\ work \in [Workers -> Work] /\ Located(w)
    BY ShapeSplit
  <1>2. work[w].at # "idle" => c \in Changes /\ Len(Plan[c]) \in Nat \ {0}
    BY <1>1, Planned DEF Located
  <1>3. CASE ApproveByRule(w)
    <2>1. Typed
      BY <1>3, Stops DEF ApproveByRule
    <2>2. c \in Changes
      BY <1>2, <1>3 DEF ApproveByRule, At
    <2> QED BY <1>1, <1>3, <2>1, <2>2 DEF ApproveByRule, Stored, Set, Statuses, Environment
  <1>4. CASE Begin(w)
    <2>1. c \in Changes /\ DeviceOf[c] \in Devices /\ work[w].at = "admitted"
      BY <1>2, <1>4, Planned DEF Begin, At
    <2>2. Typed
      BY <1>4, <2>1, Stops, Places1 DEF Begin, Places, Running
    <2>3. status' \in [Changes -> Statuses]
      BY <1>1, <1>4, <2>1 DEF Begin, Stored, Set, Statuses, Active
    <2>4. lease' \in [Devices -> Changes \union {None}] /\ runs' \in [Changes -> Nat]
      BY <1>1, <1>4, <2>1 DEF Begin, Stored, Take
    <2> QED BY <1>1, <1>4, <2>2, <2>3, <2>4 DEF Begin, Stored, Environment
  <1>5. CASE Connect(w)
    <2>1. c \in Changes /\ work[w].at = "connect"
      BY <1>2, <1>5 DEF Connect, At
    <2>2. Typed
      BY <1>5, <2>1, Stops, Places1 DEF Connect, Places, Running
    <2>3. status' \in [Changes -> Statuses]
      BY <1>1, <1>5, <2>1 DEF Connect, Stored, Set, Statuses, Settled
    <2>4. lease' \in [Devices -> Changes \union {None}]
      BY <1>1, <1>5, <2>1, Drops DEF Connect, Stored
    <2> QED BY <1>1, <1>5, <2>2, <2>3, <2>4 DEF Connect, Stored, Environment, history
  <1>6. CASE Verify(w)
    <2>1. /\ c \in Changes /\ work[w].at = "verify" /\ work[w] \in Work
          /\ work[w].tried \in 0 .. Len(Plan[c])
      BY <1>1, <1>2, <1>6 DEF Verify, At, Located
    <2> DEFINE r == [work[w] EXCEPT !.at = "check", !.op = 1]
    <2>2. r \in Work /\ r.at = "check" /\ r.chg = c /\ r.op = 1 /\ r.tried = work[w].tried
      BY <2>1 DEF Work, Places, Running
    <2>3. 1 \in Ops(c) /\ work' = [work EXCEPT ![w] = r]
      BY <1>6, <2>1, Planned DEF Verify
    <2>4. Typed
      <3> HIDE DEF r
      <3> QED BY <2>1, <2>2, <2>3, OneMoves DEF Typed
    <2> QED BY <1>1, <1>6, <2>4 DEF Verify, Stored, stored, Environment, history
  <1>7. CASE Check(w)
    <2>1. work[w].at = "check" /\ work[w].op \in Ops(c)
      BY <1>1, <1>7 DEF Check, At, Located
    <2>2. Typed
      BY <1>7, <2>1, Places1 DEF Check, Places, Running
    <2> QED BY <1>1, <1>7, <2>2 DEF Check, Stored, stored, Environment, history
  <1>8. CASE Apply(w)
    <2>1. /\ c \in Changes /\ work[w].at = "apply" /\ work[w].op \in Ops(c) /\ work[w] \in Work
          /\ work[w].op \in 0 .. Len(Plan[c]) /\ Len(Plan[c]) \in Nat
      BY <1>1, <1>2, <1>8 DEF Apply, At, Located, Ops
    <2>2. Op(c, work[w].op).key \in Keys /\ Op(c, work[w].op).after \in Values
      BY <2>1, Planned
    <2>3. ASSUME ToRecovery(w, work[w].op) PROVE Typed
      BY <2>1, <2>3, Recovers
    <2>4. ASSUME work' = [work EXCEPT ![w].at = "readback", ![w].tried = work[w].op] PROVE Typed
      <3> DEFINE r == [work[w] EXCEPT !.at = "readback", !.tried = work[w].op]
      <3>1. r \in Work /\ r.at = "readback" /\ r.chg = c /\ r.op = work[w].op /\ r.tried = work[w].op
        BY <2>1 DEF Work, Places, Running
      <3>2. work' = [work EXCEPT ![w] = r]
        BY <2>4
      <3> HIDE DEF r
      <3> QED BY <2>1, <3>1, <3>2, OneMoves DEF Typed
    <2>5. Typed
      BY <1>8, <2>3, <2>4 DEF Apply
    <2> QED BY <1>1, <1>8, <2>1, <2>2, <2>5 DEF Apply, Stored, stored, Environment
  <1>9. CASE Readback(w)
    <2>1. /\ c \in Changes /\ work[w].at = "readback" /\ work[w].op \in Ops(c) /\ work[w] \in Work
          /\ work[w].tried \in 0 .. Len(Plan[c]) /\ Len(Plan[c]) \in Nat
      BY <1>1, <1>2, <1>9 DEF Readback, At, Located
    <2>2. CASE /\ work[w].op < Len(Plan[c])
               /\ work' = [work EXCEPT ![w].at = "check", ![w].op = work[w].op + 1]
               /\ UNCHANGED status
      <3> DEFINE o == work[w].op + 1
                 r == [work[w] EXCEPT !.at = "check", !.op = o]
      <3>1. o \in Ops(c) /\ o \in Nat
        BY <2>1, <2>2 DEF Ops
      <3>2. work' = [work EXCEPT ![w] = r]
        BY <2>2
      <3> HIDE DEF o
      <3>3. r \in Work /\ r.at = "check" /\ r.chg = c /\ r.op = o /\ r.tried = work[w].tried
        BY <2>1, <3>1 DEF Work, Places, Running
      <3> HIDE DEF r
      <3>4. Typed
        BY <2>1, <3>1, <3>2, <3>3, OneMoves DEF Typed
      <3> QED BY <1>1, <1>9, <2>2, <3>4 DEF Readback, Stored, Environment, history
    <2>3. CASE Set(c, "observing") /\ Move(w, "sample")
      <3>1. Typed
        BY <2>1, <2>3, Places1 DEF Places, Running
      <3> QED BY <1>1, <1>9, <2>1, <2>3, <3>1 DEF Readback, Stored, Set, Statuses, Active, Environment, history
    <2> QED BY <1>9, <2>2, <2>3 DEF Readback
  <1>10. CASE Sample(w)
    <2>1. /\ c \in Changes /\ work[w].at = "sample" /\ work[w] \in Work
          /\ work[w].tried \in 0 .. Len(Plan[c])
      BY <1>1, <1>2, <1>10 DEF Sample, At, Located
    <2>2. PICK ok \in BOOLEAN :
            work' = [work EXCEPT ![w].taken = @ + 1, ![w].streak = Streak(w, ok)]
      BY <1>10 DEF Sample
    <2> DEFINE t == work[w].taken + 1
               s == Streak(w, ok)
               r == [work[w] EXCEPT !.taken = t, !.streak = s]
    <2>3. t \in Nat /\ s \in Int
      BY <2>1 DEF Work, Streak
    <2>4. work' = [work EXCEPT ![w] = r]
      BY <2>2
    <2> HIDE DEF t, s
    <2>5. r \in Work /\ r.at = "sample" /\ r.chg = c /\ r.tried = work[w].tried
      BY <2>1, <2>3 DEF Work
    <2>6. Typed
      <3> HIDE DEF r
      <3> QED BY <2>1, <2>4, <2>5, OneMoves DEF Typed
    <2> QED BY <1>1, <1>10, <2>6 DEF Sample, Stored, stored, Environment, history
  <1>11. CASE Conclude(w)
    <2>1. work[w].at = "sample"
      BY <1>11 DEF Conclude, At
    <2>2. Typed
      BY <1>11, <2>1, Places1 DEF Conclude, Places, Running
    <2> QED BY <1>1, <1>11, <2>2 DEF Conclude, Stored, stored, Environment, history
  <1>12. CASE Finish(w)
    <2>1. c \in Changes
      BY <1>2, <1>12 DEF Finish, At
    <2>2. Typed
      BY <1>12, Stops DEF Finish
    <2> QED BY <1>1, <1>12, <2>1, <2>2 DEF Finish, Stored, Set, Drop, Statuses, Settled, Environment
  <1>13. CASE GiveUp(w)
    <2>1. work[w].at # "idle" /\ work[w].tried \in 0 .. Len(Plan[c])
      BY <1>1, <1>13 DEF GiveUp, Running, Located
    <2>2. Typed
      BY <1>13, <2>1, Recovers DEF GiveUp
    <2> QED BY <1>1, <1>13, <2>2 DEF GiveUp, Stored, stored, Environment, history
  <1>14. CASE Undo(w)
    <2>1. work[w].at = "undo" /\ work[w].op \in Ops(c)
      BY <1>1, <1>14 DEF Undo, At, Located
    <2>2. NextUndo(w, TRUE) \/ NextUndo(w, FALSE) \/ Move(w, "undoApply")
      BY <1>14 DEF Undo
    <2>3. Typed
      BY <2>1, <2>2, Undoes, Places1 DEF Places, Recovering
    <2> QED BY <1>1, <1>14, <2>3 DEF Undo, Stored, stored, Environment, history
  <1>15. CASE UndoApply(w)
    <2>1. c \in Changes /\ work[w].at = "undoApply" /\ work[w].op \in Ops(c)
      BY <1>1, <1>2, <1>15 DEF UndoApply, At, Located
    <2>2. NextUndo(w, TRUE) \/ Move(w, "undoReadback")
      BY <1>15 DEF UndoApply
    <2>3. Typed
      BY <2>1, <2>2, Undoes, Places1 DEF Places, Recovering
    <2>4. Op(c, work[w].op).key \in Keys /\ before[c][Op(c, work[w].op).key] \in Values
      BY <1>1, <2>1, Planned DEF Stored
    <2> QED BY <1>1, <1>15, <2>1, <2>3, <2>4 DEF UndoApply, Stored, stored, Environment
  <1>16. CASE UndoReadback(w)
    <2>1. work[w].at = "undoReadback" /\ work[w].op \in Ops(c)
      BY <1>1, <1>16 DEF UndoReadback, At, Located
    <2>2. Typed
      BY <1>16, <2>1, Undoes DEF UndoReadback
    <2> QED BY <1>1, <1>16, <2>2 DEF UndoReadback, Stored, stored, Environment, history
  <1>17. CASE Close(w)
    <2>1. c \in Changes /\ work[w].at = "health"
      BY <1>2, <1>17 DEF Close, At
    <2>2. Typed
      BY <1>17, <2>1, Stops, Places1 DEF Close, Places
    <2>3. status' \in [Changes -> Statuses]
      BY <1>1, <1>17, <2>1 DEF Close, Stored, Set, Statuses, Settled
    <2>4. lease' \in [Devices -> Changes \union {None}]
      BY <1>1, <1>17, <2>1, Drops DEF Close, Stored
    <2>5. unproven' \in [Changes -> BOOLEAN]
      BY <1>1, <1>17, <2>1 DEF Close, Stored
    <2> QED BY <1>1, <1>17, <2>2, <2>3, <2>4, <2>5 DEF Close, Stored, Environment
  <1>18. CASE Reconnect(w)
    <2>1. c \in Changes /\ work[w].at = "reconnect" /\ Len(Plan[c]) \in 0 .. Len(Plan[c])
      BY <1>2, <1>18 DEF Reconnect, At
    <2>2. Typed
      BY <1>18, <2>1, Stops, Recovers DEF Reconnect
    <2> QED BY <1>1, <1>18, <2>1, <2>2 DEF Reconnect, Stored, Set, Statuses, Settled, Environment, history
  <1>19. CASE Restored(w)
    <2>1. c \in Changes
      BY <1>2, <1>19 DEF Restored, At
    <2>2. Typed
      BY <1>19, Stops DEF Restored
    <2> QED BY <1>1, <1>19, <2>1, <2>2 DEF Restored, Stored, Set, Statuses, Settled, Environment, history
  <1> QED BY <1>3, <1>4, <1>5, <1>6, <1>7, <1>8, <1>9, <1>10, <1>11, <1>12, <1>13, <1>14, <1>15,
             <1>16, <1>17, <1>18, <1>19 DEF Progress

LEMMA ShapeStep == Shape /\ [Next]_vars => Shape'
  <1> SUFFICES ASSUME Shape, [Next]_vars PROVE Typed /\ Stored'
    BY DEF Shape, Stored, TypeOK, Typed
  <1>0. Stored /\ work \in [Workers -> Work] /\ \A w \in Workers : Located(w)
    BY ShapeSplit
  <1>1. ASSUME work' = work PROVE Typed
    BY <1>0, <1>1 DEF Typed, Located
  <1>2. ASSUME NEW w \in Workers, Progress(w) PROVE Typed /\ Stored'
    BY <1>2, ProgressShape
  <1>3. ASSUME NEW w \in Workers, NEW c \in Changes, NEW r \in Work, work' = [work EXCEPT ![w] = r],
               r.at \in {"granted", "admitted", "reconnect"}, r.chg = c, r.tried = 0,
               r.at # "reconnect" => r.restoring = FALSE
        PROVE  Typed
    <2>1. Len(Plan[c]) \in Nat
      BY Planned
    <2>2. r.chg \in Changes /\ r.tried \in 0 .. Len(Plan[r.chg])
      BY <1>3, <2>1
    <2> QED BY <1>3, <2>2, OneMoves DEF Typed
  <1>4. ASSUME NEW w \in Workers, NEW c \in Changes, UseRule(w, c) PROVE Typed /\ Stored'
    <2> DEFINE r == [Idle EXCEPT !.at = "granted", !.chg = c]
    <2>1. r \in Work /\ r.at = "granted" /\ r.chg = c /\ r.tried = 0 /\ r.restoring = FALSE
      BY Idling DEF Work, Places
    <2>2. work' = [work EXCEPT ![w] = r]
      BY <1>4 DEF UseRule
    <2>3. Typed
      <3> HIDE DEF r
      <3> QED BY <1>3, <2>1, <2>2
    <2> QED BY <1>0, <1>4, <2>3 DEF UseRule, Stored, Environment, history
  <1>5. ASSUME NEW w \in Workers, NEW c \in Changes, Admit(w, c) PROVE Typed /\ Stored'
    <2> DEFINE r == [Idle EXCEPT !.at = "admitted", !.chg = c]
    <2>1. r \in Work /\ r.at = "admitted" /\ r.chg = c /\ r.tried = 0 /\ r.restoring = FALSE
      BY Idling DEF Work, Places
    <2>2. work' = [work EXCEPT ![w] = r]
      BY <1>5 DEF Admit
    <2>3. Typed
      <3> HIDE DEF r
      <3> QED BY <1>3, <2>1, <2>2
    <2> QED BY <1>0, <1>5, <2>3 DEF Admit, Stored, stored, Environment, history
  <1>6. ASSUME NEW w \in Workers, NEW c \in Changes, BeginRestore(w, c) PROVE Typed /\ Stored'
    <2> DEFINE r == [Idle EXCEPT !.at = "reconnect", !.chg = c, !.restoring = TRUE]
    <2>1. r \in Work /\ r.at = "reconnect" /\ r.chg = c /\ r.tried = 0
      BY Idling DEF Work, Places
    <2>2. work' = [work EXCEPT ![w] = r]
      BY <1>6 DEF BeginRestore
    <2>3. Typed
      <3> HIDE DEF r
      <3> QED BY <1>3, <2>1, <2>2
    <2>4. status' \in [Changes -> Statuses] /\ lease' \in [Devices -> Changes \union {None}]
      BY <1>0, <1>6, Planned DEF BeginRestore, Stored, Set, Take, Statuses, Active
    <2> QED BY <1>0, <1>6, <2>3, <2>4 DEF BeginRestore, Stored, Environment, history
  <1>7. ASSUME NEW c \in Changes, Operator(c) PROVE Typed /\ Stored'
    <2>1. Typed
      BY <1>1, <1>7 DEF Operator, Prepare, Approve, Cancel, AbortRead, AbortWrite, Expire, Lapse
    <2>2. CASE Prepare(c)
      <3>1. [k \in Keys |-> IF k \in KeysOf(c) THEN cfg[k] ELSE before[c][k]] \in [Keys -> Values]
        BY <1>0 DEF Stored
      <3> QED BY <1>0, <2>1, <2>2, <3>1 DEF Prepare, Stored, Set, Statuses, Environment, history
    <2>3. CASE Approve(c) \/ Cancel(c) \/ Expire(c)
      BY <1>0, <2>1, <2>3 DEF Approve, Cancel, Expire, Stored, Set, Statuses, Settled, Environment, history
    <2>4. CASE AbortRead(c) \/ Lapse(c)
      <3>1. disturbances' \in Nat
        BY <1>0, <2>4 DEF AbortRead, Lapse, Disturb, Stored
      <3>2. abortSeen' \in [Changes -> Statuses \union {None}] /\ expired' \in [Changes -> BOOLEAN]
        BY <1>0, <2>4 DEF AbortRead, Lapse, Stored
      <3> QED BY <1>0, <2>1, <2>4, <3>1, <3>2 DEF AbortRead, Lapse, Stored, stored, history
    <2>5. CASE AbortWrite(c)
      BY <1>0, <2>1, <2>5 DEF AbortWrite, Stored, Set, history
    <2> QED BY <1>7, <2>2, <2>3, <2>4, <2>5 DEF Operator
  <1>8. ASSUME NEW k \in Keys, NEW v \in Values, Drift(k, v) PROVE Typed /\ Stored'
    BY <1>0, <1>1, <1>8 DEF Drift, Disturb, Stored, stored
  <1>9. CASE SetControl
    BY <1>0, <1>1, <1>9 DEF SetControl, Disturb, Stored, stored, history
  <1>10. CASE Crash
    <2>1. Typed
      BY <1>10, Idling DEF Crash, Typed, Located
    <2>2. disturbances' \in Nat /\ abortSeen' \in [Changes -> Statuses \union {None}]
      BY <1>0, <1>10 DEF Crash, Disturb, Stored
    <2> QED BY <1>0, <1>10, <2>1, <2>2 DEF Crash, Stored, stored, history
  <1>11. CASE Start
    <2>1. status' \in [Changes -> Statuses]
      BY <1>0, <1>11 DEF Start, Stored, Statuses, Settled
    <2> QED BY <1>0, <1>1, <1>11, <2>1 DEF Start, Stored, history
  <1>12. CASE UNCHANGED vars
    BY <1>0, <1>1, <1>12 DEF vars, Stored, stored, history
  <1> QED BY <1>2, <1>4, <1>5, <1>6, <1>7, <1>8, <1>9, <1>10, <1>11, <1>12 DEF Next

\* Every variable and every worker keeps its type.
THEOREM TypeCorrect == Spec => []TypeOK
  <1>1. Spec => []Shape
    BY ShapeInit, ShapeStep, PTL DEF Spec
  <1>2. Shape => TypeOK
    BY DEF Shape
  <1> QED BY <1>1, <1>2, PTL

-----------------------------------------------------------------------------
(* The lease                                                               *)

Holding == \A w \in Workers : Busy(w) => up /\ lease[DeviceOf[work[w].chg]] = work[w].chg
Alone == \A v, w \in Workers : v # w /\ Busy(v) /\ Busy(w) => work[v].chg # work[w].chg
Marked == \A w \in Workers : Busy(w) => (work[w].restoring <=> status[work[w].chg] = "restoring")

\* A change that is about to connect has written nothing and was never observed.
Fresh == \A w \in Workers : work[w].at = "connect" =>
            /\ work[w].restoring = FALSE
            /\ ~unproven[work[w].chg]
            /\ status[work[w].chg] # "observing"
            /\ abortSeen[work[w].chg] # "observing"

\* What an abort request has read, and writes back.
Kinds == \A c \in Changes :
            abortSeen[c] \in {None, "awaiting_approval", "approved", "executing", "observing"}

\* A status in progress, also one an abort request remembers, is one of a run.
Begun == \A c \in Changes :
            status[c] \in {"executing", "observing"} \/ abortSeen[c] \in {"executing", "observing"}
              => runs[c] >= 1

\* A change that was run and does not hold its device is settled for good.
Past == \A c \in Changes : runs[c] >= 1 /\ lease[DeviceOf[c]] # c => status[c] \in Settled

Guarded ==
    /\ Holding /\ Alone /\ Marked /\ Fresh /\ Kinds /\ Begun /\ Past
    /\ UnprovenKeepsLease /\ RunsOnce /\ NoOrphan

-----------------------------------------------------------------------------
(* What a step is to the lease                                             *)

Others(w) == \A v \in Workers \ {w} : work'[v] = work[v]

\* A worker goes on with its change, and may write or begin to observe.
Continues(w) ==
    LET c == work[w].chg IN
    /\ Busy(w) /\ Busy(w)' /\ Others(w)
    /\ work'[w].chg = c /\ work'[w].restoring = work[w].restoring /\ work'[w].at # "connect"
    /\ \A d \in Changes : /\ unproven'[d] # unproven[d] => d = c
                          /\ status'[d] # status[d] => /\ d = c /\ status[d] = "executing"
                                                       /\ status'[d] = "observing"
    /\ UNCHANGED <<up, lease, abortSeen, runs>>

\* A worker leaves its change, which it settles or finds settled; it gives the
\* lease back only for a change that is proven.
Ends(w) ==
    LET c == work[w].chg IN
    /\ Busy(w) /\ ~Busy(w)' /\ Others(w)
    /\ \A d \in Changes \ {c} : status'[d] = status[d] /\ unproven'[d] = unproven[d]
    /\ status'[c] \in Settled \/ status'[c] = status[c]
    /\ status'[c] \notin Active
    /\ \/ lease' = lease /\ unproven'[c] = unproven[c]
       \/ Drop(c) /\ ~unproven'[c] /\ status'[c] \in Settled
    /\ UNCHANGED <<up, abortSeen, runs>>

\* A worker takes the lease for a change.
Takes(w, c) ==
    /\ ~Busy(w) /\ Busy(w)' /\ Others(w)
    /\ up /\ Free(c) /\ Take(c)
    /\ work'[w].chg = c
    /\ \A d \in Changes \ {c} : status'[d] = status[d] /\ runs'[d] = runs[d]
    /\ \/ /\ status[c] = "approved" /\ status'[c] = "executing" /\ runs'[c] = runs[c] + 1
          /\ work'[w].restoring = FALSE
       \/ /\ status[c] = "succeeded" /\ status'[c] = "restoring" /\ runs'[c] = runs[c]
          /\ work'[w].restoring = TRUE /\ work'[w].at # "connect"
    /\ UNCHANGED <<up, abortSeen, unproven>>

\* What a change that is not being run may go through, and an abort request.
Turns(c) ==
    \/ /\ status'[c] = status[c]
       /\ \/ abortSeen'[c] \in {None, abortSeen[c]}
          \/ /\ abortSeen'[c] = status[c]
             /\ status[c] \in {"awaiting_approval", "approved", "executing", "observing"}
    \/ /\ status[c] \notin Active \union Settled
       /\ status'[c] \notin Active
       /\ abortSeen'[c] = abortSeen[c]
    \/ status[c] = "rolled_back" /\ status'[c] = "restored" /\ abortSeen'[c] = abortSeen[c]
    \/ /\ status[c] \in {"executing", "observing"} /\ abortSeen[c] # None
       /\ status'[c] = abortSeen[c] /\ abortSeen'[c] = None

Aside ==
    /\ \A v \in Workers : IF Busy(v) THEN work'[v] = work[v] ELSE ~Busy(v)'
    /\ \A c \in Changes : Turns(c)
    /\ UNCHANGED <<up, lease, unproven, runs>>

LEMMA BusyChange ==
    ASSUME Shape, NEW w \in Workers, Busy(w)
    PROVE  /\ work[w].chg \in Changes /\ DeviceOf[work[w].chg] \in Devices
           /\ work[w].chg # None /\ work[w].restoring \in BOOLEAN
  <1>1. work[w].chg \in Changes /\ work[w] \in Work
    BY DEF Shape, TypeOK, Located, Busy
  <1> QED BY <1>1, ConstantsAssumption DEF Work

LEMMA ContinuesKeeps ==
    ASSUME Shape, Guarded, NEW w \in Workers, Continues(w)
    PROVE  Guarded'
  <1> DEFINE c == work[w].chg
  <1>1. \A v \in Workers : /\ Busy(v)' <=> Busy(v)
                           /\ work'[v].chg = work[v].chg
                           /\ work'[v].restoring = work[v].restoring
                           /\ work'[v].at = "connect" => v # w /\ work[v] = work'[v] /\ Busy(v)
    BY DEF Continues, Others, Busy
  <1>2. c \in Changes /\ lease[DeviceOf[c]] = c
    BY BusyChange DEF Guarded, Holding, Continues
  <1>3. \A v \in Workers : v # w /\ Busy(v) => work[v].chg # c /\ work[v].chg \in Changes
    BY BusyChange DEF Guarded, Alone, Continues
  <1>4. Holding' /\ Alone'
    BY <1>1 DEF Guarded, Holding, Alone, Continues
  <1>5. Marked'
    BY <1>1, <1>2, <1>3 DEF Guarded, Marked, Continues
  <1>6. Fresh'
    BY <1>1, <1>3 DEF Guarded, Fresh, Continues
  <1>7. Kinds' /\ Begun' /\ RunsOnce'
    BY DEF Guarded, Kinds, Begun, RunsOnce, Continues
  <1>8. Past' /\ UnprovenKeepsLease'
    BY <1>2 DEF Guarded, Past, UnprovenKeepsLease, Continues
  <1>9. NoOrphan'
    <2>1. \A d \in Changes : status'[d] \in Active => status[d] \in Active
      BY DEF Continues, Active
    <2> QED BY <1>1, <2>1 DEF Guarded, NoOrphan, Continues
  <1> QED BY <1>4, <1>5, <1>6, <1>7, <1>8, <1>9 DEF Guarded

LEMMA EndsKeeps ==
    ASSUME Shape, Guarded, NEW w \in Workers, Ends(w)
    PROVE  Guarded'
  <1> DEFINE c == work[w].chg
  <1>1. \A v \in Workers : Busy(v)' => /\ v # w /\ Busy(v) /\ work'[v] = work[v]
                                       /\ work[v].chg # c /\ work[v].chg \in Changes
                                       /\ DeviceOf[work[v].chg] \in Devices
    BY BusyChange DEF Guarded, Alone, Ends, Others, Busy
  <1>2. c \in Changes /\ DeviceOf[c] \in Devices /\ c # None
    BY BusyChange DEF Ends
  <1>3. \A d \in Devices : lease'[d] # lease[d] => lease[d] = c /\ lease'[d] = None
    BY DEF Ends, Drop
  <1>4. \A v \in Workers : work'[v].at = "connect" => Busy(v)'
    BY DEF Busy
  <1>5. Holding'
    BY <1>1, <1>3 DEF Guarded, Holding, Ends
  <1>6. Alone'
    BY <1>1 DEF Guarded, Alone
  <1>7. Marked'
    BY <1>1 DEF Guarded, Marked, Ends
  <1>8. Fresh'
    <2> SUFFICES ASSUME NEW v \in Workers, work'[v].at = "connect"
                 PROVE  /\ work'[v].restoring = FALSE
                        /\ ~unproven'[work'[v].chg] /\ status'[work'[v].chg] # "observing"
                        /\ abortSeen'[work'[v].chg] # "observing"
      BY DEF Fresh
    <2> QED BY <1>1, <1>4 DEF Guarded, Fresh, Ends
  <1>9. Kinds' /\ RunsOnce'
    BY DEF Guarded, Kinds, RunsOnce, Ends
  <1>10. Begun'
    BY DEF Guarded, Begun, Ends, Settled
  <1>11. Past'
    <2> SUFFICES ASSUME NEW d \in Changes, runs'[d] >= 1, lease'[DeviceOf[d]] # d
                 PROVE  status'[d] \in Settled
      BY DEF Past
    <2>1. DeviceOf[d] \in Devices
      BY Planned
    <2>2. CASE d = c
      <3>1. lease[DeviceOf[c]] = c
        BY DEF Guarded, Holding, Ends
      <3> QED BY <2>2, <3>1 DEF Ends
    <2>3. CASE d # c
      <3>1. lease[DeviceOf[d]] # d
        BY <1>3, <2>1, <2>3
      <3> QED BY <2>3, <3>1 DEF Guarded, Past, Ends
    <2> QED BY <2>2, <2>3
  <1>12. UnprovenKeepsLease'
    <2> SUFFICES ASSUME NEW d \in Changes, unproven'[d] PROVE lease'[DeviceOf[d]] = d
      BY DEF UnprovenKeepsLease
    <2>1. DeviceOf[d] \in Devices
      BY Planned
    <2>2. CASE d = c
      BY <2>2 DEF Guarded, UnprovenKeepsLease, Ends
    <2>3. CASE d # c
      BY <1>3, <2>1, <2>3 DEF Guarded, UnprovenKeepsLease, Ends
    <2> QED BY <2>2, <2>3
  <1>13. NoOrphan'
    <2> SUFFICES ASSUME up', NEW d \in Changes, status'[d] \in Active
                 PROVE  \E v \in Workers : Busy(v)' /\ work'[v].chg = d
      BY DEF NoOrphan
    <2>1. d # c /\ status[d] \in Active /\ up
      BY <1>2 DEF Ends
    <2>2. PICK v \in Workers : Busy(v) /\ work[v].chg = d
      BY <2>1 DEF Guarded, NoOrphan
    <2>3. v # w /\ work'[v] = work[v]
      BY <2>1, <2>2 DEF Ends, Others
    <2> QED BY <2>2, <2>3 DEF Busy
  <1> QED BY <1>5, <1>6, <1>7, <1>8, <1>9, <1>10, <1>11, <1>12, <1>13 DEF Guarded

LEMMA TakesKeeps ==
    ASSUME Shape, Guarded, NEW w \in Workers, NEW c \in Changes, Takes(w, c)
    PROVE  Guarded'
  <1>1. DeviceOf[c] \in Devices /\ c # None /\ lease[DeviceOf[c]] = None
    BY ConstantsAssumption DEF Takes, Free
  <1>2. \A d \in Devices : lease'[d] = IF d = DeviceOf[c] THEN c ELSE lease[d]
    BY DEF Takes, Take, Shape, TypeOK
  <1>3. \A v \in Workers : v # w => /\ work'[v] = work[v]
                                    /\ Busy(v)' <=> Busy(v)
    BY DEF Takes, Others, Busy
  <1>4. \A v \in Workers : Busy(v) => /\ v # w /\ work[v].chg # c /\ work[v].chg \in Changes
                                      /\ DeviceOf[work[v].chg] \in Devices
                                      /\ DeviceOf[work[v].chg] # DeviceOf[c]
    BY <1>1, BusyChange DEF Guarded, Holding, Takes
  <1>5. work'[w].chg = c /\ Busy(w)'
    BY DEF Takes
  <1>6. runs[c] = 0 \/ status[c] = "succeeded"
    <2>1. runs[c] \in Nat /\ (runs[c] >= 1 => status[c] \in Settled)
      BY <1>1 DEF Shape, TypeOK, Guarded, Past
    <2> QED BY <2>1 DEF Takes, Settled
  <1>7. ~unproven[c]
    BY <1>1 DEF Guarded, UnprovenKeepsLease
  <1>8. Holding'
    BY <1>1, <1>2, <1>3, <1>4, <1>5 DEF Guarded, Holding, Takes
  <1>9. Alone'
    BY <1>3, <1>4, <1>5 DEF Guarded, Alone
  <1>10. Marked'
    BY <1>3, <1>4, <1>5 DEF Guarded, Marked, Takes
  <1>11. Fresh'
    <2> SUFFICES ASSUME NEW v \in Workers, work'[v].at = "connect"
                 PROVE  /\ work'[v].restoring = FALSE
                        /\ ~unproven'[work'[v].chg] /\ status'[work'[v].chg] # "observing"
                        /\ abortSeen'[work'[v].chg] # "observing"
      BY DEF Fresh
    <2>1. CASE v = w
      <3>1. runs[c] = 0 /\ status'[c] = "executing"
        BY <1>6, <2>1 DEF Takes
      <3>2. abortSeen[c] # "observing"
        BY <3>1 DEF Guarded, Begun
      <3> QED BY <1>5, <1>7, <2>1, <3>1, <3>2 DEF Takes
    <2>2. CASE v # w
      <3>1. work'[v] = work[v] /\ Busy(v)
        BY <1>3, <2>2 DEF Busy
      <3> QED BY <1>4, <3>1 DEF Guarded, Fresh, Takes
    <2> QED BY <2>1, <2>2
  <1>12. Kinds'
    BY DEF Guarded, Kinds, Takes
  <1>13. RunsOnce'
    <2>1. runs'[c] <= 1
      BY <1>6 DEF Takes, Guarded, RunsOnce
    <2> QED BY <2>1 DEF Guarded, RunsOnce, Takes
  <1>14. Begun'
    <2>1. runs[c] \in Nat
      BY DEF Shape, TypeOK
    <2> QED BY <2>1 DEF Guarded, Begun, Takes
  <1>15. Past' /\ UnprovenKeepsLease'
    <2>1. \A d \in Changes : DeviceOf[d] \in Devices
      BY Planned
    <2>2. \A d \in Changes \ {c} : lease'[DeviceOf[d]] # d => lease[DeviceOf[d]] # d
      BY <1>1, <1>2, <2>1, ConstantsAssumption
    <2>3. \A d \in Changes \ {c} : lease[DeviceOf[d]] = d => DeviceOf[d] # DeviceOf[c]
      BY <1>1, ConstantsAssumption
    <2> QED BY <1>1, <1>2, <1>7, <2>1, <2>3 DEF Guarded, Past, UnprovenKeepsLease, Takes
  <1>16. NoOrphan'
    <2> SUFFICES ASSUME NEW d \in Changes, status'[d] \in Active
                 PROVE  \E v \in Workers : Busy(v)' /\ work'[v].chg = d
      BY DEF NoOrphan
    <2>1. CASE d = c
      BY <1>5, <2>1
    <2>2. CASE d # c
      <3>1. PICK v \in Workers : Busy(v) /\ work[v].chg = d
        BY <2>2 DEF Guarded, NoOrphan, Takes
      <3> QED BY <1>3, <1>4, <3>1
    <2> QED BY <2>1, <2>2
  <1> QED BY <1>8, <1>9, <1>10, <1>11, <1>12, <1>13, <1>14, <1>15, <1>16 DEF Guarded

LEMMA AsideKeeps ==
    ASSUME Shape, Guarded, Aside
    PROVE  Guarded'
  <1>1. \A v \in Workers : /\ Busy(v)' <=> Busy(v)
                           /\ Busy(v) => work'[v] = work[v] /\ work[v].chg \in Changes
                           /\ work'[v].at = "connect" => Busy(v) /\ work'[v] = work[v]
    BY BusyChange DEF Aside, Busy
  <1>2. Holding' /\ Alone'
    BY <1>1 DEF Guarded, Holding, Alone, Aside
  <1>3. \A c \in Changes : /\ (status'[c] = "restoring" <=> status[c] = "restoring")
                           /\ status'[c] \in Active => status[c] \in Active
                           /\ status[c] \in Settled => status'[c] \in Settled
                           /\ Turns(c)
    BY NoneAssumption DEF Guarded, Kinds, Aside, Turns, Active, Settled
  <1>4. Marked'
    BY <1>1, <1>3 DEF Guarded, Marked
  <1>5. Kinds'
    BY <1>3 DEF Guarded, Kinds, Turns
  <1>6. None \notin {"executing", "observing"}
    BY NoneAssumption DEF Statuses, Active
  <1>7. Fresh'
    BY <1>1, <1>3, <1>6 DEF Guarded, Fresh, Turns, Active, Aside
  <1>8. Begun'
    BY <1>3, <1>6 DEF Guarded, Begun, Turns, Active, Aside
  <1>9. Past'
    BY <1>3 DEF Guarded, Past, Aside
  <1>10. UnprovenKeepsLease' /\ RunsOnce'
    BY DEF Guarded, UnprovenKeepsLease, RunsOnce, Aside
  <1>11. NoOrphan'
    BY <1>1, <1>3 DEF Guarded, NoOrphan, Aside
  <1> QED BY <1>2, <1>4, <1>5, <1>7, <1>8, <1>9, <1>10, <1>11 DEF Guarded

\* Every step of a worker is one of these.
LEMMA ProgressKinds ==
    ASSUME Shape, Guarded, NEW w \in Workers, Progress(w)
    PROVE  Continues(w) \/ Ends(w) \/ Aside \/ \E c \in Changes : Takes(w, c)
  <1> DEFINE c == work[w].chg
  <1>1. /\ status \in [Changes -> Statuses] /\ unproven \in [Changes -> BOOLEAN]
        /\ runs \in [Changes -> Nat] /\ work \in [Workers -> Work] /\ work[w] \in Work
    BY DEF Shape, TypeOK
  <1>2. work[w].at # "idle" => c \in Changes
    BY DEF Shape, Located
  <1>3. ASSUME NEW r \in Work, work' = [work EXCEPT ![w] = r]
        PROVE  Others(w) /\ work'[w] = r
    BY <1>1, <1>3 DEF Others
  <1>4. Idle \in Work /\ Idle.at = "idle"
    BY Idling
  <1>5. ASSUME Stop(w)
        PROVE  Others(w) /\ ~Busy(w)' /\ \A v \in Workers : IF v # w THEN work'[v] = work[v] ELSE ~Busy(v)'
    BY <1>1, <1>4, <1>5 DEF Others, Stop, Busy
  <1>6. ASSUME NEW p \in Places, Move(w, p)
        PROVE  /\ Others(w) /\ work'[w].at = p /\ work'[w].chg = c
               /\ work'[w].restoring = work[w].restoring
    BY <1>1, <1>6 DEF Others, Move, Work
  <1>7. ASSUME Stop(w), ~Busy(w), UNCHANGED <<up, lease, unproven, runs, abortSeen>>,
               \A d \in Changes : Turns(d)
        PROVE  Aside
    <2>1. \A v \in Workers : IF v # w THEN work'[v] = work[v] ELSE ~Busy(v)'
      BY <1>5, <1>7
    <2>2. \A v \in Workers : IF Busy(v) THEN work'[v] = work[v] ELSE ~Busy(v)'
      BY <1>7, <2>1 DEF Busy
    <2> QED BY <1>7, <2>2 DEF Aside
  \* The steps that only move a busy worker on.
  <1>8. ASSUME Others(w), Busy(w), Busy(w)', work'[w].chg = c,
               work'[w].restoring = work[w].restoring, work'[w].at # "connect",
               UNCHANGED <<status, up, lease, abortSeen, runs>>,
               unproven' = unproven \/ unproven' = [unproven EXCEPT ![c] = TRUE]
        PROVE  Continues(w)
    BY <1>1, <1>8 DEF Continues
  <1>9. ASSUME NEW n, ToRecovery(w, n)
        PROVE  /\ Others(w) /\ work'[w].chg = c /\ work'[w].restoring = work[w].restoring
               /\ work'[w].at \in {"health", "undo"}
    BY <1>1, <1>9 DEF ToRecovery, Others, Work
  <1>10. ASSUME NEW f, NextUndo(w, f)
         PROVE  /\ Others(w) /\ work'[w].chg = c /\ work'[w].restoring = work[w].restoring
                /\ work'[w].at \in {"health", "undo"}
    BY <1>1, <1>10 DEF NextUndo, Others, Work
  <1>11. CASE ApproveByRule(w)
    <2>1. \A d \in Changes : Turns(d)
      BY <1>1, <1>11 DEF ApproveByRule, Turns, Set, Active, Settled, Environment
    <2>2. Stop(w) /\ ~Busy(w)
      BY <1>11 DEF ApproveByRule, At, Busy
    <2> QED BY <1>7, <1>11, <2>1, <2>2 DEF ApproveByRule, Environment
  <1>12. CASE Begin(w)
    <2>1. c \in Changes /\ ~Busy(w) /\ up /\ work[w].restoring = FALSE
      BY <1>2, <1>12 DEF Begin, At, Busy, Shape, Located
    <2>2. CASE status[c] = "approved" /\ Free(c)
      <3>1. /\ Set(c, "executing") /\ Take(c) /\ Move(w, "connect")
            /\ runs' = [runs EXCEPT ![c] = @ + 1]
        BY <1>12, <2>2 DEF Begin
      <3>2. Others(w) /\ work'[w].at = "connect" /\ work'[w].chg = c /\ work'[w].restoring = FALSE
        BY <1>6, <2>1, <3>1 DEF Places, Running
      <3>3. Takes(w, c)
        BY <1>1, <1>12, <2>1, <2>2, <3>1, <3>2 DEF Takes, Begin, Set, Busy, Environment
      <3> QED BY <2>1, <3>3
    <2>3. CASE ~(status[c] = "approved" /\ Free(c))
      <3>1. Stop(w) /\ UNCHANGED <<status, lease, runs>>
        BY <1>12, <2>3 DEF Begin
      <3>2. \A d \in Changes : Turns(d)
        BY <1>12, <3>1 DEF Turns, Begin, Environment
      <3> QED BY <1>7, <1>12, <2>1, <3>1, <3>2 DEF Begin, Environment
    <2> QED BY <2>2, <2>3
  <1>13. CASE Connect(w)
    <2>1. /\ c \in Changes /\ Busy(w) /\ ~unproven[c]
          /\ status[c] # "observing"
      BY <1>2, <1>13 DEF Connect, At, Busy, Guarded, Fresh
    <2>2. CASE Move(w, "verify") /\ UNCHANGED <<status, lease>>
      <3>1. /\ Others(w) /\ work'[w].at = "verify" /\ work'[w].chg = c
            /\ work'[w].restoring = work[w].restoring
        BY <1>6, <2>2 DEF Places, Running
      <3> QED BY <1>8, <1>13, <2>1, <2>2, <3>1 DEF Connect, Environment, history, Busy
    <2>3. CASE status[c] = "executing" /\ Set(c, "needs_human") /\ Drop(c) /\ Stop(w)
      BY <1>1, <1>5, <1>13, <2>1, <2>3
      DEF Ends, Connect, Set, Settled, Active, Environment, history
    <2>4. CASE status[c] # "executing" /\ Stop(w) /\ UNCHANGED <<status, lease>>
      <3>1. status[c] # "restoring"
        <4>1. work[w].restoring = FALSE
          BY <1>13 DEF Guarded, Fresh, Connect, At
        <4> QED BY <2>1, <4>1 DEF Guarded, Marked
      <3> QED BY <1>5, <1>13, <2>1, <2>4, <3>1 DEF Ends, Connect, Active, Environment, history
    <2> QED BY <1>13, <2>2, <2>3, <2>4 DEF Connect
  <1>14. CASE Verify(w) \/ Sample(w)
    <2>1. /\ Busy(w) /\ work'[w].at \in {"check", "sample"}
          /\ Others(w) /\ work'[w].chg = c /\ work'[w].restoring = work[w].restoring
      BY <1>1, <1>14 DEF Verify, Sample, At, Busy, Others, Work
    <2> QED BY <1>8, <1>14, <2>1 DEF Verify, Sample, Busy, stored, Environment, history
  <1>15. CASE Check(w) \/ Conclude(w)
    <2>1. Busy(w) /\ (Move(w, "apply") \/ Move(w, "finish"))
      BY <1>15 DEF Check, Conclude, At, Busy
    <2>2. /\ work'[w].at \in {"apply", "finish"}
          /\ Others(w) /\ work'[w].chg = c /\ work'[w].restoring = work[w].restoring
      BY <1>6, <2>1 DEF Places, Running
    <2> QED BY <1>8, <1>15, <2>1, <2>2 DEF Check, Conclude, Busy, stored, Environment, history
  <1>16. CASE Apply(w)
    <2>1. Busy(w)
      BY <1>16 DEF Apply, At, Busy
    <2>2. \/ ToRecovery(w, work[w].op)
          \/ work' = [work EXCEPT ![w].at = "readback", ![w].tried = work[w].op]
      BY <1>16 DEF Apply
    <2>3. /\ work'[w].at \in {"readback", "health", "undo"}
          /\ Others(w) /\ work'[w].chg = c /\ work'[w].restoring = work[w].restoring
      <3>1. CASE ToRecovery(w, work[w].op)
        BY <1>9, <3>1
      <3>2. CASE work' = [work EXCEPT ![w].at = "readback", ![w].tried = work[w].op]
        BY <1>1, <3>2 DEF Others, Work
      <3> QED BY <2>2, <3>1, <3>2
    <2> QED BY <1>8, <1>16, <2>1, <2>3 DEF Apply, Busy, stored, Environment
  <1>17. CASE Readback(w)
    <2>1. Busy(w) /\ c \in Changes
      BY <1>2, <1>17 DEF Readback, At, Busy
    <2>2. CASE /\ work' = [work EXCEPT ![w].at = "check", ![w].op = work[w].op + 1]
               /\ UNCHANGED status
      <3>1. /\ work'[w].at = "check" /\ Others(w) /\ work'[w].chg = c
            /\ work'[w].restoring = work[w].restoring
        BY <1>1, <2>2 DEF Others, Work
      <3> QED BY <1>8, <1>17, <2>1, <2>2, <3>1 DEF Readback, Busy, Environment, history
    <2>3. CASE status[c] = "executing" /\ Set(c, "observing") /\ Move(w, "sample")
      <3>1. /\ work'[w].at = "sample" /\ Others(w) /\ work'[w].chg = c
            /\ work'[w].restoring = work[w].restoring
        BY <1>6, <2>3 DEF Places, Running
      <3> QED BY <1>1, <1>17, <2>1, <2>3, <3>1
              DEF Continues, Readback, Set, Busy, Environment, history
    <2> QED BY <1>17, <2>2, <2>3 DEF Readback
  <1>18. CASE Finish(w)
    <2>1. c \in Changes /\ Busy(w)
      BY <1>2, <1>18 DEF Finish, At, Busy
    <2> QED BY <1>1, <1>5, <1>18, <2>1 DEF Ends, Finish, Set, Settled, Active, Environment
  <1>19. CASE GiveUp(w)
    <2>1. Busy(w) /\ ToRecovery(w, work[w].tried)
      BY <1>19 DEF GiveUp, Busy, Running
    <2> QED BY <1>8, <1>9, <1>19, <2>1 DEF GiveUp, Busy, stored, Environment, history
  <1>20. CASE Undo(w) \/ UndoReadback(w) \/ UndoApply(w)
    <2>1. /\ Busy(w)
          /\ \/ \E f \in BOOLEAN : NextUndo(w, f)
             \/ Move(w, "undoApply") \/ Move(w, "undoReadback")
      BY <1>20 DEF Undo, UndoReadback, UndoApply, At, Busy
    <2>2. /\ work'[w].at \in {"health", "undo", "undoApply", "undoReadback"}
          /\ Others(w) /\ work'[w].chg = c /\ work'[w].restoring = work[w].restoring
      BY <1>6, <1>10, <2>1 DEF Places, Recovering
    <2> QED BY <1>8, <1>20, <2>1, <2>2
            DEF Undo, UndoReadback, UndoApply, Busy, stored, Environment, history
  <1>21. CASE Close(w)
    <2> DEFINE expected == IF work[w].restoring THEN {"restoring"} ELSE {"executing", "observing"}
    <2>1. c \in Changes /\ Busy(w)
      BY <1>2, <1>21 DEF Close, At, Busy
    <2>2. PICK healthy \in BOOLEAN :
            LET failed == work[w].failed \/ ~healthy
                result == IF failed \/ work[w].tried = 0 THEN "needs_human" ELSE "rolled_back"
            IN \/ /\ status[c] \in expected
                  /\ Set(c, result)
                  /\ IF failed THEN UNCHANGED <<lease, unproven>>
                     ELSE Drop(c) /\ unproven' = [unproven EXCEPT ![c] = FALSE]
                  /\ IF work[w].restoring /\ result = "rolled_back" THEN Move(w, "restored")
                     ELSE Stop(w)
               \/ /\ status[c] \notin expected
                  /\ Stop(w)
                  /\ UNCHANGED <<status, lease, unproven>>
      BY <1>21 DEF Close
    <2>3. CASE status[c] \in expected
      <3>1. PICK result \in {"needs_human", "rolled_back"} : Set(c, result)
        BY <2>2, <2>3
      <3>2. Others(w) /\ ~Busy(w)'
        BY <1>5, <1>6, <2>2, <2>3 DEF Busy, Places
      <3>3. \/ UNCHANGED <<lease, unproven>>
            \/ Drop(c) /\ unproven' = [unproven EXCEPT ![c] = FALSE]
        BY <2>2, <2>3
      <3> QED BY <1>1, <1>21, <2>1, <3>1, <3>2, <3>3
              DEF Ends, Close, Set, Settled, Active, Environment
    <2>4. CASE status[c] \notin expected
      <3>1. Stop(w) /\ UNCHANGED <<status, lease, unproven>>
        BY <2>2, <2>4
      <3>2. status[c] \notin Active
        BY <2>1, <2>4 DEF Guarded, Marked, Active
      <3> QED BY <1>5, <1>21, <2>1, <3>1, <3>2 DEF Ends, Close, Environment
    <2> QED BY <2>3, <2>4
  <1>22. CASE Reconnect(w)
    <2>1. c \in Changes /\ Busy(w)
      BY <1>2, <1>22 DEF Reconnect, At, Busy
    <2>2. CASE ToRecovery(w, Len(Plan[c])) /\ UNCHANGED status
      BY <1>8, <1>9, <1>22, <2>1, <2>2 DEF Reconnect, Busy, Environment, history
    <2>3. CASE Set(c, "needs_human") /\ Stop(w)
      BY <1>1, <1>5, <1>22, <2>1, <2>3
      DEF Ends, Reconnect, Set, Settled, Active, Environment, history
    <2> QED BY <1>22, <2>2, <2>3 DEF Reconnect
  <1>23. CASE Restored(w)
    <2>1. Stop(w) /\ ~Busy(w)
      BY <1>23 DEF Restored, At, Busy
    <2>2. \A d \in Changes : Turns(d)
      BY <1>1, <1>23 DEF Restored, Turns, Set, Environment
    <2> QED BY <1>7, <1>23, <2>1, <2>2 DEF Restored, Environment, history
  <1> QED BY <1>11, <1>12, <1>13, <1>14, <1>15, <1>16, <1>17, <1>18, <1>19, <1>20, <1>21, <1>22,
             <1>23 DEF Progress

LEMMA GuardedInit == Init => Guarded
  <1> SUFFICES ASSUME Init PROVE Guarded
    OBVIOUS
  <1>1. /\ \A w \in Workers : work[w] = Idle /\ ~Busy(w) /\ work[w].at = "idle"
        /\ \A c \in Changes : /\ status[c] = "absent" /\ abortSeen[c] = None /\ ~unproven[c]
                              /\ runs[c] = 0
    BY Idling DEF Init, Busy
  <1>2. None \notin {"executing", "observing"}
    BY NoneAssumption DEF Statuses, Active
  <1>3. Holding /\ Alone /\ Marked /\ Fresh
    BY <1>1 DEF Holding, Alone, Marked, Fresh
  <1>4. Kinds /\ Begun /\ Past /\ UnprovenKeepsLease /\ RunsOnce
    BY <1>1, <1>2 DEF Kinds, Begun, Past, UnprovenKeepsLease, RunsOnce
  <1>5. NoOrphan
    BY <1>1 DEF NoOrphan, Active
  <1> QED BY <1>3, <1>4, <1>5 DEF Guarded

LEMMA GuardedStep == Shape /\ Guarded /\ [Next]_vars => Guarded'
  <1> SUFFICES ASSUME Shape, Guarded, [Next]_vars PROVE Guarded'
    OBVIOUS
  <1>1. /\ status \in [Changes -> Statuses] /\ unproven \in [Changes -> BOOLEAN]
        /\ abortSeen \in [Changes -> Statuses \union {None}]
        /\ runs \in [Changes -> Nat] /\ work \in [Workers -> Work]
        /\ Idle \in Work /\ Idle.at = "idle"
    BY Idling DEF Shape, TypeOK
  <1>2. ASSUME NEW w \in Workers, Progress(w) PROVE Guarded'
    BY <1>2, ProgressKinds, ContinuesKeeps, EndsKeeps, TakesKeeps, AsideKeeps
  <1>3. ASSUME NEW w \in Workers, NEW c \in Changes, UseRule(w, c) \/ Admit(w, c) PROVE Guarded'
    <2>1. \A v \in Workers : IF Busy(v) THEN work'[v] = work[v] ELSE ~Busy(v)'
      <3>1. work'[w].at \in {"granted", "admitted"} /\ \A v \in Workers \ {w} : work'[v] = work[v]
        <4>1. PICK p \in {"granted", "admitted"} :
                work' = [work EXCEPT ![w] = [Idle EXCEPT !.at = p, !.chg = c]]
          BY <1>3 DEF UseRule, Admit
        <4>2. [Idle EXCEPT !.at = p, !.chg = c].at = p
          BY <1>1 DEF Work
        <4> QED BY <1>1, <4>1, <4>2
      <3>2. ~Busy(w) /\ ~Busy(w)'
        BY <1>3, <3>1 DEF UseRule, Admit, At, Busy
      <3> QED BY <3>1, <3>2 DEF Busy
    <2>2. Aside
      BY <1>3, <2>1 DEF UseRule, Admit, Aside, Turns, stored, Environment, history
    <2> QED BY <2>2, AsideKeeps
  <1>4. ASSUME NEW w \in Workers, NEW c \in Changes, BeginRestore(w, c) PROVE Guarded'
    <2> DEFINE r == [Idle EXCEPT !.at = "reconnect", !.chg = c, !.restoring = TRUE]
    <2>1. r.at = "reconnect" /\ r.chg = c /\ r.restoring = TRUE
      BY <1>1 DEF Work
    <2>2. work'[w] = r /\ Others(w) /\ ~Busy(w)
      BY <1>1, <1>4 DEF BeginRestore, Others, At, Busy
    <2> HIDE DEF r
    <2>3. Takes(w, c)
      BY <1>1, <1>4, <2>1, <2>2 DEF BeginRestore, Takes, At, Set, Busy, Environment, history
    <2> QED BY <2>3, TakesKeeps
  <1>5. ASSUME work' = work, UNCHANGED <<up, lease, unproven, runs>>, \A c \in Changes : Turns(c)
        PROVE  Guarded'
    <2>1. Aside
      BY <1>5 DEF Aside, Busy
    <2> QED BY <2>1, AsideKeeps
  <1>6. ASSUME NEW c \in Changes, Operator(c) PROVE Guarded'
    <2>1. CASE Prepare(c) \/ Approve(c) \/ Cancel(c) \/ Expire(c)
      <3>1. \A d \in Changes : Turns(d)
        BY <1>1, <2>1 DEF Prepare, Approve, Cancel, Expire, Turns, Set, Active, Settled, Environment
      <3> QED BY <1>5, <2>1, <3>1 DEF Prepare, Approve, Cancel, Expire, Environment, history
    <2>2. CASE AbortRead(c) \/ AbortWrite(c) \/ Lapse(c)
      <3>1. \A d \in Changes : Turns(d)
        BY <1>1, <2>2 DEF AbortRead, AbortWrite, Lapse, Turns, Set, stored
      <3> QED BY <1>5, <2>2, <3>1 DEF AbortRead, AbortWrite, Lapse, stored, history
    <2> QED BY <1>6, <2>1, <2>2 DEF Operator
  <1>7. ASSUME UNCHANGED <<status, abortSeen>> PROVE \A c \in Changes : Turns(c)
    BY <1>7 DEF Turns
  <1>8. ASSUME NEW k \in Keys, NEW v \in Values, Drift(k, v) PROVE Guarded'
    BY <1>5, <1>7, <1>8 DEF Drift, stored
  <1>9. CASE SetControl
    BY <1>5, <1>7, <1>9 DEF SetControl, stored, history
  <1>10. CASE Crash
    <2>1. /\ \A w \in Workers : ~Busy(w)' /\ work'[w].at # "connect"
          /\ \A c \in Changes : abortSeen'[c] = None
          /\ ~up' /\ UNCHANGED <<status, lease, unproven, runs>>
      BY <1>1, <1>10 DEF Crash, Busy, stored, history
    <2>2. None \notin {"executing", "observing"}
      BY NoneAssumption DEF Statuses, Active
    <2>3. Holding' /\ Alone' /\ Marked' /\ Fresh' /\ NoOrphan'
      BY <2>1 DEF Holding, Alone, Marked, Fresh, NoOrphan
    <2>4. Kinds' /\ Begun' /\ Past' /\ UnprovenKeepsLease' /\ RunsOnce'
      BY <2>1, <2>2 DEF Guarded, Kinds, Begun, Past, UnprovenKeepsLease, RunsOnce
    <2> QED BY <2>3, <2>4 DEF Guarded
  <1>11. CASE Start
    <2>1. /\ \A w \in Workers : work'[w] = work[w] /\ ~Busy(w) /\ ~Busy(w)' /\ work'[w].at # "connect"
          /\ UNCHANGED <<abortSeen, lease, unproven, runs>>
      BY <1>11 DEF Start, Guarded, Holding, Busy, history
    <2>2. \A c \in Changes : /\ status'[c] \notin Active
                             /\ status[c] \in Settled => status'[c] \in Settled
      BY <1>1, <1>11 DEF Start, Active, Settled
    <2>3. Holding' /\ Alone' /\ Marked' /\ Fresh' /\ NoOrphan'
      BY <2>1, <2>2 DEF Holding, Alone, Marked, Fresh, NoOrphan
    <2>4. Kinds' /\ Begun' /\ Past' /\ UnprovenKeepsLease' /\ RunsOnce'
      BY <2>1, <2>2 DEF Guarded, Kinds, Begun, Past, UnprovenKeepsLease, RunsOnce, Active
    <2> QED BY <2>3, <2>4 DEF Guarded
  <1>12. CASE UNCHANGED vars
    BY <1>5, <1>7, <1>12 DEF vars, stored, history
  <1> QED BY <1>2, <1>3, <1>4, <1>6, <1>8, <1>9, <1>10, <1>11, <1>12 DEF Next

LEMMA AlwaysGuarded == Spec => [](Shape /\ Guarded)
  BY ShapeInit, ShapeStep, GuardedInit, GuardedStep, PTL DEF Spec

\* No two threads work on one device, for any number of threads, devices and
\* changes, and across crashes: Holding and Alone make the lease the proof.
THEOREM OneWriter == Spec => []OneWriterPerDevice
  <1>1. Shape /\ Guarded => OneWriterPerDevice
    <2> SUFFICES ASSUME Shape, Guarded, NEW v \in Workers, NEW w \in Workers,
                        v # w, Busy(v), Busy(w), DeviceOf[work[v].chg] = DeviceOf[work[w].chg]
                 PROVE  FALSE
      BY DEF OneWriterPerDevice, Shape
    <2> QED BY DEF Guarded, Holding, Alone
  <1> QED BY <1>1, AlwaysGuarded, PTL

\* A change that has written and is not known good holds its device.
THEOREM Unproven == Spec => []UnprovenKeepsLease
  <1>1. Guarded => UnprovenKeepsLease
    BY DEF Guarded
  <1> QED BY <1>1, AlwaysGuarded, PTL

\* No change is started twice, whatever an abort request writes back.
THEOREM Once == Spec => []RunsOnce
  <1>1. Guarded => RunsOnce
    BY DEF Guarded
  <1> QED BY <1>1, AlwaysGuarded, PTL

\* A change in progress has its thread, also after a restart.
THEOREM Accompanied == Spec => []NoOrphan
  <1>1. Guarded => NoOrphan
    BY DEF Guarded
  <1> QED BY <1>1, AlwaysGuarded, PTL

-----------------------------------------------------------------------------
(* The rule                                                                *)

RuleInv ==
    /\ IsFiniteSet(uses) /\ Cardinality(uses) <= RuleCap
    /\ automatic \subseteq uses
    /\ \A w \in Workers : work[w].at = "granted" => work[w].chg \in uses

LEMMA RuleStep == Shape /\ RuleInv /\ [Next]_vars => RuleInv'
  <1> SUFFICES ASSUME Shape, RuleInv, [Next]_vars PROVE RuleInv'
    OBVIOUS
  <1>1. work \in [Workers -> Work] /\ Idle \in Work /\ Idle.at = "idle"
    BY Idling DEF Shape, TypeOK
  <1>2. ASSUME UNCHANGED <<uses, automatic>>,
               \A v \in Workers : work'[v] = work[v] \/ work'[v].at # "granted"
        PROVE  RuleInv'
    BY <1>2 DEF RuleInv
  <1>3. ASSUME NEW w \in Workers, Progress(w) PROVE RuleInv'
    <2>1. CASE ApproveByRule(w)
      <3>1. work[w].chg \in uses /\ uses' = uses /\ automatic' \subseteq automatic \union {work[w].chg}
        BY <2>1 DEF ApproveByRule, RuleInv, At
      <3>2. \A v \in Workers : work'[v] = work[v] \/ work'[v].at # "granted"
        BY <1>1, <2>1 DEF ApproveByRule, Stop
      <3> QED BY <3>1, <3>2 DEF RuleInv
    <2>2. CASE ~ApproveByRule(w)
      <3>1. UNCHANGED <<uses, automatic>>
        BY <1>3, <2>2 DEF Progress, Begin, Connect, Verify, Check, Apply, Readback, Sample, Conclude,
             Finish, GiveUp, Undo, UndoApply, UndoReadback, Close, Reconnect, Restored, stored, history
      <3>2. \A v \in Workers : work'[v] = work[v] \/ work'[v].at # "granted"
        <4>1. work[w] \in Work
          BY <1>1
        <4>2. ASSUME NEW r \in Work, work' = [work EXCEPT ![w] = r], r.at # "granted"
              PROVE  \A v \in Workers : work'[v] = work[v] \/ work'[v].at # "granted"
          BY <1>1, <4>2
        <4>3. CASE Begin(w) \/ Connect(w) \/ Finish(w) \/ Restored(w) \/ Check(w) \/ Conclude(w)
          BY <1>1, <4>1, <4>3 DEF Begin, Connect, Finish, Restored, Check, Conclude, Stop, Move, Work
        <4>4. CASE Verify(w) \/ Sample(w) \/ Readback(w)
          BY <1>1, <4>1, <4>4 DEF Verify, Sample, Readback, Move, Work, At
        <4>5. CASE Apply(w) \/ GiveUp(w) \/ Reconnect(w)
          BY <1>1, <4>1, <4>5 DEF Apply, GiveUp, Reconnect, ToRecovery, Stop, Work
        <4>6. CASE Undo(w) \/ UndoApply(w) \/ UndoReadback(w)
          BY <1>1, <4>1, <4>6 DEF Undo, UndoApply, UndoReadback, NextUndo, Move, Work
        <4>7. CASE Close(w)
          <5>1. Move(w, "restored") \/ Stop(w)
            BY <4>7 DEF Close
          <5> QED BY <1>1, <4>1, <5>1 DEF Move, Stop, Work
        <4> QED BY <1>3, <2>2, <4>3, <4>4, <4>5, <4>6, <4>7 DEF Progress
      <3> QED BY <1>2, <3>1, <3>2
    <2> QED BY <2>1, <2>2
  <1>4. ASSUME NEW w \in Workers, NEW c \in Changes, UseRule(w, c) PROVE RuleInv'
    <2>1. /\ uses' = uses \union {c} /\ c \notin uses /\ automatic' = automatic
          /\ Cardinality(uses) < RuleCap
      BY <1>4 DEF UseRule, history
    <2>2. IsFiniteSet(uses') /\ Cardinality(uses') = Cardinality(uses) + 1
      BY <2>1, FS_AddElement DEF RuleInv
    <2>3. Cardinality(uses) \in Nat /\ RuleCap \in Nat
      BY FS_CardinalityType, ConstantsAssumption DEF RuleInv
    <2>4. work'[w].chg = c /\ \A v \in Workers \ {w} : work'[v] = work[v]
      BY <1>1, <1>4 DEF UseRule, Work
    <2> QED BY <2>1, <2>2, <2>3, <2>4 DEF RuleInv
  <1>5. ASSUME NEW w \in Workers, NEW c \in Changes, Admit(w, c) \/ BeginRestore(w, c) PROVE RuleInv'
    BY <1>1, <1>2, <1>5 DEF Admit, BeginRestore, stored, history, Work
  <1>6. ASSUME NEW c \in Changes, Operator(c) PROVE RuleInv'
    BY <1>2, <1>6 DEF Operator, Prepare, Approve, Cancel, AbortRead, AbortWrite, Expire, Lapse,
                      stored, history
  <1>7. ASSUME NEW k \in Keys, NEW v \in Values, Drift(k, v) PROVE RuleInv'
    BY <1>2, <1>7 DEF Drift, stored
  <1>8. CASE SetControl \/ Crash \/ Start
    BY <1>1, <1>2, <1>8 DEF SetControl, Crash, Start, stored, history
  <1>9. CASE UNCHANGED vars
    BY <1>2, <1>9 DEF vars, stored, history
  <1> QED BY <1>3, <1>4, <1>5, <1>6, <1>7, <1>8, <1>9 DEF Next

\* The rule approves no change without a use on record, and at most RuleCap.
THEOREM Capped == Spec => []RuleWithinCap
  <1>1. Init => RuleInv
    <2> SUFFICES ASSUME Init PROVE RuleInv
      OBVIOUS
    <2>1. RuleCap \in Nat
      BY ConstantsAssumption
    <2>2. \A w \in Workers : work[w].at = "idle"
      BY Idling DEF Init
    <2> QED BY <2>1, <2>2, FS_EmptySet DEF Init, RuleInv
  <1>2. RuleInv => RuleWithinCap
    BY DEF RuleInv, RuleWithinCap
  <1> QED BY <1>1, <1>2, ShapeInit, ShapeStep, RuleStep, PTL DEF Spec

-----------------------------------------------------------------------------
(* What a change has on the device, and what recovery has taken back       *)

UndoneStatuses == {"rolled_back", "restored"}

\* A change that was never started has written nothing; one that is at work,
\* or has succeeded, was started.
Started ==
    /\ \A c \in Changes : /\ status[c] = "absent" => runs[c] = 0
                          /\ status[c] = "succeeded" => runs[c] >= 1
                          /\ runs[c] = 0 => \A k \in Keys : author[k] # c
    /\ \A w \in Workers : Busy(w) => runs[work[w].chg] >= 1

\* A change writes no item but those of its plan.
OwnItems == \A c \in Changes : \A k \in Keys : author[k] = c => k \in KeysOf(c)

\* The operations tried are those before the one at hand.
Placed(w) ==
    /\ work[w].at \in {"check", "apply"} => work[w].tried = work[w].op - 1
    /\ work[w].at = "readback" => work[w].tried = work[w].op
    /\ work[w].at \in {"sample", "finish"} => work[w].tried = Len(Plan[work[w].chg])
    /\ work[w].at \in {"admitted", "connect", "verify"} => work[w].tried = 0
    /\ work[w].at = "health" => work[w].op = 0

\* What the change has written last is an item of an operation that was tried,
Tried(w) ==
    Busy(w) /\ work[w].at # "reconnect" =>
        \A k \in Keys : author[k] = work[w].chg =>
            \E j \in 1 .. work[w].tried : Op(work[w].chg, j).key = k

\* and recovery, while nothing has failed, has cleaned up behind itself: the
\* items whose first operation is above the one at hand are as they were.
Clean(c, k) == author[k] = c => cfg[k] = before[c][k]
SoFar(w) ==
    work[w].at \in Recovering /\ ~work[w].failed =>
        \A j \in work[w].op + 1 .. work[w].tried :
            First(work[w].chg, j) => Clean(work[w].chg, Op(work[w].chg, j).key)

LeftAlone == \A w \in Workers : Busy(w) => status[work[w].chg] \notin UndoneStatuses

Undoing ==
    /\ Started /\ OwnItems /\ LeftAlone /\ RolledBackClean
    /\ \A w \in Workers : Placed(w) /\ Tried(w) /\ SoFar(w)

\* No operation between UpTo(c, i) and i is the first on its item, and every
\* item of the operations up to i has a first one among them.
LEMMA UpToLast ==
    ASSUME NEW c \in Changes, NEW i \in Nat
    PROVE  \A j \in UpTo(c, i) + 1 .. i : ~First(c, j)
  <1> DEFINE F == {j \in 1 .. i : First(c, j)}
  <1>1. CASE F = {}
    BY <1>1 DEF UpTo
  <1>2. CASE F # {}
    <2>1. \E x \in F : \A y \in F : y <= x
      <3>1. F \in SUBSET (0 .. i)
        OBVIOUS
      <3> HIDE DEF F
      <3> QED BY <1>2, <3>1, Greatest
    <2>2. UpTo(c, i) \in F /\ \A y \in F : y <= UpTo(c, i)
      <3>1. UpTo(c, i) = CHOOSE x \in F : \A y \in F : y <= x
        BY <1>2 DEF UpTo
      <3> HIDE DEF F
      <3> QED BY <2>1, <3>1
    <2>3. ASSUME NEW j \in UpTo(c, i) + 1 .. i, First(c, j) PROVE FALSE
      <3>1. UpTo(c, i) \in 1 .. i
        BY <2>2
      <3>2. j \in F
        BY <2>3, <3>1
      <3> QED BY <2>2, <2>3, <3>1, <3>2
    <2> QED BY <2>3
  <1> QED BY <1>1, <1>2

LEMMA HasFirst ==
    ASSUME NEW c \in Changes, NEW n \in Nat, NEW k, NEW i \in 1 .. n, Op(c, i).key = k
    PROVE  \E j \in 1 .. n : Op(c, j).key = k /\ First(c, j)
  <1> DEFINE T == {j \in 1 .. n : Op(c, j).key = k}
  <1>1. T \in SUBSET Nat /\ T # {}
    OBVIOUS
  <1>2. PICK j \in T : \A y \in T : j <= y
    <2> HIDE DEF T
    <2> QED BY <1>1, Least
  <1>3. j \in 1 .. n /\ Op(c, j).key = k
    OBVIOUS
  <1>4. ASSUME NEW y \in 1 .. j - 1 PROVE Op(c, y).key # Op(c, j).key
    <2>1. y \in 1 .. n /\ ~(j <= y)
      BY <1>3
    <2> QED BY <1>2, <1>3, <2>1
  <1> QED BY <1>3, <1>4 DEF First

-----------------------------------------------------------------------------
(* What a step is to the items and the statuses                            *)

\* The change wrote nothing in this step, and nothing it has written changed.
Kept(c) == \A k \in Keys : author'[k] = c => /\ author[k] = c /\ cfg'[k] = cfg[k]
                                             /\ before'[c][k] = before[c][k]

\* A worker of the change applied an operation, which may have landed.
Applied(w) ==
    LET c == work[w].chg
        key == Op(c, work[w].op).key
    IN /\ work[w].at = "apply" /\ work'[w].at # "apply" /\ before' = before /\ status' = status
       /\ \/ UNCHANGED <<cfg, author>>
          \/ /\ author' = [author EXCEPT ![key] = c]
             /\ \A k \in Keys \ {key} : cfg'[k] = cfg[k]

LEMMA ItemsKept ==
    ASSUME Shape, Undoing, [Next]_vars, NEW c \in Changes
    PROVE  Kept(c) \/ \E w \in Workers : Applied(w) /\ work[w].chg = c
  <1>1. author \in [Keys -> Changes \union {None, Other}] /\ cfg \in [Keys -> Values]
    BY DEF Shape, TypeOK
  <1>2. c # None /\ c # Other
    BY ConstantsAssumption
  <1>3. ASSUME UNCHANGED <<cfg, author, before>> PROVE Kept(c)
    BY <1>3 DEF Kept
  <1>4. ASSUME NEW w \in Workers, Progress(w)
        PROVE  Kept(c) \/ \E v \in Workers : Applied(v) /\ work[v].chg = c
    <2>1. CASE Apply(w)
      <3>0. work \in [Workers -> Work] /\ work[w] \in Work
        BY DEF Shape, TypeOK
      <3>1. Applied(w)
        <4>1. work'[w].at # "apply"
          BY <2>1, <3>0 DEF Apply, ToRecovery, Work
        <4> QED BY <1>1, <2>1, <4>1 DEF Apply, Applied, At, stored
      <3>2. CASE work[w].chg = c
        BY <3>1, <3>2
      <3>3. CASE work[w].chg # c
        BY <1>1, <3>1, <3>3 DEF Applied, Kept
      <3> QED BY <3>2, <3>3
    <2>2. CASE UndoApply(w)
      <3> DEFINE d == work[w].chg
                 key == Op(d, work[w].op).key
      <3>1. before' = before
        BY <2>2 DEF UndoApply, stored
      <3>2. \/ UNCHANGED <<cfg, author>>
            \/ /\ author' = [author EXCEPT ![key] = None]
               /\ \A k \in Keys \ {key} : cfg'[k] = cfg[k]
        BY <1>1, <2>2 DEF UndoApply
      <3> HIDE DEF key, d
      <3> QED BY <1>1, <1>2, <3>1, <3>2 DEF Kept
    <2>3. CASE ~Apply(w) /\ ~UndoApply(w)
      <3>1. UNCHANGED <<cfg, author, before>>
        BY <1>4, <2>3 DEF Progress, ApproveByRule, Begin, Connect, Verify, Check, Readback, Sample,
             Conclude, Finish, GiveUp, Undo, UndoReadback, Close, Reconnect, Restored, stored, history
      <3> QED BY <1>3, <3>1
    <2> QED BY <2>1, <2>2, <2>3
  <1>5. ASSUME NEW w \in Workers, NEW d \in Changes,
               UseRule(w, d) \/ Admit(w, d) \/ BeginRestore(w, d)
        PROVE  Kept(c)
    BY <1>3, <1>5 DEF UseRule, Admit, BeginRestore, stored, history
  <1>6. ASSUME NEW d \in Changes, Operator(d) PROVE Kept(c)
    <2>1. CASE Prepare(d)
      <3>1. UNCHANGED <<cfg, author>>
        BY <2>1 DEF Prepare, history
      <3>2. CASE d = c
        <4>1. \A k \in Keys : author[k] # c
          BY <2>1, <3>2 DEF Prepare, Undoing, Started
        <4> QED BY <3>1, <4>1 DEF Kept
      <3>3. CASE d # c
        <4>1. before'[c] = before[c]
          BY <2>1, <3>3 DEF Prepare, Shape, TypeOK
        <4> QED BY <3>1, <4>1 DEF Kept
      <3> QED BY <3>2, <3>3
    <2>2. CASE ~Prepare(d)
      BY <1>3, <1>6, <2>2 DEF Operator, Approve, Cancel, AbortRead, AbortWrite, Expire, Lapse,
                              stored, history
    <2> QED BY <2>1, <2>2
  <1>7. ASSUME NEW k \in Keys, NEW v \in Values, Drift(k, v) PROVE Kept(c)
    BY <1>1, <1>2, <1>7 DEF Drift, Kept, stored
  <1>8. CASE SetControl \/ Crash \/ Start
    BY <1>3, <1>8 DEF SetControl, Crash, Start, stored, history
  <1>9. CASE UNCHANGED vars
    BY <1>3, <1>9 DEF vars, stored, history
  <1> QED BY <1>4, <1>5, <1>6, <1>7, <1>8, <1>9 DEF Next

\* How a change comes to be succeeded, rolled back or restored, and started.
Concluded(c, w) ==
    /\ Finish(w) /\ work[w].chg = c
Rolled(c, w) ==
    /\ work[w].at = "health" /\ work[w].chg = c /\ ~work[w].failed /\ work[w].tried # 0
    /\ UNCHANGED <<cfg, author, before>>
    /\ ~Busy(w)'

LEMMA StatusMoves ==
    ASSUME Shape, Guarded, [Next]_vars, NEW c \in Changes, status'[c] # status[c]
    PROVE  /\ status'[c] # "absent"
           /\ status'[c] = "succeeded" => \E w \in Workers : Concluded(c, w)
           /\ status'[c] = "rolled_back" => \E w \in Workers : Rolled(c, w)
           /\ status'[c] = "restored" => status[c] = "rolled_back"
  <1>1. /\ status \in [Changes -> Statuses] /\ work \in [Workers -> Work]
        /\ Idle \in Work /\ Idle.at = "idle"
    BY Idling DEF Shape, TypeOK
  <1>2. ASSUME NEW d, NEW s, Set(d, s)
        PROVE  d = c /\ status'[c] = s
    BY <1>1, <1>2 DEF Set
  <1>3. ASSUME NEW w \in Workers, Progress(w)
        PROVE  /\ status'[c] # "absent"
               /\ status'[c] = "succeeded" => \E v \in Workers : Concluded(c, v)
               /\ status'[c] = "rolled_back" => \E v \in Workers : Rolled(c, v)
               /\ status'[c] = "restored" => status[c] = "rolled_back"
    <2>1. CASE ApproveByRule(w)
      BY <1>2, <2>1 DEF ApproveByRule
    <2>2. CASE Begin(w)
      BY <1>2, <2>2 DEF Begin
    <2>3. CASE Connect(w)
      BY <1>2, <2>3 DEF Connect
    <2>4. CASE Readback(w)
      BY <1>2, <2>4 DEF Readback
    <2>5. CASE Finish(w)
      <3>1. work[w].chg = c /\ status'[c] = "succeeded"
        BY <1>2, <2>5 DEF Finish
      <3>2. Concluded(c, w)
        BY <2>5, <3>1 DEF Concluded
      <3> QED BY <3>1, <3>2
    <2>6. CASE Close(w)
      <3>1. PICK healthy \in BOOLEAN :
              LET failed == work[w].failed \/ ~healthy
                  result == IF failed \/ work[w].tried = 0 THEN "needs_human" ELSE "rolled_back"
              IN /\ Set(work[w].chg, result)
                 /\ IF work[w].restoring /\ result = "rolled_back" THEN Move(w, "restored")
                    ELSE Stop(w)
        BY <2>6 DEF Close
      <3>2. CASE work[w].failed \/ ~healthy \/ work[w].tried = 0
        <4>1. status'[c] = "needs_human"
          BY <1>2, <3>1, <3>2
        <4> QED BY <4>1
      <3>3. CASE ~(work[w].failed \/ ~healthy \/ work[w].tried = 0)
        <4>1. work[w].chg = c /\ status'[c] = "rolled_back" /\ (Move(w, "restored") \/ Stop(w))
          BY <1>2, <3>1, <3>3
        <4>2. ~Busy(w)'
          BY <1>1, <4>1 DEF Move, Stop, Busy, Work
        <4>3. Rolled(c, w)
          BY <2>6, <3>3, <4>1, <4>2 DEF Close, Rolled, At
        <4> QED BY <4>1, <4>3
      <3> QED BY <3>2, <3>3
    <2>7. CASE Reconnect(w)
      BY <1>2, <2>7 DEF Reconnect
    <2>8. CASE Restored(w)
      BY <1>2, <2>8 DEF Restored
    <2>9. CASE \/ Verify(w) \/ Check(w) \/ Apply(w) \/ Sample(w) \/ Conclude(w) \/ GiveUp(w)
               \/ Undo(w) \/ UndoApply(w) \/ UndoReadback(w)
      BY <2>9 DEF Verify, Check, Apply, Sample, Conclude, GiveUp, Undo, UndoApply, UndoReadback, stored
    <2> QED BY <1>3, <2>1, <2>2, <2>3, <2>4, <2>5, <2>6, <2>7, <2>8, <2>9 DEF Progress
  <1>4. ASSUME NEW w \in Workers, NEW d \in Changes,
               UseRule(w, d) \/ Admit(w, d) \/ BeginRestore(w, d)
        PROVE  status'[c] = "restoring"
    BY <1>2, <1>4 DEF UseRule, Admit, BeginRestore, stored
  <1>5. ASSUME NEW d \in Changes, Operator(d)
        PROVE  status'[c] \in {"awaiting_approval", "approved", "cancelled", "expired", "executing", "observing"}
    <2>1. CASE AbortWrite(d)
      BY <1>2, <2>1 DEF AbortWrite, Guarded, Kinds
    <2>2. CASE ~AbortWrite(d)
      BY <1>2, <1>5, <2>2 DEF Operator, Prepare, Approve, Cancel, AbortRead, Expire, Lapse, stored
    <2> QED BY <2>1, <2>2
  <1>6. CASE Start
    <2>1. status'[c] = "needs_human"
      BY <1>1, <1>6 DEF Start
    <2> QED BY <2>1
  <1>7. CASE \/ \E k \in Keys, v \in Values : Drift(k, v)
             \/ SetControl \/ Crash \/ UNCHANGED vars
    BY <1>7 DEF Drift, SetControl, Crash, stored, vars
  <1> QED BY <1>3, <1>4, <1>5, <1>6, <1>7 DEF Next

\* A worker at work was at work on the same change, or has just begun.
LEMMA BusyMoves ==
    ASSUME Shape, Guarded, Started, [Next]_vars, NEW v \in Workers, Busy(v)'
    PROVE  \/ Busy(v) /\ work'[v].chg = work[v].chg
           \/ /\ work'[v].chg \in Changes /\ runs'[work'[v].chg] >= 1
              /\ status'[work'[v].chg] \in {"executing", "restoring"}
  <1>1. work \in [Workers -> Work] /\ Idle \in Work /\ Idle.at = "idle" /\ runs \in [Changes -> Nat]
        /\ status \in [Changes -> Statuses]
    BY Idling DEF Shape, TypeOK
  <1>2. CASE work' = work
    BY <1>2 DEF Busy
  <1>3. ASSUME NEW w \in Workers, Progress(w)
        PROVE  \/ Busy(v) /\ work'[v].chg = work[v].chg
               \/ /\ work'[v].chg \in Changes /\ runs'[work'[v].chg] >= 1
                  /\ status'[work'[v].chg] \in {"executing", "restoring"}
    <2>1. CASE Continues(w)
      BY <2>1 DEF Continues, Others, Busy
    <2>2. CASE Ends(w)
      BY <2>2 DEF Ends, Others, Busy
    <2>3. CASE Aside
      BY <2>3 DEF Aside
    <2>4. ASSUME NEW c \in Changes, Takes(w, c)
          PROVE  \/ Busy(v) /\ work'[v].chg = work[v].chg
                 \/ /\ work'[v].chg \in Changes /\ runs'[work'[v].chg] >= 1
                    /\ status'[work'[v].chg] \in {"executing", "restoring"}
      <3>1. CASE v = w
        <4>1. work'[v].chg = c /\ status'[c] \in {"executing", "restoring"}
          BY <2>4, <3>1 DEF Takes
        <4>2. runs'[c] >= 1
          BY <1>1, <2>4 DEF Takes, Started
        <4> QED BY <4>1, <4>2
      <3>2. CASE v # w
        BY <2>4, <3>2 DEF Takes, Others, Busy
      <3> QED BY <3>1, <3>2
    <2> QED BY <1>3, <2>1, <2>2, <2>3, <2>4, ProgressKinds
  <1>4. ASSUME NEW w \in Workers, NEW c \in Changes, UseRule(w, c) \/ Admit(w, c)
        PROVE  Busy(v) /\ work'[v].chg = work[v].chg
    <2>1. PICK p \in {"granted", "admitted"} :
            work' = [work EXCEPT ![w] = [Idle EXCEPT !.at = p, !.chg = c]]
      BY <1>4 DEF UseRule, Admit
    <2>2. [Idle EXCEPT !.at = p, !.chg = c].at = p
      BY <1>1 DEF Work
    <2> QED BY <1>1, <2>1, <2>2 DEF Busy
  <1>5. ASSUME NEW w \in Workers, NEW c \in Changes, BeginRestore(w, c)
        PROVE  \/ Busy(v) /\ work'[v].chg = work[v].chg
               \/ /\ work'[v].chg \in Changes /\ runs'[work'[v].chg] >= 1
                  /\ status'[work'[v].chg] \in {"executing", "restoring"}
    <2> DEFINE r == [Idle EXCEPT !.at = "reconnect", !.chg = c, !.restoring = TRUE]
    <2>1. r.chg = c /\ work' = [work EXCEPT ![w] = r]
      BY <1>1, <1>5 DEF BeginRestore, Work
    <2> HIDE DEF r
    <2>2. CASE v = w
      BY <1>1, <1>5, <2>1, <2>2 DEF BeginRestore, Set, Started, history
    <2>3. CASE v # w
      BY <1>1, <2>1, <2>3 DEF Busy
    <2> QED BY <2>2, <2>3
  <1>6. ASSUME NEW c \in Changes, Operator(c) PROVE work' = work
    BY <1>6 DEF Operator, Prepare, Approve, Cancel, AbortRead, AbortWrite, Expire, Lapse
  <1>7. ASSUME NEW k \in Keys, NEW u \in Values, Drift(k, u) PROVE work' = work
    BY <1>7 DEF Drift
  <1>8. CASE SetControl \/ Start \/ UNCHANGED vars
    BY <1>2, <1>8 DEF SetControl, Start, vars
  <1>9. CASE Crash
    BY <1>1, <1>9 DEF Crash, Busy
  <1> QED BY <1>2, <1>3, <1>4, <1>5, <1>6, <1>7, <1>8, <1>9 DEF Next

LEMMA RunsMoves ==
    ASSUME Shape, [Next]_vars, NEW c \in Changes
    PROVE  /\ runs'[c] >= runs[c]
           /\ runs'[c] # runs[c] => status'[c] = "executing"
  <1>1. runs \in [Changes -> Nat] /\ status \in [Changes -> Statuses]
    BY DEF Shape, TypeOK
  <1>2. CASE runs' = runs
    BY <1>1, <1>2
  <1>3. ASSUME NEW w \in Workers, Begin(w)
        PROVE  runs'[c] >= runs[c] /\ (runs'[c] # runs[c] => status'[c] = "executing")
    BY <1>1, <1>3 DEF Begin, Set
  <1>4. CASE \A w \in Workers : ~Begin(w)
    BY <1>2, <1>4 DEF Next, Progress, ApproveByRule, Connect, Verify, Check, Apply, Readback, Sample,
       Conclude, Finish, GiveUp, Undo, UndoApply, UndoReadback, Close, Reconnect, Restored, UseRule,
       Admit, BeginRestore, Operator, Prepare, Approve, Cancel, AbortRead, AbortWrite, Expire, Lapse,
       Drift, SetControl, Crash, Start, vars, history
  <1> QED BY <1>3, <1>4

LEMMA StartedStep ==
    ASSUME Shape, Guarded, Undoing, [Next]_vars
    PROVE  Started' /\ OwnItems' /\ LeftAlone'
  <1>1. /\ \A c \in Changes : runs[c] \in Nat /\ runs'[c] \in Nat /\ runs'[c] >= runs[c]
        /\ author \in [Keys -> Changes \union {None, Other}]
    BY RunsMoves, ShapeStep DEF Shape, TypeOK
  <1>2. ASSUME NEW w \in Workers, Applied(w)
        PROVE  /\ Busy(w) /\ work[w].chg \in Changes /\ work[w].op \in Ops(work[w].chg)
               /\ runs[work[w].chg] >= 1
               /\ status[work[w].chg] \notin UndoneStatuses
    BY <1>2, BusyChange DEF Applied, Busy, Shape, Located, Undoing, Started, LeftAlone
  <1>3. \A v \in Workers : Busy(v)' => work'[v].chg \in Changes /\ runs'[work'[v].chg] >= 1
    <2> SUFFICES ASSUME NEW v \in Workers, Busy(v)'
                 PROVE  work'[v].chg \in Changes /\ runs'[work'[v].chg] >= 1
      OBVIOUS
    <2>1. CASE Busy(v) /\ work'[v].chg = work[v].chg
      BY <1>1, <2>1, BusyChange DEF Undoing, Started
    <2>2. CASE ~(Busy(v) /\ work'[v].chg = work[v].chg)
      BY <2>2, BusyMoves DEF Undoing
    <2> QED BY <2>1, <2>2
  <1>4. ASSUME NEW c \in Changes, status'[c] = "absent" PROVE runs'[c] = 0
    <2>1. status[c] = "absent"
      BY <1>4, StatusMoves
    <2> QED BY <1>4, <2>1, RunsMoves DEF Undoing, Started
  <1>5. ASSUME NEW c \in Changes, status'[c] = "succeeded" PROVE runs'[c] >= 1
    <2>1. CASE status[c] = "succeeded"
      BY <1>1, <2>1 DEF Undoing, Started
    <2>2. CASE status[c] # "succeeded"
      <3>1. PICK w \in Workers : Concluded(c, w)
        BY <1>5, <2>2, StatusMoves
      <3>2. Busy(w) /\ work[w].chg = c
        BY <3>1 DEF Concluded, Finish, At, Busy
      <3> QED BY <1>1, <3>2 DEF Undoing, Started
    <2> QED BY <2>1, <2>2
  <1>6. ASSUME NEW c \in Changes, runs'[c] = 0, NEW k \in Keys, author'[k] = c PROVE FALSE
    <2>1. runs[c] = 0
      BY <1>1, <1>6
    <2>2. ~Kept(c)
      BY <1>6, <2>1 DEF Kept, Undoing, Started
    <2>3. PICK w \in Workers : Applied(w) /\ work[w].chg = c
      BY <2>2, ItemsKept
    <2> QED BY <1>2, <2>1, <2>3
  <1>7. Started'
    BY <1>3, <1>4, <1>5, <1>6 DEF Started
  <1>8. ASSUME NEW c \in Changes, NEW k \in Keys, author'[k] = c PROVE k \in KeysOf(c)
    <2>1. CASE Kept(c)
      BY <1>8, <2>1 DEF Kept, Undoing, OwnItems
    <2>2. ASSUME NEW w \in Workers, Applied(w), work[w].chg = c PROVE k \in KeysOf(c)
      <3>1. Op(c, work[w].op).key \in KeysOf(c)
        BY <1>2, <2>2, Planned
      <3> QED BY <1>1, <1>8, <2>2, <3>1 DEF Applied, Undoing, OwnItems
    <2> QED BY <2>1, <2>2, ItemsKept
  <1>9. ASSUME NEW v \in Workers, Busy(v)', status'[work'[v].chg] \in UndoneStatuses PROVE FALSE
    <2> DEFINE c == work[v].chg
    <2>1. Busy(v) /\ work'[v].chg = c
      BY <1>9, BusyMoves DEF Undoing, UndoneStatuses
    <2>2. c \in Changes /\ status[c] \notin UndoneStatuses
      BY <2>1, BusyChange DEF Undoing, LeftAlone
    <2>3. status'[c] = "rolled_back"
      BY <1>9, <2>1, <2>2, StatusMoves DEF UndoneStatuses
    <2>4. PICK w \in Workers : Rolled(c, w)
      BY <2>2, <2>3, StatusMoves DEF UndoneStatuses
    <2>5. w # v /\ Busy(w) /\ work[w].chg = c
      BY <1>9, <2>4 DEF Rolled, Busy
    <2> QED BY <2>1, <2>5 DEF Guarded, Alone
  <1>10. LeftAlone'
    BY <1>9 DEF LeftAlone
  <1> QED BY <1>7, <1>8, <1>10 DEF OwnItems

-----------------------------------------------------------------------------
(* The operations tried, and those recovery has behind it                  *)

Whole(w) == Placed(w) /\ Tried(w) /\ SoFar(w)

\* A worker that is not at work owes nothing.
LEMMA AwayWhole ==
    ASSUME NEW w \in Workers, work'[w].at \in {"idle", "granted", "admitted", "reconnect", "restored"},
           work'[w].at = "admitted" => work'[w].tried = 0
    PROVE  Whole(w)'
  BY DEF Whole, Placed, Tried, SoFar, Busy, Recovering

\* A worker that goes on with what it has tried, while nobody wrote.
LEMMA OnWhole ==
    ASSUME NEW w \in Workers, Whole(w), Busy(w), work[w].at # "reconnect", Kept(work[w].chg),
           work[w].chg \in Changes,
           work'[w].chg = work[w].chg, work'[w].tried = work[w].tried,
           work'[w].at \in Recovering =>
              work[w].at \in Recovering /\ work'[w].op = work[w].op
                /\ (work[w].failed => work'[w].failed),
           \A j \in 1 .. work[w].tried : Op(work[w].chg, j).key \in Keys,
           work[w].op \in Nat,
           Placed(w)'
    PROVE  Whole(w)'
  <1> DEFINE c == work[w].chg
  <1>1. Tried(w)'
    BY DEF Whole, Tried, Kept
  <1>2. SoFar(w)'
    <2> SUFFICES ASSUME work'[w].at \in Recovering, ~work'[w].failed,
                        NEW j \in work[w].op + 1 .. work[w].tried, First(c, j),
                        author'[Op(c, j).key] = c
                 PROVE  cfg'[Op(c, j).key] = before'[c][Op(c, j).key]
      BY DEF SoFar, Clean
    <2>1. work[w].at \in Recovering /\ ~work[w].failed
      OBVIOUS
    <2>2. Op(c, j).key \in Keys
      OBVIOUS
    <2>3. Clean(c, Op(c, j).key)
      BY <2>1 DEF Whole, SoFar
    <2> QED BY <2>2, <2>3 DEF Clean, Kept
  <1> QED BY <1>1, <1>2 DEF Whole

LEMMA RecoversWhole ==
    ASSUME Shape, NEW w \in Workers, work[w].at # "idle",
           NEW n \in 0 .. Len(Plan[work[w].chg]), ToRecovery(w, n),
           \A k \in Keys : author'[k] = work[w].chg => \E j \in 1 .. n : Op(work[w].chg, j).key = k
    PROVE  Whole(w)'
  <1> DEFINE c == work[w].chg
             last == UpTo(c, n)
  <1>1. work[w] \in Work /\ c \in Changes /\ n \in Nat
    BY Planned DEF Shape, TypeOK, Located
  <1>2. /\ work'[w].chg = c /\ work'[w].op = last /\ work'[w].tried = n
        /\ work'[w].at = IF last = 0 THEN "health" ELSE "undo"
    BY <1>1 DEF ToRecovery, Shape, TypeOK, Work
  <1>3. \A j \in last + 1 .. n : ~First(c, j)
    BY <1>1, UpToLast
  <1> HIDE DEF last
  <1>4. Placed(w)' /\ Tried(w)'
    BY <1>2 DEF Placed, Tried
  <1>5. SoFar(w)'
    BY <1>2, <1>3 DEF SoFar
  <1> QED BY <1>4, <1>5 DEF Whole

LEMMA UndoesWhole ==
    ASSUME Shape, NEW w \in Workers, Whole(w), work[w].at \in Recovering \ {"health"},
           NEW f \in BOOLEAN, NextUndo(w, f), Kept(work[w].chg),
           NEW key, key = Op(work[w].chg, work[w].op).key,
           f \/ cfg'[key] = before'[work[w].chg][key]
    PROVE  Whole(w)'
  <1> DEFINE c == work[w].chg
             i == work[w].op
             last == UpTo(c, i - 1)
  <1>1. /\ work[w] \in Work /\ c \in Changes /\ i \in Ops(c) /\ Busy(w) /\ work[w].at # "reconnect"
        /\ work[w].tried \in 0 .. Len(Plan[c]) /\ work[w].at \in Recovering /\ Len(Plan[c]) \in Nat
    BY Planned DEF Shape, TypeOK, Located, Recovering, Busy
  <1>2. i \in Nat /\ i - 1 \in Nat /\ i >= 1
    BY <1>1 DEF Ops
  <1>3. /\ work'[w].chg = c /\ work'[w].op = last /\ work'[w].tried = work[w].tried
        /\ work'[w].at = IF last = 0 THEN "health" ELSE "undo"
        /\ ~work'[w].failed => ~work[w].failed /\ ~f
    BY <1>1 DEF NextUndo, Shape, TypeOK, Work
  <1>4. /\ last \in 0 .. i - 1
        /\ \A j \in last + 1 .. i - 1 : ~First(c, j)
    BY <1>1, <1>2, UpToBounded, UpToLast
  <1> HIDE DEF last
  <1>5. Placed(w)'
    BY <1>3 DEF Placed
  <1>6. Tried(w)'
    BY <1>1, <1>3 DEF Whole, Tried, Kept
  <1>7. SoFar(w)'
    <2> SUFFICES ASSUME ~work'[w].failed, NEW j \in last + 1 .. work[w].tried, First(c, j)
                 PROVE  author'[Op(c, j).key] = c => cfg'[Op(c, j).key] = before'[c][Op(c, j).key]
      BY <1>3 DEF SoFar, Clean
    <2>1. ~work[w].failed /\ ~f
      BY <1>3
    <2>2. j \in Ops(c) /\ Op(c, j).key \in Keys /\ j \in Nat
      <3>1. j \in Ops(c)
        BY <1>1, <1>4 DEF Ops
      <3> QED BY <1>1, <3>1, Planned DEF Ops
    <2>3. CASE j < i
      <3>1. j \in last + 1 .. i - 1
        BY <1>2, <1>4, <2>2, <2>3
      <3> QED BY <1>4, <3>1
    <2>4. CASE j = i
      BY <2>1, <2>4
    <2>5. CASE j > i
      <3>1. j \in i + 1 .. work[w].tried
        BY <1>1, <1>2, <2>2, <2>5
      <3>2. Clean(c, Op(c, j).key)
        BY <1>1, <2>1, <3>1 DEF Whole, SoFar
      <3> QED BY <2>2, <3>2 DEF Clean, Kept
    <2> QED BY <1>2, <2>2, <2>3, <2>4, <2>5
  <1> QED BY <1>5, <1>6, <1>7 DEF Whole

\* A worker that took no step owes what it owed.
LEMMA StaysWhole ==
    ASSUME Shape, Guarded, Undoing, [Next]_vars, NEW v \in Workers, work'[v] = work[v]
    PROVE  Whole(v)'
  <1>1. Whole(v)
    BY DEF Undoing, Whole
  <1>2. CASE ~Busy(v)
    BY <1>1, <1>2 DEF Whole, Placed, Tried, SoFar, Busy, Recovering
  <1>3. CASE Busy(v)
    <2>1. work[v].chg \in Changes /\ work[v] \in Work /\ work[v].tried \in 0 .. Len(Plan[work[v].chg])
          /\ Len(Plan[work[v].chg]) \in Nat
      BY <1>3, Planned DEF Shape, TypeOK, Located, Busy
    <2>2. \A j \in 1 .. work[v].tried : Op(work[v].chg, j).key \in Keys
      <3>1. \A j \in 1 .. work[v].tried : j \in Ops(work[v].chg)
        BY <2>1 DEF Ops
      <3> QED BY <2>1, <3>1, Planned
    <2>3. Kept(work[v].chg)
      <3>1. ASSUME NEW w \in Workers, Applied(w), work[w].chg = work[v].chg PROVE FALSE
        BY <1>3, <3>1 DEF Guarded, Alone, Applied, Busy
      <3> QED BY <2>1, <3>1, ItemsKept
    <2>4. CASE work[v].at = "reconnect"
      BY <1>1, <2>4, AwayWhole
    <2>5. CASE work[v].at # "reconnect"
      <3>1. Placed(v)'
        BY <1>1 DEF Whole, Placed
      <3> QED BY <1>1, <1>3, <2>1, <2>2, <2>3, <2>5, <3>1, OnWhole DEF Work
    <2> QED BY <2>4, <2>5
  <1> QED BY <1>2, <1>3

LEMMA ProgressWhole ==
    ASSUME Shape, Guarded, Undoing, NEW w \in Workers, Progress(w)
    PROVE  Whole(w)'
  <1> DEFINE c == work[w].chg
             i == work[w].op
  <1>1. /\ work \in [Workers -> Work] /\ work[w] \in Work /\ Idle \in Work /\ Idle.at = "idle"
        /\ author \in [Keys -> Changes \union {None, Other}] /\ cfg \in [Keys -> Values]
        /\ Whole(w)
    BY Idling DEF Shape, TypeOK, Undoing, Whole
  <1>2. [Next]_vars
    BY DEF Next
  <1>3. work[w].at # "idle" =>
          /\ c \in Changes /\ work[w].tried \in 0 .. Len(Plan[c]) /\ Len(Plan[c]) \in Nat \ {0}
          /\ \A j \in 1 .. work[w].tried : Op(c, j).key \in Keys
    <2> SUFFICES ASSUME work[w].at # "idle"
                 PROVE  /\ c \in Changes /\ work[w].tried \in 0 .. Len(Plan[c])
                        /\ Len(Plan[c]) \in Nat \ {0}
                        /\ \A j \in 1 .. work[w].tried : Op(c, j).key \in Keys
      OBVIOUS
    <2>1. /\ c \in Changes /\ work[w].tried \in 0 .. Len(Plan[c]) /\ Len(Plan[c]) \in Nat \ {0}
      BY Planned DEF Shape, Located
    <2>2. \A j \in 1 .. work[w].tried : j \in Ops(c)
      BY <2>1 DEF Ops
    <2> QED BY <2>1, <2>2, Planned
  <1>4. ASSUME Stop(w) PROVE Whole(w)'
    <2>1. work'[w].at = "idle"
      BY <1>1, <1>4 DEF Stop
    <2> QED BY <2>1, AwayWhole
  <1>5. ASSUME NEW p \in Places, Move(w, p)
        PROVE  /\ work'[w].at = p /\ work'[w].chg = c /\ work'[w].tried = work[w].tried
               /\ work'[w].op = i /\ (work[w].failed => work'[w].failed)
    BY <1>1, <1>5 DEF Move, Work
  <1>6. ASSUME UNCHANGED <<cfg, author, before>> PROVE Kept(c)
    BY <1>6 DEF Kept
  <1>6a. ASSUME work[w].at \in Recovering \ {"health"}, NEW f \in BOOLEAN, NextUndo(w, f), Kept(c),
                f \/ cfg'[Op(c, i).key] = before'[c][Op(c, i).key]
         PROVE  Whole(w)'
    <2> DEFINE key == Op(c, i).key
    <2>1. key = Op(work[w].chg, work[w].op).key /\ (f \/ cfg'[key] = before'[work[w].chg][key])
      BY <1>6a
    <2> HIDE DEF key
    <2> QED BY <1>1, <1>6a, <2>1, UndoesWhole
  <1>7. CASE ApproveByRule(w) \/ Finish(w) \/ Restored(w)
    BY <1>4, <1>7 DEF ApproveByRule, Finish, Restored
  <1>8. CASE Begin(w)
    <2>1. CASE Stop(w)
      BY <1>4, <2>1
    <2>2. CASE status[c] = "approved" /\ Free(c) /\ Move(w, "connect")
      <3>1. work[w].tried = 0 /\ c \in Changes /\ work'[w].at = "connect" /\ work'[w].tried = 0
            /\ work'[w].chg = c /\ author' = author
        BY <1>1, <1>3, <1>5, <1>8, <2>2 DEF Begin, At, Whole, Placed, Places, Running
      <3>2. runs[c] = 0
        <4>1. runs[c] \in Nat /\ ~(runs[c] >= 1)
          BY <2>2, <3>1, ConstantsAssumption DEF Shape, TypeOK, Guarded, Past, Free, Settled
        <4> QED BY <4>1
      <3>3. \A k \in Keys : author'[k] # c
        BY <3>1, <3>2 DEF Undoing, Started
      <3> QED BY <3>1, <3>3 DEF Whole, Placed, Tried, SoFar, Recovering
    <2> QED BY <1>8, <2>1, <2>2 DEF Begin
  <1>9. CASE Connect(w)
    <2>1. CASE Stop(w)
      BY <1>4, <2>1
    <2>2. CASE Move(w, "verify")
      <3>1. /\ work[w].at = "connect" /\ Busy(w) /\ Kept(c) /\ work[w].tried = 0
        BY <1>1, <1>6, <1>9 DEF Connect, At, Busy, Environment, history, Whole, Placed
      <3>2. /\ work'[w].at = "verify" /\ work'[w].chg = c /\ work'[w].tried = 0
        BY <1>5, <2>2, <3>1 DEF Places, Running
      <3>3. Placed(w)'
        BY <3>2 DEF Placed
      <3> QED BY <1>1, <1>3, <3>1, <3>2, <3>3, OnWhole DEF Work, Recovering
    <2> QED BY <1>9, <2>1, <2>2 DEF Connect
  <1>10. CASE Verify(w)
    <2>1. /\ work[w].at = "verify" /\ Busy(w) /\ Kept(c) /\ work[w].tried = 0
      BY <1>1, <1>6, <1>10 DEF Verify, At, Busy, stored, history, Whole, Placed
    <2>2. /\ work'[w].at = "check" /\ work'[w].chg = c /\ work'[w].tried = 0 /\ work'[w].op = 1
      BY <1>1, <1>10, <2>1 DEF Verify, Work
    <2>3. Placed(w)'
      BY <2>2 DEF Placed
    <2> QED BY <1>1, <1>3, <2>1, <2>2, <2>3, OnWhole DEF Work, Recovering
  <1>11. CASE Check(w) \/ Conclude(w)
    <2>1. /\ work[w].at \in {"check", "sample"} /\ Busy(w) /\ Kept(c)
          /\ \/ work[w].at = "check" /\ Move(w, "apply")
             \/ work[w].at = "sample" /\ Move(w, "finish")
      BY <1>1, <1>6, <1>11 DEF Check, Conclude, At, Busy, stored, history
    <2>2. /\ work'[w].chg = c /\ work'[w].tried = work[w].tried /\ work'[w].op = i
          /\ \/ work[w].at = "check" /\ work'[w].at = "apply"
             \/ work[w].at = "sample" /\ work'[w].at = "finish"
      BY <1>5, <2>1 DEF Places, Running
    <2>3. Placed(w)'
      BY <1>1, <2>2 DEF Whole, Placed
    <2> QED BY <1>1, <1>3, <2>1, <2>2, <2>3, OnWhole DEF Work, Recovering
  <1>12. CASE Apply(w)
    <2>1. /\ Busy(w) /\ work[w].tried = i - 1 /\ i \in Ops(c) /\ work[w].at = "apply"
          /\ c \in Changes /\ i \in Nat /\ i \in 0 .. Len(Plan[c])
      BY <1>1, <1>3, <1>12 DEF Apply, At, Busy, Whole, Placed, Shape, Located, Ops
    <2>2. \A k \in Keys : author'[k] = c => \E j \in 1 .. i : Op(c, j).key = k
      <3> SUFFICES ASSUME NEW k \in Keys, author'[k] = c
                   PROVE  \E j \in 1 .. i : Op(c, j).key = k
        OBVIOUS
      <3>1. author[k] = c \/ k = Op(c, i).key
        BY <1>1, <1>12 DEF Apply
      <3>2. CASE author[k] = c
        <4>1. \E j \in 1 .. work[w].tried : Op(c, j).key = k
          BY <1>1, <2>1, <3>2 DEF Whole, Tried
        <4> QED BY <2>1, <4>1
      <3>3. CASE k = Op(c, i).key
        BY <2>1, <3>3 DEF Ops
      <3> QED BY <3>1, <3>2, <3>3
    <2>3. CASE ToRecovery(w, i)
      BY <2>1, <2>2, <2>3, RecoversWhole
    <2>4. CASE work' = [work EXCEPT ![w].at = "readback", ![w].tried = i]
      <3>1. /\ work'[w].at = "readback" /\ work'[w].chg = c /\ work'[w].tried = i
            /\ work'[w].op = i
        BY <1>1, <2>4 DEF Work
      <3> QED BY <2>2, <3>1 DEF Whole, Placed, Tried, SoFar, Recovering
    <2> QED BY <1>12, <2>3, <2>4 DEF Apply
  <1>13. CASE Readback(w)
    <2>1. /\ work[w].at = "readback" /\ Busy(w) /\ Kept(c) /\ work[w].tried = i /\ i \in Nat
      BY <1>1, <1>6, <1>13 DEF Readback, At, Busy, Environment, history, Whole, Placed, Work
    <2>2. CASE work' = [work EXCEPT ![w].at = "check", ![w].op = i + 1]
      <3>1. /\ work'[w].at = "check" /\ work'[w].chg = c /\ work'[w].tried = i
            /\ work'[w].op = i + 1
        BY <1>1, <2>1, <2>2 DEF Work
      <3>2. Placed(w)'
        BY <2>1, <3>1 DEF Placed
      <3> QED BY <1>1, <1>3, <2>1, <3>1, <3>2, OnWhole DEF Work, Recovering
    <2>3. CASE i = Len(Plan[c]) /\ Move(w, "sample")
      <3>1. work'[w].at = "sample" /\ work'[w].chg = c /\ work'[w].tried = i
        BY <1>5, <2>1, <2>3 DEF Places, Running
      <3>2. Placed(w)'
        BY <2>3, <3>1 DEF Placed
      <3> QED BY <1>1, <1>3, <2>1, <3>1, <3>2, OnWhole DEF Work, Recovering
    <2> QED BY <1>13, <2>2, <2>3 DEF Readback
  <1>14. CASE Sample(w)
    <2>1. /\ work[w].at = "sample" /\ Busy(w) /\ Kept(c)
      BY <1>6, <1>14 DEF Sample, At, Busy, stored, history
    <2>2. /\ work'[w].at = "sample" /\ work'[w].chg = c /\ work'[w].tried = work[w].tried
      BY <1>1, <1>14, <2>1 DEF Sample, Work
    <2>3. Placed(w)'
      BY <1>1, <2>1, <2>2 DEF Whole, Placed
    <2> QED BY <1>1, <1>3, <2>1, <2>2, <2>3, OnWhole DEF Work, Recovering
  <1>15. CASE GiveUp(w)
    <2>1. /\ Busy(w) /\ work[w].at \notin {"idle", "reconnect"} /\ ToRecovery(w, work[w].tried)
          /\ author' = author
      BY <1>15 DEF GiveUp, Busy, Running, history
    <2> QED BY <1>1, <1>3, <2>1, RecoversWhole DEF Whole, Tried
  <1>16. CASE Undo(w)
    <2>1. /\ work[w].at = "undo" /\ Busy(w) /\ Kept(c) /\ UNCHANGED <<cfg, before>>
          /\ work[w].at \in Recovering \ {"health"}
      BY <1>6, <1>16 DEF Undo, At, Busy, stored, history, Recovering
    <2>2. CASE NextUndo(w, TRUE)
      BY <1>6a, <2>1, <2>2
    <2>3. CASE NextUndo(w, FALSE) /\ cfg[Op(c, i).key] = before[c][Op(c, i).key]
      BY <1>6a, <2>1, <2>3
    <2>4. CASE Move(w, "undoApply")
      <3>1. /\ work'[w].at = "undoApply" /\ work'[w].chg = c /\ work'[w].tried = work[w].tried
            /\ work'[w].op = i /\ (work[w].failed => work'[w].failed)
        BY <1>5, <2>4 DEF Places, Recovering
      <3>2. Placed(w)'
        BY <3>1 DEF Placed
      <3> QED BY <1>1, <1>3, <2>1, <3>1, <3>2, OnWhole DEF Work
    <2> QED BY <1>16, <2>2, <2>3, <2>4 DEF Undo
  <1>17. CASE UndoApply(w)
    <2>1. /\ work[w].at = "undoApply" /\ Busy(w) /\ c \in Changes
          /\ work[w].at \in Recovering \ {"health"}
      BY <1>3, <1>17 DEF UndoApply, At, Busy, Recovering
    <2>2. Kept(c)
      <3>1. ASSUME NEW v \in Workers, Applied(v), work[v].chg = c PROVE FALSE
        BY <2>1, <3>1 DEF Guarded, Alone, Applied, Busy
      <3> QED BY <1>2, <2>1, <3>1, ItemsKept
    <2>3. CASE NextUndo(w, TRUE)
      BY <1>6a, <2>1, <2>2, <2>3
    <2>4. CASE Move(w, "undoReadback")
      <3>1. /\ work'[w].at = "undoReadback" /\ work'[w].chg = c /\ work'[w].tried = work[w].tried
            /\ work'[w].op = i /\ (work[w].failed => work'[w].failed)
        BY <1>5, <2>4 DEF Places, Recovering
      <3>2. Placed(w)' /\ work'[w].at \in Recovering
        BY <3>1 DEF Placed, Recovering
      <3> QED BY <1>1, <1>3, <2>1, <2>2, <3>1, <3>2, OnWhole DEF Work
    <2> QED BY <1>17, <2>3, <2>4 DEF UndoApply
  <1>18. CASE UndoReadback(w)
    <2>1. /\ work[w].at = "undoReadback" /\ Busy(w) /\ Kept(c) /\ UNCHANGED <<cfg, before>>
          /\ work[w].at \in Recovering \ {"health"}
      BY <1>6, <1>18 DEF UndoReadback, At, Busy, stored, history, Recovering
    <2>2. CASE NextUndo(w, TRUE)
      BY <1>6a, <2>1, <2>2
    <2>3. CASE NextUndo(w, FALSE) /\ cfg[Op(c, i).key] = before[c][Op(c, i).key]
      BY <1>6a, <2>1, <2>3
    <2> QED BY <1>18, <2>2, <2>3 DEF UndoReadback
  <1>19. CASE Close(w)
    <2>1. CASE Stop(w)
      BY <1>4, <2>1
    <2>2. CASE Move(w, "restored")
      <3>1. work'[w].at = "restored"
        BY <1>5, <2>2 DEF Places
      <3> QED BY <3>1, AwayWhole
    <2> QED BY <1>19, <2>1, <2>2 DEF Close
  <1>20. CASE Reconnect(w)
    <2>1. CASE Stop(w)
      BY <1>4, <2>1
    <2>2. CASE ToRecovery(w, Len(Plan[c]))
      <3>1. c \in Changes /\ Len(Plan[c]) \in 0 .. Len(Plan[c]) /\ author' = author
            /\ work[w].at # "idle"
        BY <1>3, <1>20 DEF Reconnect, At, history
      <3>2. ASSUME NEW k \in Keys, author'[k] = c
            PROVE  \E j \in 1 .. Len(Plan[c]) : Op(c, j).key = k
        BY <3>1, <3>2 DEF Undoing, OwnItems, KeysOf, Ops
      <3> QED BY <2>2, <3>1, <3>2, RecoversWhole
    <2> QED BY <1>20, <2>1, <2>2 DEF Reconnect
  <1> QED BY <1>7, <1>8, <1>9, <1>10, <1>11, <1>12, <1>13, <1>14, <1>15, <1>16, <1>17, <1>18,
             <1>19, <1>20 DEF Progress

LEMMA OneWorks ==
    ASSUME Shape, NEW w \in Workers, Progress(w)
    PROVE  Others(w)
  <1>1. work \in [Workers -> Work]
    BY DEF Shape, TypeOK
  <1>2. CASE \/ ApproveByRule(w) \/ Begin(w) \/ Connect(w) \/ Verify(w) \/ Check(w) \/ Apply(w)
             \/ Readback(w) \/ Sample(w) \/ Conclude(w) \/ Finish(w) \/ GiveUp(w)
    BY <1>1, <1>2 DEF ApproveByRule, Begin, Connect, Verify, Check, Apply, Readback, Sample, Conclude,
       Finish, GiveUp, Move, Stop, ToRecovery, Others
  <1>3. CASE Undo(w) \/ UndoApply(w) \/ UndoReadback(w) \/ Close(w) \/ Reconnect(w) \/ Restored(w)
    BY <1>1, <1>3 DEF Undo, UndoApply, UndoReadback, Close, Reconnect, Restored, Move, Stop,
       ToRecovery, NextUndo, Others
  <1> QED BY <1>2, <1>3 DEF Progress

\* A worker that took a step no Progress action describes has begun, or died.
LEMMA OtherWhole ==
    ASSUME Shape, Guarded, Undoing, [Next]_vars, \A w \in Workers : ~Progress(w),
           NEW v \in Workers, work'[v] # work[v]
    PROVE  Whole(v)'
  <1>1. work \in [Workers -> Work] /\ Idle \in Work /\ Idle.at = "idle" /\ Idle.tried = 0
    BY Idling DEF Shape, TypeOK
  <1>2. ASSUME NEW w \in Workers, NEW c \in Changes, UseRule(w, c) PROVE Whole(v)'
    <2>1. work'[v].at = "granted"
      BY <1>1, <1>2 DEF UseRule, Work
    <2> QED BY <2>1, AwayWhole
  <1>3. ASSUME NEW w \in Workers, NEW c \in Changes, Admit(w, c) PROVE Whole(v)'
    <2>1. work'[v].at = "admitted" /\ work'[v].tried = 0
      BY <1>1, <1>3 DEF Admit, Work
    <2> QED BY <2>1, AwayWhole
  <1>4. ASSUME NEW w \in Workers, NEW c \in Changes, BeginRestore(w, c) PROVE Whole(v)'
    <2>1. work'[v].at = "reconnect"
      BY <1>1, <1>4 DEF BeginRestore, Work
    <2> QED BY <2>1, AwayWhole
  <1>5. CASE Crash
    <2>1. work'[v].at = "idle"
      BY <1>1, <1>5 DEF Crash
    <2> QED BY <2>1, AwayWhole
  <1>6. ASSUME NEW c \in Changes, Operator(c) PROVE FALSE
    BY <1>6 DEF Operator, Prepare, Approve, Cancel, AbortRead, AbortWrite, Expire, Lapse
  <1>7. CASE SetControl \/ Start \/ UNCHANGED vars \/ \E k \in Keys, u \in Values : Drift(k, u)
    BY <1>7 DEF SetControl, Start, vars, Drift
  <1> QED BY <1>2, <1>3, <1>4, <1>5, <1>6, <1>7 DEF Next

LEMMA UndoingStep == Shape /\ Guarded /\ Undoing /\ [Next]_vars => Undoing'
  <1> SUFFICES ASSUME Shape, Guarded, Undoing, [Next]_vars PROVE Undoing'
    OBVIOUS
  <1>1. Started' /\ OwnItems' /\ LeftAlone'
    BY StartedStep
  <1>2. ASSUME NEW v \in Workers PROVE Whole(v)'
    <2>1. CASE Progress(v)
      BY <2>1, ProgressWhole
    <2>2. CASE work'[v] = work[v]
      BY <2>2, StaysWhole
    <2>3. CASE ~Progress(v) /\ work'[v] # work[v]
      <3>1. ASSUME NEW w \in Workers, Progress(w) PROVE FALSE
        BY <2>3, <3>1, OneWorks DEF Others
      <3> QED BY <2>3, <3>1, OtherWhole
    <2> QED BY <2>1, <2>2, <2>3
  \* A change that counts as undone stays as it is; one that comes to count as
  \* undone has restored every item it had tried, first operations first.
  <1>3. ASSUME NEW c \in Changes, status'[c] \in UndoneStatuses, NEW k \in KeysOf(c),
               author'[k] = c
        PROVE  cfg'[k] = before'[c][k]
    <2>1. k \in Keys
      BY Planned DEF KeysOf
    <2>2. CASE status[c] \in UndoneStatuses
      <3>1. ASSUME NEW w \in Workers, Applied(w), work[w].chg = c PROVE FALSE
        BY <2>2, <3>1 DEF Applied, Busy, Undoing, LeftAlone
      <3>2. Kept(c)
        BY <3>1, ItemsKept
      <3> QED BY <1>3, <2>1, <2>2, <3>2 DEF Kept, Undoing, RolledBackClean, UndoneStatuses
    <2>3. CASE status[c] \notin UndoneStatuses
      <3>1. status'[c] = "rolled_back"
        BY <1>3, <2>3, StatusMoves DEF UndoneStatuses
      <3>2. PICK w \in Workers : Rolled(c, w)
        BY <2>3, <3>1, StatusMoves DEF UndoneStatuses
      <3>3. /\ work[w].at = "health" /\ work[w].at \in Recovering /\ Busy(w)
            /\ work[w].chg = c /\ author[k] = c
            /\ ~work[w].failed /\ work[w].tried \in Nat
        BY <1>3, <3>2 DEF Rolled, Busy, Recovering, Shape, TypeOK, Work
      <3>4. PICK i \in 1 .. work[w].tried : Op(c, i).key = k
        BY <2>1, <3>3 DEF Undoing, Tried
      <3>5. PICK j \in 1 .. work[w].tried : Op(c, j).key = k /\ First(c, j)
        BY <3>3, <3>4, HasFirst
      <3>6. work[w].op = 0
        BY <3>3 DEF Undoing, Placed
      <3>7. Clean(c, k)
        BY <3>3, <3>5, <3>6 DEF Undoing, SoFar
      <3> QED BY <1>3, <3>2, <3>7 DEF Clean, Rolled
    <2> QED BY <2>2, <2>3
  <1>4. RolledBackClean'
    BY <1>3 DEF RolledBackClean, UndoneStatuses
  <1> QED BY <1>1, <1>2, <1>4 DEF Undoing, Whole

LEMMA UndoingInit == Init => Undoing
  <1> SUFFICES ASSUME Init PROVE Undoing
    OBVIOUS
  <1>1. /\ \A w \in Workers : work[w] = Idle /\ ~Busy(w) /\ work[w].at = "idle"
        /\ \A c \in Changes : status[c] = "absent" /\ runs[c] = 0
        /\ \A k \in Keys : author[k] = None
    BY Idling DEF Init, Busy
  <1>2. Started /\ OwnItems /\ LeftAlone /\ RolledBackClean
    BY <1>1, ConstantsAssumption DEF Started, OwnItems, LeftAlone, RolledBackClean, UndoneStatuses
  <1>3. \A w \in Workers : Placed(w) /\ Tried(w) /\ SoFar(w)
    BY <1>1 DEF Placed, Tried, SoFar, Recovering
  <1> QED BY <1>2, <1>3 DEF Undoing

LEMMA AlwaysUndoing == Spec => [](Shape /\ Guarded /\ Undoing)
  BY ShapeInit, ShapeStep, GuardedInit, GuardedStep, UndoingInit, UndoingStep, PTL DEF Spec

\* What is reported rolled back or restored left nothing on the device: for any
\* plan, also one that writes an item several times, and whatever was lost,
\* aborted, overwritten by others or cut off by a crash on the way there.
THEOREM RolledBack == Spec => []RolledBackClean
  <1>1. Undoing => RolledBackClean
    BY DEF Undoing
  <1> QED BY <1>1, AlwaysUndoing, PTL

-----------------------------------------------------------------------------
(* Success                                                                 *)

\* While a change goes forward, what it has tried is on the device, or another
\* operator has replaced it.
Landed == \A w \in Workers : work[w].at \in Running =>
              \A j \in 1 .. work[w].tried : author[Op(work[w].chg, j).key] \in {work[w].chg, Other}

\* Only the change itself takes back what it wrote: other changes at work are
\* on other devices, and have none of its items.
LEMMA AuthorsStay ==
    ASSUME Shape, Guarded, [Next]_vars, NEW w \in Workers, work[w].at \in Running,
           NEW k \in KeysOf(work[w].chg), author[k] \in {work[w].chg, Other}
    PROVE  author'[k] \in {work[w].chg, Other}
  <1> DEFINE c == work[w].chg
  <1>1. author \in [Keys -> Changes \union {None, Other}] /\ Busy(w) /\ c \in Changes
    BY BusyChange DEF Shape, TypeOK, Busy, Running
  <1>0. k \in Keys
    BY <1>1, Planned DEF KeysOf
  <1>2. CASE author' = author
    BY <1>2
  <1>3. ASSUME NEW v \in Workers, v # w, work[v].at \in {"apply", "undoApply"}
        PROVE  k # Op(work[v].chg, work[v].op).key
    <2>1. Busy(v) /\ work[v].chg \in Changes /\ work[v].op \in Ops(work[v].chg)
      BY <1>3, BusyChange DEF Shape, Located, Busy
    <2>2. DeviceOf[work[v].chg] # DeviceOf[c]
      BY <1>1, <1>3, <2>1 DEF Guarded, Holding, Alone
    <2>3. Op(work[v].chg, work[v].op).key \in KeysOf(work[v].chg)
      BY <2>1, Planned
    <2> QED BY <1>1, <2>1, <2>2, <2>3, ItemsAssumption
  <1>4. ASSUME NEW v \in Workers, Apply(v) PROVE author'[k] \in {c, Other}
    <2> DEFINE key == Op(work[v].chg, work[v].op).key
    <2>1. author' = author \/ author' = [author EXCEPT ![key] = work[v].chg]
      BY <1>4 DEF Apply
    <2>2. v = w \/ k # key
      BY <1>3, <1>4 DEF Apply, At
    <2> HIDE DEF key
    <2> QED BY <1>0, <1>1, <2>1, <2>2
  <1>5. ASSUME NEW v \in Workers, UndoApply(v) PROVE author'[k] \in {c, Other}
    <2> DEFINE key == Op(work[v].chg, work[v].op).key
    <2>1. author' = author \/ author' = [author EXCEPT ![key] = None]
      BY <1>5 DEF UndoApply
    <2>2. v # w
      BY <1>5 DEF UndoApply, At, Running
    <2>3. k # key
      BY <1>3, <1>5, <2>2 DEF UndoApply, At
    <2> HIDE DEF key
    <2> QED BY <1>0, <1>1, <2>1, <2>3
  <1>6. ASSUME NEW q \in Keys, NEW u \in Values, Drift(q, u) PROVE author'[k] \in {c, Other}
    BY <1>1, <1>6 DEF Drift
  <1>7. CASE ~\E v \in Workers : Apply(v) \/ UndoApply(v)
    <2>1. CASE \E q \in Keys, u \in Values : Drift(q, u)
      BY <1>6, <2>1
    <2>2. CASE ~\E q \in Keys, u \in Values : Drift(q, u)
      <3>1. author' = author
        BY <1>7, <2>2 DEF Next, Progress, ApproveByRule, Begin, Connect, Verify, Check, Readback,
           Sample, Conclude, Finish, GiveUp, Undo, UndoReadback, Close, Reconnect, Restored, UseRule,
           Admit, BeginRestore, Operator, Prepare, Approve, Cancel, AbortRead, AbortWrite, Expire,
           Lapse, SetControl, Crash, Start, vars, history
      <3> QED BY <1>2, <3>1
    <2> QED BY <2>1, <2>2
  <1> QED BY <1>4, <1>5, <1>7

\* A worker goes forward from where it was, with one more operation tried only
\* when that operation has landed.
LEMMA Forward ==
    ASSUME Shape, Guarded, Undoing, [Next]_vars, NEW w \in Workers, work'[w].at \in Running
    PROVE  \/ work'[w].tried = 0
           \/ /\ work[w].at \in Running /\ work'[w].chg = work[w].chg
              /\ \/ work'[w].tried = work[w].tried
                 \/ /\ work'[w].tried = work[w].op /\ work[w].tried = work[w].op - 1
                    /\ author' = [author EXCEPT ![Op(work[w].chg, work[w].op).key] = work[w].chg]
  <1>1. /\ work \in [Workers -> Work] /\ work[w] \in Work /\ Idle \in Work /\ Idle.at = "idle"
        /\ Idle.at \notin Running
    BY Idling DEF Shape, TypeOK, Running
  <1>2. CASE work'[w] = work[w]
    BY <1>2
  <1>3. CASE Progress(w)
    <2>1. CASE Begin(w)
      BY <1>1, <2>1 DEF Begin, Move, Stop, Work, Undoing, Placed, At
    <2>2. CASE Apply(w)
      <3>1. ~ToRecovery(w, work[w].op)
        BY <1>1 DEF ToRecovery, Work, Running
      <3>2. /\ work' = [work EXCEPT ![w].at = "readback", ![w].tried = work[w].op]
            /\ author' = [author EXCEPT ![Op(work[w].chg, work[w].op).key] = work[w].chg]
        BY <2>2, <3>1 DEF Apply
      <3> QED BY <1>1, <2>2, <3>2 DEF Apply, At, Undoing, Placed, Work, Running
    <2>3. CASE Connect(w) \/ Verify(w) \/ Check(w) \/ Readback(w) \/ Sample(w) \/ Conclude(w)
      BY <1>1, <2>3 DEF Connect, Verify, Check, Readback, Sample, Conclude, Move, Stop, Work, At, Running
    <2>4. CASE ApproveByRule(w) \/ Finish(w) \/ Restored(w)
      BY <1>1, <2>4 DEF ApproveByRule, Finish, Restored, Stop
    <2>5. CASE GiveUp(w) \/ Reconnect(w)
      BY <1>1, <2>5 DEF GiveUp, Reconnect, ToRecovery, Stop, Work, Running
    <2>6. CASE Undo(w) \/ UndoApply(w) \/ UndoReadback(w)
      BY <1>1, <2>6 DEF Undo, UndoApply, UndoReadback, NextUndo, Move, Work, Running
    <2>7. CASE Close(w)
      <3>1. Move(w, "restored") \/ Stop(w)
        BY <2>7 DEF Close
      <3> QED BY <1>1, <3>1 DEF Move, Stop, Work, Running
    <2> QED BY <1>3, <2>1, <2>2, <2>3, <2>4, <2>5, <2>6, <2>7 DEF Progress
  <1>4. CASE \E v \in Workers \ {w} : Progress(v)
    BY <1>2, <1>4, OneWorks DEF Others
  <1>5. CASE \A v \in Workers : ~Progress(v)
    <2>1. ASSUME NEW v \in Workers, NEW c \in Changes,
                 UseRule(v, c) \/ Admit(v, c) \/ BeginRestore(v, c)
          PROVE  work'[w] = work[w]
      <3>1. CASE UseRule(v, c)
        <4>1. work'[v].at = "granted" /\ \A u \in Workers \ {v} : work'[u] = work[u]
          BY <1>1, <3>1 DEF UseRule, Work
        <4> QED BY <4>1 DEF Running
      <3>2. CASE Admit(v, c)
        <4>1. work'[v].at = "admitted" /\ \A u \in Workers \ {v} : work'[u] = work[u]
          BY <1>1, <3>2 DEF Admit, Work
        <4> QED BY <4>1 DEF Running
      <3>3. CASE BeginRestore(v, c)
        <4>1. work'[v].at = "reconnect" /\ \A u \in Workers \ {v} : work'[u] = work[u]
          BY <1>1, <3>3 DEF BeginRestore, Work
        <4> QED BY <4>1 DEF Running
      <3> QED BY <2>1, <3>1, <3>2, <3>3
    <2>2. ~Crash
      BY <1>1 DEF Crash
    <2>3. ASSUME NEW c \in Changes, Operator(c) PROVE work' = work
      BY <2>3 DEF Operator, Prepare, Approve, Cancel, AbortRead, AbortWrite, Expire, Lapse
    <2>4. CASE SetControl \/ Start \/ UNCHANGED vars \/ \E k \in Keys, u \in Values : Drift(k, u)
      BY <1>2, <2>4 DEF SetControl, Start, vars, Drift
    <2> QED BY <1>2, <1>5, <2>1, <2>2, <2>3, <2>4 DEF Next
  <1> QED BY <1>3, <1>4, <1>5

LEMMA LandedStep == Shape /\ Guarded /\ Undoing /\ Landed /\ [Next]_vars => Landed'
  <1> SUFFICES ASSUME Shape, Guarded, Undoing, Landed, [Next]_vars,
                      NEW w \in Workers, work'[w].at \in Running,
                      NEW j \in 1 .. work'[w].tried
               PROVE  author'[Op(work'[w].chg, j).key] \in {work'[w].chg, Other}
    BY DEF Landed
  <1> DEFINE c == work[w].chg
             i == work[w].op
  <1>1. /\ work'[w].tried # 0 /\ work[w].at \in Running /\ work'[w].chg = c
        /\ \/ work'[w].tried = work[w].tried
           \/ /\ work'[w].tried = i /\ work[w].tried = i - 1
              /\ author' = [author EXCEPT ![Op(c, i).key] = c]
    BY Forward
  <1>2. /\ c \in Changes /\ work[w].tried \in 0 .. Len(Plan[c]) /\ Len(Plan[c]) \in Nat
        /\ i \in Nat /\ author \in [Keys -> Changes \union {None, Other}]
    BY <1>1, Planned DEF Shape, TypeOK, Located, Work, Running
  <1>3. CASE j \in 1 .. work[w].tried
    <2>1. j \in Ops(c)
      BY <1>2, <1>3 DEF Ops
    <2>2. Op(c, j).key \in KeysOf(c) /\ author[Op(c, j).key] \in {c, Other}
      BY <1>1, <1>2, <1>3, <2>1, Planned DEF Landed
    <2>3. author'[Op(c, j).key] \in {c, Other}
      BY <1>1, <2>2, AuthorsStay
    <2> QED BY <1>1, <2>3
  <1>4. CASE j \notin 1 .. work[w].tried
    <2>1. j = i /\ author' = [author EXCEPT ![Op(c, i).key] = c] /\ i \in 1 .. Len(Plan[c])
      <3>1. work'[w].tried = i /\ work[w].tried = i - 1 /\ author' = [author EXCEPT ![Op(c, i).key] = c]
        BY <1>1, <1>4
      <3>2. i \in 0 .. Len(Plan[c])
        BY <3>1, ShapeStep, <1>1 DEF Shape, Located, Running
      <3> QED BY <1>2, <1>4, <3>1, <3>2
    <2>2. Op(c, i).key \in Keys
      BY <1>2, <2>1, Planned DEF Ops
    <2> QED BY <1>1, <1>2, <2>1, <2>2
  <1> QED BY <1>3, <1>4

\* A change is reported successful only by a worker that has sent every operation
\* of the plan, and with each of them on the device, unless another operator has
\* replaced it: no other change can have taken one back.
THEOREM Succeeds == Spec => SuccessIsWhole
  <1>1. Init => Landed
    <2>1. Init => \A w \in Workers : work[w].at = "idle"
      BY Idling DEF Init
    <2> QED BY <2>1 DEF Landed, Running
  <1> DEFINE A == \A c \in Changes : status[c] # "succeeded" /\ status'[c] = "succeeded"
                    => /\ \E w \in Workers : work[w].chg = c /\ work[w].tried = Len(Plan[c])
                       /\ \A i \in Ops(c) : ~Op(c, i).irreversible
                                              => author[Op(c, i).key] \in {c, Other}
  <1>2. Shape /\ Guarded /\ Undoing /\ Landed /\ [Next]_vars => A
    <2> SUFFICES ASSUME Shape, Guarded, Undoing, Landed, [Next]_vars,
                        NEW c \in Changes, status[c] # "succeeded", status'[c] = "succeeded"
                 PROVE  /\ \E w \in Workers : work[w].chg = c /\ work[w].tried = Len(Plan[c])
                        /\ \A i \in Ops(c) : author[Op(c, i).key] \in {c, Other}
      OBVIOUS
    <2>1. PICK w \in Workers : Concluded(c, w)
      BY StatusMoves
    <2>2. work[w].at = "finish" /\ work[w].chg = c /\ work[w].tried = Len(Plan[c])
      BY <2>1 DEF Concluded, Finish, At, Undoing, Placed
    <2>3. \A i \in Ops(c) : author[Op(c, i).key] \in {c, Other}
      BY <2>2 DEF Landed, Ops, Running
    <2> QED BY <2>2, <2>3
  <1>3. Spec => [](Shape /\ Guarded /\ Undoing /\ Landed)
    BY <1>1, ShapeInit, ShapeStep, GuardedInit, GuardedStep, UndoingInit, UndoingStep, LandedStep,
       PTL DEF Spec
  <1>4. Spec => [][A]_vars
    <2> HIDE DEF A
    <2> QED BY <1>2, <1>3, PTL DEF Spec
  <1> QED BY <1>4 DEF SuccessIsWhole

=============================================================================
