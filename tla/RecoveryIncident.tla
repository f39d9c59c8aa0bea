-------------------------- MODULE RecoveryIncident --------------------------
(***************************************************************************)
(* One incident in the recovery graph and what the graph promises of it,   *)
(* whatever its caller does.  RecoveryGraph has the calls, and is what a   *)
(* follow-up implements; this module states the properties of every        *)
(* history of calls, not only of the ones a follow-up makes.               *)
(***************************************************************************)
EXTENDS Integers, Sequences, FiniteSets

CONSTANTS Actions, Mechanism, Impact, MaxActions, Facts, Required, Ages, MaxAge, NoAction
VARIABLES edges, state, current, budget, attempted, reverted, verified, trail, changed

Incident == INSTANCE RecoveryGraph WITH None <- NoAction

ASSUME IncidentAssumption == Incident!WellFormed

IncidentSpec == Incident!Spec

-----------------------------------------------------------------------------
\* "A second action is reachable only after the first action was verifiably
\* reverted": the host never carries the effect of two actions of an incident,
\* and of none when an action is proposed.
OneChangeAtATime ==
    /\ changed \subseteq {current}
    /\ state = "proposed" => changed = {}

\* An incident tries no action twice, stays within its budget, and each action
\* it tries uses another mechanism than the one before and never more impact
\* than any before.
AttemptsDescend ==
    /\ Incident!TypeOK
    /\ Len(attempted) <= budget
    /\ \A i, j \in 1 .. Len(attempted) : i < j =>
         /\ attempted[i] # attempted[j]
         /\ Impact[attempted[j]] <= Impact[attempted[i]]
         /\ j = i + 1 => Mechanism[attempted[i]] # Mechanism[attempted[j]]

\* The audit tells the run: it ends where the run stands, its proposals are
\* the attempts in their order, and just before each but the first is a
\* verified revert of the attempt before it.  One row may be missing, and no
\* other: the first, of a run opened with a time the record refuses.  Its place
\* is filled with the first attempt.
Unrecorded == state # "absent" /\ (trail = <<>> \/ trail[1].to # "proposed")
Opening == IF Unrecorded THEN <<[action |-> attempted[1], to |-> "proposed"]>> ELSE <<>>
Account == Opening \o trail

Proposals == {i \in 1 .. Len(Account) : Account[i].to = "proposed"}
Rank(i) == Cardinality({j \in Proposals : j <= i})

TrailTellsRun ==
    /\ state # "absent" => Account[Len(Account)] = [action |-> current, to |-> state]
    /\ Cardinality(Proposals) = Len(attempted)
    /\ \A i \in Proposals :
         /\ Account[i].action = attempted[Rank(i)]
         /\ i > 1 => Account[i - 1] = [action |-> attempted[Rank(i) - 1], to |-> "reverted"]

\* A run that has passed or was escalated is over, and the audit is never
\* rewritten.
FinalStays ==
    [][/\ state \notin Incident!Terminal
       /\ SubSeq(trail', 1, Len(trail)) = trail]_<<state, current, attempted, trail>>
=============================================================================
