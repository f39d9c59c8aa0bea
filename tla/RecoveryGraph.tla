---------------------------- MODULE RecoveryGraph ----------------------------
(***************************************************************************)
(* The bounded recovery graph of core/remediate/recovery_graph.py: which   *)
(* registered action an incident may try, and after which other one.       *)
(* Incidents share nothing, so the module follows one RecoveryRun.  The    *)
(* graph executes nothing: the caller acts on the host and reports what it *)
(* has seen, and may call any method in any order with any report.  A call *)
(* that raises changes nothing and is left out, but for open_incident().   *)
(***************************************************************************)
EXTENDS Integers, Sequences, FiniteSets

CONSTANTS
    Actions,            \* registered ActionNodes
    Mechanism, Impact,  \* their fields
    MaxActions,         \* max_actions_per_incident
    Facts, Required,    \* evidence facts; required_evidence of an edge
    Ages, MaxAge,       \* age of a FreshEvidence row; evidence_max_age
    None                \* no action

\* The fields of the nodes and edges, and a positive bound on the attempts.
WellFormed ==
    /\ None \notin Actions
    /\ Impact \in [Actions -> Nat]
    /\ DOMAIN Mechanism = Actions
    /\ MaxActions \in Nat \ {0}
    /\ MaxAge \in Nat /\ Ages \subseteq Int
    /\ Required \in [Actions \X Actions -> SUBSET Facts]

VARIABLES
    edges,        \* the registered fallback edges, fixed at construction
    state,        \* RecoveryRun.state; "absent" before open_incident
    current,      \* current_action_id
    budget,       \* action_budget
    attempted,    \* attempted_action_ids
    reverted,     \* last_reverted_action_id
    verified,     \* rollback_verified
    trail,        \* transitions: the action and the state of each
    changed       \* external: actions whose effect may be on the host

vars == <<edges, state, current, budget, attempted, reverted, verified, trail, changed>>

Terminal == {"passed", "escalated"}
RunStates == {"proposed", "prechecked", "committed", "fast_observing", "stability_observing",
              "reverted"} \union Terminal
Observing == {"committed", "fast_observing", "stability_observing"}

-----------------------------------------------------------------------------
(* Construction                                                            *)

AcyclicSelf(E) == \A a \in Actions : <<a, a>> \notin E

\* The depth-first search meets no action it is still visiting: every set of
\* actions has one without an edge into the set.
Acyclic(E) ==
    \A S \in SUBSET Actions : S # {} => \E a \in S : \A b \in S : <<a, b>> \notin E

\* An edge changes the mechanism and never raises the impact.
Descends(a, b) == Mechanism[a] # Mechanism[b] /\ Impact[b] <= Impact[a]

Registered(E) == (\A e \in E : Descends(e[1], e[2])) /\ Acyclic(E)

TypeOK ==
    /\ edges \in SUBSET (Actions \X Actions)
    /\ state \in RunStates \union {"absent"}
    /\ current \in Actions \union {None}
    /\ budget \in Nat
    /\ attempted \in Seq(Actions)
    /\ reverted \in Actions \union {None}
    /\ verified \in BOOLEAN
    /\ trail \in Seq([action : Actions, to : RunStates])
    /\ changed \subseteq Actions

Init ==
    /\ edges \in {E \in SUBSET (Actions \X Actions) : Registered(E)}
    /\ state = "absent"
    /\ current = None
    /\ budget = 0
    /\ attempted = <<>>
    /\ reverted = None
    /\ verified = FALSE
    /\ trail = <<>>
    /\ changed = {}

-----------------------------------------------------------------------------
(* _record() and _move(): every change of state is a row of the audit.     *)

MoveTo(action, to) ==
    /\ current' = action
    /\ state' = to
    /\ trail' = Append(trail, [action |-> action, to |-> to])

Move(to) == MoveTo(current, to)

Run == <<edges, budget, attempted, reverted, verified>>

\* The caller's reading is complete and the management path answers; without
\* either, the gate escalates.
Gate(from, to) ==
    /\ state = from
    /\ \E sound \in BOOLEAN : Move(IF sound THEN to ELSE "escalated")
    /\ UNCHANGED <<Run, changed>>

\* The run is registered before it is recorded, and a time without a zone makes
\* the record raise: the run then stands, proposed, without its first row.
OpenIncident(a) ==
    /\ state = "absent"
    /\ budget' \in 1 .. MaxActions
    /\ attempted' = <<a>>
    /\ \/ MoveTo(a, "proposed")
       \/ current' = a /\ state' = "proposed" /\ UNCHANGED trail
    /\ UNCHANGED <<edges, reverted, verified, changed>>

Precheck == Gate("proposed", "prechecked")

\* The caller runs the action, as FollowUp.run() does with its commit().
Act ==
    /\ state = "prechecked"
    /\ current \notin changed
    /\ changed' = changed \union {current}
    /\ UNCHANGED <<Run, state, current, trail>>

\* readback_passed is only reported of an action that was run.
Commit ==
    /\ state = "prechecked"
    /\ \/ current \in changed /\ Move("committed")
       \/ Move("escalated")
    /\ UNCHANGED <<Run, changed>>

BeginFastObservation == Gate("committed", "fast_observing")
BeginStabilityObservation == Gate("fast_observing", "stability_observing")
PassStability == Gate("stability_observing", "passed")

\* A rollback the caller has run and read back; or it failed, or its readback
\* is incomplete, and the change may still be there.
Revert ==
    /\ state \in Observing
    /\ \/ /\ Move("reverted")
          /\ reverted' = current
          /\ verified' = TRUE
          /\ changed' = changed \ {current}
          /\ UNCHANGED <<edges, budget, attempted>>
       \/ Move("escalated") /\ UNCHANGED <<Run, changed>>

Fresh(rows) == {row.fact : row \in {r \in rows : 0 <= r.age /\ r.age <= MaxAge}}

\* A registered fallback that fresh evidence selects, within the budget.
Selected(a, rows) ==
    /\ verified /\ reverted # None
    /\ Len(attempted) < budget
    /\ <<reverted, a>> \in edges
    /\ Descends(reverted, a)
    /\ Required[<<reverted, a>>] \subseteq Fresh(rows)

ProposeNextAnywhere(a) ==
    /\ state \in {"reverted", "committed"}
    /\ Len(attempted) < budget
    /\ attempted' = Append(attempted, a)
    /\ verified' = FALSE
    /\ MoveTo(a, "proposed")
    /\ UNCHANGED <<edges, budget, reverted, changed>>

ProposeNextUncounted(a) ==
    /\ state = "reverted"
    /\ \E rows \in SUBSET [fact : Facts, age : Ages] : Selected(a, rows)
    /\ verified' = FALSE
    /\ MoveTo(a, "proposed")
    /\ UNCHANGED <<edges, budget, attempted, reverted, changed>>

\* propose_next(): anything that does not hold ends the incident.
ProposeNext(a) ==
    /\ state = "reverted"
    /\ \E rows \in SUBSET [fact : Facts, age : Ages] :
         \/ /\ Selected(a, rows)
            /\ attempted' = Append(attempted, a)
            /\ verified' = FALSE
            /\ MoveTo(a, "proposed")
         \/ /\ ~Selected(a, rows)
            /\ Move("escalated")
            /\ UNCHANGED <<attempted, verified>>
    /\ UNCHANGED <<edges, budget, reverted, changed>>

\* escalate(): an external reason stops an active run.
Escalate ==
    /\ state \in RunStates \ Terminal
    /\ Move("escalated")
    /\ UNCHANGED <<Run, changed>>

Next ==
    \/ \E a \in Actions : OpenIncident(a) \/ ProposeNext(a)
    \/ Precheck \/ Act \/ Commit
    \/ BeginFastObservation \/ BeginStabilityObservation \/ PassStability
    \/ Revert \/ Escalate

Spec == Init /\ [][Next]_vars

=============================================================================
