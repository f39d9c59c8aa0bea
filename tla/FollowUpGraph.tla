----------------------------- MODULE FollowUpGraph -----------------------------
(***************************************************************************)
(* FollowUp implements RecoveryGraph.  execute() gives the graph one       *)
(* action, and calls it before FollowUp.run() and again when the verdict   *)
(* is there.  Here the graph's run is read off the follow-up's state at    *)
(* every step: the verdict execute() then reports ends a history that the  *)
(* change has really had.  (Its report is shorter by one row when the      *)
(* stability window regressed: a revert is then told from fast_observing.) *)
(***************************************************************************)
EXTENDS FollowUp

\* How far the run has come, in the order of the graph's states.
Path == <<"proposed", "prechecked", "committed", "fast_observing", "stability_observing">>

Depth ==
    CASE pc = "start"                         -> 0
      [] pc = "opened"                        -> 1
      [] pc \in {"baseline", "commit", "ran"} -> 2
      [] pc = "grace"                         -> 3
      [] pc = "done" /\ outcome \in {"not_committed", "raised"} -> 2
      [] OTHER                                -> IF stable THEN 5 ELSE 4

\* What execute() reports for each verdict; when run() raises it reports nothing.
Final ==
    CASE pc # "done" \/ outcome = "raised"      -> <<>>
      [] outcome \in {"passed", "reverted"}     -> <<outcome>>
      [] OTHER                                  -> <<"escalated">>

History == SubSeq(Path, 1, Depth) \o Final

Graph == INSTANCE RecoveryGraph WITH
    Actions    <- {"action"},
    Mechanism  <- [a \in {"action"} |-> "host_recovery"],
    Impact     <- [a \in {"action"} |-> 1],
    MaxActions <- 2,
    Facts      <- {},
    Required   <- [e \in {"action"} \X {"action"} |-> {}],
    Ages       <- {},
    MaxAge     <- 0,
    edges      <- {},
    state      <- IF History = <<>> THEN "absent" ELSE History[Len(History)],
    current    <- IF pc = "start" THEN None ELSE "action",
    budget     <- IF pc = "start" THEN 0 ELSE 2,
    attempted  <- IF pc = "start" THEN <<>> ELSE <<"action">>,
    reverted   <- IF outcome = "reverted" THEN "action" ELSE None,
    verified   <- (outcome = "reverted"),
    trail      <- [i \in 1 .. Len(History) |-> [action |-> "action", to |-> History[i]]],
    changed    <- IF written /\ outcome # "reverted" THEN {"action"} ELSE {}

\* Every step of a run, from its proposal to its verdict, is a step the
\* recovery graph allows: no verdict skips a gate, reports a rollback that was
\* not read back, or moves on from a final state.
FollowsGraph == Graph!Spec
=============================================================================
