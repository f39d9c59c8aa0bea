------------------------------ MODULE MCFollowUp ------------------------------
(* Small instances of FollowUp for TLC: a target and a guard, each         *)
(* regressed by two bad readings in a row.                                 *)
EXTENDS FollowUpGraph, TLC

CONSTANTS target, guard

MCThreshold == target :> 2 @@ guard :> 2
=============================================================================
