--------------------------- MODULE MCRecoveryGraph ---------------------------
(* A small instance of RecoveryIncident for TLC: every graph over three    *)
(* actions of two mechanisms and two levels of impact.                     *)
EXTENDS RecoveryIncident, TLC

CONSTANTS a, b, c

MCMechanism == a :> "restart" @@ b :> "bounce" @@ c :> "restart"
MCImpact    == a :> 2 @@ b :> 2 @@ c :> 1
MCRequired  == [e \in Actions \X Actions |-> {"fact"}]
MCAges      == -1 .. MaxAge + 1      \* from the future, up to just stale
=============================================================================
