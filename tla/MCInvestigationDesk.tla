------------------------ MODULE MCInvestigationDesk ------------------------
(* Small instances of InvestigationDesk for TLC.                           *)
EXTENDS InvestigationDesk, TLC

\* Worker threads differ by name only; sound for the run without liveness.
WorkerSymmetry == Permutations(Workers)
=============================================================================
