------------------------ MODULE MCRemediationExecutor ------------------------
(* Small instances of RemediationExecutor for TLC.                         *)
EXTENDS RemediationExecutor, TLC

CONSTANTS r1, r2, r3

\* r1 and r2 act on the same asset in the same failure domain; r3 belongs to
\* another domain and, with r1, to one incident.
MCIncidentOf == r1 :> "i1" @@ r2 :> "i2" @@ r3 :> "i1"
MCAssetOf    == r1 :> "a"  @@ r2 :> "a"  @@ r3 :> "b"
MCDomainOf   == r1 :> "d"  @@ r2 :> "d"  @@ r3 :> "e"

\* Two requests of one domain: enough for the runs about a single hazard.
PairIncidentOf == r1 :> "i1" @@ r2 :> "i2"
PairAssetOf    == r1 :> "a"  @@ r2 :> "a"
PairDomainOf   == r1 :> "d"  @@ r2 :> "d"

\* Three requests on one asset: the rolling limits bite before the cooldown.
AssetIncidentOf == r1 :> "i1" @@ r2 :> "i2" @@ r3 :> "i1"
AssetAssetOf    == r1 :> "a"  @@ r2 :> "a"  @@ r3 :> "a"
AssetDomainOf   == r1 :> "d"  @@ r2 :> "d"  @@ r3 :> "e"

\* Threads only differ by name; sound for the safety runs.
ThreadSymmetry == Permutations(Threads)
=============================================================================
