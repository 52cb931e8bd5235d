--------------------------- MODULE MCScanLifecycle ---------------------------
(***************************************************************************)
(* Small instances of ScanLifecycle for TLC.                               *)
(***************************************************************************)
EXTENDS ScanLifecycleInv, TLC

CONSTANTS r1, r2, r3, p1, p2, p3, aws, gcp, v1, v2

\* Each run is a process of its own, as with `disco scan'.
ProcessPerRun == [r \in Runs |-> CASE r = r1 -> p1 [] r = r2 -> p2 [] r = r3 -> p3]

\* Both runs belong to one process, as with the in-process driver.
OneProcess == [r \in Runs |-> p1]

\* The runs of one process differ in nothing but their names.
AlikeRuns == Permutations(Runs)

\* Both services belong to one provider.
OneProvider == [v \in Services |-> aws]

\* A service of each provider.
ServicePerProvider == v1 :> aws @@ v2 :> gcp

\* Every run scans everything.
WantsAll == [r \in Runs |-> Providers]

\* The first run scans one provider, the others both.
WantsMore == [r \in Runs |-> IF r = r1 THEN {aws} ELSE Providers]
=============================================================================
