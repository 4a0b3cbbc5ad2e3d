\* The leader changes while its last request is under way; the tenant may be deleted, a pod may fail.
SPECIFICATION HandOverSpec

CONSTANTS
    MaxUid = 1
    Times = {1}
    OtherFinalizers = {}
    MaxLag = 2
    MaxFaults = 0
    MaxCrashes = 1
    MaxFailures = 1
    MaxMeddling = 0
    MaxDeletions = 1
    ByHand = {}
    MaxManual = 0

INVARIANTS
    DisturbancesTypeOK
    FinalizerGuard
    ProvisionedMeansBuilt
    TrustedWhileAlive
    ReadyMeansProvisioned
    NothingForgotten

\* Once the last incarnation is gone and collected, nothing more happens.
CHECK_DEADLOCK FALSE
