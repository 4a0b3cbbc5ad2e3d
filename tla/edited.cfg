\* One worker, and a tenant whose CA is edited.
SPECIFICATION FairSpec

CONSTANTS
    Names <- MCNames
    Workers = {w}
    EtcdFiles <- MCEtcdFiles
    MaxRotations = 1
    MaxRestarts = 1
    MaxFaults = 1
    Edited <- MCEdited
    MaxEdits = 1

INVARIANTS
    SignedByWhatItTrusts

PROPERTIES
    OthersProvisioned

\* Once every tenant is provisioned, nothing more happens.
CHECK_DEADLOCK FALSE
