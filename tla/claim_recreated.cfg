\* Deleted and created again under the same name: not built again.
SPECIFICATION Spec

CONSTANTS
    MaxUid = 2
    Times = {1}
    OtherFinalizers = {}
    MaxLag = 2
    MaxFaults = 0
    MaxCrashes = 0
    MaxFailures = 0
    MaxMeddling = 0
    MaxDeletions = 1

INVARIANTS
    ProvisioningBuilds

\* Once the last incarnation is gone and collected, nothing more happens.
CHECK_DEADLOCK FALSE
