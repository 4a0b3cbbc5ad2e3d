\* Two incarnations of the tenant: what they do to each other, seen from above.
SPECIFICATION TidySpec

CONSTANTS
    MaxUid = 2
    Times = {1}
    OtherFinalizers = {}
    MaxLag = 2
    MaxFaults = 0
    MaxCrashes = 0
    MaxFailures = 0
    MaxMeddling = 0
    MaxDeletions = 1

INVARIANTS
    HostOK
    NothingBeforeAdoption

PROPERTIES
    LifecycleKept

\* Once the last incarnation is gone and collected, nothing more happens.
CHECK_DEADLOCK FALSE
