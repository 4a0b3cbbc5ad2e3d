\* Ready before any pod runs.
SPECIFICATION Spec

CONSTANTS
    MaxUid = 1
    Times = {1}
    OtherFinalizers = {}
    MaxLag = 2
    MaxFaults = 0
    MaxCrashes = 0
    MaxFailures = 0
    MaxMeddling = 0
    MaxDeletions = 0

INVARIANTS
    ReadyMeansRunning

\* Once the last incarnation is gone and collected, nothing more happens.
CHECK_DEADLOCK FALSE
