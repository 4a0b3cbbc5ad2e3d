\* A tenant that is deleted; condition times differ.
SPECIFICATION OneStartedSpec

CONSTANTS
    MaxUid = 1
    Times = {1, 2}
    OtherFinalizers = {}
    MaxLag = 2
    MaxFaults = 0
    MaxCrashes = 0
    MaxFailures = 0
    MaxMeddling = 0
    MaxDeletions = 1

PROPERTIES
    DeletionCompletes
    NothingLeftBehind
    LifecycleMovesOn

\* Once the last incarnation is gone and collected, nothing more happens.
CHECK_DEADLOCK FALSE
