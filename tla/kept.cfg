\* A tenant that nobody deletes; its namespace may be deleted.
SPECIFICATION CalmSpec

CONSTANTS
    MaxUid = 1
    Times = {1}
    OtherFinalizers = {}
    MaxLag = 2
    MaxFaults = 1
    MaxCrashes = 1
    MaxFailures = 0
    MaxMeddling = 0
    MaxDeletions = 0
    ByHand = {"namespace"}
    MaxManual = 1

PROPERTIES
    ReadyIfLeftAlone
    NamespaceRestored

\* Once the last incarnation is gone and collected, nothing more happens.
CHECK_DEADLOCK FALSE
