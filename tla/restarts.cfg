\* Lost requests and answers, a restart, a trailing informer, another finalizer.
SPECIFICATION UnstartedSpec

CONSTANTS
    MaxUid = 1
    Times = {1}
    OtherFinalizers = {f}
    MaxLag = 3
    MaxFaults = 1
    MaxCrashes = 1
    MaxFailures = 0
    MaxMeddling = 1
    MaxDeletions = 1

INVARIANTS
    TypeOK
    FinalizerGuard
    FinalizerInv
    ProvisionedMeansBuilt
    KubeconfigsTrusted
    NothingForgotten

PROPERTIES
    AnnouncedBeforeRemoved

\* Once the last incarnation is gone and collected, nothing more happens.
CHECK_DEADLOCK FALSE
