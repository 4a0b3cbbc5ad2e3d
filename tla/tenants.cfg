\* Two tenants, two workers, a restart and a failed request.
SPECIFICATION Spec

CONSTANTS
    Names <- MCNames
    Workers = {v, w}
    EtcdFiles <- MCEtcdFiles
    MaxRotations = 2
    MaxRestarts = 1
    MaxFaults = 1
    Edited <- MCNobody
    MaxEdits = 0

INVARIANTS
    TypeOK
    OneWorkerPerTenant
    PodsCanStart
    OwnControlPlaneOnly

\* Once every tenant is provisioned, nothing more happens.
CHECK_DEADLOCK FALSE
