\* The server in a kubeconfig.
SPECIFICATION Spec

CONSTANTS
    Names <- MCNames
    Workers = {w}
    EtcdFiles <- MCEtcdFiles
    MaxRotations = 1
    MaxRestarts = 0
    MaxFaults = 0
    Edited <- MCNobody
    MaxEdits = 0

INVARIANTS
    EndpointLeadsHome

\* Once every tenant is provisioned, nothing more happens.
CHECK_DEADLOCK FALSE
