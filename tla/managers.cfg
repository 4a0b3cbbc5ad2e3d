\* Two managers under every kind of command line.
SPECIFICATION FairSpec

CONSTANTS
    Managers = {m1, m2}
    OptionSets <- MCOptionSets
    Secrets <- MCSecrets
    MaxAnswer = 1
    MaxFaults = 2
    MaxStops = 2
    MaxOvertimes = 1

INVARIANTS
    TypeOK
    OneLeader
    HandedOver

PROPERTIES
    SomebodyWorks

\* A command line that is refused ends the process for good.
CHECK_DEADLOCK FALSE
