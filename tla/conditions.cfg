\* The list of conditions against the map; one reason for a type and a status.
SPECIFICATION Spec

CONSTANTS
    Alphabet <- MCAlphabet
    Reasons = {"Set"}
    Clock = {1, 2}

INVARIANTS
    TypeOK
    Sorted

PROPERTIES
    BehavesAsMap
