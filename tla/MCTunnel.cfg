SPECIFICATION Spec
CONSTANTS
    Capacity = 2
    MaxEarly = 2
    MaxSent <- FewFromClient
INVARIANTS
    TypeOK
    Conserved
    NobodyWaits
PROPERTIES
    ImplementsPipes
\* An erased portal does nothing any more.
CHECK_DEADLOCK FALSE
