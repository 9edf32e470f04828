SPECIFICATION Spec
CONSTANTS
    Intents <- AnyIntent
    Routes <- AllRoutes
    Malformed = TRUE
    Eager = TRUE
    MaxUnits = 5
    MaxSaid = 2
INVARIANTS
    TypeOK
    Phases
    StreamConserved
PROPERTIES
    FakeIsFinal
\* A session ends when the portal is erased.
CHECK_DEADLOCK FALSE
