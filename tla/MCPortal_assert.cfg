SPECIFICATION Spec
CONSTANTS
    Intents <- Unknown
    Routes <- AllRoutes
    Malformed = FALSE
    Eager = FALSE
    MaxUnits = 2
    MaxSaid = 1
INVARIANTS
    AssertHolds
\* A session ends when the portal is erased.
CHECK_DEADLOCK FALSE
