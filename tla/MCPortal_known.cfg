SPECIFICATION Spec
CONSTANTS
    Intents <- Known
    Routes <- AllRoutes
    Malformed = FALSE
    Eager = FALSE
    MaxUnits = 5
    MaxSaid = 2
INVARIANTS
    Dialling
    OneOrigin
    AssertHolds
PROPERTIES
    WaitIsBounded
    RefusedClientIsAnswered
    LeavingClientIsErased
    ImplementsSession
\* A session ends when the portal is erased.
CHECK_DEADLOCK FALSE
