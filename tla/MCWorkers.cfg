\* Two workers that share a port of the kernel's choice, and two clients of one of them.
SPECIFICATION Spec
CONSTANTS
    Worker <- TwoWorkers
    Client <- TwoClients
    Homes <- OnOne
    Ports <- TwoPorts
    ConfPort = 0
INVARIANTS TypeOK OnePort NoWakeupIsLost NoStaleEvent AtMostOneUntold
PROPERTIES Terminates GoneAreErased
CHECK_DEADLOCK FALSE
