\* The same instance, and the port of the record.
SPECIFICATION Spec
CONSTANTS
    Worker <- TwoWorkers
    Char <- ThreeChars
    Names <- ShortNames
    Asked <- SomeNames
    DomainArg <- NoDomain
    Confs <- SomeConfs
    Addr <- TwoAddresses
INVARIANT PortApplies
CHECK_DEADLOCK FALSE
