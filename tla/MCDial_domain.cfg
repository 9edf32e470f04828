\* The same instance, started with a domain as its argument.
SPECIFICATION Spec
CONSTANTS
    Worker <- TwoWorkers
    Char <- ThreeChars
    Names <- ShortNames
    Asked <- SomeNames
    DomainArg <- ArgumentD
    Confs <- SomeConfs
    Addr <- TwoAddresses
INVARIANT ArgumentIsOption
CHECK_DEADLOCK FALSE
