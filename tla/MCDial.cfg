\* Two workers that share the cache, while the operator changes records and domain.
SPECIFICATION Spec
CONSTANTS
    Worker <- TwoWorkers
    Char <- ThreeChars
    Names <- ShortNames
    Asked <- SomeNames
    DomainArg <- NoDomain
    Confs <- SomeConfs
    Addr <- TwoAddresses
INVARIANTS TypeOK Routed OwnHost McsIsFresh NoEmptyEntry AskedOnce
CHECK_DEADLOCK FALSE
