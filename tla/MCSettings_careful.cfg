SPECIFICATION Spec
CONSTANTS
    Names <- AllNames
    DirNames <- TwoDirs
    Addresses <- TwoAddresses
    MainContents <- GoodOrBrokenMain
    ConfContents <- GoodConf
    Mcsmans <- Both
    DefaultDistributed = TRUE
    Habits <- Careful
    MaxOps = 4
INVARIANTS
    TypeOK
    Settled
    Watched
PROPERTIES
    Converges
\* The process may end, and the files need not change.
CHECK_DEADLOCK FALSE
