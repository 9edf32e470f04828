\* The main file may be removed and made again: Settled is violated.
SPECIFICATION Spec
CONSTANTS
    Names <- AllNames
    DirNames <- OneDir
    Addresses <- TwoAddresses
    MainContents <- NamingMain
    ConfContents <- OneConf
    Mcsmans <- Plain
    DefaultDistributed = TRUE
    Habits <- Removing
    MaxOps = 2
INVARIANTS
    Settled
\* The process may end, and the files need not change.
CHECK_DEADLOCK FALSE
