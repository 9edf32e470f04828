\* The main file lists a server that has a file of its own: Settled is violated.
SPECIFICATION Spec
CONSTANTS
    Names <- AllNames
    DirNames <- OneDir
    Addresses <- TwoAddresses
    MainContents <- ListingMain
    ConfContents <- OneConf
    Mcsmans <- Plain
    DefaultDistributed = TRUE
    Habits <- Careful
    MaxOps = 2
INVARIANTS
    Settled
\* The process may end, and the files need not change.
CHECK_DEADLOCK FALSE
