SPECIFICATION Spec
CONSTANTS
    Names <- AllNames
    DirNames <- TwoDirs
    Addresses <- TwoAddresses
    MainContents <- AnyMain
    ConfContents <- AnyConf
    Mcsmans <- Both
    DefaultDistributed = TRUE
    Habits <- Any
    MaxOps = 2
PROPERTIES
    Isolation
\* The process may end, and the files need not change.
CHECK_DEADLOCK FALSE
