\* With mcsman, files that the hub ignores may be removed: Settled is violated.
SPECIFICATION Spec
CONSTANTS
    Names <- AllNames
    DirNames <- OneDir
    Addresses <- TwoAddresses
    MainContents <- OneMain
    ConfContents <- OneConf
    Mcsmans <- Mcsman
    DefaultDistributed = FALSE
    Habits <- Ignored
    MaxOps = 2
INVARIANTS
    Settled
\* The process may end, and the files need not change.
CHECK_DEADLOCK FALSE
