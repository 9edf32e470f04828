\* A server's file may give no address: Settled is violated.
SPECIFICATION Spec
CONSTANTS
    Names <- AllNames
    DirNames <- OneDir
    Addresses <- TwoAddresses
    MainContents <- OneMain
    ConfContents <- UnsetConf
    Mcsmans <- Plain
    DefaultDistributed = TRUE
    Habits <- Careful
    MaxOps = 2
INVARIANTS
    Settled
\* The process may end, and the files need not change.
CHECK_DEADLOCK FALSE
