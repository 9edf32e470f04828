\* A server's file may be broken for a while: Settled is violated.
SPECIFICATION Spec
CONSTANTS
    Names <- AllNames
    DirNames <- TwoDirs
    Addresses <- TwoAddresses
    MainContents <- OneMain
    ConfContents <- BrokenConf
    Mcsmans <- Plain
    DefaultDistributed = TRUE
    Habits <- Careful
    MaxOps = 3
INVARIANTS
    Settled
\* The process may end, and the files need not change.
CHECK_DEADLOCK FALSE
