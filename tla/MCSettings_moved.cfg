\* Directories may be moved with a file in them: Settled is violated.
SPECIFICATION Spec
CONSTANTS
    Names <- AllNames
    DirNames <- OneDir
    Addresses <- TwoAddresses
    MainContents <- OneMain
    ConfContents <- OneConf
    Mcsmans <- Plain
    DefaultDistributed = TRUE
    Habits <- Moves
    MaxOps = 2
INVARIANTS
    Settled
\* The process may end, and the files need not change.
CHECK_DEADLOCK FALSE
