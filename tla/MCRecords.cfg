SPECIFICATION Spec
CONSTANTS
    Names <- OneOrTwo
    Addresses <- TwoAddresses
    Ports <- TwoPorts
    DefaultPort = "p0"
    Domains <- SomeDomains
    Refused <- TwoRefused
    Arguments <- SomeArguments
    MainContents <- SomeMain
    ConfContents <- SomeConf
    Forms <- TwoForms
    MaxOps = 3
INVARIANTS
    TypeOK
    FilesDecide
    DomainsAreSound
PROPERTIES
    OthersAreKept
\* The process may end, and the operations are bounded.
CHECK_DEADLOCK FALSE
