SPECIFICATION Spec
CONSTANTS
    Words <- SomeWords
    Parts <- SomeParts
    Inputs <- SomeInputs
    ServerName <- Server
    RecordVars <- SomeVars
    Environment <- SomeEnvironment
    TextFiles <- SomeFiles
INVARIANTS
    TypeOK
    Resolved
\* resolve returns.
CHECK_DEADLOCK FALSE
