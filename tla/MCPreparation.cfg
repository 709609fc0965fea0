SPECIFICATION Spec
CONSTANTS
    AddressBits = 3
    MaxCommands = 2
    Inputs <- MCInputs
INVARIANTS
    TypeOK
    OnlyKnownLateFailures
    InterfacesWellFormed
    LeftoverDirs
    CompiledReleasesMatch
CHECK_DEADLOCK FALSE
