SPECIFICATION Spec
CONSTANTS
    AddressBits = 3
    MaxCommands = 2
    Inputs <- CompiledCpi
INVARIANTS
    CpiNeverCompiled
CHECK_DEADLOCK FALSE
