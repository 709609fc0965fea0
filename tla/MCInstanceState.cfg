SPECIFICATION Spec
CONSTANTS
    AddressBits = 1
    Nil = "nil"
    Instances <- MCInstances
INVARIANTS NothingRenderedLeft StartedAsConfigured UpMeansRunning
CHECK_DEADLOCK FALSE
