SPECIFICATION Spec
CONSTANTS
    Pkgs <- P
    Fingerprints = {"f1", "f2"}
    Cases <- MCCases
INVARIANTS TypeOK CompileOrder CyclesDetected ResolveCorrect MissingOnlyWhenDeep NoStalePackage
CHECK_DEADLOCK FALSE
