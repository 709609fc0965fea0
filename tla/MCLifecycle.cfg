SPECIFICATION Spec
CONSTANTS
    VMs = {vm1, vm2}
    Disks = {d1, d2, d3}
    Stemcells = {s1, s2, s3}
    Versions = {"v1", "v2"}
    DiskSpecs = {"small", "big"}
    LossySpecs = {"big"}
    Sha1s = {"m1", "m2", "m3", "m4"}
    ReleaseSets = {"r1", "r2"}
    None = None
    Inputs <- MCInputs
    MaxFaults = 2
SYMMETRY Symmetry
INVARIANTS
    TypeOK Accounted DataSafe JobsWriteCurrentDisk RecordTruthful DeleteComplete
    DeleteRetrySucceeds DeployFailsForAReason
PROPERTIES
    NeverForget DataOnlyLostByDelete NeverDeleteAttachedDisk NeverDeleteUsedStemcell
    ImplementsContract
