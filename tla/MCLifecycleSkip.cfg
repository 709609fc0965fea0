SPECIFICATION Spec
CONSTANTS
    VMs = {vm1, vm2}
    Disks = {d1, d2}
    Stemcells = {s1, s2}
    Versions = {"v1", "v2"}
    DiskSpecs = {"small", "big"}
    LossySpecs = {"big"}
    Sha1s = {"m1", "m2", "m3", "m4"}
    ReleaseSets = {"r1", "r2"}
    None = None
    Inputs <- MCInputs
    MaxFaults = 1
INVARIANTS SkipMeansDeployed
