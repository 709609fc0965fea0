SPECIFICATION Spec
CONSTANTS
    Tarballs = {"v1", "v2"}
    Junk = "junk"
    None = None
    DownloadAttempts = 2
    Settings = {"s1", "s2"}
    NoSettings = "no settings"
    MaxRequests = 4
    Order <- MCOrder
    DependsOn <- MCDependsOn
    Fingerprint <- MCFingerprint
INVARIANTS TypeOK FetchedAsAsked SettingsServed InstalledFiles IndexedBlobsExist CommandOutcome
