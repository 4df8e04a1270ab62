SPECIFICATION FairSpec
CONSTANTS
    Providers = {p}
    Prefs = {u}
    None = None
    MaxOps = 3
    MaxBoots = 2
    MaxWriteFails = 1
    MaxSyncFails = 1
    MaxDrifts = 1
    MaxFaults = 1
INVARIANTS
    InjectionIsCurrent
    SettledMatchesConfig
    ChainsSettle
    JournalIsSound
PROPERTIES
    RequestsEnd
CHECK_DEADLOCK FALSE
