CONSTANTS
    Addresses = {a, b}
    Sessions = {s1, s2}
    NoAddress = NoAddress
    Expire = 2
    MaxDatabases = 3
SPECIFICATION FairSpec
INVARIANTS
    CacheTypeOK
    VerdictFromAgent
PROPERTIES
    VerdictIsKept
    StaleNeedsActivity
    FlaggedIsDropped
