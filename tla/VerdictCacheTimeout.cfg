CONSTANTS
    Addresses = {a}
    Sessions = {s1, s2}
    NoAddress = NoAddress
    Expire = 2
    MaxDatabases = 2
SPECIFICATION Spec
PROPERTIES
    TimeoutCachesNothing
