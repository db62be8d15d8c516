CONSTANTS
    small = small
    large = large
    broken = broken
    NoBytes = NoBytes
    Unlocked = Unlocked
    Released = Released
    Loaders = {watcher, updater}
    Lookups = {worker}
    MaxMtime = 2
    Mtimes <- MCMtimes
    Contents <- MCContents
    ValidContents <- MCValidContents
    NodeCount <- MCNodeCount
    IoErrors = TRUE
    MaxLoads = 2
SPECIFICATION MCSpec
INVARIANTS
    TypeOK
    FreshLabel
    MetricsDescribeSnapshot
PROPERTIES
    OkMeansCaughtUp
    NeverOlder
    ParsesOnce
    KeepsPromise
