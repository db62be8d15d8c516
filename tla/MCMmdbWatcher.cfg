CONSTANTS
    small = small
    broken = broken
    NoBytes = NoBytes
    Unlocked = Unlocked
    Released = Released
    Main = main
    Watcher = watcher
    Updaters = {updater, slow}
    Loaders = {main, watcher, updater, slow}
    Lookups = {}
    MaxMtime = 2
    Mtimes <- MCMtimes
    Contents <- MCContents
    ValidContents <- MCValidContents
    NodeCount <- MCNodeCount
    ChannelSize = 1
    IoErrors = TRUE
SPECIFICATION FairSpec
INVARIANTS
    WatcherTypeOK
    ChangeNotLost
PROPERTIES
    HolderUsedAsSpecified
    ChangeIsServed
CHECK_DEADLOCK FALSE
