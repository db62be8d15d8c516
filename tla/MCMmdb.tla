------------------------------- MODULE MCMmdb -------------------------------
(* Instances of Mmdb for TLC: the loaders of the program (the file watcher *)
(* and the updater), two valid databases and a broken file.                *)
EXTENDS Mmdb

CONSTANTS
    small, large, broken,   \* contents of the file
    MaxMtime,               \* bound: the file changes at most this often
    MaxLoads                \* bound: no call starts once this many loads were counted

MCMtimes == 1 .. MaxMtime
MCContents == {small, large, broken}
MCValidContents == {small, large}
MCNodeCount == [c \in MCContents |-> IF c = small THEN 1 ELSE IF c = large THEN 2 ELSE 3]

MCNext ==
    \/ FileChanges
    \/ MMDB_FILE_LOADED < MaxLoads /\ Calls
    \/ \E l \in Loaders : LoaderStep(l)
    \/ \E r \in Lookups : LookupStep(r)

MCSpec == MmdbInit /\ [][MCNext]_mmdbVars
=============================================================================
