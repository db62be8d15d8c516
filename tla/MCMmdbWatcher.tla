---------------------------- MODULE MCMmdbWatcher ----------------------------
(* Instances of MmdbWatcher for TLC.                                       *)
EXTENDS MmdbWatcher

CONSTANTS
    small, broken,          \* contents of the file
    MaxMtime                \* bound: the file changes at most this often

MCMtimes == 1 .. MaxMtime
MCContents == {small, broken}
MCValidContents == {small}
MCNodeCount == [c \in MCContents |-> 1]
=============================================================================
