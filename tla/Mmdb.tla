-------------------------------- MODULE Mmdb --------------------------------
(***************************************************************************)
(* The hot-swappable database holder, src/mmdb.rs.                         *)
(*                                                                         *)
(* Threads of Loaders call `load` and `reload_if_changed`; the calls take  *)
(* `load_lock` and then stat, read, parse and store, while the database    *)
(* file is replaced, touched or removed by somebody else at any point in   *)
(* between, and while threads of Lookups read the current snapshot.        *)
(*                                                                         *)
(* A version of the file is named by its modification time.  `written`     *)
(* remembers, per modification time, what the file held then and which     *)
(* change of the file it was; modification times are never reused but need *)
(* not grow (a backup moved into place brings an older one).               *)
(***************************************************************************)
EXTENDS Naturals

CONSTANTS
    Loaders,        \* threads that call load / reload_if_changed
    Lookups,        \* threads that call lookup
    Mtimes,         \* modification times the file may be given
    Contents,       \* what the file may hold
    ValidContents,  \* the contents FireholReader::from_bytes accepts
    NodeCount,      \* the node_count a content announces
    NoBytes,        \* the content of no file at all
    Unlocked,       \* the value of load_lock when no thread holds it
    Released,       \* the value of a lookup's guard when no lookup is under way
    IoErrors        \* may a stat or a read of an existing file fail?

ASSUME LoaderAssumption == Unlocked \notin Loaders
ASSUME MtimeAssumption == Mtimes \subseteq Nat \ {0} /\ Released \notin Nat
ASSUME ContentAssumption ==
    /\ ValidContents \subseteq Contents
    /\ NoBytes \notin Contents
    /\ NodeCount \in [Contents -> Nat]
ASSUME ErrorAssumption == IoErrors \in BOOLEAN

VARIABLES
    file,              \* modification time of the file now, NoFile if there is none
    written,           \* per modification time: what was written, and which change it was
    changes,           \* number of changes the file has had
    snapshot,          \* Mmdb.snapshot
    load_lock,         \* Mmdb.load_lock
    MMDB_NODE_COUNT,   \* gauge
    MMDB_FILE_LOADED,  \* counter
    pc,                \* per loader: where its call stands
    call,              \* per loader: the call's function and local variables
    guard,             \* per lookup thread: the version its snapshot.load() pinned
    answered           \* per lookup thread: the version its last lookup used

fileVars == <<file, written, changes>>
swapVars == <<snapshot, MMDB_NODE_COUNT, MMDB_FILE_LOADED>>
callVars == <<pc, call>>
readVars == <<guard, answered>>
mmdbVars == <<fileVars, swapVars, load_lock, callVars, readVars>>

NoFile == 0
Versions == Mtimes \cup {NoFile}
Unwritten == [content |-> NoBytes, at |-> 0]

\* What version v of the file held, and which change of the file it was.
Content(v) == IF v = NoFile THEN NoBytes ELSE written[v].content
Age(v) == IF v = NoFile THEN 0 ELSE written[v].at

\* `modified` is the label the snapshot is compared by (NoFile is None);
\* `source` is the version whose bytes the reader really borrows.
NoSnapshot == [modified |-> NoFile, source |-> NoFile]

Functions == {"load", "reload_if_changed"}

\* The locals of a call: `modified` is what its stat returned, `bytes` the
\* version its read returned; `asked` is the version on disk when it was made.
NoCall == [function |-> "none", asked |-> NoFile, modified |-> NoFile, bytes |-> NoFile]
CallRecords ==
    [function : Functions \cup {"none"}, asked : Versions, modified : Versions, bytes : Versions]

Idle == "idle"
ControlPoints == {Idle, "lock", "stat", "read", "store", "count"}
Locked == {"stat", "read", "store", "count"}

MmdbInit ==
    /\ file = NoFile
    /\ written = [m \in Mtimes |-> Unwritten]
    /\ changes = 0
    /\ snapshot = NoSnapshot
    /\ load_lock = Unlocked
    /\ MMDB_NODE_COUNT = 0
    /\ MMDB_FILE_LOADED = 0
    /\ pc = [l \in Loaders |-> Idle]
    /\ call = [l \in Loaders |-> NoCall]
    /\ guard = [r \in Lookups |-> Released]
    /\ answered = [r \in Lookups |-> NoFile]

-----------------------------------------------------------------------------
(* The file, changed from outside: by the updater's rename or an operator. *)

WriteFile(m, content) ==
    /\ m \in Mtimes /\ written[m] = Unwritten
    /\ file' = m
    /\ changes' = changes + 1
    /\ written' = [written EXCEPT ![m] = [content |-> content, at |-> changes + 1]]

ReplaceFile(m, content) ==
    /\ WriteFile(m, content)
    /\ UNCHANGED <<swapVars, load_lock, callVars, readVars>>

\* `touch`: a new modification time over the same bytes.
TouchFile(m) == file # NoFile /\ ReplaceFile(m, Content(file))

RemoveFile ==
    /\ file # NoFile
    /\ file' = NoFile
    /\ UNCHANGED <<written, changes, swapVars, load_lock, callVars, readVars>>

-----------------------------------------------------------------------------
(* One call of load or reload_if_changed, step by step.                    *)

Call(l, function) ==
    /\ pc[l] = Idle
    /\ pc' = [pc EXCEPT ![l] = "lock"]
    /\ call' = [call EXCEPT ![l] = [NoCall EXCEPT !.function = function, !.asked = file]]
    /\ UNCHANGED <<fileVars, swapVars, load_lock, readVars>>

\* The guard is dropped on every return path.
Return(l) ==
    /\ pc' = [pc EXCEPT ![l] = Idle]
    /\ load_lock' = Unlocked
    /\ call' = [call EXCEPT ![l] = NoCall]

Lock_NoWait(l) ==
    /\ pc[l] = "lock"
    /\ load_lock' = l
    /\ pc' = [pc EXCEPT ![l] = "stat"]
    /\ UNCHANGED <<fileVars, swapVars, call, readVars>>

Lock(l) ==
    /\ pc[l] = "lock"
    /\ load_lock = Unlocked
    /\ load_lock' = l
    /\ pc' = [pc EXCEPT ![l] = "stat"]
    /\ UNCHANGED <<fileVars, swapVars, call, readVars>>

\* Is the snapshot labelled with modification time m?
LoadedFrom_OrLater(m) == snapshot.modified >= m
LoadedFrom(m) == snapshot.modified = m

StatUnchanged(l) ==
    /\ pc[l] = "stat" /\ call[l].function = "reload_if_changed"
    /\ file # NoFile
    /\ LoadedFrom(file)
    /\ Return(l)
    /\ UNCHANGED <<fileVars, swapVars, readVars>>

Stat(l) ==
    /\ pc[l] = "stat"
    /\ file # NoFile
    /\ call[l].function = "reload_if_changed" => ~LoadedFrom(file)
    /\ call' = [call EXCEPT ![l].modified = file]
    /\ pc' = [pc EXCEPT ![l] = "read"]
    /\ UNCHANGED <<fileVars, swapVars, load_lock, readVars>>

StatMayFail == file = NoFile \/ IoErrors

\* load goes on without a label, reload_if_changed gives up.
StatFailsInLoad(l) ==
    /\ pc[l] = "stat" /\ call[l].function = "load"
    /\ StatMayFail
    /\ pc' = [pc EXCEPT ![l] = "read"]
    /\ UNCHANGED <<fileVars, swapVars, load_lock, call, readVars>>

StatFailsInReload(l) ==
    /\ pc[l] = "stat" /\ call[l].function = "reload_if_changed"
    /\ StatMayFail
    /\ Return(l)
    /\ UNCHANGED <<fileVars, swapVars, readVars>>

Parses_AnyBytes(content) == content # NoBytes
Parses(content) == content \in ValidContents

\* fs::read, the parse and the gauge: load_locked up to the store.
ReadAndParse(l) ==
    /\ pc[l] = "read"
    /\ Parses(Content(file))
    /\ call' = [call EXCEPT ![l].bytes = file]
    /\ MMDB_NODE_COUNT' = NodeCount[Content(file)]
    /\ pc' = [pc EXCEPT ![l] = "store"]
    /\ UNCHANGED <<fileVars, snapshot, MMDB_FILE_LOADED, load_lock, readVars>>

ReadOrParseFails_GaugeFirst(l) ==
    /\ pc[l] = "read"
    /\ IoErrors \/ ~Parses(Content(file))
    /\ Return(l)
    /\ MMDB_NODE_COUNT' = IF file = NoFile THEN 0 ELSE NodeCount[Content(file)]
    /\ UNCHANGED <<fileVars, snapshot, MMDB_FILE_LOADED, readVars>>

ReadOrParseFails(l) ==
    /\ pc[l] = "read"
    /\ IoErrors \/ ~Parses(Content(file))
    /\ Return(l)
    /\ UNCHANGED <<fileVars, swapVars, readVars>>

Labelled_AtStore(c) == [modified |-> file, source |-> c.bytes]
Labelled(c) == [modified |-> c.modified, source |-> c.bytes]

Store(l) ==
    /\ pc[l] = "store"
    /\ snapshot' = Labelled(call[l])
    /\ pc' = [pc EXCEPT ![l] = "count"]
    /\ UNCHANGED <<fileVars, MMDB_NODE_COUNT, MMDB_FILE_LOADED, load_lock, call, readVars>>

Count(l) ==
    /\ pc[l] = "count"
    /\ MMDB_FILE_LOADED' = MMDB_FILE_LOADED + 1
    /\ Return(l)
    /\ UNCHANGED <<fileVars, snapshot, MMDB_NODE_COUNT, readVars>>

LoaderStep(l) ==
    \/ Lock(l)
    \/ StatUnchanged(l) \/ Stat(l) \/ StatFailsInLoad(l) \/ StatFailsInReload(l)
    \/ ReadAndParse(l) \/ ReadOrParseFails(l)
    \/ Store(l) \/ Count(l)

-----------------------------------------------------------------------------
(* lookup: the guard pins the snapshot, whatever is stored meanwhile.      *)

LookupStarts(r) ==
    /\ guard[r] = Released
    /\ guard' = [guard EXCEPT ![r] = snapshot.source]
    /\ UNCHANGED <<fileVars, swapVars, load_lock, callVars, answered>>

LookupEnds_Released(r) ==
    /\ answered' = [answered EXCEPT ![r] = guard[r]]
    /\ guard' = [guard EXCEPT ![r] = Released]
    /\ UNCHANGED <<fileVars, swapVars, load_lock, callVars>>

LookupEnds(r) ==
    /\ guard[r] # Released
    /\ answered' = [answered EXCEPT ![r] = guard[r]]
    /\ guard' = [guard EXCEPT ![r] = Released]
    /\ UNCHANGED <<fileVars, swapVars, load_lock, callVars>>

LookupStep(r) == LookupStarts(r) \/ LookupEnds(r)

-----------------------------------------------------------------------------
FileChanges ==
    \/ \E m \in Mtimes, content \in Contents : ReplaceFile(m, content)
    \/ \E m \in Mtimes : TouchFile(m)
    \/ RemoveFile

Calls == \E l \in Loaders, function \in Functions : Call(l, function)

MmdbNext ==
    \/ FileChanges
    \/ Calls
    \/ \E l \in Loaders : LoaderStep(l)
    \/ \E r \in Lookups : LookupStep(r)

MmdbSpec == MmdbInit /\ [][MmdbNext]_mmdbVars

-----------------------------------------------------------------------------
(* Properties.                                                             *)

TypeOK ==
    /\ file \in Versions
    /\ written \in [Mtimes -> [content : Contents \cup {NoBytes}, at : Nat]]
    /\ changes \in Nat
    /\ snapshot \in [modified : Versions, source : Versions]
    /\ load_lock \in Loaders \cup {Unlocked}
    /\ MMDB_NODE_COUNT \in Nat
    /\ MMDB_FILE_LOADED \in Nat
    /\ pc \in [Loaders -> ControlPoints]
    /\ call \in [Loaders -> CallRecords]
    /\ guard \in [Lookups -> Versions \cup {Released}]
    /\ answered \in [Lookups -> Versions]

(* When the label of the snapshot is the modification time of the file on  *)
(* disk, so that reload_if_changed skips it, the bytes being served are    *)
(* those of that file: a skipped reload never hides a change.              *)
FreshLabel ==
    file # NoFile /\ snapshot.modified = file => snapshot.source = file

(* A load or reload that returned Ok leaves a snapshot at least as recent  *)
(* as the file was when the call was made, even if another thread's load   *)
(* was in flight at the time (run_update relies on it after a rebuild).    *)
OkMeansCaughtUp ==
    [][ \A l \in Loaders :
          StatUnchanged(l) \/ Count(l) => Age(snapshot.source) >= Age(call[l].asked) ]_mmdbVars

(* load_lock: loads that overlap never replace a snapshot by the bytes of  *)
(* an earlier version of the file.                                         *)
NeverOlder == [][Age(snapshot'.source) >= Age(snapshot.source)]_mmdbVars

(* "never parse the same file twice": reload_if_changed replaces a         *)
(* snapshot by one of the same version only if the label of the first did  *)
(* not name the version its bytes came from (stat precedes read), or       *)
(* a load had forced or unlabelled it.                                     *)
ParsesOnce ==
    [][ \A l \in Loaders :
          Store(l) /\ call[l].function = "reload_if_changed" /\ call[l].bytes = snapshot.source
            => snapshot.modified # snapshot.source ]_mmdbVars

(* Outside a load the two metrics describe the snapshot that lookups use:  *)
(* the gauge is its node count, and the counter moved iff there is one.    *)
MetricsDescribeSnapshot ==
    load_lock = Unlocked =>
        /\ MMDB_FILE_LOADED = 0 <=> snapshot = NoSnapshot
        /\ snapshot # NoSnapshot => MMDB_NODE_COUNT = NodeCount[Content(snapshot.source)]

\* The database of version v, as the abstract specification sees it.
Database(v) == [content |-> Content(v), age |-> Age(v)]

\* The version a lookup thread was answered from last, or is about to be.
Used(r) == IF guard[r] = Released THEN answered[r] ELSE guard[r]

Promise == INSTANCE HotSwap WITH
    served <- Database(snapshot.source),
    reply <- [r \in Lookups |-> Database(Used(r))]

(* The holder keeps the promise of HotSwap: one step per swap, only valid  *)
(* and later databases, lookups answered by one database served meanwhile. *)
KeepsPromise == Promise!Spec
=============================================================================
