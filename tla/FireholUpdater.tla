--------------------------- MODULE FireholUpdater ---------------------------
(***************************************************************************)
(* The updater, src/firehol/: git synchronisation, the decision whether to *)
(* rebuild, and the replacement of the database file, as main.rs runs it   *)
(* (once at start-up, then on every cron tick, ticks overlapping a slow    *)
(* run), with the process killed or the power lost at any step.            *)
(*                                                                         *)
(* Time is in whole seconds, as `commit_epoch` and `mmdb_epoch` are.  A    *)
(* commit is known by the order in which it was pushed; its time is when   *)
(* it was made, which may be earlier than the push.                        *)
(***************************************************************************)
EXTENDS Naturals, Sequences

CONSTANTS
    Runs,           \* blocking threads that execute update_and_build_mmdb
    Free,           \* the value of update_lock when no run holds it
    Touches,        \* does an operator touch or remove the database?
    MaxTime,        \* bound: the clock stops here
    MaxCommits,     \* bound: number of pushes
    MaxFaults       \* bound: failing operations, kills and power losses

ASSUME RunAssumption == Free \notin Runs
ASSUME UpdaterBoundAssumption ==
    /\ Touches \in BOOLEAN
    /\ MaxTime \in Nat \ {0} /\ MaxCommits \in Nat /\ MaxFaults \in Nat

VARIABLES
    now,            \* the clock
    commits,        \* the tips pushed to the remote branch so far
    clone,          \* state of the local clone's directory
    remote,         \* refs/remotes/origin/<branch>
    worktree,       \* commit the working tree was last reset to
    mmdb,           \* the database file
    tmp,            \* the temporary file beside it
    onDisk,         \* the database file that a power loss may bring back
    process,        \* is the process down, in its first update, or serving?
    update_lock,    \* FireholUpdater.update_lock
    pc,             \* per run: where update_and_build_mmdb stands
    tip,            \* per run: the commit it works on
    parsed,         \* per run: the commit whose files it parsed
    leftover,       \* the temporary file was left by a kill or a failed removal
    faults          \* number of faults so far

upstreamVars == <<now, commits>>
cloneVars == <<clone, remote, worktree>>
fileVars == <<mmdb, tmp, onDisk, leftover>>
runVars == <<update_lock, pc, tip, parsed>>
vars == <<upstreamVars, cloneVars, fileVars, runVars, process, faults>>

NoCommit == 0
Upstream == Len(commits)

\* A database file: the commit its networks come from, the commit its
\* build_epoch names, whether it is complete, fsynced, and when it was written.
Absent == [commit |-> NoCommit, epoch |-> NoCommit, whole |-> TRUE, synced |-> TRUE, mtime |-> 0]

\* git leaves a directory "broken" when killed before the repository can be
\* opened, and "locked" (a stale index.lock) when killed in a reset.
CloneStates == {"missing", "cloning", "broken", "ready", "resetting", "locked"}

ControlPoints ==
    {"idle", "try_lock", "open", "cloning", "compare", "checkout", "reset", "parse",
     "create", "write", "sync", "rename"}

Init ==
    /\ now = 1 /\ commits = <<>>
    /\ clone = "missing" /\ remote = NoCommit /\ worktree = NoCommit
    /\ mmdb = Absent /\ tmp = Absent /\ onDisk = Absent /\ leftover = FALSE
    /\ process = "starting"
    /\ update_lock = Free
    /\ pc = [r \in Runs |-> "idle"]
    /\ tip = [r \in Runs |-> NoCommit]
    /\ parsed = [r \in Runs |-> NoCommit]
    /\ faults = 0

-----------------------------------------------------------------------------
(* The world outside.                                                      *)

Tick ==
    /\ now < MaxTime
    /\ now' = now + 1
    /\ UNCHANGED <<commits, cloneVars, fileVars, runVars, process, faults>>

\* A publication rewrites the branch: its tip is a new commit, made now or
\* earlier, with or without networks in its list files.
Push ==
    /\ Len(commits) < MaxCommits
    /\ \E time \in 1 .. now, networks \in BOOLEAN :
          commits' = Append(commits, [time |-> time, networks |-> networks])
    /\ UNCHANGED <<now, cloneVars, fileVars, runVars, process, faults>>

Touch ==
    /\ Touches /\ mmdb # Absent
    /\ mmdb' = [mmdb EXCEPT !.mtime = now]
    /\ UNCHANGED <<upstreamVars, cloneVars, tmp, onDisk, leftover, runVars, process, faults>>

RemoveMmdb ==
    /\ Touches /\ mmdb # Absent
    /\ mmdb' = Absent
    /\ UNCHANGED <<upstreamVars, cloneVars, tmp, onDisk, leftover, runVars, process, faults>>

\* The kernel writes the directory back: the last rename is durable.
WriteBack ==
    /\ onDisk # mmdb
    /\ onDisk' = mmdb
    /\ UNCHANGED <<upstreamVars, cloneVars, mmdb, tmp, leftover, runVars, process, faults>>

-----------------------------------------------------------------------------
(* The process: main.rs.                                                   *)

Restart ==
    /\ process = "down"
    /\ process' = "starting"
    /\ UNCHANGED <<upstreamVars, cloneVars, fileVars, runVars, faults>>

\* The first update, awaited before anything is served, or a cron tick.
Start(r) ==
    /\ \/ process = "starting" /\ \A s \in Runs : pc[s] = "idle"
       \/ process = "serving"
    /\ pc[r] = "idle"
    /\ pc' = [pc EXCEPT ![r] = "try_lock"]
    /\ UNCHANGED <<upstreamVars, cloneVars, fileVars, update_lock, tip, parsed, process, faults>>

Fault == faults < MaxFaults /\ faults' = faults + 1

EndRuns ==
    /\ update_lock' = Free
    /\ pc' = [r \in Runs |-> "idle"]
    /\ tip' = [r \in Runs |-> NoCommit]
    /\ parsed' = [r \in Runs |-> NoCommit]

\* The end of the process at any step: a signal and SHUTDOWN_TIMEOUT, or an
\* abort.  Destructors do not run.
Dies ==
    /\ process # "down" /\ Fault
    /\ process' = "down"
    /\ EndRuns
    /\ clone' \in CASE clone = "cloning" -> {"broken", "ready"}
                    [] clone = "resetting" -> {"ready", "locked"}
                    [] OTHER -> {clone}
    /\ UNCHANGED <<upstreamVars, remote, worktree>>

Kill ==
    /\ Dies
    /\ leftover' = (leftover \/ tmp # Absent)
    /\ UNCHANGED <<mmdb, tmp, onDisk>>

\* What was not fsynced is lost; the last rename may be undone with it.
Survives(file) == IF file.synced THEN file ELSE [file EXCEPT !.whole = FALSE]

PowerLoss ==
    /\ Dies
    /\ \/ mmdb' = Survives(mmdb) /\ tmp' = Survives(tmp)
       \/ mmdb' = Survives(onDisk) /\ tmp' \in {Survives(tmp), Survives(mmdb)}
    /\ onDisk' = mmdb'
    /\ leftover' = (leftover \/ tmp' # Absent)

-----------------------------------------------------------------------------
(* update_and_build_mmdb, step by step.                                    *)

\* The run is over.  The first update decides what becomes of the process.
Finish(r, ok) ==
    /\ update_lock' = Free
    /\ pc' = [pc EXCEPT ![r] = "idle"]
    /\ tip' = [tip EXCEPT ![r] = NoCommit]
    /\ parsed' = [parsed EXCEPT ![r] = NoCommit]
    /\ process' = IF process # "starting" THEN process ELSE IF ok THEN "serving" ELSE "down"

Succeed(r) == Finish(r, TRUE) /\ UNCHANGED faults
Fail(r, certain) == Finish(r, FALSE) /\ IF certain THEN UNCHANGED faults ELSE Fault

Continue(r, point) ==
    /\ pc' = [pc EXCEPT ![r] = point]
    /\ UNCHANGED <<update_lock, process, faults>>

TryLock_Ignored(r) ==
    /\ pc[r] = "try_lock"
    /\ update_lock' = r
    /\ pc' = [pc EXCEPT ![r] = "open"]
    /\ UNCHANGED <<upstreamVars, cloneVars, fileVars, tip, parsed, process, faults>>

TryLock(r) ==
    /\ pc[r] = "try_lock"
    /\ update_lock = Free
    /\ update_lock' = r
    /\ pc' = [pc EXCEPT ![r] = "open"]
    /\ UNCHANGED <<upstreamVars, cloneVars, fileVars, tip, parsed, process, faults>>

\* WouldBlock: the run returns Ok(false) and leaves the lock to its holder.
AlreadyRunning(r) ==
    /\ pc[r] = "try_lock"
    /\ update_lock # Free
    /\ Continue(r, "idle")
    /\ UNCHANGED <<upstreamVars, cloneVars, fileVars, tip, parsed>>

StartClone(r) ==
    /\ pc[r] = "open" /\ clone = "missing"
    /\ clone' = "cloning"
    /\ Continue(r, "cloning")
    /\ UNCHANGED <<upstreamVars, remote, worktree, fileVars, tip, parsed>>

EndClone(r) ==
    /\ pc[r] = "cloning"
    /\ Upstream # NoCommit
    /\ clone' = "ready" /\ remote' = Upstream /\ worktree' = Upstream
    /\ Continue(r, "compare")
    /\ UNCHANGED <<upstreamVars, fileVars, tip, parsed>>

\* A clone that fails removes what it had created.
CloneFails(r) ==
    /\ pc[r] = "cloning"
    /\ clone' = "missing"
    /\ Fail(r, Upstream = NoCommit)
    /\ UNCHANGED <<upstreamVars, remote, worktree, fileVars>>

Fetch_OnlyOnce(r) ==
    /\ pc[r] = "open" /\ clone \in {"ready", "locked"}
    /\ Upstream # NoCommit
    /\ remote' = IF remote = NoCommit THEN Upstream ELSE remote
    /\ Continue(r, "compare")
    /\ UNCHANGED <<upstreamVars, clone, worktree, fileVars, tip, parsed>>

\* The forced refspec follows a rewritten branch.
Fetch(r) ==
    /\ pc[r] = "open" /\ clone \in {"ready", "locked"}
    /\ Upstream # NoCommit
    /\ remote' = Upstream
    /\ Continue(r, "compare")
    /\ UNCHANGED <<upstreamVars, clone, worktree, fileVars, tip, parsed>>

OpenOrFetchFails(r) ==
    /\ pc[r] = "open" /\ clone # "missing"
    /\ Fail(r, clone = "broken" \/ Upstream = NoCommit)
    /\ UNCHANGED <<upstreamVars, cloneVars, fileVars>>

Newer_OrEqual(commit, file) == commits[commit].time >= file.mtime
\* commit_epoch > mmdb_epoch, which is 0 when there is no file.
Newer(commit, file) == commits[commit].time > file.mtime

UpToDate(r) ==
    /\ pc[r] = "compare"
    /\ ~Newer(remote, mmdb)
    /\ Succeed(r)
    /\ UNCHANGED <<upstreamVars, cloneVars, fileVars>>

Outdated(r) ==
    /\ pc[r] = "compare"
    /\ Newer(remote, mmdb)
    /\ tip' = [tip EXCEPT ![r] = remote]
    /\ Continue(r, "checkout")
    /\ UNCHANGED <<upstreamVars, cloneVars, fileVars, parsed>>

CompareFails(r) ==
    /\ pc[r] = "compare"
    /\ Fail(r, FALSE)
    /\ UNCHANGED <<upstreamVars, cloneVars, fileVars>>

StartReset(r) ==
    /\ pc[r] = "checkout" /\ clone = "ready"
    /\ clone' = "resetting"
    /\ Continue(r, "reset")
    /\ UNCHANGED <<upstreamVars, remote, worktree, fileVars, tip, parsed>>

EndReset(r) ==
    /\ pc[r] = "reset"
    /\ clone' = "ready" /\ worktree' = tip[r]
    /\ Continue(r, "parse")
    /\ UNCHANGED <<upstreamVars, remote, fileVars, tip, parsed>>

\* An index.lock in the way, or an error half-way: the lock file is removed
\* by the reset that created it only.
CheckoutFails(r) ==
    /\ \/ pc[r] = "checkout" /\ clone = "locked"
       \/ pc[r] = "reset"
    /\ clone' = IF clone = "resetting" THEN "ready" ELSE clone
    /\ worktree' \in IF pc[r] = "reset" THEN {worktree, NoCommit} ELSE {worktree}
    /\ Fail(r, pc[r] = "checkout")
    /\ UNCHANGED <<upstreamVars, remote, fileVars>>

HasEntries_AnyFile(commit) == commit # NoCommit
\* Do the list files of the working tree hold a network?
HasEntries(commit) == commit # NoCommit /\ commits[commit].networks

\* The files are listed from the tree of the tip and read from the worktree.
Parse(r) ==
    /\ pc[r] = "parse"
    /\ HasEntries(worktree)
    /\ parsed' = [parsed EXCEPT ![r] = worktree]
    /\ Continue(r, "create")
    /\ UNCHANGED <<upstreamVars, cloneVars, fileVars, tip>>

\* No network in any file, or the tree cannot be read: bail.
NothingParsed(r) ==
    /\ pc[r] = "parse"
    /\ Fail(r, ~HasEntries(worktree))
    /\ UNCHANGED <<upstreamVars, cloneVars, fileVars>>

-----------------------------------------------------------------------------
(* write_mmdb: TempFile::write, then persist.                              *)

\* File::create truncates whatever an earlier process left there.
CreateTemp(r) ==
    /\ pc[r] = "create"
    /\ tmp' = [Absent EXCEPT !.epoch = tip[r], !.whole = FALSE, !.synced = FALSE, !.mtime = now]
    /\ leftover' = FALSE
    /\ Continue(r, "write")
    /\ UNCHANGED <<upstreamVars, cloneVars, mmdb, onDisk, tip, parsed>>

CreateTempFails(r) ==
    /\ pc[r] = "create"
    /\ Fail(r, FALSE)
    /\ UNCHANGED <<upstreamVars, cloneVars, fileVars>>

WriteTemp(r) ==
    /\ pc[r] = "write"
    /\ tmp' = [commit |-> parsed[r], epoch |-> tip[r], whole |-> TRUE, synced |-> FALSE, mtime |-> now]
    /\ Continue(r, "sync")
    /\ UNCHANGED <<upstreamVars, cloneVars, mmdb, onDisk, leftover, tip, parsed>>

SyncTemp_Skipped(r) ==
    /\ pc[r] = "sync"
    /\ Continue(r, "rename")
    /\ UNCHANGED <<upstreamVars, cloneVars, fileVars, tip, parsed>>

SyncTemp(r) ==
    /\ pc[r] = "sync"
    /\ tmp' = [tmp EXCEPT !.synced = TRUE]
    /\ Continue(r, "rename")
    /\ UNCHANGED <<upstreamVars, cloneVars, mmdb, onDisk, leftover, tip, parsed>>

Rename(r) ==
    /\ pc[r] = "rename" /\ tmp # Absent
    /\ mmdb' = tmp /\ tmp' = Absent
    /\ Succeed(r)
    /\ UNCHANGED <<upstreamVars, cloneVars, onDisk, leftover>>

RemoveQuietly_Forgotten == UNCHANGED <<tmp, leftover>>
\* remove_quietly: best effort, a failure is only logged.
RemoveQuietly ==
    \/ tmp' = Absent /\ UNCHANGED leftover
    \/ faults < MaxFaults /\ tmp # Absent /\ leftover' = TRUE /\ UNCHANGED tmp

\* Write, fsync or rename fails: the TempFile is dropped.
BuildFails(r) ==
    /\ pc[r] \in {"write", "sync", "rename"}
    /\ RemoveQuietly
    /\ Fail(r, pc[r] = "rename" /\ tmp = Absent)
    /\ UNCHANGED <<upstreamVars, cloneVars, mmdb, onDisk>>

-----------------------------------------------------------------------------
RunStep(r) ==
    \/ TryLock(r) \/ AlreadyRunning(r)
    \/ StartClone(r) \/ EndClone(r) \/ CloneFails(r) \/ Fetch(r) \/ OpenOrFetchFails(r)
    \/ UpToDate(r) \/ Outdated(r) \/ CompareFails(r)
    \/ StartReset(r) \/ EndReset(r) \/ CheckoutFails(r) \/ Parse(r) \/ NothingParsed(r)
    \/ CreateTemp(r) \/ CreateTempFails(r) \/ WriteTemp(r) \/ SyncTemp(r) \/ Rename(r) \/ BuildFails(r)

Next ==
    \/ Tick \/ Push \/ Touch \/ RemoveMmdb \/ WriteBack
    \/ Restart \/ Kill \/ PowerLoss
    \/ \E r \in Runs : Start(r) \/ RunStep(r)

Spec == Init /\ [][Next]_vars

(* Ticks of the clock and of cron keep coming, a run that started goes on, *)
(* and a process that ended is started again (restart: unless-stopped).    *)
Fairness ==
    /\ WF_vars(Tick) /\ WF_vars(Restart)
    /\ \A r \in Runs : WF_vars(Start(r)) /\ WF_vars(RunStep(r))

FairSpec == Spec /\ Fairness

-----------------------------------------------------------------------------
(* Properties.                                                             *)

Commit == 0 .. MaxCommits
File == [commit : Commit, epoch : Commit, whole : BOOLEAN, synced : BOOLEAN, mtime : 0 .. MaxTime]

(* The variables keep their types, and the run past try_lock is the one    *)
(* that holds update_lock: overlapping cron ticks never work at once.      *)
UpdaterTypeOK ==
    /\ now \in 1 .. MaxTime
    /\ commits \in Seq([time : 1 .. MaxTime, networks : BOOLEAN]) /\ Upstream <= MaxCommits
    /\ clone \in CloneStates /\ remote \in Commit /\ worktree \in Commit
    /\ mmdb \in File /\ tmp \in File /\ onDisk \in File /\ leftover \in BOOLEAN
    /\ process \in {"down", "starting", "serving"}
    /\ update_lock \in Runs \cup {Free}
    /\ pc \in [Runs -> ControlPoints]
    /\ tip \in [Runs -> Commit] /\ parsed \in [Runs -> Commit]
    /\ faults \in 0 .. MaxFaults
    /\ \A r \in Runs : pc[r] \notin {"idle", "try_lock"} => update_lock = r

(* What is at MMDB_PATH is a complete database, whatever failed and        *)
(* whenever the process or the machine stopped (fsync before rename).      *)
NeverPartial == mmdb.whole

(* The networks of a database come from one commit, the one its            *)
(* build_epoch names: no run resets the working tree, or rewrites the      *)
(* temporary file, under another one.                                      *)
OneCommitPerDatabase == mmdb.commit = mmdb.epoch

(* A rebuild never replaces a database by one of the same or of an earlier *)
(* commit time, also after the branch was rewritten: updates only go       *)
(* forward and are not repeated.                                           *)
OnlyForward ==
    [][ \A r \in Runs :
          Rename(r) /\ mmdb # Absent => commits[tip[r]].time > commits[mmdb.commit].time ]_vars

\* The commit that a file is the database of; a partial or mixed file is that
\* of none.
Mixed == MaxCommits + 1
DatabaseOf(file) == IF file.whole /\ file.commit = file.epoch THEN file.commit ELSE Mixed

Promise == INSTANCE DatabaseFile WITH
    published <- commits, current <- DatabaseOf(mmdb), durable <- DatabaseOf(onDisk)

(* The updater implements DatabaseFile: overlapping, failing and killed    *)
(* runs, operators and power losses do to the database what single,        *)
(* atomic and forward-going replacements do.                               *)
KeepsOneDatabase == Promise!Spec

Writing(r) == pc[r] \in {"write", "sync", "rename"}

(* "a failed build never leaves a partial file behind": a temporary file   *)
(* with no run writing it was left by a kill, or could not be removed.     *)
NoTempLeft == tmp # Absent => leftover \/ \E r \in Runs : Writing(r)

Idle == \A r \in Runs : pc[r] = "idle"
Usable == clone \notin {"broken", "locked"}

(* A tip that is newer than the database file, and was pushed while no run *)
(* was under way, is built whatever failed meanwhile, unless another one   *)
(* is pushed first, an operator touches the file, or the process was       *)
(* killed inside git.                                                      *)
NewerTipIsBuilt ==
    \A c \in 1 .. MaxCommits :
        (Idle /\ Usable /\ Upstream = c /\ commits[c].networks /\ Newer(c, mmdb))
            ~> (mmdb.commit = c \/ Upstream # c \/ ~Newer(c, mmdb) \/ ~Usable)

(* "Keeps a local clone of the FireHOL repository in sync and rebuilds the *)
(* MMDB from it" (FireholUpdater, src/firehol/mod.rs): a tip that stays is *)
(* built in the end.                                                       *)
InSync ==
    \A c \in 1 .. MaxCommits :
        (Usable /\ Upstream = c /\ commits[c].networks)
            ~> (mmdb.commit = c \/ Upstream # c \/ ~Usable)
=============================================================================
