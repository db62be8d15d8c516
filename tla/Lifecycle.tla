------------------------------ MODULE Lifecycle ------------------------------
(***************************************************************************)
(* The life of the process, src/main.rs: the order in which run() brings   *)
(* up the database, the watch, the metrics endpoint, the first update, the *)
(* cron job and the SPOE listener, the three ways its select! ends, and    *)
(* the shutdown, under failures, kills and restarts, while operators       *)
(* change the database file and FireHOL publishes.                         *)
(*                                                                         *)
(* A load, a reload and each stage of an update are one step here: what    *)
(* happens inside them is the subject of Mmdb, MmdbWatcher and             *)
(* FireholUpdater.                                                         *)
(***************************************************************************)
EXTENDS Naturals

CONSTANTS
    MaxChanges,     \* bound: operators and publications change nothing after that many changes
    MaxFailures     \* bound: failing operations, kills and connections that hang

ASSUME LifecycleAssumption == MaxChanges \in Nat /\ MaxFailures \in Nat

VARIABLES
    file,           \* the database file
    clone,          \* the directory of the local clone
    barren,         \* do the lists of FireHOL's tip hold no network?
    agent,          \* the process
    asked,          \* has the container been asked to stop?
    changes,        \* number of changes of the file and of FireHOL's tip
    failures        \* number of failures so far

vars == <<file, clone, barren, agent, asked, changes, failures>>

\* The file on disk: a number per version, whether it parses, and whether its
\* modification time is not earlier than the commit time of FireHOL's tip.
NoFile == [version |-> 0, usable |-> FALSE, current |-> FALSE]
Broken == file # NoFile /\ ~file.usable

\* git leaves a directory that does not open when killed in the first clone,
\* and a stale index.lock when killed in a reset.  Nothing here repairs either.
CloneStates == {"missing", "ready", "locked", "broken"}

\* A process that has just been started.  `run` is where run(), and then
\* main(), stands; `served` the version the snapshot holds; `notice` says that
\* an event about the database is on its way to a reload; `received` that a
\* handler got a signal; `lists` that the tip the update fetched has networks.
\* `missed` (nothing will tell that another file is in place) and `meddled` (an
\* operator changed the file during this start-up) are for the properties only.
Started ==
    [run |-> "load", status |-> "none", served |-> 0, watching |-> FALSE, notice |-> FALSE,
     update |-> "none", lists |-> FALSE, metrics |-> "closed", spoe |-> FALSE,
     handlers |-> FALSE, received |-> FALSE, missed |-> FALSE, meddled |-> FALSE]

Exited(how) == [Started EXCEPT !.run = "exited", !.status = how]
Alive == agent.run # "exited"

Init ==
    /\ file \in {NoFile} \cup [version : {1}, usable : BOOLEAN, current : BOOLEAN]
    /\ clone = "missing" /\ barren \in BOOLEAN
    /\ agent = Started
    /\ asked = FALSE
    /\ changes = 1 /\ failures = 0

MayFail == failures < MaxFailures /\ failures' = failures + 1

-----------------------------------------------------------------------------
(* The file and FireHOL.                                                   *)

\* Another file, or none, is in place; the watch, if there is one, tells.
Told == [agent EXCEPT !.notice = agent.notice \/ agent.watching, !.missed = ~agent.watching]

StartingUp == agent.run \in {"watch", "metrics", "updater", "update", "schedule"}

OperatorChanges ==
    /\ changes < MaxChanges /\ changes' = changes + 1
    /\ file' \in [version : {changes'}, usable : BOOLEAN, current : BOOLEAN] \cup {NoFile}
    /\ agent' = [Told EXCEPT !.meddled = agent.meddled \/ StartingUp]
    /\ UNCHANGED <<clone, barren, asked, failures>>

\* `touch`: a new modification time, and an empty file if there was none.
Touch ==
    /\ changes < MaxChanges /\ changes' = changes + 1
    /\ file' = [version |-> changes', usable |-> file.usable, current |-> TRUE]
    /\ agent' = [Told EXCEPT !.meddled = agent.meddled \/ StartingUp]
    /\ UNCHANGED <<clone, barren, asked, failures>>

\* FireHOL publishes a commit made after the file was written, with or without
\* networks in its lists.
Publish ==
    /\ changes < MaxChanges /\ changes' = changes + 1
    /\ barren' \in BOOLEAN
    /\ file.current \/ barren' # barren
    /\ file' = [file EXCEPT !.current = FALSE]
    /\ UNCHANGED <<clone, agent, asked, failures>>

-----------------------------------------------------------------------------
(* Kills, restarts (restart: unless-stopped) and requests to stop.         *)

\* What the end of the process leaves of the clone, by where its update is.
CloneLeft ==
    IF agent.update \in {"fetch", "hung"} /\ clone = "missing" THEN {"missing", "ready", "broken"}
    ELSE IF agent.update = "reset" THEN {clone, "locked"}
    ELSE {clone}

Ends(how) == agent' = Exited(how) /\ clone' \in CloneLeft

Crash ==
    /\ Alive
    /\ Ends("killed")
    /\ MayFail
    /\ UNCHANGED <<file, barren, asked, changes>>

Restart ==
    /\ ~Alive /\ ~asked
    /\ agent' = Started
    /\ UNCHANGED <<file, clone, barren, asked, changes, failures>>

\* SIGTERM, SIGINT or SIGQUIT.  Until shutdown_signal() is polled they have
\* their default effect: none for process 1 of a container, else the end.
Signal ==
    /\ Alive /\ ~asked
    /\ asked' = TRUE
    /\ \/ agent.handlers /\ agent' = [agent EXCEPT !.received = TRUE] /\ UNCHANGED clone
       \/ ~agent.handlers /\ UNCHANGED <<agent, clone>>
       \/ ~agent.handlers /\ Ends("killed")
    /\ UNCHANGED <<file, barren, changes, failures>>

-----------------------------------------------------------------------------
(* run(): start-up.  An error makes it return to main(), which shuts down. *)

Goes(from, to) == agent.run = from /\ agent' = [agent EXCEPT !.run = to]
Returned(p) == [p EXCEPT !.run = "runtime", !.status = "error"]

LoadIfThere_Required ==
    /\ agent.run = "load" /\ file.usable
    /\ agent' = [agent EXCEPT !.run = "watch", !.served = file.version, !.missed = FALSE]
    /\ UNCHANGED <<file, clone, barren, asked, changes, failures>>

LoadIfThere ==
    /\ agent.run = "load"
    /\ ~Broken
    /\ agent' = [agent EXCEPT !.run = "watch", !.served = file.version, !.missed = FALSE]
    /\ UNCHANGED <<file, clone, barren, asked, changes, failures>>

LoadFails ==
    /\ agent.run = "load" /\ file # NoFile
    /\ IF file.usable THEN MayFail ELSE UNCHANGED failures
    /\ agent' = Returned(agent)
    /\ UNCHANGED <<file, clone, barren, asked, changes>>

StartWatcher ==
    /\ agent.run = "watch"
    /\ agent' = [agent EXCEPT !.run = "metrics", !.watching = TRUE]
    /\ UNCHANGED <<file, clone, barren, asked, changes, failures>>

\* bind, and spawn serve().
BindMetrics ==
    /\ agent.run = "metrics"
    /\ agent' = [agent EXCEPT !.run = "updater", !.metrics = "accepting"]
    /\ UNCHANGED <<file, clone, barren, asked, changes, failures>>

\* The first update is handed to a blocking thread, and awaited.
FirstUpdate ==
    /\ agent.run = "updater"
    /\ agent' = [agent EXCEPT !.run = "update", !.update = "fetch"]
    /\ UNCHANGED <<file, clone, barren, asked, changes, failures>>

StartScheduler ==
    /\ Goes("schedule", "select")
    /\ UNCHANGED <<file, clone, barren, asked, changes, failures>>

StartupFails ==
    /\ agent.run \in {"watch", "metrics", "schedule"}
    /\ agent' = Returned(agent)
    /\ MayFail
    /\ UNCHANGED <<file, clone, barren, asked, changes>>

Startup ==
    \/ LoadIfThere \/ LoadFails \/ StartWatcher \/ BindMetrics \/ FirstUpdate
    \/ StartScheduler \/ StartupFails

-----------------------------------------------------------------------------
(* run_update on its blocking thread, for the first update and for cron.   *)
(* main() may already be shutting down.                                    *)

\* The first update is awaited: its result decides how run() goes on.
UpdateEnded(p, ok) ==
    LET ended == [p EXCEPT !.update = "none"] IN
    IF p.run # "update" THEN ended
    ELSE IF ok THEN [ended EXCEPT !.run = "schedule"] ELSE Returned(ended)

\* A tick that meets a run under way returns at once (update_lock).
CronTick ==
    /\ agent.run \in {"select", "scheduler"} /\ agent.update = "none"
    /\ agent' = [agent EXCEPT !.update = "fetch"]
    /\ UNCHANGED <<file, clone, barren, asked, changes, failures>>

\* open_or_clone is over.
Fetched ==
    /\ agent.update = "fetch" /\ clone # "broken"
    /\ clone' = IF clone = "missing" THEN "ready" ELSE clone

UpToDate_IfThere ==
    /\ Fetched /\ file # NoFile
    /\ agent' = UpdateEnded(agent, TRUE)
    /\ UNCHANGED <<file, barren, asked, changes, failures>>

UpToDate ==
    /\ Fetched /\ file.current
    /\ agent' = UpdateEnded(agent, TRUE)
    /\ UNCHANGED <<file, barren, asked, changes, failures>>

Outdated ==
    /\ Fetched /\ ~file.current
    /\ agent' = [agent EXCEPT !.update = "reset", !.lists = ~barren]
    /\ UNCHANGED <<file, barren, asked, changes, failures>>

\* No time-out is set on the connection to the remote.
FetchHangs ==
    /\ agent.update = "fetch" /\ clone # "broken"
    /\ agent' = [agent EXCEPT !.update = "hung"]
    /\ MayFail
    /\ UNCHANGED <<file, clone, barren, asked, changes>>

\* checkout: the working tree is the tip's.
Reset ==
    /\ agent.update = "reset" /\ clone # "locked"
    /\ agent' = [agent EXCEPT !.update = "build"]
    /\ UNCHANGED <<file, clone, barren, asked, changes, failures>>

\* The new database is renamed into place.
Build ==
    /\ agent.update = "build" /\ agent.lists
    /\ changes' = changes + 1
    /\ file' = [version |-> changes', usable |-> TRUE, current |-> TRUE]
    /\ agent' = [Told EXCEPT !.update = "reload"]
    /\ UNCHANGED <<clone, barren, asked, failures>>

ReloadRebuilt_Later ==
    /\ agent.update = "reload"
    /\ agent' = UpdateEnded(agent, TRUE)
    /\ UNCHANGED <<file, clone, barren, asked, changes, failures>>

\* reload_if_changed leaves the file on disk loaded, whoever put it there.
ReloadRebuilt ==
    /\ agent.update = "reload" /\ file.usable
    /\ agent' = UpdateEnded([agent EXCEPT !.served = file.version, !.missed = FALSE], TRUE)
    /\ UNCHANGED <<file, clone, barren, asked, changes, failures>>

\* A clone that does not open, an index.lock in the way, lists without networks
\* and a file that does not parse make every run fail that meets them.
MustFail ==
    \/ agent.update = "fetch" /\ clone = "broken"
    \/ agent.update = "reset" /\ clone = "locked"
    \/ agent.update = "build" /\ ~agent.lists
    \/ agent.update = "reload" /\ ~file.usable

UpdateFails ==
    /\ agent.update \in {"fetch", "reset", "build", "reload"}
    /\ IF MustFail THEN UNCHANGED failures ELSE MayFail
    /\ agent' = UpdateEnded(agent, FALSE)
    /\ UNCHANGED <<file, clone, barren, asked, changes>>

Update == UpToDate \/ Outdated \/ FetchHangs \/ Reset \/ Build \/ ReloadRebuilt \/ UpdateFails

-----------------------------------------------------------------------------
(* The watch loop and the metrics endpoint.                                *)

WatcherReloads_UnlessUpdating ==
    /\ agent.notice /\ file.usable
    /\ agent' = IF agent.update # "none" THEN [agent EXCEPT !.notice = FALSE]
                ELSE [agent EXCEPT !.notice = FALSE, !.served = file.version, !.missed = FALSE]
    /\ UNCHANGED <<file, clone, barren, asked, changes, failures>>

WatcherReloads ==
    /\ agent.notice /\ file.usable
    /\ agent' = [agent EXCEPT !.notice = FALSE, !.served = file.version, !.missed = FALSE]
    /\ UNCHANGED <<file, clone, barren, asked, changes, failures>>

\* The error is logged and the event is consumed.
WatcherReloadFails ==
    /\ agent.notice
    /\ IF file.usable THEN MayFail ELSE UNCHANGED failures
    /\ agent' = [agent EXCEPT !.notice = FALSE, !.missed = file.usable]
    /\ UNCHANGED <<file, clone, barren, asked, changes>>

WatchLoop == WatcherReloads \/ WatcherReloadFails

AcceptFails_Ends ==
    /\ agent.metrics = "accepting"
    /\ agent' = [agent EXCEPT !.metrics = "closed"]
    /\ MayFail
    /\ UNCHANGED <<file, clone, barren, asked, changes>>

\* accept fails (EMFILE): the loop sleeps for ACCEPT_RETRY_DELAY.
AcceptFails ==
    /\ agent.metrics = "accepting"
    /\ agent' = [agent EXCEPT !.metrics = "sleeping"]
    /\ MayFail
    /\ UNCHANGED <<file, clone, barren, asked, changes>>

AcceptAgain ==
    /\ agent.metrics = "sleeping"
    /\ agent' = [agent EXCEPT !.metrics = "accepting"]
    /\ UNCHANGED <<file, clone, barren, asked, changes, failures>>

-----------------------------------------------------------------------------
(* select!: its branches are polled in any order, the first one that is    *)
(* ready ends it and the others are dropped.                               *)

BindSpoe ==
    /\ agent.run = "select" /\ ~agent.spoe
    /\ agent' = [agent EXCEPT !.spoe = TRUE]
    /\ UNCHANGED <<file, clone, barren, asked, changes, failures>>

InstallHandlers ==
    /\ agent.run = "select" /\ ~agent.handlers
    /\ agent' = [agent EXCEPT !.handlers = TRUE]
    /\ UNCHANGED <<file, clone, barren, asked, changes, failures>>

SelectEnds(how) ==
    /\ agent.run = "select"
    /\ agent' = [agent EXCEPT !.run = "scheduler", !.status = how, !.spoe = FALSE]

ShutdownSignal ==
    /\ agent.received
    /\ SelectEnds("ok")
    /\ UNCHANGED <<file, clone, barren, asked, changes, failures>>

\* The listener does not open or fails, a handler cannot be installed, or the
\* metrics task ends.
BranchFails ==
    /\ SelectEnds("error")
    /\ MayFail
    /\ UNCHANGED <<file, clone, barren, asked, changes>>

Serve == BindSpoe \/ InstallHandlers

-----------------------------------------------------------------------------
(* Shutdown.                                                               *)

\* Also when it fails, which is logged.
StopScheduler ==
    /\ Goes("scheduler", "watcher")
    /\ UNCHANGED <<file, clone, barren, asked, changes, failures>>

StopWatcher_KeepsEvents ==
    /\ agent.run = "watcher"
    /\ agent' = [agent EXCEPT !.run = "runtime", !.watching = FALSE]
    /\ UNCHANGED <<file, clone, barren, asked, changes, failures>>

StopWatcher ==
    /\ agent.run = "watcher"
    /\ agent' = [agent EXCEPT !.run = "runtime", !.watching = FALSE, !.notice = FALSE]
    /\ UNCHANGED <<file, clone, barren, asked, changes, failures>>

\* shutdown_timeout drops the tasks first: the metrics, and what is left of the
\* watch after an error.  Blocking threads go on.
DropTasks ==
    /\ agent.run = "runtime"
    /\ agent' = [agent EXCEPT !.run = "timeout", !.metrics = "closed", !.watching = FALSE, !.notice = FALSE]
    /\ UNCHANGED <<file, clone, barren, asked, changes, failures>>

ShutdownRuntime_NoTimeout ==
    /\ agent.run = "timeout" /\ agent.update = "none"
    /\ Ends(agent.status)
    /\ UNCHANGED <<file, barren, asked, changes, failures>>

\* The blocking threads are idle, or SHUTDOWN_TIMEOUT is over.
ShutdownRuntime ==
    /\ agent.run = "timeout"
    /\ Ends(agent.status)
    /\ UNCHANGED <<file, barren, asked, changes, failures>>

Shutdown == ShutdownSignal \/ StopScheduler \/ StopWatcher \/ DropTasks \/ ShutdownRuntime

-----------------------------------------------------------------------------
Next ==
    \/ OperatorChanges \/ Touch \/ Publish
    \/ Crash \/ Restart \/ Signal
    \/ Startup \/ CronTick \/ Update
    \/ WatchLoop \/ AcceptFails \/ AcceptAgain
    \/ Serve \/ BranchFails \/ Shutdown

Spec == Init /\ [][Next]_vars

(* The tasks and threads of the process run, cron ticks keep coming, and a *)
(* process that ended is started again.  A fetch that hangs stays so.      *)
Fairness ==
    /\ WF_vars(Restart) /\ WF_vars(Startup) /\ WF_vars(CronTick) /\ WF_vars(Update)
    /\ WF_vars(WatchLoop) /\ WF_vars(AcceptAgain) /\ WF_vars(BindSpoe) /\ WF_vars(InstallHandlers)
    /\ WF_vars(Shutdown)

FairSpec == Spec /\ Fairness

-----------------------------------------------------------------------------
(* Properties.                                                             *)

Versions == [version : Nat, usable : BOOLEAN, current : BOOLEAN]
Agents ==
    [run : {"load", "watch", "metrics", "updater", "update", "schedule", "select", "scheduler",
            "watcher", "runtime", "timeout", "exited"},
     status : {"none", "ok", "error", "killed"},
     served : Nat, watching : BOOLEAN, notice : BOOLEAN,
     update : {"none", "fetch", "hung", "reset", "build", "reload"}, lists : BOOLEAN,
     metrics : {"closed", "accepting", "sleeping"},
     spoe : BOOLEAN, handlers : BOOLEAN, received : BOOLEAN, missed : BOOLEAN, meddled : BOOLEAN]

(* The variables keep their types; the SPOE listener is open in the        *)
(* select! only, and events come from a watch.                             *)
LifecycleTypeOK ==
    /\ file \in Versions
    /\ clone \in CloneStates /\ barren \in BOOLEAN
    /\ agent \in Agents
    /\ asked \in BOOLEAN
    /\ changes \in Nat /\ failures \in 0 .. MaxFailures
    /\ agent.spoe => agent.run = "select"
    /\ agent.notice => agent.watching
    /\ file.version <= changes

(* "The SPOE listener opens only once a database exists" (README.md:203).  *)
ListenerNeedsDatabase == agent.spoe => agent.served # 0

(* What holds: the listener can be open without a database only if an      *)
(* operator changed the file during this start-up, after it was looked at. *)
ListensWithDatabase == agent.spoe /\ agent.served = 0 => agent.meddled

(* A usable file that is not the one being served while the watch is on:   *)
(* an event is on its way to the watch loop, or a reload by it failed, or  *)
(* the file came between the load and the watch.  Nothing else is lost.    *)
BehindIsExplained ==
    agent.watching /\ file.usable /\ agent.served # file.version => agent.notice \/ agent.missed

(* "Metrics are served before that, so the first (long) build is           *)
(* observable" (README.md:203-204): no update stays unobserved, not even   *)
(* one that hangs.  Accepts that fail do not end the endpoint, and an      *)
(* update outlives it in a shutdown for SHUTDOWN_TIMEOUT only.             *)
ObservableBuild == agent.update # "none" ~> agent.metrics = "accepting" \/ agent.update = "none"

\* What a kill has left of the clone, or FireHOL of its lists, makes every
\* rebuild fail.
CannotRebuild == clone = "locked" \/ barren

(* After failures that pass, kills and restarts the agent comes back to    *)
(* serving, unless it was asked to stop; the file on disk does not parse   *)
(* (the load at start-up then ends the process before the updater could    *)
(* replace it); a fetch hangs; or the first update fails at every start: a *)
(* kill left a clone that does not open, or the file is missing or older   *)
(* than the tip, and an index.lock is in the way or the tip has no network.*)
ServesAgain ==
    []<>( \/ agent.spoe \/ asked
          \/ Broken
          \/ agent.update = "hung"
          \/ clone = "broken"
          \/ CannotRebuild /\ ~file.current )

(* A signal that a handler got ends the process, whatever an update is     *)
(* doing: SHUTDOWN_TIMEOUT bounds the wait for it.                         *)
StopEnds == agent.received ~> ~Alive

(* While the agent serves, a database older than FireHOL's tip is rebuilt, *)
(* unless a fetch hangs, an index.lock is in the way or the tip has no     *)
(* network.                                                                *)
RefreshedUnlessStuck ==
    (agent.spoe /\ ~file.current) ~>
        (file.current \/ ~agent.spoe \/ agent.update = "hung" \/ CannotRebuild)

(* "Stop with SIGTERM, SIGINT (Ctrl-C) or SIGQUIT; the agent shuts the     *)
(* scheduler and the watcher down and exits with status 0" (README.md).    *)
SignalExitsWith0 == asked ~> (~Alive /\ agent.status = "ok")
=============================================================================
