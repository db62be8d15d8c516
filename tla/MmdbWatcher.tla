----------------------------- MODULE MmdbWatcher -----------------------------
(***************************************************************************)
(* The file watcher of src/mmdb_watcher.rs composed with the database      *)
(* holder (Mmdb) and with its other users: the load that main.rs makes     *)
(* before the watch exists, and the reload that follows a rebuild          *)
(* (run_update), which the watcher sees too.                               *)
(*                                                                         *)
(* Changes of the database file made while the directory is watched raise  *)
(* an event.  The debouncer (external) collects events for one period and  *)
(* sends them as a batch through a bounded channel to watch_loop.          *)
(***************************************************************************)
EXTENDS Mmdb, Sequences

CONSTANTS
    Main,           \* the thread of main.rs that loads the file at start-up
    Watcher,        \* the blocking thread watch_loop reloads on
    Updaters,       \* the blocking threads of run_update
    ChannelSize     \* batches the channel holds (mpsc::channel(16))

ASSUME WatcherAssumption ==
    /\ Loaders = {Main, Watcher} \cup Updaters
    /\ Main # Watcher /\ {Main, Watcher} \cap Updaters = {}
    /\ ChannelSize \in Nat \ {0}

VARIABLES
    phase,          \* how far run() of main.rs is
    pending,        \* names in the directory with events not yet sent
    channel,        \* batches sent and not yet received
    noticed,        \* version of the file that the last event was about
    rebuilt,        \* updaters that renamed a new file and owe a reload
    unread          \* the version that was on disk when a reload by the watch failed

startVars == <<phase>>
eventVars == <<pending, noticed>>
watchVars == <<phase, pending, channel, noticed, rebuilt, unread>>
vars == <<mmdbVars, watchVars>>

Phases == {"starting", "loading", "loaded", "watching", "stopped", "exited"}

\* Names of the directory an event can be about: the database and the
\* temporary file beside it.
Names == {"mmdb", "tmp"}

\* A batch is a set of names with events, or the errors of the watch.
Errors == {"error"}

Init ==
    /\ MmdbInit
    /\ phase = "starting"
    /\ pending = {}
    /\ channel = <<>>
    /\ noticed = NoFile
    /\ rebuilt = {} /\ unread = NoFile

-----------------------------------------------------------------------------
(* Events.  An inotify watch reports what happens after it was placed.     *)

Notify(names) ==
    IF phase = "watching"
    THEN /\ pending' = pending \cup names
         /\ noticed' = IF "mmdb" \in names THEN file' ELSE noticed
    ELSE UNCHANGED eventVars

\* Somebody else replaces, touches or removes the database.
OperatorChanges ==
    /\ FileChanges
    /\ Notify({"mmdb"})
    /\ UNCHANGED <<phase, channel, rebuilt, unread>>

\* The temporary file is created, written or removed.
TempFileChanges ==
    /\ phase = "watching"
    /\ Notify({"tmp"})
    /\ UNCHANGED <<mmdbVars, phase, channel, rebuilt, unread>>

Debounce_Unbounded ==
    /\ phase = "watching" /\ pending # {}
    /\ channel' = Append(channel, pending)
    /\ pending' = {}
    /\ UNCHANGED <<mmdbVars, phase, noticed, rebuilt, unread>>

\* One DEBOUNCE period ends; a full channel makes the debouncer wait.
Debounce ==
    /\ phase = "watching" /\ pending # {}
    /\ Len(channel) < ChannelSize
    /\ channel' = Append(channel, pending)
    /\ pending' = {}
    /\ UNCHANGED <<mmdbVars, phase, noticed, rebuilt, unread>>

WatchError ==
    /\ phase = "watching" /\ IoErrors
    /\ Len(channel) < ChannelSize
    /\ channel' = Append(channel, Errors)
    /\ UNCHANGED <<mmdbVars, phase, pending, noticed, rebuilt, unread>>

-----------------------------------------------------------------------------
(* watch_loop: one batch at a time, the reload awaited before the next.    *)

Concerns_OnlyMmdb(batch) == batch = {"mmdb"}
Concerns(batch) == "mmdb" \in batch

ReceiveAndReload ==
    /\ phase = "watching" /\ channel # <<>>
    /\ Concerns(Head(channel))
    /\ Call(Watcher, "reload_if_changed")
    /\ channel' = Tail(channel)
    /\ UNCHANGED <<phase, pending, noticed, rebuilt, unread>>

ReceiveAndSkip ==
    /\ phase = "watching" /\ channel # <<>>
    /\ pc[Watcher] = Idle
    /\ ~Concerns(Head(channel))
    /\ channel' = Tail(channel)
    /\ UNCHANGED <<mmdbVars, phase, pending, noticed, rebuilt, unread>>

Receive == ReceiveAndReload \/ ReceiveAndSkip

ReloadGoesOn ==
    /\ Lock(Watcher) \/ StatUnchanged(Watcher) \/ Stat(Watcher) \/ ReadAndParse(Watcher)
       \/ Store(Watcher) \/ Count(Watcher)
    /\ UNCHANGED unread

\* A failed reload is logged; its event is gone.
ReloadFails ==
    /\ StatFailsInReload(Watcher) \/ ReadOrParseFails(Watcher)
    /\ unread' = file

WatcherStep ==
    /\ ReloadGoesOn \/ ReloadFails
    /\ UNCHANGED <<phase, pending, channel, noticed, rebuilt>>

-----------------------------------------------------------------------------
(* main.rs: load the file if there is one, then watch; a failed load ends  *)
(* the process, and so does a failed watch.                                *)

IsFile ==
    /\ phase = "starting"
    /\ file # NoFile
    /\ Call(Main, "load")
    /\ phase' = "loading"
    /\ UNCHANGED <<pending, channel, noticed, rebuilt, unread>>

IsNoFile ==
    /\ phase = "starting"
    /\ file = NoFile
    /\ phase' = "loaded"
    /\ UNCHANGED <<mmdbVars, pending, channel, noticed, rebuilt, unread>>

StartupLoad ==
    /\ \/ /\ Lock(Main) \/ Stat(Main) \/ StatFailsInLoad(Main) \/ ReadAndParse(Main) \/ Store(Main)
          /\ UNCHANGED phase
       \/ Count(Main) /\ phase' = "loaded"
       \/ ReadOrParseFails(Main) /\ phase' = "exited"
    /\ UNCHANGED <<pending, channel, noticed, rebuilt, unread>>

StartWatcher ==
    /\ phase = "loaded"
    /\ phase' = "watching"
    /\ UNCHANGED <<mmdbVars, pending, channel, noticed, rebuilt, unread>>

WatchFails ==
    /\ phase = "loaded" /\ IoErrors
    /\ phase' = "exited"
    /\ UNCHANGED <<mmdbVars, pending, channel, noticed, rebuilt, unread>>

Stop_AbortsReload ==
    /\ phase = "watching"
    /\ phase' = "stopped"
    /\ pending' = {} /\ channel' = <<>>
    /\ pc' = [pc EXCEPT ![Watcher] = Idle]
    /\ UNCHANGED <<fileVars, swapVars, load_lock, call, readVars, noticed, rebuilt, unread>>

\* stop(): the debouncer ends and the loop is aborted; a reload already on
\* its blocking thread goes on.
Stop ==
    /\ phase = "watching"
    /\ phase' = "stopped"
    /\ pending' = {} /\ channel' = <<>>
    /\ UNCHANGED <<mmdbVars, noticed, rebuilt, unread>>

-----------------------------------------------------------------------------
(* run_update: the new database is renamed into place and the update_lock  *)
(* released before the reload, so two updaters may owe one at once.  One   *)
(* that was under way when the agent stops may still finish.               *)

Rebuild(u) ==
    /\ phase \in {"watching", "stopped"}
    /\ u \notin rebuilt /\ pc[u] = Idle
    /\ \E m \in Mtimes, content \in ValidContents : ReplaceFile(m, content)
    /\ Notify({"mmdb", "tmp"})
    /\ rebuilt' = rebuilt \cup {u}
    /\ UNCHANGED <<phase, channel, unread>>

ReloadRebuilt(u) ==
    /\ u \in rebuilt
    /\ Call(u, "reload_if_changed")
    /\ rebuilt' = rebuilt \ {u}
    /\ UNCHANGED <<phase, pending, channel, noticed, unread>>

UpdaterStep(u) == LoaderStep(u) /\ UNCHANGED watchVars

-----------------------------------------------------------------------------
Lookup(r) == LookupStep(r) /\ UNCHANGED watchVars

Next ==
    \/ OperatorChanges \/ TempFileChanges
    \/ Debounce \/ WatchError
    \/ Receive \/ WatcherStep
    \/ IsFile \/ IsNoFile \/ StartupLoad \/ StartWatcher \/ WatchFails \/ Stop
    \/ \E u \in Updaters : Rebuild(u) \/ ReloadRebuilt(u) \/ UpdaterStep(u)
    \/ \E r \in Lookups : Lookup(r)

Spec == Init /\ [][Next]_vars

(* The steps of the program are taken; nothing makes operators, errors,    *)
(* new rebuilds or a shutdown happen.                                      *)
Fairness ==
    /\ SF_vars(Debounce)
    /\ WF_vars(Receive)
    /\ WF_vars(WatcherStep)
    /\ WF_vars(IsFile \/ IsNoFile \/ StartupLoad \/ StartWatcher)
    /\ \A u \in Updaters : WF_vars(ReloadRebuilt(u)) /\ WF_vars(UpdaterStep(u))

FairSpec == Spec /\ Fairness

-----------------------------------------------------------------------------
(* Properties.                                                             *)

(* The variables keep their types and the channel its capacity.            *)
WatcherTypeOK ==
    /\ TypeOK
    /\ phase \in Phases
    /\ pending \subseteq Names
    /\ channel \in Seq((SUBSET Names) \cup {Errors}) /\ Len(channel) <= ChannelSize
    /\ noticed \in Versions
    /\ rebuilt \subseteq Updaters
    /\ unread \in Versions

(* The watcher, the start-up load and the updaters use the holder the way  *)
(* Mmdb assumes, also when the loop is aborted in the middle of a reload:  *)
(* what is proved about the holder holds in the running agent.             *)
HolderUsedAsSpecified == MmdbSpec

\* The database on disk is the one an event was last raised for, and usable.
Announced(m) ==
    phase = "watching" /\ m # NoFile /\ file = m /\ noticed = m /\ Content(m) \in ValidContents

\* A reload by the watch loop is on its way and will look at the file as it is.
ReloadComing ==
    \/ "mmdb" \in pending
    \/ \E i \in DOMAIN channel : Concerns(channel[i])
    \/ pc[Watcher] \in {"lock", "stat"}
    \/ pc[Watcher] # Idle /\ call[Watcher].modified = file

(* No change made under the watch is lost: while the snapshot is not       *)
(* labelled with it, an event, a batch or a reload of watch_loop that will *)
(* see it is still on its way, or a reload failed on it.                   *)
ChangeNotLost ==
    Announced(file) /\ snapshot.modified # file => ReloadComing \/ unread = file

(* A valid database put on disk while the directory is watched is served,  *)
(* unless it is changed again, the watch is stopped first, or its reload   *)
(* fails; watch errors and updaters do not matter.                         *)
ChangeIsServed ==
    \A m \in Mtimes :
        Announced(m) ~> (snapshot.source = m \/ file # m \/ phase # "watching" \/ unread = m)
=============================================================================
