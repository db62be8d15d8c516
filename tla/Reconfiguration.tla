--------------------------- MODULE Reconfiguration ---------------------------
(***************************************************************************)
(* The settings of the updater, src/cli.rs, over restarts that keep the    *)
(* volume with the clone and the database (README.md:636): which remote    *)
(* and which branch an update follows, and when a changed setting reaches  *)
(* the database.                                                           *)
(*                                                                         *)
(* An update is two steps here, up to its fetch and from its comparison    *)
(* on; FireholUpdater has all of them, with failures, and one setting.     *)
(***************************************************************************)
EXTENDS Naturals

CONSTANTS
    Urls, Branches, \* values of FIREHOL_REPO_URL and FIREHOL_REPO_BRANCH
    NoUrl,          \* a repository without the remote `origin`
    MaxTime,        \* bound: the clock, and with it the publications, stops here
    MaxRestarts     \* bound: restarts with other settings

ASSUME SettingsAssumption == NoUrl \notin Urls /\ MaxTime \in Nat \ {0} /\ MaxRestarts \in Nat

VARIABLES
    now,            \* the clock
    tips,           \* per remote and branch: the time of its last commit
    settings,       \* the Cli of this process
    clone,          \* the local clone
    mmdb,           \* the database file
    pc,             \* is an update between its fetch and its comparison?
    restarts        \* number of restarts with other settings

vars == <<now, tips, settings, clone, mmdb, pc, restarts>>

\* A commit is known by its remote, its branch and its time.
Commits == [url : Urls, branch : Branches, time : 1 .. MaxTime]
NoCommit == [url |-> NoUrl, branch |-> "none", time |-> 0]
Settings == [url : Urls, branch : Branches, ignore_country : BOOLEAN]

\* `exists` is FALSE for a directory that is missing or empty; `url` is the
\* one that `origin` was created with; `refs` are refs/remotes/origin/*.
NoClone == [exists |-> FALSE, url |-> NoUrl, refs |-> [b \in Branches |-> NoCommit]]
Absent == [from |-> NoCommit, ignore_country |-> FALSE, mtime |-> 0]

Tip(url, branch) == [url |-> url, branch |-> branch, time |-> tips[url][branch]]

\* The first start finds no clone, or a repository made by hand.
Init ==
    /\ now = 1
    /\ tips = [u \in Urls |-> [b \in Branches |-> 1]]
    /\ settings \in Settings
    /\ clone \in {NoClone, [NoClone EXCEPT !.exists = TRUE]}
    /\ mmdb = Absent
    /\ pc = "idle" /\ restarts = 0

-----------------------------------------------------------------------------
(* The remotes and the operator.                                           *)

Publish(url, branch) ==
    /\ now < MaxTime
    /\ now' = now + 1
    /\ tips' = [tips EXCEPT ![url][branch] = now']
    /\ UNCHANGED <<settings, clone, mmdb, pc, restarts>>

\* A new process on the same volume, from which the operator may have removed
\* the clone; an update under way is lost.
Restart ==
    /\ restarts < MaxRestarts /\ restarts' = restarts + 1
    /\ settings' \in Settings /\ clone' \in {clone, NoClone}
    /\ pc' = "idle"
    /\ UNCHANGED <<now, tips, mmdb>>

RemoveMmdb ==
    /\ mmdb' = Absent
    /\ UNCHANGED <<now, tips, settings, clone, pc, restarts>>

-----------------------------------------------------------------------------
(* update_and_build_mmdb.                                                  *)

Fetched(origin) ==
    /\ pc = "idle" /\ pc' = "fetched"
    /\ clone' = origin
    /\ UNCHANGED <<now, tips, settings, mmdb, restarts>>

\* RepoBuilder::clone brings all the branches of the remote.
Clone ==
    /\ ~clone.exists
    /\ Fetched([exists |-> TRUE, url |-> settings.url, refs |-> [b \in Branches |-> Tip(settings.url, b)]])

\* find_remote(origin), or else a remote with the url of the settings.
Origin == IF clone.url = NoUrl THEN settings.url ELSE clone.url

Fetch_AnyName ==
    /\ clone.exists
    /\ Fetched([clone EXCEPT !.url = Origin, !.refs = [b \in Branches |-> Tip(Origin, settings.branch)]])

Fetch_FromSettings ==
    /\ clone.exists
    /\ Fetched([clone EXCEPT !.url = Origin, !.refs[settings.branch] = Tip(settings.url, settings.branch)])

\* The refspec names the branch of the settings.
Fetch ==
    /\ clone.exists
    /\ Fetched([clone EXCEPT !.url = Origin, !.refs[settings.branch] = Tip(Origin, settings.branch)])

\* remote_tip
RemoteTip == clone.refs[settings.branch]

UpToDate ==
    /\ pc = "fetched" /\ RemoteTip.time <= mmdb.mtime
    /\ pc' = "idle"
    /\ UNCHANGED <<now, tips, settings, clone, mmdb, restarts>>

Rebuild_AllFiles ==
    /\ pc = "fetched" /\ RemoteTip.time > mmdb.mtime
    /\ pc' = "idle"
    /\ mmdb' = [from |-> RemoteTip, ignore_country |-> FALSE, mtime |-> now]
    /\ UNCHANGED <<now, tips, settings, clone, restarts>>

\* checkout of the tip, its list files, write_mmdb.
Rebuild ==
    /\ pc = "fetched" /\ RemoteTip.time > mmdb.mtime
    /\ pc' = "idle"
    /\ mmdb' = [from |-> RemoteTip, ignore_country |-> settings.ignore_country, mtime |-> now]
    /\ UNCHANGED <<now, tips, settings, clone, restarts>>

Update == Clone \/ Fetch \/ UpToDate \/ Rebuild

-----------------------------------------------------------------------------
Next ==
    \/ \E url \in Urls, branch \in Branches : Publish(url, branch)
    \/ Restart \/ RemoveMmdb
    \/ Update

Spec == Init /\ [][Next]_vars

(* The first update and cron ticks keep coming.                            *)
FairSpec == Spec /\ WF_vars(Update)

-----------------------------------------------------------------------------
(* Properties.                                                             *)

(* The variables keep their types, and a branch of the clone was fetched   *)
(* under its own name.                                                     *)
SettingsTypeOK ==
    /\ now \in 1 .. MaxTime
    /\ tips \in [Urls -> [Branches -> 1 .. MaxTime]]
    /\ settings \in Settings
    /\ clone.exists \in BOOLEAN /\ clone.url \in Urls \cup {NoUrl}
    /\ \A b \in Branches : clone.refs[b] \in {c \in Commits : c.branch = b} \cup {NoCommit}
    /\ mmdb.from \in Commits \cup {NoCommit} /\ mmdb.ignore_country \in BOOLEAN
    /\ mmdb.mtime \in 0 .. now
    /\ pc \in {"idle", "fetched"} /\ restarts \in 0 .. MaxRestarts

(* The branches of the clone come from one remote, its origin, whatever    *)
(* FIREHOL_REPO_URL was at each restart: their commit times, which decide  *)
(* about rebuilds, are those of one publisher.                             *)
OneOrigin == \A b \in Branches : clone.refs[b] # NoCommit => clone.refs[b].url = clone.url

BuiltFor(s) ==
    /\ mmdb.from.url = s.url /\ mmdb.from.branch = s.branch
    /\ mmdb.ignore_country = s.ignore_country

\* The branch of the settings has a commit newer than the database.
HasNews(s) == settings = s /\ tips[s.url][s.branch] > mmdb.mtime

(* Settings that stay reach the database with the next commit of their     *)
(* branch that is newer than the file, unless the clone has another        *)
(* origin.  (Without such a commit they do not: only the times count.)     *)
SettingsTakeEffect ==
    \A s \in Settings :
        (HasNews(s) /\ clone.url \in {NoUrl, s.url}) ~> (BuiltFor(s) \/ settings # s)
=============================================================================
