--------------------------- MODULE LifecycleProofs ---------------------------
(***************************************************************************)
(* Safety of the process, for any number of changes and failures: when the *)
(* listener is open there is a database, or an operator interfered; and a  *)
(* file that is not served has been noticed, or missed for a known reason. *)
(***************************************************************************)
EXTENDS Lifecycle, TLAPS

USE LifecycleAssumption

(* A version number belongs to a file.                                     *)
FileInv == file.version = 0 => file = NoFile

(* No update runs, and nothing is watched, before its turn.                *)
OrderInv ==
    /\ agent.run \in {"load", "watch", "metrics", "updater", "exited"} => agent.update = "none"
    /\ agent.run \in {"load", "watch", "exited"} => ~agent.watching

(* From the load on, another usable file in place is noticed or missed.    *)
NoticeInv ==
    (agent.run = "watch" \/ agent.watching) /\ file.usable /\ agent.served # file.version =>
        agent.notice \/ agent.missed

(* A start-up without a database, in which no operator interferes, stays   *)
(* in the first update until that update has put a file in place.          *)
EmptyInv ==
    agent.run \in {"watch", "metrics", "updater", "update", "schedule", "select"}
            /\ agent.served = 0 /\ ~agent.meddled =>
        /\ agent.run \in {"watch", "metrics", "updater", "update"}
        /\ IF agent.update = "reload" THEN file.version # 0 ELSE file = NoFile

LifecycleInv == LifecycleTypeOK /\ FileInv /\ OrderInv /\ NoticeInv /\ EmptyInv

-----------------------------------------------------------------------------
(* A failure stays within the bound.                                       *)
LEMMA FailureBound ==
    ASSUME LifecycleTypeOK, MayFail \/ UNCHANGED failures
    PROVE  failures' \in 0 .. MaxFailures
  <1>1. failures \in 0 .. MaxFailures
    BY DEF LifecycleTypeOK
  <1> QED BY <1>1 DEF MayFail

(* The clone and the tip keep their types.                                 *)
LEMMA CloneTypes ==
    ASSUME LifecycleTypeOK, Next
    PROVE  clone' \in CloneStates /\ barren' \in BOOLEAN
  <1>1. clone \in CloneStates /\ barren \in BOOLEAN
    BY DEF LifecycleTypeOK
  <1>2. CASE OperatorChanges \/ Touch \/ Publish
    BY <1>1, <1>2 DEF OperatorChanges, Touch, Publish
  <1>3. CASE Crash \/ Restart \/ Signal \/ ShutdownRuntime
    <2>1. clone' \in CloneLeft \cup {clone} /\ barren' = barren
      BY <1>3 DEF Crash, Restart, Signal, ShutdownRuntime, Ends
    <2>2. CloneLeft \subseteq CloneStates
      BY <1>1 DEF CloneLeft, CloneStates
    <2> QED BY <1>1, <2>1, <2>2
  <1>4. CASE Startup
    BY <1>1, <1>4 DEF Startup, LoadIfThere, LoadFails, StartWatcher, BindMetrics, FirstUpdate,
                      StartScheduler, StartupFails
  <1>5. CASE CronTick \/ Update
    BY <1>1, <1>5 DEF CronTick, Update, UpToDate, Outdated, Fetched, FetchHangs, Reset, Build,
                      ReloadRebuilt, UpdateFails, CloneStates
  <1>6. CASE WatchLoop \/ AcceptFails \/ AcceptAgain
    BY <1>1, <1>6 DEF WatchLoop, WatcherReloads, WatcherReloadFails, AcceptFails, AcceptAgain
  <1>7. CASE Serve \/ BranchFails \/ ShutdownSignal \/ StopScheduler \/ StopWatcher \/ DropTasks
    BY <1>1, <1>7 DEF Serve, BindSpoe, InstallHandlers, BranchFails, ShutdownSignal, StopScheduler,
                      StopWatcher, DropTasks
  <1> QED BY <1>2, <1>3, <1>4, <1>5, <1>6, <1>7 DEF Next, Shutdown

(* A file with a number is not the absent one.                             *)
LEMMA NumberedVersion ==
    ASSUME NEW n \in Nat \ {0}, NEW f \in [version : {n}, usable : BOOLEAN, current : BOOLEAN]
    PROVE  f \in Versions /\ f.version = n
  <1>1. f = [version |-> f.version, usable |-> f.usable, current |-> f.current]
    OBVIOUS
  <1>2. f.version = n /\ f.usable \in BOOLEAN /\ f.current \in BOOLEAN
    OBVIOUS
  <1> QED BY <1>1, <1>2 DEF Versions

(* What is left of a process that ended.                                   *)
LEMMA ExitedAgent ==
    ASSUME NEW how \in {"none", "ok", "error", "killed"}
    PROVE  /\ Exited(how) \in Agents /\ Exited(how).run = "exited" /\ Exited(how).update = "none"
           /\ ~Exited(how).spoe /\ ~Exited(how).notice /\ ~Exited(how).watching
  BY DEF Exited, Started, Agents

(* A change of the file touches two flags of the process.                  *)
LEMMA ToldAgent ==
    ASSUME agent \in Agents
    PROVE  /\ Told \in Agents
           /\ Told = [agent EXCEPT !.notice = Told.notice, !.missed = Told.missed]
           /\ Told.notice = (agent.notice \/ agent.watching) /\ Told.missed = ~agent.watching
  <1>1. (agent.notice \/ agent.watching) \in BOOLEAN /\ (~agent.watching) \in BOOLEAN
    BY DEF Agents
  <1>2. \A n, m \in BOOLEAN : [agent EXCEPT !.notice = n, !.missed = m] \in Agents
    BY DEF Agents
  <1>3. Told \in Agents
    BY <1>1, <1>2 DEF Told
  <1>4. Told.notice = (agent.notice \/ agent.watching)
    BY DEF Told, Agents
  <1>5. Told.missed = ~agent.watching
    BY DEF Told, Agents
  <1>6. Told = [agent EXCEPT !.notice = Told.notice, !.missed = Told.missed]
    <2> DEFINE n == agent.notice \/ agent.watching
               m == ~agent.watching
    <2>1. Told = [agent EXCEPT !.notice = n, !.missed = m] /\ Told.notice = n /\ Told.missed = m
      BY <1>4, <1>5 DEF Told
    <2> HIDE DEF n, m
    <2> QED BY <2>1
  <1> QED BY <1>3, <1>4, <1>5, <1>6

(* A process that starts holds nothing.                                    *)
LEMMA InitKeeps ==
    ASSUME Init
    PROVE  LifecycleInv
  <1>1. Started \in Agents /\ NoFile \in Versions
    BY DEF Started, Agents, NoFile, Versions
  <1>2. file \in Versions /\ file.version <= changes
    <2>1. CASE file = NoFile
      BY <1>1, <2>1 DEF Init, NoFile
    <2>2. CASE file \in [version : {1}, usable : BOOLEAN, current : BOOLEAN]
      <3>1. file \in Versions /\ file.version = 1
        BY <2>2, NumberedVersion
      <3> QED BY <3>1 DEF Init
    <2> QED BY <2>1, <2>2 DEF Init
  <1>3. LifecycleTypeOK
    <2>1. /\ changes \in Nat /\ failures \in 0 .. MaxFailures /\ asked \in BOOLEAN
          /\ clone \in CloneStates /\ barren \in BOOLEAN
      <3>1. 0 \in 0 .. MaxFailures /\ changes = 1 /\ failures = 0 /\ asked = FALSE
        BY DEF Init, LifecycleAssumption
      <3>2. clone \in CloneStates /\ barren \in BOOLEAN
        BY DEF Init, CloneStates
      <3> QED BY <3>1, <3>2
    <2>2. agent \in Agents /\ ~agent.spoe /\ ~agent.notice
      BY <1>1 DEF Init, Started
    <2> QED BY <1>2, <2>1, <2>2 DEF LifecycleTypeOK
  <1>4. FileInv /\ OrderInv /\ NoticeInv /\ EmptyInv
    BY DEF Init, FileInv, OrderInv, NoticeInv, EmptyInv, Started, NoFile
  <1> QED BY <1>3, <1>4 DEF LifecycleInv

(* The file changes under the process, or FireHOL publishes.               *)
LEMMA FileKeeps ==
    ASSUME LifecycleInv, clone' \in CloneStates, barren' \in BOOLEAN,
           OperatorChanges \/ Touch \/ Publish
    PROVE  LifecycleInv'
  <1>1. agent \in Agents /\ file \in Versions /\ changes \in Nat
    BY DEF LifecycleInv, LifecycleTypeOK
  <1>2. ASSUME agent' = [Told EXCEPT !.meddled = agent.meddled \/ StartingUp],
               file' \in Versions, file'.version <= changes', file'.version = 0 => file' = NoFile,
               changes' = changes + 1, UNCHANGED <<asked, failures>>
        PROVE  LifecycleInv'
    <2>1. agent' \in Agents
      <3>1. \A m \in BOOLEAN : [Told EXCEPT !.meddled = m] \in Agents
        BY <1>1, ToldAgent DEF Agents
      <3>2. (agent.meddled \/ StartingUp) \in BOOLEAN
        BY <1>1 DEF Agents
      <3> QED BY <1>2, <3>1, <3>2
    <2>2. agent'.spoe = agent.spoe /\ agent'.run = agent.run /\ agent'.watching = agent.watching
          /\ agent'.notice = (agent.notice \/ agent.watching)
      BY <1>1, <1>2 DEF Agents, Told
    <2>3. LifecycleTypeOK'
      <3>1. changes' \in Nat /\ asked' \in BOOLEAN /\ failures' \in 0 .. MaxFailures
        BY <1>1, <1>2 DEF LifecycleInv, LifecycleTypeOK
      <3>2. (agent.spoe => agent.run = "select") /\ (agent.notice => agent.watching)
        BY DEF LifecycleInv, LifecycleTypeOK
      <3> QED BY <1>2, <2>1, <2>2, <3>1, <3>2 DEF LifecycleTypeOK
    <2>4. OrderInv' /\ NoticeInv'
      BY <1>1, <1>2 DEF LifecycleInv, OrderInv, NoticeInv, Agents, Told
    <2>5. EmptyInv'
      BY <1>1, <1>2 DEF LifecycleInv, EmptyInv, Agents, Told, StartingUp
    <2> QED BY <1>2, <2>3, <2>4, <2>5 DEF LifecycleInv, FileInv
  <1>3. CASE OperatorChanges
    <2>1. changes' \in Nat \ {0} /\ changes' = changes + 1
      BY <1>1, <1>3 DEF OperatorChanges
    <2>2. file' = NoFile \/ file' \in [version : {changes'}, usable : BOOLEAN, current : BOOLEAN]
      BY <1>3 DEF OperatorChanges
    <2>3. file' \in Versions /\ file'.version <= changes' /\ (file'.version = 0 => file' = NoFile)
      <3>1. CASE file' = NoFile
        BY <2>1, <3>1 DEF Versions, NoFile
      <3>2. CASE file' \in [version : {changes'}, usable : BOOLEAN, current : BOOLEAN]
        <4>1. file' \in Versions /\ file'.version = changes'
          BY <2>1, <3>2, NumberedVersion
        <4> QED BY <2>1, <4>1
      <3> QED BY <2>2, <3>1, <3>2
    <2> QED BY <1>2, <1>3, <2>1, <2>3 DEF OperatorChanges
  <1>4. CASE Touch
    <2>1. changes' \in Nat \ {0} /\ changes' = changes + 1
      BY <1>1, <1>4 DEF Touch
    <2>2. file' \in Versions /\ file'.version = changes'
      BY <1>1, <1>4, <2>1 DEF Touch, Versions
    <2> QED BY <1>2, <1>4, <2>1, <2>2 DEF Touch
  <1>5. CASE Publish
    <2>1. /\ file' = [file EXCEPT !.current = FALSE]
          /\ changes' = changes + 1 /\ UNCHANGED <<agent, asked, failures>>
      BY <1>5 DEF Publish
    <2>2. file' \in Versions /\ file'.version = file.version /\ file'.usable = file.usable
      BY <1>1, <2>1 DEF Versions
    <2>3. file = NoFile => file' = NoFile
      <3>1. file' = [version |-> file'.version, usable |-> file'.usable, current |-> file'.current]
        BY <2>2 DEF Versions
      <3>2. file'.current = FALSE
        BY <1>1, <2>1 DEF Versions
      <3> QED BY <2>2, <3>1, <3>2 DEF NoFile
    <2>4. LifecycleTypeOK'
      BY <1>1, <2>1, <2>2 DEF LifecycleInv, LifecycleTypeOK, Versions
    <2>5. FileInv' /\ OrderInv' /\ NoticeInv' /\ EmptyInv'
      BY <2>1, <2>2, <2>3 DEF LifecycleInv, FileInv, OrderInv, NoticeInv, EmptyInv
    <2> QED BY <2>4, <2>5 DEF LifecycleInv
  <1> QED BY <1>3, <1>4, <1>5

(* Kills, restarts and requests to stop.                                   *)
LEMMA ProcessKeeps ==
    ASSUME LifecycleInv, clone' \in CloneStates, barren' \in BOOLEAN,
           Crash \/ Restart \/ Signal
    PROVE  LifecycleInv'
  <1>1. agent \in Agents /\ file \in Versions /\ failures \in 0 .. MaxFailures
    BY DEF LifecycleInv, LifecycleTypeOK
  <1>2. UNCHANGED <<file, changes>> /\ asked' \in BOOLEAN
    BY DEF LifecycleInv, LifecycleTypeOK, Crash, Restart, Signal
  <1>3. failures' \in 0 .. MaxFailures
    BY FailureBound DEF LifecycleInv, Crash, Restart, Signal
  <1>4. agent' \in {Started, Exited("killed"), agent, [agent EXCEPT !.received = TRUE]}
    BY DEF Crash, Restart, Signal, Ends
  <1>5. CASE agent' \in {Started, Exited("killed")}
    <2>1. /\ agent' \in Agents /\ ~agent'.spoe /\ ~agent'.notice /\ ~agent'.watching
          /\ agent'.run \in {"load", "exited"} /\ agent'.update = "none"
      <3>1. Started \in Agents
        BY DEF Started, Agents
      <3>2. CASE agent' = Started
        BY <3>1, <3>2 DEF Started
      <3>3. CASE agent' = Exited("killed")
        BY <3>3, ExitedAgent
      <3> QED BY <1>5, <3>2, <3>3
    <2>2. LifecycleTypeOK'
      BY <1>1, <1>2, <1>3, <2>1 DEF LifecycleInv, LifecycleTypeOK
    <2>3. FileInv' /\ OrderInv' /\ NoticeInv' /\ EmptyInv'
      BY <1>2, <2>1 DEF LifecycleInv, FileInv, OrderInv, NoticeInv, EmptyInv
    <2> QED BY <2>2, <2>3 DEF LifecycleInv
  <1>6. CASE agent' \in {agent, [agent EXCEPT !.received = TRUE]}
    <2>1. agent' \in Agents
      BY <1>1, <1>6 DEF Agents
    <2>2. LifecycleTypeOK'
      BY <1>1, <1>2, <1>3, <1>6, <2>1 DEF LifecycleInv, LifecycleTypeOK, Agents
    <2>3. FileInv' /\ OrderInv' /\ NoticeInv' /\ EmptyInv'
      BY <1>1, <1>2, <1>6 DEF LifecycleInv, FileInv, OrderInv, NoticeInv, EmptyInv, Agents
    <2> QED BY <2>2, <2>3 DEF LifecycleInv
  <1> QED BY <1>4, <1>5, <1>6

(* The steps of run() up to the select!.                                   *)
LEMMA StartupKeeps ==
    ASSUME LifecycleInv, clone' \in CloneStates, barren' \in BOOLEAN,
           Startup
    PROVE  LifecycleInv'
  <1>1. agent \in Agents /\ file \in Versions /\ failures \in 0 .. MaxFailures
    BY DEF LifecycleInv, LifecycleTypeOK
  <1>2. UNCHANGED <<file, changes, asked>> /\ failures' \in 0 .. MaxFailures
    BY FailureBound DEF LifecycleInv, Startup, LoadIfThere, LoadFails, StartWatcher, BindMetrics,
                        FirstUpdate, StartScheduler, StartupFails
  <1>3. /\ agent.spoe => agent.run = "select"
        /\ agent.notice => agent.watching
        /\ file.version <= changes /\ changes \in Nat /\ asked \in BOOLEAN
    BY DEF LifecycleInv, LifecycleTypeOK
  <1>4. ASSUME agent' \in Agents, agent'.spoe => agent.spoe /\ agent'.run = "select",
               agent'.notice => agent.notice, agent.watching => agent'.watching
        PROVE  LifecycleTypeOK' /\ FileInv'
    BY <1>1, <1>2, <1>3, <1>4 DEF LifecycleInv, LifecycleTypeOK, FileInv
  <1>5. CASE LoadIfThere
    <2>1. /\ agent' \in Agents /\ agent'.run = "watch" /\ agent'.served = file.version
          /\ agent'.update = agent.update
          /\ agent'.watching = agent.watching /\ agent'.notice = agent.notice
          /\ agent'.spoe = agent.spoe /\ agent.run = "load"
      BY <1>1, <1>5 DEF LoadIfThere, Agents, Versions
    <2>2. OrderInv' /\ NoticeInv'
      BY <1>2, <2>1 DEF LifecycleInv, OrderInv, NoticeInv
    <2>3. EmptyInv'
      BY <1>2, <2>1 DEF LifecycleInv, OrderInv, EmptyInv, FileInv
    <2> QED BY <1>3, <1>4, <2>1, <2>2, <2>3 DEF LifecycleInv
  <1>6. CASE LoadFails \/ StartupFails
    <2>1. /\ agent' \in Agents /\ agent'.run = "runtime"
          /\ agent'.update = agent.update
          /\ agent'.watching = agent.watching /\ agent'.notice = agent.notice
          /\ agent'.spoe = agent.spoe /\ agent'.served = agent.served /\ agent'.missed = agent.missed
      BY <1>1, <1>6 DEF LoadFails, StartupFails, Returned, Agents
    <2>2. agent.run \in {"load", "watch", "metrics", "schedule"}
      BY <1>6 DEF LoadFails, StartupFails
    <2>3. OrderInv' /\ NoticeInv' /\ EmptyInv'
      BY <1>2, <2>1 DEF LifecycleInv, OrderInv, NoticeInv, EmptyInv
    <2> QED BY <1>3, <1>4, <2>1, <2>2, <2>3 DEF LifecycleInv
  <1>7. CASE StartWatcher
    <2>1. /\ agent' \in Agents /\ agent'.run = "metrics" /\ agent'.watching = TRUE
          /\ agent'.update = agent.update
          /\ agent'.notice = agent.notice /\ agent'.spoe = agent.spoe
          /\ agent'.served = agent.served /\ agent'.missed = agent.missed
          /\ agent'.meddled = agent.meddled /\ agent.run = "watch"
      BY <1>1, <1>7 DEF StartWatcher, Agents
    <2>2. OrderInv' /\ NoticeInv'
      BY <1>2, <2>1 DEF LifecycleInv, OrderInv, NoticeInv
    <2>3. EmptyInv'
      BY <1>2, <2>1 DEF LifecycleInv, EmptyInv
    <2> QED BY <1>3, <1>4, <2>1, <2>2, <2>3 DEF LifecycleInv
  <1>8. CASE BindMetrics \/ FirstUpdate
    <2>1. /\ agent' \in Agents /\ agent'.watching = agent.watching
          /\ agent'.notice = agent.notice /\ agent'.spoe = agent.spoe
          /\ agent'.served = agent.served /\ agent'.missed = agent.missed
          /\ agent'.meddled = agent.meddled
          /\ \/ agent.run = "metrics" /\ agent'.run = "updater" /\ agent'.update = agent.update
             \/ agent.run = "updater" /\ agent'.run = "update" /\ agent'.update = "fetch"
      <3>1. CASE BindMetrics
        BY <1>1, <3>1 DEF BindMetrics, Agents
      <3>2. CASE FirstUpdate
        BY <1>1, <3>2 DEF FirstUpdate, Agents
      <3> QED BY <1>8, <3>1, <3>2
    <2>2. agent.update = "none"
      BY <2>1 DEF LifecycleInv, OrderInv
    <2>3. OrderInv' /\ NoticeInv' /\ EmptyInv'
      BY <1>2, <2>1, <2>2 DEF LifecycleInv, OrderInv, NoticeInv, EmptyInv
    <2>4. ~agent'.spoe
      BY <1>3, <2>1
    <2> QED BY <1>3, <1>4, <2>1, <2>3, <2>4 DEF LifecycleInv
  <1>9. CASE StartScheduler
    <2>1. /\ agent' \in Agents /\ agent'.run = "select"
          /\ agent'.update = agent.update
          /\ agent'.watching = agent.watching /\ agent'.notice = agent.notice
          /\ agent'.spoe = agent.spoe /\ agent'.served = agent.served
          /\ agent'.missed = agent.missed /\ agent'.meddled = agent.meddled
          /\ agent.run = "schedule"
      BY <1>1, <1>9 DEF StartScheduler, Goes, Agents
    <2>2. OrderInv' /\ NoticeInv'
      BY <1>2, <2>1 DEF LifecycleInv, OrderInv, NoticeInv
    <2>3. EmptyInv'
      BY <1>2, <2>1 DEF LifecycleInv, EmptyInv
    <2> QED BY <1>3, <1>4, <2>1, <2>2, <2>3 DEF LifecycleInv
  <1> QED BY <1>5, <1>6, <1>7, <1>8, <1>9 DEF Startup

(* An update that ends changes where run() stands, and nothing else.       *)
LEMMA EndedAgent ==
    ASSUME NEW p \in Agents, NEW ok \in BOOLEAN
    PROVE  LET ended == UpdateEnded(p, ok) IN
           /\ ended \in Agents /\ ended.update = "none"
           /\ ended.run = IF p.run # "update" THEN p.run ELSE IF ok THEN "schedule" ELSE "runtime"
           /\ ended.spoe = p.spoe /\ ended.watching = p.watching
           /\ ended.notice = p.notice /\ ended.missed = p.missed /\ ended.served = p.served
           /\ ended.meddled = p.meddled
  BY DEF UpdateEnded, Returned, Agents

(* run_update on its thread; the first update decides how run() goes on.   *)
LEMMA UpdateKeeps ==
    ASSUME LifecycleInv, clone' \in CloneStates, barren' \in BOOLEAN,
           CronTick \/ Update
    PROVE  LifecycleInv'
  <1>1. agent \in Agents /\ file \in Versions /\ changes \in Nat
    BY DEF LifecycleInv, LifecycleTypeOK
  <1>2. asked' = asked /\ failures' \in 0 .. MaxFailures
    BY FailureBound DEF LifecycleInv, CronTick, Update, UpToDate, Outdated, FetchHangs, Reset,
                        Build, ReloadRebuilt, UpdateFails
  <1>3. /\ agent' \in Agents /\ agent'.spoe = agent.spoe /\ agent'.watching = agent.watching
       
        /\ agent'.notice = agent.notice \/ (agent.watching /\ agent'.notice)
        /\ agent.run # "update" => agent'.run = agent.run
        /\ agent.run = "update" => agent'.run \in {"update", "schedule", "runtime"}
    <2>1. CASE CronTick \/ Outdated \/ FetchHangs \/ Reset
      BY <1>1, <2>1 DEF CronTick, Outdated, FetchHangs, Reset, Agents
    <2>2. CASE UpToDate \/ UpdateFails
      <3>1. \E ok \in BOOLEAN : agent' = UpdateEnded(agent, ok)
        BY <2>2 DEF UpToDate, UpdateFails
      <3> QED BY <1>1, <3>1, EndedAgent
    <2>3. CASE Build
      <3>1. [Told EXCEPT !.update = "reload"] \in Agents
        BY <1>1, ToldAgent DEF Agents
      <3> QED BY <1>1, <2>3, <3>1 DEF Build, Told, Agents
    <2>4. CASE ReloadRebuilt
      <3> DEFINE p == [agent EXCEPT !.served = file.version, !.missed = FALSE]
      <3>1. /\ p \in Agents /\ p.spoe = agent.spoe /\ p.watching = agent.watching /\ p.run = agent.run
            /\ p.notice = agent.notice
        BY <1>1 DEF Agents, Versions
      <3>2. agent' = UpdateEnded(p, TRUE)
        BY <2>4 DEF ReloadRebuilt
      <3> HIDE DEF p
      <3> QED BY <3>1, <3>2, EndedAgent
    <2> QED BY <2>1, <2>2, <2>3, <2>4 DEF Update
  <1>4. /\ file' \in Versions /\ changes' \in Nat /\ (file'.version <= changes')
        /\ (file'.version = 0 => file' = NoFile)
    <2>1. CASE Build
      BY <1>1, <2>1 DEF Build, Versions
    <2>2. CASE ~Build
      <3>1. UNCHANGED <<file, changes>>
        BY <2>2 DEF CronTick, Update, UpToDate, Outdated, FetchHangs, Reset, ReloadRebuilt, UpdateFails
      <3> QED BY <1>1, <3>1 DEF LifecycleInv, LifecycleTypeOK, FileInv
    <2> QED BY <2>1, <2>2
  <1>5. LifecycleTypeOK'
    <2>1. (agent.spoe => agent.run = "select") /\ (agent.notice => agent.watching) /\ asked \in BOOLEAN
      BY DEF LifecycleInv, LifecycleTypeOK
    <2> QED BY <1>2, <1>3, <1>4, <2>1 DEF LifecycleTypeOK
  <1>6. OrderInv'
    <2>1. CASE CronTick
      <3>1. agent'.run = agent.run /\ agent.run \in {"select", "scheduler"}
        BY <1>1, <2>1 DEF CronTick, Agents
      <3> QED BY <1>3, <3>1 DEF LifecycleInv, OrderInv
    <2>2. CASE Update
      <3>1. agent.update # "none"
        BY <2>2 DEF Update, UpToDate, Outdated, Fetched, FetchHangs, Reset, Build, ReloadRebuilt,
                    UpdateFails
      <3>2. agent.run \notin {"load", "watch", "metrics", "updater", "exited"}
        BY <3>1 DEF LifecycleInv, OrderInv
      <3> QED BY <1>3, <3>2 DEF OrderInv
    <2> QED BY <2>1, <2>2
  <1>7. NoticeInv'
    <2>1. CASE CronTick \/ Outdated \/ FetchHangs \/ Reset
      BY <1>1, <2>1 DEF CronTick, Outdated, FetchHangs, Reset, LifecycleInv, NoticeInv, Agents
    <2>2. CASE UpToDate \/ UpdateFails
      <3>1. file' = file /\ \E ok \in BOOLEAN : agent' = UpdateEnded(agent, ok)
        BY <2>2 DEF UpToDate, UpdateFails
      <3>2. /\ agent'.run = "watch" => agent.run = "watch"
            /\ agent'.watching = agent.watching /\ agent'.served = agent.served
            /\ agent'.notice = agent.notice /\ agent'.missed = agent.missed
        BY <1>1, <3>1, EndedAgent
      <3> QED BY <3>1, <3>2 DEF LifecycleInv, NoticeInv
    <2>3. CASE Build
      <3>1. agent'.notice \/ agent'.missed
        BY <1>1, <2>3, ToldAgent DEF Build, Agents
      <3> QED BY <3>1 DEF NoticeInv
    <2>4. CASE ReloadRebuilt
      <3> DEFINE p == [agent EXCEPT !.served = file.version, !.missed = FALSE]
      <3>1. p \in Agents /\ p.served = file.version
        BY <1>1 DEF Agents, Versions
      <3>2. agent' = UpdateEnded(p, TRUE) /\ file' = file
        BY <2>4 DEF ReloadRebuilt
      <3> HIDE DEF p
      <3>3. agent'.served = file'.version
        BY <3>1, <3>2, EndedAgent
      <3> QED BY <3>3 DEF NoticeInv
    <2> QED BY <2>1, <2>2, <2>3, <2>4 DEF Update
  <1>8. EmptyInv'
    <2> SUFFICES ASSUME agent'.run \in {"watch", "metrics", "updater", "update", "schedule", "select"},
                        agent'.served = 0, ~agent'.meddled
                 PROVE  /\ agent'.run \in {"watch", "metrics", "updater", "update"}
                        /\ IF agent'.update = "reload" THEN file'.version # 0 ELSE file' = NoFile
      BY DEF EmptyInv
    <2>1. CASE CronTick
      BY <1>1, <2>1 DEF CronTick, LifecycleInv, EmptyInv, Agents
    <2>2. CASE UpToDate
      BY <1>1, <2>2 DEF UpToDate, Fetched, UpdateEnded, LifecycleInv, OrderInv, EmptyInv, Agents, NoFile
    <2>3. CASE Outdated \/ FetchHangs \/ Reset
      <3>1. /\ agent'.run = agent.run /\ agent'.served = agent.served /\ agent'.meddled = agent.meddled
            /\ file' = file
        BY <1>1, <2>3 DEF Outdated, FetchHangs, Reset, Agents
      <3>2. agent.update # "reload" /\ agent'.update # "reload"
        BY <1>1, <2>3 DEF Outdated, Fetched, FetchHangs, Reset, Agents
      <3> QED BY <3>1, <3>2 DEF LifecycleInv, EmptyInv
    <2>4. CASE Build
      <3>1. /\ agent'.run = agent.run /\ agent'.served = agent.served /\ agent'.meddled = agent.meddled
            /\ agent'.update = "reload" /\ file'.version # 0
        BY <1>1, <2>4 DEF Build, Told, Agents
      <3> QED BY <3>1 DEF LifecycleInv, EmptyInv
    <2>5. CASE ReloadRebuilt
      <3>1. agent'.served = file.version /\ file # NoFile
        BY <1>1, <2>5 DEF ReloadRebuilt, UpdateEnded, Agents, NoFile
      <3> QED BY <3>1 DEF LifecycleInv, FileInv
    <2>6. CASE UpdateFails
      <3>1. agent.run # "update"
        BY <1>1, <2>6 DEF UpdateFails, UpdateEnded, Returned, Agents
      <3>2. agent'.run = agent.run /\ agent'.served = agent.served /\ agent'.meddled = agent.meddled
            /\ agent.update # "none"
        BY <1>1, <2>6, <3>1 DEF UpdateFails, UpdateEnded, Agents
      <3> QED BY <3>1, <3>2 DEF LifecycleInv, OrderInv, EmptyInv
    <2> QED BY <2>1, <2>2, <2>3, <2>4, <2>5, <2>6 DEF Update
  <1> QED BY <1>4, <1>5, <1>6, <1>7, <1>8 DEF LifecycleInv, FileInv

(* Reloads by the watch loop, and the accept loop of the metrics.          *)
LEMMA LoopsKeep ==
    ASSUME LifecycleInv, clone' \in CloneStates, barren' \in BOOLEAN,
           WatchLoop \/ AcceptFails \/ AcceptAgain
    PROVE  LifecycleInv'
  <1>1. agent \in Agents /\ file \in Versions
    BY DEF LifecycleInv, LifecycleTypeOK
  <1>2. UNCHANGED <<file, changes, asked>> /\ failures' \in 0 .. MaxFailures
    BY FailureBound DEF LifecycleInv, WatchLoop, WatcherReloads, WatcherReloadFails, AcceptFails,
                        AcceptAgain
  <1>3. /\ agent' \in Agents /\ agent'.spoe = agent.spoe /\ agent'.run = agent.run
        /\ agent'.watching = agent.watching /\ (agent'.notice => agent.notice)
    <2>1. CASE WatcherReloads
      BY <1>1, <2>1 DEF WatcherReloads, Agents, Versions
    <2>2. CASE WatcherReloadFails
      <3>1. file.usable \in BOOLEAN /\ agent' = [agent EXCEPT !.notice = FALSE, !.missed = file.usable]
        BY <1>1, <2>2 DEF WatcherReloadFails, Versions
      <3> QED BY <1>1, <3>1 DEF Agents
    <2>3. CASE AcceptFails
      BY <1>1, <2>3 DEF AcceptFails, Agents
    <2>4. CASE AcceptAgain
      BY <1>1, <2>4 DEF AcceptAgain, Agents
    <2> QED BY <2>1, <2>2, <2>3, <2>4 DEF WatchLoop
  <1>4. LifecycleTypeOK'
    BY <1>1, <1>2, <1>3 DEF LifecycleInv, LifecycleTypeOK
  <1>5. OrderInv' /\ NoticeInv'
    <2>1. CASE WatcherReloads
      <3>1. agent'.update = agent.update /\ agent'.served = file.version
        BY <1>1, <2>1 DEF WatcherReloads, Agents, Versions
      <3> QED BY <1>2, <1>3, <3>1 DEF LifecycleInv, OrderInv, NoticeInv
    <2>2. CASE WatcherReloadFails
      <3>1. agent'.update = agent.update /\ agent'.missed = file.usable
        BY <1>1, <2>2 DEF WatcherReloadFails, Agents, Versions
      <3> QED BY <1>2, <1>3, <3>1 DEF LifecycleInv, OrderInv, NoticeInv
    <2>3. CASE AcceptFails \/ AcceptAgain
      <3>1. agent'.update = agent.update /\ agent'.served = agent.served /\ agent'.missed = agent.missed /\ agent'.notice = agent.notice
        BY <1>1, <2>3 DEF AcceptFails, AcceptAgain, Agents
      <3> QED BY <1>2, <1>3, <3>1 DEF LifecycleInv, OrderInv, NoticeInv
    <2> QED BY <2>1, <2>2, <2>3 DEF WatchLoop
  <1>6. EmptyInv'
    <2>1. CASE WatcherReloads
      <3>1. agent'.served = file.version /\ file # NoFile
        BY <1>1, <2>1 DEF WatcherReloads, Agents, NoFile
      <3> QED BY <3>1 DEF LifecycleInv, FileInv, EmptyInv
    <2>2. CASE WatcherReloadFails \/ AcceptFails \/ AcceptAgain
      BY <1>1, <2>2 DEF LifecycleInv, EmptyInv, WatcherReloadFails, AcceptFails, AcceptAgain, Agents
    <2> QED BY <2>1, <2>2 DEF WatchLoop
  <1> QED BY <1>2, <1>4, <1>5, <1>6 DEF LifecycleInv, FileInv

(* The select! and the shutdown.                                           *)
LEMMA ServeKeeps ==
    ASSUME LifecycleInv, clone' \in CloneStates, barren' \in BOOLEAN,
           Serve \/ BranchFails \/ Shutdown
    PROVE  LifecycleInv'
  <1>1. agent \in Agents /\ file \in Versions
    BY DEF LifecycleInv, LifecycleTypeOK
  <1>2. UNCHANGED <<file, changes, asked>> /\ failures' \in 0 .. MaxFailures
    BY FailureBound DEF LifecycleInv, Serve, BindSpoe, InstallHandlers, BranchFails, Shutdown,
                        ShutdownSignal, StopScheduler, StopWatcher, DropTasks, ShutdownRuntime
  <1>3. /\ agent.spoe => agent.run = "select"
        /\ agent.notice => agent.watching
        /\ file.version <= changes /\ changes \in Nat /\ asked \in BOOLEAN
    BY DEF LifecycleInv, LifecycleTypeOK
  <1>4. ASSUME agent' \in Agents, agent'.spoe => agent'.run = "select", agent'.notice => agent'.watching
        PROVE  LifecycleTypeOK' /\ FileInv'
    BY <1>1, <1>2, <1>3, <1>4 DEF LifecycleInv, LifecycleTypeOK, FileInv
  <1>5. CASE Serve
    <2>1. /\ agent' \in Agents /\ agent'.run = "select" /\ agent.run = "select"
          /\ agent'.update = agent.update
          /\ agent'.watching = agent.watching /\ agent'.notice = agent.notice
          /\ agent'.served = agent.served /\ agent'.missed = agent.missed
          /\ agent'.meddled = agent.meddled
      <3>1. CASE BindSpoe
        BY <1>1, <3>1 DEF BindSpoe, Agents
      <3>2. CASE InstallHandlers
        BY <1>1, <3>2 DEF InstallHandlers, Agents
      <3> QED BY <1>5, <3>1, <3>2 DEF Serve
    <2>2. OrderInv' /\ NoticeInv'
      BY <1>2, <2>1 DEF LifecycleInv, OrderInv, NoticeInv
    <2>3. EmptyInv'
      BY <1>2, <2>1 DEF LifecycleInv, EmptyInv
    <2> QED BY <1>3, <1>4, <2>1, <2>2, <2>3 DEF LifecycleInv
  <1>6. CASE BranchFails \/ ShutdownSignal
    <2>1. PICK how \in {"ok", "error"} : SelectEnds(how)
      <3>1. SelectEnds("ok") \/ SelectEnds("error")
        BY <1>6 DEF BranchFails, ShutdownSignal
      <3> QED BY <3>1
    <2>2. /\ agent' \in Agents /\ agent'.run = "scheduler" /\ agent.run = "select"
          /\ agent'.update = agent.update
          /\ agent'.watching = agent.watching /\ agent'.notice = agent.notice
          /\ agent'.served = agent.served /\ agent'.missed = agent.missed
          /\ agent'.spoe = FALSE
      BY <1>1, <2>1 DEF SelectEnds, Agents
    <2>3. OrderInv' /\ NoticeInv' /\ EmptyInv'
      BY <1>2, <2>2 DEF LifecycleInv, OrderInv, NoticeInv, EmptyInv
    <2> QED BY <1>3, <1>4, <2>2, <2>3 DEF LifecycleInv
  <1>7. CASE StopScheduler
    <2>1. /\ agent' \in Agents /\ agent'.run = "watcher" /\ agent.run = "scheduler"
          /\ agent'.update = agent.update
          /\ agent'.watching = agent.watching /\ agent'.notice = agent.notice
          /\ agent'.served = agent.served /\ agent'.missed = agent.missed
          /\ agent'.spoe = agent.spoe
      BY <1>1, <1>7 DEF StopScheduler, Goes, Agents
    <2>2. OrderInv' /\ NoticeInv' /\ EmptyInv'
      BY <1>2, <2>1 DEF LifecycleInv, OrderInv, NoticeInv, EmptyInv
    <2> QED BY <1>3, <1>4, <2>1, <2>2 DEF LifecycleInv
  <1>8. CASE StopWatcher \/ DropTasks
    <2>1. /\ agent' \in Agents /\ agent.run \in {"watcher", "runtime"}
          /\ agent'.run \in {"runtime", "timeout"}
          /\ agent'.watching = FALSE /\ agent'.notice = FALSE /\ agent'.spoe = agent.spoe
      <3>1. CASE StopWatcher
        BY <1>1, <3>1 DEF StopWatcher, Agents
      <3>2. CASE DropTasks
        BY <1>1, <3>2 DEF DropTasks, Agents
      <3> QED BY <1>8, <3>1, <3>2
    <2>2. OrderInv' /\ NoticeInv' /\ EmptyInv'
      BY <1>2, <2>1 DEF LifecycleInv, OrderInv, NoticeInv, EmptyInv
    <2>3. ~agent'.spoe
      BY <1>3, <2>1
    <2> QED BY <1>3, <1>4, <2>1, <2>2, <2>3 DEF LifecycleInv
  <1>9. CASE ShutdownRuntime
    <2>1. agent' = Exited(agent.status) /\ agent.status \in {"none", "ok", "error", "killed"}
      BY <1>1, <1>9 DEF ShutdownRuntime, Ends, Agents
    <2>2. /\ agent' \in Agents /\ agent'.run = "exited" /\ agent'.update = "none"
          /\ ~agent'.spoe /\ ~agent'.notice /\ ~agent'.watching
      BY <2>1, ExitedAgent
    <2>3. OrderInv' /\ NoticeInv' /\ EmptyInv'
      BY <1>2, <2>2 DEF OrderInv, NoticeInv, EmptyInv
    <2> QED BY <1>3, <1>4, <2>2, <2>3 DEF LifecycleInv
  <1> QED BY <1>5, <1>6, <1>7, <1>8, <1>9 DEF Shutdown

-----------------------------------------------------------------------------
(* The theorems.                                                           *)

(* The order of start-up, the notices and the empty start, together.       *)
THEOREM LifecycleInvariant == Spec => []LifecycleInv
  <1>1. Init => LifecycleInv
    BY InitKeeps
  <1>2. LifecycleInv /\ [Next]_vars => LifecycleInv'
    <2>1. ASSUME LifecycleInv, UNCHANGED vars
          PROVE  LifecycleInv'
      BY <2>1 DEF vars, LifecycleInv, LifecycleTypeOK, FileInv, OrderInv, NoticeInv, EmptyInv
    <2> QED
      <3>1. ASSUME LifecycleInv, Next
            PROVE  LifecycleInv'
        <4>1. clone' \in CloneStates /\ barren' \in BOOLEAN
          BY <3>1, CloneTypes DEF LifecycleInv
        <4> QED
          BY <3>1, <4>1, FileKeeps, ProcessKeeps, StartupKeeps, UpdateKeeps, LoopsKeep, ServeKeeps
             DEF Next
      <3> QED BY <2>1, <3>1
  <1> QED BY <1>1, <1>2, PTL DEF Spec

(* The variables of the process keep their types.                          *)
THEOREM LifecycleTypeCorrect == Spec => []LifecycleTypeOK
  <1>1. LifecycleInv => LifecycleTypeOK
    BY DEF LifecycleInv
  <1> QED BY <1>1, LifecycleInvariant, PTL

(* main.rs opens the SPOE listener without a database only when an         *)
(* operator changed the file during start-up.                              *)
THEOREM ListensWithDatabaseCorrect == Spec => []ListensWithDatabase
  <1>1. LifecycleInv => ListensWithDatabase
    BY DEF LifecycleInv, LifecycleTypeOK, EmptyInv, ListensWithDatabase
  <1> QED BY <1>1, LifecycleInvariant, PTL

(* What the watch of main.rs loses is what came before it, or what a       *)
(* failing reload consumed.                                                *)
THEOREM BehindIsExplainedCorrect == Spec => []BehindIsExplained
  <1>1. LifecycleInv => BehindIsExplained
    BY DEF LifecycleInv, NoticeInv, BehindIsExplained
  <1> QED BY <1>1, LifecycleInvariant, PTL
=============================================================================
