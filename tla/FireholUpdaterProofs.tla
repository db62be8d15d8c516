------------------------ MODULE FireholUpdaterProofs ------------------------
(***************************************************************************)
(* Safety of the updater, for any number of runs, commits, seconds and     *)
(* faults: the database in place is whole, of one commit and only goes     *)
(* forward, no temporary file is forgotten, and the updater implements     *)
(* DatabaseFile.                                                           *)
(***************************************************************************)
EXTENDS FireholUpdater, SequenceTheorems, TLAPS

USE RunAssumption, UpdaterBoundAssumption

Outside == {"idle", "try_lock"}
OnTip == {"checkout", "reset", "parse", "create", "write", "sync", "rename"}
OnParsed == {"create", "write", "sync", "rename"}

(* No commit was made after now.                                           *)
UpstreamInv ==
    /\ \A c \in 1 .. Upstream : commits[c].time <= now
    /\ remote \in 0 .. Upstream

(* A file that may be at MMDB_PATH: none, or a whole and synced database   *)
(* of one commit, which was made before the file.                          *)
Database(file) ==
    \/ file = Absent
    \/ /\ file.whole /\ file.synced
       /\ file.epoch = file.commit /\ file.commit \in 1 .. Upstream
       /\ commits[file.commit].networks
       /\ commits[file.commit].time <= file.mtime

FilesInv == Database(mmdb) /\ Database(onDisk)

(* What the run that holds update_lock knows at each step: its tip is      *)
(* newer than the database, the working tree and the parsed networks are   *)
(* those of the tip, and so is the temporary file.                         *)
RunInv(r) ==
    /\ pc[r] = "compare" => remote # NoCommit
    /\ pc[r] \in OnTip =>
          /\ tip[r] \in 1 .. Upstream
          /\ mmdb # Absent => commits[tip[r]].time > commits[mmdb.commit].time
    /\ pc[r] = "parse" => worktree = tip[r]
    /\ pc[r] \in OnParsed => parsed[r] = tip[r] /\ commits[tip[r]].networks
    /\ pc[r] \in {"sync", "rename"} =>
          /\ tmp.whole /\ tmp.commit = tip[r] /\ tmp.epoch = tip[r]
          /\ commits[tip[r]].time <= tmp.mtime
    /\ pc[r] = "rename" => tmp.synced

UpdaterInv ==
    UpdaterTypeOK /\ UpstreamInv /\ FilesInv /\ (\A r \in Runs : RunInv(r)) /\ NoTempLeft

-----------------------------------------------------------------------------
(* There is no file and no run.                                            *)
LEMMA InitKeeps ==
    ASSUME Init
    PROVE  UpdaterInv
  <1>1. Absent \in File
    BY DEF Absent, File, Commit, NoCommit
  <1>2. commits \in Seq([time : 1 .. MaxTime, networks : BOOLEAN]) /\ Len(commits) = 0
    BY DEF Init
  <1>3. UpdaterTypeOK
    <2>1. 0 \in 0 .. MaxFaults /\ 1 \in 1 .. MaxTime /\ 0 <= MaxCommits /\ 0 \in Commit
      BY DEF Commit
    <2>2. now \in 1 .. MaxTime /\ faults \in 0 .. MaxFaults /\ remote \in Commit /\ worktree \in Commit
      BY <2>1 DEF Init, NoCommit
    <2>3. pc \in [Runs -> ControlPoints] /\ \A r \in Runs : pc[r] = "idle"
      BY DEF Init, ControlPoints
    <2>4. tip \in [Runs -> Commit] /\ parsed \in [Runs -> Commit]
      BY <2>1 DEF Init, NoCommit
    <2> QED BY <1>1, <1>2, <2>1, <2>2, <2>3, <2>4 DEF Init, UpdaterTypeOK, Upstream, CloneStates
  <1>4. UpstreamInv /\ FilesInv
    BY <1>2 DEF Init, UpstreamInv, FilesInv, Database, Upstream, NoCommit
  <1>5. (\A r \in Runs : RunInv(r)) /\ NoTempLeft
    BY DEF Init, RunInv, NoTempLeft, OnTip, OnParsed
  <1> QED BY <1>3, <1>4, <1>5 DEF UpdaterInv

(* Commits have times within the bound.                                    *)
LEMMA CommitTypes ==
    ASSUME UpdaterInv
    PROVE  /\ Upstream \in Nat
           /\ \A c \in 1 .. Upstream : commits[c].time \in 1 .. MaxTime /\ commits[c].networks \in BOOLEAN
  <1>1. commits \in Seq([time : 1 .. MaxTime, networks : BOOLEAN])
    BY DEF UpdaterInv, UpdaterTypeOK
  <1>2. \A c \in 1 .. Len(commits) : commits[c] \in [time : 1 .. MaxTime, networks : BOOLEAN]
    BY <1>1, ElementOfSeq
  <1> QED BY <1>1, <1>2 DEF Upstream

(* A push adds a commit and leaves the others.                             *)
LEMMA PushedCommits ==
    ASSUME UpdaterInv, Push
    PROVE  /\ commits' \in Seq([time : 1 .. MaxTime, networks : BOOLEAN])
           /\ Upstream \in Nat /\ Upstream' = Upstream + 1 /\ Upstream' <= MaxCommits
           /\ \A c \in 1 .. Upstream : commits'[c] = commits[c] /\ c \in 1 .. Upstream'
           /\ commits'[Upstream'].time <= now
  <1>1. /\ commits \in Seq([time : 1 .. MaxTime, networks : BOOLEAN]) /\ now \in 1 .. MaxTime
        /\ Upstream \in Nat
    BY DEF UpdaterInv, UpdaterTypeOK, Upstream
  <1>2. PICK time \in 1 .. now, networks \in BOOLEAN :
          commits' = Append(commits, [time |-> time, networks |-> networks])
    BY DEF Push
  <1>3. [time |-> time, networks |-> networks] \in [time : 1 .. MaxTime, networks : BOOLEAN]
    BY <1>1, <1>2
  <1> QED BY <1>1, <1>2, <1>3 DEF Push, Upstream

(* The clock, publications, operators and the kernel.                      *)
LEMMA WorldKeeps ==
    ASSUME UpdaterInv, Tick \/ Push \/ Touch \/ RemoveMmdb \/ WriteBack
    PROVE  UpdaterInv'
  <1>1. /\ now \in 1 .. MaxTime /\ mmdb \in File /\ onDisk \in File
        /\ Upstream \in Nat /\ \A c \in 1 .. Upstream : commits[c].time \in 1 .. MaxTime
    BY CommitTypes DEF UpdaterInv, UpdaterTypeOK
  <1>2. CASE Tick
    <2>1. UpdaterTypeOK'
      BY <1>1, <1>2 DEF Tick, UpdaterInv, UpdaterTypeOK, cloneVars, fileVars, runVars, Upstream
    <2>2. UpstreamInv' /\ FilesInv'
      BY <1>1, <1>2 DEF Tick, UpdaterInv, UpstreamInv, FilesInv, Database, cloneVars, fileVars, Upstream
    <2>3. (\A r \in Runs : RunInv(r)') /\ NoTempLeft'
      BY <1>2 DEF Tick, UpdaterInv, RunInv, NoTempLeft, Writing, cloneVars, fileVars, runVars, Upstream
    <2> QED BY <2>1, <2>2, <2>3 DEF UpdaterInv
  <1>3. CASE Push
    <2>1. UNCHANGED <<now, cloneVars, fileVars, runVars, process, faults>>
      BY <1>3 DEF Push
    <2>2. UpdaterTypeOK'
      BY <1>3, <2>1, PushedCommits DEF UpdaterInv, UpdaterTypeOK, cloneVars, fileVars, runVars
    <2>3. UpstreamInv'
      <3>1. \A c \in 1 .. Upstream' : c \in 1 .. Upstream \/ c = Upstream'
        BY <1>3, PushedCommits
      <3>2. \A c \in 1 .. Upstream' : commits'[c].time <= now
        BY <1>3, <3>1, PushedCommits DEF UpdaterInv, UpstreamInv
      <3>3. remote \in 0 .. Upstream'
        BY <1>3, PushedCommits DEF UpdaterInv, UpstreamInv
      <3> QED BY <2>1, <3>2, <3>3 DEF UpstreamInv, cloneVars
    <2>4. FilesInv'
      BY <1>3, <2>1, PushedCommits DEF UpdaterInv, FilesInv, Database, fileVars
    <2>5. \A r \in Runs : RunInv(r)'
      <3> SUFFICES ASSUME NEW r \in Runs PROVE RunInv(r)'
        OBVIOUS
      <3>1. mmdb # Absent => commits'[mmdb.commit] = commits[mmdb.commit]
        BY <1>3, PushedCommits DEF UpdaterInv, FilesInv, Database
      <3>2. tip[r] \in 1 .. Upstream => commits'[tip[r]] = commits[tip[r]] /\ tip[r] \in 1 .. Upstream'
        BY <1>3, PushedCommits
      <3>3. RunInv(r)
        BY DEF UpdaterInv
      <3> QED BY <2>1, <3>1, <3>2, <3>3 DEF RunInv, OnTip, OnParsed, cloneVars, fileVars, runVars
    <2>6. NoTempLeft'
      BY <2>1 DEF UpdaterInv, NoTempLeft, Writing, fileVars, runVars
    <2> QED BY <2>2, <2>3, <2>4, <2>5, <2>6 DEF UpdaterInv
  <1>4. CASE Touch \/ RemoveMmdb
    <2>1. /\ mmdb # Absent /\ mmdb' \in {Absent, [mmdb EXCEPT !.mtime = now]}
          /\ UNCHANGED <<upstreamVars, cloneVars, tmp, onDisk, leftover, runVars, process, faults>>
      BY <1>4 DEF Touch, RemoveMmdb
    <2>2. mmdb' \in File /\ (mmdb' = Absent \/ mmdb' = [mmdb EXCEPT !.mtime = now])
      <3>1. Absent \in File
        BY DEF Absent, File, Commit, NoCommit
      <3>2. now \in 0 .. MaxTime
        BY <1>1
      <3>3. [mmdb EXCEPT !.mtime = now] \in File
        BY <1>1, <3>2 DEF File
      <3> QED BY <2>1, <3>1, <3>3
    <2>3. UpdaterTypeOK'
      BY <2>1, <2>2 DEF UpdaterInv, UpdaterTypeOK, upstreamVars, cloneVars, runVars, Upstream
    <2>4. mmdb' = Absent \/ mmdb'.commit = mmdb.commit
      BY <1>1, <2>2 DEF File
    <2>5. UpstreamInv' /\ FilesInv'
      <3>1. Database(mmdb')
        <4>1. Database(mmdb) /\ \A c \in 1 .. Upstream : commits[c].time <= now
          BY DEF UpdaterInv, FilesInv, UpstreamInv
        <4> QED BY <1>1, <2>1, <2>2, <4>1 DEF Database, File
      <3> QED
        BY <2>1, <3>1 DEF UpdaterInv, UpstreamInv, FilesInv, Database, upstreamVars, cloneVars, Upstream
    <2>6. (\A r \in Runs : RunInv(r)') /\ NoTempLeft'
      BY <2>1, <2>4 DEF UpdaterInv, RunInv, NoTempLeft, Writing, upstreamVars, cloneVars, runVars, Upstream
    <2> QED BY <2>3, <2>5, <2>6 DEF UpdaterInv
  <1>5. CASE WriteBack
    <2>1. UpdaterTypeOK'
      BY <1>5 DEF WriteBack, UpdaterInv, UpdaterTypeOK, upstreamVars, cloneVars, runVars, Upstream
    <2>2. UpstreamInv' /\ FilesInv'
      BY <1>5 DEF WriteBack, UpdaterInv, UpstreamInv, FilesInv, Database, upstreamVars, cloneVars, Upstream
    <2>3. (\A r \in Runs : RunInv(r)') /\ NoTempLeft'
      BY <1>5 DEF WriteBack, UpdaterInv, RunInv, NoTempLeft, Writing, upstreamVars, cloneVars, runVars,
                  Upstream
    <2> QED BY <2>1, <2>2, <2>3 DEF UpdaterInv
  <1> QED BY <1>2, <1>3, <1>4, <1>5

(* A restart, and the start of a run.                                      *)
LEMMA StartsKeep ==
    ASSUME UpdaterInv, Restart \/ \E r \in Runs : Start(r)
    PROVE  UpdaterInv'
  <1>1. UNCHANGED <<upstreamVars, cloneVars, fileVars, update_lock, tip, parsed, faults>>
    BY DEF Restart, Start, runVars
  <1>2. /\ pc' \in [Runs -> ControlPoints] /\ process' \in {"down", "starting", "serving"}
        /\ \A s \in Runs : pc'[s] # pc[s] => pc[s] = "idle" /\ pc'[s] = "try_lock"
    BY DEF UpdaterInv, UpdaterTypeOK, Restart, Start, runVars, ControlPoints
  <1>3. UpdaterTypeOK'
    BY <1>1, <1>2 DEF UpdaterInv, UpdaterTypeOK, upstreamVars, cloneVars, fileVars, Upstream
  <1>4. UpstreamInv' /\ FilesInv'
    BY <1>1 DEF UpdaterInv, UpstreamInv, FilesInv, Database, upstreamVars, cloneVars, fileVars, Upstream
  <1>5. \A r \in Runs : RunInv(r)'
    <2> SUFFICES ASSUME NEW r \in Runs PROVE RunInv(r)'
      OBVIOUS
    <2>1. pc'[r] = pc[r] \/ pc'[r] = "try_lock"
      BY <1>2
    <2> QED
      BY <1>1, <2>1 DEF UpdaterInv, RunInv, OnTip, OnParsed, upstreamVars, cloneVars, fileVars, Upstream
  <1>6. NoTempLeft'
    BY <1>1, <1>2 DEF UpdaterInv, NoTempLeft, Writing, fileVars
  <1> QED BY <1>3, <1>4, <1>5, <1>6 DEF UpdaterInv

(* A file that is whole and synced survives a power loss as it is.         *)
LEMMA SurvivesTypes ==
    ASSUME NEW file \in File
    PROVE  Survives(file) \in File /\ (Database(file) => Survives(file) = file)
  <1>1. [file EXCEPT !.whole = FALSE] \in File
    BY DEF File
  <1>2. Database(file) => file.synced
    BY DEF Database, Absent
  <1> QED BY <1>1, <1>2 DEF Survives

(* The process is killed, or the machine: no run is left.                  *)
LEMMA DeathKeeps ==
    ASSUME UpdaterInv, Kill \/ PowerLoss
    PROVE  UpdaterInv'
  <1>1. /\ mmdb \in File /\ tmp \in File /\ onDisk \in File /\ leftover \in BOOLEAN
        /\ Database(mmdb) /\ Database(onDisk)
    BY DEF UpdaterInv, UpdaterTypeOK, FilesInv
  <1>2. /\ mmdb' \in {mmdb, onDisk} /\ onDisk' \in {mmdb', onDisk} /\ tmp' \in File
        /\ leftover' = (leftover \/ tmp' # Absent)
    <2>1. CASE Kill
      BY <1>1, <2>1 DEF Kill
    <2>2. CASE PowerLoss
      BY <1>1, <2>2, SurvivesTypes DEF PowerLoss
    <2> QED BY <2>1, <2>2
  <1>3. Dies
    BY DEF Kill, PowerLoss
  <1>4. /\ UNCHANGED <<upstreamVars, remote, worktree>> /\ process' = "down"
        /\ update_lock' = Free /\ pc' = [r \in Runs |-> "idle"]
        /\ tip' = [r \in Runs |-> NoCommit] /\ parsed' = [r \in Runs |-> NoCommit]
        /\ faults < MaxFaults /\ faults' = faults + 1
    BY <1>3 DEF Dies, EndRuns, Fault
  <1>5. clone' \in CloneStates
    <2>1. clone \in CloneStates
      BY DEF UpdaterInv, UpdaterTypeOK
    <2> QED BY <1>3, <2>1 DEF Dies, CloneStates
  <1>6. UpdaterTypeOK'
    <2>1. faults' \in 0 .. MaxFaults
      BY <1>4 DEF UpdaterInv, UpdaterTypeOK
    <2>2. pc' \in [Runs -> ControlPoints] /\ \A r \in Runs : pc'[r] = "idle"
      BY <1>4 DEF ControlPoints
    <2>3. tip' \in [Runs -> Commit] /\ parsed' \in [Runs -> Commit]
      BY <1>4 DEF Commit, NoCommit
    <2>4. mmdb' \in File /\ onDisk' \in File /\ leftover' \in BOOLEAN
      BY <1>1, <1>2
    <2> QED
      BY <1>2, <1>4, <1>5, <2>1, <2>2, <2>3, <2>4 DEF UpdaterInv, UpdaterTypeOK, upstreamVars, Upstream
  <1>7. UpstreamInv' /\ FilesInv'
    BY <1>1, <1>2, <1>4 DEF UpdaterInv, UpstreamInv, FilesInv, Database, upstreamVars, Upstream
  <1>8. (\A r \in Runs : RunInv(r)') /\ NoTempLeft'
    BY <1>2, <1>4 DEF RunInv, NoTempLeft, OnTip, OnParsed
  <1> QED BY <1>6, <1>7, <1>8 DEF UpdaterInv

-----------------------------------------------------------------------------
(* The steps of a run.                                                     *)

(* A run past try_lock is alone there.                                     *)
LEMMA Alone ==
    ASSUME UpdaterInv, NEW r \in Runs, pc[r] \notin Outside
    PROVE  update_lock = r /\ \A s \in Runs \ {r} : pc[s] \in Outside
  BY DEF UpdaterInv, UpdaterTypeOK, Outside

(* What a step of one run changes for the others, and for itself: it goes  *)
(* on, or it is over.                                                      *)
LEMMA FailIsFinish ==
    ASSUME NEW r \in Runs, NEW certain \in BOOLEAN, Fail(r, certain)
    PROVE  Finish(r, FALSE) /\ (faults' = faults \/ Fault)
  BY DEF Fail

(* A run that is over leaves the lock and knows nothing.                   *)
LEMMA Finished ==
    ASSUME UpdaterInv, NEW r \in Runs, pc[r] \notin Outside, NEW ok \in BOOLEAN, Finish(r, ok),
           faults' = faults \/ Fault
    PROVE  /\ pc' \in [Runs -> ControlPoints] /\ \A s \in Runs : pc'[s] \in Outside
           /\ tip' \in [Runs -> Commit] /\ parsed' \in [Runs -> Commit]
           /\ process' \in {"down", "starting", "serving"} /\ faults' \in 0 .. MaxFaults
           /\ update_lock' = Free
  <1>1. \A s \in Runs \ {r} : pc[s] \in Outside
    BY Alone
  <1>2. pc' \in [Runs -> ControlPoints] /\ \A s \in Runs : pc'[s] \in Outside
    BY <1>1 DEF UpdaterInv, UpdaterTypeOK, Finish, ControlPoints, Outside
  <1>3. tip' \in [Runs -> Commit] /\ parsed' \in [Runs -> Commit]
    BY DEF UpdaterInv, UpdaterTypeOK, Finish, Commit, NoCommit
  <1>4. process' \in {"down", "starting", "serving"} /\ update_lock' = Free
    BY DEF UpdaterInv, UpdaterTypeOK, Finish
  <1>5. faults' \in 0 .. MaxFaults
    BY DEF UpdaterInv, UpdaterTypeOK, Fault
  <1> QED BY <1>2, <1>3, <1>4, <1>5

(* A run that ends without touching the files of the database.             *)
LEMMA EndKeeps ==
    ASSUME UpdaterInv, NEW r \in Runs, pc[r] \notin Outside, ~Writing(r),
           NEW ok \in BOOLEAN, Finish(r, ok), faults' = faults \/ Fault,
           UNCHANGED <<upstreamVars, remote, fileVars>>,
           clone' \in CloneStates, worktree' \in Commit
    PROVE  UpdaterInv'
  <1>1. /\ pc' \in [Runs -> ControlPoints] /\ \A s \in Runs : pc'[s] \in Outside
        /\ tip' \in [Runs -> Commit] /\ parsed' \in [Runs -> Commit]
        /\ process' \in {"down", "starting", "serving"} /\ faults' \in 0 .. MaxFaults
        /\ update_lock' = Free
    BY Finished
  <1>2. UpdaterTypeOK'
    BY <1>1 DEF UpdaterInv, UpdaterTypeOK, upstreamVars, fileVars, Upstream, Outside
  <1>3. UpstreamInv' /\ FilesInv'
    BY DEF UpdaterInv, UpstreamInv, FilesInv, Database, upstreamVars, fileVars, Upstream
  <1>4. \A s \in Runs : RunInv(s)'
    BY <1>1 DEF RunInv, OnTip, OnParsed, Outside
  <1>5. NoTempLeft'
    <2>1. \A s \in Runs : ~Writing(s)
      BY Alone DEF Writing, Outside
    <2> QED BY <2>1 DEF UpdaterInv, NoTempLeft, fileVars
  <1> QED BY <1>2, <1>3, <1>4, <1>5 DEF UpdaterInv

(* A run that goes on and does not touch the database in place.            *)
LEMMA ContinueKeeps ==
    ASSUME UpdaterInv, NEW r \in Runs, pc[r] \notin Outside, NEW point \in ControlPoints,
           Continue(r, point), UNCHANGED <<upstreamVars, mmdb, onDisk>>,
           clone' \in CloneStates, remote' \in 0 .. Upstream, worktree' \in Commit,
           tmp' \in File, leftover' \in BOOLEAN,
           tip' \in [Runs -> Commit], parsed' \in [Runs -> Commit],
           RunInv(r)', tmp' # Absent => leftover' \/ Writing(r)'
    PROVE  UpdaterInv'
  <1>1. update_lock = r /\ \A s \in Runs \ {r} : pc[s] \in Outside
    BY Alone
  <1>2. pc' \in [Runs -> ControlPoints] /\ \A s \in Runs \ {r} : pc'[s] \in Outside
    BY <1>1 DEF UpdaterInv, UpdaterTypeOK, Continue
  <1>3. remote' \in Commit
    BY DEF UpdaterInv, UpdaterTypeOK, Commit, Upstream
  <1>4. UpdaterTypeOK'
    BY <1>1, <1>2, <1>3 DEF UpdaterInv, UpdaterTypeOK, Continue, upstreamVars, Upstream, Outside
  <1>5. UpstreamInv' /\ FilesInv'
    BY DEF UpdaterInv, UpstreamInv, FilesInv, Database, upstreamVars, Upstream
  <1>6. \A s \in Runs : RunInv(s)'
    BY <1>2 DEF RunInv, OnTip, OnParsed, Outside
  <1>7. NoTempLeft'
    BY DEF NoTempLeft
  <1> QED BY <1>4, <1>5, <1>6, <1>7 DEF UpdaterInv

(* The typed parts that a run needs.                                       *)
LEMMA RunTypes ==
    ASSUME UpdaterInv
    PROVE  /\ Upstream \in Nat /\ Upstream <= MaxCommits /\ now \in 1 .. MaxTime
           /\ remote \in 0 .. Upstream /\ worktree \in Commit /\ clone \in CloneStates
           /\ tmp \in File /\ leftover \in BOOLEAN
           /\ tip \in [Runs -> Commit] /\ parsed \in [Runs -> Commit]
           /\ pc \in [Runs -> ControlPoints]
           /\ \A c \in 0 .. Upstream : c \in Commit
  BY DEF UpdaterInv, UpdaterTypeOK, UpstreamInv, Upstream, Commit

(* Taking update_lock, or leaving it to its holder.                        *)
LEMMA TryLockKeeps ==
    ASSUME UpdaterInv, NEW r \in Runs, TryLock(r) \/ AlreadyRunning(r)
    PROVE  UpdaterInv'
  <1>1. UNCHANGED <<upstreamVars, cloneVars, fileVars, tip, parsed, process, faults>>
    BY DEF TryLock, AlreadyRunning, Continue
  <1>2. pc' \in [Runs -> ControlPoints] /\ pc[r] = "try_lock" /\ pc'[r] \in {"open", "idle"}
        /\ \A s \in Runs \ {r} : pc'[s] = pc[s]
    BY DEF UpdaterInv, UpdaterTypeOK, TryLock, AlreadyRunning, Continue, ControlPoints
  <1>3. UpdaterTypeOK'
    <2>1. CASE TryLock(r)
      BY <1>1, <1>2, <2>1 DEF UpdaterInv, UpdaterTypeOK, TryLock, upstreamVars, cloneVars, fileVars,
                              Upstream
    <2>2. CASE AlreadyRunning(r)
      BY <1>1, <1>2, <2>2 DEF UpdaterInv, UpdaterTypeOK, AlreadyRunning, Continue, upstreamVars,
                              cloneVars, fileVars, Upstream
    <2> QED BY <2>1, <2>2
  <1>4. UpstreamInv' /\ FilesInv'
    BY <1>1 DEF UpdaterInv, UpstreamInv, FilesInv, Database, upstreamVars, cloneVars, fileVars, Upstream
  <1>5. \A s \in Runs : RunInv(s)'
    <2> SUFFICES ASSUME NEW s \in Runs PROVE RunInv(s)'
      OBVIOUS
    <2>1. pc'[s] = pc[s] \/ pc'[s] \in {"open", "idle"}
      BY <1>2
    <2> QED
      BY <1>1, <2>1 DEF UpdaterInv, RunInv, OnTip, OnParsed, upstreamVars, cloneVars, fileVars, Upstream
  <1>6. NoTempLeft'
    BY <1>1, <1>2 DEF UpdaterInv, NoTempLeft, Writing, fileVars
  <1> QED BY <1>3, <1>4, <1>5, <1>6 DEF UpdaterInv

(* A run that returns before it writes: errors, and nothing to do.         *)
LEMMA ReturnKeeps ==
    ASSUME UpdaterInv, NEW r \in Runs,
           CloneFails(r) \/ OpenOrFetchFails(r) \/ UpToDate(r) \/ CompareFails(r) \/ CheckoutFails(r)
             \/ NothingParsed(r) \/ CreateTempFails(r)
    PROVE  UpdaterInv'
  <1>1. pc[r] \notin Outside /\ ~Writing(r)
    BY DEF CloneFails, OpenOrFetchFails, UpToDate, CompareFails, CheckoutFails, NothingParsed,
           CreateTempFails, Outside, Writing
  <1>2. (\E ok \in BOOLEAN : Finish(r, ok)) /\ (faults' = faults \/ Fault)
    BY DEF CloneFails, OpenOrFetchFails, UpToDate, CompareFails, CheckoutFails, NothingParsed,
           CreateTempFails, Succeed, Fail
  <1>3. UNCHANGED <<upstreamVars, remote, fileVars>>
    BY DEF CloneFails, OpenOrFetchFails, UpToDate, CompareFails, CheckoutFails, NothingParsed,
           CreateTempFails, cloneVars
  <1>4. clone' \in CloneStates /\ worktree' \in Commit
    <2>1. clone \in CloneStates /\ worktree \in Commit /\ NoCommit \in Commit
      BY RunTypes DEF Commit, NoCommit
    <2> QED
      BY <2>1 DEF CloneFails, OpenOrFetchFails, UpToDate, CompareFails, CheckoutFails, NothingParsed,
                  CreateTempFails, cloneVars, CloneStates
  <1> QED BY <1>1, <1>2, <1>3, <1>4, EndKeeps

(* Synchronising the clone, and the decision to rebuild.                   *)
LEMMA SyncKeeps ==
    ASSUME UpdaterInv, NEW r \in Runs, StartClone(r) \/ EndClone(r) \/ Fetch(r) \/ Outdated(r)
    PROVE  UpdaterInv'
  <1>1. /\ UNCHANGED <<upstreamVars, mmdb, onDisk, tmp, leftover, parsed>>
        /\ pc[r] \in {"open", "cloning", "compare"}
    BY DEF StartClone, EndClone, Fetch, Outdated, fileVars
  <1>2. PICK point \in {"cloning", "compare", "checkout"} : Continue(r, point)
    BY DEF StartClone, EndClone, Fetch, Outdated
  <1>3. pc'[r] = point /\ point \in ControlPoints
    BY <1>2, RunTypes DEF Continue, ControlPoints
  <1>4. /\ clone' \in CloneStates /\ remote' \in 0 .. Upstream /\ worktree' \in Commit
        /\ point = "compare" => remote' # NoCommit
    BY <1>3, RunTypes DEF StartClone, EndClone, Fetch, Outdated, Continue, cloneVars, CloneStates, NoCommit
  <1>5. tip' \in [Runs -> Commit]
    BY RunTypes DEF StartClone, EndClone, Fetch, Outdated
  <1>6. RunInv(r)'
    <2>1. CASE Outdated(r)
      <3>1. pc[r] = "compare" /\ Newer(remote, mmdb) /\ tip'[r] = remote /\ point = "checkout"
        BY <1>2, <1>3, <2>1, RunTypes DEF Outdated, Continue
      <3>2. remote \in 1 .. Upstream
        BY <3>1, RunTypes DEF UpdaterInv, RunInv, NoCommit
      <3>3. mmdb # Absent => commits[remote].time > commits[mmdb.commit].time
        <4>1. ASSUME mmdb # Absent
              PROVE  commits[mmdb.commit].time <= mmdb.mtime /\ commits[remote].time > mmdb.mtime
          BY <3>1, <4>1 DEF UpdaterInv, FilesInv, Database, Newer
        <4>2. ASSUME mmdb # Absent
              PROVE  mmdb.mtime \in Nat /\ commits[mmdb.commit].time \in Nat /\ commits[remote].time \in Nat
          <5>1. mmdb.mtime \in Nat
            BY DEF UpdaterInv, UpdaterTypeOK, File
          <5>2. mmdb.commit \in 1 .. Upstream /\ remote \in 1 .. Upstream
            BY <3>2, <4>2 DEF UpdaterInv, FilesInv, Database
          <5> QED BY <5>1, <5>2, CommitTypes
        <4> QED BY <4>1, <4>2
      <3> QED
        BY <1>1, <1>3, <3>1, <3>2, <3>3 DEF RunInv, OnTip, OnParsed, upstreamVars, Upstream
    <2>2. CASE ~Outdated(r)
      <3>1. point \in {"cloning", "compare"}
        BY <1>3, <2>2, RunTypes DEF StartClone, EndClone, Fetch, Continue
      <3> QED BY <1>3, <1>4, <3>1 DEF RunInv, OnTip, OnParsed
    <2> QED BY <2>1, <2>2
  <1>7. tmp' # Absent => leftover'
    <2>1. \A s \in Runs : ~Writing(s)
      BY <1>1, Alone DEF Writing, Outside
    <2> QED BY <1>1, <2>1 DEF UpdaterInv, NoTempLeft
  <1>8. pc[r] \notin Outside /\ tmp' \in File /\ leftover' \in BOOLEAN /\ parsed' \in [Runs -> Commit]
    BY <1>1, RunTypes DEF Outside
  <1> QED BY <1>1, <1>2, <1>3, <1>4, <1>5, <1>6, <1>7, <1>8, ContinueKeeps

(* The checkout of the tip, and the parse of its files.                    *)
LEMMA CheckoutKeeps ==
    ASSUME UpdaterInv, NEW r \in Runs, StartReset(r) \/ EndReset(r) \/ Parse(r)
    PROVE  UpdaterInv'
  <1>1. /\ UNCHANGED <<upstreamVars, remote, mmdb, onDisk, tmp, leftover, tip>>
        /\ pc[r] \in {"checkout", "reset", "parse"}
    BY DEF StartReset, EndReset, Parse, fileVars, cloneVars
  <1>2. PICK point \in {"reset", "parse", "create"} : Continue(r, point)
    BY DEF StartReset, EndReset, Parse
  <1>3. pc'[r] = point /\ point \in ControlPoints
    BY <1>2, RunTypes DEF Continue, ControlPoints
  <1>4. /\ tip[r] \in 1 .. Upstream /\ tip[r] \in Commit
        /\ mmdb # Absent => commits[tip[r]].time > commits[mmdb.commit].time
    BY <1>1, RunTypes DEF UpdaterInv, RunInv, OnTip
  <1>5. clone' \in CloneStates /\ worktree' \in Commit /\ parsed' \in [Runs -> Commit]
    BY <1>4, RunTypes DEF StartReset, EndReset, Parse, cloneVars, CloneStates
  <1>6. RunInv(r)'
    <2>1. CASE StartReset(r)
      <3>1. point = "reset"
        BY <1>3, <2>1, RunTypes DEF StartReset, Continue
      <3> QED BY <1>1, <1>3, <1>4, <3>1 DEF RunInv, OnTip, OnParsed, upstreamVars, Upstream
    <2>2. CASE EndReset(r)
      <3>1. point = "parse" /\ worktree' = tip[r]
        BY <1>3, <2>2, RunTypes DEF EndReset, Continue
      <3> QED BY <1>1, <1>3, <1>4, <3>1 DEF RunInv, OnTip, OnParsed, upstreamVars, Upstream
    <2>3. CASE Parse(r)
      <3>1. point = "create" /\ parsed'[r] = worktree /\ HasEntries(worktree) /\ pc[r] = "parse"
        BY <1>3, <2>3, RunTypes DEF Parse, Continue
      <3>2. worktree = tip[r] /\ commits[tip[r]].networks
        BY <3>1 DEF UpdaterInv, RunInv, HasEntries
      <3> QED BY <1>1, <1>3, <1>4, <3>1, <3>2 DEF RunInv, OnTip, OnParsed, upstreamVars, Upstream
    <2> QED BY <2>1, <2>2, <2>3
  <1>7. tmp' # Absent => leftover'
    <2>1. \A s \in Runs : ~Writing(s)
      BY <1>1, Alone DEF Writing, Outside
    <2> QED BY <1>1, <2>1 DEF UpdaterInv, NoTempLeft
  <1>8. /\ pc[r] \notin Outside /\ tmp' \in File /\ leftover' \in BOOLEAN /\ tip' \in [Runs -> Commit]
        /\ remote' \in 0 .. Upstream
    BY <1>1, RunTypes DEF Outside
  <1> QED BY <1>1, <1>2, <1>3, <1>5, <1>6, <1>7, <1>8, ContinueKeeps

(* Creating, writing and syncing the temporary file.                       *)
LEMMA WriteKeeps ==
    ASSUME UpdaterInv, NEW r \in Runs, CreateTemp(r) \/ WriteTemp(r) \/ SyncTemp(r)
    PROVE  UpdaterInv'
  <1>1. /\ UNCHANGED <<upstreamVars, cloneVars, mmdb, onDisk, tip, parsed>>
        /\ pc[r] \in {"create", "write", "sync"}
    BY DEF CreateTemp, WriteTemp, SyncTemp
  <1>2. PICK point \in {"write", "sync", "rename"} : Continue(r, point)
    BY DEF CreateTemp, WriteTemp, SyncTemp
  <1>3. pc'[r] = point /\ point \in ControlPoints
    BY <1>2, RunTypes DEF Continue, ControlPoints
  <1>4. /\ tip[r] \in 1 .. Upstream /\ tip[r] \in Commit
        /\ mmdb # Absent => commits[tip[r]].time > commits[mmdb.commit].time
        /\ parsed[r] = tip[r] /\ commits[tip[r]].networks
    BY <1>1, RunTypes DEF UpdaterInv, RunInv, OnTip, OnParsed
  <1>5. commits[tip[r]].time <= now /\ now \in 0 .. MaxTime
    BY <1>4, RunTypes DEF UpdaterInv, UpstreamInv
  <1>6. tmp' \in File /\ leftover' \in BOOLEAN /\ RunInv(r)'
    <2>1. CASE CreateTemp(r)
      <3>1. point = "write" /\ leftover' = FALSE
            /\ tmp' = [Absent EXCEPT !.epoch = tip[r], !.whole = FALSE, !.synced = FALSE, !.mtime = now]
        BY <1>3, <2>1, RunTypes DEF CreateTemp, Continue
      <3>2. tmp' = [commit |-> NoCommit, epoch |-> tip[r], whole |-> FALSE, synced |-> FALSE, mtime |-> now]
        BY <3>1 DEF Absent
      <3>3. tmp' \in File
        BY <1>4, <1>5, <3>2 DEF File, Commit, NoCommit
      <3> QED BY <1>1, <1>3, <1>4, <3>1, <3>3 DEF RunInv, OnTip, OnParsed, upstreamVars, Upstream
    <2>2. CASE WriteTemp(r)
      <3>1. point = "sync" /\ leftover' = leftover
            /\ tmp' = [commit |-> tip[r], epoch |-> tip[r], whole |-> TRUE, synced |-> FALSE, mtime |-> now]
        BY <1>3, <1>4, <2>2, RunTypes DEF WriteTemp, Continue
      <3>2. tmp' \in File
        BY <1>4, <1>5, <3>1 DEF File
      <3> QED
        BY <1>1, <1>3, <1>4, <1>5, <3>1, <3>2, RunTypes DEF RunInv, OnTip, OnParsed, upstreamVars, Upstream
    <2>3. CASE SyncTemp(r)
      <3>1. point = "rename" /\ leftover' = leftover /\ pc[r] = "sync"
            /\ tmp' = [tmp EXCEPT !.synced = TRUE] /\ tmp \in File
        BY <1>3, <2>3, RunTypes DEF SyncTemp, Continue
      <3>2. /\ tmp' \in File /\ tmp'.synced /\ tmp'.whole = tmp.whole /\ tmp'.commit = tmp.commit
            /\ tmp'.epoch = tmp.epoch /\ tmp'.mtime = tmp.mtime
        BY <3>1 DEF File
      <3>3. /\ tmp.whole /\ tmp.commit = tip[r] /\ tmp.epoch = tip[r]
            /\ commits[tip[r]].time <= tmp.mtime
        BY <3>1 DEF UpdaterInv, RunInv
      <3> QED
        BY <1>1, <1>3, <1>4, <3>1, <3>2, <3>3, RunTypes DEF RunInv, OnTip, OnParsed, upstreamVars, Upstream
    <2> QED BY <2>1, <2>2, <2>3
  <1>7. Writing(r)'
    BY <1>3 DEF Writing
  <1>8. /\ pc[r] \notin Outside /\ tip' \in [Runs -> Commit] /\ parsed' \in [Runs -> Commit]
        /\ remote' \in 0 .. Upstream /\ clone' \in CloneStates /\ worktree' \in Commit
    BY <1>1, RunTypes DEF Outside, cloneVars
  <1> QED BY <1>1, <1>2, <1>3, <1>6, <1>7, <1>8, ContinueKeeps

(* What a rename puts in place is a database, newer than the one there.    *)
LEMMA RenamedDatabase ==
    ASSUME UpdaterInv, NEW r \in Runs, Rename(r)
    PROVE  /\ Database(tmp) /\ tmp.commit = tip[r] /\ tmp # Absent /\ tip[r] \in 1 .. Upstream
           /\ mmdb # Absent => commits[tip[r]].time > commits[mmdb.commit].time
  BY DEF UpdaterInv, RunInv, Rename, OnTip, OnParsed, Database

(* The rename, and the removal of the temporary file after an error.       *)
LEMMA LastStepKeeps ==
    ASSUME UpdaterInv, NEW r \in Runs, Rename(r) \/ BuildFails(r)
    PROVE  UpdaterInv'
  <1>1. pc[r] \notin Outside /\ (\E ok \in BOOLEAN : Finish(r, ok)) /\ (faults' = faults \/ Fault)
    BY DEF Rename, BuildFails, Succeed, Fail, Outside
  <1>2. UNCHANGED <<upstreamVars, cloneVars, onDisk>>
    BY DEF Rename, BuildFails
  <1>3. Absent \in File /\ tmp \in File /\ mmdb \in File /\ leftover \in BOOLEAN
    BY DEF UpdaterInv, UpdaterTypeOK, Absent, File, Commit, NoCommit
  <1>4. /\ mmdb' \in {mmdb, tmp} /\ Database(mmdb') /\ tmp' \in {tmp, Absent} /\ leftover' \in BOOLEAN
        /\ tmp' # Absent => leftover'
    <2>1. CASE Rename(r)
      BY <1>3, <2>1, RenamedDatabase DEF Rename
    <2>2. CASE BuildFails(r)
      BY <1>3, <2>2 DEF BuildFails, RemoveQuietly, UpdaterInv, FilesInv
    <2> QED BY <2>1, <2>2
  <1>5. /\ pc' \in [Runs -> ControlPoints] /\ \A s \in Runs : pc'[s] \in Outside
        /\ tip' \in [Runs -> Commit] /\ parsed' \in [Runs -> Commit]
        /\ process' \in {"down", "starting", "serving"} /\ faults' \in 0 .. MaxFaults
        /\ update_lock' = Free
    BY <1>1, Finished
  <1>6. UpdaterTypeOK'
    <2>1. mmdb' \in File /\ tmp' \in File
      BY <1>3, <1>4
    <2> QED
      BY <1>2, <1>4, <1>5, <2>1 DEF UpdaterInv, UpdaterTypeOK, upstreamVars, cloneVars, Upstream, Outside
  <1>7. UpstreamInv' /\ FilesInv'
    BY <1>2, <1>4 DEF UpdaterInv, UpstreamInv, FilesInv, Database, upstreamVars, cloneVars, Upstream
  <1>8. (\A s \in Runs : RunInv(s)') /\ NoTempLeft'
    BY <1>4, <1>5 DEF RunInv, NoTempLeft, OnTip, OnParsed, Outside
  <1> QED BY <1>6, <1>7, <1>8 DEF UpdaterInv

-----------------------------------------------------------------------------
(* The theorems.                                                           *)

LEMMA NextKeeps ==
    ASSUME UpdaterInv, [Next]_vars
    PROVE  UpdaterInv'
  <1>1. CASE Tick \/ Push \/ Touch \/ RemoveMmdb \/ WriteBack
    BY <1>1, WorldKeeps
  <1>2. CASE Restart \/ \E r \in Runs : Start(r)
    BY <1>2, StartsKeep
  <1>3. CASE Kill \/ PowerLoss
    BY <1>3, DeathKeeps
  <1>4. ASSUME NEW r \in Runs, RunStep(r)
        PROVE  UpdaterInv'
    BY <1>4, TryLockKeeps, ReturnKeeps, SyncKeeps, CheckoutKeeps, WriteKeeps, LastStepKeeps DEF RunStep
  <1>5. CASE UNCHANGED vars
    BY <1>5 DEF vars, upstreamVars, cloneVars, fileVars, runVars, UpdaterInv, UpdaterTypeOK,
                UpstreamInv, FilesInv, Database, RunInv, NoTempLeft, Writing, Upstream
  <1> QED BY <1>1, <1>2, <1>3, <1>4, <1>5 DEF Next

(* One run works at a time, on one commit that is newer than the database, *)
(* and the database is whole and synced.                                   *)
THEOREM UpdaterInvariant == Spec => []UpdaterInv
  <1>1. Init => UpdaterInv
    BY InitKeeps
  <1>2. UpdaterInv /\ [Next]_vars => UpdaterInv'
    BY NextKeeps
  <1> QED BY <1>1, <1>2, PTL DEF Spec

(* The variables keep their types, and update_lock excludes.               *)
THEOREM UpdaterTypeCorrect == Spec => []UpdaterTypeOK
  <1>1. UpdaterInv => UpdaterTypeOK
    BY DEF UpdaterInv
  <1> QED BY <1>1, UpdaterInvariant, PTL

(* write_mmdb never puts a partial database in place, and no kill or power *)
(* loss makes it one.                                                      *)
THEOREM NeverPartialCorrect == Spec => []NeverPartial
  <1>1. UpdaterInv => NeverPartial
    BY DEF UpdaterInv, FilesInv, Database, NeverPartial, Absent
  <1> QED BY <1>1, UpdaterInvariant, PTL

(* The build_epoch of a database names the commit of its networks.         *)
THEOREM OneCommitCorrect == Spec => []OneCommitPerDatabase
  <1>1. UpdaterInv => OneCommitPerDatabase
    BY DEF UpdaterInv, FilesInv, Database, OneCommitPerDatabase, Absent
  <1> QED BY <1>1, UpdaterInvariant, PTL

(* TempFile leaves nothing behind but what a kill or a failed removal left.*)
THEOREM NoTempLeftCorrect == Spec => []NoTempLeft
  <1>1. UpdaterInv => NoTempLeft
    BY DEF UpdaterInv
  <1> QED BY <1>1, UpdaterInvariant, PTL

(* A rebuild replaces a database by one of a later commit time.            *)
THEOREM OnlyForwardCorrect == Spec => OnlyForward
  <1> DEFINE Forward(r) ==
        Rename(r) /\ mmdb # Absent => commits[tip[r]].time > commits[mmdb.commit].time
  <1>1. UpdaterInv /\ [Next]_vars => [\A r \in Runs : Forward(r)]_vars
    BY RenamedDatabase
  <1> QED BY <1>1, UpdaterInvariant, PTL DEF Spec, OnlyForward

-----------------------------------------------------------------------------
(* The refinement of DatabaseFile.                                         *)

(* A database in place stands for its commit.                              *)
LEMMA CommitOfDatabase ==
    ASSUME NEW file, Database(file)
    PROVE  DatabaseOf(file) = file.commit /\ (file.commit = NoCommit <=> file = Absent)
  BY DEF DatabaseOf, Database, Absent, NoCommit

(* A push publishes one commit after the others.                           *)
LEMMA PushPublishes ==
    ASSUME UpdaterInv, Push
    PROVE  Promise!Publish
  <1>1. commits \in Seq([time : 1 .. MaxTime, networks : BOOLEAN])
    BY DEF UpdaterInv, UpdaterTypeOK
  <1>2. PICK commit \in [time : 1 .. MaxTime, networks : BOOLEAN] : commits' = Append(commits, commit)
    <2>1. PICK time \in 1 .. now, networks \in BOOLEAN :
            commits' = Append(commits, [time |-> time, networks |-> networks])
      BY DEF Push
    <2>2. now \in 1 .. MaxTime
      BY DEF UpdaterInv, UpdaterTypeOK
    <2>3. [time |-> time, networks |-> networks] \in [time : 1 .. MaxTime, networks : BOOLEAN]
      BY <2>1, <2>2
    <2> QED BY <2>1, <2>3
  <1>3. Len(commits') = Len(commits) + 1 /\ commits = SubSeq(commits', 1, Len(commits))
    <2>1. /\ commits' \in Seq([time : 1 .. MaxTime, networks : BOOLEAN])
          /\ Len(commits') = Len(commits) + 1 /\ Len(commits) \in Nat
          /\ \A c \in 1 .. Len(commits) : commits'[c] = commits[c]
      BY <1>1, <1>2
    <2>2. SubSeq(commits', 1, Len(commits)) = [c \in 1 .. Len(commits) |-> commits'[c]]
      BY <2>1
    <2>3. commits = [c \in 1 .. Len(commits) |-> commits[c]]
      BY <1>1
    <2>4. [c \in 1 .. Len(commits) |-> commits'[c]] = [c \in 1 .. Len(commits) |-> commits[c]]
      BY <2>1
    <2> QED BY <2>1, <2>2, <2>3, <2>4
  <1>4. UNCHANGED <<mmdb, onDisk>>
    BY DEF Push, fileVars
  <1> QED BY <1>3, <1>4 DEF Promise!Publish, DatabaseOf

(* A rename replaces the database by that of a later commit.               *)
LEMMA RenameReplaces ==
    ASSUME UpdaterInv, NEW r \in Runs, Rename(r)
    PROVE  Promise!Replace
  <1>1. /\ Database(tmp) /\ tmp.commit = tip[r] /\ tmp # Absent /\ tip[r] \in 1 .. Upstream
        /\ mmdb # Absent => commits[tip[r]].time > commits[mmdb.commit].time
    BY RenamedDatabase
  <1>2. mmdb' = tmp /\ UNCHANGED <<commits, onDisk>>
    BY DEF Rename, upstreamVars
  <1>3. DatabaseOf(mmdb') = tip[r] /\ DatabaseOf(onDisk') = DatabaseOf(onDisk)
    BY <1>1, <1>2, CommitOfDatabase
  <1>4. DatabaseOf(mmdb) = mmdb.commit /\ (mmdb.commit = NoCommit <=> mmdb = Absent)
    BY CommitOfDatabase DEF UpdaterInv, FilesInv
  <1>5. tip[r] \in DOMAIN commits /\ commits[tip[r]].networks
    BY <1>1 DEF UpdaterInv, UpdaterTypeOK, Database, Upstream
  <1> QED BY <1>1, <1>2, <1>3, <1>4, <1>5 DEF Promise!Replace

(* Every step of the updater is a step of DatabaseFile, or none.           *)
LEMMA StepKeepsPromise ==
    ASSUME UpdaterInv, [Next]_vars
    PROVE  [Promise!Next]_(Promise!fileVars)
  <1>1. CASE Push
    BY <1>1, PushPublishes DEF Promise!Next
  <1>2. ASSUME NEW r \in Runs, Rename(r)
        PROVE  Promise!Next
    BY <1>2, RenameReplaces DEF Promise!Next
  <1>3. CASE Touch
    <2>1. mmdb' = [mmdb EXCEPT !.mtime = now] /\ UNCHANGED <<commits, onDisk>> /\ mmdb \in File
      BY <1>3 DEF Touch, upstreamVars, UpdaterInv, UpdaterTypeOK
    <2>2. DatabaseOf(mmdb') = DatabaseOf(mmdb)
      BY <2>1 DEF DatabaseOf, File
    <2> QED BY <2>1, <2>2 DEF Promise!fileVars, DatabaseOf
  <1>4. CASE RemoveMmdb
    BY <1>4 DEF RemoveMmdb, Promise!Next, Promise!Remove, DatabaseOf, Absent, upstreamVars
  <1>5. CASE WriteBack
    BY <1>5 DEF WriteBack, Promise!Next, Promise!Harden, DatabaseOf, upstreamVars
  <1>6. CASE Kill \/ PowerLoss
    <2>1. UNCHANGED commits
      BY <1>6 DEF Kill, PowerLoss, Dies, upstreamVars
    <2>2. \/ UNCHANGED <<mmdb, onDisk>>
          \/ mmdb' = mmdb /\ onDisk' = mmdb
          \/ mmdb' = onDisk /\ onDisk' = onDisk
      BY <1>6, SurvivesTypes DEF Kill, PowerLoss, UpdaterInv, UpdaterTypeOK, FilesInv
    <2> QED
      BY <2>1, <2>2 DEF Promise!Next, Promise!Harden, Promise!RollBack, Promise!fileVars, DatabaseOf
  <1>7. CASE UNCHANGED <<commits, mmdb, onDisk>>
    BY <1>7 DEF Promise!fileVars, DatabaseOf
  <1>8. Tick \/ Restart \/ (\E r \in Runs : Start(r)) => UNCHANGED <<commits, mmdb, onDisk>>
    BY DEF Tick, Restart, Start, upstreamVars, fileVars
  <1>9. ASSUME NEW r \in Runs, RunStep(r), ~Rename(r)
        PROVE  UNCHANGED <<commits, mmdb, onDisk>>
    BY <1>9 DEF RunStep, TryLock, AlreadyRunning, StartClone, EndClone, CloneFails, Fetch,
        OpenOrFetchFails, UpToDate, Outdated, CompareFails, StartReset, EndReset, CheckoutFails, Parse,
        NothingParsed, CreateTemp, CreateTempFails, WriteTemp, SyncTemp, BuildFails, upstreamVars, fileVars
  <1>10. UNCHANGED vars => UNCHANGED <<commits, mmdb, onDisk>>
    BY DEF vars, upstreamVars, fileVars
  <1> QED BY <1>1, <1>2, <1>3, <1>4, <1>5, <1>6, <1>7, <1>8, <1>9, <1>10 DEF Next

(* Overlapping, failing and killed runs do to the database what atomic,    *)
(* forward-going replacements do.                                          *)
THEOREM KeepsOneDatabaseCorrect == Spec => KeepsOneDatabase
  <1>1. Init => Promise!Init
    BY DEF Init, Promise!Init, DatabaseOf, Absent, NoCommit
  <1>2. UpdaterInv /\ [Next]_vars => [Promise!Next]_(Promise!fileVars)
    BY StepKeepsPromise
  <1> QED BY <1>1, <1>2, UpdaterInvariant, PTL DEF Spec, KeepsOneDatabase, Promise!Spec
=============================================================================
