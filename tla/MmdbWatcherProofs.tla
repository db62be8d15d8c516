------------------------- MODULE MmdbWatcherProofs -------------------------
(***************************************************************************)
(* Safety of the watcher, for any number of versions of the file, updaters *)
(* and batches in the channel: the running agent uses the holder as Mmdb   *)
(* assumes, so that the theorems of MmdbProofs are about it, and no change *)
(* made under the watch is lost.                                           *)
(***************************************************************************)
EXTENDS MmdbWatcher, MmdbProofs, SequenceTheorems

USE WatcherAssumption

-----------------------------------------------------------------------------
(* The composition implements the specification of the holder.             *)

(* Whatever the agent does is a step of the holder, or none.               *)
LEMMA HolderStep ==
    ASSUME [Next]_vars
    PROVE  [MmdbNext]_mmdbVars
  <1>1. Main \in Loaders /\ Watcher \in Loaders /\ \A u \in Updaters : u \in Loaders
    OBVIOUS
  <1>2. CASE OperatorChanges
    BY <1>2 DEF OperatorChanges, MmdbNext
  <1>3. CASE TempFileChanges \/ Debounce \/ WatchError \/ ReceiveAndSkip \/ IsNoFile \/ StartWatcher
             \/ WatchFails \/ Stop
    BY <1>3 DEF TempFileChanges, Debounce, WatchError, ReceiveAndSkip, IsNoFile, StartWatcher,
                WatchFails, Stop
  <1>4. CASE ReceiveAndReload \/ IsFile \/ \E u \in Updaters : ReloadRebuilt(u)
    BY <1>1, <1>4 DEF ReceiveAndReload, IsFile, ReloadRebuilt, MmdbNext, Calls, Functions
  <1>5. CASE WatcherStep
    BY <1>1, <1>5 DEF WatcherStep, ReloadGoesOn, ReloadFails, MmdbNext, LoaderStep
  <1>6. CASE StartupLoad
    BY <1>1, <1>6 DEF StartupLoad, MmdbNext, LoaderStep
  <1>7. CASE \E u \in Updaters : Rebuild(u)
    <2>1. PICK m \in Mtimes, content \in ValidContents : ReplaceFile(m, content)
      BY <1>7 DEF Rebuild
    <2>2. content \in Contents
      BY ContentAssumption
    <2> QED BY <2>1, <2>2 DEF MmdbNext, FileChanges
  <1>8. CASE \E u \in Updaters : UpdaterStep(u)
    BY <1>1, <1>8 DEF UpdaterStep, MmdbNext
  <1>9. CASE \E r \in Lookups : Lookup(r)
    BY <1>9 DEF Lookup, MmdbNext
  <1>10. CASE UNCHANGED vars
    BY <1>10 DEF vars
  <1> QED
    BY <1>2, <1>3, <1>4, <1>5, <1>6, <1>7, <1>8, <1>9, <1>10 DEF Next, Receive

(* The theorems about the holder hold in the running agent.                *)
THEOREM HolderUsedAsSpecifiedCorrect == Spec => HolderUsedAsSpecified
  <1>1. Init => MmdbInit
    BY DEF Init
  <1>2. [Next]_vars => [MmdbNext]_mmdbVars
    BY HolderStep
  <1> QED BY <1>1, <1>2, PTL DEF Spec, HolderUsedAsSpecified, MmdbSpec

-----------------------------------------------------------------------------
(* The invariant of the watcher.                                           *)

(* Only main, at start-up, calls load; the others reload.                  *)
CallerInv ==
    /\ phase # "loading" => pc[Main] = Idle
    /\ \A l \in Loaders \ {Main} : pc[l] # Idle => call[l].function = "reload_if_changed"

(* Nothing is noticed before the watch.                                    *)
NoticedInv == phase \in {"starting", "loading", "loaded"} => noticed = NoFile

(* Between its store and its return the watcher's label is the snapshot's: *)
(* load_lock keeps the others out.                                         *)
StoredInv == pc[Watcher] = "count" => snapshot.modified = call[Watcher].modified

QueueInv ==
    /\ phase \in Phases
    /\ pending \subseteq Names
    /\ channel \in Seq((SUBSET Names) \cup {Errors}) /\ Len(channel) <= ChannelSize
    /\ noticed \in Versions
    /\ rebuilt \subseteq Updaters
    /\ unread \in Versions

WatchInv == IInv /\ QueueInv /\ CallerInv /\ NoticedInv /\ StoredInv /\ ChangeNotLost

(* A step of one call concerns no other call, and not the file.            *)
LEMMA OneCall ==
    ASSUME IInv, NEW l \in Loaders,
           LoaderStep(l) \/ \E function \in Functions : Call(l, function)
    PROVE  /\ UNCHANGED <<fileVars, readVars>>
           /\ \A k \in Loaders \ {l} : pc'[k] = pc[k] /\ call'[k] = call[k]
  BY DEF IInv, TypeOK, LoaderStep, Call, Lock, StatUnchanged, Stat, StatFailsInLoad, StatFailsInReload,
         ReadAndParse, ReadOrParseFails, Store, Count, Return

(* A call keeps its function until it returns.                             *)
LEMMA FunctionStays ==
    ASSUME IInv, NEW l \in Loaders, LoaderStep(l)
    PROVE  pc[l] # Idle /\ (pc'[l] # Idle => call'[l].function = call[l].function)
  <1>1. call[l] \in CallRecords /\ call \in [Loaders -> CallRecords] /\ pc \in [Loaders -> ControlPoints]
    BY DEF IInv, TypeOK
  <1> QED
    BY <1>1 DEF LoaderStep, Lock, StatUnchanged, Stat, StatFailsInLoad, StatFailsInReload, ReadAndParse,
                ReadOrParseFails, Store, Count, Return, CallRecords, Idle

(* Only a store changes the snapshot.                                      *)
LEMMA SnapshotStays ==
    ASSUME NEW l \in Loaders, LoaderStep(l), ~Store(l)
    PROVE  snapshot' = snapshot
  BY DEF LoaderStep, Lock, StatUnchanged, Stat, StatFailsInLoad, StatFailsInReload, ReadAndParse,
         ReadOrParseFails, Count, Return, swapVars

(* A reload that stores replaces a label that is not the file's: its own   *)
(* stat was later than the snapshot, and differed from it.                 *)
LEMMA StoreReplacesOld ==
    ASSUME IInv, NEW l \in Loaders, Store(l), call[l].function = "reload_if_changed", file # NoFile
    PROVE  snapshot.modified # file
  <1> SUFFICES ASSUME snapshot.modified = file PROVE FALSE
    OBVIOUS
  <1>1. snapshot.source = file
    BY FreshLabelHolds DEF FreshLabel
  <1>2. /\ call[l].modified # NoFile /\ call[l].modified # file /\ Seen(call[l].modified)
        /\ Age(call[l].modified) >= Age(file)
    BY <1>1 DEF IInv, CallInv, Store
  <1>3. file \in Mtimes /\ written[file] # Unwritten /\ written[file].at = changes
    BY DEF IInv, FileInv, Seen
  <1>4. call[l].modified \in Mtimes /\ Age(call[l].modified) = written[call[l].modified].at
    BY <1>2 DEF Seen, Age
  <1>5. Age(call[l].modified) \in 0 .. changes /\ changes \in Nat
    BY <1>2, AgeBounds
  <1>6. written[call[l].modified].at = written[file].at
    BY <1>2, <1>3, <1>4, <1>5 DEF Age
  <1> QED BY <1>2, <1>3, <1>4, <1>6 DEF IInv, FileInv

(* The batches that are left in the channel, and those that are added.     *)
LEMMA Sent ==
    ASSUME QueueInv, NEW batch \in (SUBSET Names) \cup {Errors}, Len(channel) < ChannelSize,
           channel' = Append(channel, batch)
    PROVE  /\ channel' \in Seq((SUBSET Names) \cup {Errors}) /\ Len(channel') <= ChannelSize
           /\ \A i \in DOMAIN channel : i \in DOMAIN channel' /\ channel'[i] = channel[i]
           /\ \E i \in DOMAIN channel' : channel'[i] = batch
  <1>1. channel \in Seq((SUBSET Names) \cup {Errors}) /\ ChannelSize \in Nat
    BY DEF QueueInv
  <1>2. /\ channel' \in Seq((SUBSET Names) \cup {Errors}) /\ Len(channel') = Len(channel) + 1
        /\ \A i \in 1 .. Len(channel) : channel'[i] = channel[i]
        /\ channel'[Len(channel) + 1] = batch
    BY <1>1, AppendProperties
  <1>3. DOMAIN channel = 1 .. Len(channel) /\ DOMAIN channel' = 1 .. Len(channel') /\ Len(channel) \in Nat
    BY <1>1, <1>2, LenProperties
  <1> QED BY <1>1, <1>2, <1>3

(* Receiving takes the first batch and leaves the others.                  *)
LEMMA Received ==
    ASSUME QueueInv, channel # <<>>, channel' = Tail(channel)
    PROVE  /\ channel' \in Seq((SUBSET Names) \cup {Errors}) /\ Len(channel') <= ChannelSize
           /\ \A i \in DOMAIN channel : channel[i] = Head(channel) \/ \E j \in DOMAIN channel' : channel'[j] = channel[i]
  <1>1. channel \in Seq((SUBSET Names) \cup {Errors}) /\ ChannelSize \in Nat /\ Len(channel) <= ChannelSize
    BY DEF QueueInv
  <1>2. /\ channel' \in Seq((SUBSET Names) \cup {Errors}) /\ Len(channel') = Len(channel) - 1
        /\ \A i \in 1 .. Len(channel) - 1 : channel'[i] = channel[i + 1]
        /\ Head(channel) = channel[1] /\ Len(channel) \in Nat /\ Len(channel) > 0
    BY <1>1, HeadTailProperties, EmptySeq
  <1>3. DOMAIN channel = 1 .. Len(channel) /\ DOMAIN channel' = 1 .. Len(channel')
    BY <1>1, <1>2, LenProperties
  <1>4. ASSUME NEW i \in DOMAIN channel, i # 1
        PROVE  i - 1 \in DOMAIN channel' /\ channel'[i - 1] = channel[i]
    BY <1>2, <1>3, <1>4
  <1>5. Len(channel') <= ChannelSize
    BY <1>1, <1>2
  <1>6. \A i \in DOMAIN channel : channel[i] = Head(channel) \/ \E j \in DOMAIN channel' : channel'[j] = channel[i]
    BY <1>2, <1>4
  <1> QED BY <1>2, <1>5, <1>6

(* A change that is still to be noticed stays so, in a step that does not  *)
(* change the file.                                                        *)
LEMMA NotLostStays ==
    ASSUME ChangeNotLost, UNCHANGED <<file, written, noticed>>, phase' = "watching" => phase = "watching",
           file # NoFile /\ snapshot.modified = file => snapshot'.modified = file,
           ReloadComing => ReloadComing' \/ snapshot'.modified = file \/ unread' = file,
           unread' = unread \/ unread' = file
    PROVE  ChangeNotLost'
  BY DEF ChangeNotLost, Announced, Content

(* A change of the file under the watch is on its way to the debouncer.    *)
LEMMA ChangeIsPending ==
    ASSUME WatchInv, OperatorChanges \/ \E u \in Updaters : Rebuild(u)
    PROVE  WatchInv'
  <1>1. /\ file' \in Versions /\ UNCHANGED <<phase, channel, unread, swapVars, callVars>>
        /\ rebuilt' \subseteq Updaters /\ IInv'
    <2>1. IInv'
      <3>1. [MmdbNext]_mmdbVars
        BY HolderStep DEF Next
      <3> QED BY <3>1, StepInv DEF WatchInv
    <2>2. file' \in Versions
      BY <2>1 DEF IInv, TypeOK
    <2> QED
      BY <2>1, <2>2 DEF WatchInv, QueueInv, OperatorChanges, Rebuild, FileChanges, ReplaceFile, TouchFile,
                        RemoveFile
  <1>2. /\ pending' \subseteq Names /\ noticed' \in Versions
        /\ phase = "watching" => "mmdb" \in pending'
        /\ phase # "watching" => noticed' = noticed
    BY <1>1 DEF WatchInv, QueueInv, OperatorChanges, Rebuild, Notify, Names, eventVars
  <1>3. QueueInv'
    BY <1>1, <1>2 DEF WatchInv, QueueInv
  <1>4. CallerInv' /\ StoredInv' /\ NoticedInv'
    BY <1>1, <1>2 DEF WatchInv, CallerInv, StoredInv, NoticedInv, swapVars, callVars
  <1>5. ChangeNotLost'
    BY <1>1, <1>2 DEF ChangeNotLost, Announced, ReloadComing
  <1> QED BY <1>1, <1>3, <1>4, <1>5 DEF WatchInv

(* Steps that leave the holder alone.                                      *)
LEMMA EventsKeep ==
    ASSUME WatchInv,
           TempFileChanges \/ Debounce \/ WatchError \/ ReceiveAndSkip \/ IsNoFile \/ StartWatcher
             \/ WatchFails \/ Stop
    PROVE  WatchInv'
  <1>1. UNCHANGED <<mmdbVars, noticed, rebuilt, unread>>
    BY DEF TempFileChanges, Debounce, WatchError, ReceiveAndSkip, IsNoFile, StartWatcher, WatchFails,
           Stop, Notify, eventVars
  <1>2. UNCHANGED <<file, written, snapshot, pc, call>> /\ IInv'
    BY <1>1, StepInv DEF WatchInv, mmdbVars, fileVars, swapVars, callVars
  <1>3. CallerInv' /\ StoredInv'
    BY <1>2 DEF WatchInv, CallerInv, StoredInv, TempFileChanges, Debounce, WatchError, ReceiveAndSkip,
                IsNoFile, StartWatcher, WatchFails, Stop
  <1>4. NoticedInv'
    BY <1>1 DEF WatchInv, NoticedInv, TempFileChanges, Debounce, WatchError, ReceiveAndSkip, IsNoFile,
                StartWatcher, WatchFails, Stop
  <1>5. QueueInv /\ ChangeNotLost
    BY DEF WatchInv
  <1>6. CASE TempFileChanges
    <2>1. UNCHANGED <<phase, channel>> /\ pending' = pending \cup {"tmp"}
      BY <1>6 DEF TempFileChanges, Notify
    <2>2. QueueInv'
      BY <1>1, <1>5, <2>1 DEF QueueInv, Names
    <2>3. ChangeNotLost'
      BY <1>1, <1>2, <1>5, <2>1, NotLostStays DEF ReloadComing
    <2> QED BY <1>2, <1>3, <1>4, <2>2, <2>3 DEF WatchInv
  <1>7. CASE Debounce
    <2>1. /\ UNCHANGED phase /\ pending' = {} /\ channel' = Append(channel, pending)
          /\ Len(channel) < ChannelSize
      BY <1>7 DEF Debounce
    <2>2. pending \in (SUBSET Names) \cup {Errors}
      BY <1>5 DEF QueueInv
    <2>3. /\ channel' \in Seq((SUBSET Names) \cup {Errors}) /\ Len(channel') <= ChannelSize
          /\ \A i \in DOMAIN channel : i \in DOMAIN channel' /\ channel'[i] = channel[i]
          /\ \E i \in DOMAIN channel' : channel'[i] = pending
      BY <1>5, <2>1, <2>2, Sent
    <2>4. QueueInv'
      BY <1>1, <1>5, <2>1, <2>3 DEF QueueInv
    <2>5. ReloadComing => ReloadComing'
      BY <1>2, <2>3 DEF ReloadComing, Concerns
    <2>6. ChangeNotLost'
      BY <1>1, <1>2, <1>5, <2>1, <2>5, NotLostStays
    <2> QED BY <1>2, <1>3, <1>4, <2>4, <2>6 DEF WatchInv
  <1>8. CASE WatchError
    <2>1. UNCHANGED <<phase, pending>> /\ channel' = Append(channel, Errors) /\ Len(channel) < ChannelSize
      BY <1>8 DEF WatchError
    <2>2. /\ channel' \in Seq((SUBSET Names) \cup {Errors}) /\ Len(channel') <= ChannelSize
          /\ \A i \in DOMAIN channel : i \in DOMAIN channel' /\ channel'[i] = channel[i]
      BY <1>5, <2>1, Sent
    <2>3. QueueInv'
      BY <1>1, <1>5, <2>1, <2>2 DEF QueueInv
    <2>4. ReloadComing => ReloadComing'
      BY <1>2, <2>1, <2>2 DEF ReloadComing, Concerns
    <2>5. ChangeNotLost'
      BY <1>1, <1>2, <1>5, <2>1, <2>4, NotLostStays
    <2> QED BY <1>2, <1>3, <1>4, <2>3, <2>5 DEF WatchInv
  <1>9. CASE ReceiveAndSkip
    <2>1. /\ UNCHANGED <<phase, pending>> /\ channel' = Tail(channel) /\ channel # <<>>
          /\ ~Concerns(Head(channel))
      BY <1>9 DEF ReceiveAndSkip
    <2>2. /\ channel' \in Seq((SUBSET Names) \cup {Errors}) /\ Len(channel') <= ChannelSize
          /\ \A i \in DOMAIN channel : channel[i] = Head(channel) \/ \E j \in DOMAIN channel' : channel'[j] = channel[i]
      BY <1>5, <2>1, Received
    <2>3. QueueInv'
      BY <1>1, <1>5, <2>1, <2>2 DEF QueueInv
    <2>4. ReloadComing => ReloadComing'
      BY <1>2, <2>1, <2>2 DEF ReloadComing
    <2>5. ChangeNotLost'
      BY <1>1, <1>2, <1>5, <2>1, <2>4, NotLostStays
    <2> QED BY <1>2, <1>3, <1>4, <2>3, <2>5 DEF WatchInv
  <1>10. CASE IsNoFile \/ StartWatcher \/ WatchFails \/ Stop
    <2>1. phase' \in Phases
      BY <1>10 DEF IsNoFile, StartWatcher, WatchFails, Stop, Phases
    <2>2. pending' \subseteq Names
      BY <1>5, <1>10 DEF QueueInv, IsNoFile, StartWatcher, WatchFails, Stop
    <2>3. channel' \in Seq((SUBSET Names) \cup {Errors}) /\ Len(channel') <= ChannelSize
      <3>1. CASE Stop
        <4>1. channel' = <<>>
          BY <3>1 DEF Stop
        <4>2. Len(channel') = 0 /\ ChannelSize \in Nat
          BY <4>1
        <4> QED BY <4>1, <4>2
      <3>2. CASE IsNoFile \/ StartWatcher \/ WatchFails
        <4>1. channel' = channel
          BY <3>2 DEF IsNoFile, StartWatcher, WatchFails
        <4> QED BY <1>5, <4>1 DEF QueueInv
      <3> QED BY <1>10, <3>1, <3>2
    <2>4. QueueInv'
      BY <1>1, <1>5, <2>1, <2>2, <2>3 DEF QueueInv
    <2>5. ChangeNotLost'
      BY <1>1, <1>2, <1>4, <1>10 DEF WatchInv, NoticedInv, ChangeNotLost, Announced, IsNoFile,
         StartWatcher, WatchFails, Stop
    <2> QED BY <1>2, <1>3, <1>4, <2>4, <2>5 DEF WatchInv
  <1> QED BY <1>6, <1>7, <1>8, <1>9, <1>10

(* A call is made: it will look at the file as it is then.                 *)
LEMMA CallsKeep ==
    ASSUME WatchInv, ReceiveAndReload \/ IsFile \/ \E u \in Updaters : ReloadRebuilt(u)
    PROVE  WatchInv'
  <1>1. IInv'
    <2>1. [MmdbNext]_mmdbVars
      BY HolderStep DEF Next, Receive
    <2> QED BY <2>1, StepInv DEF WatchInv
  <1>2. IInv /\ QueueInv /\ CallerInv /\ NoticedInv /\ StoredInv /\ ChangeNotLost
    BY DEF WatchInv
  <1>3. pc \in [Loaders -> ControlPoints] /\ call \in [Loaders -> CallRecords]
    BY <1>2 DEF IInv, TypeOK
  <1>4. CASE ReceiveAndReload
    <2>1. /\ UNCHANGED <<phase, pending, noticed, rebuilt, unread, file, written, snapshot>>
          /\ channel' = Tail(channel) /\ channel # <<>> /\ phase = "watching"
          /\ pc' = [pc EXCEPT ![Watcher] = "lock"]
          /\ call' = [call EXCEPT ![Watcher] = [NoCall EXCEPT !.function = "reload_if_changed", !.asked = file]]
      BY <1>4 DEF ReceiveAndReload, Call, fileVars, swapVars
    <2>2. QueueInv'
      <3>1. channel' \in Seq((SUBSET Names) \cup {Errors}) /\ Len(channel') <= ChannelSize
        BY <1>2, <2>1, Received
      <3> QED BY <1>2, <2>1, <3>1 DEF QueueInv
    <2>3. pc'[Watcher] = "lock" /\ pc'[Main] = pc[Main] /\ \A l \in Loaders \ {Watcher} : pc'[l] = pc[l] /\ call'[l] = call[l]
      BY <1>3, <2>1
    <2>4. call'[Watcher].function = "reload_if_changed"
      BY <1>3, <2>1 DEF NoCall
    <2>5. CallerInv' /\ NoticedInv' /\ StoredInv'
      BY <1>2, <2>1, <2>3, <2>4 DEF CallerInv, NoticedInv, StoredInv
    <2>6. ChangeNotLost'
      BY <2>3 DEF ChangeNotLost, ReloadComing
    <2> QED BY <1>1, <2>2, <2>5, <2>6 DEF WatchInv
  <1>5. CASE IsFile
    <2>1. /\ UNCHANGED <<pending, channel, noticed, rebuilt, unread, file, written, snapshot>>
          /\ phase' = "loading" /\ phase = "starting"
          /\ pc' = [pc EXCEPT ![Main] = "lock"]
          /\ call' = [call EXCEPT ![Main] = [NoCall EXCEPT !.function = "load", !.asked = file]]
      BY <1>5 DEF IsFile, Call, fileVars, swapVars
    <2>2. QueueInv'
      BY <1>2, <2>1 DEF QueueInv, Phases
    <2>3. \A l \in Loaders \ {Main} : pc'[l] = pc[l] /\ call'[l] = call[l]
      BY <1>3, <2>1
    <2>4. CallerInv' /\ NoticedInv' /\ StoredInv' /\ ChangeNotLost'
      BY <1>2, <2>1, <2>3 DEF CallerInv, NoticedInv, StoredInv, ChangeNotLost, Announced
    <2> QED BY <1>1, <2>2, <2>4 DEF WatchInv
  <1>6. CASE \E u \in Updaters : ReloadRebuilt(u)
    <2>1. PICK u \in Updaters : ReloadRebuilt(u)
      BY <1>6
    <2>2. /\ UNCHANGED <<phase, pending, channel, noticed, unread, file, written, snapshot>>
          /\ rebuilt' = rebuilt \ {u}
          /\ pc' = [pc EXCEPT ![u] = "lock"]
          /\ call' = [call EXCEPT ![u] = [NoCall EXCEPT !.function = "reload_if_changed", !.asked = file]]
      BY <2>1 DEF ReloadRebuilt, Call, fileVars, swapVars
    <2>3. QueueInv'
      BY <1>2, <2>2 DEF QueueInv
    <2>4. \A l \in Loaders \ {u} : pc'[l] = pc[l] /\ call'[l] = call[l]
      BY <1>3, <2>2
    <2>5. call'[u].function = "reload_if_changed" /\ u \notin {Main, Watcher} /\ u \in Loaders
      BY <1>3, <2>2 DEF NoCall
    <2>6. CallerInv' /\ NoticedInv' /\ StoredInv'
      BY <1>2, <2>2, <2>4, <2>5 DEF CallerInv, NoticedInv, StoredInv
    <2>7. ReloadComing => ReloadComing'
      BY <2>2, <2>4, <2>5 DEF ReloadComing
    <2>8. ChangeNotLost'
      BY <1>2, <2>2, <2>7, NotLostStays
    <2> QED BY <1>1, <2>3, <2>6, <2>8 DEF WatchInv
  <1> QED BY <1>4, <1>5, <1>6

(* A step of a call changes neither the functions of the calls nor, while  *)
(* the watcher is about to return, the label of the snapshot.              *)
LEMMA CallGoesOn ==
    ASSUME WatchInv, NEW l \in Loaders, LoaderStep(l)
    PROVE  /\ \A k \in Loaders \ {Main} : pc'[k] # Idle => call'[k].function = "reload_if_changed"
           /\ StoredInv'
  <1>1. IInv /\ CallerInv /\ StoredInv /\ pc \in [Loaders -> ControlPoints] /\ call \in [Loaders -> CallRecords]
    BY DEF WatchInv, IInv, TypeOK
  <1>2. \A k \in Loaders \ {l} : pc'[k] = pc[k] /\ call'[k] = call[k]
    BY <1>1, OneCall
  <1>3. pc[l] # Idle /\ (pc'[l] # Idle => call'[l].function = call[l].function)
    BY <1>1, FunctionStays
  <1>4. \A k \in Loaders \ {Main} : pc'[k] # Idle => call'[k].function = "reload_if_changed"
    BY <1>1, <1>2, <1>3 DEF CallerInv
  <1>5. CASE Store(l)
    <2>1. /\ pc[l] = "store" /\ snapshot'.modified = call[l].modified
          /\ call' = call /\ UNCHANGED load_lock
      BY <1>5 DEF Store, Labelled
    <2>2. pc[Watcher] = "count" => l = Watcher
      BY <1>1, <2>1 DEF IInv, LockInv, Locked
    <2>3. StoredInv'
      BY <1>2, <2>1, <2>2 DEF StoredInv
    <2> QED BY <1>4, <2>3
  <1>6. CASE ~Store(l)
    <2>1. snapshot' = snapshot
      BY <1>6, SnapshotStays
    <2>2. l = Watcher => pc'[Watcher] # "count"
      BY <1>1, <1>6 DEF LoaderStep, Lock, StatUnchanged, Stat, StatFailsInLoad, StatFailsInReload, ReadAndParse,
         ReadOrParseFails, Count, Return, Idle
    <2>3. StoredInv'
      BY <1>1, <1>2, <2>1, <2>2 DEF StoredInv
    <2> QED BY <1>4, <2>3
  <1> QED BY <1>5, <1>6

(* The reload of the watch ends with the snapshot labelled as the file is, *)
(* with a failure, or with a label that is out of date.                    *)
LEMMA ReloadSeesFile ==
    ASSUME WatchInv, ReloadGoesOn \/ ReloadFails, phase = "watching", file # NoFile
    PROVE  /\ pc[Watcher] \in {"lock", "stat"} \/ (pc[Watcher] # Idle /\ call[Watcher].modified = file)
                => \/ pc'[Watcher] \in {"lock", "stat"}
                   \/ pc'[Watcher] # Idle /\ call'[Watcher].modified = file
                   \/ snapshot'.modified = file
                   \/ unread' = file
           /\ snapshot.modified = file => snapshot'.modified = file
  <1>1. IInv /\ CallerInv /\ StoredInv /\ pc \in [Loaders -> ControlPoints] /\ call \in [Loaders -> CallRecords]
    BY DEF WatchInv, IInv, TypeOK
  <1>2. CASE ReloadFails
    BY <1>2 DEF ReloadFails, StatFailsInReload, ReadOrParseFails, swapVars
  <1>3. CASE Lock(Watcher)
    BY <1>1, <1>3 DEF Lock, swapVars
  <1>4. CASE StatUnchanged(Watcher)
    BY <1>4 DEF StatUnchanged, LoadedFrom, swapVars
  <1>5. CASE Stat(Watcher)
    <2>1. call'[Watcher] = [call[Watcher] EXCEPT !.modified = file] /\ pc'[Watcher] = "read"
      BY <1>1, <1>5 DEF Stat
    <2>2. call[Watcher] \in CallRecords
      BY <1>1
    <2>3. call'[Watcher].modified = file
      BY <2>1, <2>2 DEF CallRecords
    <2> QED BY <1>5, <2>1, <2>3 DEF Stat, Idle, swapVars
  <1>6. CASE ReadAndParse(Watcher)
    <2>1. call'[Watcher] = [call[Watcher] EXCEPT !.bytes = file] /\ pc'[Watcher] = "store" /\ pc[Watcher] = "read"
      BY <1>1, <1>6 DEF ReadAndParse
    <2>2. call[Watcher] \in CallRecords
      BY <1>1
    <2>3. call'[Watcher].modified = call[Watcher].modified
      BY <2>1, <2>2 DEF CallRecords
    <2> QED BY <1>6, <2>1, <2>3 DEF ReadAndParse, Idle
  <1>7. CASE Store(Watcher)
    <2>1. /\ pc[Watcher] = "store" /\ pc'[Watcher] = "count" /\ call' = call
          /\ snapshot'.modified = call[Watcher].modified
      BY <1>1, <1>7 DEF Store, Labelled
    <2>2. call[Watcher].function = "reload_if_changed"
      BY <1>1, <2>1 DEF CallerInv, Idle
    <2>3. snapshot.modified # file
      BY <1>1, <1>7, <2>2, StoreReplacesOld
    <2> QED BY <2>1, <2>3 DEF Idle
  <1>8. CASE Count(Watcher)
    BY <1>1, <1>8 DEF Count, StoredInv
  <1> QED BY <1>2, <1>3, <1>4, <1>5, <1>6, <1>7, <1>8 DEF ReloadGoesOn

LEMMA WatcherStepKeeps ==
    ASSUME WatchInv, WatcherStep
    PROVE  WatchInv'
  <1>1. IInv'
    <2>1. [MmdbNext]_mmdbVars
      BY HolderStep DEF Next
    <2> QED BY <2>1, StepInv DEF WatchInv
  <1>2. IInv /\ QueueInv /\ CallerInv /\ NoticedInv /\ ChangeNotLost
    BY DEF WatchInv
  <1>3. LoaderStep(Watcher) /\ UNCHANGED <<phase, pending, channel, noticed, rebuilt>>
    BY DEF WatcherStep, ReloadGoesOn, ReloadFails, LoaderStep
  <1>4. UNCHANGED <<file, written>> /\ pc'[Main] = pc[Main]
    BY <1>2, <1>3, OneCall DEF fileVars
  <1>5. unread' = unread \/ unread' = file
    BY DEF WatcherStep, ReloadGoesOn, ReloadFails
  <1>6. QueueInv'
    BY <1>2, <1>3, <1>5 DEF QueueInv, IInv, TypeOK
  <1>7. CallerInv' /\ NoticedInv' /\ StoredInv'
    BY <1>2, <1>3, <1>4, CallGoesOn DEF CallerInv, NoticedInv
  <1>8. ChangeNotLost'
    <2>1. CASE phase = "watching" /\ file # NoFile
      <3>1. ReloadComing => ReloadComing' \/ snapshot'.modified = file \/ unread' = file
        BY <1>3, <1>4, <2>1, ReloadSeesFile DEF ReloadComing, WatcherStep
      <3>2. snapshot.modified = file => snapshot'.modified = file
        BY <2>1, ReloadSeesFile DEF WatcherStep
      <3> QED BY <1>2, <1>3, <1>4, <1>5, <3>1, <3>2, NotLostStays
    <2>2. CASE ~(phase = "watching" /\ file # NoFile)
      BY <1>3, <1>4, <2>2 DEF ChangeNotLost, Announced
    <2> QED BY <2>1, <2>2
  <1> QED BY <1>1, <1>6, <1>7, <1>8 DEF WatchInv

(* Before the watch there is nothing to lose.                              *)
LEMMA StartupLoadKeeps ==
    ASSUME WatchInv, StartupLoad
    PROVE  WatchInv'
  <1>1. IInv'
    <2>1. [MmdbNext]_mmdbVars
      BY HolderStep DEF Next
    <2> QED BY <2>1, StepInv DEF WatchInv
  <1>2. IInv /\ QueueInv /\ CallerInv /\ NoticedInv
    BY DEF WatchInv
  <1>3. LoaderStep(Main) /\ UNCHANGED <<pending, channel, noticed, rebuilt, unread>>
    BY DEF StartupLoad, LoaderStep
  <1>4. pc[Main] # Idle /\ phase = "loading" /\ pc \in [Loaders -> ControlPoints]
    BY <1>2, <1>3, FunctionStays DEF CallerInv, IInv, TypeOK
  <1>5. phase' = "loading" \/ (phase' \in {"loaded", "exited"} /\ pc'[Main] = Idle)
    BY <1>4 DEF StartupLoad, Count, ReadOrParseFails, Return
  <1>6. QueueInv'
    BY <1>2, <1>3, <1>5 DEF QueueInv, Phases
  <1>7. CallerInv' /\ StoredInv'
    BY <1>3, <1>5, CallGoesOn DEF CallerInv
  <1>8. NoticedInv' /\ ChangeNotLost'
    BY <1>2, <1>3, <1>4, <1>5 DEF NoticedInv, ChangeNotLost, Announced
  <1> QED BY <1>1, <1>6, <1>7, <1>8 DEF WatchInv

LEMMA UpdaterStepKeeps ==
    ASSUME WatchInv, NEW u \in Updaters, UpdaterStep(u)
    PROVE  WatchInv'
  <1>1. IInv'
    <2>1. [MmdbNext]_mmdbVars
      BY HolderStep DEF Next
    <2> QED BY <2>1, StepInv DEF WatchInv
  <1>2. IInv /\ QueueInv /\ CallerInv /\ NoticedInv /\ ChangeNotLost
    BY DEF WatchInv
  <1>3. /\ u \in Loaders /\ u \notin {Main, Watcher} /\ LoaderStep(u)
        /\ UNCHANGED <<phase, pending, channel, noticed, rebuilt, unread>>
    BY DEF UpdaterStep, watchVars
  <1>4. /\ UNCHANGED <<file, written>> /\ pc'[Main] = pc[Main]
        /\ pc'[Watcher] = pc[Watcher] /\ call'[Watcher] = call[Watcher]
    BY <1>2, <1>3, OneCall DEF fileVars
  <1>5. QueueInv' /\ NoticedInv'
    BY <1>2, <1>3 DEF QueueInv, NoticedInv
  <1>6. CallerInv' /\ StoredInv'
    BY <1>2, <1>3, <1>4, CallGoesOn DEF CallerInv
  <1>7. ReloadComing => ReloadComing'
    BY <1>3, <1>4 DEF ReloadComing
  <1>8. file # NoFile /\ snapshot.modified = file => snapshot'.modified = file
    <2>1. CASE Store(u)
      <3>1. call[u].function = "reload_if_changed"
        BY <1>2, <1>3, <2>1 DEF CallerInv, Store, Idle
      <3> QED BY <1>2, <1>3, <2>1, <3>1, StoreReplacesOld
    <2>2. CASE ~Store(u)
      BY <1>3, <2>2, SnapshotStays
    <2> QED BY <2>1, <2>2
  <1>9. ChangeNotLost'
    BY <1>2, <1>3, <1>4, <1>7, <1>8, NotLostStays
  <1> QED BY <1>1, <1>5, <1>6, <1>9 DEF WatchInv

(* Lookups and stuttering steps change nothing the invariant is about.     *)
LEMMA OthersKeep ==
    ASSUME WatchInv, (\E r \in Lookups : Lookup(r)) \/ UNCHANGED vars
    PROVE  WatchInv'
  <1>1. /\ UNCHANGED <<file, written, snapshot, pc, call>>
        /\ UNCHANGED <<phase, pending, channel, noticed, rebuilt, unread>>
    BY DEF Lookup, LookupStep, LookupStarts, LookupEnds, fileVars, swapVars, callVars, vars, mmdbVars,
           watchVars
  <1>2. IInv'
    <2>1. [MmdbNext]_mmdbVars
      BY HolderStep DEF Next
    <2> QED BY <2>1, StepInv DEF WatchInv
  <1> QED
    BY <1>1, <1>2 DEF WatchInv, QueueInv, CallerInv, NoticedInv, StoredInv, ChangeNotLost, Announced, Content,
                      ReloadComing

-----------------------------------------------------------------------------
(* The theorems.                                                           *)

LEMMA InitKeeps == Init => WatchInv
  <1> SUFFICES ASSUME Init PROVE WatchInv
    OBVIOUS
  <1>1. IInv
    BY InitInv DEF Init
  <1>2. <<>> \in Seq((SUBSET Names) \cup {Errors}) /\ Len(<<>>) = 0
    BY EmptySeq
  <1>3. /\ phase = "starting" /\ pending = {} /\ channel = <<>> /\ noticed = NoFile
        /\ rebuilt = {} /\ unread = NoFile
    BY DEF Init
  <1>4. QueueInv
    BY <1>2, <1>3 DEF QueueInv, Phases, Versions
  <1>5. pc = [l \in Loaders |-> Idle]
    BY DEF Init, MmdbInit
  <1> QED
    BY <1>1, <1>3, <1>4, <1>5 DEF WatchInv, CallerInv, NoticedInv, StoredInv, ChangeNotLost, Announced, Idle

LEMMA NextKeeps == WatchInv /\ [Next]_vars => WatchInv'
  BY ChangeIsPending, EventsKeep, CallsKeep, WatcherStepKeeps, StartupLoadKeeps, UpdaterStepKeeps, OthersKeep
     DEF Next, Receive

(* WatchInv is an invariant of the agent.                                  *)
THEOREM WatchInvariant == Spec => []WatchInv
  BY InitKeeps, NextKeeps, PTL DEF Spec

(* Every variable keeps its type, and the channel its capacity.            *)
THEOREM WatcherTypeCorrect == Spec => []WatcherTypeOK
  <1>1. WatchInv => WatcherTypeOK
    BY DEF WatchInv, IInv, QueueInv, WatcherTypeOK
  <1> QED BY <1>1, WatchInvariant, PTL

(* A valid database put on disk under the watch has its label on the       *)
(* snapshot, is still to be looked at, or could not be read.               *)
THEOREM ChangeNotLostCorrect == Spec => []ChangeNotLost
  <1>1. WatchInv => ChangeNotLost
    BY DEF WatchInv
  <1> QED BY <1>1, WatchInvariant, PTL
=============================================================================
