----------------------------- MODULE MmdbProofs -----------------------------
(***************************************************************************)
(* Safety of the database holder, for every set of threads, every set of   *)
(* modification times and every content: the inductive invariant, the      *)
(* invariants and action properties that follow from it, and the           *)
(* refinement of HotSwap.                                                  *)
(***************************************************************************)
EXTENDS Mmdb, TLAPS

USE LoaderAssumption, MtimeAssumption, ContentAssumption

-----------------------------------------------------------------------------
(* The inductive invariant.                                                *)

\* Version v has been on disk, or stands for no file.
Seen(v) == v = NoFile \/ (v \in Mtimes /\ written[v] # Unwritten)

\* Changes are numbered without gaps that matter: each written version has a
\* number of its own, and the file on disk has the last one.
FileInv ==
    /\ \A m \in Mtimes :
          \/ written[m] = Unwritten
          \/ written[m].at \in 1 .. changes /\ written[m].content \in Contents
    /\ \A m, n \in Mtimes : written[m].at = written[n].at => written[m] = Unwritten \/ m = n
    /\ Seen(file)
    /\ file # NoFile => written[file].at = changes

LockInv == \A l \in Loaders : pc[l] \in Locked <=> load_lock = l

SnapshotInv ==
    /\ Seen(snapshot.modified) /\ Seen(snapshot.source)
    /\ Age(snapshot.modified) <= Age(snapshot.source)
    /\ snapshot.source # NoFile => Content(snapshot.source) \in ValidContents

\* What a call knows: it read no earlier than it made its stat, and made its
\* stat no earlier than the snapshot it is going to replace was read.
CallInv(l) ==
    /\ Seen(call[l].asked) /\ Seen(call[l].modified) /\ Seen(call[l].bytes)
    /\ pc[l] \in {"read", "store"} /\ call[l].function = "reload_if_changed" =>
          /\ call[l].modified # NoFile /\ call[l].modified # snapshot.modified
          /\ Age(call[l].modified) >= Age(snapshot.source)
    /\ pc[l] \in {"store", "count"} =>
          /\ call[l].bytes # NoFile /\ Content(call[l].bytes) \in ValidContents
          /\ MMDB_NODE_COUNT = NodeCount[Content(call[l].bytes)]
          /\ Age(call[l].modified) <= Age(call[l].bytes)
          /\ Age(call[l].asked) <= Age(call[l].bytes)
          /\ Age(snapshot.source) <= Age(call[l].bytes)
    /\ pc[l] = "count" => snapshot.source = call[l].bytes

MetricsInv ==
    /\ (\A l \in Loaders : pc[l] # "count") =>
          (MMDB_FILE_LOADED = 0 <=> snapshot.source = NoFile)
    /\ (\A l \in Loaders : pc[l] \notin {"store", "count"}) /\ snapshot.source # NoFile =>
          MMDB_NODE_COUNT = NodeCount[Content(snapshot.source)]

LookupInv == \A r \in Lookups : (guard[r] # Released => Seen(guard[r])) /\ Seen(answered[r])

(* Everything the calls in flight and the snapshot know about the versions *)
(* of the file, under mutual exclusion of the calls that hold load_lock.   *)
IInv ==
    /\ TypeOK /\ FileInv /\ LockInv /\ SnapshotInv
    /\ \A l \in Loaders : CallInv(l)
    /\ MetricsInv /\ LookupInv

-----------------------------------------------------------------------------
(* The steps of a load, and changes of the file.                           *)

(* What was written stays: a version seen once keeps its content and its   *)
(* number, whatever becomes of the file afterwards.                        *)
LEMMA WrittenStays ==
    ASSUME TypeOK, NEW m \in Mtimes, NEW content \in Contents, WriteFile(m, content)
    PROVE  \A v \in Mtimes : written[v] # Unwritten => written'[v] = written[v]
  BY DEF TypeOK, WriteFile

(* The file on disk is the newest version there is.                        *)
LEMMA FileIsNewest ==
    ASSUME TypeOK, FileInv, file # NoFile, NEW v, Seen(v)
    PROVE  Age(v) \in Nat /\ Age(file) \in Nat /\ Age(v) <= Age(file)
  <1>1. file \in Mtimes /\ written[file].at = changes /\ changes \in Nat /\ Age(file) = changes
    BY DEF TypeOK, FileInv, Seen, Age
  <1>2. CASE v = NoFile
    BY <1>1, <1>2 DEF Age
  <1>3. CASE v # NoFile
    <2>1. v \in Mtimes /\ written[v].at \in 1 .. changes
      BY <1>3 DEF Seen, FileInv
    <2> QED BY <1>1, <1>3, <2>1 DEF Age
  <1> QED BY <1>2, <1>3

(* A call that no step touches knows what it knew.                         *)
LEMMA CallStays ==
    ASSUME NEW k \in Loaders, CallInv(k), SnapshotInv,
           pc'[k] = pc[k], call'[k] = call[k], UNCHANGED <<snapshot, MMDB_NODE_COUNT>>,
           \A v \in Mtimes : written[v] # Unwritten => written'[v] = written[v]
    PROVE  CallInv(k)'
  <1> DEFINE c == call[k]
  <1>1. /\ \A v : Seen(v) => v = NoFile \/ (v \in Mtimes /\ written[v] # Unwritten /\ written'[v] = written[v])
        /\ Seen(c.asked) /\ Seen(c.modified) /\ Seen(c.bytes) /\ Seen(snapshot.source)
    BY DEF Seen, CallInv, SnapshotInv
  <1>2. \A v : Seen(v) => Seen(v)' /\ Age(v)' = Age(v) /\ Content(v)' = Content(v)
    BY <1>1 DEF Seen, Age, Content
  <1>3. PICK asked, modified, bytes, source :
           asked = c.asked /\ modified = c.modified /\ bytes = c.bytes /\ source = snapshot.source
    OBVIOUS
  <1>4. /\ Seen(asked)' /\ Seen(modified)' /\ Seen(bytes)' /\ Seen(source)'
        /\ Age(asked)' = Age(asked) /\ Age(modified)' = Age(modified)
        /\ Age(bytes)' = Age(bytes) /\ Age(source)' = Age(source) /\ Content(bytes)' = Content(bytes)
    BY <1>1, <1>2, <1>3
  <1> QED BY <1>3, <1>4 DEF CallInv

(* A new version of the file keeps the numbering of the versions.          *)
LEMMA WriteKeepsFileInv ==
    ASSUME TypeOK, FileInv, NEW m \in Mtimes, NEW content \in Contents, WriteFile(m, content)
    PROVE  FileInv'
  <1>1. written'[m] = [content |-> content, at |-> changes + 1]
        /\ \A v \in Mtimes \ {m} : written'[v] = written[v]
    BY DEF TypeOK, WriteFile
  <1>2. changes \in Nat /\ changes' = changes + 1 /\ file' = m
    BY DEF TypeOK, WriteFile
  <1>3. \A v \in Mtimes : written[v].at <= changes /\ written[v].at \in Nat
    BY DEF TypeOK, FileInv, Unwritten
  <1>4. \A v \in Mtimes : \/ written'[v] = Unwritten
                          \/ written'[v].at \in 1 .. changes' /\ written'[v].content \in Contents
    <2>1. changes + 1 \in 1 .. changes' /\ \A i \in 1 .. changes : i \in 1 .. changes'
      BY <1>2
    <2>2. written'[m].at = changes + 1 /\ written'[m].content = content
      BY <1>1
    <2>3. \A v \in Mtimes \ {m} : \/ written'[v] = Unwritten
                                  \/ written'[v].at \in 1 .. changes /\ written'[v].content \in Contents
      BY <1>1 DEF FileInv
    <2> QED BY <2>1, <2>2, <2>3
  <1>5. \A v, w \in Mtimes : written'[v].at = written'[w].at => written'[v] = Unwritten \/ v = w
    <2> SUFFICES ASSUME NEW v \in Mtimes, NEW w \in Mtimes, written'[v].at = written'[w].at
                 PROVE  written'[v] = Unwritten \/ v = w
      OBVIOUS
    <2>1. written'[m].at = changes + 1
      BY <1>1
    <2>2. \A u \in Mtimes \ {m} : written'[u].at # changes + 1
      BY <1>1, <1>2, <1>3
    <2>3. CASE v = m \/ w = m
      BY <2>1, <2>2, <2>3
    <2>4. CASE v # m /\ w # m
      BY <1>1, <2>4 DEF FileInv
    <2> QED BY <2>3, <2>4
  <1>6. written'[m] # Unwritten
    BY <1>1, <1>2 DEF Unwritten
  <1> QED
    BY <1>1, <1>2, <1>4, <1>5, <1>6 DEF FileInv, Seen, NoFile

(* The invariant holds at start-up, before any file or call.               *)
LEMMA InitInv == MmdbInit => IInv
  BY DEF MmdbInit, IInv, TypeOK, FileInv, LockInv, SnapshotInv, CallInv, MetricsInv, LookupInv,
         Seen, Age, Content, NoFile, Versions, NoSnapshot, NoCall, Unwritten, Idle, Functions,
         ControlPoints, Locked, CallRecords

(* Taking load_lock: the lock had no holder, so no other call is inside.   *)
LEMMA LockKeeps ==
    ASSUME IInv, NEW l \in Loaders, Lock(l)
    PROVE  IInv'
  <1>1. TypeOK'
    BY DEF IInv, TypeOK, Lock, fileVars, swapVars, readVars, Versions, ControlPoints, Functions,
           CallRecords
  <1>2. FileInv'
    BY DEF IInv, FileInv, Lock, fileVars, Seen
  <1>3. LockInv'
    BY DEF IInv, TypeOK, LockInv, Lock, Locked
  <1>4. SnapshotInv'
    BY DEF IInv, SnapshotInv, Lock, fileVars, swapVars, Age, Content, Seen
  <1>5. \A k \in Loaders : CallInv(k)'
    BY DEF IInv, TypeOK, LockInv, CallInv, Lock, fileVars, swapVars, Locked, Age, Content, Seen
  <1>6. MetricsInv'
    BY DEF IInv, TypeOK, MetricsInv, Lock, fileVars, swapVars, Content
  <1>7. LookupInv'
    BY DEF IInv, LookupInv, Lock, fileVars, readVars, Seen
  <1> QED BY <1>1, <1>2, <1>3, <1>4, <1>5, <1>6, <1>7 DEF IInv

(* A reload that skips: the guard is dropped and nothing else moves.       *)
LEMMA StatUnchangedKeeps ==
    ASSUME IInv, NEW l \in Loaders, StatUnchanged(l)
    PROVE  IInv'
  <1>1. TypeOK'
    BY DEF IInv, TypeOK, StatUnchanged, Return, Idle, NoCall, fileVars, swapVars, readVars,
           Versions, ControlPoints, Functions, CallRecords
  <1>2. FileInv'
    BY DEF IInv, FileInv, StatUnchanged, fileVars, Seen
  <1>3. LockInv'
    BY DEF IInv, TypeOK, LockInv, StatUnchanged, Return, Idle, Locked
  <1>4. SnapshotInv'
    BY DEF IInv, SnapshotInv, StatUnchanged, fileVars, swapVars, Age, Content, Seen
  <1>5. \A k \in Loaders : CallInv(k)'
    BY DEF IInv, TypeOK, LockInv, CallInv, StatUnchanged, Return, Idle, NoCall, fileVars,
           swapVars, Locked, Age, Content, Seen
  <1>6. MetricsInv'
    BY DEF IInv, TypeOK, MetricsInv, StatUnchanged, Return, Idle, fileVars, swapVars, Content
  <1>7. LookupInv'
    BY DEF IInv, LookupInv, StatUnchanged, fileVars, readVars, Seen
  <1> QED BY <1>1, <1>2, <1>3, <1>4, <1>5, <1>6, <1>7 DEF IInv

(* A stat: the version it saw is the newest, so no older than the snapshot's.*)
LEMMA StatKeeps ==
    ASSUME IInv, NEW l \in Loaders, Stat(l)
    PROVE  IInv'
  <1>1. TypeOK'
    <2>1. file \in Versions /\ call[l] \in CallRecords
      BY DEF IInv, TypeOK
    <2>2. [call[l] EXCEPT !.modified = file] \in CallRecords
      BY <2>1 DEF CallRecords
    <2>3. call' \in [Loaders -> CallRecords]
      BY <2>2 DEF IInv, TypeOK, Stat
    <2> QED
      BY <2>3 DEF IInv, TypeOK, Stat, fileVars, swapVars, readVars, ControlPoints
  <1>2. FileInv'
    BY DEF IInv, FileInv, Stat, fileVars, Seen
  <1>3. LockInv'
    BY DEF IInv, TypeOK, LockInv, Stat, Locked
  <1>4. SnapshotInv'
    BY DEF IInv, SnapshotInv, Stat, fileVars, swapVars, Age, Content, Seen
  <1>5. \A k \in Loaders : CallInv(k)'
    <2> SUFFICES ASSUME NEW k \in Loaders PROVE CallInv(k)'
      OBVIOUS
    <2>1. CallInv(k) /\ SnapshotInv /\ UNCHANGED <<written, snapshot, MMDB_NODE_COUNT>>
      BY DEF IInv, Stat, fileVars, swapVars
    <2>2. CASE k # l
      <3>1. pc'[k] = pc[k] /\ call'[k] = call[k]
        BY <2>2 DEF IInv, TypeOK, Stat
      <3> QED BY <2>1, <3>1, CallStays
    <2>3. CASE k = l
      <3>1. /\ pc'[l] = "read" /\ call'[l] = [call[l] EXCEPT !.modified = file]
            /\ file # NoFile /\ call[l] \in CallRecords
            /\ call[l].function = "reload_if_changed" => file # snapshot.modified
        BY DEF IInv, TypeOK, Stat, LoadedFrom
      <3>2. Seen(file) /\ Age(snapshot.source) <= Age(file)
        BY FileIsNewest DEF IInv, FileInv, SnapshotInv, Stat
      <3>3. /\ call'[l].function = call[l].function /\ call'[l].asked = call[l].asked
            /\ call'[l].modified = file /\ call'[l].bytes = call[l].bytes
        BY <3>1 DEF CallRecords
      <3>4. Seen(call[l].asked) /\ Seen(call[l].bytes)
        BY <2>1, <2>3 DEF CallInv
      <3>5. /\ Seen(call[l].asked)' /\ Seen(call[l].modified)' /\ Seen(call[l].bytes)'
            /\ Age(call[l].modified)' = Age(file) /\ Age(snapshot.source)' = Age(snapshot.source)
        BY <2>1, <3>2, <3>3, <3>4 DEF Seen, Age
      <3>6. Age(call[l].modified)' >= Age(snapshot.source)'
        BY <3>2, <3>5
      <3> QED BY <2>1, <2>3, <3>1, <3>3, <3>5, <3>6 DEF CallInv
    <2> QED BY <2>2, <2>3
  <1>6. MetricsInv'
    BY DEF IInv, TypeOK, MetricsInv, Stat, fileVars, swapVars, Content
  <1>7. LookupInv'
    BY DEF IInv, LookupInv, Stat, fileVars, readVars, Seen
  <1> QED BY <1>1, <1>2, <1>3, <1>4, <1>5, <1>6, <1>7 DEF IInv

(* A load whose stat failed goes on without a label.                       *)
LEMMA StatFailsInLoadKeeps ==
    ASSUME IInv, NEW l \in Loaders, StatFailsInLoad(l)
    PROVE  IInv'
  <1>1. TypeOK'
    BY DEF IInv, TypeOK, StatFailsInLoad, fileVars, swapVars, readVars, Versions, ControlPoints,
           Functions, CallRecords
  <1>2. FileInv'
    BY DEF IInv, FileInv, StatFailsInLoad, fileVars, Seen
  <1>3. LockInv'
    BY DEF IInv, TypeOK, LockInv, StatFailsInLoad, Locked
  <1>4. SnapshotInv'
    BY DEF IInv, SnapshotInv, StatFailsInLoad, fileVars, swapVars, Age, Content, Seen
  <1>5. \A k \in Loaders : CallInv(k)'
    BY DEF IInv, TypeOK, LockInv, CallInv, StatFailsInLoad, fileVars, swapVars, Locked, Age,
           Content, Seen
  <1>6. MetricsInv'
    BY DEF IInv, TypeOK, MetricsInv, StatFailsInLoad, fileVars, swapVars, Content
  <1>7. LookupInv'
    BY DEF IInv, LookupInv, StatFailsInLoad, fileVars, readVars, Seen
  <1> QED BY <1>1, <1>2, <1>3, <1>4, <1>5, <1>6, <1>7 DEF IInv

(* A reload whose stat failed returns with the snapshot as it was.         *)
LEMMA StatFailsInReloadKeeps ==
    ASSUME IInv, NEW l \in Loaders, StatFailsInReload(l)
    PROVE  IInv'
  <1>1. TypeOK'
    BY DEF IInv, TypeOK, StatFailsInReload, Return, Idle, NoCall, fileVars, swapVars, readVars,
           Versions, ControlPoints, Functions, CallRecords
  <1>2. FileInv'
    BY DEF IInv, FileInv, StatFailsInReload, fileVars, Seen
  <1>3. LockInv'
    BY DEF IInv, TypeOK, LockInv, StatFailsInReload, Return, Idle, Locked
  <1>4. SnapshotInv'
    BY DEF IInv, SnapshotInv, StatFailsInReload, fileVars, swapVars, Age, Content, Seen
  <1>5. \A k \in Loaders : CallInv(k)'
    BY DEF IInv, TypeOK, LockInv, CallInv, StatFailsInReload, Return, Idle, NoCall, fileVars,
           swapVars, Locked, Age, Content, Seen
  <1>6. MetricsInv'
    BY DEF IInv, TypeOK, MetricsInv, StatFailsInReload, Return, Idle, fileVars, swapVars,
           Content
  <1>7. LookupInv'
    BY DEF IInv, LookupInv, StatFailsInReload, fileVars, readVars, Seen
  <1> QED BY <1>1, <1>2, <1>3, <1>4, <1>5, <1>6, <1>7 DEF IInv

(* A read: the bytes are those of the newest version, the gauge is theirs. *)
LEMMA ReadAndParseKeeps ==
    ASSUME IInv, NEW l \in Loaders, ReadAndParse(l)
    PROVE  IInv'
  <1>1. TypeOK'
    <2>1. file \in Versions /\ call[l] \in CallRecords
      BY DEF IInv, TypeOK
    <2>2. [call[l] EXCEPT !.bytes = file] \in CallRecords
      BY <2>1 DEF CallRecords
    <2>3. call' \in [Loaders -> CallRecords]
      BY <2>2 DEF IInv, TypeOK, ReadAndParse
    <2>4. MMDB_NODE_COUNT' \in Nat
      BY DEF ReadAndParse, Parses
    <2> QED
      BY <2>3, <2>4 DEF IInv, TypeOK, ReadAndParse, fileVars, readVars, ControlPoints
  <1>2. FileInv'
    BY DEF IInv, FileInv, ReadAndParse, fileVars, Seen
  <1>3. LockInv'
    BY DEF IInv, TypeOK, LockInv, ReadAndParse, Locked
  <1>4. SnapshotInv'
    BY DEF IInv, SnapshotInv, ReadAndParse, fileVars, Age, Content, Seen
  <1>5. \A k \in Loaders : CallInv(k)'
    <2> SUFFICES ASSUME NEW k \in Loaders PROVE CallInv(k)'
      OBVIOUS
    <2>1. CallInv(k) /\ SnapshotInv /\ UNCHANGED <<written, snapshot>>
      BY DEF IInv, ReadAndParse, fileVars
    <2>2. CASE k # l
      <3>1. pc'[k] = pc[k] /\ call'[k] = call[k] /\ pc[k] \notin Locked
        BY <2>2 DEF IInv, TypeOK, LockInv, ReadAndParse, Locked
      <3> QED BY <2>1, <3>1 DEF CallInv, Locked, Seen, Age, Content
    <2>3. CASE k = l
      <3>1. /\ pc'[l] = "store" /\ call'[l] = [call[l] EXCEPT !.bytes = file] /\ call[l] \in CallRecords
            /\ Content(file) \in ValidContents /\ MMDB_NODE_COUNT' = NodeCount[Content(file)]
        BY DEF IInv, TypeOK, ReadAndParse, Parses
      <3>2. file # NoFile
        BY <3>1 DEF Content
      <3>3. /\ Seen(file) /\ Age(snapshot.source) <= Age(file)
            /\ Age(call[l].modified) <= Age(file) /\ Age(call[l].asked) <= Age(file)
        BY <2>1, <2>3, <3>2, FileIsNewest DEF IInv, FileInv, SnapshotInv, CallInv
      <3>4. /\ call'[l].function = call[l].function /\ call'[l].asked = call[l].asked
            /\ call'[l].modified = call[l].modified /\ call'[l].bytes = file
        BY <3>1 DEF CallRecords
      <3>5. Seen(call[l].asked) /\ Seen(call[l].modified)
        BY <2>1, <2>3 DEF CallInv
      <3>6. /\ Seen(call[l].asked)' /\ Seen(call[l].modified)' /\ Seen(call[l].bytes)'
            /\ Age(call[l].asked)' = Age(call[l].asked) /\ Age(call[l].modified)' = Age(call[l].modified)
            /\ Age(call[l].bytes)' = Age(file) /\ Age(snapshot.source)' = Age(snapshot.source)
            /\ Content(call[l].bytes)' = Content(file)
        BY <2>1, <3>3, <3>4, <3>5 DEF Seen, Age, Content
      <3>7. call[l].function = "reload_if_changed" =>
               /\ call[l].modified # NoFile /\ call[l].modified # snapshot.modified
               /\ Age(call[l].modified) >= Age(snapshot.source)
        BY <2>1, <2>3 DEF CallInv, ReadAndParse
      <3> QED BY <2>1, <2>3, <3>1, <3>2, <3>3, <3>4, <3>6, <3>7 DEF CallInv
    <2> QED BY <2>2, <2>3
  <1>6. MetricsInv'
    BY DEF IInv, TypeOK, MetricsInv, ReadAndParse, fileVars, Content
  <1>7. LookupInv'
    BY DEF IInv, LookupInv, ReadAndParse, fileVars, readVars, Seen
  <1> QED BY <1>1, <1>2, <1>3, <1>4, <1>5, <1>6, <1>7 DEF IInv

(* A failed read or parse returns with snapshot and metrics as they were.  *)
LEMMA ReadOrParseFailsKeeps ==
    ASSUME IInv, NEW l \in Loaders, ReadOrParseFails(l)
    PROVE  IInv'
  <1>1. TypeOK'
    BY DEF IInv, TypeOK, ReadOrParseFails, Return, Idle, NoCall, fileVars, swapVars, readVars,
           Versions, ControlPoints, Functions, CallRecords
  <1>2. FileInv'
    BY DEF IInv, FileInv, ReadOrParseFails, fileVars, Seen
  <1>3. LockInv'
    BY DEF IInv, TypeOK, LockInv, ReadOrParseFails, Return, Idle, Locked
  <1>4. SnapshotInv'
    BY DEF IInv, SnapshotInv, ReadOrParseFails, fileVars, swapVars, Age, Content, Seen
  <1>5. \A k \in Loaders : CallInv(k)'
    BY DEF IInv, TypeOK, LockInv, CallInv, ReadOrParseFails, Return, Idle, NoCall, fileVars,
           swapVars, Locked, Age, Content, Seen
  <1>6. MetricsInv'
    BY DEF IInv, TypeOK, MetricsInv, ReadOrParseFails, Return, Idle, fileVars, swapVars, Content
  <1>7. LookupInv'
    BY DEF IInv, LookupInv, ReadOrParseFails, fileVars, readVars, Seen
  <1> QED BY <1>1, <1>2, <1>3, <1>4, <1>5, <1>6, <1>7 DEF IInv

(* The store: what it publishes is valid and no older than what it replaces.*)
LEMMA StoreKeeps ==
    ASSUME IInv, NEW l \in Loaders, Store(l)
    PROVE  IInv'
  <1>1. TypeOK'
    BY DEF IInv, TypeOK, Store, fileVars, readVars, Versions, ControlPoints, Functions,
           CallRecords, Labelled
  <1>2. FileInv'
    BY DEF IInv, FileInv, Store, fileVars, Seen
  <1>3. LockInv'
    BY DEF IInv, TypeOK, LockInv, Store, Locked
  <1>4. SnapshotInv'
    BY DEF IInv, SnapshotInv, Store, fileVars, Age, Content, Seen, TypeOK, CallInv, Labelled
  <1>5. \A k \in Loaders : CallInv(k)'
    <2> SUFFICES ASSUME NEW k \in Loaders PROVE CallInv(k)'
      OBVIOUS
    <2>1. CASE k = l
      <3>1. pc[l] = "store" /\ pc'[l] = "count" /\ snapshot'.source = call[l].bytes
        BY DEF IInv, TypeOK, Store, Labelled
      <3>2. call' = call /\ written' = written /\ MMDB_NODE_COUNT' = MMDB_NODE_COUNT
        BY DEF Store, fileVars
      <3>3. Age(call[l].bytes) \in Nat
        BY DEF IInv, TypeOK, Age, CallRecords, Versions
      <3> QED
        BY <2>1, <3>1, <3>2, <3>3 DEF IInv, CallInv, Age, Content, Seen
    <2>2. CASE k # l
      <3>1. pc[k] \notin Locked /\ pc'[k] = pc[k]
        BY <2>2 DEF IInv, TypeOK, LockInv, Store, Locked
      <3> QED
        BY <3>1 DEF IInv, CallInv, Store, fileVars, Seen, Locked
    <2> QED BY <2>1, <2>2
  <1>6. MetricsInv'
    BY DEF IInv, TypeOK, MetricsInv, Store, fileVars, Content
  <1>7. LookupInv'
    BY DEF IInv, LookupInv, Store, fileVars, readVars, Seen
  <1> QED BY <1>1, <1>2, <1>3, <1>4, <1>5, <1>6, <1>7 DEF IInv

(* The end of a load: gauge, counter and snapshot agree again.             *)
LEMMA CountKeeps ==
    ASSUME IInv, NEW l \in Loaders, Count(l)
    PROVE  IInv'
  <1>1. TypeOK'
    BY DEF IInv, TypeOK, Count, Return, Idle, NoCall, fileVars, readVars, Versions,
           ControlPoints, Functions, CallRecords
  <1>2. FileInv'
    BY DEF IInv, FileInv, Count, fileVars, Seen
  <1>3. LockInv'
    BY DEF IInv, TypeOK, LockInv, Count, Return, Idle, Locked
  <1>4. SnapshotInv'
    BY DEF IInv, SnapshotInv, Count, fileVars, Age, Content, Seen
  <1>5. \A k \in Loaders : CallInv(k)'
    BY DEF IInv, TypeOK, LockInv, CallInv, Count, Return, Idle, NoCall, fileVars, Locked, Age,
           Content, Seen
  <1>6. MetricsInv'
    BY DEF IInv, TypeOK, MetricsInv, Count, Return, Idle, fileVars, Content, LockInv, Locked,
           CallInv, NoFile
  <1>7. LookupInv'
    BY DEF IInv, LookupInv, Count, fileVars, readVars, Seen
  <1> QED BY <1>1, <1>2, <1>3, <1>4, <1>5, <1>6, <1>7 DEF IInv

(* A new call knows the version on disk and nothing else.                  *)
LEMMA CallKeeps ==
    ASSUME IInv, NEW l \in Loaders, NEW function \in Functions, Call(l, function)
    PROVE  IInv'
  <1>1. TypeOK'
    BY DEF IInv, TypeOK, Call, Idle, NoCall, fileVars, swapVars, readVars, Versions,
           ControlPoints, Functions, CallRecords
  <1>2. FileInv'
    BY DEF IInv, FileInv, Call, fileVars, Seen
  <1>3. LockInv'
    BY DEF IInv, TypeOK, LockInv, Call, Idle, Locked
  <1>4. SnapshotInv'
    BY DEF IInv, SnapshotInv, Call, fileVars, swapVars, Age, Content, Seen
  <1>5. \A k \in Loaders : CallInv(k)'
    BY DEF IInv, TypeOK, LockInv, CallInv, Call, Idle, NoCall, fileVars, swapVars, Locked, Age,
           Content, Seen, FileInv, CallRecords, NoFile
  <1>6. MetricsInv'
    BY DEF IInv, TypeOK, MetricsInv, Call, Idle, fileVars, swapVars, Content
  <1>7. LookupInv'
    BY DEF IInv, LookupInv, Call, fileVars, readVars, Seen
  <1> QED BY <1>1, <1>2, <1>3, <1>4, <1>5, <1>6, <1>7 DEF IInv

(* A new file is newer than every version known so far.                    *)
LEMMA ReplaceKeeps ==
    ASSUME IInv, NEW m \in Mtimes, NEW content \in Contents, ReplaceFile(m, content)
    PROVE  IInv'
  <1>1. TypeOK'
    BY DEF IInv, TypeOK, ReplaceFile, swapVars, callVars, readVars, Versions, ControlPoints,
           Functions, CallRecords, WriteFile
  <1>2. FileInv'
    BY WriteKeepsFileInv, WrittenStays DEF IInv, FileInv, ReplaceFile, Seen
  <1>3. LockInv'
    BY WriteKeepsFileInv, WrittenStays DEF IInv, TypeOK, LockInv, ReplaceFile, callVars, Locked
  <1>4. SnapshotInv'
    BY WriteKeepsFileInv, WrittenStays DEF IInv, SnapshotInv, ReplaceFile, swapVars, Age,
           Content, Seen
  <1>5. \A k \in Loaders : CallInv(k)'
    <2>1. /\ UNCHANGED <<pc, call, snapshot, MMDB_NODE_COUNT>>
          /\ \A v \in Mtimes : written[v] # Unwritten => written'[v] = written[v]
      BY WrittenStays DEF IInv, ReplaceFile, swapVars, callVars
    <2> QED BY <2>1, CallStays DEF IInv
  <1>6. MetricsInv'
    BY WriteKeepsFileInv, WrittenStays DEF IInv, TypeOK, MetricsInv, ReplaceFile, swapVars,
           callVars, Content, WriteFile, SnapshotInv, Seen
  <1>7. LookupInv'
    BY WriteKeepsFileInv, WrittenStays DEF IInv, LookupInv, ReplaceFile, readVars, Seen
  <1> QED BY <1>1, <1>2, <1>3, <1>4, <1>5, <1>6, <1>7 DEF IInv

(* A removed file leaves all that was known of its versions.               *)
LEMMA RemoveKeeps ==
    ASSUME IInv, RemoveFile
    PROVE  IInv'
  <1>1. TypeOK'
    BY DEF IInv, TypeOK, RemoveFile, swapVars, callVars, readVars, Versions, ControlPoints,
           Functions, CallRecords
  <1>2. FileInv'
    BY DEF IInv, FileInv, RemoveFile, Seen
  <1>3. LockInv'
    BY DEF IInv, TypeOK, LockInv, RemoveFile, callVars, Locked
  <1>4. SnapshotInv'
    BY DEF IInv, SnapshotInv, RemoveFile, swapVars, Age, Content, Seen
  <1>5. \A k \in Loaders : CallInv(k)'
    BY DEF IInv, TypeOK, LockInv, CallInv, RemoveFile, swapVars, callVars, Locked, Age, Content,
           Seen
  <1>6. MetricsInv'
    BY DEF IInv, TypeOK, MetricsInv, RemoveFile, swapVars, callVars, Content
  <1>7. LookupInv'
    BY DEF IInv, LookupInv, RemoveFile, readVars, Seen
  <1> QED BY <1>1, <1>2, <1>3, <1>4, <1>5, <1>6, <1>7 DEF IInv

(* A lookup pins a version that was served.                                *)
LEMMA LookupStartsKeeps ==
    ASSUME IInv, NEW r \in Lookups, LookupStarts(r)
    PROVE  IInv'
  <1>1. TypeOK'
    BY DEF IInv, TypeOK, LookupStarts, fileVars, swapVars, callVars, Versions, ControlPoints,
           Functions, CallRecords
  <1>2. FileInv'
    BY DEF IInv, FileInv, LookupStarts, fileVars, Seen
  <1>3. LockInv'
    BY DEF IInv, TypeOK, LockInv, LookupStarts, callVars, Locked
  <1>4. SnapshotInv'
    BY DEF IInv, SnapshotInv, LookupStarts, fileVars, swapVars, Age, Content, Seen
  <1>5. \A k \in Loaders : CallInv(k)'
    BY DEF IInv, TypeOK, LockInv, CallInv, LookupStarts, fileVars, swapVars, callVars, Locked,
           Age, Content, Seen
  <1>6. MetricsInv'
    BY DEF IInv, TypeOK, MetricsInv, LookupStarts, fileVars, swapVars, callVars, Content
  <1>7. LookupInv'
    BY DEF IInv, LookupInv, LookupStarts, fileVars, Seen, TypeOK, SnapshotInv
  <1> QED BY <1>1, <1>2, <1>3, <1>4, <1>5, <1>6, <1>7 DEF IInv

(* A lookup is answered from the version it pinned.                        *)
LEMMA LookupEndsKeeps ==
    ASSUME IInv, NEW r \in Lookups, LookupEnds(r)
    PROVE  IInv'
  <1>1. TypeOK'
    BY DEF IInv, TypeOK, LookupEnds, fileVars, swapVars, callVars, Versions, ControlPoints,
           Functions, CallRecords
  <1>2. FileInv'
    BY DEF IInv, FileInv, LookupEnds, fileVars, Seen
  <1>3. LockInv'
    BY DEF IInv, TypeOK, LockInv, LookupEnds, callVars, Locked
  <1>4. SnapshotInv'
    BY DEF IInv, SnapshotInv, LookupEnds, fileVars, swapVars, Age, Content, Seen
  <1>5. \A k \in Loaders : CallInv(k)'
    BY DEF IInv, TypeOK, LockInv, CallInv, LookupEnds, fileVars, swapVars, callVars, Locked,
           Age, Content, Seen
  <1>6. MetricsInv'
    BY DEF IInv, TypeOK, MetricsInv, LookupEnds, fileVars, swapVars, callVars, Content
  <1>7. LookupInv'
    BY DEF IInv, LookupInv, LookupEnds, fileVars, Seen
  <1> QED BY <1>1, <1>2, <1>3, <1>4, <1>5, <1>6, <1>7 DEF IInv

-----------------------------------------------------------------------------
(* Every step of the holder and of its environment keeps the invariant.    *)
LEMMA StepInv == IInv /\ [MmdbNext]_mmdbVars => IInv'
  <1> SUFFICES ASSUME IInv, [MmdbNext]_mmdbVars PROVE IInv'
    OBVIOUS
  <1>1. CASE FileChanges
    <2>1. ASSUME NEW m \in Mtimes, NEW content \in Contents, ReplaceFile(m, content) PROVE IInv'
      BY <2>1, ReplaceKeeps
    <2>2. ASSUME NEW m \in Mtimes, TouchFile(m) PROVE IInv'
      <3>1. Content(file) \in Contents
        BY <2>2 DEF IInv, FileInv, Seen, TouchFile, Content
      <3> QED BY <2>2, <3>1, ReplaceKeeps DEF TouchFile
    <2> QED BY <1>1, <2>1, <2>2, RemoveKeeps DEF FileChanges
  <1>2. CASE Calls
    BY <1>2, CallKeeps DEF Calls
  <1>3. ASSUME NEW l \in Loaders, LoaderStep(l) PROVE IInv'
    BY <1>3, LockKeeps, StatUnchangedKeeps, StatKeeps, StatFailsInLoadKeeps, StatFailsInReloadKeeps,
       ReadAndParseKeeps, ReadOrParseFailsKeeps, StoreKeeps, CountKeeps DEF LoaderStep
  <1>4. ASSUME NEW r \in Lookups, LookupStep(r) PROVE IInv'
    BY <1>4, LookupStartsKeeps, LookupEndsKeeps DEF LookupStep
  <1>5. CASE UNCHANGED mmdbVars
    <2>1. /\ UNCHANGED <<file, written, changes, snapshot, MMDB_NODE_COUNT, MMDB_FILE_LOADED>>
          /\ UNCHANGED <<load_lock, pc, call, guard, answered>>
      BY <1>5 DEF mmdbVars, fileVars, swapVars, callVars, readVars
    <2>2. TypeOK' /\ FileInv' /\ LockInv'
      BY <2>1 DEF IInv, TypeOK, FileInv, LockInv, Seen
    <2>3. SnapshotInv' /\ MetricsInv' /\ LookupInv'
      BY <2>1 DEF IInv, SnapshotInv, MetricsInv, LookupInv, Seen, Age, Content
    <2>4. \A l \in Loaders : CallInv(l)'
      BY <2>1, CallStays DEF IInv
    <2> QED BY <2>2, <2>3, <2>4 DEF IInv
  <1> QED BY <1>1, <1>2, <1>3, <1>4, <1>5 DEF MmdbNext

(* The inductive invariant holds in every reachable state.                 *)
THEOREM Invariant == MmdbSpec => []IInv
  BY InitInv, StepInv, PTL DEF MmdbSpec

(* Every variable keeps its type.                                          *)
THEOREM TypeCorrect == MmdbSpec => []TypeOK
  <1>1. IInv => TypeOK
    BY DEF IInv
  <1> QED BY <1>1, Invariant, PTL

(* The number of a version lies between one and the number of changes.     *)
LEMMA AgeBounds ==
    ASSUME IInv, NEW v, Seen(v)
    PROVE  Age(v) \in 0 .. changes /\ changes \in Nat /\ (v # NoFile => Age(v) # 0)
  <1>1. changes \in Nat
    BY DEF IInv, TypeOK
  <1>2. CASE v = NoFile
    BY <1>1, <1>2 DEF Age
  <1>3. CASE v # NoFile
    <2>1. v \in Mtimes /\ written[v].at \in 1 .. changes
      BY <1>3 DEF IInv, FileInv, Seen
    <2> QED BY <1>1, <1>3, <2>1 DEF Age
  <1> QED BY <1>2, <1>3

(* The label that names the file on disk is that of its bytes: the label   *)
(* is not more recent than the bytes, and nothing is more recent than the  *)
(* file.                                                                   *)
LEMMA FreshLabelHolds ==
    ASSUME IInv
    PROVE  FreshLabel
  <1> SUFFICES ASSUME file # NoFile, snapshot.modified = file PROVE snapshot.source = file
    BY DEF FreshLabel
  <1>1. file \in Mtimes /\ written[file] # Unwritten /\ written[file].at = changes
    BY DEF IInv, FileInv, Seen
  <1>2. changes \in Nat /\ 1 <= changes
    BY <1>1 DEF IInv, TypeOK, FileInv
  <1>3. changes <= Age(snapshot.source)
    BY <1>1, <1>2 DEF IInv, SnapshotInv, Age
  <1>4. snapshot.source \in Mtimes /\ changes <= written[snapshot.source].at
    BY <1>2, <1>3 DEF IInv, SnapshotInv, Seen, Age, NoFile
  <1>5. Age(snapshot.source) \in 0 .. changes
    BY <1>2, AgeBounds DEF IInv, SnapshotInv
  <1>6. written[snapshot.source].at = changes
    BY <1>2, <1>3, <1>4, <1>5 DEF Age, NoFile
  <1> QED BY <1>1, <1>4, <1>6 DEF IInv, FileInv

(* reload_if_changed never skips a file whose bytes are not being served.  *)
THEOREM FreshLabelCorrect == MmdbSpec => []FreshLabel
  <1>1. IInv => FreshLabel
    BY FreshLabelHolds
  <1> QED BY <1>1, Invariant, PTL

(* The snapshot changes in a store only, and there it gives way to the     *)
(* bytes of a version at least as recent.                                  *)
LEMMA SnapshotSteps ==
    ASSUME IInv, [MmdbNext]_mmdbVars
    PROVE  \/ snapshot' = snapshot
           \/ \E l \in Loaders : Store(l) /\ snapshot'.source = call[l].bytes
                                 /\ Age(call[l].bytes) >= Age(snapshot.source)
  <1>1. CASE FileChanges \/ Calls \/ (\E r \in Lookups : LookupStep(r)) \/ UNCHANGED mmdbVars
    BY <1>1 DEF FileChanges, TouchFile, ReplaceFile, RemoveFile, Calls, Call, LookupStep,
                LookupStarts, LookupEnds, mmdbVars, swapVars
  <1>2. ASSUME NEW l \in Loaders, Store(l)
        PROVE  snapshot'.source = call[l].bytes /\ Age(call[l].bytes) >= Age(snapshot.source)
    <2>1. Age(call[l].bytes) \in Nat /\ Age(snapshot.source) \in Nat
      BY DEF IInv, TypeOK, Age, CallRecords, Versions
    <2> QED BY <1>2, <2>1 DEF IInv, CallInv, Store, Labelled
  <1>3. ASSUME NEW l \in Loaders, LoaderStep(l), ~Store(l) PROVE snapshot' = snapshot
    BY <1>3 DEF LoaderStep, Lock, StatUnchanged, Stat, StatFailsInLoad, StatFailsInReload,
                ReadAndParse, ReadOrParseFails, Count, swapVars
  <1> QED BY <1>1, <1>2, <1>3 DEF MmdbNext

(* Two loads never overlap, so no snapshot gives way to an earlier one.    *)
THEOREM NeverOlderCorrect == MmdbSpec => NeverOlder
  <1>1. IInv /\ [MmdbNext]_mmdbVars => [Age(snapshot'.source) >= Age(snapshot.source)]_mmdbVars
    <2> SUFFICES ASSUME IInv, [MmdbNext]_mmdbVars
                 PROVE  Age(snapshot'.source) >= Age(snapshot.source)
      OBVIOUS
    <2>1. Age(snapshot.source) \in Nat
      BY DEF IInv, TypeOK, Age, Versions
    <2> QED BY <2>1, SnapshotSteps
  <1> QED BY <1>1, Invariant, PTL DEF MmdbSpec, NeverOlder

(* A call that returned Ok leaves a snapshot no older than the file was    *)
(* when it was made, whatever the other threads were doing.                *)
THEOREM OkMeansCaughtUpCorrect == MmdbSpec => OkMeansCaughtUp
  <1> DEFINE CaughtUp ==
        \A l \in Loaders :
          StatUnchanged(l) \/ Count(l) => Age(snapshot.source) >= Age(call[l].asked)
  <1>1. IInv => CaughtUp
    <2> SUFFICES ASSUME IInv, NEW l \in Loaders, StatUnchanged(l) \/ Count(l)
                 PROVE  Age(snapshot.source) >= Age(call[l].asked)
      OBVIOUS
    <2>1. /\ Age(snapshot.source) \in Nat /\ Age(snapshot.modified) \in Nat
          /\ Age(call[l].asked) \in Nat
      BY DEF IInv, TypeOK, Age, CallRecords, Versions
    <2>2. CASE StatUnchanged(l)
      <3>1. snapshot.modified = file /\ file # NoFile
        BY <2>2 DEF StatUnchanged, LoadedFrom
      <3>2. Age(snapshot.modified) = changes /\ changes \in Nat
        BY <3>1 DEF IInv, TypeOK, FileInv, Age
      <3>3. Age(call[l].asked) <= changes
        BY AgeBounds DEF IInv, CallInv
      <3> QED BY <2>1, <3>2, <3>3 DEF IInv, SnapshotInv
    <2>3. CASE Count(l)
      BY <2>1, <2>3 DEF IInv, CallInv, Count
    <2> QED BY <2>2, <2>3
  <1>2. IInv /\ [MmdbNext]_mmdbVars => [CaughtUp]_mmdbVars
    BY <1>1
  <1> QED BY <1>2, Invariant, PTL DEF MmdbSpec, OkMeansCaughtUp

(* Triggers that follow each other parse a version once, as long as the    *)
(* label of the snapshot names the version its bytes came from.            *)
THEOREM ParsesOnceCorrect == MmdbSpec => ParsesOnce
  <1> DEFINE Once ==
        \A l \in Loaders :
          Store(l) /\ call[l].function = "reload_if_changed" /\ call[l].bytes = snapshot.source
            => snapshot.modified # snapshot.source
  <1>1. IInv => Once
    <2> SUFFICES ASSUME IInv, NEW l \in Loaders, Store(l),
                        call[l].function = "reload_if_changed", call[l].bytes = snapshot.source,
                        snapshot.modified = snapshot.source
                 PROVE  FALSE
      OBVIOUS
    <2>1. /\ call[l].modified # NoFile /\ call[l].modified # snapshot.modified
          /\ Age(call[l].modified) >= Age(snapshot.source)
          /\ call[l].bytes # NoFile
          /\ Age(call[l].modified) <= Age(call[l].bytes)
      BY DEF IInv, CallInv, Store
    <2>2. /\ Age(call[l].modified) \in Nat /\ Age(call[l].bytes) \in Nat
          /\ call[l].modified \in Mtimes /\ call[l].bytes \in Mtimes
      BY <2>1 DEF IInv, TypeOK, Age, CallRecords, Versions
    <2>3. Age(call[l].modified) = Age(call[l].bytes)
      BY <2>1, <2>2
    <2>4. written[call[l].modified].at = written[call[l].bytes].at
          /\ written[call[l].modified] # Unwritten
      BY <2>1, <2>2, <2>3 DEF IInv, CallInv, Seen, Age
    <2> QED BY <2>1, <2>2, <2>4 DEF IInv, FileInv
  <1>2. IInv /\ [MmdbNext]_mmdbVars => [Once]_mmdbVars
    BY <1>1
  <1> QED BY <1>2, Invariant, PTL DEF MmdbSpec, ParsesOnce

(* While no load runs, the gauge and the counter describe the snapshot.    *)
THEOREM MetricsCorrect == MmdbSpec => []MetricsDescribeSnapshot
  <1>1. IInv => MetricsDescribeSnapshot
    <2> SUFFICES ASSUME IInv, load_lock = Unlocked PROVE MetricsDescribeSnapshot
      BY DEF MetricsDescribeSnapshot
    <2>1. \A l \in Loaders : pc[l] \notin {"store", "count"}
      BY LoaderAssumption DEF IInv, LockInv, Locked
    <2>2. snapshot = NoSnapshot <=> snapshot.source = NoFile
      <3>1. Age(snapshot.modified) \in Nat /\ (snapshot.modified # NoFile => Age(snapshot.modified) # 0)
        BY AgeBounds DEF IInv, SnapshotInv
      <3>2. snapshot.source = NoFile => snapshot.modified = NoFile
        BY <3>1 DEF IInv, SnapshotInv, Age
      <3> QED BY <3>2 DEF IInv, TypeOK, NoSnapshot
    <2> QED BY <2>1, <2>2 DEF IInv, MetricsInv, MetricsDescribeSnapshot
  <1> QED BY <1>1, Invariant, PTL

-----------------------------------------------------------------------------
(* The refinement of HotSwap: databases by content and age.                *)

(* A version seen stands for the same database after any step.             *)
LEMMA DatabaseStays ==
    ASSUME IInv, [MmdbNext]_mmdbVars, NEW v \in Versions, Seen(v)
    PROVE  Database(v)' = Database(v)
  <1>1. CASE written' = written
    BY <1>1 DEF Database, Content, Age
  <1>2. CASE written' # written
    <2>1. PICK m \in Mtimes, content \in Contents : WriteFile(m, content)
      <3>1. \A m \in Mtimes : TouchFile(m) => Content(file) \in Contents
        BY DEF IInv, FileInv, Seen, TouchFile, Content
      <3>2. FileChanges /\ ~RemoveFile
        BY <1>2 DEF MmdbNext, RemoveFile, mmdbVars, fileVars, Calls, Call, LookupStep, LookupStarts,
                    LookupEnds, LoaderStep, Lock, StatUnchanged, Stat, StatFailsInLoad,
                    StatFailsInReload, ReadAndParse, ReadOrParseFails, Store, Count
      <3> QED BY <3>1, <3>2 DEF FileChanges, TouchFile, ReplaceFile
    <2>2. v = NoFile \/ written'[v] = written[v]
      BY <2>1, WrittenStays DEF IInv, Seen
    <2> QED BY <2>2 DEF Database, Content, Age
  <1> QED BY <1>1, <1>2

(* The database served is the same one as long as the snapshot is.         *)
LEMMA ServedStays ==
    ASSUME IInv, [MmdbNext]_mmdbVars, snapshot' = snapshot
    PROVE  Database(snapshot.source)' = Database(snapshot.source)
  <1>1. PICK v \in Versions : v = snapshot.source
    BY DEF IInv, TypeOK
  <1>2. Database(v)' = Database(v)
    BY <1>1, DatabaseStays DEF IInv, SnapshotInv
  <1> QED BY <1>1, <1>2 DEF Database, Content, Age

(* The database a lookup uses is the same one until its next lookup.       *)
LEMMA UsedStays ==
    ASSUME IInv, [MmdbNext]_mmdbVars, NEW r \in Lookups, Used(r)' = Used(r)
    PROVE  Database(Used(r))' = Database(Used(r))
  <1>1. PICK v \in Versions : v = Used(r)
    BY DEF IInv, TypeOK, Used
  <1>2. Database(v)' = Database(v)
    BY <1>1, DatabaseStays DEF IInv, LookupInv, Used
  <1> QED BY <1>1, <1>2 DEF Database, Content, Age

(* The database holder implements HotSwap: whole, valid databases that     *)
(* only become more recent, and lookups that take effect at one moment.    *)
THEOREM KeepsPromiseCorrect == MmdbSpec => KeepsPromise
  <1>1. MmdbInit => Promise!Init
    BY DEF MmdbInit, Promise!Init, Promise!Nothing, Database, Content, Age, Used, NoSnapshot, NoFile
  <1>2. IInv /\ [MmdbNext]_mmdbVars => [Promise!Next]_(Promise!hotVars)
    <2> SUFFICES ASSUME IInv, [MmdbNext]_mmdbVars PROVE [Promise!Next]_(Promise!hotVars)
      OBVIOUS
    <2> DEFINE served == Database(snapshot.source)
               reply == [r \in Lookups |-> Database(Used(r))]
    <2>1. CASE \E l \in Loaders : Store(l)
      <3>1. PICK l \in Loaders : Store(l)
        BY <2>1
      <3>2. reply' = reply
        <4>1. \A r \in Lookups : Used(r)' = Used(r)
          BY <3>1 DEF Store, Used, readVars
        <4> QED BY <4>1, UsedStays
      <3>3. /\ Seen(call[l].bytes) /\ Seen(snapshot.source) /\ call[l].bytes # NoFile
            /\ Age(call[l].bytes) >= Age(snapshot.source)
            /\ Content(call[l].bytes) \in ValidContents
        BY <3>1, SnapshotSteps DEF IInv, CallInv, SnapshotInv, Store
      <3>4. served' = Database(call[l].bytes)
        BY <3>1 DEF IInv, TypeOK, Store, Labelled, fileVars, Database, Content, Age
      <3>5. Age(call[l].bytes) \in Nat /\ Age(snapshot.source) \in Nat
        BY <3>3, AgeBounds
      <3>6. CASE Age(call[l].bytes) > Age(snapshot.source)
        <4>1. served'.age > served.age /\ served' \in [content : ValidContents, age : Nat]
          BY <3>3, <3>4, <3>5, <3>6 DEF Database
        <4> QED BY <3>2, <4>1 DEF Promise!Next, Promise!Swap
      <3>7. CASE Age(call[l].bytes) = Age(snapshot.source)
        <4>1. call[l].bytes = snapshot.source
          BY <3>3, <3>7, AgeBounds DEF IInv, FileInv, Seen, Age
        <4> QED BY <3>2, <3>4, <4>1 DEF Promise!hotVars
      <3> QED BY <3>3, <3>5, <3>6, <3>7
    <2>2. CASE \E r \in Lookups : LookupStarts(r)
      <3>1. PICK r \in Lookups : LookupStarts(r)
        BY <2>2
      <3>2. snapshot' = snapshot
        BY <3>1 DEF LookupStarts, swapVars
      <3>3. served' = served
        BY <3>2, ServedStays
      <3>4. \A s \in Lookups \ {r} : Used(s)' = Used(s)
        BY <3>1 DEF IInv, TypeOK, LookupStarts, Used
      <3>5. Used(r)' = snapshot.source
        <4>1. guard'[r] = snapshot.source
          BY <3>1 DEF IInv, TypeOK, LookupStarts
        <4>2. snapshot.source # Released
          <5>1. snapshot.source \in Mtimes \/ snapshot.source = 0
            BY DEF IInv, TypeOK, Versions, NoFile
          <5>2. Released \notin Nat /\ 0 \in Nat /\ \A m \in Mtimes : m \in Nat
            OBVIOUS
          <5> QED BY <5>1, <5>2
        <4> QED BY <4>1, <4>2 DEF Used
      <3>6. Database(Used(r))' = served
        BY <3>1, <3>5 DEF LookupStarts, fileVars, Database, Content, Age
      <3>7. reply' = [reply EXCEPT ![r] = served]
        BY <3>4, <3>6, UsedStays
      <3> QED BY <3>3, <3>7 DEF Promise!Next, Promise!Query
    <2>3. CASE ~(\E l \in Loaders : Store(l)) /\ ~(\E r \in Lookups : LookupStarts(r))
      <3>1. snapshot' = snapshot
        BY <2>3, SnapshotSteps
      <3>2. \A r \in Lookups : Used(r)' = Used(r)
        <4>1. CASE UNCHANGED readVars
          BY <4>1 DEF readVars, Used
        <4>2. CASE \E s \in Lookups : LookupEnds(s)
          BY <4>2 DEF IInv, TypeOK, LookupEnds, Used
        <4> QED
          BY <2>3, <4>1, <4>2 DEF MmdbNext, mmdbVars, LookupStep, FileChanges, TouchFile, ReplaceFile,
             RemoveFile, Calls, Call, LoaderStep, Lock, StatUnchanged, Stat, StatFailsInLoad,
             StatFailsInReload, ReadAndParse, ReadOrParseFails, Count
      <3>3. served' = served /\ reply' = reply
        BY <3>1, <3>2, ServedStays, UsedStays
      <3> QED BY <3>3 DEF Promise!hotVars
    <2> QED BY <2>1, <2>2, <2>3
  <1> QED BY <1>1, <1>2, Invariant, PTL DEF MmdbSpec, KeepsPromise, Promise!Spec

=============================================================================
