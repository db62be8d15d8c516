------------------------ MODULE ReconfigurationProofs ------------------------
(***************************************************************************)
(* Safety of the settings over restarts, for every set of remotes and      *)
(* branches and any number of restarts: a clone holds the branches of one  *)
(* remote.                                                                 *)
(***************************************************************************)
EXTENDS Reconfiguration, TLAPS

USE SettingsAssumption

\* A clone record: its references were fetched under their own names.
Clones ==
    [exists : BOOLEAN, url : Urls \cup {NoUrl},
     refs : {r \in [Branches -> Commits \cup {NoCommit}] :
                \A b \in Branches : r[b] = NoCommit \/ r[b].branch = b}]

(* The parts of the type invariant, with the clone as a record.            *)
TypesInv ==
    /\ now \in 1 .. MaxTime
    /\ tips \in [Urls -> [Branches -> 1 .. MaxTime]]
    /\ settings \in Settings
    /\ clone \in Clones
    /\ mmdb \in [from : Commits \cup {NoCommit}, ignore_country : BOOLEAN, mtime : 0 .. now]
    /\ pc \in {"idle", "fetched"} /\ restarts \in 0 .. MaxRestarts

(* A clone without an origin has no branches yet.                          *)
OriginInv == clone.url = NoUrl => \A b \in Branches : clone.refs[b] = NoCommit

SettingsInv == TypesInv /\ OriginInv /\ OneOrigin

-----------------------------------------------------------------------------
(* What a fetch finds is a commit of the branch that was asked for.        *)
LEMMA TipIsACommit ==
    ASSUME TypesInv, NEW u \in Urls, NEW b \in Branches
    PROVE  /\ Tip(u, b) \in Commits /\ Tip(u, b).branch = b /\ Tip(u, b).url = u
           /\ Tip(u, b) # NoCommit
  BY DEF TypesInv, Tip, Commits, NoCommit

(* A directory without a clone.                                            *)
LEMMA EmptyClones ==
    /\ NoClone \in Clones /\ [NoClone EXCEPT !.exists = TRUE] \in Clones
    /\ NoClone.url = NoUrl /\ \A b \in Branches : NoClone.refs[b] = NoCommit
  <1> DEFINE refs == [b \in Branches |-> NoCommit]
  <1>1. refs \in {r \in [Branches -> Commits \cup {NoCommit}] :
                     \A b \in Branches : r[b] = NoCommit \/ r[b].branch = b}
    OBVIOUS
  <1>2. NoClone = [exists |-> FALSE, url |-> NoUrl, refs |-> refs]
    BY DEF NoClone
  <1> HIDE DEF refs
  <1>3. NoClone \in Clones /\ [NoClone EXCEPT !.exists = TRUE] \in Clones
    BY <1>1, <1>2 DEF Clones
  <1>4. NoClone.url = NoUrl /\ \A b \in Branches : NoClone.refs[b] = NoCommit
    BY DEF NoClone
  <1> QED BY <1>3, <1>4

(* The first start finds no branches.                                      *)
LEMMA InitKeeps ==
    ASSUME Init
    PROVE  SettingsInv
  <1>1. clone \in Clones /\ clone.url = NoUrl /\ \A b \in Branches : clone.refs[b] = NoCommit
    BY EmptyClones DEF Init, Clones
  <1>2. TypesInv
    BY <1>1 DEF Init, TypesInv, Absent
  <1> QED BY <1>1, <1>2 DEF SettingsInv, OriginInv, OneOrigin

(* Publications, restarts and a removed database leave the clone as it is, *)
(* or remove it.                                                           *)
LEMMA OthersKeep ==
    ASSUME SettingsInv,
           (\E url \in Urls, branch \in Branches : Publish(url, branch)) \/ Restart \/ RemoveMmdb
    PROVE  SettingsInv'
  <1>1. clone' \in {clone, NoClone}
    BY DEF Publish, Restart, RemoveMmdb
  <1>2. clone' \in Clones /\ OriginInv' /\ OneOrigin'
    <2>1. CASE clone' = clone
      BY <2>1 DEF SettingsInv, TypesInv, OriginInv, OneOrigin
    <2>2. CASE clone' = NoClone
      BY <2>2, EmptyClones DEF OriginInv, OneOrigin
    <2> QED BY <1>1, <2>1, <2>2
  <1>3. TypesInv'
    <2>1. CASE \E url \in Urls, branch \in Branches : Publish(url, branch)
      BY <1>2, <2>1 DEF SettingsInv, TypesInv, Publish
    <2>2. CASE Restart
      BY <1>2, <2>2 DEF SettingsInv, TypesInv, Restart
    <2>3. CASE RemoveMmdb
      BY <1>2, <2>3 DEF SettingsInv, TypesInv, RemoveMmdb, Absent
    <2> QED BY <2>1, <2>2, <2>3
  <1> QED BY <1>2, <1>3 DEF SettingsInv

(* A clone and a fetch ask one remote.                                     *)
LEMMA FetchedKeeps ==
    ASSUME SettingsInv, Clone \/ Fetch
    PROVE  SettingsInv'
  <1> DEFINE refs == {r \in [Branches -> Commits \cup {NoCommit}] :
                         \A b \in Branches : r[b] = NoCommit \/ r[b].branch = b}
  <1>1. settings.url \in Urls /\ settings.branch \in Branches /\ clone \in Clones
    BY DEF SettingsInv, TypesInv, Settings
  <1>2. PICK u \in Urls, r \in refs :
          /\ clone' = [exists |-> TRUE, url |-> u, refs |-> r]
          /\ \A b \in Branches : r[b] # NoCommit => r[b].url = u
    <2>1. CASE Clone
      <3> DEFINE r == [b \in Branches |-> Tip(settings.url, b)]
      <3>1. r \in refs /\ \A b \in Branches : r[b].url = settings.url
        BY <1>1, TipIsACommit DEF SettingsInv
      <3>2. clone' = [exists |-> TRUE, url |-> settings.url, refs |-> r]
        BY <2>1 DEF Clone, Fetched
      <3> HIDE DEF r
      <3> QED BY <1>1, <3>1, <3>2
    <2>2. CASE Fetch
      <3> DEFINE tip == Tip(Origin, settings.branch)
                 r == [clone.refs EXCEPT ![settings.branch] = tip]
      <3>1. Origin \in Urls
        BY <1>1 DEF Origin, Clones
      <3>2. tip \in Commits /\ tip.branch = settings.branch /\ tip.url = Origin
        BY <1>1, <3>1, TipIsACommit DEF SettingsInv
      <3>3. clone.refs \in refs
        BY <1>1 DEF Clones
      <3> HIDE DEF tip
      <3>4. r \in refs
        BY <1>1, <3>2, <3>3
      <3>5. \A b \in Branches : r[b] # NoCommit => r[b].url = Origin
        BY <1>1, <3>2, <3>3 DEF SettingsInv, OriginInv, OneOrigin, Origin
      <3>6. clone' = [exists |-> TRUE, url |-> Origin, refs |-> r]
        BY <1>1, <2>2 DEF Fetch, Fetched, Clones, tip
      <3> HIDE DEF r
      <3> QED BY <3>1, <3>4, <3>5, <3>6
    <2> QED BY <2>1, <2>2
  <1>3. clone' \in Clones /\ clone'.url = u /\ clone'.refs = r
    BY <1>2 DEF Clones
  <1>4. TypesInv'
    BY <1>3 DEF SettingsInv, TypesInv, Clone, Fetch, Fetched
  <1>5. OriginInv' /\ OneOrigin'
    BY <1>2, <1>3 DEF OriginInv, OneOrigin
  <1> QED BY <1>4, <1>5 DEF SettingsInv

(* The comparison and the build read the clone.                            *)
LEMMA BuildKeeps ==
    ASSUME SettingsInv, UpToDate \/ Rebuild
    PROVE  SettingsInv'
  <1>1. clone' = clone
    BY DEF UpToDate, Rebuild
  <1>2. OriginInv' /\ OneOrigin'
    BY <1>1 DEF SettingsInv, OriginInv, OneOrigin
  <1>3. TypesInv'
    <2>1. CASE UpToDate
      BY <2>1 DEF SettingsInv, TypesInv, UpToDate
    <2>2. CASE Rebuild
      <3>1. settings.branch \in Branches /\ settings.ignore_country \in BOOLEAN /\ clone \in Clones
        BY DEF SettingsInv, TypesInv, Settings
      <3>2. clone.refs \in [Branches -> Commits \cup {NoCommit}]
        BY <3>1 DEF Clones
      <3>3. RemoteTip \in Commits \cup {NoCommit}
        BY <3>1, <3>2 DEF RemoteTip
      <3>4. now \in 0 .. now
        BY DEF SettingsInv, TypesInv
      <3> QED BY <2>2, <3>1, <3>3, <3>4 DEF SettingsInv, TypesInv, Rebuild
    <2> QED BY <2>1, <2>2
  <1> QED BY <1>2, <1>3 DEF SettingsInv

-----------------------------------------------------------------------------
(* The theorems.                                                           *)

(* The clone, the settings and the database stay of one piece.             *)
THEOREM SettingsInvariant == Spec => []SettingsInv
  <1>1. Init => SettingsInv
    BY InitKeeps
  <1>2. SettingsInv /\ [Next]_vars => SettingsInv'
    <2>1. ASSUME SettingsInv, UNCHANGED vars
          PROVE  SettingsInv'
      BY <2>1 DEF vars, SettingsInv, TypesInv, OriginInv, OneOrigin
    <2> QED
      BY <2>1, OthersKeep, FetchedKeeps, BuildKeeps DEF Next, Update
  <1> QED BY <1>1, <1>2, PTL DEF Spec

(* git.rs never mixes the branches of two remotes in one clone, and so     *)
(* never compares commit times of different publishers.                    *)
THEOREM OneOriginCorrect == Spec => []OneOrigin
  <1>1. SettingsInv => OneOrigin
    BY DEF SettingsInv
  <1> QED BY <1>1, SettingsInvariant, PTL

(* The variables of the reconfiguration keep their types.                  *)
THEOREM SettingsTypeCorrect == Spec => []SettingsTypeOK
  <1>1. SettingsInv => SettingsTypeOK
    <2>1. ASSUME TypesInv, NEW b \in Branches
          PROVE  clone.refs[b] \in {c \in Commits : c.branch = b} \cup {NoCommit}
      BY <2>1 DEF TypesInv, Clones
    <2>2. TypesInv => clone.exists \in BOOLEAN /\ clone.url \in Urls \cup {NoUrl}
      BY DEF TypesInv, Clones
    <2>3. TypesInv => mmdb.from \in Commits \cup {NoCommit} /\ mmdb.ignore_country \in BOOLEAN
                      /\ mmdb.mtime \in 0 .. now
      BY DEF TypesInv
    <2> QED BY <2>1, <2>2, <2>3 DEF SettingsInv, TypesInv, SettingsTypeOK
  <1> QED BY <1>1, SettingsInvariant, PTL
=============================================================================
