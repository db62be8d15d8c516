------------------------- MODULE VerdictCacheProofs -------------------------
(***************************************************************************)
(* Safety of the verdict cache, for every set of addresses and             *)
(* connections, every expiry and every number of databases: cached         *)
(* verdicts come from the agent, a settled one stays as it is, and a       *)
(* request that was answered bad is served only behind another answer.     *)
(***************************************************************************)
EXTENDS VerdictCache, TLAPS

USE CacheAssumption

(* The variable of a session is unset or an answer about its client, and   *)
(* so is the answer to its request; only a variable that is set is stored. *)
SessionsAnswered ==
    \A s \in Sessions :
        /\ session[s].var = Unset \/ Answered(session[s].var, session[s].ip)
        /\ session[s].ack = Unset \/ Answered(session[s].ack, session[s].ip)
        /\ session[s].stage = "set-gpt0" => session[s].var # Unset

(* A request that was answered meets a verdict at its last rule.           *)
RequestsJudged ==
    \A s \in Sessions :
        session[s].stage = "silent-drop" /\ session[s].ack # Unset =>
            table[session[s].ip].gpt0 # Unknown

CacheInv == CacheTypeOK /\ VerdictFromAgent /\ SessionsAnswered /\ RequestsJudged

-----------------------------------------------------------------------------
(* Entries of the table and what the rules do to them.                     *)

Entries == [gpt0 : {Unknown, Good, Bad}, left : 0 .. Expire, by : Nat]

SessionRecords ==
    [ip : Addresses \cup {NoAddress},
     stage : {"closed", "idle", "asking", "acked", "set-gpt0", "silent-drop"},
     var : Variables, ack : Variables]

(* An entry that a tick passes over keeps its verdict or is gone.          *)
LEMMA TickOfEntry ==
    ASSUME NEW entry \in Entries
    PROVE  /\ OneTickLess(entry) \in Entries
           /\ OneTickLess(entry) = NoEntry
              \/ (OneTickLess(entry).gpt0 = entry.gpt0 /\ OneTickLess(entry).by = entry.by)
  BY DEF OneTickLess, NoEntry, Entries, Unknown, Good, Bad

(* sc-set-gpt0 gives an entry the verdict of the variable; a request that  *)
(* begins leaves it its verdict.                                           *)
LEMMA VerdictOfEntry ==
    ASSUME NEW entry \in Entries, NEW var \in Variables
    PROVE  /\ Judged(entry, var) \in Entries /\ Judged(entry, var).by = var.by
           /\ Judged(entry, var).gpt0 = IF var.ip_bad THEN Bad ELSE Good
           /\ Judged(entry, var).gpt0 # Unknown
           /\ Refreshed(entry) \in Entries /\ Refreshed(entry).by = entry.by
           /\ Refreshed(entry).gpt0 = entry.gpt0
  <1>1. (IF var.ip_bad THEN Bad ELSE Good) \in {Good, Bad} /\ Unknown \notin {Good, Bad} /\ var.by \in Nat
    BY DEF Variables, Unknown, Good, Bad
  <1>2. Expire \in 0 .. Expire
    OBVIOUS
  <1>3. /\ Judged(entry, var) \in Entries /\ Judged(entry, var).by = var.by
        /\ Judged(entry, var).gpt0 = IF var.ip_bad THEN Bad ELSE Good
    BY <1>1 DEF Judged, Entries
  <1>4. /\ Refreshed(entry) \in Entries /\ Refreshed(entry).by = entry.by
        /\ Refreshed(entry).gpt0 = entry.gpt0
    BY <1>2 DEF Refreshed, Entries
  <1> QED BY <1>1, <1>3, <1>4

(* A connection that is closed holds nothing.                              *)
LEMMA ClosedSession ==
    /\ Closed \in SessionRecords
    /\ Closed.ip = NoAddress /\ Closed.stage = "closed" /\ Closed.var = Unset /\ Closed.ack = Unset
  BY DEF Closed, Unset, SessionRecords, Variables

(* A new database changes no earlier answer.                               *)
LEMMA AnswersStay ==
    ASSUME CacheTypeOK, CacheTypeOK', Swap
    PROVE  /\ Latest' = Latest + 1 /\ Latest \in Nat
           /\ \A i \in 1 .. Latest : databases'[i] = databases[i] /\ i \in 1 .. Latest'
  BY DEF CacheTypeOK, Swap, Latest

-----------------------------------------------------------------------------
(* One lemma per action, or for actions that move alike.                   *)

(* Nothing is cached, and no connection is open.                           *)
LEMMA InitKeeps ==
    ASSUME Init
    PROVE  CacheInv
  <1>1. databases \in Seq(SUBSET Addresses) /\ Len(databases) = 1
    <2>1. {} \in SUBSET Addresses /\ databases = <<{}>>
      BY DEF Init
    <2> QED BY <2>1
  <1>2. NoEntry \in Entries /\ Closed \in SessionRecords
    BY DEF NoEntry, Entries, Closed, Unset, SessionRecords, Variables, Unknown
  <1>3. CacheTypeOK
    BY <1>1, <1>2 DEF Init, CacheTypeOK, Latest, Entries, SessionRecords, Closed
  <1>4. VerdictFromAgent
    BY DEF Init, VerdictFromAgent, NoEntry
  <1>5. SessionsAnswered /\ RequestsJudged
    BY DEF Init, SessionsAnswered, RequestsJudged, Closed
  <1> QED BY <1>3, <1>4, <1>5 DEF CacheInv

(* The agent serves another database.                                      *)
LEMMA SwapKeeps ==
    ASSUME CacheInv, Swap
    PROVE  CacheInv'
  <1>1. CacheTypeOK'
    BY DEF CacheInv, CacheTypeOK, Swap, Latest, Variables
  <1>2. /\ Latest' = Latest + 1 /\ Latest \in Nat
        /\ \A i \in 1 .. Latest : databases'[i] = databases[i] /\ i \in 1 .. Latest'
    BY <1>1, AnswersStay DEF CacheInv
  <1>3. VerdictFromAgent'
    BY <1>2 DEF CacheInv, VerdictFromAgent, Swap
  <1>4. SessionsAnswered'
    BY <1>2 DEF CacheInv, SessionsAnswered, Answered, Swap
  <1>5. RequestsJudged'
    BY DEF CacheInv, RequestsJudged, Swap
  <1> QED BY <1>1, <1>3, <1>4, <1>5 DEF CacheInv

(* The agent goes down or up, and entries leave the table.                 *)
LEMMA TableKeeps ==
    ASSUME CacheInv, GoesDownOrUp \/ Tick \/ \E ip \in Addresses : Purge(ip)
    PROVE  CacheInv'
  <1>1. /\ UNCHANGED <<databases, session>> /\ up' \in BOOLEAN
        /\ table \in [Addresses -> Entries]
    BY DEF CacheInv, CacheTypeOK, GoesDownOrUp, Tick, Purge, Entries
  <1>2. NoEntry \in Entries
    BY DEF NoEntry, Entries, Unknown
  <1>3. /\ table' \in [Addresses -> Entries]
        /\ \A ip \in Addresses :
              table'[ip] = NoEntry \/ (table'[ip].gpt0 = table[ip].gpt0 /\ table'[ip].by = table[ip].by)
    <2>1. CASE GoesDownOrUp
      BY <1>1, <2>1 DEF GoesDownOrUp
    <2>2. CASE Tick
      BY <1>1, <2>2, TickOfEntry DEF Tick
    <2>3. CASE \E ip \in Addresses : Purge(ip)
      BY <1>1, <1>2, <2>3 DEF Purge
    <2> QED BY <2>1, <2>2, <2>3
  <1>4. CacheTypeOK'
    BY <1>1, <1>3 DEF CacheInv, CacheTypeOK, Latest, Entries
  <1>5. VerdictFromAgent'
    BY <1>1, <1>3 DEF CacheInv, VerdictFromAgent, NoEntry, Latest
  <1>6. SessionsAnswered'
    BY <1>1 DEF CacheInv, SessionsAnswered, Answered, Latest
  <1>7. RequestsJudged'
    <2> SUFFICES ASSUME NEW s \in Sessions, session[s].stage = "silent-drop", session[s].ack # Unset
                 PROVE  table'[session[s].ip].gpt0 # Unknown
      BY <1>1 DEF RequestsJudged
    <2>1. session[s].ip \in Addresses /\ Held(session[s].ip)
      BY DEF CacheInv, CacheTypeOK, Held
    <2>2. table'[session[s].ip] = table[session[s].ip]
      BY <1>1, <2>1 DEF GoesDownOrUp, Tick, Purge
    <2> QED BY <2>2 DEF CacheInv, RequestsJudged
  <1> QED BY <1>4, <1>5, <1>6, <1>7 DEF CacheInv

(* A step of one connection keeps the invariant if it leaves the           *)
(* connection an answered one, and every entry a verdict of the agent.     *)
LEMMA ConnectionKeeps ==
    ASSUME CacheInv, NEW s \in Sessions, NEW rest \in SessionRecords,
           UNCHANGED <<databases, up>>,
           session' = [session EXCEPT ![s] = rest],
           rest.ip = NoAddress <=> rest.stage = "closed",
           rest.var = Unset \/ Answered(rest.var, rest.ip),
           rest.ack = Unset \/ Answered(rest.ack, rest.ip),
           rest.stage = "set-gpt0" => rest.var # Unset,
           rest.stage = "silent-drop" /\ rest.ack # Unset => table'[rest.ip].gpt0 # Unknown,
           table' \in [Addresses -> Entries],
           \A ip \in Addresses : table[ip].gpt0 # Unknown => table'[ip].gpt0 # Unknown,
           VerdictFromAgent'
    PROVE  CacheInv'
  <1>1. session \in [Sessions -> SessionRecords]
    BY DEF CacheInv, CacheTypeOK, SessionRecords
  <1>2. CacheTypeOK'
    BY <1>1 DEF CacheInv, CacheTypeOK, Entries, SessionRecords, Latest
  <1>3. SessionsAnswered'
    BY <1>1 DEF CacheInv, SessionsAnswered, Answered, Latest
  <1>4. RequestsJudged'
    <2> SUFFICES ASSUME NEW t \in Sessions, session'[t].stage = "silent-drop", session'[t].ack # Unset
                 PROVE  table'[session'[t].ip].gpt0 # Unknown
      BY DEF RequestsJudged
    <2>1. CASE t = s
      BY <1>1, <2>1
    <2>2. CASE t # s
      <3>1. session'[t] = session[t]
        BY <1>1, <2>2
      <3>2. session[t].ip \in Addresses /\ table[session[t].ip].gpt0 # Unknown
        BY <3>1 DEF CacheInv, CacheTypeOK, RequestsJudged
      <3> QED BY <3>1, <3>2
    <2> QED BY <2>1, <2>2
  <1> QED BY <1>2, <1>3, <1>4 DEF CacheInv

(* What is known of a connection in any state.                             *)
LEMMA KnownConnection ==
    ASSUME CacheInv, NEW s \in Sessions
    PROVE  /\ session[s] \in SessionRecords /\ session[s].var \in Variables /\ session[s].ack \in Variables
           /\ session[s].stage # "closed" => session[s].ip \in Addresses /\ session[s].ip # NoAddress
           /\ session[s].var = Unset \/ Answered(session[s].var, session[s].ip)
           /\ session[s].ack = Unset \/ Answered(session[s].ack, session[s].ip)
           /\ table \in [Addresses -> Entries] /\ session \in [Sessions -> SessionRecords]
  BY DEF CacheInv, CacheTypeOK, SessionsAnswered, Entries, SessionRecords

(* A connection opens or closes, and the agent answers.                    *)
LEMMA SessionKeeps ==
    ASSUME CacheInv, NEW s \in Sessions, Open(s) \/ Close(s) \/ Answer(s) \/ SilentDrop(s)
    PROVE  CacheInv'
  <1>1. UNCHANGED <<databases, up, table>>
    BY DEF Open, Close, Answer, SilentDrop
  <1>2. /\ table' \in [Addresses -> Entries] /\ VerdictFromAgent'
        /\ \A ip \in Addresses : table[ip].gpt0 # Unknown => table'[ip].gpt0 # Unknown
    BY <1>1, KnownConnection DEF CacheInv, VerdictFromAgent, Latest
  <1>3. PICK rest \in SessionRecords :
          /\ session' = [session EXCEPT ![s] = rest]
          /\ rest.ip = NoAddress <=> rest.stage = "closed"
          /\ rest.var = Unset \/ Answered(rest.var, rest.ip)
          /\ rest.ack = Unset \/ Answered(rest.ack, rest.ip)
          /\ rest.stage \notin {"set-gpt0", "silent-drop"}
    <2>1. CASE Open(s)
      <3>1. PICK ip \in Addresses :
              session' = [session EXCEPT ![s] = [Closed EXCEPT !.ip = ip, !.stage = "idle"]]
        BY <2>1 DEF Open
      <3>2. [Closed EXCEPT !.ip = ip, !.stage = "idle"] \in SessionRecords
        BY DEF Closed, Unset, SessionRecords, Variables
      <3> QED BY <3>1, <3>2 DEF Closed
    <2>2. CASE Close(s)
      BY <2>2, ClosedSession DEF Close
    <2>3. CASE Answer(s)
      <3> DEFINE ack == [ip_bad |-> session[s].ip \in databases[Latest], by |-> Latest]
                 rest == [session[s] EXCEPT !.stage = "acked", !.ack = ack]
      <3>1. ack \in Variables /\ Answered(ack, session[s].ip)
        <4>1. Latest \in Nat /\ Latest \in 1 .. Latest
          BY DEF CacheInv, CacheTypeOK, Latest
        <4>2. (session[s].ip \in databases[Latest]) \in BOOLEAN
          OBVIOUS
        <4>3. ack \in Variables
          BY <4>1, <4>2 DEF Variables
        <4>4. Answered(ack, session[s].ip)
          BY <4>1, Zenon DEF Answered
        <4> QED BY <4>3, <4>4
      <3>2. rest \in SessionRecords /\ rest.ip = session[s].ip /\ rest.var = session[s].var
            /\ rest.stage = "acked" /\ rest.ack = ack
        BY <3>1, KnownConnection DEF SessionRecords
      <3>3. session' = [session EXCEPT ![s] = rest] /\ session[s].stage # "closed"
        BY <2>3 DEF Answer
      <3> HIDE DEF ack, rest
      <3> QED BY <3>1, <3>2, <3>3, KnownConnection
    <2>4. CASE SilentDrop(s)
      <3> DEFINE rest == [session[s] EXCEPT !.stage = "idle", !.ack = Unset]
      <3>1. rest \in SessionRecords /\ rest.ip = session[s].ip /\ rest.var = session[s].var
            /\ rest.stage = "idle" /\ rest.ack = Unset
        BY KnownConnection DEF SessionRecords, Unset, Variables
      <3>2. session' = [session EXCEPT ![s] = Closed] \/ session' = [session EXCEPT ![s] = rest]
        BY <2>4 DEF SilentDrop
      <3>3. session[s].stage # "closed"
        BY <2>4 DEF SilentDrop
      <3> HIDE DEF rest
      <3> QED BY <3>1, <3>2, <3>3, KnownConnection, ClosedSession
    <2> QED BY <2>1, <2>2, <2>3, <2>4
  <1> QED BY <1>1, <1>2, <1>3, ConnectionKeeps

(* A request begins: its client's entry is created or refreshed, and the   *)
(* agent is asked if there is no verdict.                                  *)
LEMMA RequestKeeps ==
    ASSUME CacheInv, NEW s \in Sessions, CachedRequest(s) \/ Ask(s)
    PROVE  CacheInv'
  <1> DEFINE ip == session[s].ip
             entry == Refreshed(table[ip])
  <1>1. PICK stage \in {"asking", "silent-drop"} :
          /\ session' = [session EXCEPT ![s] = [session[s] EXCEPT !.stage = stage]]
          /\ stage = "silent-drop" => table[ip].gpt0 # Unknown
    BY DEF CachedRequest, Ask
  <1> DEFINE rest == [session[s] EXCEPT !.stage = stage]
  <1>2. ip \in Addresses /\ ip # NoAddress
    BY KnownConnection DEF CachedRequest, Ask
  <1>3. table \in [Addresses -> Entries] /\ table' = [table EXCEPT ![ip] = entry] /\ UNCHANGED <<databases, up>>
    BY KnownConnection DEF CachedRequest, Ask
  <1>4. entry \in Entries /\ entry.by = table[ip].by /\ entry.gpt0 = table[ip].gpt0
    <2>1. table[ip] \in Entries
      BY <1>2, <1>3
    <2>2. Unset \in Variables
      BY DEF Unset, Variables
    <2> QED BY <2>1, <2>2, VerdictOfEntry
  <1>5. rest \in SessionRecords /\ rest.ip = ip /\ rest.var = session[s].var
        /\ rest.ack = session[s].ack /\ rest.stage = stage
    BY KnownConnection DEF SessionRecords
  <1> HIDE DEF entry, rest
  <1>6. table' \in [Addresses -> Entries]
        /\ \A a \in Addresses : table'[a].gpt0 = table[a].gpt0 /\ table'[a].by = table[a].by
    BY <1>2, <1>3, <1>4
  <1>7. VerdictFromAgent'
    BY <1>3, <1>6 DEF CacheInv, VerdictFromAgent, Latest
  <1>8. session' = [session EXCEPT ![s] = rest]
    BY <1>1 DEF rest
  <1>9. /\ rest.ip = NoAddress <=> rest.stage = "closed"
        /\ rest.stage # "set-gpt0"
        /\ rest.stage = "silent-drop" => table'[rest.ip].gpt0 # Unknown
    BY <1>1, <1>2, <1>5, <1>6
  <1>10. /\ rest.var = Unset \/ Answered(rest.var, rest.ip)
         /\ rest.ack = Unset \/ Answered(rest.ack, rest.ip)
    BY <1>5, KnownConnection
  <1> QED BY <1>3, <1>5, <1>6, <1>7, <1>8, <1>9, <1>10, ConnectionKeeps

(* The rules go on, with the answer or with the variable as it was.        *)
LEMMA GoesOnKeeps ==
    ASSUME CacheInv, NEW s \in Sessions, Acked(s) \/ TimesOut(s)
    PROVE  CacheInv'
  <1> DEFINE ip == session[s].ip
  <1>1. PICK var \in Variables, ack \in Variables :
          /\ GoesOn(s, var, ack)
          /\ var = Unset \/ Answered(var, ip)
          /\ ack = Unset \/ (var = ack /\ Answered(ack, ip))
    <2>1. Unset \in Variables
      BY DEF Unset, Variables
    <2>2. CASE Acked(s)
      BY <2>2, KnownConnection DEF Acked
    <2>3. CASE TimesOut(s)
      BY <2>1, <2>3, KnownConnection DEF TimesOut
    <2> QED BY <2>2, <2>3
  <1>2. ip \in Addresses /\ ip # NoAddress
    BY KnownConnection DEF Acked, TimesOut
  <1> DEFINE stage == NextRule(table[ip], var)
             rest == [session[s] EXCEPT !.stage = stage, !.var = var, !.ack = ack]
  <1>3. /\ stage \in {"set-gpt0", "silent-drop"}
        /\ stage = "set-gpt0" => var # Unset
        /\ stage = "silent-drop" => var = Unset \/ table[ip].gpt0 # Unknown
    BY DEF NextRule
  <1> HIDE DEF stage
  <1>4. rest \in SessionRecords /\ rest.ip = ip /\ rest.stage = stage /\ rest.var = var /\ rest.ack = ack
    BY <1>3, KnownConnection DEF SessionRecords
  <1>5. session' = [session EXCEPT ![s] = rest] /\ UNCHANGED <<databases, up, table>>
    BY <1>1 DEF GoesOn, stage
  <1>6. /\ table' \in [Addresses -> Entries] /\ VerdictFromAgent'
        /\ \A a \in Addresses : table[a].gpt0 # Unknown => table'[a].gpt0 # Unknown
    BY <1>5, KnownConnection DEF CacheInv, VerdictFromAgent, Latest
  <1> HIDE DEF rest
  <1>7. /\ rest.ip = NoAddress <=> rest.stage = "closed"
        /\ rest.var = Unset \/ Answered(rest.var, rest.ip)
        /\ rest.ack = Unset \/ Answered(rest.ack, rest.ip)
        /\ rest.stage = "set-gpt0" => rest.var # Unset
    BY <1>1, <1>2, <1>3, <1>4
  <1>8. rest.stage = "silent-drop" /\ rest.ack # Unset => table'[rest.ip].gpt0 # Unknown
    BY <1>1, <1>3, <1>4, <1>5
  <1> QED BY <1>4, <1>5, <1>6, <1>7, <1>8, ConnectionKeeps

(* A verdict is stored, over whatever is there.                            *)
LEMMA SetGpt0Keeps ==
    ASSUME CacheInv, NEW s \in Sessions, SetGpt0(s)
    PROVE  CacheInv'
  <1> DEFINE ip == session[s].ip
             var == session[s].var
             entry == Judged(table[ip], var)
             rest == [session[s] EXCEPT !.stage = "silent-drop"]
  <1>1. ip \in Addresses /\ ip # NoAddress
    BY KnownConnection DEF SetGpt0
  <1>2. var \in Variables /\ Answered(var, ip)
    BY KnownConnection DEF SetGpt0, CacheInv, SessionsAnswered
  <1>3. table \in [Addresses -> Entries] /\ table' = [table EXCEPT ![ip] = entry]
        /\ session' = [session EXCEPT ![s] = rest] /\ UNCHANGED <<databases, up>>
    BY KnownConnection DEF SetGpt0
  <1>4. /\ entry \in Entries /\ entry.by = var.by /\ entry.gpt0 # Unknown
        /\ entry.gpt0 = IF var.ip_bad THEN Bad ELSE Good
    <2>1. table[ip] \in Entries
      BY <1>1, <1>3
    <2> QED BY <1>2, <2>1, VerdictOfEntry
  <1>5. rest \in SessionRecords /\ rest.ip = ip /\ rest.var = var
        /\ rest.ack = session[s].ack /\ rest.stage = "silent-drop"
    BY KnownConnection DEF SessionRecords
  <1> HIDE DEF entry, rest
  <1>6. table' \in [Addresses -> Entries]
        /\ \A a \in Addresses : table'[a] = IF a = ip THEN entry ELSE table[a]
    BY <1>1, <1>3, <1>4
  <1>7. entry.by \in 1 .. Latest /\ (entry.gpt0 = Bad <=> ip \in databases[entry.by])
    BY <1>2, <1>4 DEF Answered, Good, Bad
  <1>8. VerdictFromAgent'
    BY <1>3, <1>6, <1>7 DEF CacheInv, VerdictFromAgent, Latest
  <1>9. /\ rest.ip # NoAddress /\ rest.stage # "closed"
        /\ rest.stage # "set-gpt0"
        /\ table'[rest.ip].gpt0 # Unknown
    BY <1>1, <1>4, <1>5, <1>6
  <1>10. /\ rest.var = Unset \/ Answered(rest.var, rest.ip)
         /\ rest.ack = Unset \/ Answered(rest.ack, rest.ip)
    BY <1>5, KnownConnection
  <1>11. \A a \in Addresses : table[a].gpt0 # Unknown => table'[a].gpt0 # Unknown
    BY <1>4, <1>6
  <1> QED BY <1>3, <1>5, <1>6, <1>8, <1>9, <1>10, <1>11, ConnectionKeeps

-----------------------------------------------------------------------------
(* The theorems.                                                           *)

LEMMA NextKeeps ==
    ASSUME CacheInv, [Next]_vars
    PROVE  CacheInv'
  <1>1. CASE Swap
    BY <1>1, SwapKeeps
  <1>2. CASE GoesDownOrUp \/ Tick \/ \E ip \in Addresses : Purge(ip)
    BY <1>2, TableKeeps
  <1>3. ASSUME NEW s \in Sessions,
               \/ Open(s) \/ Close(s) \/ CachedRequest(s) \/ Ask(s) \/ Answer(s)
               \/ Acked(s) \/ TimesOut(s) \/ SetGpt0(s) \/ SilentDrop(s)
        PROVE  CacheInv'
    BY <1>3, SessionKeeps, RequestKeeps, GoesOnKeeps, SetGpt0Keeps
  <1>4. CASE UNCHANGED vars
    BY <1>4 DEF vars, CacheInv, CacheTypeOK, VerdictFromAgent, SessionsAnswered, RequestsJudged,
                Answered, Latest
  <1> QED BY <1>1, <1>2, <1>3, <1>4 DEF Next

(* The table, the answers under way and the variables of the sessions      *)
(* agree with what the agent answered.                                     *)
THEOREM CacheInvariant == Spec => []CacheInv
  <1>1. Init => CacheInv
    BY InitKeeps
  <1>2. CacheInv /\ [Next]_vars => CacheInv'
    BY NextKeeps
  <1> QED BY <1>1, <1>2, PTL DEF Spec

(* The variables of the cache keep their types.                            *)
THEOREM CacheTypeCorrect == Spec => []CacheTypeOK
  <1>1. CacheInv => CacheTypeOK
    BY DEF CacheInv
  <1> QED BY <1>1, CacheInvariant, PTL

(* haproxy.cfg stores only what the agent answered about this client.      *)
THEOREM VerdictFromAgentCorrect == Spec => []VerdictFromAgent
  <1>1. CacheInv => VerdictFromAgent
    BY DEF CacheInv
  <1> QED BY <1>1, CacheInvariant, PTL

(* Once no request is about to set it, a cached verdict of haproxy.cfg is  *)
(* not replaced by any answer; it ends with its entry.                     *)
THEOREM VerdictIsKeptCorrect == Spec => VerdictIsKept
  <1> DEFINE Kept(ip) ==
        Settled(ip) =>
          \/ Settled(ip)' /\ table'[ip].gpt0 = table[ip].gpt0 /\ table'[ip].by = table[ip].by
          \/ table'[ip] = NoEntry
  <1>1. ASSUME CacheInv, [Next]_vars, NEW ip \in Addresses, Settled(ip)
        PROVE  Kept(ip)
    <2>1. table \in [Addresses -> Entries] /\ session \in [Sessions -> SessionRecords]
      BY <1>1 DEF CacheInv, CacheTypeOK, Entries, SessionRecords
    <2>2. \A s \in Sessions : session[s].ip = ip => session[s].stage # "set-gpt0"
      BY <1>1 DEF Settled
    <2>3. ASSUME \A s \in Sessions : session'[s].ip = ip => session'[s].stage # "set-gpt0",
                 table'[ip] = NoEntry
                 \/ (table'[ip].gpt0 = table[ip].gpt0 /\ table'[ip].by = table[ip].by)
          PROVE  Kept(ip)
      BY <1>1, <2>3 DEF Settled
    <2>4. CASE Swap \/ GoesDownOrUp \/ UNCHANGED vars
      BY <2>2, <2>3, <2>4 DEF Swap, GoesDownOrUp, vars
    <2>5. CASE Tick \/ \E a \in Addresses : Purge(a)
      <3>1. session' = session
        BY <2>5 DEF Tick, Purge
      <3>2. table'[ip] = NoEntry \/ (table'[ip].gpt0 = table[ip].gpt0 /\ table'[ip].by = table[ip].by)
        <4>1. CASE Tick
          BY <2>1, <4>1, TickOfEntry DEF Tick
        <4>2. CASE \E a \in Addresses : Purge(a)
          BY <2>1, <4>2 DEF Purge
        <4> QED BY <2>5, <4>1, <4>2
      <3> QED BY <2>2, <2>3, <3>1, <3>2
    <2>6. ASSUME NEW s \in Sessions, Open(s) \/ Close(s) \/ Answer(s) \/ SilentDrop(s)
          PROVE  Kept(ip)
      <3>1. table' = table
        BY <2>6 DEF Open, Close, Answer, SilentDrop
      <3>2. \A t \in Sessions : session'[t] = session[t] \/ session'[t].stage # "set-gpt0"
        <4>1. CASE Open(s)
          BY <2>1, <4>1 DEF Open, Closed
        <4>2. CASE Close(s)
          BY <2>1, <4>2, ClosedSession DEF Close
        <4>3. CASE Answer(s)
          BY <2>1, <4>3 DEF Answer, SessionRecords
        <4>4. CASE SilentDrop(s)
          BY <2>1, <4>4, ClosedSession DEF SilentDrop, SessionRecords
        <4> QED BY <2>6, <4>1, <4>2, <4>3, <4>4
      <3> QED BY <2>2, <2>3, <3>1, <3>2
    <2>7. ASSUME NEW s \in Sessions, CachedRequest(s) \/ Ask(s)
          PROVE  Kept(ip)
      <3>1. \A t \in Sessions : session'[t] = session[t] \/ session'[t].stage # "set-gpt0"
        BY <2>1, <2>7 DEF CachedRequest, Ask, SessionRecords
      <3>2. table' = [table EXCEPT ![session[s].ip] = Refreshed(table[session[s].ip])]
        BY <2>7 DEF CachedRequest, Ask
      <3>3. Refreshed(table[ip]).gpt0 = table[ip].gpt0 /\ Refreshed(table[ip]).by = table[ip].by
        BY <2>1 DEF Refreshed, Entries
      <3>4. table'[ip].gpt0 = table[ip].gpt0 /\ table'[ip].by = table[ip].by
        BY <2>1, <3>2, <3>3
      <3> QED BY <2>2, <2>3, <3>1, <3>4
    <2>8. ASSUME NEW s \in Sessions, Acked(s) \/ TimesOut(s)
          PROVE  Kept(ip)
      <3>1. PICK var, ack : GoesOn(s, var, ack)
        BY <2>8 DEF Acked, TimesOut
      <3>2. table' = table
        BY <3>1 DEF GoesOn
      <3>3. session[s].ip = ip => NextRule(table[session[s].ip], var) = "silent-drop"
        BY <1>1 DEF Settled, NextRule
      <3>4. session'[s].ip = session[s].ip /\ session'[s].stage = NextRule(table[session[s].ip], var)
            /\ \A t \in Sessions \ {s} : session'[t] = session[t]
        BY <2>1, <3>1 DEF GoesOn, SessionRecords
      <3>5. \A t \in Sessions : session'[t].ip = ip => session'[t].stage # "set-gpt0"
        BY <2>2, <3>3, <3>4
      <3> QED BY <2>3, <3>2, <3>5
    <2>9. ASSUME NEW s \in Sessions, SetGpt0(s)
          PROVE  Kept(ip)
      <3>1. session[s].ip # ip
        BY <2>2, <2>9 DEF SetGpt0
      <3>2. table'[ip] = table[ip]
        BY <2>1, <2>9, <3>1 DEF SetGpt0
      <3>3. \A t \in Sessions : session'[t] = session[t] \/ session'[t].stage # "set-gpt0"
        BY <2>1, <2>9 DEF SetGpt0, SessionRecords
      <3> QED BY <2>2, <2>3, <3>2, <3>3
    <2> QED BY <1>1, <2>4, <2>5, <2>6, <2>7, <2>8, <2>9 DEF Next
  <1>2. CacheInv /\ [Next]_vars => [\A ip \in Addresses : Kept(ip)]_vars
    BY <1>1
  <1> QED BY <1>2, CacheInvariant, PTL DEF Spec, VerdictIsKept

(* A request answered bad is served by haproxy.cfg only behind a good      *)
(* verdict that another database gave the same client.                     *)
THEOREM FlaggedIsDroppedCorrect == Spec => FlaggedIsDropped
  <1> DEFINE Dropped(s) ==
        SilentDrop(s) /\ session[s].ack.ip_bad =>
          LET entry == table[session[s].ip]
          IN  \/ session'[s] = Closed
              \/ entry.gpt0 = Good /\ entry.by \in (1 .. Latest) \ {session[s].ack.by}
  <1>1. ASSUME CacheInv, NEW s \in Sessions, SilentDrop(s), session[s].ack.ip_bad
        PROVE  Dropped(s)
    <2> DEFINE ip == session[s].ip
               ack == session[s].ack
    <2>1. ack # Unset
      BY <1>1 DEF Unset
    <2>2. ip \in Addresses /\ table[ip] \in Entries /\ Answered(ack, ip)
      BY <1>1, <2>1, KnownConnection DEF SilentDrop
    <2>3. table[ip].gpt0 \in {Good, Bad}
      BY <1>1, <2>1, <2>2 DEF SilentDrop, CacheInv, RequestsJudged, Entries
    <2>4. CASE table[ip].gpt0 = Bad
      <3>1. session'[s] = Closed
        BY <1>1, <2>4, KnownConnection DEF SilentDrop
      <3> QED BY <3>1
    <2>5. CASE table[ip].gpt0 = Good
      <3>1. table[ip].by \in 1 .. Latest /\ ip \notin databases[table[ip].by]
        BY <1>1, <2>2, <2>5 DEF CacheInv, VerdictFromAgent, Unknown, Good, Bad
      <3>2. ip \in databases[ack.by]
        BY <1>1, <2>2 DEF Answered
      <3> QED BY <2>5, <3>1, <3>2
    <2> QED BY <2>3, <2>4, <2>5
  <1>2. CacheInv /\ [Next]_vars => [\A s \in Sessions : Dropped(s)]_vars
    BY <1>1
  <1> QED BY <1>2, CacheInvariant, PTL DEF Spec, FlaggedIsDropped
=============================================================================
