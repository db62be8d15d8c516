---------------------------- MODULE VerdictCache ----------------------------
(***************************************************************************)
(* The HAProxy side, src/haproxy/: the stick table that caches verdicts by *)
(* client address, the question to the agent (SPOE), the session variable  *)
(* its answer sets, and the rules that turn it into a verdict, while the   *)
(* agent's database is swapped and answers come late or not at all.        *)
(*                                                                         *)
(* HAProxy evaluates the http-request rules of a request from top to       *)
(* bottom.  Its threads share the stick table (nbthread is not set), so a  *)
(* rule that reads an entry and one that writes it are steps of their own, *)
(* and so are an ACL and the sc-set-gpt0 it guards.  An ACL is evaluated   *)
(* again by each rule that names it.                                       *)
(***************************************************************************)
EXTENDS Naturals, Sequences

CONSTANTS
    Addresses,      \* client addresses (src)
    Sessions,       \* client connections, each with one request at a time
    NoAddress,      \* the address of a session that is closed
    Expire,         \* ticks after which an untouched entry leaves the table
    MaxDatabases    \* bound: databases the agent serves

ASSUME CacheAssumption ==
    Expire \in Nat \ {0} /\ MaxDatabases \in Nat \ {0} /\ NoAddress \notin Addresses

VARIABLES
    databases,      \* the databases served so far: the addresses each one flags
    up,             \* does the agent answer?
    table,          \* the stick table, per address
    session         \* per connection: its variable and the request under way

vars == <<databases, up, table, session>>

\* gpt0
Unknown == 0
Good == 1
Bad == 2

\* An entry leaves after `left` ticks; `by` is the database its gpt0 is from.
NoEntry == [gpt0 |-> Unknown, left |-> 0, by |-> 0]

\* ip_bad is unset (by = 0), or has the value that database `by` gave.
Unset == [ip_bad |-> FALSE, by |-> 0]
Closed == [ip |-> NoAddress, stage |-> "closed", var |-> Unset, ack |-> Unset]

Latest == Len(databases)

Init ==
    /\ databases = <<{}>> /\ up = TRUE
    /\ table = [ip \in Addresses |-> NoEntry]
    /\ session = [s \in Sessions |-> Closed]

-----------------------------------------------------------------------------
(* The agent, the clock and the size of the table.                         *)

Swap ==
    /\ Latest < MaxDatabases
    /\ \E flagged \in SUBSET Addresses : databases' = Append(databases, flagged)
    /\ UNCHANGED <<up, table, session>>

GoesDownOrUp == up' = ~up /\ UNCHANGED <<databases, table, session>>

\* A request holds the entry it tracks, from track-sc0 to its end.
Held(ip) == \E s \in Sessions : session[s].ip = ip /\ session[s].stage \notin {"closed", "idle"}

OneTickLess_KeepsVerdict(entry) == IF entry.left = 0 THEN entry ELSE [entry EXCEPT !.left = entry.left - 1]
OneTickLess(entry) == IF entry.left <= 1 THEN NoEntry ELSE [entry EXCEPT !.left = entry.left - 1]

Tick ==
    /\ table' = [ip \in Addresses |-> IF Held(ip) THEN table[ip] ELSE OneTickLess(table[ip])]
    /\ UNCHANGED <<databases, up, session>>

\* A full table makes room.
Purge(ip) ==
    /\ table[ip] # NoEntry /\ ~Held(ip)
    /\ table' = [table EXCEPT ![ip] = NoEntry]
    /\ UNCHANGED <<databases, up, session>>

-----------------------------------------------------------------------------
(* A client connection and its requests.                                   *)

Open(s) ==
    /\ session[s] = Closed
    /\ \E ip \in Addresses : session' = [session EXCEPT ![s] = [Closed EXCEPT !.ip = ip, !.stage = "idle"]]
    /\ UNCHANGED <<databases, up, table>>

Close(s) ==
    /\ session[s].stage = "idle"
    /\ session' = [session EXCEPT ![s] = Closed]
    /\ UNCHANGED <<databases, up, table>>

Refreshed(entry) == [entry EXCEPT !.left = Expire]

\* ip_good or ip_bad: the agent is not asked.  Tracking refreshes the entry
\* only, so it may be one step with the look at gpt0.
CachedRequest(s) ==
    LET ip == session[s].ip IN
    /\ session[s].stage = "idle"
    /\ table[ip].gpt0 # Unknown
    /\ table' = [table EXCEPT ![ip] = Refreshed(table[ip])]
    /\ session' = [session EXCEPT ![s].stage = "silent-drop"]
    /\ UNCHANGED <<databases, up>>

\* ip_unknown: send-spoe-group.
Ask(s) ==
    LET ip == session[s].ip IN
    /\ session[s].stage = "idle"
    /\ table[ip].gpt0 = Unknown
    /\ table' = [table EXCEPT ![ip] = Refreshed(table[ip])]
    /\ session' = [session EXCEPT ![s].stage = "asking"]
    /\ UNCHANGED <<databases, up>>

\* handle(): the answer of the database of the moment is on its way.
Answer(s) ==
    /\ session[s].stage = "asking" /\ up
    /\ session' = [session EXCEPT ![s].stage = "acked",
          ![s].ack = [ip_bad |-> session[s].ip \in databases[Latest], by |-> Latest]]
    /\ UNCHANGED <<databases, up, table>>

NextRule_Always(entry, var) == IF var # Unset THEN "set-gpt0" ELSE "silent-drop"
NextRule_GoodIfUnset(entry, var) == IF entry.gpt0 = Unknown THEN "set-gpt0" ELSE "silent-drop"

\* sc-set-gpt0 runs only if ip_unknown holds, still, and the variable is set.
NextRule(entry, var) ==
    IF entry.gpt0 = Unknown /\ var # Unset THEN "set-gpt0" ELSE "silent-drop"

GoesOn(s, var, ack) ==
    /\ session' = [session EXCEPT ![s].stage = NextRule(table[session[s].ip], var),
                                  ![s].var = var, ![s].ack = ack]
    /\ UNCHANGED <<databases, up, table>>

\* The ACK sets the variable of the session.
Acked(s) == session[s].stage = "acked" /\ GoesOn(s, session[s].ack, session[s].ack)

\* `timeout processing`: the rules go on with the variable as it is.
TimesOut(s) == session[s].stage \in {"asking", "acked"} /\ GoesOn(s, session[s].var, Unset)

Judged(entry, var) == [entry EXCEPT !.gpt0 = IF var.ip_bad THEN Bad ELSE Good, !.by = var.by]

\* sc-set-gpt0 itself does not look at what another thread has set meanwhile.
SetGpt0(s) ==
    LET ip == session[s].ip IN
    /\ session[s].stage = "set-gpt0"
    /\ table' = [table EXCEPT ![ip] = Judged(table[ip], session[s].var)]
    /\ session' = [session EXCEPT ![s].stage = "silent-drop"]
    /\ UNCHANGED <<databases, up>>

SilentDrop_KeepsAddress(s) ==
    /\ session[s].stage = "silent-drop"
    /\ session' = [session EXCEPT
          ![s].stage = IF table[session[s].ip].gpt0 = Bad THEN "closed" ELSE "idle", ![s].ack = Unset]
    /\ UNCHANGED <<databases, up, table>>

\* The end of the request: ip_bad ends its connection, too.
SilentDrop(s) ==
    /\ session[s].stage = "silent-drop"
    /\ session' = [session EXCEPT ![s] = IF table[session[s].ip].gpt0 = Bad THEN Closed
                                         ELSE [session[s] EXCEPT !.stage = "idle", !.ack = Unset]]
    /\ UNCHANGED <<databases, up, table>>

-----------------------------------------------------------------------------
Next ==
    \/ Swap \/ GoesDownOrUp \/ Tick
    \/ \E ip \in Addresses : Purge(ip)
    \/ \E s \in Sessions :
          \/ Open(s) \/ Close(s) \/ CachedRequest(s) \/ Ask(s) \/ Answer(s)
          \/ Acked(s) \/ TimesOut(s) \/ SetGpt0(s) \/ SilentDrop(s)

Spec == Init /\ [][Next]_vars

(* Time passes, `timeout processing` ends the wait for an answer, and the  *)
(* rules after it run to their end.                                        *)
FairSpec ==
    /\ Spec /\ WF_vars(Tick)
    /\ \A s \in Sessions : WF_vars(TimesOut(s)) /\ WF_vars(SetGpt0(s)) /\ WF_vars(SilentDrop(s))

-----------------------------------------------------------------------------
(* Properties.                                                             *)

Variables == [ip_bad : BOOLEAN, by : Nat]

CacheTypeOK ==
    /\ databases \in Seq(SUBSET Addresses) /\ Latest > 0
    /\ up \in BOOLEAN
    /\ table \in [Addresses -> [gpt0 : {Unknown, Good, Bad}, left : 0 .. Expire, by : Nat]]
    /\ session \in [Sessions ->
          [ip : Addresses \cup {NoAddress},
           stage : {"closed", "idle", "asking", "acked", "set-gpt0", "silent-drop"},
           var : Variables, ack : Variables]]
    /\ \A s \in Sessions : session[s].ip = NoAddress <=> session[s].stage = "closed"

\* What database `by` answers about an address.
Answered(var, ip) == var.by \in 1 .. Latest /\ (var.ip_bad <=> ip \in databases[var.by])

(* A cached verdict is the answer that some database of the agent gave for *)
(* this address: never the default of an unset variable, never the answer  *)
(* for another client.                                                     *)
VerdictFromAgent ==
    \A ip \in Addresses :
        table[ip].gpt0 # Unknown =>
            table[ip].by \in 1 .. Latest /\ (table[ip].gpt0 = Bad <=> ip \in databases[table[ip].by])

\* A verdict is cached, and no request that found the client unknown is about
\* to set one.
Settled(ip) ==
    /\ table[ip].gpt0 # Unknown
    /\ ~ \E s \in Sessions : session[s].ip = ip /\ session[s].stage = "set-gpt0"

(* "an active client keeps its verdict" (README.md:301), once threads that *)
(* found the client unknown at the same time have set theirs, the last of  *)
(* which counts: from then on no answer, however late and of whichever     *)
(* database, turns the verdict into another one; it ends with its entry.   *)
VerdictIsKept ==
    [][ \A ip \in Addresses :
          Settled(ip) =>
            \/ Settled(ip)' /\ table'[ip].gpt0 = table[ip].gpt0 /\ table'[ip].by = table[ip].by
            \/ table'[ip] = NoEntry ]_vars

Stale(ip) == table[ip].gpt0 # Unknown /\ (table[ip].gpt0 = Bad <=> ip \notin databases[Latest])

(* "a quiet one is re-checked after 10 s" (README.md:301): a verdict that  *)
(* the agent's database no longer gives goes away, unless requests of the  *)
(* client keep refreshing it.                                              *)
StaleNeedsActivity ==
    \A ip \in Addresses : [](Stale(ip) => <>(~Stale(ip) \/ table[ip].left = Expire))

(* "If the agent is down or misses timeout processing 100ms, the variable  *)
(* stays unset, gpt0 stays 0 and the request is served; nothing is cached" *)
(* (README.md:308).                                                        *)
TimeoutCachesNothing ==
    [][ \A s \in Sessions : SetGpt0(s) /\ session[s].ack = Unset => UNCHANGED table ]_vars

(* HAProxy "silently drops requests coming from blocked addresses"         *)
(* (README.md:5): a request whose own answer says bad is served only if    *)
(* another request of the same client was answered good by another         *)
(* database (around a swap), and that verdict is the one in the table when *)
(* the rule looks.                                                         *)
FlaggedIsDropped ==
    [][ \A s \in Sessions :
          SilentDrop(s) /\ session[s].ack.ip_bad =>
            LET entry == table[session[s].ip]
            IN  \/ session'[s] = Closed
                \/ entry.gpt0 = Good /\ entry.by \in (1 .. Latest) \ {session[s].ack.by} ]_vars
=============================================================================
