------------------------------- MODULE Verdicts -------------------------------
(***************************************************************************)
(* What the agent promises about its verdicts: a request is answered       *)
(* ip_bad = true exactly when a line of a list covers its address that is  *)
(* to be dropped ("With neither DROP_BY_CATEGORY nor DROP_BY_FILE_NAMES,   *)
(* the agent answers ip_bad = false", README.md:629-630), is counted once, *)
(* and a block is "attributed to the list that matched" (README.md:646).   *)
(* There are no sections, places, records or arrays here: the lines of the *)
(* lists answer for themselves.                                            *)
(***************************************************************************)
EXTENDS Naturals, Sequences

CONSTANTS
    Clients,            \* the addresses of requests
    NoClient,           \* the request of a message without an address
    drop_categories,
    drop_file_names,
    NoLabels, NoReply   \* of an allowed request, and of one without an answer

VARIABLES
    lists,          \* the lists read: a name, and per line what it covers and its header
    phase,          \* "closed" or "open"
    request, reply, \* the last request, and its answer
    allowed,        \* requests allowed
    blocked         \* requests blocked, by labels

listVars == <<lists, phase>>
replyVars == <<request, reply, allowed, blocked>>
verdictVars == <<listVars, replyVars>>

Init ==
    /\ lists = <<>> /\ phase = "closed"
    /\ request = NoClient /\ reply = NoReply
    /\ allowed = 0 /\ blocked = [labels \in {} |-> 0]

Read ==
    /\ phase = "closed"
    /\ Len(lists') = Len(lists) + 1
    /\ lists = SubSeq(lists', 1, Len(lists))
    /\ UNCHANGED <<phase, replyVars>>

\* A line is named by its list and its place there.
Lines == UNION {{f} \X DOMAIN lists[f].lines : f \in DOMAIN lists}
NameOf(line) == lists[line[1]].file_name
At(line) == lists[line[1]].lines[line[2]]
Earlier(p, q) == p[1] < q[1] \/ (p[1] = q[1] /\ p[2] < q[2])

Open ==
    /\ phase = "closed" /\ Lines # {}
    /\ phase' = "open"
    /\ UNCHANGED <<lists, replyVars>>

\* A dropped category takes precedence over a dropped file.
Blamed(address) ==
    LET category == {line \in Lines : address \in At(line).covers /\ At(line).category \in drop_categories}
        file_name == {line \in Lines : address \in At(line).covers /\ NameOf(line) \in drop_file_names}
    IN  IF category # {} THEN category ELSE file_name

Answer(address, ip_bad, labels) ==
    /\ phase = "open"
    /\ request' = address
    /\ reply' = [ip_bad |-> ip_bad, labels |-> labels]
    /\ UNCHANGED listVars

Allow(address) ==
    /\ Blamed(address) = {}
    /\ Answer(address, FALSE, NoLabels)
    /\ allowed' = allowed + 1
    /\ UNCHANGED blocked

CountedOnce(labels) ==
    [l \in DOMAIN blocked \cup {labels} |->
        (IF l \in DOMAIN blocked THEN blocked[l] ELSE 0) + (IF l = labels THEN 1 ELSE 0)]

Block(address) ==
    \E first \in Blamed(address) :
        LET labels == <<NameOf(first), At(first).maintainer, At(first).category>>
        IN  /\ \A other \in Blamed(address) \ {first} : Earlier(first, other)
            /\ Answer(address, TRUE, labels)
            /\ blocked' = CountedOnce(labels)
            /\ UNCHANGED allowed

NoAnswer ==
    /\ phase = "open"
    /\ request' = NoClient /\ reply' = NoReply
    /\ UNCHANGED <<listVars, allowed, blocked>>

Next ==
    \/ Read \/ Open
    \/ (\E address \in Clients : Allow(address) \/ Block(address))
    \/ NoAnswer

Spec == Init /\ [][Next]_verdictVars
=============================================================================
