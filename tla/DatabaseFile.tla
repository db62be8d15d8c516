----------------------------- MODULE DatabaseFile -----------------------------
(***************************************************************************)
(* What the updater promises about the file at MMDB_PATH ("Updates are     *)
(* atomic and idempotent", README.md:205): it is the database of one       *)
(* commit that has networks, or there is none; an update replaces it in    *)
(* one step, by the database of a commit with a later time; and a power    *)
(* loss can only bring back what was there when the directory was last     *)
(* written.                                                                *)
(***************************************************************************)
EXTENDS Naturals, Sequences

CONSTANT NoCommit

VARIABLES
    published,      \* the commits of the followed branch: their times and whether they have networks
    current,        \* the commit that the file is the database of
    durable         \* what a power loss may bring back

fileVars == <<published, current, durable>>

Init == published = <<>> /\ current = NoCommit /\ durable = NoCommit

Publish ==
    /\ Len(published') = Len(published) + 1
    /\ published = SubSeq(published', 1, Len(published))
    /\ UNCHANGED <<current, durable>>

Replace ==
    /\ current' \in {c \in DOMAIN published : published[c].networks}
    /\ current # NoCommit => published[current'].time > published[current].time
    /\ UNCHANGED <<published, durable>>

\* By the operator.
Remove ==
    /\ current' = NoCommit
    /\ UNCHANGED <<published, durable>>

Harden ==
    /\ durable' = current
    /\ UNCHANGED <<published, current>>

RollBack ==
    /\ current' = durable
    /\ UNCHANGED <<published, durable>>

Next == Publish \/ Replace \/ Remove \/ Harden \/ RollBack

Spec == Init /\ [][Next]_fileVars
=============================================================================
