------------------------------- MODULE HotSwap -------------------------------
(***************************************************************************)
(* What the holder of the MMDB database promises to the rest of the agent  *)
(* (module documentation of src/mmdb.rs): at every moment it serves one    *)
(* whole, valid database or none; a swap is a single step and only goes to *)
(* a later version of the file; a lookup is answered by the one database   *)
(* that was served at a single moment of that lookup.                      *)
(***************************************************************************)
EXTENDS Naturals

CONSTANTS
    Lookups,        \* threads that look addresses up
    ValidContents,  \* file contents the reader parses
    NoBytes         \* "no database"

VARIABLES
    served,         \* the database lookups see: its content and its age
    reply           \* per lookup thread, the database its last lookup used

hotVars == <<served, reply>>

\* The age of a database is the number of the file change that produced it.
Nothing == [content |-> NoBytes, age |-> 0]

Init ==
    /\ served = Nothing
    /\ reply = [r \in Lookups |-> Nothing]

\* A reload: the served database gives way to a later, valid one.
Swap ==
    /\ served' \in [content : ValidContents, age : Nat]
    /\ served'.age > served.age
    /\ UNCHANGED reply

\* A lookup, as if it happened at once.
Query(r) ==
    /\ reply' = [reply EXCEPT ![r] = served]
    /\ UNCHANGED served

Next == Swap \/ \E r \in Lookups : Query(r)

Spec == Init /\ [][Next]_hotVars
=============================================================================
