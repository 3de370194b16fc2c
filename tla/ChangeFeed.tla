------------------------------ MODULE ChangeFeed ------------------------------
(***************************************************************************)
(* What the change ledger promises its readers: whenever the economic       *)
(* status of a path is seen to change to KEEP or DROP, the change is        *)
(* entered in the ledger in the same step, and a reader is told of an exit  *)
(* that research had to do with.  Entries are never taken back.             *)
(***************************************************************************)
EXTENDS Naturals

CONSTANT Paths
VARIABLES seen, entries, told

Init == /\ seen = [p \in Paths |-> "ABSENT"]
        /\ entries = {} /\ told = {}

\* The paths that were seen to enter or to leave, once for each.
Moved(next) == {p \in Paths : next[p] \in {"KEEP", "DROP"} /\ next[p] # seen[p]}

Enters(next, new) ==
    /\ \A c \in new : /\ c.path \in Moved(next)
                      /\ c.from = seen[c.path] /\ c.to = next[c.path]
    /\ \A p \in Moved(next) : \E c \in new : c.path = p

Step ==
    /\ DOMAIN seen' = Paths
    /\ \E new \in SUBSET entries' :
        /\ Enters(seen', new)
        /\ entries' = entries \cup new
        /\ told' = told \cup {c \in new : c.to = "DROP" /\ c.attention}

Steps == [][Step]_<<seen, entries, told>>

Spec == Init /\ Steps
=============================================================================
