---------------------------- MODULE MCPathResearch ----------------------------
(***************************************************************************)
(* Small instances of PathResearch for TLC.                                 *)
(***************************************************************************)
EXTENDS PathResearch, TLC

CONSTANTS p1, p2        \* model values

Keep(ev)     == [econ |-> "KEEP", price |-> 2, ev |-> ev]
Drop(ev)     == [econ |-> "DROP", price |-> 2, ev |-> ev]

PutOnly        == [p \in {p1} |-> PUT]
MaturityAndPut == (p1 :> MATURITY) @@ (p2 :> PUT)

\* A PUT path that may be dropped, with or without a known put window.
PutEntry    == [p \in {p1} |-> {Keep("PUT_WINDOW_UNKNOWN"),
                                Drop("NO_ORDINARY_PUT")}]
PutWindow   == [p \in {p1} |-> PutEntry[p1] \cup {Keep("IN_PUT_WINDOW")}]
PutOpens    == [p \in {p1} |-> {Keep("PUT_WINDOW_UNKNOWN"),
                                 Keep("IN_PUT_WINDOW")}]

\* Two paths whose research is asked for in one run, and which are dropped one by one.
BothEntries == (p1 :> {Keep("T_LE_12M"), Drop("T_LE_12M")})
               @@ (p2 :> {Keep("IN_PUT_WINDOW"), Drop("NO_ORDINARY_PUT")})
=============================================================================
