------------------------------ MODULE MCMonitors ------------------------------
(***************************************************************************)
(* The three monitors - LOF, intelligence radar, ETF primary market - share *)
(* nothing but the machine. One run explores them side by side: "part" says *)
(* which of five instances moves, the variables of the others stay as they  *)
(* were initially.  The constants in the cfg are those of                   *)
(*   lof     a fund company changes its mind; sources fail, a cycle raises, *)
(*           the loop is killed, also within a write                        *)
(*   radar   one item of each source, edited once, two LIVE runs            *)
(*   etf     three funds, two trading days, three runs of the workflow      *)
(* and what differs from them in the others stands below.                   *)
(*   command the snapshot command beside the loop; official values missing  *)
(*   backfill  a radar without edits, where a run may be a BACKFILL         *)
(***************************************************************************)
EXTENDS EtfPrimary, Radar, LofMonitor

VARIABLE part

allVars == <<vars, lofVars, radarVars, part>>

Command == INSTANCE LofMonitor WITH
    MaxTime <- 3, MaxMoves <- 0, Faults <- {"job", "nav", "raise"}
Backfill == INSTANCE Radar WITH MaxVersion <- 1, Modes <- {"LIVE", "BACKFILL"}

\* A creation list as PcfCapacity reads it; units of one basket, limits of the market.
CreationList(open, cum, net) ==
    [open |-> open, unit |-> 1, cum |-> cum, net |-> net, acum |-> 0, anet |-> 0]
ListsOfThree == [f \in {"s1", "s2", "z"} |->
    CASE f = "s1" -> {CreationList(TRUE, 5, 0)}
      [] f = "s2" -> {CreationList(TRUE, 5, 0), CreationList(TRUE, 20, 0)}
      [] f = "z"  -> {CreationList(TRUE, 5, 0), CreationList(FALSE, 12, 30)}]

MonitorsInit ==
    /\ part \in {"lof", "command", "radar", "backfill", "etf"}
    /\ Init /\ LofInit /\ RadarInit

MonitorsNext ==
    /\ \/ part = "lof" /\ LofNext /\ UNCHANGED <<radarVars, vars>>
       \/ part = "command" /\ Command!LofNext /\ UNCHANGED <<radarVars, vars>>
       \/ part = "radar" /\ RadarNext /\ UNCHANGED <<lofVars, vars>>
       \/ part = "backfill" /\ Backfill!RadarNext /\ UNCHANGED <<lofVars, vars>>
       \/ part = "etf" /\ Next /\ UNCHANGED <<lofVars, radarVars>>
    /\ UNCHANGED part

Monitors == MonitorsInit /\ [][MonitorsNext]_allVars
=============================================================================
