------------------------------ MODULE MCWebJobs ------------------------------
(***************************************************************************)
(* Small instances of WebJobs, MarketInput and ChatClaim for TLC, explored   *)
(* in one run: "part" says which of them moves, the variables of the others  *)
(* stay.                                                                     *)
(*   asked   two days, one request for a map or a formal run; stages fail,   *)
(*           waits time out, the dialogue answers (constants in the cfg)     *)
(*   nightly two days, the script asks, the server restarts once             *)
(*   formal  one day, two requests for full runs, one restart                *)
(*   own     two days, two requests for acquisitions and calculations of any *)
(*           date; the calendar may fail                                     *)
(*   replay  one day, three requests for acquisitions and calculations       *)
(*   input   one acquisition of two bonds and its calculation (constants in  *)
(*           the cfg)                                                        *)
(*   claims  two sessions and one chat task, with three claims; claims lapse *)
(*           and commands are killed (constants in the cfg)                  *)
(***************************************************************************)
EXTENDS WebJobs, MarketInput, ChatClaim

CONSTANTS s1, s2      \* model values

VARIABLE part

Nightly == INSTANCE WebJobs WITH
    MaxDay <- 2, TradeDays <- {1, 2}, Endpoints <- {"nightly", "calc"}, MaxAsked <- 1,
    Modes <- {"AUTO_API"}, MaxResumes <- 0, Faults <- {"restart"}
Formal == INSTANCE WebJobs WITH
    MaxDay <- 1, TradeDays <- {1}, Endpoints <- {"close", "latest"}, MaxAsked <- 2,
    Modes <- {"INTERACTIVE_CHAT"}, MaxResumes <- 0, Faults <- {"restart"}
Own == INSTANCE WebJobs WITH
    MaxDay <- 2, TradeDays <- {1, 2}, Endpoints <- {"acq", "calc"}, MaxAsked <- 2,
    Modes <- {"AUTO_API"}, MaxResumes <- 0, Faults <- {"calendar"}
Replay == INSTANCE WebJobs WITH
    MaxDay <- 1, TradeDays <- {1}, Endpoints <- {"acq", "calc"}, MaxAsked <- 3,
    Modes <- {"AUTO_API"}, MaxResumes <- 0, Faults <- {}

\* MarketInput starts in one state for each set of facts; beside the other parts in one.
WebInit ==
    /\ part \in {"asked", "nightly", "formal", "own", "replay", "input", "claims"}
    /\ Init /\ InputInit /\ ClaimInit
    /\ part # "input" => mode = "CLOSE" /\ \A b \in Bonds : facts[b] = Unfit

WebNext ==
    /\ \/ part = "asked" /\ Next /\ UNCHANGED <<inputVars, claimVars>>
       \/ part = "nightly" /\ Nightly!Next /\ UNCHANGED <<inputVars, claimVars>>
       \/ part = "formal" /\ Formal!Next /\ UNCHANGED <<inputVars, claimVars>>
       \/ part = "own" /\ Own!Next /\ UNCHANGED <<inputVars, claimVars>>
       \/ part = "replay" /\ Replay!Next /\ UNCHANGED <<inputVars, claimVars>>
       \/ part = "input" /\ InputNext /\ UNCHANGED <<vars, claimVars>>
       \/ part = "claims" /\ ClaimNext /\ UNCHANGED <<vars, inputVars>>
    /\ UNCHANGED part

Web == WebInit /\ [][WebNext]_<<vars, inputVars, claimVars, part>>
=============================================================================
