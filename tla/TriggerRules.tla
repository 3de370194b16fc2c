----------------------------- MODULE TriggerRules -----------------------------
(***************************************************************************)
(* The pure part of runtime/opportunity/research_trigger.py: how one row of *)
(* research_trigger_state.json follows from the previous row, the economic  *)
(* judgment of the path and the market facts of the snapshot.               *)
(*                                                                          *)
(* A path here is one (bond, path_id) pair.  A row that the state file does *)
(* not contain is AbsentRow, so `prev.get(x) if prev else None` is prev.x.   *)
(* A trigger key is a record of the parts the code joins with ':'.           *)
(***************************************************************************)
EXTENDS Integers, Sequences

CONSTANTS
    Paths,      \* the (bond, path_id) pairs under observation
    Kind        \* Kind[p] is the path_id of p

MATURITY == "MATURITY_CASH"
PUT      == "PUT"
REVISION == "DOWNWARD_REVISION"
Kinds    == {MATURITY, PUT, REVISION}       \* ACTIVE_PATHS

ASSUME KindAssumption == Kind \in [Paths -> Kinds]

-----------------------------------------------------------------------------
(* Event states.  A maturity band carries the rank of the remaining months. *)

BandRank == [T_GT_12M |-> 0, T_LE_12M |-> 1, T_LE_6M |-> 2,
             T_LE_3M |-> 3, T_LE_1M |-> 4]
BandReason == [T_LE_12M |-> "MATURITY_T_MINUS_12M",
               T_LE_6M  |-> "MATURITY_T_MINUS_6M",
               T_LE_3M  |-> "MATURITY_T_MINUS_3M",
               T_LE_1M  |-> "MATURITY_T_MINUS_1M"]
PutStates == {"PUT_FACTS_UNAVAILABLE", "NO_ORDINARY_PUT", "PUT_WINDOW_UNKNOWN",
              "BEFORE_PUT_WINDOW", "IN_PUT_WINDOW"}

\* Two of the states the revision facts report wake research; NEAR is the one
\* the code watches without researching it, and COUNTING any other.
RevisionTriggerStates ==
    [CONDITION_MET   |-> "REVISION_EVENT_CONDITION_MET",
     MEETING_PENDING |-> "REVISION_EVENT_SHAREHOLDER_MEETING_PENDING"]
RevisionStates == DOMAIN RevisionTriggerStates \cup {"NEAR", "COUNTING"}

NoEvent == "NONE"

-----------------------------------------------------------------------------
(* Trigger keys.                                                            *)

TriggerKey(p, reason, episode, detail) ==
    [path |-> p, reason |-> reason, episode |-> episode, detail |-> detail]

NoKey == [path |-> "none", reason |-> "none", episode |-> 0, detail |-> <<>>]

EventKey(p, n) == TriggerKey(p, "EVENT", 0, <<n>>)

KeepEntryReasons == {"MATURITY_KEEP_ENTRY", "PUT_KEEP_ENTRY"}

Reasons == KeepEntryReasons
    \cup {BandReason[b] : b \in DOMAIN BandReason}
    \cup {RevisionTriggerStates[e] : e \in DOMAIN RevisionTriggerStates}
    \cup {"PUT_WINDOW_ENTERED", "REVISION_PRICE_CHANGED", "EVENT"}

-----------------------------------------------------------------------------
(* Rows of the trigger state.                                               *)

HOLD == "HOLD"          \* NEEDS_EVIDENCE and UNRESOLVED, treated alike
Answered == {"COMPLETED", HOLD}
Statuses == {"NONE", "PENDING", "IN_PROGRESS", "WAITING_FOR_CHAT",
             "CANCELLED_ECONOMIC_DROP"} \cup Answered

AbsentRow == [econ |-> "ABSENT", episode |-> 0, ev |-> NoEvent, price |-> 0,
              key |-> NoKey, status |-> "NONE", result |-> NoKey]

NewEpisode(prev) == prev.econ # "KEEP"

Episode(prev, snap) == IF NewEpisode(prev) THEN snap ELSE prev.episode

MaturityTrigger(p, prev, fact, snap) ==
    IF NewEpisode(prev)
    THEN TriggerKey(p, "MATURITY_KEEP_ENTRY", snap, <<>>)
    ELSE IF BandRank[fact.ev] > BandRank[prev.ev]
         THEN TriggerKey(p, BandReason[fact.ev], prev.episode, <<>>)
         ELSE NoKey

PutTrigger(p, prev, fact, snap) ==
    IF NewEpisode(prev)
    THEN TriggerKey(p, "PUT_KEEP_ENTRY", snap, <<>>)
    ELSE IF fact.ev = "IN_PUT_WINDOW" /\ prev.ev # "IN_PUT_WINDOW"
         THEN TriggerKey(p, "PUT_WINDOW_ENTERED", prev.episode, <<>>)
         ELSE NoKey

\* A lower conversion price wins over a revision event of the same snapshot.
RevisionTrigger(p, prev, fact, snap) ==
    IF prev.econ # "ABSENT" /\ fact.price < prev.price
    THEN TriggerKey(p, "REVISION_PRICE_CHANGED", Episode(prev, snap),
                    <<prev.price, fact.price, snap>>)
    ELSE IF /\ fact.ev \in DOMAIN RevisionTriggerStates
            /\ NewEpisode(prev) \/ prev.ev # fact.ev
         THEN TriggerKey(p, RevisionTriggerStates[fact.ev],
                         Episode(prev, snap), <<snap>>)
         ELSE NoKey

Trigger(p, prev, fact, snap) ==
    CASE Kind[p] = MATURITY -> MaturityTrigger(p, prev, fact, snap)
      [] Kind[p] = PUT      -> PutTrigger(p, prev, fact, snap)
      [] Kind[p] = REVISION -> RevisionTrigger(p, prev, fact, snap)

\* Faulty: the last emitted key is not compared.
EmitsAgain(p, prev, fact, snap) == Trigger(p, prev, fact, snap) # NoKey

\* research_trigger: a key was derived and it is not the last one emitted.
Emits(p, prev, fact, snap) ==
    Trigger(p, prev, fact, snap) \notin {NoKey, prev.key}

DroppedRow(prev, fact) ==
    [prev EXCEPT !.econ = "DROP", !.episode = 0, !.ev = NoEvent,
                 !.price = fact.price,
                 !.status = IF @ = "PENDING" THEN "CANCELLED_ECONOMIC_DROP"
                            ELSE @]

KeptRow(p, prev, fact, snap) ==
    LET emits == Emits(p, prev, fact, snap)
    IN  [econ |-> "KEEP", episode |-> Episode(prev, snap), ev |-> fact.ev,
         price |-> fact.price, result |-> prev.result,
         key |-> IF emits THEN Trigger(p, prev, fact, snap) ELSE prev.key,
         status |-> IF emits THEN "PENDING" ELSE prev.status]

\* A path the registry no longer lists loses its row.
NextRow(p, prev, fact, snap) ==
    CASE fact.econ = "KEEP"   -> KeptRow(p, prev, fact, snap)
      [] fact.econ = "DROP"   -> DroppedRow(prev, fact)
      [] fact.econ = "ABSENT" -> AbsentRow
=============================================================================
