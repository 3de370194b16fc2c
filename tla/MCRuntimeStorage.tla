--------------------------- MODULE MCRuntimeStorage ---------------------------
(***************************************************************************)
(* Three small instances of RuntimeStorage for TLC, one of which is chosen  *)
(* at the start:                                                            *)
(*   "feed"     the runtime moves on while a stage works; three snapshots.  *)
(*              The constants of the cfg are its own.                       *)
(*   "answers"  answers are cut off between the stages; three snapshots.    *)
(*   "operator" one process at a time, with the notice checkpoint and the   *)
(*              operator; stages are killed and raise; two snapshots.       *)
(***************************************************************************)
EXTENDS RuntimeStorage, TLC

CONSTANT p1             \* model values

Fact(econ, ev, soft) == [econ |-> econ, price |-> 2, ev |-> ev, soft |-> soft]

OnePut   == [p \in {p1} |-> PUT]

\* A PUT path that is kept, dropped for its price, or gone from the universe.
PutFacts == {Fact("KEEP", "PUT_WINDOW_UNKNOWN", FALSE),
             Fact("DROP", "NO_ORDINARY_PUT", TRUE),
             Fact("ABSENT", "NO_ORDINARY_PUT", FALSE)}
OnePutFacts == [p \in {p1} |-> PutFacts]

VARIABLE part

Answering == INSTANCE RuntimeStorage WITH Faults <- {"cutoff"}, Overlap <- FALSE

Operated == INSTANCE RuntimeStorage WITH Faults <- {"kill", "sqlite"},
                                         Roles <- {"checkpoint", "operator"},
                                         Overlap <- FALSE, MaxSnap <- 2

allVars == <<vars, part>>

Steps == \/ part = "feed" /\ Next
         \/ part = "answers" /\ Answering!Next
         \/ part = "operator" /\ Operated!Next

\* The stage of part "feed" comes round again and again.
StorageSpec ==
    /\ part \in {"feed", "answers", "operator"} /\ Init
    /\ [][Steps /\ part' = part]_allVars
    /\ \A s \in Shadows : WF_allVars(part = "feed" /\ ShadowStep(s) /\ part' = part)

\* FeedSpec and Mirrored for the instance whose stages are not cut off: the change
\* ledger is a ChangeFeed (incremental_market_change_writer.py:99-205), and the last
\* snapshot reaches SQLite (incremental_storage_shadow.py:54-117).
Shown(feedValue, otherwise) == IF part = "feed" THEN feedValue ELSE otherwise

FeedOfPart == INSTANCE ChangeFeed WITH
                seen <- Shown([p \in Paths |-> Seen(p).row.econ],
                              [p \in Paths |-> "ABSENT"]),
                entries <- Shown(changes, {}),
                told <- Shown({l.change : l \in reminders}, {})
FeedIsChangeFeed == FeedOfPart!Spec

SnapshotIsMirrored ==
    \A p \in Paths, e \in {"KEEP", "DROP"} :
        part = "feed" /\ rt.snap = MaxSnap /\ rt.rows[p].econ = e
            ~> scope[p].row.econ = e
=============================================================================
