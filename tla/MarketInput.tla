----------------------------- MODULE MarketInput -----------------------------
(***************************************************************************)
(* What one market map is made of: the rows an acquisition run gathers and *)
(* audits (market_map/acquisition.py S1 to S6), the resolution of the      *)
(* conflicts it finds (semantic_resolution.py), and the calculation that   *)
(* freezes them (calculation.py, output_contract.py). One run directory,   *)
(* one process at a time; jobs, modes and dates are WebJobs' subject.      *)
(*                                                                         *)
(* A bond is the record of what the day's sources say of it; the readings  *)
(* themselves and the fitted model are abstracted to what the audit tells  *)
(* apart. WARNING is PASS, as for every reader of a status.                *)
(***************************************************************************)
EXTENDS Naturals, FiniteSets

CONSTANTS
    Bonds,       \* candidates of the main market source
    MaxAnswers,  \* bound on resolutions submitted
    SnapshotModes,       \* snapshot modes of the run
    Absent         \* a model value: absent

VARIABLES
    facts,       \* what the sources say of each bond
    mode,        \* snapshot mode
    pc,          \* the next step of the run, "end" when it stopped
    failedAt,    \* the step whose FAIL stopped the run
    base,        \* S2: bonds of the base sample
    dated,       \* S3: those with a maturity date
    request,     \* semantic_review_request.json: conflicts, Absent when there are none
    trusted,     \* trusted_market_input.csv: its rows and the conflicts applied to them
    result,      \* acquisition_result.json
    answer,      \* the resolution under validation
    valid,       \* semantic_resolution_validation.json
    answers,     \* resolutions submitted
    snapshot     \* market_map_snapshot.json with its output contract

inputVars == <<facts, mode, pc, failedAt, base, dated, request, trusted, result, answer, valid,
          answers, snapshot>>

\* K and maturity: the main source against the auxiliary one (a value only one of them has
\* does not differ). size: "noissue" has a remaining size without an issue size.
Fact == [fit : {TRUE}, K : {"same", "differs"}, listed : {"main", "single", "no"},
         aux : {"near", "far"}, size : {"ok", "no", "noissue"}]
Unfit == [fit |-> FALSE, K |-> "same", listed |-> "no", aux |-> "near", size |-> "no"]

Fails(s) == /\ failedAt' = s
            /\ pc' = "end"
            /\ result' = "FAIL"
Proceeds(s) == /\ pc' = s
           /\ UNCHANGED <<failedAt, result>>

\* fetch_and_freeze after call_with_retry: the source answers, or does not after its retries.
Sources == BOOLEAN

-----------------------------------------------------------------------------
(* Acquisition. *)

\* S1: the main source, else the pair of fallback sources, else FAIL; a replay reads the
\* frozen files of either, and raises without them.
ReadMarket ==
    /\ pc = "S1"
    /\ \E main \in Sources, universe \in Sources, quotes \in Sources :
         IF main \/ (universe /\ quotes) THEN Proceeds("S2")
         ELSE IF mode = "HISTORICAL_REPLAY" THEN /\ pc' = "end" /\ failedAt' = "S1" /\ UNCHANGED result
         ELSE Fails("S1")
    /\ UNCHANGED <<facts, mode, base, dated, request, trusted, answer, valid, answers, snapshot>>

\* S2: a code listed twice stops the run; the rest is split into the base sample and the
\* excluded, each with its reason.
Universe ==
    /\ pc = "S2"
    /\ \E duplicates \in BOOLEAN :
         LET fit == {b \in Bonds : facts[b].fit} IN
         IF duplicates \/ fit = {} THEN Fails("S2") /\ UNCHANGED base
         ELSE base' = fit /\ Proceeds("S3")
    /\ UNCHANGED <<facts, mode, dated, request, trusted, answer, valid, answers, snapshot>>

\* The per-bond source asked for maturities the main list lacks; each call may fail.
SingleAnswers(b) == IF facts[b].listed = "single" THEN BOOLEAN ELSE {FALSE}

\* S3: the list of maturities must answer; a bond without one leaves the duration sample.
Maturity ==
    /\ pc = "S3"
    /\ \E up \in Sources, single \in [base -> BOOLEAN] :
         /\ \A b \in base : single[b] \in SingleAnswers(b)
         /\ LET known == {b \in base : facts[b].listed = "main" \/ single[b]} IN
            IF ~up \/ known = {} THEN Fails("S3") /\ UNCHANGED dated
            ELSE dated' = known /\ Proceeds("S4")
    /\ UNCHANGED <<facts, mode, base, request, trusted, answer, valid, answers, snapshot>>

\* S4: sizes of the base's bonds; an unknown or impossible one leaves the scale sample.
Size ==
    /\ pc = "S4"
    /\ \E up \in Sources :
         IF ~up \/ \A b \in dated : facts[b].size # "ok" THEN Fails("S4") ELSE Proceeds("S5")
    /\ UNCHANGED <<facts, mode, base, dated, request, trusted, answer, valid, answers, snapshot>>

\* S5: conversion prices that differ and maturities more than a day apart.
Conflicts ==
    {<<b, "K">> : b \in {c \in base : facts[c].K = "differs"}}
        \cup {<<b, "maturity_date">> : b \in {c \in dated : facts[c].aux = "far"}}

\* The rows written as trusted: every bond of the base sample.
TrustedRows(rows) == [rows |-> rows, settled |-> {}]

\* S5 and S6: the request when something is unresolved, the trusted input when nothing is.
Audit ==
    /\ pc = "S5"
    /\ IF Conflicts # {}
       THEN /\ request' = Conflicts /\ trusted' = Absent
            /\ result' = "NEEDS_REVIEW" /\ pc' = "R"
       ELSE /\ request' = Absent /\ trusted' = TrustedRows(base)
            /\ result' = "PASS" /\ pc' = "C0"
    /\ UNCHANGED <<facts, mode, failedAt, base, dated, answer, valid, answers, snapshot>>

-----------------------------------------------------------------------------
(* Resolution: validate_resolution. *)

\* What a resolution says of a conflict: "good" is RESOLVED by evidence of the manifest
\* with a usable value; "open" is left unresolved; "unproven" has no such evidence;
\* "bad" has no usable value. other: an answer to a conflict nobody asked about.
Says == {"good", "absent", "open", "unproven", "bad"}

Submit ==
    /\ pc = "R" /\ answer = Absent /\ valid # "PASS" /\ answers < MaxAnswers
    /\ \E says \in [request -> Says], other \in BOOLEAN :
         answer' = [says |-> says, other |-> other]
    /\ answers' = answers + 1
    /\ UNCHANGED <<facts, mode, pc, failedAt, base, dated, request, trusted, result, valid, snapshot>>

Covers(a) == (\A c \in request : a.says[c] # "absent") /\ ~a.other
Evidenced(a) == \A c \in request : a.says[c] \in {"good", "absent", "bad"}
UsableAnswer(a) == \A c \in request : a.says[c] \notin {"open", "bad"}
\* Mutant: the conflicts the resolution left out are not looked for.
AcceptedPartly(a) == ~a.other /\ Evidenced(a) /\ UsableAnswer(a)
Accepted(a) == Covers(a) /\ Evidenced(a) /\ UsableAnswer(a)

\* Its last check looks at every row of the input, answered or not: a maturity and a
\* remaining size (a maturity is resolved only where there was one to doubt).
Complete(b) == b \in dated /\ facts[b].size # "no"

Applied(a) == {c \in request : a.says[c] = "good"}

\* A refusal is written first, then the trusted input removed; an acceptance the other
\* way round. "V" is between the two writes.
ValidateWrite ==
    /\ pc = "R" /\ answer # Absent
    /\ LET fine == Accepted(answer) /\ \A b \in base : Complete(b) IN
       IF fine
       THEN /\ trusted' = [rows |-> base, settled |-> Applied(answer)]
            /\ UNCHANGED valid
       ELSE /\ valid' = "FAIL"
            /\ UNCHANGED trusted
    /\ pc' = "V"
    /\ UNCHANGED <<facts, mode, failedAt, base, dated, request, result, answer, answers, snapshot>>

ValidateEnd ==
    /\ pc = "V"
    /\ IF Accepted(answer) /\ \A b \in base : Complete(b)
       THEN valid' = "PASS" /\ UNCHANGED trusted
       ELSE trusted' = Absent /\ UNCHANGED valid
    /\ pc' = IF valid' = "PASS" THEN "C0" ELSE "R"
    /\ answer' = Absent
    /\ UNCHANGED <<facts, mode, failedAt, base, dated, request, result, answers, snapshot>>

\* The process is killed between the two writes; the request can be answered again.
ValidateKilled ==
    /\ pc = "V"
    /\ pc' = "R"
    /\ answer' = Absent
    /\ UNCHANGED <<facts, mode, failedAt, base, dated, request, trusted, result, valid, answers, snapshot>>

\* A calculation can be asked for at any time (POST /api/calculation-runs).
AskedAnyway ==
    /\ pc = "R" /\ answer = Absent
    /\ pc' = "C0"
    /\ UNCHANGED <<facts, mode, failedAt, base, dated, request, trusted, result, answer, valid, answers, snapshot>>

-----------------------------------------------------------------------------
(* Calculation. *)

\* acquisition_input_is_trusted, which create_calculation_run asks and C0 repeats.
InputIsTrusted == trusted # Absent /\ (result = "PASS" \/ (result = "NEEDS_REVIEW" /\ valid = "PASS"))

\* C0: rows with a maturity and a remaining size are ready for the model. A request that
\* is refused leaves the run where it was.
Ready(b) == b \in dated /\ facts[b].size # "no"
Gate ==
    /\ pc = "C0"
    /\ IF ~InputIsTrusted THEN pc' = "R" /\ UNCHANGED failedAt
       ELSE IF \E b \in trusted.rows : Ready(b) THEN pc' = "C1" /\ UNCHANGED failedAt
       ELSE pc' = "end" /\ failedAt' = "C0"
    /\ UNCHANGED <<facts, mode, base, dated, request, trusted, result, answer, valid, answers, snapshot>>

\* C1 to C5 and the residuals: samples, convergence, shape; any of them stops the run.
Fit ==
    /\ pc = "C1"
    /\ \/ pc' = "C6" /\ UNCHANGED failedAt
       \/ \E s \in {"C1", "C2", "C3", "C4", "C5"} : pc' = "end" /\ failedAt' = s
    /\ UNCHANGED <<facts, mode, base, dated, request, trusted, result, answer, valid, answers, snapshot>>

\* The output contract takes no row without an issue size.
ContractHolds(rows) == \A b \in rows : facts[b].size = "ok"

\* C6: the class, the snapshot, its contract.
Freeze ==
    /\ pc = "C6"
    /\ LET rows == {b \in trusted.rows : Ready(b)} IN
       IF ContractHolds(rows)
       THEN /\ snapshot' = [rows |-> rows, class |-> IF mode \in {"CLOSE", "PRE_TRADE_CLOSE"}
                                                    THEN "FORMAL_CLOSE"
                                                    ELSE IF mode = "HISTORICAL_REPLAY" THEN mode ELSE "TEST_ONLY"]
            /\ UNCHANGED failedAt
       ELSE failedAt' = "C6" /\ UNCHANGED snapshot
    /\ pc' = "end"
    /\ UNCHANGED <<facts, mode, base, dated, request, trusted, result, answer, valid, answers>>

-----------------------------------------------------------------------------
InputInit ==
    /\ facts \in [Bonds -> Fact \cup {Unfit}]
    /\ mode \in SnapshotModes
    /\ pc = "S1" /\ failedAt = Absent
    /\ base = {} /\ dated = {}
    /\ request = Absent /\ trusted = Absent /\ result = Absent
    /\ answer = Absent /\ valid = Absent /\ answers = 0
    /\ snapshot = Absent

InputNext ==
    \/ ReadMarket \/ Universe \/ Maturity \/ Size \/ Audit
    \/ Submit \/ ValidateWrite \/ ValidateEnd \/ ValidateKilled \/ AskedAnyway
    \/ Gate \/ Fit \/ Freeze

InputSpec == InputInit /\ [][InputNext]_inputVars

-----------------------------------------------------------------------------
\* What a frozen map was calculated from had every conflict the sources show settled by
\* an answer that was proven and complete, also after a kill between the validator's two
\* writes (semantic_resolution.py; acquisition_input_is_trusted).
SettledByEvidence ==
    snapshot # Absent =>
        \A b \in snapshot.rows :
            /\ facts[b].K = "differs" => <<b, "K">> \in trusted.settled
            /\ b \in dated /\ facts[b].aux = "far" => <<b, "maturity_date">> \in trusted.settled

-----------------------------------------------------------------------------
(* What the repository's texts say and the code does not do.                *)

\* "Missing maturity: out of the duration and scale samples only, not out of the base
\* sample"; "missing size: out of the scale sample only" (acquisition.py:930, :1076): a
\* bond's gap costs the run nothing. A full and proven resolution is accepted, and a map
\* the model fits is frozen.
GapsAreTheBonds ==
    /\ failedAt # "C6"
    /\ pc = "V" /\ Accepted(answer) => valid # "FAIL"
=============================================================================
