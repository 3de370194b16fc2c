--------------------------------- MODULE Radar ---------------------------------
(***************************************************************************)
(* The intelligence radar over one date: two sources are read, what was not *)
(* analysed before goes to a broad and a final AI pass, and the findings of *)
(* the date are replaced in the database, marked as analysed and archived.  *)
(* Runs of a date follow each other; LIVE runs of a day add to it, BACKFILL *)
(* runs rebuild it.                                                         *)
(*                                                                          *)
(* A question, thread or status is an item with numbered versions of its    *)
(* text; a finding is about one version.  Wording is left out, but for the  *)
(* title of a finding, which decides whether two findings are merged.       *)
(***************************************************************************)
EXTENDS Integers, FiniteSets

CONSTANTS
    JisiluItems, XueqiuItems,
    MaxVersion,     \* bound on edits
    Titles,         \* titles the AI may give to a finding
    Modes,          \* of {"LIVE", "BACKFILL"}
    MaxRuns,        \* bound on runs
    Missing         \* no run, no file

ASSUME RadarConstants ==
    /\ JisiluItems \cap XueqiuItems = {} /\ Modes \subseteq {"LIVE", "BACKFILL"}
    /\ MaxVersion \in Nat /\ MaxRuns \in Nat
    /\ Missing \notin [status : {"FAILED", "OK"}, mode : Modes, used : Nat]

Items == JisiluItems \cup XueqiuItems
Sources == {"jisilu", "xueqiu"}
SourceOf(i) == IF i \in JisiluItems THEN "jisilu" ELSE "xueqiu"

VARIABLES
    posted,         \* item -> version on the site, 0 before it is posted
    shadow,         \* xueqiu_shadow/<date>.json: item -> version
    seen, analyzed, \* tables source_item_version and source_item_analysis
    runs,           \* table daily_run: source -> row
    findings,       \* table daily_finding
    capsule,        \* table thread_context_capsule: item -> the nodes it sums up
    archive,        \* archive/<date>.json
    proc,           \* the run under way
    hist            \* history: what the runs did

db == <<seen, analyzed, runs, findings, capsule>>
radarVars == <<posted, shadow, db, archive, proc, hist>>

\* The id of a finding has the source, the item and what happened; the key findings are
\* merged by has its title as well.
Finding(i, n, title) == [id |-> <<i, n>>, item |-> i, title |-> title, src |-> SourceOf(i)]
MergeKey(f) == <<f.id, f.title>>

Idle == [pc |-> "idle", src |-> "jisilu", both |-> FALSE, mode |-> "LIVE", cands |-> {}, broad |-> {},
         new |-> {}, failed |-> FALSE, used |-> 0]

RadarInit ==
    /\ posted = [i \in Items |-> 0] /\ shadow = [i \in XueqiuItems |-> 0]
    /\ seen = {} /\ analyzed = {} /\ findings = {}
    /\ runs = [s \in Sources |-> Missing]
    /\ capsule = [i \in Items |-> {}]
    /\ archive = Missing
    /\ proc = Idle
    /\ hist = [count |-> 0, judged |-> {}, kept |-> {}, spent |-> [s \in Sources |-> 0],
               cut |-> FALSE, raised |-> FALSE]

-----------------------------------------------------------------------------
\* An author posts or edits; it shows only where a source is read.
Post(i) ==
    /\ posted[i] < MaxVersion /\ proc.pc \in {"idle", "collect"}
    /\ posted' = [posted EXCEPT ![i] = @ + 1]
    /\ UNCHANGED <<shadow, db, archive, proc, hist>>

\* merge_collection_into_archive: what was seen stays, an edit replaces its text.
\* Authors and pages that fail are left out.
Observed == {i \in XueqiuItems : posted[i] > 0}
Accumulated ==
    {[i \in XueqiuItems |-> IF i \in O THEN posted[i] ELSE shadow[i]] : O \in SUBSET Observed}

\* The accumulation timer, three times during the day.
Accumulate ==
    /\ proc.pc = "idle"
    /\ shadow' \in Accumulated
    /\ UNCHANGED <<posted, db, archive, proc, hist>>

\* run_all goes through both lanes, and in LIVE mode brings the archive up to date first,
\* or that fails; each lane is a command of its own too.
Start(mode, src, both) ==
    /\ proc.pc = "idle" /\ hist.count < MaxRuns
    /\ both => src = "jisilu"
    /\ shadow' \in IF both /\ mode = "LIVE" THEN Accumulated ELSE {shadow}
    /\ proc' = [Idle EXCEPT !.pc = "collect", !.mode = mode, !.src = src, !.both = both]
    /\ hist' = [hist EXCEPT !.count = @ + 1]
    /\ UNCHANGED <<posted, db, archive>>

\* The feeds of the site itself, and what was accumulated; pages that fail are left out.
JisiluVersions == {<<i, posted[i]>> : i \in {j \in JisiluItems : posted[j] > 0}}
XueqiuVersions == {<<i, shadow[i]>> : i \in {j \in XueqiuItems : shadow[j] > 0}}
Readable(src) == IF src = "jisilu" THEN JisiluVersions ELSE XueqiuVersions

\* prepare_incremental_candidates: in LIVE mode, versions not analysed before.
Increment(versions) == IF proc.mode = "LIVE" THEN versions \ analyzed ELSE versions

Collect ==
    /\ proc.pc = "collect"
    /\ \E versions \in SUBSET Readable(proc.src) :
        /\ proc' = [proc EXCEPT !.cands = Increment(versions),
                                !.pc = IF Increment(versions) = {} THEN "save" ELSE "broad"]
        /\ seen' = IF proc.mode = "LIVE" THEN seen \cup versions ELSE seen
    /\ UNCHANGED <<posted, shadow, analyzed, runs, findings, capsule, archive, hist>>

\* The feed cannot be read, or there is no archive of the date.
CollectFails ==
    /\ proc.pc = "collect"
    /\ proc' = [proc EXCEPT !.failed = TRUE, !.pc = "save"]
    /\ UNCHANGED <<posted, shadow, db, archive, hist>>

\* A finding cites a version of the day, of the one item it is about.
Found == UNION {{{Finding(v[1], v[2], title[v]) : v \in vs} : title \in [vs -> Titles]} :
                    vs \in SUBSET proc.cands}

\* An answer that does not validate is asked for once more, then the batch has failed.
Answers == [requests : 1..2, failed : BOOLEAN]

\* filter_batch over all batches; one that failed fails the run.
Broad ==
    /\ proc.pc = "broad"
    /\ \E a \in Answers, broad \in Found :
        proc' = [proc EXCEPT !.broad = broad, !.failed = a.failed, !.used = @ + a.requests,
                             !.pc = IF a.failed \/ broad = {} THEN "save" ELSE "gate"]
    /\ UNCHANGED <<posted, shadow, db, archive, hist>>

\* select_final_findings: an answer that names an unknown finding or one twice fails.
Gate ==
    /\ proc.pc = "gate"
    /\ \E failed \in BOOLEAN, kept \in SUBSET proc.broad :
        proc' = [proc EXCEPT !.new = IF failed THEN {} ELSE kept, !.failed = failed,
                             !.used = @ + 1, !.pc = "save"]
    /\ UNCHANGED <<posted, shadow, db, archive, hist>>

-----------------------------------------------------------------------------
(* What a run finds of the date, and what it saves.                         *)

\* The view of a date holds both sources: the Jisilu lane takes it whole.
Existing(src) == IF src = "jisilu" THEN findings ELSE {f \in findings : f.src = src}
ExistingRun(src) ==
    CASE src = "jisilu" /\ runs["jisilu"] = Missing -> runs["xueqiu"]
      [] OTHER -> runs[src]

\* _merge_live_findings: a new finding takes the place of one with its key.
MergeLive(old, new) == {f \in old : \A g \in new : MergeKey(f) # MergeKey(g)} \cup new

\* Faulty: the findings of an earlier run are dropped.
RowsNewOnly == proc.new

RowsToSave ==
    IF proc.mode = "BACKFILL" THEN proc.new
    ELSE IF proc.failed THEN Existing(proc.src) ELSE MergeLive(Existing(proc.src), proc.new)

\* Faulty: tokens of a failed run replace those spent before.
UsageOfLast ==
    IF proc.mode = "LIVE" /\ ~proc.failed /\ ExistingRun(proc.src) # Missing
    THEN proc.used + ExistingRun(proc.src).used ELSE proc.used

\* _combine_ai_usage
UsageToSave ==
    IF proc.mode = "LIVE" /\ ExistingRun(proc.src) # Missing
    THEN proc.used + ExistingRun(proc.src).used ELSE proc.used

\* Rows of the other source stay: one that comes back under its id cannot be inserted.
Others == {f \in findings : f.src # proc.src}
Clash ==
    LET rows == RowsToSave
    IN  \/ \E f, g \in rows : f # g /\ f.id = g.id
        \/ \E f \in rows, g \in Others : f.id = g.id

\* save_daily_result, one transaction
Save ==
    /\ proc.pc = "save" /\ ~Clash
    /\ runs' = [runs EXCEPT ![proc.src] =
            [status |-> IF proc.failed THEN "FAILED" ELSE "OK", mode |-> proc.mode,
             used |-> UsageToSave]]
    /\ findings' = Others \cup {[f EXCEPT !.src = proc.src] : f \in RowsToSave}
    /\ proc' = [proc EXCEPT !.pc = IF proc.mode = "LIVE" /\ ~proc.failed THEN "mark"
                                   ELSE "archive"]
    /\ LET Mine(vs) == {v \in vs : SourceOf(v[1]) = proc.src}
           new == {f.id : f \in proc.new}
           live == proc.mode = "LIVE"
       IN  hist' = [hist EXCEPT
                !.judged = IF live /\ ~proc.failed THEN @ \cup proc.cands ELSE @,
                !.kept = IF live THEN @ \cup new ELSE (@ \ Mine(@)) \cup new,
                !.spent[proc.src] = IF live THEN @ + proc.used ELSE proc.used]
    /\ UNCHANGED <<posted, shadow, seen, analyzed, capsule, archive>>

\* The insertion fails, the transaction is rolled back, and the exception ends the run.
SaveRaises ==
    /\ proc.pc = "save" /\ Clash
    /\ proc' = Idle
    /\ hist' = [hist EXCEPT !.raised = TRUE]
    /\ UNCHANGED <<posted, shadow, db, archive>>

\* mark_item_versions_analyzed
Mark ==
    /\ proc.pc = "mark"
    /\ analyzed' = analyzed \cup proc.cands
    /\ proc' = [proc EXCEPT !.pc = "capsule"]
    /\ UNCHANGED <<posted, shadow, seen, runs, findings, capsule, archive, hist>>

\* refresh_thread_capsules, for the threads with something new
Capsules ==
    /\ proc.pc = "capsule"
    /\ LET threads == {f.item : f \in proc.new}
       IN  capsule' = [i \in Items |-> IF i \in threads
                          THEN {f.id : f \in {g \in findings : g.item = i /\ g.src = proc.src}}
                          ELSE capsule[i]]
    /\ proc' = [proc EXCEPT !.pc = "archive"]
    /\ UNCHANGED <<posted, shadow, seen, analyzed, runs, findings, archive, hist>>

View == [runs |-> runs, nodes |-> findings]

\* The next lane of run_all begins, or the run is over.
NextLane ==
    IF proc.both /\ proc.src = "jisilu"
    THEN [Idle EXCEPT !.pc = "collect", !.mode = proc.mode, !.src = "xueqiu", !.both = TRUE]
    ELSE Idle

\* Faulty: a failed run leaves the archive as it is.
ArchiveIfOk ==
    /\ proc.pc = "archive"
    /\ archive' = IF proc.failed THEN archive ELSE View
    /\ proc' = NextLane
    /\ UNCHANGED <<posted, shadow, db, hist>>

\* write_daily_archive
Archive ==
    /\ proc.pc = "archive"
    /\ archive' = View
    /\ proc' = NextLane
    /\ hist' = [hist EXCEPT !.cut = FALSE]
    /\ UNCHANGED <<posted, shadow, db>>

\* The service is stopped after its time limit, or no provider can be built.
Killed ==
    /\ proc.pc # "idle"
    /\ proc' = Idle
    /\ hist' = [hist EXCEPT !.cut = @ \/ proc.pc \in {"mark", "capsule", "archive"}]
    /\ UNCHANGED <<posted, shadow, db, archive>>

-----------------------------------------------------------------------------
RadarNext ==
    \/ \E i \in Items : Post(i)
    \/ Accumulate
    \/ \E mode \in Modes, src \in Sources, both \in BOOLEAN : Start(mode, src, both)
    \/ Collect \/ CollectFails \/ Broad \/ Gate
    \/ Save \/ SaveRaises \/ Mark \/ Capsules \/ Archive \/ Killed

RadarSpec == RadarInit /\ [][RadarNext]_radarVars

-----------------------------------------------------------------------------
\* A version marked as analysed, which no later LIVE run gives to the AI again, was judged
\* by a run that did not fail, and what that run kept of it is among the findings of the
\* date, through failed passes, reruns and kills (daily.py:389-412, increments.py:171-201).
NoNodeLost ==
    \A v \in analyzed :
        /\ v \in hist.judged \/ \E s \in Sources : runs[s] # Missing /\ runs[s].mode = "BACKFILL"
        /\ v \in hist.kept => \E f \in findings : f.id = v

\* The row of a source holds the tokens of all its LIVE runs of the day that were saved,
\* failed or not, in whatever order the lanes and the whole run came; Xueqiu's row holds
\* them and no more, Jisilu's may hold Xueqiu's a second time (daily.py:203-224, 391-399,
\* xueqiu_daily.py:99-102).
NoUsageLost ==
    \A s \in Sources : runs[s] # Missing =>
        /\ runs[s].used >= hist.spent[s]
        /\ s = "xueqiu" => runs[s].used = hist.spent[s]

\* Between runs the archive file of the date says what the database says, also after a
\* pass failed or a save was rolled back, unless the last run was killed after its save
\* (storage.py:674-705).
ArchiveIsCurrent ==
    proc.pc = "idle" /\ ~hist.cut /\ archive # Missing => archive = View

-----------------------------------------------------------------------------
(* What the repository's texts say and the code does not do.                *)

\* README.md:165: LIVE reruns of a day merge new nodes.
RerunsMerge == ~hist.raised
=============================================================================
