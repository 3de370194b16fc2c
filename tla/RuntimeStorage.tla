---------------------------- MODULE RuntimeStorage ----------------------------
(***************************************************************************)
(* The SQLite shadow of the opportunity runtime and the one status file its *)
(* writers share.                                                           *)
(*                                                                          *)
(* A shadow stage (incremental_storage_shadow.py) reads the status file,    *)
(* captures the path states of the database, mirrors the JSON runtime into  *)
(* it, files the economic transitions it sees, audits the mirror twice and  *)
(* writes the status file back.  The notice checkpoint and the operator who *)
(* switches the read source read, change and write the same file.  Nothing  *)
(* locks it, and each database step is a transaction of its own.            *)
(*                                                                          *)
(* The JSON runtime is here what PathResearch leaves between its steps: the *)
(* rows of TriggerRules, a ledger of results by trigger key, and the pool.  *)
(* A result has the id of the trigger it was first researched for.          *)
(***************************************************************************)
EXTENDS TriggerRules, FiniteSets

CONSTANTS
    Facts,      \* Facts[p]: economic judgments, with soft for a price-only DROP
    Shadows,    \* the callers of the shadow stage: full run, information run
    MinPasses,  \* MIN_DISTINCT_FORMAL_PARITY_PASSES
    Faults,     \* what may go wrong: {"kill", "sqlite", "cutoff"}
    Roles,      \* which of {"checkpoint", "operator"} take part
    Overlap,    \* TRUE: the processes run beside one another
    MaxSnap     \* bound on market snapshots

FactsOf(p) == [econ : {"KEEP", "DROP", "ABSENT"}, price : Nat, ev : STRING,
               soft : BOOLEAN]
ASSUME StorageFacts == \A p \in Paths : Facts[p] \subseteq FactsOf(p)
ASSUME StorageBounds == /\ MinPasses \in Nat \ {0} /\ MaxSnap \in Nat
ASSUME StorageFaults == /\ Faults \subseteq {"kill", "sqlite", "cutoff"}
                        /\ Roles \subseteq {"checkpoint", "operator"}
                        /\ Overlap \in BOOLEAN

VARIABLES
    rt,         \* registry and research_trigger_state.json
    results,    \* research_ledger.json: trigger key -> result
    finished,   \* history: trigger keys a final result was filed for
    pool,       \* latest_candidate_pool.json, the research part of each KEEP path
    scope,      \* scope_state_current
    index,      \* research_result_index: result id -> status
    bind,       \* research_binding, the latest row of each path
    changes,    \* change_ledger, the market transitions
    reminders,  \* notification_change_link: group -> change
    file,       \* incremental_storage_status.json
    latest,     \* latest_incremental_storage_sync.json
    manifest,   \* read_source_rollback_manifest.json exists
    spc, sfile, sprev, saudit,      \* each shadow stage
    kpc, kfile,                     \* the notice checkpoint
    opc, ofile, otarget,            \* the operator
    honest      \* history: passes of shadow stages since one failed

runtime == <<rt, results, finished>>
mirror  == <<scope, index, bind>>
feed    == <<changes, reminders>>
shadow  == <<spc, sfile, sprev, saudit>>
checker == <<kpc, kfile>>
oper    == <<opc, ofile, otarget>>
vars == <<runtime, pool, mirror, feed, file, latest, manifest, shadow, checker,
          oper, honest>>

JSON   == "JSON_RUNTIME"
SQLITE == "SQLITE_RUNTIME"

-----------------------------------------------------------------------------
(* Records of the stores.                                                   *)

With(f, k, v) == [x \in DOMAIN f \cup {k} |-> IF x = k THEN v ELSE f[x]]
Nothing == [x \in {} |-> 0]

\* What a result was researched for: the event state and price of its row.
ResearchIdentity(p, row) ==
    IF Kind[p] = MATURITY THEN <<row.ev>> ELSE <<row.ev, row.price>>

Result(id, status, reused, identity) ==
    [id |-> id, status |-> status, reused |-> reused, identity |-> identity]

NoScope   == [row |-> AbsentRow, soft |-> FALSE, identity |-> <<>>, snap |-> 0]
NoBinding == [cur |-> FALSE, key |-> NoKey, id |-> NoKey, reused |-> FALSE,
              valid |-> FALSE]

\* The status file the bootstrap leaves, on the first day of the notice lane.
NewFile == [primary |-> JSON, sync |-> "PASS", state |-> "PASS",
            projection |-> "PASS", snap |-> 0, streak |-> 0, moves |-> 0]

NoAudit == [state |-> "NONE", projection |-> "NONE", snap |-> 0,
            moved |-> FALSE]

Present(p) == scope[p] # NoScope

\* What a KEEP path shows of its research: the trigger, the mapped status, the
\* bound result if there is one, and how many results the path has had.
View(row, id, ready, count) ==
    [key |-> row.key, status |-> row.status, id |-> id, ready |-> ready,
     count |-> count]

PoolRow(p) ==
    LET row   == rt.rows[p]
        count == Cardinality({k \in DOMAIN results : k.path = p})
    IN  IF row.status \in Answered
        THEN View(row, results[row.key].id,
                  results[row.key].status = "COMPLETED", count)
        ELSE View(row, NoKey, FALSE, count)

\* build_candidate_pool raises on a status it cannot map or a missing result.
Poolable ==
    \A p \in Paths : rt.rows[p].econ = "KEEP" =>
        /\ rt.rows[p].status # "CANCELLED_ECONOMIC_DROP"
        /\ rt.rows[p].status \in Answered => rt.rows[p].key \in DOMAIN results

ScopeRow(p) ==
    LET row   == scope[p].row
        count == Cardinality({id \in DOMAIN index : id.path = p})
    IN  IF row.status \in Answered
        THEN View(row, bind[p].id, index[bind[p].id] = "COMPLETED", count)
        ELSE View(row, NoKey, FALSE, count)

Projectable ==
    \A p \in Paths : scope[p].row.econ = "KEEP" =>
        /\ scope[p].row.status # "CANCELLED_ECONOMIC_DROP"
        /\ scope[p].row.status \in Answered => bind[p].cur

-----------------------------------------------------------------------------
Init ==
    /\ rt = [snap |-> 0, rows |-> [p \in Paths |-> AbsentRow],
             soft |-> [p \in Paths |-> FALSE]]
    /\ results = Nothing /\ finished = {}
    /\ pool = Nothing
    /\ scope = [p \in Paths |-> NoScope]
    /\ index = Nothing
    /\ bind = [p \in Paths |-> NoBinding]
    /\ changes = {} /\ reminders = {}
    /\ file = NewFile
    /\ latest = NoAudit
    /\ manifest = FALSE
    /\ spc = [s \in Shadows |-> "idle"]
    /\ sfile = [s \in Shadows |-> NewFile]
    /\ sprev = [s \in Shadows |-> [p \in Paths |-> NoScope]]
    /\ saudit = [s \in Shadows |-> NoAudit]
    /\ kpc = "idle" /\ kfile = NewFile
    /\ opc = "idle" /\ ofile = NewFile /\ otarget = JSON
    /\ honest = [snap |-> 0, passes |-> 0]

Idle(s) == spc[s] = "idle"

\* A process starts when the others are at rest, unless they may overlap.
MayStart == Overlap \/ (/\ \A s \in Shadows : Idle(s)
                        /\ kpc = "idle" /\ opc = "idle")

-----------------------------------------------------------------------------
(* The JSON runtime between shadow stages.                                  *)

Publish ==
    /\ rt.snap < MaxSnap /\ MayStart
    /\ \E f \in [Paths -> UNION {Facts[p] : p \in Paths}] :
        /\ \A p \in Paths : f[p] \in Facts[p]
        /\ rt' = [snap |-> rt.snap + 1,
                  rows |-> [p \in Paths |->
                              NextRow(p, rt.rows[p], f[p], rt.snap + 1)],
                  soft |-> [p \in Paths |-> f[p].econ = "DROP" /\ f[p].soft]]
    /\ UNCHANGED <<results, finished, pool, mirror, feed, file, latest, manifest,
                   shadow, checker, oper, honest>>

\* The question of a path is handed to the chat bridge.
Ask(p) ==
    /\ rt.rows[p].econ = "KEEP" /\ rt.rows[p].status = "PENDING" /\ MayStart
    /\ rt' = [rt EXCEPT !.rows[p].status = "WAITING_FOR_CHAT"]
    /\ UNCHANGED <<results, finished, pool, mirror, feed, file, latest, manifest,
                   shadow, checker, oper, honest>>

\* A question may be answered while it is open or held.  One that is open beside a
\* result of its own was cut off before, and may be answered otherwise now.
Answerable(p) ==
    /\ rt.rows[p].econ = "KEEP" /\ MayStart
    /\ rt.rows[p].status \in {"PENDING", "WAITING_FOR_CHAT", HOLD}

\* The ledger takes the result first.  Its id is a function of the trigger, so the
\* answer to a question that was answered before takes the same id.
File(p, status) ==
    LET row == rt.rows[p]
    IN  /\ row.status = HOLD => status # HOLD
        /\ results' = With(results, row.key,
                           Result(row.key, status, FALSE,
                                  ResearchIdentity(p, row)))
        /\ finished' = finished \cup {k \in {row.key} : status = "COMPLETED"}

\* record_path_research_result
Answer(p, status) ==
    /\ Answerable(p) /\ File(p, status)
    /\ rt' = [rt EXCEPT !.rows[p].status = status,
                        !.rows[p].result = rt.rows[p].key]
    /\ UNCHANGED <<pool, mirror, feed, file, latest, manifest, shadow, checker,
                   oper, honest>>

\* The worker of a question runs into its wall timeout, or fails, after the ledger
\* took the result: the batch puts the row back, whether the row had been written
\* or not.  A chat submission that ends there leaves its row as it was.
AnswerCutOff(p, status) ==
    /\ "cutoff" \in Faults
    /\ Answerable(p) /\ File(p, status)
    /\ \/ rt.rows[p].status = "WAITING_FOR_CHAT" /\ rt' = rt
       \/ /\ rt.rows[p].status # "WAITING_FOR_CHAT"
          /\ \E r \in {rt.rows[p].result, rt.rows[p].key} :
                rt' = [rt EXCEPT !.rows[p].status = "PENDING", !.rows[p].result = r]
    /\ UNCHANGED <<pool, mirror, feed, file, latest, manifest, shadow, checker,
                   oper, honest>>

\* The reuse gate: a finished result that SQLite binds to the path answers its
\* next KEEP entry too, when the path is in the state it was researched for.
Reuse(p) ==
    LET row == rt.rows[p]
        old == {k \in DOMAIN results : results[k].id = bind[p].id}
    IN  /\ row.econ = "KEEP" /\ row.status = "PENDING" /\ MayStart
        /\ row.key.reason \in KeepEntryReasons
        /\ bind[p].cur /\ bind[p].valid
        /\ \E k \in old :
             /\ results[k].status = "COMPLETED"
             /\ results[k].identity = ResearchIdentity(p, row)
             /\ results' = With(results, row.key,
                                [results[k] EXCEPT !.reused = TRUE])
        /\ finished' = finished \cup {row.key}
        /\ rt' = [rt EXCEPT !.rows[p].status = "COMPLETED",
                            !.rows[p].result = bind[p].id]
        /\ UNCHANGED <<pool, mirror, feed, file, latest, manifest, shadow,
                       checker, oper, honest>>

-----------------------------------------------------------------------------
(* shadow_sync_current_runtime: one transaction.                            *)

\* Faulty: a price-only DROP keeps the whole state of the path.
SyncedScopeAsBefore(p) ==
    IF rt.rows[p].econ = "ABSENT" THEN NoScope
    ELSE IF Present(p) /\ rt.rows[p].econ = "DROP" /\ rt.soft[p] THEN scope[p]
    ELSE [row |-> rt.rows[p], soft |-> rt.soft[p], snap |-> rt.snap,
          identity |-> ResearchIdentity(p, rt.rows[p])]

\* A DROP for the price alone does not change what the path was researched for.
SyncedScope(p) ==
    LET row  == rt.rows[p]
        kept == /\ Present(p) /\ row.econ = "DROP" /\ rt.soft[p]
                /\ scope[p].identity # <<>>
    IN  IF row.econ = "ABSENT" THEN NoScope
        ELSE [row |-> row, soft |-> rt.soft[p], snap |-> rt.snap,
              identity |-> IF kept THEN scope[p].identity
                           ELSE ResearchIdentity(p, row)]

\* The state hash leaves the snapshot out, so an unchanged path keeps its version.
StateIdentity(s) == <<s.row.econ, s.soft, s.row.ev, s.row.status, s.row.key,
                      s.row.result, s.identity>>

\* The result that answers the present trigger of a path, if there is one yet.
HasResult(p) == rt.rows[p].econ # "ABSENT" /\ rt.rows[p].key \in DOMAIN results

\* Faulty: a held result is bound as valid.
BindingOfAny(p) ==
    LET r == results[rt.rows[p].key]
    IN  [cur |-> TRUE, key |-> rt.rows[p].key, id |-> r.id, reused |-> r.reused,
         valid |-> TRUE]

BindingOf(p) ==
    LET key == rt.rows[p].key
        r   == results[key]
    IN  [cur |-> TRUE, key |-> key, id |-> r.id, reused |-> r.reused,
         valid |-> r.status = "COMPLETED"]

SameBinding(b, c) == /\ b.cur /\ b.id = c.id /\ b.reused = c.reused
                     /\ b.key = c.key

\* Faulty: a path that left the universe keeps its binding.
SyncedBindingForever(p) ==
    IF ~HasResult(p) \/ SameBinding(bind[p], BindingOf(p)) THEN bind[p]
    ELSE BindingOf(p)

\* A path without a row loses its binding; a new trigger that nobody answered
\* yet keeps the binding of the one before.
SyncedBinding(p) ==
    IF rt.rows[p].econ = "ABSENT" THEN [bind[p] EXCEPT !.cur = FALSE]
    ELSE IF ~HasResult(p) \/ SameBinding(bind[p], BindingOf(p)) THEN bind[p]
    ELSE BindingOf(p)

\* INSERT of the results the index does not hold: a row is never updated.
SyncedIndex ==
    LET ids == {results[k].id : k \in DOMAIN results}
    IN  [id \in DOMAIN index \cup ids |->
           IF id \in DOMAIN index THEN index[id]
           ELSE (CHOOSE r \in {results[k] : k \in DOMAIN results} :
                    r.id = id).status]

-----------------------------------------------------------------------------
(* run_incremental_storage_shadow.                                          *)

Goto(s, label) == spc' = [spc EXCEPT ![s] = label]

\* Both callers project the candidate pool from the JSON runtime first.
ShadowPool(s) ==
    /\ Idle(s) /\ MayStart /\ rt.snap > 0 /\ Poolable
    /\ pool' = [p \in {q \in Paths : rt.rows[q].econ = "KEEP"} |-> PoolRow(p)]
    /\ Goto(s, "read")
    /\ UNCHANGED <<runtime, mirror, feed, file, latest, manifest, sfile, sprev,
                   saudit, checker, oper, honest>>

ShadowRead(s) ==
    /\ spc[s] = "read"
    /\ sfile' = [sfile EXCEPT ![s] = file]
    /\ saudit' = [saudit EXCEPT ![s] = NoAudit]
    /\ Goto(s, "capture")
    /\ UNCHANGED <<runtime, pool, mirror, feed, file, latest, manifest, sprev,
                   checker, oper, honest>>

\* capture_market_path_state
ShadowCapture(s) ==
    /\ spc[s] = "capture"
    /\ sprev' = [sprev EXCEPT ![s] = scope]
    /\ Goto(s, "sync")
    /\ UNCHANGED <<runtime, pool, mirror, feed, file, latest, manifest, sfile,
                   saudit, checker, oper, honest>>

ShadowSync(s) ==
    /\ spc[s] = "sync"
    /\ scope' = [p \in Paths |-> SyncedScope(p)]
    /\ index' = SyncedIndex
    /\ bind' = [p \in Paths |-> SyncedBinding(p)]
    /\ saudit' = [saudit EXCEPT ![s].moved =
                    \E p \in Paths : /\ scope'[p] # NoScope
                                     /\ \/ ~Present(p)
                                        \/ StateIdentity(scope'[p])
                                             # StateIdentity(scope[p])]
    /\ Goto(s, "changes")
    /\ UNCHANGED <<runtime, pool, feed, file, latest, manifest, sfile, sprev,
                   checker, oper, honest>>

\* A path had the attention of research: it was asked about or answered.
Attention(row) == row.status # "NONE" \/ row.result # NoKey

Transition(p, before, after) ==
    [path |-> p, snap |-> after.snap, from |-> before.row.econ,
     to |-> after.row.econ, attention |-> Attention(before.row)]

\* Faulty: the first sight of a path is not a transition.
TransitionsOfKnown(before, after) ==
    {Transition(p, before[p], after[p]) :
        p \in {q \in Paths : /\ after[q].row.econ \in {"KEEP", "DROP"}
                             /\ before[q].row.econ \notin {"ABSENT", after[q].row.econ}}}

\* What persist_market_transition_changes compares: the captured states with
\* the states it finds.  A path that left the database is not looked at.
Transitions(before, after) ==
    {Transition(p, before[p], after[p]) :
        p \in {q \in Paths : /\ after[q].row.econ \in {"KEEP", "DROP"}
                             /\ before[q].row.econ # after[q].row.econ}}

\* notification_level: only the exit of a researched path is for the user.
Immediate(c) == c.to = "DROP" /\ c.attention

\* coalesce_notification_groups: one reminder for a snapshot and kind of change.
GroupOf(c) == <<c.snap, c.to>>

Links(cs) == {[group |-> GroupOf(c), change |-> c] : c \in {d \in cs : Immediate(d)}}

ShadowChanges(s) ==
    /\ spc[s] = "changes"
    /\ LET new == Transitions(sprev[s], scope)
       IN  /\ changes' = changes \cup new
           /\ reminders' = reminders \cup Links(new)
    /\ Goto(s, "parity")
    /\ UNCHANGED <<runtime, pool, mirror, file, latest, manifest, sfile, sprev,
                   saudit, checker, oper, honest>>

\* audit_json_sqlite_parity reads the JSON runtime as it is now.
ExpectedBindings ==
    {p \in Paths : HasResult(p) \/ (rt.rows[p].status = "PENDING" /\ bind[p].cur)}

StateParity ==
    /\ \A p \in Paths : IF rt.rows[p].econ = "ABSENT" THEN ~Present(p)
                        ELSE /\ scope[p].row.econ = rt.rows[p].econ
                             /\ scope[p].snap = rt.snap
    /\ \A p \in Paths : HasResult(p) =>
          bind[p].cur /\ bind[p].id = results[rt.rows[p].key].id
    /\ \A p \in Paths : bind[p].cur => p \in ExpectedBindings

ShadowParity(s) ==
    /\ spc[s] = "parity"
    /\ saudit' = [saudit EXCEPT ![s].state = IF StateParity THEN "PASS" ELSE "FAIL",
                                ![s].snap = rt.snap]
    /\ Goto(s, "projection")
    /\ UNCHANGED <<runtime, pool, mirror, feed, file, latest, manifest, sfile,
                   sprev, checker, oper, honest>>

\* audit_projection_parity: the pool that was written against the pool SQLite
\* would give.
ProjectionParity ==
    LET kept == {p \in Paths : scope[p].row.econ = "KEEP"}
    IN  DOMAIN pool = kept /\ \A p \in kept : pool[p] = ScopeRow(p)

ShadowProjection(s) ==
    /\ spc[s] = "projection" /\ Projectable
    /\ saudit' = [saudit EXCEPT ![s].projection =
                    IF ProjectionParity THEN "PASS" ELSE "FAIL"]
    /\ Goto(s, "write")
    /\ UNCHANGED <<runtime, pool, mirror, feed, file, latest, manifest, sfile,
                   sprev, checker, oper, honest>>

Auditing == {"capture", "sync", "changes", "parity", "projection"}

\* The handler of the stage's try block: a database step that raises, or a
\* projection that cannot be built.
ShadowRaises(s) ==
    /\ \/ spc[s] \in Auditing /\ "sqlite" \in Faults
       \/ spc[s] = "projection" /\ ~Projectable
    /\ saudit' = [saudit EXCEPT ![s] = NoAudit]
    /\ Goto(s, "write_error")
    /\ UNCHANGED <<runtime, pool, mirror, feed, file, latest, manifest, sfile,
                   sprev, checker, oper, honest>>

AuditPasses(a) == a.state = "PASS" /\ a.projection = "PASS"

\* Passes are counted once for a market snapshot.
Passed(f, a) ==
    LET new == a.snap # f.snap
    IN  [f EXCEPT !.sync = "PASS", !.state = a.state, !.projection = a.projection,
                  !.snap = a.snap,
                  !.streak = IF new THEN @ + 1 ELSE @,
                  !.moves = IF new /\ a.moved THEN @ + 1 ELSE @]

Failed(f, a) == [f EXCEPT !.sync = "FAIL", !.state = a.state,
                          !.projection = a.projection, !.snap = a.snap, !.streak = 0]

\* Faulty: an exception does not break the row of passes.
ErroredGently(f) == [f EXCEPT !.sync = "FAIL"]

\* An exception leaves what the last audit said.
Errored(f) == [f EXCEPT !.sync = "FAIL", !.streak = 0]

\* The whole file is written from the copy the stage read at its start.
ShadowWrite(s) ==
    /\ spc[s] = "write"
    /\ LET a == saudit[s]
       IN  IF AuditPasses(a)
           THEN /\ file' = Passed(sfile[s], a)
                /\ honest' = [snap |-> a.snap,
                              passes |-> honest.passes
                                         + IF a.snap # honest.snap THEN 1 ELSE 0]
           ELSE /\ file' = Failed(sfile[s], a)
                /\ honest' = [snap |-> a.snap, passes |-> 0]
    /\ Goto(s, "artifact")
    /\ UNCHANGED <<runtime, pool, mirror, feed, latest, manifest, sfile, sprev,
                   saudit, checker, oper>>

ShadowWriteError(s) ==
    /\ spc[s] = "write_error"
    /\ file' = Errored(sfile[s])
    /\ honest' = [honest EXCEPT !.passes = 0]
    /\ Goto(s, "artifact")
    /\ UNCHANGED <<runtime, pool, mirror, feed, latest, manifest, sfile, sprev,
                   saudit, checker, oper>>

ShadowArtifact(s) ==
    /\ spc[s] = "artifact"
    /\ latest' = saudit[s]
    /\ sprev' = [sprev EXCEPT ![s] = [p \in Paths |-> NoScope]]
    /\ sfile' = [sfile EXCEPT ![s] = NewFile]
    /\ saudit' = [saudit EXCEPT ![s] = NoAudit]
    /\ Goto(s, "idle")
    /\ UNCHANGED <<runtime, pool, mirror, feed, file, manifest, checker, oper,
                   honest>>

ShadowKilled(s) ==
    /\ "kill" \in Faults /\ ~Idle(s)
    /\ sprev' = [sprev EXCEPT ![s] = [p \in Paths |-> NoScope]]
    /\ sfile' = [sfile EXCEPT ![s] = NewFile]
    /\ saudit' = [saudit EXCEPT ![s] = NoAudit]
    /\ Goto(s, "idle")
    /\ UNCHANGED <<runtime, pool, mirror, feed, file, latest, manifest, checker,
                   oper, honest>>

-----------------------------------------------------------------------------
(* run_notice_checkpoint: of the status file it changes only fields nobody   *)
(* else reads (see EventLedger for the days it scans), but it writes back     *)
(* the whole copy it read before the first scan.                              *)

CheckRead ==
    /\ "checkpoint" \in Roles /\ kpc = "idle" /\ MayStart
    /\ kfile' = file /\ kpc' = "scan"
    /\ UNCHANGED <<runtime, pool, mirror, feed, file, latest, manifest, shadow,
                   oper, honest>>

CheckWrite ==
    /\ kpc = "scan"
    /\ file' = kfile
    /\ kpc' = "idle" /\ kfile' = NewFile
    /\ UNCHANGED <<runtime, pool, mirror, feed, latest, manifest, shadow, oper,
                   honest>>

CheckKilled ==
    /\ "kill" \in Faults /\ kpc # "idle"
    /\ kpc' = "idle" /\ kfile' = NewFile
    /\ UNCHANGED <<runtime, pool, mirror, feed, file, latest, manifest, shadow,
                   oper, honest>>

-----------------------------------------------------------------------------
(* The operator: prepare_rollback_manifest, switch_primary_read_source and  *)
(* rollback_to_json.                                                        *)

\* evaluate_cutover_readiness reads both files for itself.
CutoverReady ==
    /\ file.primary = JSON
    /\ file.sync = "PASS" /\ file.state = "PASS" /\ file.projection = "PASS"
    /\ file.streak >= MinPasses /\ file.moves >= 1
    /\ latest.state \in {"NONE", "PASS"} /\ latest.projection \in {"NONE", "PASS"}

Prepare ==
    /\ "operator" \in Roles /\ ~manifest /\ MayStart
    /\ manifest' = TRUE
    /\ UNCHANGED <<runtime, pool, mirror, feed, file, latest, shadow, checker,
                   oper, honest>>

SwitchStart(target) ==
    /\ "operator" \in Roles /\ opc = "idle" /\ MayStart
    /\ ofile' = file /\ otarget' = target
    /\ opc' = "gate"
    /\ UNCHANGED <<runtime, pool, mirror, feed, file, latest, manifest, shadow,
                   checker, honest>>

SwitchGate ==
    /\ opc = "gate"
    /\ IF \/ otarget = SQLITE /\ ~(CutoverReady /\ manifest)
          \/ ofile.primary = otarget
       THEN opc' = "idle" /\ ofile' = NewFile /\ otarget' = JSON
       ELSE opc' = "write" /\ UNCHANGED <<ofile, otarget>>
    /\ UNCHANGED <<runtime, pool, mirror, feed, file, latest, manifest, shadow,
                   checker, honest>>

SwitchWrite ==
    /\ opc = "write"
    /\ file' = [ofile EXCEPT !.primary = otarget]
    /\ opc' = "idle" /\ ofile' = NewFile /\ otarget' = JSON
    /\ UNCHANGED <<runtime, pool, mirror, feed, latest, manifest, shadow, checker,
                   honest>>

-----------------------------------------------------------------------------
ShadowStep(s) ==
    \/ ShadowPool(s) \/ ShadowRead(s) \/ ShadowCapture(s) \/ ShadowSync(s)
    \/ ShadowChanges(s) \/ ShadowParity(s) \/ ShadowProjection(s)
    \/ ShadowRaises(s) \/ ShadowWrite(s) \/ ShadowWriteError(s)
    \/ ShadowArtifact(s)

RuntimeStep ==
    \/ Publish
    \/ \E p \in Paths : \/ Ask(p) \/ Reuse(p)
                        \/ \E status \in Answered :
                              Answer(p, status) \/ AnswerCutOff(p, status)

CheckStep == CheckRead \/ CheckWrite \/ CheckKilled

SwitchStep == \/ Prepare \/ \E t \in {JSON, SQLITE} : SwitchStart(t)
              \/ SwitchGate \/ SwitchWrite

Next == \/ RuntimeStep \/ \E s \in Shadows : ShadowStep(s) \/ ShadowKilled(s)
        \/ CheckStep \/ SwitchStep

Spec == Init /\ [][Next]_vars

\* Shadow stages come round with every full run and every information run.
Fairness == \A s \in Shadows : WF_vars(ShadowStep(s))
FairSpec == Spec /\ Fairness

-----------------------------------------------------------------------------
(* Safety.                                                                  *)

\* SQLite becomes the primary read source only after so many shadow stages in
\* a row passed on snapshots of their own, whatever was cut off in between
\* (incremental_storage_cutover.py:15, 48-56).
SwitchIsEarned ==
    [][file.primary = JSON /\ file'.primary = SQLITE
         => honest.passes >= MinPasses]_vars

\* The current binding of a path names the result that answers the trigger it was
\* bound for, and is only valid if a final result was filed for that trigger,
\* through holds, reuse, drops, re-entries and answers that are cut off and given
\* again (incremental_storage_sync.py:355-513).
BindingsAnswer ==
    \A p \in Paths : bind[p].cur =>
        /\ bind[p].key \in DOMAIN results /\ bind[p].key.path = p
        /\ bind[p].id = results[bind[p].key].id
        /\ bind[p].valid => bind[p].key \in finished

\* A bound path is a path SQLite has a state for: a path that leaves the
\* universe takes its binding along (incremental_storage_sync.py:128-163).
BoundPathsExist == \A p \in Paths : bind[p].cur => Present(p)

-----------------------------------------------------------------------------
(* The feed SQLite keeps is a ChangeFeed, until a stage is cut off or two of*)
(* them overlap.                                                            *)

\* The state of a path that transitions were last taken from: between the sync
\* and the writer of changes it is the captured one.
Seen(p) == LET ahead == {s \in Shadows : spc[s] = "changes"}
           IN  IF ahead = {} THEN scope[p] ELSE sprev[CHOOSE s \in ahead : TRUE][p]

Feed == INSTANCE ChangeFeed WITH seen <- [p \in Paths |-> Seen(p).row.econ],
                                 entries <- changes,
                                 told <- {l.change : l \in reminders}

\* Every economic change that the sync makes in SQLite is entered, once and
\* with the right ends, and the exit of a researched path has its reminder
\* (incremental_market_change_writer.py:99-205,
\* incremental_change_notification.py:284-358).
FeedSpec == Feed!Spec

-----------------------------------------------------------------------------
(* Liveness.                                                                *)

\* With a shadow stage coming round again and again, what the last market
\* snapshot says of a path reaches SQLite (incremental_storage_shadow.py:54-117).
Mirrored ==
    \A p \in Paths, e \in {"KEEP", "DROP"} :
        rt.snap = MaxSnap /\ rt.rows[p].econ = e ~> scope[p].row.econ = e

-----------------------------------------------------------------------------
(* What the repository's texts say and the code does not do.                *)

\* incremental_read_source.py:141: a rollback to JSON that went through stays
\* until the operator switches again.
RollbackSticks ==
    [][file.primary = JSON /\ file'.primary = SQLITE => opc = "write"]_vars

\* incremental_storage_sync.py:321: the index mirrors every result.
ResultsAreMirrored ==
    \A p \in Paths : HasResult(p) /\ bind[p].cur /\ bind[p].key = rt.rows[p].key
        /\ (\A s \in Shadows : spc[s] = "changes")
        => index[bind[p].id] = results[bind[p].key].status

\* incremental_market_change_writer.py:3-4: the ledger stores every economic
\* transition SQLite makes.
TransitionsAreStored == Feed!Steps
=============================================================================
