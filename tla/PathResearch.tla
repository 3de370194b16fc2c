----------------------------- MODULE PathResearch -----------------------------
(***************************************************************************)
(* Path research: the trigger run, the research lane (event bridge, task    *)
(* builder, reuse, evidence, batch), the batch worker, the chat writeback   *)
(* and the chat-to-API recovery, over the JSON files they share.            *)
(*                                                                          *)
(* The files carry no lock and no version.  Each write of a file is a step  *)
(* of its own; a function that reads a file early and writes it late keeps  *)
(* its copy in a local variable (trows, rstate, rqueue, rledger) meanwhile. *)
(* A read-modify-write within a few lines is one step.                      *)
(***************************************************************************)
EXTENDS TriggerRules, FiniteSets

CONSTANTS
    Facts,        \* Facts[p]: what a registry run may find out about path p
    Modes,        \* the AI execution modes in use
    Outcomes,     \* what a validated Path Result may say
    Faults,       \* "timeout", "worker_crash", "reboot"
    Overlap,      \* may a full run and an information run overlap?
    SnapSteps,    \* may a full run keep (0) or renew (1) the market snapshot?
    BatchLimit,   \* tasks one batch selects
    MaxRuns,      \* bound: economic registry runs
    MaxEvents,    \* bound: event triggers per path
    MaxChats,     \* bound: chat tasks
    MaxPack       \* bound: versions of an evidence pack

API  == "AUTO_API"
CHAT == "INTERACTIVE_CHAT"

Economics == {"KEEP", "DROP", "ABSENT"}

EventStates(p) == CASE Kind[p] = MATURITY -> DOMAIN BandRank
                    [] Kind[p] = PUT      -> PutStates
                    [] Kind[p] = REVISION -> RevisionStates

FactType(p) == [econ : Economics, price : Nat, ev : EventStates(p)]

ASSUME FactsAssumption == \A p \in Paths : Facts[p] \subseteq FactType(p)
ASSUME ModesAssumption == Modes \subseteq {API, CHAT}
ASSUME OutcomesAssumption == Outcomes \subseteq {"READY", "UNREADY", HOLD}
ASSUME FaultsAssumption ==
    Faults \subseteq {"timeout", "worker_crash", "reboot"}
ASSUME BoundsAssumption ==
    /\ Overlap \in BOOLEAN /\ SnapSteps \subseteq {0, 1}
    /\ {BatchLimit, MaxRuns, MaxEvents, MaxChats, MaxPack} \subseteq Nat

VARIABLES
    registry,   \* latest economic registry: [run, snap, facts]
    state,      \* research_trigger_state.json
    queue,      \* pending_research_tasks.json: [run, items]
    ledger,     \* research_ledger.json, by trigger key
    tasks,      \* trigger keys with a task package
    packs,      \* version of the evidence pack, by trigger key
    runner,     \* runner_result.json of a task: the status it holds
    validated,  \* trigger keys whose path_research_validation.json says PASS
    events,     \* PATH_RESEARCH rows of research_trigger_ledger (SQLite)
    chats,      \* PATH_RESEARCH chat tasks, in order of creation
    confirmed,  \* paths that scope_state_current (SQLite) calls KEEP
    tpc, trows,                       \* the trigger run of a full runtime
    rpc, mode, rstate, rqueue, rledger, rkeys, todo,   \* the research lane
    wpc, wkey, wout,                  \* the batch's current task and its worker
    cpc, cid, cout,                   \* one chat writeback
    asked, answers        \* history: keys ever current, answers ever filed

work    == <<tasks, packs, runner, validated>>
files   == <<registry, state, queue, ledger, work, events, chats>>
trigger == <<tpc, trows, confirmed>>
lane    == <<rpc, mode, rstate, rqueue, rledger, rkeys, todo>>
worker  == <<wpc, wkey, wout>>
chatter == <<cpc, cid, cout>>
history == <<asked, answers>>
vars    == <<files, trigger, lane, worker, chatter, history>>

-----------------------------------------------------------------------------
(* Helpers.                                                                 *)

Put(f, k, v) == [x \in DOMAIN f \cup {k} |-> IF x = k THEN v ELSE f[x]]

NoFact  == [econ |-> "ABSENT", price |-> 0, ev |-> NoEvent]
NoRows  == [p \in Paths |-> AbsentRow]
NoQueue == [run |-> 0, items |-> {}]
Empty   == [k \in {} |-> 0]

Item(k) == [key |-> k, status |-> "PENDING", hold |-> 0, chat |-> 0]

\* Faulty: the queue file gets the new tasks of this run only.
RebuiltItemsNewOnly(rows) ==
    {Item(rows[p].key) : p \in {q \in Paths :
        /\ rows[q].econ = "KEEP" /\ rows[q].status = "PENDING"
        /\ rows[q].key \notin {NoKey, state[q].key}}}

\* Faulty: every unfinished row is queued, whatever became of its path.
RebuiltItemsUnfinished(rows) ==
    {Item(rows[p].key) : p \in {q \in Paths : /\ rows[q].key # NoKey
                                              /\ rows[q].status # "COMPLETED"}}

\* The queue as run_research_trigger rebuilds it from the rows.
RebuiltItems(rows) ==
    {Item(rows[p].key) : p \in {q \in Paths : /\ rows[q].econ = "KEEP"
                                              /\ rows[q].status = "PENDING"
                                              /\ rows[q].key # NoKey}}

\* Faulty: any task of the path may write to its row.
CurrentPath(st, k) == k.path \in Paths /\ st[k.path].econ # "ABSENT"

\* The row of the key's path exists and this key is its last trigger.
Current(st, k) == /\ k.path \in Paths
                  /\ st[k.path].econ # "ABSENT" /\ st[k.path].key = k

Mark(st, k, s) == [st EXCEPT ![k.path].status = s]

\* Faulty: a task is attempted once.
RunnableOnce(i) == i.key \notin DOMAIN runner

\* pending_item_is_runnable; hold = 0 is an item without a hold hash.
Runnable(i) ==
    CASE i.status = "WAITING_FOR_CHAT" -> FALSE
      [] i.status = HOLD -> /\ i.key \in DOMAIN packs
                            /\ i.hold = 0 \/ i.hold # packs[i.key]
      [] OTHER -> TRUE

\* Faulty: the outcome's own name is stored.
StatusOfOutcome(outcome) == outcome

StatusOf(outcome) == IF outcome = HOLD THEN HOLD ELSE "COMPLETED"

\* Faulty: review_ready is not copied from the result.
EntryReady(k, outcome) ==
    [status |-> StatusOf(outcome), ready |-> TRUE, result |-> k]

\* path_result_id is a function of the trigger key, so the key names the result.
Entry(k, outcome) ==
    [status |-> StatusOf(outcome), ready |-> outcome = "READY", result |-> k]

\* The three file writes of record_path_research_result, in its order.
RecordLedger(k, outcome) ==
    /\ ledger' = Put(ledger, k, Entry(k, outcome))
    /\ answers' = answers \cup {<<k, k>>}

RecordState(k, outcome) ==
    state' = [state EXCEPT ![k.path].status = StatusOf(outcome),
                           ![k.path].result = k]

\* Faulty: a completed task stays in the queue.
RecordQueueHeldOnly(k, outcome) ==
    LET others == {i \in queue.items : i.key # k}
    IN  queue' = [queue EXCEPT !.items =
                    IF outcome = HOLD
                    THEN others \cup {[Item(k) EXCEPT !.status = HOLD]}
                    ELSE @]

RecordQueue(k, outcome) ==
    LET others == {i \in queue.items : i.key # k}
        version == IF k \in DOMAIN packs THEN packs[k] ELSE 0
    IN  queue' = [queue EXCEPT !.items =
                    IF outcome = HOLD
                    THEN others \cup {[Item(k) EXCEPT !.status = HOLD,
                                                      !.hold = version]}
                    ELSE others]

-----------------------------------------------------------------------------
(* build_candidate_pool: the audit every projection must pass.              *)

PathAudited(p) ==
    LET row == state[p]
    IN  /\ row.econ = "KEEP"
        /\ IF row.key = NoKey
           THEN row.status = "NONE"
           ELSE /\ row.status \in {"PENDING", "IN_PROGRESS", "WAITING_FOR_CHAT"}
                                    \cup Answered
                /\ row.status \in Answered =>
                     /\ row.key \in DOMAIN ledger
                     /\ ledger[row.key].result = row.result
                     /\ ledger[row.key].ready = (row.status = "COMPLETED")

PoolPasses == \A p \in Paths : registry.facts[p].econ = "KEEP" => PathAudited(p)

-----------------------------------------------------------------------------
Init ==
    /\ registry = [run |-> 0, snap |-> 0,
                   facts |-> [p \in Paths |-> NoFact]]
    /\ state = NoRows
    /\ queue = NoQueue
    /\ ledger = Empty /\ tasks = {} /\ packs = Empty /\ runner = Empty
    /\ validated = {}
    /\ events = Empty /\ chats = <<>>
    /\ confirmed = {}
    /\ tpc = "idle" /\ trows = NoRows
    /\ rpc = "idle" /\ mode = API
    /\ rstate = NoRows /\ rqueue = NoQueue /\ rledger = Empty
    /\ rkeys = {} /\ todo = {}
    /\ wpc = "none" /\ wkey = NoKey /\ wout = HOLD
    /\ cpc = "idle" /\ cid = 0 /\ cout = HOLD
    /\ asked = {} /\ answers = {}

-----------------------------------------------------------------------------
(* The trigger run: a full runtime publishes a registry, then runs          *)
(* run_research_trigger and, at its end, the candidate pool.                *)

PublishRegistry ==
    /\ tpc = "idle" /\ registry.run < MaxRuns
    /\ Overlap \/ rpc = "idle"
    /\ \E f \in [Paths -> UNION {Facts[p] : p \in Paths}],
          s \in {registry.snap + d : d \in SnapSteps} :
        /\ \A p \in Paths : f[p] \in Facts[p]
        /\ s > 0
        /\ registry' = [run |-> registry.run + 1, snap |-> s, facts |-> f]
    /\ tpc' = "trigger"
    /\ UNCHANGED <<state, queue, ledger, work, events, chats, confirmed, trows,
                   lane, worker, chatter, history>>

TriggerCompute ==
    /\ tpc = "trigger"
    /\ trows' = [p \in Paths |-> NextRow(p, state[p], registry.facts[p],
                                         registry.snap)]
    /\ tpc' = "state"
    /\ UNCHANGED <<files, confirmed, lane, worker, chatter, history>>

TriggerWriteState ==
    /\ tpc = "state"
    /\ state' = trows
    /\ asked' = asked \cup {trows[p].key : p \in Paths}
    /\ tpc' = "queue"
    /\ UNCHANGED <<registry, queue, ledger, work, events, chats, confirmed,
                   trows, lane, worker, chatter, answers>>

TriggerWriteQueue ==
    /\ tpc = "queue"
    /\ queue' = [run |-> registry.run, items |-> RebuiltItems(trows)]
    /\ trows' = NoRows
    /\ tpc' = "pool"
    /\ UNCHANGED <<registry, state, ledger, work, events, chats, confirmed, lane,
                   worker, chatter, history>>

\* The incremental storage sync copies the economic status of every path that
\* has a row; a path without one keeps what SQLite said of it before.
Synced == {p \in Paths : IF state[p].econ = "ABSENT" THEN p \in confirmed
                         ELSE registry.facts[p].econ = "KEEP"}

\* The pool and the sync that follows it may fail, and neither writes a file.
FullRunEnds ==
    /\ tpc = "pool"
    /\ confirmed' \in {confirmed, Synced}
    /\ tpc' = "idle"
    /\ UNCHANGED <<files, trows, lane, worker, chatter, history>>

-----------------------------------------------------------------------------
(* The information scan or a semantic audit plans a Full-V2 event for a path*)
(* that SQLite calls KEEP; the others are planned as suppressed.            *)

EventArrives(p) ==
    /\ p \in confirmed
    /\ \E n \in 1..MaxEvents :
        /\ EventKey(p, n) \notin DOMAIN events
        /\ \A m \in 1..(n - 1) : EventKey(p, m) \in DOMAIN events
        /\ events' = Put(events, EventKey(p, n), "PENDING")
    /\ UNCHANGED <<registry, state, queue, ledger, work, chats, trigger, lane,
                   worker, chatter, history>>

-----------------------------------------------------------------------------
(* The research lane: run_information_controller after its semantic stage.  *)

LaneStops ==
    /\ rpc' = "idle" /\ rkeys' = {} /\ todo' = {}
    /\ rstate' = NoRows /\ rqueue' = NoQueue /\ rledger' = Empty
    /\ mode' = API

\* promote_event_path_research: what one pending event of a path comes to.
PendingEvents(p) == {k \in DOMAIN events : k.path = p /\ events[k] = "PENDING"}

Promotable == {k \in DOMAIN events :
    /\ PendingEvents(k.path) = {k}
    /\ state[k.path].econ = "KEEP"
    /\ \A i \in queue.items : i.key.path = k.path => i.key = k}

Suppressible == {k \in DOMAIN events :
    /\ PendingEvents(k.path) = {k}
    /\ state[k.path].econ = "DROP"}

\* The bridge reads both files and the pending events, and decides.
BridgeRead ==
    /\ rpc = "idle" /\ queue.run > 0         \* both files exist
    /\ Overlap \/ tpc = "idle"
    /\ mode' \in Modes
    /\ rstate' = [p \in Paths |->
                    IF \E k \in Promotable : k.path = p
                    THEN [state[p] EXCEPT !.status = "PENDING",
                            !.key = CHOOSE k \in Promotable : k.path = p]
                    ELSE state[p]]
    /\ LET kept == {IF i.key \in Promotable
                    THEN [i EXCEPT !.status = "PENDING"]
                    ELSE i : i \in queue.items}
           new  == {k \in Promotable : \A i \in queue.items : i.key # k}
       IN  rqueue' = [run |-> queue.run,
                      items |-> kept \cup {Item(k) : k \in new}]
    /\ rkeys' = Promotable
    /\ todo' = Suppressible
    /\ rpc' = "bridge_state"
    /\ UNCHANGED <<files, rledger, trigger, worker, chatter, history>>

BridgeWriteState ==
    /\ rpc = "bridge_state"
    /\ state' = rstate
    /\ asked' = asked \cup {rstate[p].key : p \in Paths}
    /\ rstate' = NoRows
    /\ rqueue' = [rqueue EXCEPT !.run = registry.run]
    /\ rpc' = "bridge_queue"
    /\ UNCHANGED <<registry, queue, ledger, work, events, chats, mode, rledger,
                   rkeys, todo, trigger, worker, chatter, answers>>

BridgeWriteQueue ==
    /\ rpc = "bridge_queue"
    /\ queue' = rqueue
    /\ rqueue' = NoQueue
    /\ rpc' = "bridge_commit"
    /\ UNCHANGED <<registry, state, ledger, work, events, chats, mode, rstate,
                   rledger, rkeys, todo, trigger, worker, chatter, history>>

\* Faulty: the UPDATE has no WHERE clause.
BridgeCommitAll ==
    /\ rpc = "bridge_commit"
    /\ events' = [k \in DOMAIN events |-> IF k \in todo THEN "SUPPRESSED"
                                          ELSE "PROMOTED"]
    /\ todo' = {}
    /\ rpc' = "build"
    /\ UNCHANGED <<registry, state, queue, ledger, work, chats, mode, rstate,
                   rqueue, rledger, rkeys, trigger, worker, chatter, history>>

BridgeCommit ==
    /\ rpc = "bridge_commit"
    /\ events' = [k \in DOMAIN events |->
                    IF k \in rkeys THEN "PROMOTED"
                    ELSE IF k \in todo THEN "SUPPRESSED" ELSE events[k]]
    /\ todo' = {}
    /\ rpc' = "build"
    /\ UNCHANGED <<registry, state, queue, ledger, work, chats, mode, rstate,
                   rqueue, rledger, rkeys, trigger, worker, chatter, history>>

-----------------------------------------------------------------------------
(* build_path_research_tasks packages every queue item or raises.           *)

QueueKeys == {i.key : i \in queue.items}

Buildable(k) == registry.facts[k.path].econ = "KEEP"

BuildNothing ==
    /\ rpc = "build" /\ queue.items = {}
    /\ rpc' = "project"
    /\ UNCHANGED <<files, mode, rstate, rqueue, rledger, rkeys, todo, trigger,
                   worker, chatter, history>>

BuildRaises ==
    /\ rpc = "build" /\ queue.items # {}
    /\ \/ queue.run \notin {0, registry.run} /\ UNCHANGED tasks
       \/ /\ queue.run \in {0, registry.run}
          /\ ~ \A k \in QueueKeys : Buildable(k)
          /\ \E built \in SUBSET {k \in QueueKeys : Buildable(k)} :
                tasks' = tasks \cup built
    /\ LaneStops
    /\ UNCHANGED <<registry, state, queue, ledger, packs, runner, validated,
                   events, chats, trigger, worker, chatter, history>>

BuildTasks ==
    /\ rpc = "build" /\ queue.items # {}
    /\ queue.run \in {0, registry.run}
    /\ \A k \in QueueKeys : Buildable(k)
    /\ tasks' = tasks \cup QueueKeys
    /\ events' = [k \in DOMAIN events |->
                    IF k \in rkeys \cap QueueKeys THEN "READY" ELSE events[k]]
    /\ rkeys' = QueueKeys
    /\ rpc' = "reuse"
    /\ UNCHANGED <<registry, state, queue, ledger, packs, runner, validated,
                   chats, mode, rstate, rqueue, rledger, todo, trigger, worker,
                   chatter, history>>

-----------------------------------------------------------------------------
(* apply_reuse_to_task_batch.  The binding, the artifacts, the watermarks   *)
(* and the fingerprint decide which reusable tasks are reused.              *)

ReuseSources(k) == {j \in DOMAIN ledger :
    /\ j.path = k.path
    /\ ledger[j].status = "COMPLETED" /\ ledger[j].ready}

Reusable == {k \in rkeys : /\ k.reason \in KeepEntryReasons
                           /\ ReuseSources(k) # {}}

ReuseRaises ==
    /\ rpc = "reuse"
    /\ \E k \in Reusable : ~Current(state, k)
    /\ LaneStops
    /\ UNCHANGED <<files, trigger, worker, chatter, history>>

ReuseDecide ==
    /\ rpc = "reuse"
    /\ \E reused \in SUBSET {k \in Reusable : Current(state, k)} :
       \E source \in [reused -> DOMAIN ledger] :
        /\ \A k \in reused : source[k] \in ReuseSources(k)
        /\ rstate' = [p \in Paths |->
             IF state[p].key \in reused
             THEN [state[p] EXCEPT
                     !.status = "COMPLETED",
                     !.result = ledger[source[state[p].key]].result]
             ELSE state[p]]
        /\ rledger' = [k \in DOMAIN ledger \cup reused |->
                         IF k \in reused THEN ledger[source[k]] ELSE ledger[k]]
        /\ rqueue' = [queue EXCEPT !.items = {i \in @ : i.key \notin reused}]
        /\ rkeys' = rkeys \ reused
        /\ answers' = answers \cup
                        {<<k, ledger[source[k]].result>> : k \in reused}
    /\ rpc' = "reuse_queue"
    /\ UNCHANGED <<files, mode, todo, trigger, worker, chatter, asked>>

ReuseWriteQueue ==
    /\ rpc = "reuse_queue"
    /\ queue' = rqueue
    /\ rpc' = "reuse_state"
    /\ UNCHANGED <<registry, state, ledger, work, events, chats, mode, rstate,
                   rqueue, rledger, rkeys, todo, trigger, worker, chatter,
                   history>>

ReuseWriteState ==
    /\ rpc = "reuse_state"
    /\ state' = rstate
    /\ asked' = asked \cup {rstate[p].key : p \in Paths}
    /\ rstate' = NoRows
    /\ rpc' = "reuse_ledger"
    /\ UNCHANGED <<registry, queue, ledger, work, events, chats, mode, rqueue,
                   rledger, rkeys, todo, trigger, worker, chatter, answers>>

ReuseWriteLedger ==
    /\ rpc = "reuse_ledger"
    /\ ledger' = rledger
    /\ rledger' = Empty
    /\ rpc' = IF rqueue.items = {} THEN "project" ELSE "evidence"
    /\ rqueue' = NoQueue
    /\ UNCHANGED <<registry, state, queue, work, events, chats, mode, rstate,
                   rkeys, todo, trigger, worker, chatter, history>>

\* build_research_evidence repacks every remaining task; the content of a pack
\* may or may not have changed since the last time.
BuildEvidence ==
    /\ rpc = "evidence"
    /\ \E fresh \in SUBSET rkeys :
         packs' = [k \in DOMAIN packs \cup rkeys |->
                     IF k \notin DOMAIN packs THEN 1
                     ELSE IF k \in fresh /\ packs[k] < MaxPack THEN packs[k] + 1
                     ELSE packs[k]]
    /\ rkeys' = {}
    /\ rpc' = "select"
    /\ UNCHANGED <<registry, state, queue, ledger, tasks, runner, validated,
                   events, chats, mode, rstate, rqueue, rledger, todo, trigger,
                   worker, chatter, history>>

-----------------------------------------------------------------------------
(* run_path_research_batch, under path_research_batch.lock.  A worker takes *)
(* one task at a time; the batch waits for it.                              *)

BatchSelect ==
    /\ rpc = "select"
    /\ LET runnable == {i.key : i \in {j \in queue.items : Runnable(j)}}
           n == IF Cardinality(runnable) < BatchLimit
                THEN Cardinality(runnable) ELSE BatchLimit
       IN  \E B \in SUBSET runnable : Cardinality(B) = n /\ todo' = B
    /\ rpc' = "batch"
    /\ UNCHANGED <<files, mode, rstate, rqueue, rledger, rkeys, trigger,
                   worker, chatter, history>>

BatchEnds ==
    /\ rpc = "batch" /\ todo = {}
    /\ rpc' = "project"
    /\ UNCHANGED <<files, mode, rstate, rqueue, rledger, rkeys, todo, trigger,
                   worker, chatter, history>>

LaneEnds ==
    /\ rpc = "project"
    /\ LaneStops
    /\ confirmed' \in {confirmed, Synced}
    /\ UNCHANGED <<files, tpc, trows, worker, chatter, history>>

\* Faulty: the batch does not advance to the next task.
TaskOverSame == /\ rpc' = "batch" /\ wpc' = "none" /\ wkey' = NoKey
                /\ wout' = HOLD
                /\ UNCHANGED <<mode, rstate, rqueue, rledger, rkeys, todo>>

TaskOver == /\ rpc' = "batch" /\ todo' = todo \ {wkey}
            /\ wpc' = "none" /\ wkey' = NoKey /\ wout' = HOLD
            /\ UNCHANGED <<mode, rstate, rqueue, rledger, rkeys>>

\* An exception outside the per-task handling ends the whole lane.
BatchAborts == /\ LaneStops
               /\ wpc' = "none" /\ wkey' = NoKey /\ wout' = HOLD

\* Faulty: the killed worker's row is left as it is.
BackToNothing == UNCHANGED state /\ TaskOver

\* set_trigger_research_status(PENDING) by the parent: it raises, and the batch
\* with it, when the task's key is no longer the current one.
BackToPending ==
    IF Current(state, wkey)
    THEN state' = Mark(state, wkey, "PENDING") /\ TaskOver
    ELSE UNCHANGED state /\ BatchAborts

(* AUTO_API: the worker subprocess, one step per file it writes.            *)

Prepared(k) == k \in tasks /\ k \in DOMAIN packs

WorkerSpawn ==
    /\ rpc = "batch" /\ mode = API
    /\ \E k \in todo : wkey' = k
    /\ rpc' = "worker" /\ wpc' = "start"
    /\ UNCHANGED <<files, mode, rstate, rqueue, rledger, rkeys, todo, wout,
                   trigger, chatter, history>>

WorkerBegin ==
    /\ wpc = "start"
    /\ IF Prepared(wkey) /\ Current(state, wkey)
       THEN state' = Mark(state, wkey, "IN_PROGRESS") /\ wpc' = "ai"
       ELSE UNCHANGED state /\ wpc' = "dead"
    /\ UNCHANGED <<registry, queue, ledger, work, events, chats, wkey, wout,
                   lane, trigger, chatter, history>>

WorkerPass ==
    /\ wpc = "ai"
    /\ wout' \in Outcomes
    /\ validated' = validated \cup {wkey}
    /\ wpc' = "ledger"
    /\ UNCHANGED <<registry, state, queue, ledger, tasks, packs, runner, events,
                   chats, wkey, lane, trigger, chatter, history>>

\* The job failed, with or without a verdict of the validator, or record raised
\* because the trigger moved on: either way the row goes back to PENDING, or
\* that raises as well and the worker dies.
WorkerFail ==
    /\ \/ wpc = "ai" /\ validated' \in {validated, validated \ {wkey}}
       \/ wpc = "state" /\ ~Current(state, wkey) /\ UNCHANGED validated
    /\ IF Current(state, wkey)
       THEN /\ state' = Mark(state, wkey, "PENDING")
            /\ runner' = Put(runner, wkey, "FAIL")
            /\ wpc' = "fail"
       ELSE UNCHANGED <<state, runner>> /\ wpc' = "dead"
    /\ UNCHANGED <<registry, queue, ledger, tasks, packs, events, chats, wkey,
                   wout, lane, trigger, chatter, history>>

WorkerRecordLedger ==
    /\ wpc = "ledger"
    /\ RecordLedger(wkey, wout)
    /\ wpc' = "state"
    /\ UNCHANGED <<registry, state, queue, work, events, chats, wkey, wout,
                   lane, trigger, chatter, asked>>

WorkerRecordState ==
    /\ wpc = "state" /\ Current(state, wkey)
    /\ RecordState(wkey, wout)
    /\ wpc' = "queue"
    /\ UNCHANGED <<registry, queue, ledger, work, events, chats, wkey, wout,
                   lane, trigger, chatter, history>>

WorkerRecordQueue ==
    /\ wpc = "queue"
    /\ RecordQueue(wkey, wout)
    /\ wpc' = "report"
    /\ UNCHANGED <<registry, state, ledger, work, events, chats, wkey, wout,
                   lane, trigger, chatter, history>>

WorkerReport ==
    /\ wpc = "report"
    /\ runner' = Put(runner, wkey, "PASS")
    /\ wpc' = "pass"
    /\ UNCHANGED <<registry, state, queue, ledger, tasks, packs, validated,
                   events, chats, wkey, wout, lane, trigger, chatter, history>>

Working == wpc \in {"start", "ai", "ledger", "state", "queue", "report"}

WorkerCrash ==
    /\ "worker_crash" \in Faults /\ Working
    /\ wpc' = "dead"
    /\ UNCHANGED <<files, wkey, wout, lane, trigger, chatter, history>>

(* _run_one_with_wall_timeout: what the parent makes of the worker's end.   *)

WorkerTimeout ==
    /\ "timeout" \in Faults /\ Working
    /\ BackToPending
    /\ UNCHANGED <<registry, queue, ledger, work, events, chats, trigger,
                   chatter, history>>

\* A worker that printed nothing is judged by runner_result.json, whichever
\* attempt wrote it.
Passed == wpc = "pass" \/ (wpc = "dead" /\ wkey \in DOMAIN runner
                                        /\ runner[wkey] = "PASS")

ParentCollects ==
    /\ wpc \in {"pass", "fail", "dead"}
    /\ IF Passed THEN UNCHANGED state /\ TaskOver ELSE BackToPending
    /\ UNCHANGED <<registry, queue, ledger, work, events, chats, trigger,
                   chatter, history>>

(* INTERACTIVE_CHAT: create_path_research_chat_task.                        *)

\* Faulty: a claimed chat task is not recognised as open.
OpenChatUnclaimed(i) == chats[i].status = "OPEN"

OpenChat(i) == chats[i].status \in {"OPEN", "REJECTED", "WRITEBACK_FAILED"}

\* An open chat task of the same source is handed back as it is.
ChatTaskReused ==
    /\ rpc = "batch" /\ mode = CHAT
    /\ \E k \in todo :
        /\ k \in tasks
        /\ \E i \in DOMAIN chats : chats[i].key = k /\ OpenChat(i)
        /\ todo' = todo \ {k}
    /\ UNCHANGED <<files, rpc, mode, rstate, rqueue, rledger, rkeys, trigger,
                   worker, chatter, history>>

ChatTaskCreate ==
    /\ rpc = "batch" /\ mode = CHAT /\ Len(chats) < MaxChats
    /\ \E k \in todo :
        /\ Prepared(k)
        /\ \A i \in DOMAIN chats : chats[i].key = k => ~OpenChat(i)
        /\ chats' = Append(chats, [key |-> k, status |-> "OPEN"])
        /\ wkey' = k
    /\ rpc' = "chat_queue"
    /\ UNCHANGED <<registry, state, queue, ledger, work, events, mode, rstate,
                   rqueue, rledger, rkeys, todo, wpc, wout, trigger, chatter,
                   history>>

ChatTaskUnprepared ==
    /\ rpc = "batch" /\ mode = CHAT
    /\ \E k \in todo : ~Prepared(k)
    /\ BatchAborts
    /\ UNCHANGED <<files, trigger, chatter, history>>

ChatTaskMarkQueue ==
    /\ rpc = "chat_queue"
    /\ IF wkey \in QueueKeys
       THEN /\ queue' = [queue EXCEPT !.items =
                   {IF i.key = wkey
                    THEN [i EXCEPT !.status = "WAITING_FOR_CHAT",
                                   !.chat = Len(chats)]
                    ELSE i : i \in @}]
            /\ rpc' = "chat_state"
            /\ UNCHANGED <<mode, rstate, rqueue, rledger, rkeys, todo, worker>>
       ELSE UNCHANGED queue /\ BatchAborts
    /\ UNCHANGED <<registry, state, ledger, work, events, chats, trigger,
                   chatter, history>>

ChatTaskMarkState ==
    /\ rpc = "chat_state"
    /\ IF Current(state, wkey)
       THEN state' = Mark(state, wkey, "WAITING_FOR_CHAT") /\ TaskOver
       ELSE UNCHANGED state /\ BatchAborts
    /\ UNCHANGED <<registry, queue, ledger, work, events, chats, trigger,
                   chatter, history>>

-----------------------------------------------------------------------------
(* submit_resolution of a claimed FORMAL PATH_RESEARCH chat task.  The      *)
(* validator's verdict goes to the work directory the chat task shares with *)
(* the worker; the writeback of a PASS holds no lock of the lane.           *)

ChatRejected ==
    /\ cpc = "idle"
    /\ \E i \in DOMAIN chats :
        /\ OpenChat(i)
        /\ validated' = validated \ {chats[i].key}
        /\ chats' = [chats EXCEPT ![i].status = "REJECTED"]
    /\ UNCHANGED <<registry, state, queue, ledger, tasks, packs, runner, events,
                   lane, worker, chatter, trigger, history>>

ChatSubmit ==
    /\ cpc = "idle"
    /\ \E i \in DOMAIN chats :
        /\ OpenChat(i)
        /\ validated' = validated \cup {chats[i].key}
        /\ IF Current(state, chats[i].key)
           THEN /\ cpc' = "ledger" /\ cid' = i /\ cout' \in Outcomes
                /\ UNCHANGED chats
           ELSE /\ chats' = [chats EXCEPT ![i].status = "WRITEBACK_FAILED"]
                /\ UNCHANGED chatter
    /\ UNCHANGED <<registry, state, queue, ledger, tasks, packs, runner, events,
                   lane, worker, trigger, history>>

ChatRecordLedger ==
    /\ cpc = "ledger"
    /\ RecordLedger(chats[cid].key, cout)
    /\ cpc' = "state"
    /\ UNCHANGED <<registry, state, queue, work, events, chats, cid, cout,
                   lane, worker, trigger, asked>>

ChatOver(status) ==
    /\ chats' = [chats EXCEPT ![cid].status = status]
    /\ cpc' = "idle" /\ cid' = 0 /\ cout' = HOLD

ChatRecordState ==
    /\ cpc = "state"
    /\ IF Current(state, chats[cid].key)
       THEN /\ RecordState(chats[cid].key, cout)
            /\ cpc' = "queue"
            /\ UNCHANGED <<chats, cid, cout>>
       ELSE UNCHANGED state /\ ChatOver("WRITEBACK_FAILED")
    /\ UNCHANGED <<registry, queue, ledger, work, events, lane, worker,
                   trigger, history>>

ChatRecordQueue ==
    /\ cpc = "queue"
    /\ RecordQueue(chats[cid].key, cout)
    /\ ChatOver("PASS")
    /\ UNCHANGED <<registry, state, ledger, work, events, lane, worker,
                   trigger, history>>

-----------------------------------------------------------------------------
(* recover_chat_to_api --apply, under the lane's locks: every chat task that*)
(* nobody is submitting, whose validation has not passed, and that queue and*)
(* state both still wait for, goes back to PENDING and is superseded.       *)

\* Queue and state agree that the key of chat task i waits for this chat.
WaitsFor(i) ==
    LET k == chats[i].key
    IN  /\ \E it \in queue.items : /\ it.key = k /\ it.chat = i
                                   /\ it.status = "WAITING_FOR_CHAT"
        /\ Current(state, k) /\ state[k.path].status = "WAITING_FOR_CHAT"

Abandoned(i) == OpenChat(i) /\ ~(cpc # "idle" /\ cid = i)

\* The verdict in the chat task wins over the one in the work directory.
Unvalidated(i) == \/ chats[i].status = "REJECTED"
                  \/ chats[i].status = "OPEN" /\ chats[i].key \notin validated

Recoverable(i) == /\ Abandoned(i) /\ Unvalidated(i)
                  /\ chats[i].key \in tasks /\ WaitsFor(i)

Recover ==
    /\ rpc = "idle"
    /\ LET recovered == {i \in DOMAIN chats : Recoverable(i)}
           keys == {chats[i].key : i \in recovered}
       IN  /\ recovered # {}
           /\ chats' = [i \in DOMAIN chats |->
                          IF i \in recovered
                          THEN [chats[i] EXCEPT !.status = "SUPERSEDED"]
                          ELSE chats[i]]
           /\ queue' = [queue EXCEPT !.items =
                          {IF i.key \in keys
                           THEN [i EXCEPT !.status = "PENDING", !.chat = 0]
                           ELSE i : i \in @}]
           /\ state' = [p \in Paths |->
                          IF state[p].key \in keys
                          THEN [state[p] EXCEPT !.status = "PENDING"]
                          ELSE state[p]]
    /\ UNCHANGED <<registry, ledger, work, events, lane, worker, trigger,
                   chatter, history>>

-----------------------------------------------------------------------------
(* The host restarts: every process is gone, the files stay as they are.    *)

Reboot ==
    /\ "reboot" \in Faults
    /\ tpc # "idle" \/ rpc # "idle" \/ cpc # "idle"
    /\ tpc' = "idle" /\ trows' = NoRows
    /\ BatchAborts
    /\ cpc' = "idle" /\ cid' = 0 /\ cout' = HOLD
    /\ UNCHANGED <<files, confirmed, history>>

-----------------------------------------------------------------------------
TriggerStep == \/ TriggerCompute \/ TriggerWriteState \/ TriggerWriteQueue
               \/ FullRunEnds

LaneStep == \/ BridgeWriteState \/ BridgeWriteQueue \/ BridgeCommit
            \/ BuildNothing \/ BuildRaises \/ BuildTasks
            \/ ReuseRaises \/ ReuseDecide \/ ReuseWriteQueue
            \/ ReuseWriteState \/ ReuseWriteLedger
            \/ BuildEvidence \/ BatchSelect \/ BatchEnds \/ LaneEnds
            \/ WorkerSpawn \/ ParentCollects
            \/ ChatTaskReused \/ ChatTaskCreate \/ ChatTaskUnprepared
            \/ ChatTaskMarkQueue \/ ChatTaskMarkState

WorkerStep == \/ WorkerBegin \/ WorkerPass \/ WorkerFail
              \/ WorkerRecordLedger \/ WorkerRecordState
              \/ WorkerRecordQueue \/ WorkerReport

ChatStep == \/ ChatRecordLedger \/ ChatRecordState \/ ChatRecordQueue

Environment == \/ PublishRegistry \/ \E p \in Paths : EventArrives(p)
               \/ BridgeRead \/ ChatRejected \/ ChatSubmit \/ Recover
               \/ WorkerCrash \/ WorkerTimeout \/ Reboot

Next == TriggerStep \/ LaneStep \/ WorkerStep \/ ChatStep \/ Environment

Spec == Init /\ [][Next]_vars

Fairness == /\ WF_vars(TriggerStep) /\ WF_vars(LaneStep)
            /\ WF_vars(WorkerStep) /\ WF_vars(ChatStep)

FairSpec == Spec /\ Fairness

\* The nightly timer starts the lane again and again, and a task that is asked
\* again and again is answered at last.
ServedSpec == FairSpec /\ WF_vars(BridgeRead) /\ SF_vars(WorkerPass)

-----------------------------------------------------------------------------
(* Types.                                                                   *)

TKey == [path : Paths, reason : Reasons, episode : Nat, detail : Seq(Nat)]
Key  == TKey \cup {NoKey}

FactOK(f, p) == f = NoFact \/ f \in FactType(p)

RowOK(row, p) ==
    /\ row \in [econ : Economics, episode : Nat, price : Nat, key : Key,
                ev : EventStates(p) \cup {NoEvent}, status : Statuses,
                result : Key]
    /\ row.econ = "KEEP" => row.ev \in EventStates(p)

RowsOK(rows) == /\ rows = [p \in Paths |-> rows[p]]
                /\ \A p \in Paths : RowOK(rows[p], p)

ItemType  == [key : TKey, hold : Nat, chat : Nat,
              status : {"PENDING", "WAITING_FOR_CHAT", HOLD}]
QueueType == [run : Nat, items : SUBSET ItemType]

Partial(f, S, T) == /\ f = [k \in DOMAIN f |-> f[k]]
                    /\ DOMAIN f \subseteq S
                    /\ \A k \in DOMAIN f : f[k] \in T

EntryType == [status : {"COMPLETED", HOLD}, ready : BOOLEAN, result : TKey]

RegistryOK ==
    /\ registry = [run |-> registry.run, snap |-> registry.snap,
                   facts |-> [p \in Paths |-> registry.facts[p]]]
    /\ registry.run \in Nat /\ registry.snap \in Nat
    /\ \A p \in Paths : FactOK(registry.facts[p], p)

StateOK  == RowsOK(state)
QueueOK  == queue \in QueueType
LedgerOK == Partial(ledger, TKey, EntryType)
WorkOK   == /\ tasks \subseteq TKey /\ validated \subseteq TKey
            /\ Partial(packs, TKey, Nat)
            /\ Partial(runner, TKey, {"PASS", "FAIL"})
EventsOK == Partial(events, TKey, {"PENDING", "PROMOTED", "SUPPRESSED", "READY"})

ChatStatuses == {"OPEN", "REJECTED", "PASS", "WRITEBACK_FAILED", "SUPERSEDED"}
ChatType == [key : TKey, status : ChatStatuses]
ChatsOK  == chats \in Seq(ChatType)

TriggerOK == /\ tpc \in {"idle", "trigger", "state", "queue", "pool"}
             /\ RowsOK(trows) /\ confirmed \subseteq Paths

LanePoints == {"idle", "bridge_state", "bridge_queue", "bridge_commit", "build",
               "reuse", "reuse_queue", "reuse_state", "reuse_ledger", "evidence",
               "select", "batch", "worker", "chat_queue", "chat_state", "project"}

LaneOK == /\ rpc \in LanePoints /\ mode \in {API, CHAT}
          /\ RowsOK(rstate) /\ rqueue \in QueueType
          /\ Partial(rledger, TKey, EntryType)
          /\ rkeys \subseteq TKey /\ todo \subseteq TKey

WorkerOK == /\ wpc \in {"none", "start", "ai", "ledger", "state", "queue",
                        "report", "pass", "fail", "dead"}
            /\ wpc # "none" <=> rpc = "worker"
            /\ wkey \in Key
            /\ rpc \in {"worker", "chat_queue", "chat_state"} => wkey \in TKey
            /\ wout \in Outcomes \cup {HOLD}

ChatterOK == /\ cpc \in {"idle", "ledger", "state", "queue"}
             /\ cid \in Nat /\ (cpc # "idle" => cid \in DOMAIN chats)
             /\ cout \in Outcomes \cup {HOLD}

HistoryOK == asked \subseteq Key /\ answers \subseteq TKey \X TKey

TypeOK == /\ RegistryOK /\ StateOK /\ QueueOK /\ LedgerOK /\ WorkOK
          /\ EventsOK /\ ChatsOK /\ TriggerOK /\ LaneOK /\ WorkerOK
          /\ ChatterOK /\ HistoryOK

-----------------------------------------------------------------------------
(* Safety.                                                                  *)

\* A row never shows an answer that was not filed for its present trigger,
\* whatever runs beside whatever and wherever a process is cut off
\* (research_ledger.py:118, research_trigger.py:278).
RowAnswersItsTrigger ==
    \A p \in Paths : state[p].status \in Answered =>
                        <<state[p].key, state[p].result>> \in answers

\* An event the trigger ledger calls promoted did reach the trigger state: the
\* database commits last (incremental_event_research_bridge.py:179-181).
PromotedEventsWereAsked ==
    \A k \in DOMAIN events : events[k] \in {"PROMOTED", "READY"} => k \in asked

Quiet == tpc = "idle" /\ rpc = "idle" /\ cpc = "idle"

Queued(k) == \E i \in queue.items : i.key = k

\* Between runs every pending question is in the queue the batch reads
\* (research_trigger.py:340-360, path_research_runner.py:205).
PendingRowsAreQueued ==
    Quiet => \A p \in Paths :
        state[p].econ = "KEEP" /\ state[p].status = "PENDING"
            => Queued(state[p].key)

\* Between runs every queue item asks the present question of a KEEP path that
\* has no final answer yet (research_ledger.py:128-143).
QueuedQuestionsAreOpen ==
    Quiet => \A i \in queue.items :
        /\ Current(state, i.key)
        /\ state[i.key.path].econ = "KEEP"
        /\ state[i.key.path].status \in {"PENDING", "WAITING_FOR_CHAT", HOLD}

\* Whenever a full run or an information run comes to project the candidate
\* pool, the pool's audit of state against ledger passes
\* (candidate_pool.py:155-198).
ProjectionPasses == tpc = "pool" \/ rpc = "project" => PoolPasses

HasPassed(k) == k \in DOMAIN runner /\ runner[k] = "PASS"

\* However a worker ends - it fails, is timed out or dies - its row does not stay
\* IN_PROGRESS, but for a task an earlier attempt at which had passed: then
\* runner_result.json speaks for a worker that died
\* (path_research_batch.py:72-73, 95-108, 122-123).
ResidualHasPassed ==
    rpc # "worker" => \A p \in Paths :
        state[p].status = "IN_PROGRESS" => HasPassed(state[p].key)

\* One trigger has at most one chat task that can still be answered
\* (path_research_runner.py:62-78).
OneLiveChatPerTrigger ==
    \A i, j \in DOMAIN chats :
        /\ chats[i].key = chats[j].key
        /\ {chats[i].status, chats[j].status} \cap {"PASS", "SUPERSEDED"} = {}
        => i = j

\* An information run that started comes to its end: no stage raises
\* (research_task_builder.py:205-244, path_research_runner.py:42-43).
LaneNeverRaises == [][rpc # "idle" /\ rpc' = "idle" => rpc = "project"]_vars

\* A completed answer is not taken back while its trigger stands
\* (path_research_runner.py:44, research_trigger.py:285).
CompletedStays ==
    [][\A p \in Paths :
         state[p].status = "COMPLETED" /\ state'[p].key = state[p].key
            => state'[p].status = "COMPLETED"]_vars

-----------------------------------------------------------------------------
(* Liveness.                                                                *)

\* Every information run ends (path_research_batch.py:183-244).
LaneEndsAtLast == rpc # "idle" ~> rpc = "idle"

\* A pending question of a KEEP path is answered, or the path is dropped.
PendingIsAnswered ==
    \A p \in Paths :
        Quiet /\ state[p].econ = "KEEP" /\ state[p].status = "PENDING"
            ~> state[p].status \in Answered \/ state[p].econ # "KEEP"

-----------------------------------------------------------------------------
(* What the repository's texts say and the code does not do.                *)

\* README.md:241, :283: a task that fails goes back to PENDING, and no residual
\* IN_PROGRESS is left outside a worker's life.
NoResidualInProgress ==
    rpc # "worker" => \A p \in Paths : state[p].status # "IN_PROGRESS"

\* README.md:241: one task that fails does not bring the batch down.
TaskFailureIsContained ==
    [][wpc # "none" /\ wpc' = "none" => rpc' = "batch"]_vars

\* candidate_pool.py:62: a KEEP path has no status the pool cannot map.
KeptRowsAreMappable ==
    \A p \in Paths : state[p].econ = "KEEP"
                        => state[p].status # "CANCELLED_ECONOMIC_DROP"

\* chat_to_api_recovery.py:1: a chat task that queue and state wait for and
\* that nobody answers can be handed to AUTO_API.
AbandonedChatsAreRecoverable ==
    \A i \in DOMAIN chats : Abandoned(i) /\ WaitsFor(i) => Recoverable(i)
=============================================================================
