# A verification project for arbitrage-research

This directory models the core of the repository in TLA+, checks it with TLC on
small instances and proves theorems about it with TLAPS. Paths below are
relative to `src/`.

## 1. The system

The program watches Chinese convertible bonds. Once a day it computes, for each
(bond, path) pair, whether one of three opportunity paths (`MATURITY_CASH`,
`PUT`, `DOWNWARD_REVISION`) is economically alive (KEEP or DROP); a path that
enters KEEP, or whose event state moves, *triggers* research; a language model
(through an API or through a person in a chat) answers the research task, and
the answer is bound to the path's row. Beside it live an intelligence radar, an
ETF and an LOF monitor and a web application.

Almost all state is in JSON files under `runtime_data/registry` and in one
SQLite database. The JSON files have no lock of their own and no version: a
function reads a file, works, and writes the whole file back. What keeps
processes apart are two advisory locks (`information_controller.lock` around the
research lane, `path_research_batch.lock` around a batch) and the schedule of a
shell script.

| component | state it keeps | operations | hard part |
|---|---|---|---|
| research trigger (`runtime/opportunity/research_trigger.py`) | `research_trigger_state.json`, `pending_research_tasks.json` | derive a row per path, write state, rebuild queue | read early, write late; edge triggering with a memory of one key |
| event bridge (`incremental_event_research_bridge.py`) | rows of `research_trigger_ledger` in SQLite | promote, suppress or leave pending | three stores written one after the other |
| task builder, evidence (`research_task_builder.py`, `research_evidence.py`) | task packages, evidence packs | package every queue item or raise | queue and registry must be of the same run |
| reuse (`incremental_research_reuse_runtime.py`) | none | bind an old answer to a new trigger | three files, in the order queue, state, ledger |
| batch, worker (`path_research_batch.py`, `path_research_runner.py`, `path_research_worker.py`) | `runner_result.json` | select, spawn, time out, judge | a subprocess killed anywhere in its writeback |
| writeback (`research_ledger.py`) | `research_ledger.json` | ledger, state, queue | three files; the trigger may have moved on |
| chat bridge (`runtime/ai_runtime/chat_bridge.py`) | `chat_task.json`, `claim.json` | list, claim, submit, release | claims expire; files are rewritten from old copies |
| chat recovery (`chat_to_api_recovery.py`) | backups | hand abandoned chats to the API | three files must agree on what is abandoned |
| candidate pool (`candidate_pool.py`) | run outputs | project and audit | reads two files others write |
| full runtime (`full_runtime_controller.py`) | run status | discovery, trigger, (research rounds), pool, sync | resume after chat; concurrent with the lane |
| information controller (`incremental_information_controller.py`) | checkpoint, run status | notices, semantic audit, the research lane | a stage that raises ends the run |
| event ledger, router, semantic audit (`incremental_event_*.py`, `incremental_semantic_audit*.py`, `incremental_notice_checkpoint.py`) | SQLite, checkpoint date | scan days, file and number events, audit, route | late documents, several writers of one event, waves with a limit |
| incremental storage (`incremental_storage_*.py`, `incremental_market_change_writer.py`) | SQLite projection, status file | capture, sync, changes, two audits, cutover, switch | one file, several writers with old copies; a transaction per step |
| notification delivery (`incremental_change_notification.py`) | SQLite | group, deliver, acknowledge | one group per change; links to a group already sent |
| discovery, ingress, contract facts | run outputs | judge each path | pure rules over data |
| AI engine (`runtime/ai_runtime/engine.py`) | job directory | tool loop, repair, validation | budgets and repair rounds |
| intelligence radar (`runtime/intelligence_radar`) | SQLite, archive and shadow files | collect, filter, gate, save, mark, archive | reruns of a day merge; failed passes; two lanes in one table |
| ETF primary market (`runtime/etf_primary`, `.github/workflows/etf-primary-szse-relay.yml`) | two branches of a remote repository | index, shards, merge, daily cycle, publish, load | corrections, stale rows, a publication lost half-way |
| LOF monitor (`runtime/lof`) | snapshots, event file, checkpoint | session loop, lanes, snapshot command, reminder | caches of different age; killed between two files |
| market map (`runtime/market_map`) | run directories | acquire, audit, resolve, calculate, freeze | conflicting sources; an input judged before and used after |
| web application (`runtime/web/app.py`) | job files, latest pointers | create and resume jobs, restart | one thread per job; results visible before they are registered |
| deployment gate, shell scripts (`scripts/production`) | environment files | check, schedule, switch mode | the schedule is the only mutual exclusion |

Interactions. A full run publishes the registry and runs the trigger; the
information controller runs the bridge, the builder, reuse, evidence and the
batch; the batch runs workers or creates chat tasks; workers and submitted chats
write back into ledger, state and queue; both controllers end with the candidate
pool and the storage sync; the sync decides which later events are planned. The
web application starts market maps and full runs and is asked to by the nightly
script; a market map becomes the formal one that the next full run reads. Event
ledger and storage share the database; the notice checkpoint, the shadow stage
and the operator share one status file. The three monitors (LOF, radar, ETF)
share nothing with the rest but the machine.

What makes each correct: an answer is shown only for the question it was given
to; a question is asked once, stays asked until it is answered or the path
drops, and is answered at last; no announcement is missed, and the user is told
of exactly what research it opened; a formal map holds the close it names, with
its conflicts settled by evidence; a process cut off anywhere leaves files another
process can go on from; a projection never shows a row that state and ledger
tell differently.

## 2. The modules

| module | models |
|---|---|
| `TriggerRules` | the pure rules of `research_trigger.py`: trigger keys and the next row of a path |
| `PathResearch` | the trigger run, the research lane, the worker, chat writeback and chat recovery over the files they share |
| `ChatClaim` | one chat task: its claim file, its status and the sessions that claim, use, submit, release and list it |
| `EventLedger` | from an announcement to a reminder: notice checkpoint, event ledger, routes, audits, feed |
| `RuntimeStorage` | shadow stage, checkpoint and operator over the SQLite projection and the status file |
| `ChangeFeed` | what the change ledger promises its readers; `RuntimeStorage` is shown to implement it |
| `WebJobs` | the jobs of the web server, the nightly script and the heavy full run |
| `MarketInput` | one acquisition, its resolution and its calculation, bond by bond |
| `LofMonitor` | the LOF loop, its snapshot command and its reminder |
| `Radar` | the lanes of the intelligence radar over one date |
| `PcfCapacity` | pure operators of `etf_primary`: baskets of a creation list, events between two lists |
| `EtfPrimary` | the relay workflow with its two branches |
| `MCPathResearch`, `MCEventLedger` | small instances of one module; the scenes of `EventLedger` in one run |
| `MCRuntimeStorage` | three instances of `RuntimeStorage`, side by side |
| `MCWebJobs` | five instances of `WebJobs`, one of `MarketInput` and one of `ChatClaim`, side by side |
| `MCMonitors` | two instances of `LofMonitor`, two of `Radar` and one of `EtfPrimary`, side by side |
| `PathResearchProofs`, `ChatClaimProofs`, `EventLedgerProofs`, `RuntimeStorageProofs`, `MarketInputProofs`, `WebJobsProofs`, `EtfPrimaryProofs`, `MonitorsProofs` | theorems (`MonitorsProofs` about `Radar` and `LofMonitor`) |

How they fit together. `PathResearch` and `RuntimeStorage` share the rules of
`TriggerRules`: the first follows the files step by step, the second takes what it
leaves (`Publish`, `Ask`, `Answer`, `Reuse` are its whole operations) and looks
into the database. `ChatClaim` looks inside what `PathResearch` takes as one step,
and stands with `WebJobs` and `MarketInput` in one run because it shares no state
with them. `EventLedger` ends where `PathResearch` begins: with a row of the
trigger ledger that is PENDING. `WebJobs` starts full runs whose research
`PathResearch` has, and takes an acquisition as one step that `MarketInput` opens
up. The composites `MCRuntimeStorage`, `MCWebJobs` and `MCMonitors` put systems
that share no state in one run (they extend the modules, whose definitions
therefore carry names of their own, and add an instance for each further set of
constants); a variable `part` says which of them moves, so nothing is interleaved
that is not interleaved in an instance of its own.

A definition that a comment calls faulty or a mutant is no part of a model: it is
a plausible bug, and a property is shown to notice it.

### PathResearch

State. One variable per file: `registry` (the latest economic registry),
`state`, `queue`, `ledger`, `tasks`, `packs`, `runner`, `validated`, `events`
(SQLite), `confirmed` (SQLite: the paths the last sync called KEEP), `chats`.
Each process has a program counter (`tpc` trigger run, `rpc` research lane,
`wpc` worker, `cpc` chat writeback) and the copies it holds between a read and a
write (`trows`, `rstate`, `rqueue`, `rledger`, `rkeys`, `todo`). `asked` and
`answers` are history variables no action reads.

Granularity. Every write of a file is a step of its own. A read-modify-write
within a few lines is one step; where the code reads a file, works, and writes
it later, the two are separate and the copy lives in a variable. So
`TriggerCompute`/`TriggerWriteState`/`TriggerWriteQueue`,
`BridgeRead`/`BridgeWriteState`/`BridgeWriteQueue`/`BridgeCommit`,
`ReuseDecide`/`ReuseWriteQueue`/`ReuseWriteState`/`ReuseWriteLedger` and
`...RecordLedger`/`...RecordState`/`...RecordQueue` follow the order of the code.

Abstractions.
- A path is a (bond, path) pair. The facts of a snapshot are the economic
  judgment, the event state and the conversion price.
- `HOLD` stands for `NEEDS_EVIDENCE` and `UNRESOLVED`, which every component
  treats alike.
- `path_result_id` is a function of the trigger key, so the key stands for it.
- An evidence pack is a version number, since only the equality of its hash with
  the hash in the queue item matters.
- The binding, watermark and fingerprint tests of reuse are a free choice among
  the tasks whose reason and ledger allow reuse.
- A failed, rejected or crashed job may have left a verdict of the validator in
  the work directory or not.
- The trigger state, queue and ledger files exist once the first full run ended;
  `BridgeRead` waits for that.
- The bridge packages its own promotions and the controller then packages the
  whole queue; `BuildTasks` does both, as nothing between them is visible.
- `Recover` is one step: it runs under the lane's locks, and its backup and
  restoration are left out.
- The full run modelled is the light daily run (`run_research=False`).

Parameters. `Overlap = FALSE` is the production schedule: the pretrade script
runs the full run and the information run one after the other.
`Overlap = TRUE` is what the web application allows
(`runtime/web/app.py:1739`). `Faults` names what may fail: `timeout` (the wall
timeout of a worker), `worker_crash`, `reboot` (every process ends, the files
stay). `SnapSteps` says whether a registry run may keep the market snapshot of
the run before (a rerun) or renew it. `MaxRuns`, `MaxEvents`, `MaxChats` and
`MaxPack` bound what is unbounded; `BatchLimit` is the batch's own parameter.

### ChatClaim

State. `claim` is `claim.json` (its id, whether it is still empty, whether it is
within its expiry), `task` the status in `chat_task.json`, `verdict` the
validation file in the work directory. A session runs one command of
`chat_bridge.py` at a time (`doing`), each command a process of its own; `mine` is
the id a running claim command has drawn, `holds` the id a session was given and
passes to its later commands. `passed` and `lapsed` are history.

Granularity. Every read, creation, write and removal of `claim.json` is a step:
`ClaimStart`, `ClaimRead`, `ClaimCreate` (O_EXCL), `ClaimReread`,
`ClaimCreateAgain`, `ClaimWrite`, `ClaimMark` are `claim_task` line by line, and
the renewal of `require_claim` truncates the file in one step and writes it in
the next, as `write_text` does. The removal of an expired claim by any reader is
a step after its reading. `chat_task.json` is taken to be written in one step.

Abstractions. A claim id stands for the payload and for the inode written to.
Validation and writeback have a free outcome. `claim_next_task` and the batch
commands are listings and claims one after the other. A command that raises
half-way ends as one that is killed (`Crashes`). Expiry (`Expires`) may strike
whenever the file holds a claim: 45 minutes against seconds, but the code
compares wall clocks and a session may sleep anywhere. `MaxClaims` bounds the
claim commands that start.

### EventLedger

State. One bond. `listed` is what the source lists, `scan` the checkpoint date,
`evidence`, `events`, `marks`, `ledger`, `tasks`, `impacts`, `changes`, `groups` and
`delivery` are tables, `econ` the economic status of the three paths as the sync
left it, `ctl` the information controller with its program counter, `chats` the
chat tasks of audits, `view` what a user has on the screen. `seen` is history.

Actions. `ScanFetch`, `ScanPersist` (one transaction: documents, canonical
events with their numbers, routes, trigger rows, changes, reminder groups) and
`CheckpointWrite` are `run_notice_checkpoint` day by day. `WaveBuild`,
`JobStart`, `JobPasses`, `JobFails`, `JobRaises`, `WaveEnds` are the audit waves
of the controller; `ChatCreate`, `ChatMark`, `ChatSubmit`, `ChatCloses` the same
by dialogue. What a task is about - a document, a candidate, the scope of a
decided event - is settled when it is built (`Subject`), by the state its event
then has, and kept in `tasks`: the row of a scope whose event is still a candidate
becomes a task about the candidate. An answer is one of `ApplyNeedsEvidence`, `ApplyNoChange`,
`ApplyConfirmed`, `ApplyScopeNone`, `ApplyScopeFull`, each a transaction of
`apply_event_semantic_audit_result`. `Feed` and `Acknowledge` are the user.

Abstractions. A document is a name with a kind and a date. The routes of a kind
(`Routes`) are those of `incremental_event_router.py`, family by family. An
event's identity is its family and day, as its hash is made of them. Which
answer a model or person gives is a free choice; an answer about a document may
confirm several events, of any families and days up to the document's, which are
filed in some order (`MaxItems` bounds them).

A behaviour has a rigid variable `scene`: the documents, how material answers may
say they are, the paths that are KEEP at first, the execution modes, the faults
(`source`: a day cannot be fetched, `raise`: a lane raises, `kill`: the controller
is killed, `cut`: a submission is killed between its transaction and the close of
its task) and the bound on moves. So one run explores several settings that would be
too large as one.

### RuntimeStorage and ChangeFeed

State. `rt` and `results` are the JSON runtime, `finished` the history of the
triggers a final result was filed for, `pool` the candidate pool,
`scope`, `index`, `bind`, `changes`, `reminders` tables, `file` the status file,
`latest` the artifact of the last audit, `manifest` the rollback manifest. Each
shadow stage, the checkpoint and the operator have a program counter and the copy
of the status file they read at their start. `honest` is history.

Actions. `ShadowPool`, `ShadowRead`, `ShadowCapture`, `ShadowSync`,
`ShadowChanges`, `ShadowParity`, `ShadowProjection`, `ShadowWrite`,
`ShadowArtifact` are `run_incremental_storage_shadow` in its order, one step per
transaction or file; `ShadowRaises` and `ShadowWriteError` are its exception
branch. `CheckRead`/`CheckWrite` are the notice checkpoint, `SwitchStart`,
`SwitchGate`, `SwitchWrite` and `Prepare` the operator. `Answer` is the writeback of
an answer; `AnswerCutOff` (fault `cutoff`) one that ends after the ledger has the
result: the batch puts the row of a worker it stopped back to PENDING, whether
the worker had written it or not, so a question with a COMPLETED result can be
asked and answered again.

`ChangeFeed` knows only which economic status of each path was seen, what was
entered and what was told. The refinement takes, between the sync and the
changes, the captured states for what was seen.

Abstractions. A row has the fields that parity, projection, bindings and changes
tell apart. The bootstrap is the initial state.

### WebJobs

State. A job has a status, the thread's position (`at`), its run directory
(`out`); `latest` is the formal map, `registered` the maps ever registered, `runs`,
`shown` and `latestFull` what full runs leave. `lost` are jobs whose thread a
restart took. `continued` are the requests that resume a pipeline, each with its
check, its update and its thread; `admitted` the requests for a formal run that
passed their check and are not recorded yet, with how many jobs there were then.

Actions. Acquisition (`AcqAudit`, `AcqDone`), calculation (`CalcRun`,
`CalcRegister`), the pipeline of the two with its dialogue (`Pipe...`,
`ChatResolves`), the resumption of a pipeline (`ResumeMap` is the check,
`ResumeStarts` the update, `Continue...` the thread, so two requests may start
two), the full run from its own or the latest map to its records (`Full...`), its
resumption (`ResumeProject`, `ResumeComplete`), the requests
(`CheckClose`/`InsertClose` are check and insertion of one POST, with nothing
locked between), the nightly script and the restart.

Abstractions. Market data are the trading day whose close they are, 0 before the
close. A job's stages before its audit are one step. Acquisitions and pipelines
are of all five snapshot modes; a replay takes its date and prices from a
registered map.

### MarketInput

A bond is a record of what the day's sources say of it. `ReadMarket`, `Universe`,
`Maturity`, `Size`, `Audit` are the stages S1 to S6 with the sources that may
fail; `Submit`, `ValidateWrite`, `ValidateEnd`, `ValidateKilled` a resolution,
whose validator writes two files; `Gate`, `Fit`, `Freeze` the calculation.
The initial state has every combination of facts. Model fitting is a choice of
the stage that stops it.

### LofMonitor

Time is counted in cycles of the loop. `loop` holds the program counter and the
caches with the time of each. `RefreshSession` and `RefreshLanes` are the refreshes
of different intervals, `CollectSnapshot` and `Persist` a snapshot with its two
files, `ObserveStart`, `NextRow`, `AppendEvent`, `CheckpointPersist`,
`CandidatePersist` the observation of changes: one row of the snapshot after the
other, in any order of the funds, and for each row its lines. `ObserveRaises` is an
exception among these writes, which the loop survives. `LoopKilled` ends the process
anywhere, `KilledWriting` within a line of the event file. `JobCollect`/`JobPersist`
are the snapshot command, `BuildDaily` the reminder. The fund company (`Company`)
changes its mind right before a source is read, as it shows nowhere else.

### Radar

`posted` is the site, `shadow` the accumulated Xueqiu file; the tables are `seen`,
`analyzed`, `runs`, `findings`, `capsule`. A run goes through the Jisilu lane, the
Xueqiu lane, or one after the other, as the three commands do: `Collect`, `Broad`,
`Gate`, `Save` (one transaction; `SaveRaises` when ids clash), `Mark`, `Capsules`,
`Archive`, and may be killed anywhere. A finding has an id, a title and a source;
its text is left out.

### PcfCapacity and EtfPrimary

`PcfCapacity` has the capacities and `DetectEvents` as operators on the record of
a creation list. `EtfPrimary` has the exchanges (`Publish`, `Correct`, `NextDay`),
the workflow job by job (`Prepare`, `Shards`, `Merge`, `Cycle`, `PushRelay`,
`PushHistory`; `JobFails` anywhere). A job works on a checkout, so what it did not
push is gone. `EventsAreReal` compares events with `Most`, a count of baskets one
by one over limits up to 100, not with the operators of `PcfCapacity`.

## 3. What the runs check

| run | module and cfg | instance | shows |
|---|---|---|---|
| `faults` | `MCPathResearch`, `PathResearch_faults` | one PUT path, two registries, one event, API, overlap, every fault | `TypeOK`; `RowAnswersItsTrigger`; `PromotedEventsWereAsked` |
| `chat` | `MCPathResearch`, `PathResearch_chat` | one PUT path whose window opens, both modes, two chat tasks, overlap | `OneLiveChatPerTrigger` |
| `nightly` | `MCPathResearch`, `PathResearch_nightly` | a MATURITY and a PUT path, two registries, workers that time out and crash, second attempts with new evidence, batches of two | `ProjectionPasses`, `ResidualHasPassed`, `LaneNeverRaises` |
| `quiet` | `MCPathResearch`, `PathResearch_quiet` | one PUT path, three registries of the same or new snapshots, one event, jobs that fail but no kill | `PendingRowsAreQueued`, `QueuedQuestionsAreOpen`, `CompletedStays`, `PendingIsAnswered`, `LaneEndsAtLast` |
| `events` | `MCEventLedger`, `MCEventLedger_events` | five scenes, see below | `NoDocumentMissed`, `MarksAreCurrent`, `ToldIsAsked`, `NoAuditLeft`, `AuditsCanBeBuilt`, `AuditsAreSettled` |
| `storage` | `MCRuntimeStorage`, `MCRuntimeStorage_storage` | `feed`, `answers`, `operator`, see below | `BindingsAnswer`, `BoundPathsExist`, `SwitchIsEarned`, `FeedIsChangeFeed` (the refinement), `SnapshotIsMirrored` |
| `web` | `MCWebJobs`, `MCWebJobs_web` | `asked`, `nightly`, `formal`, `own`, `replay` of `WebJobs`; `input` of `MarketInput`; `claims` of `ChatClaim` | `FormalIsAsAsked`, `SecondFormalRunRaced`, `NoJobForgotten`; `SettledByEvidence`; `Exclusion`, `OwnerLetsGo` |
| `monitors` | `MCMonitors`, `MCMonitors_monitors` | `lof`, `command` of `LofMonitor`; `radar`, `backfill` of `Radar`; `etf` of `EtfPrimary` | `EventsChain`, `LabelIsTrue`, `ToldBeforeNoted`; `NoNodeLost`, `NoUsageLost`, `ArchiveIsCurrent`; `EventsAreReal`, `ComparisonIsOfRelay` |
| `v_residual` | `MCPathResearch`, `PathResearch_v_residual` | one PUT path, one registry, a worker that crashes in a second attempt | a violation: `NoResidualInProgress` |
| `v_formal` | `WebJobs`, `WebJobs_v_formal` | one day, two requests for the formal run | a violation: `OneFormalRunPerDay` |
| `v_close` | `WebJobs`, `WebJobs_v_close` | two days, one pipeline and one calculation asked for | a violation: `FormalIsOfItsClose` |
| `v_rerun` | `MCMonitors`, `MCMonitors_v_rerun` | the instances of `monitors` | a violation: `RerunsMerge` |

Bounds of the research runs. Two registry runs are enough for a trigger to be
replaced while a worker or a chat still answers the old one; three for KEEP,
DROP, KEEP and for a reuse of an answer given two episodes ago. One event meets a
path that has a trigger of its own. Two chat tasks of one trigger need one to be
finished or superseded first; answers in `chat` are READY only, as its property
does not tell them apart. Restarts are not in `chat`, whose states with them are
too many; the theorem `OneLiveChat` has them. `MaxPack = 2` in `nightly` lets new
evidence arrive once, so that a held question is tried again and its worker dies
beside the report of the first attempt. `MaxPack = 1` in `faults` and `chat`, and
`MaxPack = 2` in `quiet`: whether an attempt is the first matters to no property
of the first two. Two paths are needed where one failing task may harm another.
The passing runs take READY and HOLD for outcomes.

Bounds of the event run. Its scenes are

- `Nightly`: a default, its progress of the next day and a trustee report without
  a family, over two days, API, with `source`, `raise` and `kill`;
- `Dialogue`: one document that needs an audit, both modes, two economic moves;
- `CutOff`: the same with one submission that is cut off, or one move;
- `Undisturbed`: the announcement of a put right and a trustee report a day
  later, API, no fault, one economic move; `AuditsAreSettled` is about it;
- `Rated`: a rating report found to be a fact or a material change, else the same.

The documents of `Nightly` give two events of one family, a candidate beside a
confirmed one and a document that may confirm either or both (`MaxItems = 2`); a
put right asks for the audit of a scope, a rating, once confirmed, for the audits
of several scopes; two days let a document be listed late, on the day before or
after its own. Three waves are the code's `semantic_max_waves`; the longest chain
(document, event, scope) has three links. Two economic moves let a path leave and
come back.

Bounds of the storage run. In `feed` one stage works while the runtime moves on,
nothing cut off, three snapshots: a path is kept, dropped or gone and comes back,
is asked, held, answered and answered by reuse. `answers` is the same with answers
that are cut off between ledger and row, and processes one after the other.
`operator` has the checkpoint and the operator, one process at a time, with kills
and exceptions; two needed passes on two snapshots let one be lost, repeated on
the same snapshot, or counted from a stale copy (the code asks for three; the
theorem `SwitchEarned` has any). `FeedIsChangeFeed` and `SnapshotIsMirrored` are
about `feed`: see section 4 for what happens where a stage is cut off.

Bounds of the web run. `asked`: two days, one request for a map or a formal run,
stages that fail, waits that time out, two requests that resume, so that two
threads may go on with one pipeline. `nightly`: two days, the script, one
calculation, one restart, so that a job is lost and asked for again. `formal`: one
day, two requests for full runs, so that both are checked before either is
recorded, and one restart. `own`: two days, two requests for acquisitions and
calculations of any date, with a calendar that may be unreadable: an acquisition
of the first day can be calculated under the second. `replay`: one day and three
requests, the least a replay of a registered map needs. `input`: two bonds let one
have the conflict and the other the gap; two answers a refusal and an acceptance,
with a kill between the two writes of either. `claims`: three claims of two
sessions let each lose one, claim again and meet the other, in every step of its
command. `v_formal` needs the race of two requests and no fault; `v_close` a
pipeline and one calculation under another day.

Bounds of the monitors run. The LOF loop runs five cycles of days of three, so
that a session survives midnight and every interval falls due; two moves of a fund
let it be suspended and come back with another limit; `command` has the snapshot
command beside it and official values that are missing. Radar has one item of each
source, a second version, and two runs, each of either lane or of both, the
second of which meets what the first left; `backfill` takes BACKFILL runs instead
of the second version. ETF has two funds of one exchange and one of the other, two
trading days, one correction and three runs of the workflow: a day diffed, diffed
again, and after a lost push. The fault `build` (a session that cannot be built)
occurs in no instance, for it breaks `LabelIsTrue`, as does a session that is
refreshed less often than the market window is old: both are hypotheses of
`LabelsTrue`.

Deadlock. `nightly` and `quiet` check for it. In the others the instance may
really come to an end: restarts use up the bound on runs before a queue file
exists, days, snapshots, requests, claims and runs are used up, every document
was scanned.

Fairness. In `PathResearch`: every process, once started, goes on, hence weak
fairness of `TriggerStep`, `LaneStep`, `WorkerStep` and `ChatStep`, each the steps
of one sequential process that the operating system schedules. `LaneEndsAtLast`
needs no more. `PendingIsAnswered` also assumes that the nightly timer keeps
starting the lane (weak fairness of `BridgeRead`) and that a job attempted again
and again passes at last (strong fairness of `WorkerPass`); it fails without
either, since the code never gives a question up and never answers it by itself.
In `EventLedger`: the controller's steps, and the nightly timer that starts it
for the day; a job ends, with whatever outcome. In `RuntimeStorage`, part `feed`:
the steps of a shadow stage, which every full run and every information run
starts again.

## 4. Where code and texts disagree, and how far the properties reach

Four runs end in a violation.

- `v_rerun`: a LIVE rerun of a day in which the Jisilu lane takes the view of the
  whole date for what it has to save (`daily.py:389`), deletes the rows of its own
  source only (`storage.py:463`) and inserts an id of the other lane again. The
  insertion fails and the rerun ends, where
  `runtime/intelligence_radar/README.md:165` says that reruns of a day merge.
- `v_residual`: a worker that dies on a second attempt, made because there is new
  evidence, is judged by the report the first attempt left
  (`path_research_batch.py:96`): it says PASS, and the row stays IN_PROGRESS for
  good. `runtime/README.md:241` says that it goes back to PENDING, and line 283 has
  no residual IN_PROGRESS. What the code does keep is `ResidualHasPassed`, in
  `nightly`: such a row is of a task an earlier attempt of which had passed.
- `v_formal`: two requests for the formal run of a close both pass the check, which
  looks for one that stands, before either inserts its job; nothing is locked
  between (`app.py:1747-1796`), where `app.py:1763` says that the formal run of a
  close is not repeated. `SecondFormalRunRaced`, in `web`, says that this race is
  the only way.
- `v_close`: `POST /api/calculation-runs` takes the date of the caller and the
  newest trusted acquisition (`app.py:1524`), and the calculation does not compare
  the two (`calculation.py:685-702`): prices of one close are registered as the
  formal map of another day, where
  `runtime/docs/unit-test-feedback-v0.1.md:213-215` has the real close. Pipelines
  and the script ask for the calculation under the date of its acquisition, which
  is what `FormalIsAsAsked` says of them.

The rest was found with TLC, on the formulas under "What the repository's texts
say and the code does not do." of each module or by giving an instance one more
fault; these are not kept as runs.

Research.
- `TaskFailureIsContained` (`runtime/README.md:241`: a task that fails does not
  bring the batch down): the status reset raises when the trigger has moved on
  (`path_research_runner.py:43`) and the lane fails.
- After a timeout the state is said to be PENDING again with the task kept
  (`runtime/README.md:241`): the worker may have removed its queue item before it
  was killed, and nothing asks again. With `timeout` among the faults
  `PendingRowsAreQueued` fails.
- `KeptRowsAreMappable` (`candidate_pool.py:62`): a revision path dropped while
  PENDING and kept again without a new trigger has a status the pool cannot map.
- `AbandonedChatsAreRecoverable` (`chat_to_api_recovery.py:1`): an older PASS in the
  shared work directory blocks the recovery.
- The ledger accepts a COMPLETED answer that is not review ready
  (`research_ledger.py:71`, `path_research_validation.py:177`), and the pool then
  refuses the projection (`candidate_pool.py:186`): with `"UNREADY"` among the
  outcomes `ProjectionPasses` fails.
- Without a run: the queue rebuild drops held and waiting items
  (`runtime/README.md:163` speaks of all unfinished tasks); only the last trigger
  key is compared, so an older key can be asked again (`runtime/README.md:160-161`
  speaks of unique keys); `path_research_batch.py:213` looks for "wall timeout" in
  a message that says "worker exceeded"; `runtime/README.md:176` counts nearness to
  the trigger among what wakes research, `research_trigger.py:20-24` does not.

Chat claims.
- `PassedIsNotClaimed` (`chat_bridge.py:162`): the submission removes the claim
  before it writes PASS; a claim command that read the status earlier takes the
  task and overwrites PASS.
- `BlankIsBeingWritten` (`CHAT_EXECUTION_PROFILE.md:45`): a command that dies before
  the payload is written leaves an empty `claim.json`: unreadable, hence not owned,
  not expired, and in the way of every later claim.
- Once a claim has lapsed the bridge gives no exclusion, and no text promises any:
  a `require_claim` that read a claim just before it lapsed writes it back over
  the claim of the next session. So `Exclusion` and `OwnerLetsGo` are stated for
  the time before.

Events.
- `ScopesDoNotReconfirm` (`incremental_semantic_audit.py:459`: the audit of a scope
  does not confirm its event again): what a task is about is settled by the state
  its event has when it is built (`:245-248`). Several audits of scopes of one
  candidate, built in one wave, are all audits of the candidate (`:890-973`). The
  second that is answered confirms the event again, under a new number, or rejects
  what the first had confirmed. So neither are numbers without gaps nor stays an
  event confirmed, and no property says so. What does hold is that the marks
  follow (`MarksAreCurrent`), that the build of a wave meets no task about a
  candidate that is none (`AuditsCanBeBuilt`, `:250`), and that waves come to an end.
- A submission that is cut off between its transaction and the close of its task
  (`chat_bridge.py:559-573`) is answered again, and a path that came back to KEEP
  meanwhile is announced to the user although the row of its research stays
  suppressed (the row is INSERT OR IGNORE, the reminder follows the status of the
  moment, `_apply_scope_impact_result`). So `ToldIsAsked` is stated for submissions
  that are not cut off.
- A row that is READY_FOR_AI_AUDIT or IN_PROGRESS when the controller is killed or
  raises is built by no later run: with either fault `AuditsAreSettled` fails.
- `SentWasSeen` (`incremental_change_notification.py:298-300`): research opened after
  a reminder was acknowledged joins the acknowledged group and is never shown.
- `RoutedAreConfirmed` (`incremental_event_router.py:383`): the answer for a document
  without a family may name an event that is still a candidate; its routes are
  opened, and it stays a candidate. `ResolvedStays`: such an answer also replaces
  what an audit had resolved for a scope of the event.
- A document listed late for an event of its day is linked and never audited
  itself. A dialogue that answers between `ChatCreate` and `ChatMark` has its row
  overwritten.

Storage.
- Processes that overlap write the status file each from its own copy. With
  `Overlap = TRUE` and exceptions, `SwitchIsEarned` fails: the checkpoint writes back
  the passes a failed stage had just struck out. `RollbackSticks`
  (`incremental_read_source.py:141`) fails by a stage that writes back the file it
  read before the rollback.
- A stage killed between its sync and its changes loses the transition for good,
  and so may two overlapping ones: `TransitionsAreStored`
  (`incremental_market_change_writer.py:3-4`) fails; `FeedIsChangeFeed` is about one
  stage that is not cut off.
- A binding that was valid stays VALID though the question was answered again and
  is held: a worker stopped after the ledger had its result leaves its row PENDING
  beside a COMPLETED entry (`path_research_batch.py:72-73`), the sync binds the
  entry (`incremental_storage_sync.py:355-389`), the next attempt ends in
  NEEDS_EVIDENCE under the same key, and the sync skips what is bound already
  (`:416-423`). A correction of a maturity date that takes the band back does the
  same. So `BindingsAnswer` asks of a valid binding that a final result was filed
  for its question at some time, and not that it is the present one.
- `ResultsAreMirrored` (`incremental_storage_sync.py:321`): the index inserts a result
  once, so a question held and then answered keeps the status of the hold.
- Parity expects a retained binding only of PENDING rows (`parity.py:148-201`), so a
  path that waits for a chat fails it. A path that leaves the universe leaves no
  exit in the ledger. An exception leaves the last audit's words in the file.

Market map and web.
- A formal run stands for the day of the map it ends on, not for the one it was
  asked for: it checks its own map and then reads the latest one again, which
  another calculation may have replaced (`app.py:255-256`, `1766-1768`).
  `OneFormalRunPerDay` and `SecondFormalRunRaced` count so (`Stands`).
- Where the calendar cannot be read, a CLOSE acquisition goes on without it and
  freezes prices of a day not closed. `FormalIsAsAsked` speaks of the acquisitions
  whose close was checked.
- A restart leaves the jobs it cut off RUNNING on disk for good: the formal run of
  the day is blocked, the script polls for its four hours. A thread that resumes a
  pipeline has no exception branch, and its job stays RUNNING when the wait for the
  calculation ends it (`app.py:1023-1075`, `797-823`): the one exception
  `NoJobForgotten` makes. Two requests may resume one pipeline. A status is visible
  before the result behind it is written or registered.
- `GapsAreTheBonds` (`acquisition.py:930`, `:1076`: a missing maturity or size costs a
  bond its sample, nothing else): the validator refuses a complete and proven
  resolution when any other bond lacks a maturity or size
  (`semantic_resolution.py:281-303`), and the output contract fails the whole map for a
  bond without an issue size (`output_contract.py`).

Monitors.
- `NoChangeLost` (`daily_reminder.py:123`): a line torn by a kill is glued to the
  next one, which is lost; the reader of the file raises.
- A kill or an exception between the events and the checkpoint of a cycle reports
  the change again, so `EventsChain` is stated without one. A source that cannot be
  read replaces a good cache. The snapshot command may put an older snapshot in
  place of the loop's.
- Radar: a BACKFILL that fails erases the day; a kill between save and mark analyses
  the versions again; a Jisilu run of a day without a Jisilu row takes the row of
  Xueqiu for its own and counts its tokens a second time (`daily.py:203-224`,
  `397-408`), so `NoUsageLost` says that no tokens are lost and not that the sum is
  right.
- `SnapshotsDiffed` (`runtime_history/README.md`: events compare adjacent trading
  days): only the first run of a day writes events, so a correction or a late list
  of the day replaces the snapshot without one (`runtime_cycle.py:291-295`).

## 5. What is proved

For every value of the constants that the modules' assumptions admit, without
any of the bounds above:

| module | theorem | statement | under |
|---|---|---|---|
| `PathResearchProofs` | `TypeCorrect` | `Spec => []TypeOK` | |
| | `AnswersOwned` | `Spec => []RowAnswersItsTrigger` | |
| | `PromotedAfterState` | `Spec => []PromotedEventsWereAsked` | |
| | `OneLiveChat` | `Spec => []OneLiveChatPerTrigger` | |
| | `LaneRuns` | `Spec => LaneNeverRaises` | `Sequential` |
| | `ResidualKnown` | `Spec => []ResidualHasPassed` | `Sequential` |
| | `QueuedAreOpen` | `Spec => []QueuedQuestionsAreOpen` | `Sequential`, `NoCrash` |
| | `PendingAreQueued` | `Spec => []PendingRowsAreQueued` | `Sequential`, `NoLoss` |
| | `CompletedForGood` | `Spec => CompletedStays` | `Sequential`, `NoLoss` |
| | `ProjectionsPass` | `Spec => []ProjectionPasses` | `Sequential`, `Auditable` |
| `ChatClaimProofs` | `Typed` | `ClaimSpec => []TypeOK` | |
| | `Excluded` | `ClaimSpec => []Exclusion` | |
| | `Owned` | `ClaimSpec => OwnerLetsGo` | |
| `EventLedgerProofs` | `NoneMissed` | `Spec => []NoDocumentMissed` | |
| | `MarksCurrent` | `Spec => []MarksAreCurrent` | |
| | `ToldAsAsked` | `Spec => []ToldIsAsked` | |
| | `AuditsBuildable` | `Spec => []AuditsCanBeBuilt` | |
| | `NoneLeft` | `Spec => []NoAuditLeft` | `Waves >= 2` |
| `RuntimeStorageProofs` | `FeedIsKept` | `Spec => FeedSpec`, the refinement of `ChangeFeed` | one stage, no fault but `cutoff` |
| | `SwitchEarned` | `Spec => SwitchIsEarned` | no overlap |
| | `BoundExist` | `Spec => []BoundPathsExist` | |
| | `BindingsTrue` | `Spec => []BindingsAnswer` | `BandFacts` |
| `WebJobsProofs` | `WebInv` | `Spec => []IInv` | |
| | `NoneForgotten` | `Spec => []NoJobForgotten` | |
| | `SecondRunRaced` | `Spec => []SecondFormalRunRaced` | |
| | `FormalAsAsked` | `Spec => []FormalIsAsAsked` | |
| `MarketInputProofs` | `Settled` | `InputSpec => []SettledByEvidence` | |
| `EtfPrimaryProofs` | `RelayIsOneWhole` | `Spec => []ComparisonIsOfRelay` | |
| | `EventsReal` | `Spec => []EventsAreReal` | |
| `MonitorsProofs` | `NodesStay` | `RadarSpec => []NoNodeLost` | |
| | `UsageKept` | `RadarSpec => []NoUsageLost` | |
| | `ArchiveAgrees` | `RadarSpec => []ArchiveIsCurrent` | |
| | `LabelsTrue` | `LofSpec => []LabelIsTrue` | `SessionRefreshed` |
| | `ToldFirst` | `LofSpec => ToldBeforeNoted` | |
| | `ChangesChain` | `LofSpec => []EventsChain` | |

The assumptions are the named ASSUMEs of the modules. They fix the ranges of the
constants; those that bound something (`BoundsAssumption`, `MaxClaimsAssumption`,
`StorageBounds`, `LedgerConstants`, `WebConstants`, `EtfConstants`,
`RadarConstants`, `LofConstants`) only say that it is a natural number, and what
keeps the names they range over apart. What a theorem needs beyond them is in the
last column:

- `Sequential` is the production schedule (`Overlap = FALSE`, API, no reboot);
  `NoCrash` excludes `worker_crash`, `NoLoss` also `timeout`. With
  `worker_crash` TLC finds `QueuedQuestionsAreOpen` violated, with `timeout`
  `PendingRowsAreQueued`. What is left where a worker dies is
  `ResidualKnown`: the row is of a task an earlier attempt of which had passed.
  `Auditable` says that final answers are ready, that no path is watched for
  revision and that a full run has a snapshot of its own; with `"UNREADY"` among the
  outcomes `ProjectionPasses` fails. Section 4 names the code behind each.
- `Waves >= 2`: the code's default is 3 (`semantic_max_waves`).
- `BandFacts`: the facts know the band of a path that is kept for its maturity,
  which says of what kind the constant `Facts` is.
- `SessionRefreshed`: a session can be rebuilt, and is refreshed at least once
  between midnight and any cycle of market hours. The code refreshes hourly and
  the window opens at 9:25 (`runtime_loop.py:24-34`, `:76`). A rebuild that
  fails leaves the session of the day before in use.

Arguments.

`PathResearch`. `TypeOK` is inductive as it stands; each of its parts concerns the
variables of one tuple, so an action need only be looked at for the parts it
disturbs (lemma `Frame`). `RowAnswersItsTrigger` is not inductive: the trigger run
and the lane hold copies of the rows that they write back later, and a writeback
files its answer a step before it touches the row. `AnswersFiled` says the same of
the copies `trows` and `rstate`, and that a worker or chat about to write a row
has filed its answer. `PromotedEventsWereAsked` needs to know what the bridge is
about to commit: `PromotedAsked` follows the promoted keys from the decision (they
are the keys of the rows in `rstate`) through the state write (they are in
`asked`) to the commit and to the READY mark of the builder.
`OneLiveChatPerTrigger` needs `OneOpenChat`: open chat tasks of one trigger are
equal, and the task being written back is still open.

The second half of the module takes runs in turn. Then each process finds the files
as the last one left them, and every copy it holds is a function of the files and
of its program counter; `InTurn` writes that function down, process by process
(the queue fits the state between runs; during a run the two differ by exactly
what is still to be written). That excludes all the records that would make a
stage raise. `Audited`, for the pool, says in addition what the registry, the state
and the ledger told at the last trigger run.

`ChatClaim`. `Exclusion` and `OwnerLetsGo` follow from `FileIsHolders` (while
nothing has lapsed, a session past its check has its id in the file, and none is
about to remove an expired claim) and `DistinctIds` (no id is drawn or held
twice). That holds although readers may see an empty file while it is being
renewed: they take it for no claim, and O_EXCL then stops them.

`EventLedger`. A day that is over has listed all its documents, but the target
day of a scan is not over, so what is fetched for it may be incomplete. The
invariant says that every day before the one under scan, and every day before the
last one scanned, is complete in the database; the checkpoint then names the last
day scanned and not the one after, and the next run begins there again.

The other theorems rest on `Turns`: a task is built for an audit, and an audit that
is open is held by its row, by the list of the run, by the job or by a dialogue,
one after the other; no step opens an audit again that was answered
(`OpensNoMore`). `ToldAsked` and `FullsUnasked` follow the research of an event
from there: it opens in the transaction that writes the reminder, and the row of a
research that is not open yet is not in the ledger. A dialogue that is cut off
between its answer and the close of its task is answered twice; that is the fault
the property sets aside. `CandidatesOK`: the audit of a candidate itself was asked
for when the event was filed, and an event leaves the state of a candidate only by
a task built while it was one, in a wave that built that audit too or after one
that did. So what waits to be built is about an undecided event. `WavesOK`: the
scan alone asks for audits of documents and candidates, and an answer for audits
of scopes. The events of a family all route to audits or none does, so the answer
to an audit of a scope asks for none that is not in the ledger, even where it
confirms the event once more; after two waves nothing is left.

`RuntimeStorage`. `FeedIsKept` rests on `Captured`: between capture and sync the
captured states are the states of the database, since nothing else writes them.
`SwitchEarned` rests on `Alone` (one process at a time), hence `Copies` (every copy
of the status file is still the file when it is written back), `Counted` (the
file never counts more passes than there were) and `Gated` (an operator past the
gate found enough). `BoundExist` is inductive once it is known that a binding is a
record. `BindingsTrue` rests on `OwnResults`: a result has the id of its own
question unless the question is the entry of an episode, since only an entry takes
over the result of another; and an entry has the snapshot in its key and is asked
once. So a question that is answered again keeps its id, and what a binding names
stays the result of its question.

`WebJobs`. `IInv` is `TypeOK` with `ThreadsFit` (the point a thread has reached, the
status of its job and the files in its directory agree), `AcquisitionsAreOwn` (one
pipeline for each), `ContinuedFit` (a thread that goes on with a pipeline has an
acquisition to go on with) and `RunsFit` (a full run and its record name each
other). Every action moves one job, adds one, or moves a job and its child; the
lemmas say so once, and the three theorems look only at that. `NoneForgotten` says
it of each job (`Cared`). `SecondRunRaced` rests on `AdmittedAreChecked`: no job that
a request saw when it was checked stands for its day, and none begins to stand
later. `FormalAsAsked` follows the close from the acquisition that checked it
(`InputsAreOfTheirClose`) through the snapshot made of it
(`SnapshotsAreOfTheirInput`, `RegisteredAreFormal`), and the date from the pipeline
to both (`CutoffsAgree`).

`MarketInput`. `InputSettles`: the trusted input, whenever there is one, settles
every conflict, also after a kill between the validator's two writes, because a
refusal is written before the input is removed and an acceptance after it. The
gate in front of the calculation is not what the theorem rests on.

`EtfPrimary`. The comparison is made from the history, the snapshot is the one the
run merged. `HistoryOK` says that the pointer of the history names its newest
archived day and has its rows, on the branch and on every checkout; a run that
would go back in time ends, so the newest day after a cycle is the run's own. That
a set of days has a latest one (`LatestExists`) comes from well-foundedness.
`EventsReal`: the day an event compares with is archived before it for the last
time, as the pointer has passed it (`EventsOK`); and what `PcfCapacity` detects by
dividing limits by baskets is what counting baskets one by one would tell, which
is a lemma about integer division (`DetectedIsMeant`).

`Radar` and `LofMonitor`. `RadarInv`: what a run was given and found is of its
source, so a save that does not clash replaces no row of the other lane
(`RowsFiled`), and a merge drops a finding only for one with its id (`RowsKept`);
the row of a source holds the tokens spent for it, Jisilu's perhaps more (`Spent`),
since a Jisilu run without a row of its source takes over the other's; and
outside the steps from the save to the archive the file is the view. `LabelInv` follows a session into the snapshots made
of it: a time no further back than the day is old is of the same day (`SameDay`).
`TellInv` says of an observation that a change of a row it went through is written
or about to be; as the checkpoint is written when no row is left, `ToldFirst`
follows. `ChainInv` adds, for each fund and each of status and limit, that its last
line ends where its next change starts: at what the checkpoint has, or at what the
row shows once its line is written and the checkpoint is not. A change that is to
be told is never taken for a line that is there already, because a line has the time
of its reading, and a reading that has a line for a fund changes nothing more of it
(`NotToldYet`): states are read anew only after a pause, so at a later time. A kill
or an exception between the lines and the checkpoint ends this, and `EventsChain` says so.

Only model-checked. The liveness properties `PendingIsAnswered`, `LaneEndsAtLast`,
`AuditsAreSettled` and `SnapshotIsMirrored`: fairness and ENABLED are out of the
prover's reach. Every invariant and every action property of the passing runs is
stated by a theorem of the table, some under what its last column says
(`FeedIsChangeFeed` by `FeedIsKept`, which says it of one instance). The other
instances of a composite run are instances of the same modules, to which the
theorems apply.

## 6. Not modelled, and the plan

Not modelled.
- Discovery, ingress, contract facts: economic judgments over market data. They
  enter `PathResearch` as the facts a registry may hold, in any combination.
- The AI engine and its tools: a job passes or fails. Its tool rounds and repairs
  are bounded loops that leave nothing for the next job.
- Scrapers, quotes and other acquisition (the fetching halves of radar, ETF, LOF
  and market map): I/O. That a source fails, lags or answers in part is modelled.
- The model of the market map, estimated values and premia: arithmetic over data.
- Prompts, validators of prose, views, read-only endpoints, notification texts.
- The front end and the stored objects; the deployment gate, which compares commit
  ids before a run.
- Of modelled components: `retry_once` and the order of ready tasks in the batch,
  bundles of chats and the evidence manifest, the bootstrap and the schema migration
  of the databases, a local kill within the ETF cycle (a job of the workflow has its
  own checkout), the loaders of the relay with their hashes and fallbacks
  (`szse_relay.py:148-207`), the limit of freshness of the ETF view, the Guba
  collector.

The plan, in this order:

1. `TriggerRules`, `PathResearch`, `ChatClaim` and their proofs: done.
2. `EventLedger`, `RuntimeStorage` with `ChangeFeed`, `WebJobs` with `MarketInput`,
   `LofMonitor`, `Radar`, `EtfPrimary` with `PcfCapacity`: done; first proofs done.
3. Proofs of every invariant and action property the runs check: done. Left is
   `InTurn` for runs with a reboot.
4. An abstract specification of one question (asked, open, answered or dropped) that
   `PathResearch` implements.
5. The research rounds of a heavy run inside `WebJobs`, composed with the batch.
6. Bundles of chat tasks; the rounds of the AI engine.
7. Pure operators against reference definitions: maturity, put and revision
   judgments, the schedule gate, the trading calendar.
