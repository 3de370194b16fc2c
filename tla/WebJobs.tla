------------------------------- MODULE WebJobs -------------------------------
(***************************************************************************)
(* The web server's jobs (runtime/web/app.py) and what they run: the       *)
(* acquisition and the calculation of a market map, the pipeline that      *)
(* joins them, the full runtime that takes a formal map down to            *)
(* opportunity records (full_runtime_controller.py), and the nightly       *)
(* script that asks for both (pretrade-unified-runtime-run.sh).            *)
(*                                                                         *)
(* A job is a record in memory and on disk; the two are written together,  *)
(* and a restart of the server leaves the disk only. Each job has one      *)
(* thread, which a restart ends. WARNING is PASS here (every reader takes  *)
(* both), RUNNING_WARNING is RUNNING. Market data are abstracted to the    *)
(* trading day whose close they are, 0 for prices of a day not yet closed. *)
(***************************************************************************)
EXTENDS Integers, Sequences, FiniteSets

CONSTANTS
    MaxDay,      \* bound: calendar days 1..MaxDay
    TradeDays,   \* the days among them on which the market trades (1 is one)
    Endpoints,   \* what callers use: "nightly", "close", "latest", "map", "calc", "acq"
    MaxAsked,    \* bound on requests
    Modes,       \* execution modes of the semantic audit and the research
    MaxResumes,  \* bound on requests that resume a pipeline
    Faults,      \* of "restart", "calendar", "timeout", "stage"
    None         \* a model value: absent

ASSUME WebConstants ==
    /\ MaxDay \in Nat /\ TradeDays \subseteq 1..MaxDay /\ 1 \in TradeDays
    /\ Modes \subseteq {"AUTO_API", "INTERACTIVE_CHAT"}
    /\ None \notin Nat /\ None \notin {"PASS", "FAIL", "NEEDS_REVIEW", "FORMAL_CLOSE"}

VARIABLES
    day,         \* China's date
    closed,      \* 15:10 has passed
    jobs,        \* live_status.json of each job, in order of creation
    at,          \* where each job's thread is, "none" without one
    lost,        \* jobs whose thread a restart ended
    out,         \* a job's run directory
    continued,   \* requests that resume a pipeline, and the threads they start
    registered,  \* market_map_registry: calculations registered as FORMAL_CLOSE
    latest,      \* latest_formal_market_map.json
    runs,        \* full_runtime_runs/*/status.json
    shown,       \* the run behind the latest candidate pool and records
    latestFull,  \* latest_full_runtime.json
    admitted,    \* requests for a formal run checked and not yet recorded: the day, and
                 \* how many jobs there were at the check
    resumes,     \* requests that resume a full run, half done
    script,      \* the nightly script
    asked        \* requests made

clock == <<day, closed>>
server == <<jobs, at, lost, out, continued>>
registry == <<registered, latest>>
results == <<runs, shown, latestFull>>
clients == <<admitted, resumes, script, asked>>
vars == <<clock, server, registry, results, clients>>

Days == 1..MaxDay
Live == {"PENDING", "RUNNING", "WAITING_FOR_CHAT"}
Terminal == {"PASS", "FAIL", "NEEDS_REVIEW"}
SnapshotModesAsked == {"LIVE_TEST", "CLOSE", "PRE_TRADE_CLOSE", "REPLAY_TEST", "HISTORICAL_REPLAY"}
LastTradeDay == CHOOSE d \in TradeDays : d <= day /\ \A e \in TradeDays : e <= day => e <= d
\* The close that prices fetched now are of; external: the market's data sources.
CloseNow == IF day \in TradeDays /\ ~closed THEN 0 ELSE LastTradeDay

NewJob(unit, mode, cutoff, ai) ==
    [unit |-> unit, mode |-> mode, cutoff |-> cutoff, ai |-> ai, status |-> "PENDING",
     day |-> cutoff, src |-> None, seen |-> 0,
     child |-> None, acq |-> None, calc |-> None, run |-> None]
EmptyDir == [result |-> None, audit |-> None, checked |-> FALSE, valid |-> None,
             trusted |-> FALSE, class |-> None, data |-> None, cutoff |-> None]

Jobs == DOMAIN jobs
Is(j, unit, pc) == j \in Jobs /\ jobs[j].unit = unit /\ at[j] = pc
\* Starts a job's thread beside what the caller does to its own job.
With(js, job) == Append(js, job)
Spawn(ats) == Append(ats, "start")
SetStatus(j, s) == [jobs EXCEPT ![j].status = s]
Goes(j, pc) == [at EXCEPT ![j] = pc]
\* The last update of a job: its status, and its thread is over.
Ends(j, s) == /\ jobs' = SetStatus(j, s)
              /\ at' = Goes(j, "none")

-----------------------------------------------------------------------------
(* Acquisition: one subprocess of market_map/acquisition.py. *)

\* Mutant: a CLOSE acquisition of any date the caller names.
CloseGateAnyDate(mode, cutoff, calendar) ==
    CASE mode = "CLOSE" -> ~calendar \/ (day \in TradeDays /\ closed)
      [] mode = "PRE_TRADE_CLOSE" -> calendar /\ (LastTradeDay = day => closed)
      [] OTHER -> TRUE

\* S0 for the formal modes. CLOSE is for today after 15:10 on a trading day, PRE_TRADE_CLOSE
\* for the latest trading day once closed; CLOSE goes on without the calendar.
CloseGate(mode, cutoff, calendar) ==
    CASE mode = "CLOSE" -> \/ ~calendar
                           \/ cutoff = day /\ day \in TradeDays /\ closed
      [] mode = "PRE_TRADE_CLOSE" -> /\ calendar
                                     /\ cutoff = LastTradeDay
                                     /\ LastTradeDay = day => closed
      [] OTHER -> TRUE

\* What S1 to S4 fetch: the live market, the raw files a replay names, or a fixture that is
\* no day's close.
Fetched(a) == CASE jobs[a].mode = "HISTORICAL_REPLAY" -> jobs[a].src
                [] jobs[a].mode = "REPLAY_TEST" -> 0
                [] OTHER -> CloseNow

\* S0 to S5: the gate, the sources, the audit. A step FAIL or NEEDS_REVIEW shows in the
\* job at once, before the subprocess writes its result; a trusted input is written only
\* when the audit left nothing unresolved. S0 notes whether it had the calendar to check by.
AcqAudit(a) ==
    /\ Is(a, "acq", "start")
    /\ \E calendar \in {TRUE} \cup (IF "calendar" \in Faults THEN {FALSE} ELSE {}),
         found \in {"PASS", "NEEDS_REVIEW"} \cup (IF "stage" \in Faults THEN {"FAIL"} ELSE {}) :
         LET o == IF CloseGate(jobs[a].mode, jobs[a].cutoff, calendar) THEN found ELSE "FAIL"
         IN /\ out' = [out EXCEPT ![a] = [@ EXCEPT !.audit = o, !.data = Fetched(a),
                                                   !.checked = calendar,
                                                   !.trusted = (o = "PASS")]]
            /\ jobs' = SetStatus(a, IF o = "PASS" THEN "RUNNING" ELSE o)
    /\ at' = Goes(a, "audited")
    /\ UNCHANGED <<clock, lost, continued, registry, results, clients>>

\* S6, acquisition_result.json, the end of execute_job.
AcqDone(a) ==
    /\ Is(a, "acq", "audited")
    /\ out' = [out EXCEPT ![a].result = out[a].audit]
    /\ Ends(a, out[a].audit)
    /\ UNCHANGED <<clock, lost, continued, registry, results, clients>>

\* acquisition_input_is_trusted with the status of acquisition_result.json.
Trusted(a) == /\ out[a].trusted
              /\ \/ out[a].result = "PASS"
                 \/ out[a].result = "NEEDS_REVIEW" /\ out[a].valid = "PASS"

\* semantic_resolution.validate_resolution: writes the trusted input, or removes it.
Resolve(a, verdict) ==
    [out EXCEPT ![a] = [@ EXCEPT !.valid = verdict, !.trusted = (verdict = "PASS")]]

-----------------------------------------------------------------------------
(* Calculation: one subprocess of market_map/calculation.py, then the registry. *)

\* The class run_calculation gives a snapshot: formal when the acquisition was of a formal
\* mode and its input is trusted. The snapshot takes the cutoff of the request.
SnapshotClass(a) == CASE jobs[a].mode \in {"CLOSE", "PRE_TRADE_CLOSE"} -> "FORMAL_CLOSE"
                      [] jobs[a].mode = "HISTORICAL_REPLAY" -> "HISTORICAL_REPLAY"
                      [] OTHER -> "TEST_ONLY"

\* run_calculation and the end of execute_job: the result shows in the job before
\* the snapshot is registered.
CalcRun(c) ==
    /\ Is(c, "calc", "start")
    /\ LET a == jobs[c].acq IN
       \E fits \in {TRUE} \cup (IF "stage" \in Faults THEN {FALSE} ELSE {}) :
         IF Trusted(a) /\ fits
         THEN /\ out' = [out EXCEPT ![c] = [@ EXCEPT !.class = SnapshotClass(a), !.data = out[a].data,
                                                     !.cutoff = jobs[c].cutoff, !.result = "PASS"]]
              /\ jobs' = SetStatus(c, "PASS")
              /\ at' = Goes(c, "register")
         ELSE /\ Ends(c, "FAIL")
              /\ UNCHANGED out
    /\ UNCHANGED <<clock, lost, continued, registry, results, clients>>

\* register_formal_market_map_snapshot.
CalcRegister(c) ==
    /\ Is(c, "calc", "register")
    /\ at' = Goes(c, "none")
    /\ IF out[c].class = "FORMAL_CLOSE"
       THEN /\ registered' = registered \cup {c}
            /\ latest' = c
       ELSE UNCHANGED registry
    /\ UNCHANGED <<clock, jobs, lost, continued, out, results, clients>>

-----------------------------------------------------------------------------
(* The market map pipeline: acquisition, semantic audit, calculation. *)

\* market_map_pipeline_worker up to its wait for the acquisition it creates.
PipeStart(p) ==
    /\ Is(p, "pipe", "start")
    /\ LET a == Len(jobs) + 1 IN
       /\ jobs' = With([jobs EXCEPT ![p].status = "RUNNING", ![p].acq = a],
                       [NewJob("acq", jobs[p].mode, jobs[p].cutoff, jobs[p].ai)
                            EXCEPT !.src = jobs[p].src])
       /\ at' = Spawn(Goes(p, "acqwait"))
       /\ out' = Append(out, EmptyDir)
    /\ UNCHANGED <<clock, lost, continued, registry, results, clients>>

\* Its wait ends at the first terminal status it sees.
PipeAcqSeen(p) ==
    /\ Is(p, "pipe", "acqwait")
    /\ LET s == jobs[jobs[p].acq].status IN
       /\ s \in Terminal
       /\ CASE s = "PASS" -> at' = Goes(p, "calc") /\ UNCHANGED jobs
            [] s = "FAIL" -> Ends(p, "FAIL")
            [] OTHER -> IF jobs[p].ai = "INTERACTIVE_CHAT"
                        THEN Ends(p, "WAITING_FOR_CHAT")
                        ELSE at' = Goes(p, "ai") /\ UNCHANGED jobs
    /\ UNCHANGED <<clock, lost, continued, out, registry, results, clients>>

\* run_semantic_ai_for_acquisition and the check of what it left. A provider that fails, or
\* gives up, leaves no verdict.
PipeAi(p) ==
    /\ Is(p, "pipe", "ai")
    /\ \/ \E verdict \in {"PASS", "FAIL"} :
            LET a == jobs[p].acq IN
            /\ out' = Resolve(a, verdict)
            /\ CASE verdict = "FAIL" -> Ends(p, "NEEDS_REVIEW")
                 [] out[a].result = "NEEDS_REVIEW" /\ verdict = "PASS" ->
                        at' = Goes(p, "calc") /\ UNCHANGED jobs
                 [] OTHER -> Ends(p, "FAIL")
       \/ /\ "stage" \in Faults
          /\ \E s \in {"FAIL", "NEEDS_REVIEW"} : Ends(p, s)
          /\ UNCHANGED out
    /\ UNCHANGED <<clock, lost, continued, registry, results, clients>>

\* The calculation of pipeline p's acquisition, created with p's cutoff.
CalcOf(p) == [NewJob("calc", "LATEST_SUCCESS", jobs[p].cutoff, jobs[p].ai) EXCEPT !.acq = jobs[p].acq]

\* Creates pipeline p's calculation; ats is where the threads of the jobs there are go.
StartsCalc(p, ats) ==
    /\ jobs' = With([jobs EXCEPT ![p].status = "RUNNING", ![p].calc = Len(jobs) + 1], CalcOf(p))
    /\ at' = Spawn(ats)
    /\ out' = Append(out, EmptyDir)

\* continue_pipeline_calculation in the worker, up to its wait; create_calculation_run
\* refuses an input that is not trusted, which the worker turns into FAIL.
PipeCalc(p) ==
    /\ Is(p, "pipe", "calc")
    /\ \/ /\ Trusted(jobs[p].acq)
          /\ StartsCalc(p, Goes(p, "calcwait"))
       \/ /\ ~Trusted(jobs[p].acq)
          /\ Ends(p, "FAIL")
          /\ UNCHANGED out
    /\ UNCHANGED <<clock, lost, continued, registry, results, clients>>

\* How a pipeline ends when it sees its calculation c end.
AfterCalc(c) == IF jobs[c].status = "PASS" THEN "PASS" ELSE "FAIL"

PipeCalcSeen(p) ==
    /\ Is(p, "pipe", "calcwait")
    /\ jobs[jobs[p].calc].status \in Terminal
    /\ Ends(p, AfterCalc(jobs[p].calc))
    /\ UNCHANGED <<clock, lost, continued, out, registry, results, clients>>

\* Mutant: no except branch; the thread that gave up records nothing.
PipeTimesOutSilently(p) ==
    /\ "timeout" \in Faults
    /\ Is(p, "pipe", "acqwait") \/ Is(p, "pipe", "calcwait")
    /\ at' = Goes(p, "none")
    /\ UNCHANGED <<clock, jobs, lost, continued, out, registry, results, clients>>

\* wait_for_job_terminal gives up, and the worker records FAIL.
PipeTimesOut(p) ==
    /\ "timeout" \in Faults
    /\ Is(p, "pipe", "acqwait") \/ Is(p, "pipe", "calcwait")
    /\ Ends(p, "FAIL")
    /\ UNCHANGED <<clock, lost, continued, out, registry, results, clients>>

\* The dialogue submits a resolution for a pipeline that waits (chat_bridge), until one passes.
ChatResolves(p) ==
    /\ p \in Jobs /\ jobs[p].unit = "pipe" /\ jobs[p].status = "WAITING_FOR_CHAT"
    /\ out[jobs[p].acq].valid # "PASS"
    /\ \E verdict \in {"PASS", "FAIL"} : out' = Resolve(jobs[p].acq, verdict)
    /\ UNCHANGED <<clock, jobs, at, lost, continued, registry, results, clients>>

\* resume_market_map_after_chat checks the pipeline, without holding the lock, ...
ResumeMap(p) ==
    /\ Len(continued) < MaxResumes
    /\ p \in Jobs /\ jobs[p].unit = "pipe" /\ jobs[p].status = "WAITING_FOR_CHAT"
    /\ Trusted(jobs[p].acq)
    /\ continued' = Append(continued, [job |-> p, pc |-> "checked", calc |-> None])
    /\ UNCHANGED <<clock, jobs, at, lost, out, registry, results, clients>>

Turns(t, pc) == continued' = [continued EXCEPT ![t].pc = pc]

\* ... and then updates it and starts a thread: two requests start two.
ResumeStarts(t) ==
    /\ continued[t].pc = "checked"
    /\ jobs' = SetStatus(continued[t].job, "RUNNING")
    /\ Turns(t, "started")
    /\ UNCHANGED <<clock, at, lost, out, registry, results, clients>>

\* continue_pipeline_calculation in that thread, which dies of a refused input.
ContinueCalc(t) ==
    LET p == continued[t].job IN
    /\ continued[t].pc = "started"
    /\ \/ /\ Trusted(jobs[p].acq)
          /\ StartsCalc(p, at)
          /\ continued' = [continued EXCEPT ![t].pc = "waits", ![t].calc = Len(jobs) + 1]
       \/ /\ ~Trusted(jobs[p].acq)
          /\ jobs' = SetStatus(p, "RUNNING")
          /\ Turns(t, "died")
          /\ UNCHANGED <<at, out>>
    /\ UNCHANGED <<clock, lost, registry, results, clients>>

ContinueSeen(t) ==
    LET c == continued[t].calc IN
    /\ continued[t].pc = "waits"
    /\ jobs[c].status \in Terminal
    /\ jobs' = SetStatus(continued[t].job, AfterCalc(c))
    /\ Turns(t, "none")
    /\ UNCHANGED <<clock, at, lost, out, registry, results, clients>>

\* Its wait gives up: nobody catches what it raises.
ContinueTimesOut(t) ==
    /\ "timeout" \in Faults
    /\ continued[t].pc = "waits"
    /\ Turns(t, "died")
    /\ UNCHANGED <<clock, jobs, at, lost, out, registry, results, clients>>

-----------------------------------------------------------------------------
(* The full runtime: a formal map, then ingress, discovery, trigger, research, *)
(* candidate pool and opportunity records.                                  *)

\* opportunity_full_worker up to a map: its own (CLOSE) or the one registered last.
FullStart(f) ==
    /\ Is(f, "full", "start")
    /\ LET p == Len(jobs) + 1 IN
       \/ /\ jobs[f].mode = "CLOSE" /\ closed
          /\ jobs' = With([jobs EXCEPT ![f].status = "RUNNING", ![f].child = p],
                          NewJob("pipe", "CLOSE", day, "AUTO_API"))
          /\ at' = Spawn(Goes(f, "mapwait"))
          /\ out' = Append(out, EmptyDir)
       \/ /\ jobs[f].mode = "LATEST_FORMAL" /\ latest # None
          /\ jobs' = SetStatus(f, "RUNNING")
          /\ at' = Goes(f, "ready")
          /\ UNCHANGED out
       \/ /\ IF jobs[f].mode = "CLOSE" THEN ~closed ELSE latest = None
          /\ Ends(f, "FAIL")
          /\ UNCHANGED out
    /\ UNCHANGED <<clock, lost, continued, registry, results, clients>>

\* The map of a CLOSE run must have passed and be the one registered last.
FullMapSeen(f) ==
    /\ Is(f, "full", "mapwait")
    /\ LET p == jobs[f].child IN
       /\ jobs[p].status \in Terminal
       /\ IF jobs[p].status = "PASS" /\ latest # None /\ latest = jobs[p].calc
          THEN at' = Goes(f, "ready") /\ UNCHANGED jobs
          ELSE Ends(f, "FAIL")
    /\ UNCHANGED <<clock, lost, continued, out, registry, results, clients>>

FullTimesOut(f) ==
    /\ "timeout" \in Faults
    /\ Is(f, "full", "mapwait")
    /\ Ends(f, "FAIL")
    /\ UNCHANGED <<clock, lost, continued, out, registry, results, clients>>

\* run_opportunity_full_downstream reads the latest formal map again and opens its run.
FullBegin(f) ==
    /\ Is(f, "full", "ready")
    /\ runs' = Append(runs, [job |-> f, snap |-> latest, status |-> "RUNNING"])
    /\ jobs' = [jobs EXCEPT ![f].run = Len(runs) + 1]
    /\ at' = Goes(f, "front")
    /\ UNCHANGED <<clock, lost, continued, out, registry, shown, latestFull, clients>>

\* Ingress to research. A stage that raises fails the run; questions left to the dialogue
\* leave it WAITING_FOR_CHAT.
FullFront(f) ==
    /\ Is(f, "full", "front")
    /\ LET r == jobs[f].run IN
       \/ at' = Goes(f, "project") /\ UNCHANGED runs
       \/ /\ jobs[f].ai = "INTERACTIVE_CHAT"
          /\ runs' = [runs EXCEPT ![r].status = "WAITING_FOR_CHAT"]
          /\ at' = Goes(f, "WAITING_FOR_CHAT")
       \/ /\ "stage" \in Faults
          /\ runs' = [runs EXCEPT ![r].status = "FAIL"]
          /\ at' = Goes(f, "FAIL")
    /\ UNCHANGED <<clock, jobs, lost, continued, out, registry, shown, latestFull, clients>>

\* Candidate pool and opportunity records, each with its "latest" pointer.
FullProject(f) ==
    /\ Is(f, "full", "project")
    /\ shown' = jobs[f].run
    /\ at' = Goes(f, "complete")
    /\ UNCHANGED <<clock, jobs, lost, continued, out, registry, runs, latestFull, clients>>

\* The run's last status and latest_full_runtime.json.
FullComplete(f) ==
    /\ Is(f, "full", "complete")
    /\ runs' = [runs EXCEPT ![jobs[f].run].status = "PASS"]
    /\ latestFull' = jobs[f].run
    /\ at' = Goes(f, "PASS")
    /\ UNCHANGED <<clock, jobs, lost, continued, out, registry, shown, clients>>

\* The job takes the status the run was returned with, whatever has become of the run since,
\* and the cutoff of the map the run used; a run that failed leaves the cutoff the job was
\* asked with.
FullReport(f) ==
    /\ \E s \in {"PASS", "FAIL", "WAITING_FOR_CHAT"} :
         /\ Is(f, "full", s)
         /\ jobs' = [jobs EXCEPT ![f].status = s,
                                 ![f].cutoff = IF s = "FAIL" THEN @
                                               ELSE out[runs[jobs[f].run].snap].cutoff]
    /\ at' = Goes(f, "none")
    /\ UNCHANGED <<clock, lost, continued, out, registry, results, clients>>

Reported(r) == at[runs[r].job] = "none" /\ runs[r].job \notin lost

\* resume_opportunity_full_after_chat once the run's tasks are answered: the projections are
\* built again from the run's own registry of paths.
ResumeProject(r) ==
    /\ r \in DOMAIN runs /\ r \notin resumes
    /\ runs[r].status = "WAITING_FOR_CHAT"
    /\ shown' = r
    /\ resumes' = resumes \cup {r}
    /\ UNCHANGED <<clock, server, registry, runs, latestFull, admitted, script, asked>>

\* Its last writes; the job found by the run's id follows, if the worker has reported it.
ResumeComplete(r) ==
    /\ r \in resumes
    /\ runs' = [runs EXCEPT ![r].status = "PASS"]
    /\ latestFull' = r
    /\ resumes' = resumes \ {r}
    /\ jobs' = IF Reported(r) THEN SetStatus(runs[r].job, "PASS") ELSE jobs
    /\ UNCHANGED <<clock, at, lost, continued, out, registry, shown, admitted, script, asked>>

-----------------------------------------------------------------------------
(* Requests. *)

Insert(job) == /\ jobs' = Append(jobs, job)
               /\ at' = Append(at, "start")
               /\ out' = Append(out, EmptyDir)

Ask == asked < MaxAsked /\ asked' = asked + 1

\* _full_run_candidates: full jobs in memory and on disk.
FullJobs == {f \in Jobs : jobs[f].unit = "full"}
\* Mutant: only the jobs in memory are looked at.
AvailableInMemory ==
    /\ day \in TradeDays
    /\ closed
    /\ \A f \in FullJobs \ lost : jobs[f].cutoff = day => jobs[f].status = "FAIL"

\* close_mode_precheck: no full job of today's cutoff has passed or is active.
FormalRunAvailable ==
    /\ day \in TradeDays
    /\ closed
    /\ \A f \in FullJobs : jobs[f].cutoff = day => jobs[f].status = "FAIL"

\* create_opportunity_full_run, source_mode CLOSE: the precheck, ...
CheckClose ==
    /\ "close" \in Endpoints /\ Ask
    /\ FormalRunAvailable
    /\ admitted' = Append(admitted, [day |-> day, seen |-> Len(jobs)])
    /\ UNCHANGED <<clock, server, registry, results, resumes, script>>

\* ... and then the job; nothing is locked between.
InsertClose ==
    /\ admitted # <<>>
    /\ \E ai \in Modes :
         Insert([NewJob("full", "CLOSE", Head(admitted).day, ai) EXCEPT !.seen = Head(admitted).seen])
    /\ admitted' = Tail(admitted)
    /\ UNCHANGED <<clock, lost, continued, registry, results, resumes, script, asked>>

\* create_opportunity_full_run, source_mode LATEST_FORMAL.
PostLatest ==
    /\ "latest" \in Endpoints /\ Ask
    /\ \E ai \in Modes : Insert(NewJob("full", "LATEST_FORMAL", None, ai))
    /\ UNCHANGED <<clock, lost, continued, registry, results, admitted, resumes, script>>

\* The date of what a caller asks for, any; or the date and the prices of the formal map
\* that a replay names.
Wanted(mode) ==
    IF mode = "HISTORICAL_REPLAY"
    THEN {[cutoff |-> out[c].cutoff, prices |-> out[c].data] : c \in registered}
    ELSE [cutoff : 1..day, prices : {None}]

\* create_market_map_pipeline: CLOSE is of today, after 15:10.
PostMap ==
    /\ "map" \in Endpoints /\ Ask
    /\ \E ai \in Modes, mode \in SnapshotModesAsked : \E w \in Wanted(mode) :
         /\ mode = "CLOSE" => closed /\ w.cutoff = day
         /\ Insert([NewJob("pipe", mode, w.cutoff, ai) EXCEPT !.src = w.prices])
    /\ UNCHANGED <<clock, lost, continued, registry, results, admitted, resumes, script>>

\* create_run: an acquisition of its own.
PostAcq ==
    /\ "acq" \in Endpoints /\ Ask
    /\ \E mode \in SnapshotModesAsked : \E w \in Wanted(mode) :
         Insert([NewJob("acq", mode, w.cutoff, None) EXCEPT !.src = w.prices])
    /\ UNCHANGED <<clock, lost, continued, registry, results, admitted, resumes, script>>

\* find_latest_acquisition_input reads the job's status, not the result's.
Usable(a) == /\ jobs[a].unit = "acq" /\ out[a].trusted
             /\ \/ jobs[a].status = "PASS"
                \/ jobs[a].status = "NEEDS_REVIEW" /\ out[a].valid = "PASS"

\* create_calculation_run, LATEST_SUCCESS: a trusted acquisition the caller names, or the
\* newest usable one, under the date the caller names.
PostCalc ==
    /\ "calc" \in Endpoints /\ Ask
    /\ \E a \in Jobs, cutoff \in 1..day :
         /\ jobs[a].unit = "acq"
         /\ Trusted(a) \/ (Usable(a) /\ \A b \in Jobs : Usable(b) => b <= a)
         /\ Insert([NewJob("calc", "LATEST_SUCCESS", cutoff, None) EXCEPT !.acq = a])
    /\ UNCHANGED <<clock, lost, continued, registry, results, admitted, resumes, script>>

-----------------------------------------------------------------------------
(* The nightly script, once a day after the close. *)

\* decide_schedule: before a trading day, of the last close; on the last trading day
\* of a row, of today's; otherwise nothing.
RunIntent == CASE day + 1 \in TradeDays -> "PRE_TRADE_CLOSE"
               [] day \in TradeDays -> "CLOSE"
               [] OTHER -> "SKIP"

ScriptStart ==
    /\ "nightly" \in Endpoints
    /\ closed /\ script.pc = "idle" /\ script.day < day
    /\ IF RunIntent = "SKIP"
       THEN /\ script' = [script EXCEPT !.day = day]
            /\ UNCHANGED <<jobs, at, out>>
       ELSE \E ai \in Modes :
              /\ Insert(NewJob("pipe", RunIntent, LastTradeDay, ai))
              /\ script' = [pc |-> "map", job |-> Len(jobs) + 1, day |-> day]
    /\ UNCHANGED <<clock, lost, continued, registry, results, admitted, resumes, asked>>

\* poll_job, then the full run of the map registered last, research left to its own lane.
ScriptMap ==
    /\ script.pc = "map" /\ jobs[script.job].status = "PASS"
    /\ Insert(NewJob("full", "LATEST_FORMAL", None, "AUTO_API"))
    /\ script' = [script EXCEPT !.pc = "core", !.job = Len(jobs) + 1]
    /\ UNCHANGED <<clock, lost, continued, registry, results, admitted, resumes, asked>>

\* The script ends: after the core run, on a failure, or when a lost job never answers.
ScriptEnds ==
    /\ script.pc # "idle"
    /\ \/ jobs[script.job].status \in {"FAIL", "NEEDS_REVIEW"} \/ script.job \in lost
       \/ script.pc = "core" /\ jobs[script.job].status = "PASS"
    /\ script' = [script EXCEPT !.pc = "idle", !.job = None]
    /\ UNCHANGED <<clock, server, registry, results, admitted, resumes, asked>>

-----------------------------------------------------------------------------
Tick ==
    /\ \/ ~closed /\ closed' = TRUE /\ day' = day
       \/ closed /\ day < MaxDay /\ day' = day + 1 /\ closed' = FALSE
    /\ UNCHANGED <<server, registry, results, clients>>

\* Thread t goes on with pipeline j.
Continues(t, j) == continued[t].job = j /\ continued[t].pc \in {"started", "waits"}

\* A restart of the server (every deployment ends in one): threads and half-done requests
\* are gone; jobs are known from their files from now on. Bound: one restart.
Restart ==
    /\ "restart" \in Faults
    /\ lost = {}
    /\ lost' = {j \in Jobs : at[j] # "none" \/ \E t \in DOMAIN continued : Continues(t, j)}
    /\ lost' # {}
    /\ at' = [j \in Jobs |-> "none"]
    /\ continued' = [t \in DOMAIN continued |->
                        [continued[t] EXCEPT !.pc = IF @ = "died" THEN @ ELSE "none"]]
    /\ admitted' = <<>> /\ resumes' = {}
    /\ UNCHANGED <<clock, jobs, out, registry, results, script, asked>>

Init ==
    /\ day = 1 /\ closed = FALSE
    /\ jobs = <<>> /\ at = <<>> /\ lost = {} /\ out = <<>> /\ continued = <<>>
    /\ registered = {} /\ latest = None
    /\ runs = <<>> /\ shown = None /\ latestFull = None
    /\ admitted = <<>> /\ resumes = {}
    /\ script = [pc |-> "idle", job |-> None, day |-> 0]
    /\ asked = 0

Next ==
    \/ \E j \in Jobs :
         \/ AcqAudit(j) \/ AcqDone(j)
         \/ CalcRun(j) \/ CalcRegister(j)
         \/ PipeStart(j) \/ PipeAcqSeen(j) \/ PipeAi(j)
         \/ PipeCalc(j) \/ PipeCalcSeen(j) \/ PipeTimesOut(j) \/ ChatResolves(j) \/ ResumeMap(j)
         \/ FullStart(j) \/ FullMapSeen(j) \/ FullTimesOut(j) \/ FullBegin(j)
         \/ FullFront(j) \/ FullProject(j) \/ FullComplete(j) \/ FullReport(j)
    \/ \E t \in DOMAIN continued :
         ResumeStarts(t) \/ ContinueCalc(t) \/ ContinueSeen(t) \/ ContinueTimesOut(t)
    \/ \E r \in DOMAIN runs : ResumeProject(r) \/ ResumeComplete(r)
    \/ CheckClose \/ InsertClose \/ PostLatest \/ PostMap \/ PostAcq \/ PostCalc
    \/ ScriptStart \/ ScriptMap \/ ScriptEnds
    \/ Tick \/ Restart

Spec == Init /\ [][Next]_vars

-----------------------------------------------------------------------------
\* The prices of a registered map are of the close its acquisition was asked for, if S0 had
\* the calendar to check by (acquisition.py S0); and a pipeline's map is dated with that
\* close. Three jobs lie between the gate and the registration, which looks at neither
\* (app.py register_formal_market_map_snapshot).
FormalIsAsAsked ==
    /\ \A c \in registered :
         out[jobs[c].acq].checked => out[c].data = jobs[jobs[c].acq].cutoff
    /\ \A p \in Jobs :
         jobs[p].unit = "pipe" /\ jobs[p].calc \in registered =>
            out[jobs[p].calc].cutoff = jobs[jobs[p].acq].cutoff

\* Job f is a formal run of day d's close under way or passed. A run that ended on another
\* day's map counts as a run of that other day.
Stands(f, d) == /\ jobs[f].unit = "full" /\ jobs[f].mode = "CLOSE"
                /\ jobs[f].day = d /\ jobs[f].cutoff = d /\ jobs[f].status # "FAIL"

\* A second formal run of one day's close gets in only between another's check and its
\* record (create_opportunity_full_run): once a formal run is recorded, and unless it
\* fails, no later request is admitted, whatever is resumed or restarted in between.
SecondFormalRunRaced ==
    \A f, g \in FullJobs : \A d \in Days :
        Stands(f, d) /\ Stands(g, d) /\ f < g => jobs[g].seen < f

\* A job that says PENDING or RUNNING is somebody's: unless a restart took its thread, a
\* thread will still end it (every worker's except branch; the waits between workers). The
\* one other way to be left is a resumed thread that died of its wait.
NoJobForgotten ==
    \A j \in Jobs : jobs[j].status \in {"PENDING", "RUNNING"} /\ j \notin lost =>
        \/ at[j] # "none"
        \/ \E t \in DOMAIN continued :
             Continues(t, j) \/ (continued[t].job = j /\ continued[t].pc = "died")

-----------------------------------------------------------------------------
(* What the repository's texts say and the code does not do.                *)

\* A map registered as the formal close of a day holds that day's closing prices: "CLOSE
\* must use the true, uniform, auditable closing section" (unit-test-feedback-v0.1.md).
FormalIsOfItsClose == \A c \in registered : out[c].data = out[c].cutoff

\* "The same close is not formally run again" (create_opportunity_full_run's refusals).
OneFormalRunPerDay ==
    \A f, g \in FullJobs : \A d \in Days : Stands(f, d) /\ Stands(g, d) => f = g
=============================================================================
