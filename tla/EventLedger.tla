------------------------------ MODULE EventLedger ------------------------------
(***************************************************************************)
(* From an announcement to a reminder: the daily notice checkpoint, the     *)
(* event ledger, the semantic audits and the in-app feed of one bond.       *)
(*                                                                          *)
(* The information controller scans the announcements of each day since the *)
(* last successful one, files documents, events and what they ask for in    *)
(* one transaction, lets a model or a person audit what a title alone does  *)
(* not tell, and routes what the audits confirm.  Reminders are read and     *)
(* acknowledged meanwhile.                                                  *)
(*                                                                          *)
(* An event is identified by its family and the date of its documents, so   *)
(* an event is a pair <<family, day>>.  Path research that an event asks for *)
(* is followed in PathResearch; here it ends with its row in the ledger.    *)
(***************************************************************************)
EXTENDS Integers, FiniteSets, Sequences, SequencesExt

CONSTANTS
    Docs,       \* announcements of the bond that are relevant
    KindOf,     \* KindOf[d]: what the title is classified as
    DayOf,      \* DayOf[d]: its date, the day on which it is listed
    MaxDay,     \* bound on days
    Waves,      \* semantic_max_waves
    MaxItems,   \* bound on the events one answer about a document confirms
    Scenes      \* the settings a behaviour may have, see Scene

Paths  == {"MATURITY_CASH", "PUT", "DOWNWARD_REVISION"}
Scopes == Paths \cup {"CREDIT_RISK"}

\* What is announced, how material audits find it, the paths whose economic status is
\* KEEP at first, the execution modes and the faults that occur, and a bound on economic
\* moves and answers cut off.
Scene == [docs : SUBSET Docs, mats : SUBSET {"FACT_UPDATE", "MATERIAL_CHANGE"},
          kept : SUBSET Paths,
          modes : SUBSET {"AUTO_API", "INTERACTIVE_CHAT"},
          faults : SUBSET {"source", "raise", "kill", "cut"}, moves : Nat]

ASSUME LedgerConstants ==
    /\ MaxDay \in Nat \ {0} /\ Waves \in Nat \ {0} /\ MaxItems \in Nat \ {0}
    /\ DayOf \in [Docs -> 1..MaxDay]
    /\ Scenes \subseteq Scene

VARIABLES
    scene,      \* the setting; it does not change
    today,      \* the day it is
    listed,     \* announcements the source lists
    econ, moves,        \* economic status of each path, as the sync left it, and moves
    scan,       \* last_successful_notice_scan_date of the status file
    evidence,   \* evidence_document
    events,     \* event_update: event -> status, versions, materiality, evidence
    marks,      \* event_family: family -> watermarks
    ledger,     \* research_trigger_ledger: key -> status
    tasks,      \* event_semantic_tasks: key -> what the task is about
    impacts,    \* event_scope_impact: <<event, scope>> -> research action
    changes,    \* change_ledger: <<event, scope, type>>
    groups,     \* notification_group: event -> status and linked scopes
    delivery,   \* notification_delivery, IN_APP: event -> status
    ctl,        \* the information controller
    chats,      \* chat tasks of audits: key -> status
    view,       \* the feed a user looks at: event -> scopes
    seen        \* history: scopes a user saw in the reminder of an event

time    == <<scene, today, listed>>
market  == <<econ, moves>>
filed   == <<evidence, events, marks>>
asked   == <<ledger, tasks, impacts>>
told    == <<changes, groups>>
user    == <<delivery, view, seen>>
database == <<filed, asked, told>>
vars == <<time, market, scan, database, ctl, chats, user>>

NoFamily == "NONE"
With(f, k, v) == [x \in DOMAIN f \cup {k} |-> IF x = k THEN v ELSE f[x]]
Over(f, g) == [x \in DOMAIN f \cup DOMAIN g |-> IF x \in DOMAIN g THEN g[x] ELSE f[x]]
Empty == [x \in {} |-> 0]

-----------------------------------------------------------------------------
(* incremental_event_router.py                                              *)

Doc(family, audit) == [family |-> family, audit |-> audit]

\* canonicalize_evidence_document: the family a title names, if it names one,
\* and whether only its content can tell what happened.
Canonical(kind) ==
    CASE kind = "HARD_CREDIT_EVENT"      -> Doc("CREDIT:DEFAULT", FALSE)
      [] kind = "HARD_CREDIT_PROGRESS"   -> Doc("CREDIT:DEFAULT", TRUE)
      [] kind = "NO_REVISION"            -> Doc("REVISION:NO_REVISION_CYCLE", FALSE)
      [] kind = "EXPECTED_TRIGGER"       -> Doc("REVISION:EXPECTED_TRIGGER", FALSE)
      [] kind = "TRIGGER"                -> Doc("REVISION:CONDITION_MET", FALSE)
      [] kind = "REVISION_ACTION"        -> Doc("REVISION:GOVERNANCE_ACTION", FALSE)
      [] kind = "CONVERSION_PRICE_EVENT" -> Doc("REVISION:FINAL_K_CHANGE", FALSE)
      [] kind = "PUT_EXPECTED_TRIGGER"   -> Doc("PUT:EXPECTED_TRIGGER", FALSE)
      [] kind = "PUT_TRIGGER"            -> Doc("PUT:CONDITION_MET", FALSE)
      [] kind = "PUT_RESULT"             -> Doc("PUT:RESULT", FALSE)
      [] kind = "FINANCIAL_REPORT"       -> Doc("FINANCIAL:PERIODIC_REPORT", FALSE)
      [] kind = "RATING_REPORT"          -> Doc("CREDIT:RATING_UPDATE", TRUE)
      [] kind = "FINANCING_SUPPORT"      -> Doc("CREDIT:FINANCING_SUPPORT", TRUE)
      [] kind = "SUPPORT_OR_ASSET"       -> Doc("CREDIT:SUPPORT_OR_ASSET", TRUE)
      [] OTHER                           -> Doc(NoFamily, TRUE)

FamilyOf(d) == Canonical(KindOf[d]).family
NeedsAudit(d) == Canonical(KindOf[d]).audit

Route(scope, impact, act) == [scope |-> scope, impact |-> impact, act |-> act]
Ask(scope)   == Route(scope, "MATERIAL_CHANGE", "FULL_V2_RESEARCH")
Move(scope)  == Route(scope, "STATE_CHANGE", "FULL_V2_RESEARCH")
Check(scope) == Route(scope, "FACT_UPDATE", "SEMANTIC_AUDIT")
Note(scope)  == Route(scope, "FACT_UPDATE", "NONE")

RevisionRoutes(family) ==
    CASE family = "REVISION:NO_REVISION_CYCLE" -> {Ask("DOWNWARD_REVISION"), Check("PUT")}
      [] family = "REVISION:EXPECTED_TRIGGER" ->
            {Route("DOWNWARD_REVISION", "STATE_CHANGE", "NONE")}
      [] family \in {"REVISION:CONDITION_MET", "REVISION:BOARD_PROPOSAL",
                     "REVISION:GOVERNANCE_ACTION"} -> {Ask("DOWNWARD_REVISION")}
      [] family = "REVISION:FINAL_K_CHANGE" -> {Move("DOWNWARD_REVISION"), Move("PUT")}
      [] OTHER -> {}

PutRoutes(family) ==
    CASE family \in {"PUT:WINDOW_ENTERED", "PUT:EXPECTED_TRIGGER"} -> {Move("PUT")}
      [] family = "PUT:CONDITION_MET" -> {Ask("PUT"), Check("DOWNWARD_REVISION")}
      [] family = "PUT:RESULT" -> {Ask("PUT"), Check("MATURITY_CASH")}
      [] OTHER -> {}

CreditRoutes(family, mat) ==
    CASE family = "CREDIT:DEFAULT" ->
            {Ask("MATURITY_CASH"), Ask("PUT"), Check("DOWNWARD_REVISION"),
             Route("CREDIT_RISK", "RISK_CHANGE", "NONE")}
      [] family = "FINANCIAL:PERIODIC_REPORT" ->
            {Ask("MATURITY_CASH"), Ask("PUT"), Check("DOWNWARD_REVISION")}
      [] family = "CREDIT:RATING_UPDATE" ->
            {IF mat = "FACT_UPDATE" THEN Note(s) ELSE Check(s) :
                s \in {"MATURITY_CASH", "PUT", "CREDIT_RISK"}}
      [] family \in {"CREDIT:FINANCING_SUPPORT", "CREDIT:SUPPORT_OR_ASSET"} ->
            {IF mat = "FACT_UPDATE" THEN Note(s) ELSE Check(s) :
                s \in {"MATURITY_CASH", "PUT"}}
      [] OTHER -> {}

\* route_event, for an event that needs no audit any more.
Routes(family, mat) ==
    RevisionRoutes(family) \cup PutRoutes(family) \cup CreditRoutes(family, mat)

-----------------------------------------------------------------------------
(* Keys of the trigger ledger, and what an event asks for.                  *)

EvidenceKey(d) == <<"EVIDENCE", d>>
RouteKey(ev, scope, act) == <<"EVENT", ev, scope, act>>
CandidateKey(ev) == RouteKey(ev, "EVENT_AUDIT", "SEMANTIC_AUDIT")

OfEvent(k) == k[1] = "EVENT"
IsAudit(k) == OfEvent(k) => k[4] = "SEMANTIC_AUDIT"
OfScope(k) == OfEvent(k) /\ k[3] # "EVENT_AUDIT"

\* plan_event_research_actions: the status a route gives its row.
Planned(r) ==
    IF r.act = "NONE" THEN "NO_RESEARCH"
    ELSE IF r.act = "FULL_V2_RESEARCH" /\ r.scope \in Paths /\ econ[r.scope] # "KEEP"
    THEN "SUPPRESSED"
    ELSE "PENDING"

\* INSERT OR IGNORE of the rows of an event's routes.
Insert(rows, keys, Status(_)) ==
    [k \in DOMAIN rows \cup keys |-> IF k \in DOMAIN rows THEN rows[k] ELSE Status(k)]

RouteOf(routes, k) == CHOOSE r \in routes : r.scope = k[3]

KeysOf(ev, routes) == {RouteKey(ev, r.scope, r.act) : r \in routes}

ChangeType(r) == CASE r.impact = "RISK_CHANGE" -> "RISK_CHANGED"
                   [] r.impact = "MATERIAL_CHANGE" -> "MATERIAL_EVENT"
                   [] r.impact = "STATE_CHANGE" -> "PATH_STATE_CHANGED"
                   [] OTHER -> "FACT_UPDATED"

RoutedChanges(ev, routes) == {<<ev, r.scope, ChangeType(r)>> : r \in routes}
DeepChange(ev, scope) == <<ev, scope, "DEEP_RESEARCH_TRIGGERED">>

\* Faulty: research on a dropped path counts as opened.
OpensAnyway(ev, routes) ==
    {r.scope : r \in {x \in routes : /\ x.act = "FULL_V2_RESEARCH"
                                     /\ RouteKey(ev, x.scope, x.act) \notin DOMAIN ledger}}

\* The scopes for which routing an event opens path research.
Opens(ev, routes) ==
    {r.scope : r \in {x \in routes : /\ x.act = "FULL_V2_RESEARCH"
                                     /\ Planned(x) = "PENDING"
                                     /\ RouteKey(ev, x.scope, x.act) \notin DOMAIN ledger}}

\* Only opened research reaches the user: of the changes of an event,
\* notification_level lets no other one through.  The group of an event is created
\* PENDING, or exists and keeps its status.
Linked(opened) ==
    [ev \in DOMAIN groups \cup {e \in DOMAIN opened : opened[e] # {}} |->
        LET new == IF ev \in DOMAIN opened THEN opened[ev] ELSE {}
        IN  IF ev \in DOMAIN groups THEN [groups[ev] EXCEPT !.scopes = @ \cup new]
            ELSE [status |-> "PENDING", scopes |-> new]]

Changes(routed, opened) ==
    UNION {RoutedChanges(ev, routed[ev]) : ev \in DOMAIN routed}
    \cup UNION {{DeepChange(ev, s) : s \in opened[ev]} : ev \in DOMAIN opened}

\* event_scope_impact: what each scope was told to do about an event.
ActOf(routes) == [s \in {r.scope : r \in routes} |->
                    (CHOOSE r \in routes : r.scope = s).act]

-----------------------------------------------------------------------------
(* event_update and the watermarks of a family.                             *)

Update(status, ver, cand, mat, docs) ==
    [status |-> status, ver |-> ver, cand |-> cand, mat |-> mat, docs |-> docs]

OfFamily(es, family, status) ==
    {ev \in DOMAIN es : ev[1] = family /\ es[ev].status = status}

Highest(vs) == IF vs = {} THEN 0 ELSE CHOOSE v \in vs : \A w \in vs : w <= v

\* The scan numbers a confirmed event after every event of the family, an audit
\* after the confirmed ones.
NextVersion(evs) == Highest({events[ev].ver : ev \in evs}) + 1
Family(f) == {ev \in DOMAIN events : ev[1] = f}
NextCandidate(f) == Highest({events[ev].cand : ev \in Family(f)}) + 1

InOrder(number) == SetToSortSeq(DOMAIN number, LAMBDA a, b : number[a] < number[b])

\* _refresh_family_watermarks, _recompute_family_watermarks
Watermarks(es, family) ==
    [confirmed  |-> InOrder([ev \in OfFamily(es, family, "CONFIRMED") |-> es[ev].ver]),
     candidates |-> InOrder([ev \in OfFamily(es, family, "CANDIDATE") |-> es[ev].cand])]

Refreshed(es, families) ==
    [f \in DOMAIN marks \cup families |->
        IF f \in families THEN Watermarks(es, f) ELSE marks[f]]

-----------------------------------------------------------------------------
Idle == [pc |-> "idle", day |-> 0, target |-> 0, last |-> 0, docs |-> {},
         mode |-> "AUTO_API", wave |-> 0, todo |-> {}, key |-> <<>>, failed |-> FALSE]

Init ==
    /\ scene \in Scenes
    /\ today = 1 /\ listed = {}
    /\ econ = [p \in Paths |-> IF p \in scene.kept THEN "KEEP" ELSE "DROP"] /\ moves = 0
    /\ scan = 1
    /\ evidence = {} /\ events = Empty /\ marks = Empty
    /\ ledger = Empty /\ tasks = Empty /\ impacts = Empty
    /\ changes = {} /\ groups = Empty
    /\ delivery = Empty
    /\ ctl = Idle
    /\ chats = Empty
    /\ view = Empty /\ seen = Empty

-----------------------------------------------------------------------------
(* The world: an announcement of a date is listed on that day at the latest, *)
(* as the exchange dates what comes in the evening with the next day.       *)

Tick ==
    /\ today < MaxDay
    /\ today' = today + 1
    /\ listed' = listed \cup {d \in scene.docs : DayOf[d] = today}
    /\ UNCHANGED <<scene, market, scan, database, ctl, chats, user>>

List(d) ==
    /\ d \notin listed /\ DayOf[d] \in {today, today + 1}
    /\ listed' = listed \cup {d}
    /\ UNCHANGED <<scene, today, market, scan, database, ctl, chats, user>>

EconMoves(p) ==
    /\ moves < scene.moves
    /\ econ' = [econ EXCEPT ![p] = IF @ = "KEEP" THEN "DROP" ELSE "KEEP"]
    /\ moves' = moves + 1
    /\ UNCHANGED <<time, scan, database, ctl, chats, user>>

-----------------------------------------------------------------------------
(* run_notice_checkpoint, run_information_lane                              *)

Raise == ctl' = Idle

\* Faulty: the last successful day is not scanned again.
FirstDayAfter(last) == last + 1

\* The latest successful day is scanned again, for what was listed late.
FirstDay(last) == last

ControllerStart(target, mode) ==
    /\ ctl.pc = "idle"
    /\ IF target < FirstDay(scan) THEN UNCHANGED ctl    \* SKIPPED: the run raises
       ELSE ctl' = [Idle EXCEPT !.pc = "fetch", !.day = FirstDay(scan),
                                !.target = target, !.last = scan, !.mode = mode]
    /\ UNCHANGED <<time, market, scan, database, chats, user>>

\* scan_daily_relevant_notices
ScanFetch ==
    /\ ctl.pc = "fetch"
    /\ ctl' = [ctl EXCEPT !.pc = "persist",
                          !.docs = {d \in listed : DayOf[d] = ctl.day}]
    /\ UNCHANGED <<time, market, scan, database, chats, user>>

ScanFails ==
    /\ ctl.pc = "fetch" /\ "source" \in scene.faults
    /\ ctl' = [ctl EXCEPT !.pc = "checkpoint", !.failed = TRUE]
    /\ UNCHANGED <<time, market, scan, database, chats, user>>

\* The update a family has on a day: confirmed unless one of its documents needs
\* an audit.  Documents without a family wait for an audit of their own.
Updates(docs) == {FamilyOf(d) : d \in docs} \ {NoFamily}
Certain(docs, f) == \A d \in docs : FamilyOf(d) = f => ~NeedsAudit(d)
EvidenceOf(docs, f) == {d \in docs : FamilyOf(d) = f}
Nameless(docs) == {d \in docs : FamilyOf(d) = NoFamily}

\* persist_information_scan: one transaction.  A document that comes late for an
\* event already filed is linked to it and nothing else.
ScanPersist ==
    /\ ctl.pc = "persist"
    /\ LET id(f)  == <<f, ctl.day>>
           fams   == Updates(ctl.docs)
           new    == {f \in fams : id(f) \notin DOMAIN events}
           sure   == {f \in new : Certain(ctl.docs, f)}
           maybe  == new \ sure
           routed == [ev \in {id(f) : f \in sure} |-> Routes(ev[1], "NONE")]
           opened == [ev \in DOMAIN routed |-> Opens(ev, routed[ev])]
           row(f) == IF f \in sure
                     THEN Update("CONFIRMED", NextVersion(Family(f)), 0, "ROUTABLE",
                                 EvidenceOf(ctl.docs, f))
                     ELSE Update("CANDIDATE", 0, NextCandidate(f), "UNKNOWN",
                                 EvidenceOf(ctl.docs, f))
           keys   == {EvidenceKey(d) : d \in Nameless(ctl.docs)}
                     \cup {CandidateKey(id(f)) : f \in maybe}
                     \cup UNION {{RouteKey(ev, r.scope, r.act) :
                                    r \in {x \in routed[ev] : Planned(x) = "PENDING"}} :
                                 ev \in DOMAIN routed}
       IN  /\ evidence' = evidence \cup ctl.docs
           /\ events' = [ev \in DOMAIN events \cup {id(f) : f \in new} |->
                           IF ev \notin DOMAIN events THEN row(ev[1])
                           ELSE IF ev[2] = ctl.day
                           THEN [events[ev] EXCEPT !.docs =
                                    @ \cup EvidenceOf(ctl.docs, ev[1])]
                           ELSE events[ev]]
           /\ marks' = Refreshed(events', fams)
           /\ ledger' = Insert(ledger, keys, LAMBDA k : "PENDING")
           /\ impacts' = [ev \in DOMAIN impacts \cup DOMAIN routed |->
                            IF ev \in DOMAIN impacts THEN impacts[ev]
                            ELSE ActOf(routed[ev])]
           /\ changes' = changes \cup Changes(routed, opened)
           /\ groups' = Linked(opened)
    /\ UNCHANGED tasks
    /\ ctl' = [ctl EXCEPT !.docs = {}, !.last = ctl.day,
                          !.day = IF @ < ctl.target THEN @ + 1 ELSE @,
                          !.pc = IF ctl.day < ctl.target THEN "fetch" ELSE "checkpoint"]
    /\ UNCHANGED <<time, market, scan, chats, user>>

ScanRaises ==
    /\ ctl.pc = "persist" /\ "raise" \in scene.faults
    /\ ctl' = [ctl EXCEPT !.pc = "checkpoint", !.docs = {}, !.failed = TRUE]
    /\ UNCHANGED <<time, market, scan, database, chats, user>>

\* The days that were scanned count even if a later one failed; then the run ends.
CheckpointWrite ==
    /\ ctl.pc = "checkpoint"
    /\ scan' = ctl.last
    /\ IF ctl.failed THEN Raise ELSE ctl' = [ctl EXCEPT !.pc = "wave", !.wave = 1]
    /\ UNCHANGED <<time, market, database, chats, user>>

-----------------------------------------------------------------------------
(* build_event_semantic_audit_tasks and the waves of the controller.        *)

\* Faulty: only the documents and candidates, not the scopes of an event.
PendingCandidates == {k \in DOMAIN ledger : IsAudit(k) /\ ~OfScope(k) /\ ledger[k] = "PENDING"}

\* Faulty: only the documents and scopes, not the candidates.
PendingWithTarget ==
    {k \in DOMAIN ledger : /\ IsAudit(k) /\ ledger[k] = "PENDING"
                           /\ OfEvent(k) => OfScope(k)}

PendingAudits == {k \in DOMAIN ledger : IsAudit(k) /\ ledger[k] = "PENDING"}

SetStatus(keys, status) == [k \in DOMAIN ledger |-> IF k \in keys THEN status ELSE ledger[k]]

\* What a task is about is settled when it is built, by the state its event then
\* has: an audit of a scope of an event that is still a candidate is an audit of
\* the candidate.
Subject(k) == IF ~OfEvent(k) THEN "DOCUMENT_ONLY"
              ELSE IF events[k[2]].status = "CANDIDATE" THEN "SEMANTIC_CANDIDATE"
              ELSE "SCOPE_IMPACT"

\* The build raises on an audit of an event that is decided and has no scope.
Buildable == \A k \in PendingAudits : Subject(k) = "SCOPE_IMPACT" => OfScope(k)

WaveBuild ==
    /\ ctl.pc = "wave"
    /\ IF PendingAudits = {} \/ ctl.wave > Waves
       THEN ctl' = [ctl EXCEPT !.pc = "bridge"] /\ UNCHANGED <<ledger, tasks>>
       ELSE IF ~Buildable THEN Raise /\ UNCHANGED <<ledger, tasks>>
       ELSE /\ ledger' = SetStatus(PendingAudits, "READY_FOR_AI_AUDIT")
            /\ tasks' = Over(tasks, [k \in PendingAudits |-> Subject(k)])
            /\ ctl' = [ctl EXCEPT !.pc = "task", !.todo = PendingAudits]
    /\ UNCHANGED <<time, market, scan, filed, impacts, told, chats, user>>

\* run_one_event_semantic_audit: the job.
JobStart(k) ==
    /\ ctl.pc = "task" /\ ctl.mode = "AUTO_API" /\ k \in ctl.todo
    /\ ledger' = SetStatus({k}, "IN_PROGRESS")
    /\ ctl' = [ctl EXCEPT !.pc = "job", !.key = k, !.todo = @ \ {k}]
    /\ UNCHANGED <<time, market, scan, filed, tasks, impacts, told, chats, user>>

\* No answer passes: the other tasks of the wave still run.
JobFails ==
    /\ ctl.pc = "job"
    /\ ledger' = SetStatus({ctl.key}, "NEEDS_REVIEW")
    /\ ctl' = [ctl EXCEPT !.pc = "task", !.key = <<>>, !.failed = TRUE]
    /\ UNCHANGED <<time, market, scan, filed, tasks, impacts, told, chats, user>>

JobRaises ==
    /\ ctl.pc = "job" /\ "raise" \in scene.faults
    /\ ledger' = SetStatus({ctl.key}, "FAIL")
    /\ Raise
    /\ UNCHANGED <<time, market, scan, filed, tasks, impacts, told, chats, user>>

\* Faulty: what a wave opened is left for the next run.
WaveEndsAll ==
    /\ ctl.pc = "task" /\ ctl.todo = {}
    /\ ctl' = [ctl EXCEPT !.pc = "bridge"]
    /\ UNCHANGED <<time, market, scan, database, chats, user>>

WaveEnds ==
    /\ ctl.pc = "task" /\ ctl.todo = {}
    /\ ctl' = IF ctl.failed \/ ctl.mode = "INTERACTIVE_CHAT"
              THEN [ctl EXCEPT !.pc = "bridge"]
              ELSE [ctl EXCEPT !.pc = "wave", !.wave = @ + 1]
    /\ UNCHANGED <<time, market, scan, database, chats, user>>

\* create_event_semantic_chat_task: the task, then its row.
ChatCreate(k) ==
    /\ ctl.pc = "task" /\ ctl.mode = "INTERACTIVE_CHAT" /\ k \in ctl.todo
    /\ chats' = IF k \in DOMAIN chats /\ chats[k] = "WAITING_FOR_CHAT" THEN chats
                ELSE With(chats, k, "WAITING_FOR_CHAT")
    /\ ctl' = [ctl EXCEPT !.todo = @ \ {k},
                          !.pc = IF k \in DOMAIN chats /\ chats[k] = "WAITING_FOR_CHAT"
                                 THEN "task" ELSE "mark",
                          !.key = k]
    /\ UNCHANGED <<time, market, scan, database, user>>

ChatMark ==
    /\ ctl.pc = "mark"
    /\ ledger' = SetStatus({ctl.key}, "WAITING_FOR_CHAT")
    /\ ctl' = [ctl EXCEPT !.pc = "task", !.key = <<>>]
    /\ UNCHANGED <<time, market, scan, filed, tasks, impacts, told, chats, user>>

\* The research stages follow (PathResearch); the run is over.
BridgeEnds ==
    /\ ctl.pc = "bridge"
    /\ ctl' = Idle
    /\ UNCHANGED <<time, market, scan, database, chats, user>>

ControllerKilled ==
    /\ "kill" \in scene.faults /\ ctl.pc # "idle"
    /\ ctl' = Idle
    /\ UNCHANGED <<time, market, scan, database, chats, user>>

-----------------------------------------------------------------------------
(* apply_event_semantic_audit_result: one transaction, whatever the status   *)
(* of the row it answers.                                                   *)

Closes(k, status) == ledger' = SetStatus({k}, status) /\ UNCHANGED tasks

ApplyNeedsEvidence(k) ==
    /\ Closes(k, "NEEDS_EVIDENCE")
    /\ UNCHANGED <<filed, impacts, told>>

\* Faulty: the watermarks of the family are not computed again.
ApplyNoChangeOnly(k) ==
    /\ tasks[k] # "SCOPE_IMPACT"
    /\ Closes(k, "COMPLETED_NO_MATERIAL_CHANGE")
    /\ IF OfEvent(k)
       THEN events' = [events EXCEPT ![k[2]].status = "REJECTED",
                                     ![k[2]].mat = "NO_MATERIAL_CHANGE"]
       ELSE UNCHANGED events
    /\ UNCHANGED <<evidence, marks, impacts, told>>

\* An answer about a candidate, by way of one of its scopes too, rejects the event
\* whatever an answer before said of it.
ApplyNoChange(k) ==
    /\ tasks[k] # "SCOPE_IMPACT"
    /\ Closes(k, "COMPLETED_NO_MATERIAL_CHANGE")
    /\ IF OfEvent(k)
       THEN /\ events' = [events EXCEPT ![k[2]].status = "REJECTED",
                                        ![k[2]].mat = "NO_MATERIAL_CHANGE"]
            /\ marks' = Refreshed(events', {k[2][1]})
       ELSE UNCHANGED <<events, marks>>
    /\ UNCHANGED <<evidence, impacts, told>>

\* The items of an answer are filed in the order they are listed in.
Orders(evs) == {pos \in [evs -> 1..MaxItems] : \A a, b \in evs : a # b => pos[a] # pos[b]}

\* The number of an event among the confirmed ones of its family, after the new ones
\* of the same answer that come before it.
NumberOf(ev, pos) ==
    NextVersion(OfFamily(events, ev[1], "CONFIRMED"))
    + Cardinality({e \in DOMAIN pos \ DOMAIN events : e[1] = ev[1] /\ pos[e] < pos[ev]})

\* A candidate is confirmed under its own id and takes the next number, again if it
\* had one.  A document without a family may confirm events of any family up to its
\* date; an event that exists, in whatever state, only gets it as evidence.
ConfirmedRow(k, ev, mat, pos) ==
    IF OfEvent(k)
    THEN [events[ev] EXCEPT !.status = "CONFIRMED", !.cand = 0, !.mat = mat,
                            !.ver = NextVersion(OfFamily(events, ev[1], "CONFIRMED"))]
    ELSE IF ev \in DOMAIN events THEN [events[ev] EXCEPT !.docs = @ \cup {k[2]}]
    ELSE Update("CONFIRMED", NumberOf(ev, pos), 0, mat, {k[2]})

\* The events an answer may confirm: the candidate, or some up to the document's date.
MayConfirm(k, evs) ==
    /\ tasks[k] # "SCOPE_IMPACT"
    /\ IF OfEvent(k) THEN evs = {k[2]}
       ELSE evs # {} /\ \A ev \in evs : ev[2] <= DayOf[k[2]]

\* _route_confirmed_event routes by the materiality the row then has.
ApplyConfirmed(k, mat, pos) ==
    LET row    == [ev \in DOMAIN mat |-> ConfirmedRow(k, ev, mat[ev], pos)]
        routes == [ev \in DOMAIN mat |-> Routes(ev[1], row[ev].mat)]
        keys   == UNION {KeysOf(ev, routes[ev]) : ev \in DOMAIN mat}
        rows   == Insert(ledger, keys, LAMBDA x : Planned(RouteOf(routes[x[2]], x)))
        opened == [ev \in DOMAIN mat |-> Opens(ev, routes[ev])]
    IN  /\ MayConfirm(k, DOMAIN mat)
        /\ events' = Over(events, row)
        /\ marks' = Refreshed(events', {ev[1] : ev \in DOMAIN mat})
        /\ ledger' = [rows EXCEPT ![k] = "COMPLETED_CONFIRMED"]
        /\ impacts' = Over(impacts, [ev \in DOMAIN mat |-> ActOf(routes[ev])])
        /\ changes' = changes \cup Changes(routes, opened)
        /\ groups' = Linked(opened)
        /\ UNCHANGED <<evidence, tasks>>

\* _apply_scope_impact_result
ApplyScopeNone(k) ==
    /\ tasks[k] = "SCOPE_IMPACT"
    /\ Closes(k, "COMPLETED_SCOPE_NO_RESEARCH")
    /\ impacts' = [impacts EXCEPT ![k[2]][k[3]] = "NONE"]
    /\ UNCHANGED <<filed, told>>

ApplyScopeFull(k) ==
    /\ tasks[k] = "SCOPE_IMPACT" /\ k[3] \in Paths
    /\ LET ev     == k[2]
           full   == RouteKey(ev, k[3], "FULL_V2_RESEARCH")
           kept   == econ[k[3]] = "KEEP"
           rows   == Insert(ledger, {full}, LAMBDA x :
                            IF kept THEN "PENDING" ELSE "SUPPRESSED_ECONOMIC_DROP")
           opened == [e \in {ev} |-> IF kept THEN {k[3]} ELSE {}]
       IN  /\ ledger' = [rows EXCEPT ![k] = "COMPLETED_SCOPE_FULL_V2"]
           /\ impacts' = [impacts EXCEPT ![ev][k[3]] = "FULL_V2_RESEARCH"]
           /\ changes' = changes \cup Changes(Empty, opened)
           /\ groups' = Linked(opened)
    /\ UNCHANGED <<filed, tasks>>

\* The families of what is announced stand for those an answer may name.
Families == {FamilyOf(d) : d \in scene.docs} \ {NoFamily}

Apply(k) ==
    \/ ApplyNeedsEvidence(k) \/ ApplyNoChange(k)
    \/ ApplyScopeNone(k) \/ ApplyScopeFull(k)
    \/ \E evs \in SUBSET (Families \X (1..MaxDay)) :
        /\ Cardinality(evs) <= MaxItems
        /\ \E mat \in [evs -> scene.mats], pos \in Orders(evs) :
            ApplyConfirmed(k, mat, pos)

JobPasses ==
    /\ ctl.pc = "job"
    /\ Apply(ctl.key)
    /\ ctl' = [ctl EXCEPT !.pc = "task", !.key = <<>>]
    /\ UNCHANGED <<time, market, scan, chats, user>>

\* submit_resolution: the answer is applied, then the chat task is closed.
ChatSubmit(k) ==
    /\ k \in DOMAIN chats /\ chats[k] = "WAITING_FOR_CHAT"
    /\ Apply(k)
    /\ chats' = [chats EXCEPT ![k] = "APPLIED"]
    /\ UNCHANGED <<time, market, scan, ctl, user>>

ChatCloses(k) ==
    /\ k \in DOMAIN chats /\ chats[k] = "APPLIED"
    /\ chats' = [chats EXCEPT ![k] = "PASS"]
    /\ UNCHANGED <<time, market, scan, database, ctl, user>>

\* Killed in between, the task is still open and will be answered again.
ChatKilled(k) ==
    /\ "cut" \in scene.faults /\ moves < scene.moves
    /\ k \in DOMAIN chats /\ chats[k] = "APPLIED"
    /\ chats' = [chats EXCEPT ![k] = "WAITING_FOR_CHAT"]
    /\ moves' = moves + 1
    /\ UNCHANGED <<time, econ, scan, database, ctl, user>>

-----------------------------------------------------------------------------
(* build_notification_feed, acknowledge_notification                        *)

Delivered ==
    [ev \in DOMAIN delivery \cup {g \in DOMAIN groups : groups[g].status = "PENDING"} |->
        IF ev \in DOMAIN delivery THEN delivery[ev] ELSE "PENDING"]

LowAttention == {"REVISION:EXPECTED_TRIGGER", "PUT:EXPECTED_TRIGGER"}

Feed ==
    /\ delivery' = Delivered
    /\ view' = [ev \in {g \in DOMAIN groups : /\ groups[g].status = "PENDING"
                                              /\ g[1] \notin LowAttention} |->
                   groups[ev].scopes]
    /\ UNCHANGED <<time, market, scan, database, ctl, chats, seen>>

Acknowledge(ev) ==
    /\ ev \in DOMAIN view
    /\ delivery' = [Delivered EXCEPT ![ev] = "SENT"]
    /\ groups' = [groups EXCEPT ![ev].status = "SENT"]
    /\ seen' = With(seen, ev, view[ev])
    /\ view' = Empty
    /\ UNCHANGED <<time, market, scan, filed, asked, changes, ctl, chats>>

-----------------------------------------------------------------------------
Targets == 1..today

ControllerStep ==
    \/ ScanFetch \/ ScanFails \/ ScanPersist \/ ScanRaises \/ CheckpointWrite
    \/ WaveBuild \/ JobFails \/ JobRaises \/ JobPasses \/ WaveEnds \/ ChatMark
    \/ BridgeEnds
    \/ \E k \in DOMAIN ledger : JobStart(k) \/ ChatCreate(k)

ChatStep == \E k \in DOMAIN chats : ChatSubmit(k) \/ ChatCloses(k) \/ ChatKilled(k)

Next ==
    \/ Tick
    \/ \E d \in scene.docs : List(d)
    \/ \E p \in Paths : EconMoves(p)
    \/ \E target \in Targets, mode \in scene.modes : ControllerStart(target, mode)
    \/ ControllerStep \/ ControllerKilled \/ ChatStep
    \/ Feed \/ \E ev \in DOMAIN view : Acknowledge(ev)

Spec == Init /\ [][Next]_vars

\* The nightly timer starts the controller for the day; its steps and jobs end.
Fairness == /\ WF_vars(ControllerStep)
            /\ WF_vars(ControllerStart(today, "AUTO_API"))
FairSpec == Spec /\ Fairness

-----------------------------------------------------------------------------
Settled == {"COMPLETED_CONFIRMED", "COMPLETED_NO_MATERIAL_CHANGE",
            "COMPLETED_SCOPE_NO_RESEARCH", "COMPLETED_SCOPE_FULL_V2",
            "NEEDS_EVIDENCE", "NEEDS_REVIEW", "FAIL"}

-----------------------------------------------------------------------------
(* Safety.                                                                  *)

\* No document of a day the checkpoint has passed is missing, however late it
\* was listed on its day and wherever a run was cut off
\* (incremental_notice_checkpoint.py:50-52).
NoDocumentMissed == \A d \in scene.docs : DayOf[d] < scan => d \in evidence

\* The watermark a result is checked against names the confirmed updates and the
\* open candidates of a family, in order (incremental_semantic_audit.py:547-586).
MarksAreCurrent == \A f \in DOMAIN marks : marks[f] = Watermarks(events, f)

\* The build of a wave never meets an audit of an event that was decided meanwhile and
\* has no scope, which would end the run: while a document, a scope or a dialogue decides
\* an event, the audit of the event itself has been built
\* (incremental_semantic_audit.py:245-252).
AuditsCanBeBuilt ==
    \A k \in DOMAIN ledger :
        OfEvent(k) /\ IsAudit(k) /\ ~OfScope(k) /\ ledger[k] = "PENDING" =>
            events[k[2]].status = "CANDIDATE"

\* The user is told of a path exactly when an event opened its research
\* (incremental_event_ledger.py:371-388, incremental_semantic_audit.py:667-687).  An
\* answer that is applied again, after the path came back to KEEP, tells the user of
\* research the first time suppressed.
ToldIsAsked ==
    "cut" \notin scene.faults => \A ev \in DOMAIN events, p \in Paths :
        LET k == RouteKey(ev, p, "FULL_V2_RESEARCH")
        IN  (k \in DOMAIN ledger /\ ledger[k] = "PENDING")
              <=> (ev \in DOMAIN groups /\ p \in groups[ev].scopes)

\* A run that reaches its research stages without a failure has left no audit
\* behind: what its audits asked for was audited as well
\* (incremental_information_controller.py:182-258).  What a dialogue answers
\* meanwhile may ask for more.
NoAuditLeft ==
    ctl.pc = "bridge" /\ ctl.mode = "AUTO_API" /\ ~ctl.failed /\ chats = Empty =>
        PendingAudits = {}

-----------------------------------------------------------------------------
(* Liveness.                                                                *)

AllSettled == \A k \in DOMAIN ledger : IsAudit(k) => ledger[k] \in Settled

\* Where sources answer, jobs end and nobody is asked, every audit that is asked for is
\* settled at last (incremental_information_controller.py:205-258).
AuditsAreSettled ==
    scene.faults = {} /\ scene.modes = {"AUTO_API"} => <>[]AllSettled
-----------------------------------------------------------------------------
(* What the repository's texts say and the code does not do.                *)

\* incremental_change_notification.py:298-300: a reminder that was acknowledged
\* told the user of everything that is linked to it.
SentWasSeen ==
    \A ev \in DOMAIN groups :
        groups[ev].status = "SENT" => groups[ev].scopes \subseteq seen[ev]

\* incremental_event_router.py:383: an event that is not confirmed is not routed.
RoutedAreConfirmed ==
    \A ev \in DOMAIN impacts : events[ev].status = "CONFIRMED"

\* incremental_semantic_audit.py:459: the audit of a scope does not confirm its event
\* again.
ScopesDoNotReconfirm ==
    [][\A k \in DOMAIN ledger : OfScope(k) /\ ledger'[k] # ledger[k] =>
          events'[k[2]].ver = events[k[2]].ver]_ledger

\* What an audit resolved for a scope stays resolved.
ResolvedStays ==
    \A k \in DOMAIN ledger : ledger[k] = "COMPLETED_SCOPE_NO_RESEARCH" =>
        impacts[k[2]][k[3]] = "NONE"
=============================================================================
