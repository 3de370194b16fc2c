------------------------------- MODULE LofMonitor ------------------------------
(***************************************************************************)
(* The LOF monitor: one long-lived loop that collects a snapshot of all     *)
(* listed open-ended funds, keeps it, and notes what changed in their       *)
(* subscription for the reminder of the day; beside it the snapshot command *)
(* and the reminder command, which run as processes of their own.           *)
(*                                                                          *)
(* Time is counted in cycles of the loop, DayLength of them to a day.  The  *)
(* data of a fund is abstracted to its subscription status and limit, the   *)
(* date of its official value and how fresh its quote is.                   *)
(***************************************************************************)
EXTENDS Integers, FiniteSets, Sequences, SequencesExt

CONSTANTS
    Funds,          \* the funds of the universe
    DayLength,      \* cycles in a day
    Window,         \* the cycles of a day that fall into market hours
    MaxTime,        \* bound on time
    SessionEvery, NavEvery, StateEvery,     \* refresh intervals, in cycles
    Limits,         \* daily subscription limits that occur
    MaxMoves,       \* bound on changes a fund company makes
    NoValue,        \* absent
    Faults          \* of {"build", "nav", "state", "raise", "kill", "tear", "job"}

ASSUME LofConstants ==
    /\ DayLength \in Nat \ {0} /\ MaxTime \in Nat /\ Window \subseteq 0..(DayLength - 1)
    /\ {SessionEvery, NavEvery, StateEvery} \subseteq Nat
    /\ NoValue \notin Limits \cup {"OPEN", "SUSPENDED"}

VARIABLES
    now,            \* cycles since the beginning
    world,          \* fund -> what its company lets investors do
    moves,          \* changes the companies made
    loop,           \* the loop: pc and memory
    command,        \* a snapshot command under way
    snapshots, latest,  \* snapshot files: the archive, the last one
    checkpoint,     \* checkpoint.json of the reminder: fund -> last reliable state
    log,            \* events/<date>.jsonl: date -> lines
    candidate,      \* candidates/<date>.json: date -> time of the snapshot
    daily,          \* daily/<date>.json: date -> number of lines and time of the snapshot
    cut             \* history: an observation ended between its events and its checkpoint

files == <<snapshots, latest>>
reminder == <<checkpoint, log, candidate, daily>>
lofVars == <<now, world, moves, loop, command, files, reminder, cut>>

Day(t) == t \div DayLength
LogDays == 0..Day(MaxTime)
\* Market hours decide how long the loop sleeps, and when quotes are fresh.
InWindow(t) == t % DayLength \in Window

\* What a source says of a fund; UNKNOWN where it could not be read.
States == [status : {"OPEN", "SUSPENDED"}, limit : Limits]
Unread == [status |-> "UNKNOWN", limit |-> NoValue]

-----------------------------------------------------------------------------
(* The rows of a snapshot.                                                  *)

\* How old an official value is, in trading days: the dates of the two days before come
\* from the session.
LagLabel(date, session, today) ==
    CASE date = NoValue      -> NoValue
      [] date = today        -> "T-0"
      [] date = session - 1  -> "T-1"
      [] date = session - 2  -> "T-2"
      [] date # NoValue /\ date < session - 2 -> "T-2+"
      [] OTHER               -> NoValue

\* A suspended fund has no limit.
RowState(s) == IF s.status = "SUSPENDED" THEN [s EXCEPT !.limit = NoValue] ELSE s

\* build_market_snapshot: one row for every fund of the universe, whatever the lanes gave.
Snapshot(t, by, session, nav, states, at, quote) ==
    [time |-> t, by |-> by, session |-> session,
     label |-> LagLabel(nav, session, Day(t)), nav |-> nav,
     rows |-> [f \in Funds |-> RowState(states[f])], at |-> at, quote |-> quote]

\* The archive keeps a file for each snapshot id: the second of a cycle, or a fresh one.
FileOf(snap) == <<snap.time, snap.by>>

\* The official value of a day is out on the evening of that day.
OfficialDay(t) == IF \E w \in Window : t % DayLength <= w THEN Day(t) - 1 ELSE Day(t)
NavReadings(t) == {OfficialDay(t)} \cup IF "nav" \notin Faults THEN {} ELSE {NoValue}

\* fetch_all_trade_states: a fund that could not be read is UNKNOWN.
StateReadings ==
    {r \in [Funds -> States \cup {Unread}] :
        \A f \in Funds : r[f] = world[f] \/ ("state" \in Faults /\ r[f] = Unread)}

-----------------------------------------------------------------------------
Down == [pc |-> "down", session |-> 0, nav |-> NoValue, states |-> [f \in Funds |-> Unread],
         at |-> 0, sessionAt |-> 0, navAt |-> 0, stateAt |-> 0, snap |-> NoValue, todo |-> {},
         lines |-> <<>>]

LofInit ==
    /\ now = 0
    /\ world = [f \in Funds |-> [status |-> "OPEN", limit |-> CHOOSE l \in Limits : TRUE]]
    /\ moves = 0
    /\ loop = Down /\ command = NoValue
    /\ snapshots = {} /\ latest = NoValue
    /\ checkpoint = [f \in Funds |-> [status |-> NoValue, limit |-> NoValue]]
    /\ log = [d \in LogDays |-> <<>>]
    /\ candidate = [d \in LogDays |-> NoValue] /\ daily = [d \in LogDays |-> NoValue]
    /\ cut = FALSE

\* A fund company opens, suspends or limits subscription.  What it does shows only
\* where a source is read, so it is done right before.
Company(f) ==
    /\ moves < MaxMoves /\ loop.pc \in {"down", "refresh"}
    /\ \E s \in States : s # world[f] /\ world' = [world EXCEPT ![f] = s]
    /\ moves' = moves + 1
    /\ UNCHANGED <<now, loop, command, files, reminder, cut>>

-----------------------------------------------------------------------------
(* run_runtime_loop                                                         *)

\* The first session must be built; a failure ends the process.
StartLoop ==
    /\ loop.pc = "down"
    /\ \E nav \in NavReadings(now), states \in StateReadings :
        loop' = [Down EXCEPT !.pc = "refresh", !.session = Day(now), !.nav = nav,
                             !.states = states, !.at = now, !.sessionAt = now,
                             !.navAt = now, !.stateAt = now]
    /\ UNCHANGED <<now, world, moves, command, files, reminder, cut>>

Due(since, every) == now - since >= every

\* Faulty: only the caches are replaced.
RefreshCaches ==
    /\ loop.pc = "refresh" /\ Due(loop.sessionAt, SessionEvery)
    /\ \E nav \in NavReadings(now), states \in StateReadings :
        loop' = [loop EXCEPT !.pc = "collect", !.nav = nav, !.states = states, !.at = now,
                             !.sessionAt = now, !.navAt = now, !.stateAt = now]
    /\ UNCHANGED <<now, world, moves, command, files, reminder, cut>>

\* Session, values and states are replaced together; the other caches then are fresh.
RefreshSession ==
    /\ loop.pc = "refresh" /\ Due(loop.sessionAt, SessionEvery)
    /\ \E nav \in NavReadings(now), states \in StateReadings :
        loop' = [loop EXCEPT !.pc = "collect", !.session = Day(now), !.nav = nav,
                             !.states = states, !.at = now, !.sessionAt = now,
                             !.navAt = now, !.stateAt = now]
    /\ UNCHANGED <<now, world, moves, command, files, reminder, cut>>

\* A lane that is read again replaces its cache even where nothing could be read.
RefreshLanes ==
    /\ loop.pc = "refresh"
    /\ Due(loop.sessionAt, SessionEvery) => "build" \in Faults
    /\ \E nav \in NavReadings(now), states \in StateReadings :
        loop' = [loop EXCEPT
                    !.pc = "collect",
                    !.nav = IF Due(loop.navAt, NavEvery) THEN nav ELSE @,
                    !.navAt = IF Due(@, NavEvery) THEN now ELSE @,
                    !.states = IF Due(loop.stateAt, StateEvery) THEN states ELSE @,
                    !.at = IF Due(loop.stateAt, StateEvery) THEN now ELSE @,
                    !.stateAt = IF Due(@, StateEvery) THEN now ELSE @]
    /\ UNCHANGED <<now, world, moves, command, files, reminder, cut>>

\* session.collect with the cached values and states; quotes are read anew.
CollectSnapshot ==
    /\ loop.pc = "collect"
    /\ \E quote \in IF InWindow(now) THEN {"FRESH", "STALE"} ELSE {"STALE"} :
        loop' = [loop EXCEPT !.pc = "archive",
                    !.snap = Snapshot(now, "loop", loop.session, loop.nav, loop.states,
                                      loop.at, quote)]
    /\ UNCHANGED <<now, world, moves, command, files, reminder, cut>>

\* A snapshot that cannot be collected or kept, or does not validate, is given up until
\* the next cycle.
SnapshotFails ==
    /\ "raise" \in Faults /\ loop.pc \in {"collect", "archive", "latest"}
    /\ loop' = [loop EXCEPT !.pc = "sleep", !.snap = NoValue]
    /\ UNCHANGED <<now, world, moves, command, files, reminder, cut>>

\* persist: the archive copy, then the latest snapshot.
Persist ==
    /\ loop.pc \in {"archive", "latest"}
    /\ IF loop.pc = "archive"
       THEN snapshots' = snapshots \cup {FileOf(loop.snap)} /\ UNCHANGED latest
       ELSE latest' = loop.snap /\ UNCHANGED snapshots
    /\ loop' = [loop EXCEPT !.pc = IF @ = "archive" THEN "latest" ELSE "observe"]
    /\ UNCHANGED <<now, world, moves, command, reminder, cut>>

-----------------------------------------------------------------------------
(* observe_snapshot                                                         *)

Event(kind, f, old, new, at) == [kind |-> kind, fund |-> f, old |-> old, new |-> new, at |-> at]
Reliable(status) == status \in {"OPEN", "SUSPENDED"}

StatusEvents(f, old, row, at) ==
    IF Reliable(row.status) /\ Reliable(old.status) /\ old.status # row.status
    THEN <<Event("A", f, old.status, row.status, at)>> ELSE <<>>

\* A suspension shows no limit: the last one a source gave is kept for comparison.
LimitKnown(row) == row.status # "SUSPENDED" /\ row.limit # NoValue
LimitEvents(f, old, row, at) ==
    IF LimitKnown(row) /\ old.limit # NoValue /\ old.limit # row.limit
    THEN <<Event("B", f, old.limit, row.limit, at)>> ELSE <<>>

EventsOf(f, snap) ==
    StatusEvents(f, checkpoint[f], snap.rows[f], snap.at)
    \o LimitEvents(f, checkpoint[f], snap.rows[f], snap.at)

\* Faulty: what a source could not tell is noted as well.
NotedAnyway(old, row) == row

\* Faulty: the first limit is kept.
NotedOnce(old, row) ==
    [status |-> IF Reliable(row.status) THEN row.status ELSE old.status,
     limit |-> IF LimitKnown(row) /\ old.limit = NoValue THEN row.limit ELSE old.limit]

Noted(old, row) ==
    [status |-> IF Reliable(row.status) THEN row.status ELSE old.status,
     limit |-> IF LimitKnown(row) THEN row.limit ELSE old.limit]

\* The lines of a file.  A line cut off by a kill has no end: the next one is glued to it.
Torn == [kind |-> "TORN"]
Glued == [kind |-> "GLUED"]
Line(lines, e) ==
    IF lines # <<>> /\ Last(lines) = Torn THEN [lines EXCEPT ![Len(lines)] = Glued]
    ELSE Append(lines, e)
Known(lines) == ToSet(lines) \ {Torn, Glued}

ObserveStart ==
    /\ loop.pc = "observe"
    /\ loop' = [loop EXCEPT !.pc = "append", !.todo = Funds]
    /\ UNCHANGED <<now, world, moves, command, files, reminder, cut>>

\* The rows of the snapshot, one after the other.
NextRow ==
    /\ loop.pc = "append" /\ loop.lines = <<>>
    /\ \E f \in loop.todo :
        loop' = [loop EXCEPT !.todo = @ \ {f}, !.lines = EventsOf(f, loop.snap)]
    /\ UNCHANGED <<now, world, moves, command, files, reminder, cut>>

Today == Day(loop.snap.time)

\* An event whose id the file has already is not written again.
AppendEvent ==
    /\ loop.pc = "append" /\ loop.lines # <<>>
    /\ log' = IF Head(loop.lines) \in Known(log[Today]) THEN log
              ELSE [log EXCEPT ![Today] = Line(@, Head(loop.lines))]
    /\ loop' = [loop EXCEPT !.lines = Tail(@)]
    /\ UNCHANGED <<now, world, moves, command, files, checkpoint, candidate, daily, cut>>

\* Faulty: the checkpoint is written before the events.
CheckpointFirst ==
    /\ loop.pc = "append"
    /\ checkpoint' = [f \in Funds |-> Noted(checkpoint[f], loop.snap.rows[f])]
    /\ loop' = [loop EXCEPT !.pc = IF loop.todo = {} /\ loop.lines = <<>> THEN "candidate"
                                   ELSE "append"]
    /\ UNCHANGED <<now, world, moves, command, files, log, candidate, daily, cut>>

CheckpointPersist ==
    /\ loop.pc = "append" /\ loop.todo = {} /\ loop.lines = <<>>
    /\ checkpoint' = [f \in Funds |-> Noted(checkpoint[f], loop.snap.rows[f])]
    /\ loop' = [loop EXCEPT !.pc = "candidate"]
    /\ UNCHANGED <<now, world, moves, command, files, log, candidate, daily, cut>>

\* _persist_candidate: the last snapshot of the day with a fresh quote.
CandidatePersist ==
    /\ loop.pc = "candidate"
    /\ candidate' = IF loop.snap.quote = "FRESH" THEN [candidate EXCEPT ![Today] = loop.snap.time]
                    ELSE candidate
    /\ loop' = [loop EXCEPT !.pc = "sleep", !.snap = NoValue]
    /\ UNCHANGED <<now, world, moves, command, files, checkpoint, log, daily, cut>>

\* The observation raises where a file cannot be read or written; its lines so far stay,
\* the checkpoint is as before, and the loop goes on.
ObserveRaises ==
    /\ "raise" \in Faults /\ loop.pc \in {"observe", "append", "candidate"}
    /\ cut' = (cut \/ loop.pc = "append")
    /\ loop' = [loop EXCEPT !.pc = "sleep", !.snap = NoValue, !.todo = {}, !.lines = <<>>]
    /\ UNCHANGED <<now, world, moves, command, files, reminder>>

Sleep ==
    /\ loop.pc = "sleep" /\ now < MaxTime
    /\ now' = now + 1
    /\ loop' = [loop EXCEPT !.pc = "refresh"]
    /\ UNCHANGED <<world, moves, command, files, reminder, cut>>

\* SIGTERM is looked at between two cycles; the process comes back in the next.
Stop ==
    /\ loop.pc = "sleep" /\ now < MaxTime
    /\ loop' = Down /\ now' = now + 1
    /\ UNCHANGED <<world, moves, command, files, reminder, cut>>

LoopKilled ==
    /\ "kill" \in Faults /\ loop.pc # "down" /\ now < MaxTime
    /\ cut' = (cut \/ loop.pc = "append")
    /\ loop' = Down /\ now' = now + 1
    /\ UNCHANGED <<world, moves, command, files, reminder>>

\* Killed within a write, it leaves a line without an end.
KilledWriting ==
    /\ "tear" \in Faults /\ loop.pc = "append" /\ loop.lines # <<>> /\ now < MaxTime
    /\ log' = [log EXCEPT ![Today] = Line(@, Torn)]
    /\ cut' = TRUE
    /\ loop' = Down /\ now' = now + 1
    /\ UNCHANGED <<world, moves, command, files, checkpoint, candidate, daily>>
-----------------------------------------------------------------------------
(* The snapshot command, run by hand: a session and two files of its own.   *)

JobCollect ==
    /\ "job" \in Faults /\ command = NoValue
    /\ \E nav \in NavReadings(now), states \in StateReadings :
        command' = [pc |-> "archive",
                snap |-> Snapshot(now, "job", Day(now), nav, states, now, "STALE")]
    /\ UNCHANGED <<now, world, moves, loop, files, reminder, cut>>

JobPersist ==
    /\ command # NoValue
    /\ IF command.pc = "archive"
       THEN snapshots' = snapshots \cup {FileOf(command.snap)} /\ UNCHANGED latest
       ELSE latest' = command.snap /\ UNCHANGED snapshots
    /\ command' = IF command.pc = "archive" THEN [command EXCEPT !.pc = "latest"] ELSE NoValue
    /\ UNCHANGED <<now, world, moves, loop, reminder, cut>>

\* build_daily_reminder, by default for the present day: it needs a candidate, and a
\* torn line raises.
BuildDaily(d) ==
    /\ candidate[d] # NoValue /\ ToSet(log[d]) \cap {Torn, Glued} = {}
    /\ daily' = [daily EXCEPT ![d] = [lines |-> Len(log[d]), time |-> candidate[d]]]
    /\ UNCHANGED <<now, world, moves, loop, command, files, checkpoint, log, candidate, cut>>

-----------------------------------------------------------------------------
LoopStep ==
    \/ RefreshSession \/ RefreshLanes \/ CollectSnapshot \/ SnapshotFails \/ Persist
    \/ ObserveStart \/ NextRow \/ AppendEvent \/ CheckpointPersist \/ CandidatePersist
    \/ ObserveRaises \/ Sleep

LofNext ==
    \/ \E f \in Funds : Company(f)
    \/ StartLoop \/ LoopStep \/ Stop \/ LoopKilled \/ KilledWriting
    \/ JobCollect \/ JobPersist
    \/ BuildDaily(Day(now))

LofSpec == LofInit /\ [][LofNext]_lofVars

-----------------------------------------------------------------------------
\* Line i of day d is about a change of a fund, and one place in the files is before
\* another.
About(f, kind, d, i) == i \in DOMAIN log[d] /\ log[d][i].kind = kind /\ log[d][i].fund = f
Before(d, i, e, j) == d < e \/ (d = e /\ i < j)

\* Each change of a fund starts from where the change before it ended, across days,
\* suspensions and sources that could not be read (daily_reminder.py:238-322).  A kill or
\* an exception between the events and the checkpoint breaks this: the change is seen
\* again.
EventsChain ==
    ~cut => \A f \in Funds, kind \in {"A", "B"}, d, e \in LogDays :
        \A i \in DOMAIN log[d], j \in DOMAIN log[e] :
            /\ About(f, kind, d, i) /\ About(f, kind, e, j) /\ Before(d, i, e, j)
            /\ ~\E c \in LogDays : \E k \in DOMAIN log[c] :
                  About(f, kind, c, k) /\ Before(d, i, c, k) /\ Before(c, k, e, j)
            => log[d][i].new = log[e][j].old

\* No change is noted in the checkpoint before its line is in the file of the day,
\* so a kill or an exception repeats a change but never loses one, unless it tore a line
\* to which the next is glued (daily_reminder.py:169-196, 319-321).
ToldBeforeNoted ==
    [][Glued \notin ToSet(log'[Day(now)]) => \A f \in Funds :
        LET old == checkpoint[f]  new == checkpoint'[f]
        IN  /\ old.status # NoValue /\ new.status # old.status =>
                  \E e \in Known(log'[Day(now)]) :
                      e.kind = "A" /\ e.fund = f /\ e.old = old.status /\ e.new = new.status
            /\ old.limit # NoValue /\ new.limit # old.limit =>
                  \E e \in Known(log'[Day(now)]) :
                      e.kind = "B" /\ e.fund = f /\ e.old = old.limit /\ e.new = new.limit]_checkpoint

\* In market hours a value is labelled by its age in trading days: the session was
\* refreshed since midnight, though it is built an hour apart (snapshot.py:28-51).
LabelIsTrue ==
    latest # NoValue /\ InWindow(latest.time) =>
        latest.label = LagLabel(latest.nav, Day(latest.time), Day(latest.time))

-----------------------------------------------------------------------------
(* What the repository's texts say and the code does not do.                *)

\* daily_reminder.py:123: the ledger of changes is durable; a kill while a line is
\* written costs no change.
NoChangeLost ==
    (\A d \in LogDays : Torn \notin ToSet(log[d])) =>
        \A f \in Funds, d \in LogDays : \A i \in DOMAIN log[d] :
            /\ About(f, "A", d, i) /\ checkpoint[f].status # NoValue
            /\ ~\E e \in LogDays : \E j \in DOMAIN log[e] :
                  About(f, "A", e, j) /\ Before(d, i, e, j)
            => log[d][i].new = checkpoint[f].status
=============================================================================
