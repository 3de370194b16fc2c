------------------------------- MODULE EtfPrimary ------------------------------
(***************************************************************************)
(* The ETF primary-market monitor.  A workflow that runs several times on a *)
(* trading morning reads the creation lists both exchanges publish, merges  *)
(* them into one relay snapshot, compares it with the last trading day of   *)
(* the history branch, and publishes the relay branch and then the history  *)
(* branch.                                                                  *)
(*                                                                          *)
(* Jobs of the workflow follow each other (its concurrency group), and each *)
(* works on a checkout of its own, so that a job that ends early leaves     *)
(* nothing but what it pushed.                                              *)
(***************************************************************************)
EXTENDS PcfCapacity, FiniteSets, FiniteSetsExt, Sequences, SequencesExt

CONSTANTS
    Sse, Szse,      \* funds by exchange
    Lists,          \* fund -> lists it may publish, records of PcfCapacity
    MaxDay,         \* bound on trading days
    MaxJobs,        \* bound on runs of the workflow
    MaxCorrections, \* bound on lists published a second time for a day
    MaxMissing,     \* missing Shenzhen lists that still make 97 per cent
    MaxRetries,     \* missing Shenzhen lists the merge tries once more
    None

Etfs == Sse \cup Szse
Days == 1..MaxDay

\* The rows of a snapshot: for some funds, a list and its trade date.
Rows      == [date : Days, list : UNION {Lists[f] : f \in Etfs}]
Snapshots == UNION {[S -> Rows] : S \in SUBSET Etfs}

ASSUME EtfConstants ==
    /\ Sse # {} /\ Etfs \subseteq DOMAIN Lists
    /\ \A f \in Etfs : Lists[f] \subseteq PcfLists
    /\ MaxDay \in Nat \ {0}
    /\ None \notin Snapshots /\ None \notin [date : Days, rows : Snapshots]

VARIABLES
    day,            \* the trading day
    pcf,            \* fund -> day -> its lists of that day, corrections last
    job,            \* the workflow run under way
    jobs,           \* number of runs so far
    relay,          \* branch etf-primary-data-relay
    branch          \* branch etf-primary-runtime-data

vars == <<day, pcf, job, jobs, relay, branch>>

Published(f, d) == pcf[f][d] # <<>>
Row(f, d) == [date |-> d, list |-> Last(pcf[f][d])]

NoJob == [at |-> "idle"]
Empty == [pointer |-> None, archive |-> [d \in Days |-> None],
          events |-> [d \in Days |-> None]]

Init ==
    /\ day = 1
    /\ pcf = [f \in Etfs |-> [d \in Days |-> <<>>]]
    /\ job = NoJob /\ jobs = 0
    /\ relay = None /\ branch = Empty

-----------------------------------------------------------------------------
(* The exchanges.                                                           *)

NextDay ==
    /\ day < MaxDay
    /\ day' = day + 1
    /\ UNCHANGED <<pcf, job, jobs, relay, branch>>

Publish(f, l) ==
    /\ ~Published(f, day)
    /\ pcf' = [pcf EXCEPT ![f][day] = <<l>>]
    /\ UNCHANGED <<day, job, jobs, relay, branch>>

Corrections == {c \in Etfs \X Days : Len(pcf[c[1]][c[2]]) > 1}

Correct(f, l) ==
    /\ Published(f, day) /\ l # Last(pcf[f][day])
    /\ Cardinality(Corrections) < MaxCorrections
    /\ pcf' = [pcf EXCEPT ![f][day] = Append(@, l)]
    /\ UNCHANGED <<day, job, jobs, relay, branch>>

-----------------------------------------------------------------------------
(* The workflow.                                                            *)

\* The Shanghai table as of day d holds the newest list of every fund.
Dates(f, d) == {x \in 1..d : Published(f, x)}
SseTable(d) == [f \in Sse |-> Row(f, Max(Dates(f, d)))]

\* prepare: the table decides the trade date, for which Shenzhen's index is read.  A
\* cache before the exchange may still answer with the table of the day before.
Prepare ==
    /\ job.at = "idle" /\ jobs < MaxJobs
    /\ \E d \in {day, day - 1} \ {0} :
         /\ \A f \in Sse : Dates(f, d) # {}
         /\ LET target == Max({SseTable(d)[f].date : f \in Sse})
                index  == {f \in Szse : Published(f, target)}
            IN  /\ Cardinality(Szse \ index) <= MaxMissing
                /\ job' = [at |-> "shards", target |-> target, index |-> index,
                           rows |-> SseTable(d)]
    /\ jobs' = jobs + 1
    /\ UNCHANGED <<day, pcf, relay, branch>>

With(rows, got, target) ==
    [f \in DOMAIN rows \cup got |-> IF f \in got THEN Row(f, target) ELSE rows[f]]

\* szse_pcf: the shards fetch the lists the index names; some fetches may fail.
Shards ==
    /\ job.at = "shards"
    /\ \E got \in SUBSET job.index :
         job' = [job EXCEPT !.at = "merge", !.rows = With(@, got, job.target)]
    /\ UNCHANGED <<day, pcf, jobs, relay, branch>>

\* merge_relay_snapshot: a few missing lists are fetched once more, too many refuse.
Merge ==
    /\ job.at = "merge"
    /\ LET missing == Szse \ DOMAIN job.rows
       IN  \E got \in SUBSET (missing \cap job.index) :
             /\ Cardinality(missing) > MaxRetries => got = {}
             /\ Cardinality(missing \ got) <= MaxMissing
             /\ job' = [job EXCEPT !.at = "cycle", !.rows = With(@, got, job.target)]
    /\ UNCHANGED <<day, pcf, jobs, relay, branch>>

Fresh(rows, d) == {f \in DOMAIN rows : rows[f].date = d}

\* As if a stale list of the fund were its list of the day.
DiffWithStale(prev, target, rows) ==
    UNION {{<<f, type>> : type \in DetectEvents(prev.rows[f].list, rows[f].list)} :
              f \in Fresh(prev.rows, prev.date) \cap DOMAIN rows}

\* Only lists of the two trade dates themselves are compared.
BuildDailyDiff(prev, target, rows) ==
    UNION {{<<f, type>> : type \in DetectEvents(prev.rows[f].list, rows[f].list)} :
              f \in Fresh(prev.rows, prev.date) \cap Fresh(rows, target)}

SameDate(pointer, target, rows) == pointer # None /\ pointer.date = target
SameFacts(pointer, target, rows) ==
    pointer # None /\ pointer.date = target /\ pointer.rows = rows

\* run_cycle on a checkout of the history: its three files as they are afterwards.
AfterCycle(b, target, rows) ==
    IF SameFacts(b.pointer, target, rows) THEN b
    ELSE [pointer |-> [date |-> target, rows |-> rows],
          archive |-> [b.archive EXCEPT ![target] = rows],
          events  |-> IF b.pointer = None \/ b.pointer.date = target THEN b.events
                      ELSE [b.events EXCEPT ![target] =
                              [prev |-> b.pointer.date,
                               list |-> BuildDailyDiff(b.pointer, target, rows)]]]

\* comparison_view: the newest archived snapshot against the one before it.
Archived(b) == {d \in Days : b.archive[d] # None}
Comparison(b) ==
    LET current  == Max(Archived(b))
        earlier  == Archived(b) \ {current}
        previous == IF earlier = {} THEN None ELSE Max(earlier)
        before   == IF earlier = {} THEN <<>> ELSE b.archive[previous]
        after    == b.archive[current]
    IN  [current |-> current, previous |-> previous,
         facts   |-> [f \in DOMAIN after |-> after[f].list],
         changed |-> {f \in DOMAIN after \cap DOMAIN before : before[f].list # after[f].list}]

Backwards(b, target) == b.pointer # None /\ target < b.pointer.date

Cycle ==
    /\ job.at = "cycle"
    /\ ~Backwards(branch, job.target)
    /\ LET work == AfterCycle(branch, job.target, job.rows)
       IN  job' = [at |-> "publish", target |-> job.target, rows |-> job.rows,
                   work |-> work, cmp |-> Comparison(work)]
    /\ UNCHANGED <<day, pcf, jobs, relay, branch>>

PushRelay ==
    /\ job.at = "publish"
    /\ relay' = [target |-> job.target, rows |-> job.rows, cmp |-> job.cmp]
    /\ job' = [at |-> "push", work |-> job.work]
    /\ UNCHANGED <<day, pcf, jobs, branch>>

PushHistory ==
    /\ job.at = "push"
    /\ branch' = job.work
    /\ job' = NoJob
    /\ UNCHANGED <<day, pcf, jobs, relay>>

\* A step fails: a source does not answer, a check refuses (a trade date that went
\* backwards, too many lists missing), a push is rejected, the runner is lost.
JobFails ==
    /\ job.at # "idle"
    /\ job' = NoJob
    /\ UNCHANGED <<day, pcf, jobs, relay, branch>>

Next ==
    \/ NextDay
    \/ \E f \in Etfs : \E l \in Lists[f] : Publish(f, l) \/ Correct(f, l)
    \/ Prepare \/ Shards \/ Merge \/ Cycle \/ PushRelay \/ PushHistory \/ JobFails

Spec == Init /\ [][Next]_vars

-----------------------------------------------------------------------------
(* Properties.                                                              *)

\* The most whole baskets the limits of a list let through, counted one by one.
Fits(n, l) == /\ l.cum > 0 => n * l.unit <= l.cum
              /\ l.net > 0 => n * l.unit <= l.net
Most(l) == Max({n \in 0..(l.cum + l.net) : Fits(n, l)})
Limited(l) == l.cum > 0 \/ l.net > 0

Meant(type, p, c) ==
    CASE type = "CREATION_RESUMED"    -> ~p.open /\ c.open
      [] type = "CREATION_SUSPENDED"  -> p.open /\ ~c.open
      [] type = "TOTAL_CAPACITY_JUMP" ->
           Limited(p) /\ Limited(c) /\ Most(c) >= Most(p) + 10 /\ Most(c) >= 2 * Most(p)
      [] type = "CREATION_UNIT_REDUCED" -> c.unit < p.unit
      [] OTHER -> p # c

\* An event of a day says what really happened to a fund: the list it published for the
\* trading day before, as that day's snapshot kept it, and a list it published for the
\* day itself differ in what the event says.  Missing and stale lists, lists that came in
\* between, repeated and failed runs never make an event (runtime_cycle.build_daily_diff).
EventsAreReal ==
    \A d \in Days : branch.events[d] # None =>
        LET before == branch.events[d].prev
        IN  /\ before = Max({x \in Archived(branch) : x < d})
            /\ \A e \in branch.events[d].list :
                 LET f == e[1]
                 IN  /\ f \in Fresh(branch.archive[before], before)
                     /\ branch.archive[before][f].list \in Range(pcf[f][before])
                     /\ \E i \in DOMAIN pcf[f][d] :
                          Meant(e[2], branch.archive[before][f].list, pcf[f][d][i])

\* The relay branch is one whole: its comparison is about the very snapshot beside it,
\* also when the run changed nothing, or the run before it lost its history
\* (the order of the steps of the workflow, comparison_view.build_from_state_dir).
ComparisonIsOfRelay ==
    relay # None =>
        /\ relay.cmp.current = relay.target
        /\ relay.cmp.facts = [f \in DOMAIN relay.rows |-> relay.rows[f].list]

-----------------------------------------------------------------------------
(* What the repository's texts say and the code does not do.                *)

\* runtime_history/README.md: events are produced by comparing the snapshots of adjacent
\* trading days.  A fund whose lists of two adjacent snapshots are fresh, were never
\* corrected and differ, has its event.
SnapshotsDiffed ==
    \A d \in Archived(branch) : \A before \in Archived(branch) :
        /\ before < d /\ ~\E x \in Archived(branch) : before < x /\ x < d
        => \A f \in Fresh(branch.archive[before], before) \cap Fresh(branch.archive[d], d) :
             Len(pcf[f][before]) = 1 /\ Len(pcf[f][d]) = 1 =>
               \A type \in DetectEvents(pcf[f][before][1], pcf[f][d][1]) :
                   branch.events[d] # None /\ <<f, type>> \in branch.events[d].list
=============================================================================
