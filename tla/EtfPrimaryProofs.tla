--------------------------- MODULE EtfPrimaryProofs ---------------------------
(***************************************************************************)
(* Theorems about EtfPrimary, for any funds, lists, days, runs and bounds:  *)
(* the comparison on the relay branch is about the snapshot beside it, and  *)
(* an event says what really happened.                                      *)
(*                                                                          *)
(* The comparison is built from the history a run works on, the snapshot    *)
(* is the one the run merged; the two agree because the pointer of the      *)
(* history always names its newest archived day, also on a branch some run  *)
(* never pushed, and a run that would go back in time ends.                 *)
(*                                                                          *)
(* The events of a day hold what the run saw when it first archived the     *)
(* day.  They stay true because lists stay published, and because the day   *)
(* they compare with is archived before them for the last time: the pointer *)
(* has passed it.                                                           *)
(***************************************************************************)
EXTENDS EtfPrimary, NaturalsInduction, WellFoundedInduction, TLAPS

\* A non-empty set of days has a latest one.
LEMMA LatestExists ==
    ASSUME NEW n \in Nat, NEW S, S \subseteq 1..n, S # {}
    PROVE  \E x \in S : \A y \in S : x >= y
<1> DEFINE T == {n - x : x \in S}
<1>1. T \subseteq Nat /\ T # {}
  <2>1. \A x \in S : n - x \in Nat
    OBVIOUS
  <2>2. PICK x \in S : TRUE
    OBVIOUS
  <2>3. n - x \in T
    BY <2>2
  <2> QED
    BY <2>1, <2>3
<1>2. PICK t \in T : \A u \in T : ~(<<u, t>> \in OpToRel(<, Nat))
  BY <1>1, NatLessThanWellFounded, WFMin
<1>3. t \in Nat /\ \A u \in T : u \in Nat /\ ~(u < t)
  BY <1>1, <1>2 DEF OpToRel
<1>4. PICK x \in S : t = n - x
  BY <1>2
<1>5. \A y \in S : ~(n - y < n - x)
  BY <1>3, <1>4
<1> QED
  BY <1>5

LEMMA MaxOfDays ==
    ASSUME NEW n \in Nat, NEW S, S \subseteq 1..n, S # {}
    PROVE  Max(S) \in S /\ \A y \in S : Max(S) >= y
  BY LatestExists DEF Max

-----------------------------------------------------------------------------
(* The invariant.                                                           *)

\* The pointer names the newest archived day, and has its rows.
HistoryOK(b) ==
    /\ b.archive \in [Days -> Snapshots \cup {None}]
    /\ b.pointer = None => \A d \in Days : b.archive[d] = None
    /\ b.pointer # None =>
          /\ b.pointer.date \in Days /\ b.pointer.rows \in Snapshots
          /\ b.archive[b.pointer.date] = b.pointer.rows
          /\ \A d \in Days : d > b.pointer.date => b.archive[d] = None

ListsOK ==
    /\ day \in Days
    /\ pcf \in [Etfs -> [Days -> Seq(UNION {Lists[f] : f \in Etfs})]]

Gathering == [at : {"shards", "merge", "cycle"}, target : Days, index : SUBSET Szse,
              rows : Snapshots]

\* The comparison a run will publish is about the snapshot it will publish.
IsComparison(cmp, target, rows) ==
    cmp.current = target /\ cmp.facts = [f \in DOMAIN rows |-> rows[f].list]

JobOK ==
    /\ job.at \in {"shards", "merge", "cycle"} =>
          job \in Gathering /\ \A f \in job.index : Published(f, job.target)
    /\ job.at = "publish" =>
          HistoryOK(job.work) /\ IsComparison(job.cmp, job.target, job.rows)
    /\ job.at = "push" => HistoryOK(job.work)

IInv == ListsOK /\ JobOK /\ HistoryOK(branch) /\ ComparisonIsOfRelay

-----------------------------------------------------------------------------
LEMMA RowsOfLists ==
    ASSUME ListsOK, NEW f \in Etfs, NEW d \in Days, Published(f, d)
    PROVE  Row(f, d) \in Rows
<1>1. pcf[f][d] \in Seq(UNION {Lists[g] : g \in Etfs}) /\ pcf[f][d] # <<>>
  BY DEF ListsOK, Published
<1>2. Last(pcf[f][d]) \in UNION {Lists[g] : g \in Etfs}
  BY <1>1 DEF Last
<1> QED
  BY <1>2 DEF Row, Rows

LEMMA SnapshotsGrow ==
    ASSUME ListsOK, NEW rows \in Snapshots, NEW target \in Days,
           NEW got, got \subseteq Szse, \A f \in got : Published(f, target)
    PROVE  With(rows, got, target) \in Snapshots
<1>1. PICK S \in SUBSET Etfs : rows \in [S -> Rows]
  BY DEF Snapshots
<1>2. got \subseteq Etfs /\ \A f \in got : Row(f, target) \in Rows
  BY RowsOfLists DEF Etfs
<1>3. With(rows, got, target) \in [S \cup got -> Rows]
  BY <1>1, <1>2 DEF With
<1>4. S \cup got \in SUBSET Etfs
  BY <1>1, <1>2
<1> QED
  BY <1>3, <1>4 DEF Snapshots

\* The trade date a run decides on, and the Shanghai rows it starts from.
LEMMA TableOfDay ==
    ASSUME ListsOK, NEW d \in Days, \A f \in Sse : Dates(f, d) # {}
    PROVE  /\ SseTable(d) \in Snapshots
           /\ Max({SseTable(d)[f].date : f \in Sse}) \in Days
<1> DEFINE latest(f) == Max(Dates(f, d))
<1>1. \A f \in Sse : Dates(f, d) \subseteq 1..d /\ d \in Nat
  BY EtfConstants DEF Dates, Days
<1>2. \A f \in Sse : latest(f) \in Dates(f, d)
  BY <1>1, MaxOfDays
<1>3. \A f \in Sse : latest(f) \in 1..d /\ latest(f) \in Days /\ Published(f, latest(f))
  BY <1>1, <1>2, EtfConstants DEF Dates, Days
<1>4. \A f \in Sse : Row(f, latest(f)) \in Rows /\ Row(f, latest(f)).date = latest(f)
  BY <1>3, RowsOfLists DEF Etfs, Row
<1>5. SseTable(d) \in [Sse -> Rows]
  BY <1>4 DEF SseTable
<1>6. SseTable(d) \in Snapshots
  BY <1>5 DEF Snapshots, Etfs
<1> DEFINE dates == {SseTable(d)[f].date : f \in Sse}
<1>7. \A f \in Sse : SseTable(d)[f].date = latest(f)
  BY <1>4 DEF SseTable
<1>8. dates # {}
  BY EtfConstants
<1>9. dates \subseteq 1..d
  BY <1>3, <1>7
<1>10. Max(dates) \in dates
  BY <1>1, <1>8, <1>9, MaxOfDays, EtfConstants
<1> QED
  BY <1>3, <1>6, <1>7, <1>10

LEMMA CycleKeeps ==
    ASSUME NEW b, HistoryOK(b), NEW target \in Days, NEW rows \in Snapshots,
           ~Backwards(b, target)
    PROVE  LET work == AfterCycle(b, target, rows)
           IN  /\ HistoryOK(work) /\ work.pointer # None
               /\ work.pointer.date = target /\ work.pointer.rows = rows
<1>1. CASE SameFacts(b.pointer, target, rows)
  BY <1>1 DEF SameFacts, AfterCycle
<1>2. CASE ~SameFacts(b.pointer, target, rows)
  <2> DEFINE work == AfterCycle(b, target, rows)
  <2>1. /\ work.pointer = [date |-> target, rows |-> rows]
        /\ work.archive = [b.archive EXCEPT ![target] = rows]
    BY <1>2 DEF AfterCycle
  <2>2. [date |-> target, rows |-> rows] \in [date : Days, rows : Snapshots]
    OBVIOUS
  <2>3. work.pointer # None /\ work.pointer.date = target /\ work.pointer.rows = rows
    BY <2>1, <2>2, EtfConstants
  <2>4. /\ work.archive \in [Days -> Snapshots \cup {None}]
        /\ work.archive[target] = rows
        /\ \A d \in Days : d # target => work.archive[d] = b.archive[d]
    BY <2>1 DEF HistoryOK
  <2>5. \A d \in Days : d > target => b.archive[d] = None
    <3>1. CASE b.pointer = None
      BY <3>1 DEF HistoryOK
    <3>2. CASE b.pointer # None
      <4>1. b.pointer.date \in Days /\ ~(target < b.pointer.date)
        BY <3>2 DEF HistoryOK, Backwards
      <4> QED
        BY <3>2, <4>1, EtfConstants DEF HistoryOK, Days
    <3> QED
      BY <3>1, <3>2
  <2>6. HistoryOK(work)
    BY <2>3, <2>4, <2>5, EtfConstants DEF HistoryOK, Days
  <2> QED
    BY <2>3, <2>6
<1> QED
  BY <1>1, <1>2

LEMMA ComparesTheNewest ==
    ASSUME NEW b, HistoryOK(b), b.pointer # None
    PROVE  IsComparison(Comparison(b), b.pointer.date, b.pointer.rows)
<1>1. /\ Archived(b) \subseteq 1..MaxDay /\ MaxDay \in Nat
      /\ b.pointer.date \in Archived(b)
      /\ \A d \in Archived(b) : ~(d > b.pointer.date)
  BY EtfConstants DEF HistoryOK, Archived, Days
<1>2. Max(Archived(b)) \in Archived(b) /\ Max(Archived(b)) >= b.pointer.date
  BY <1>1, MaxOfDays
<1>3. Max(Archived(b)) = b.pointer.date
  BY <1>1, <1>2
<1> QED
  BY <1>3 DEF Comparison, IsComparison, HistoryOK
-----------------------------------------------------------------------------
LEMMA InvInit == Init => IInv
<1> SUFFICES ASSUME Init PROVE IInv
  OBVIOUS
<1>1. ListsOK
  BY EtfConstants DEF Init, ListsOK, Days
<1>2. HistoryOK(branch)
  BY DEF Init, Empty, HistoryOK
<1> QED
  BY <1>1, <1>2 DEF Init, NoJob, IInv, JobOK, ComparisonIsOfRelay

\* The exchanges: published lists stay published.
LEMMA ListsKeep ==
    ASSUME IInv, UNCHANGED <<job, relay, branch>>,
           NextDay \/ \E f \in Etfs : \E l \in Lists[f] : Publish(f, l) \/ Correct(f, l)
    PROVE  IInv'
<1>1. CASE NextDay
  <2>1. UNCHANGED pcf /\ day' \in Days
    BY <1>1, EtfConstants DEF NextDay, IInv, ListsOK, Days
  <2> QED
    BY <2>1 DEF IInv, ListsOK, JobOK, HistoryOK, ComparisonIsOfRelay, Published, IsComparison
<1>2. CASE \E f \in Etfs : \E l \in Lists[f] : Publish(f, l) \/ Correct(f, l)
  <2>0. PICK f \in Etfs : \E l \in Lists[f] : Publish(f, l) \/ Correct(f, l)
    BY <1>2
  <2>1. PICK l \in Lists[f] : Publish(f, l) \/ Correct(f, l)
    BY <2>0
  <2>2. UNCHANGED day /\ \E s \in Seq(UNION {Lists[g] : g \in Etfs}) :
          s # <<>> /\ pcf' = [pcf EXCEPT ![f][day] = s]
    <3> DEFINE lists == UNION {Lists[g] : g \in Etfs}
    <3>1. l \in lists /\ pcf[f][day] \in Seq(lists)
      BY DEF IInv, ListsOK
    <3>2. CASE Publish(f, l)
      <4>1. <<l>> \in Seq(lists) /\ <<l>> # <<>>
        BY <3>1
      <4> QED
        BY <3>2, <4>1 DEF Publish
    <3>3. CASE Correct(f, l)
      <4>1. Append(pcf[f][day], l) \in Seq(lists) /\ Append(pcf[f][day], l) # <<>>
        <5> HIDE DEF lists
        <5> QED
          BY <3>1
      <4> QED
        BY <3>3, <4>1 DEF Correct
    <3> QED
      BY <2>1, <3>2, <3>3
  <2>3. ListsOK'
    BY <2>2 DEF IInv, ListsOK
  <2>4. \A g \in Etfs, d \in Days : Published(g, d) => Published(g, d)'
    BY <2>2 DEF IInv, ListsOK, Published
  <2>5. JobOK'
    BY <2>4 DEF IInv, JobOK, Gathering, Etfs, HistoryOK, IsComparison
  <2> QED
    BY <2>3, <2>5 DEF IInv, HistoryOK, ComparisonIsOfRelay
<1> QED
  BY <1>1, <1>2

\* A step of the workflow that publishes nothing.
LEMMA OnlyJob ==
    ASSUME IInv, UNCHANGED <<day, pcf, relay, branch>>, JobOK'
    PROVE  IInv'
  BY DEF IInv, ListsOK, HistoryOK, ComparisonIsOfRelay

LEMMA WorkflowKeeps ==
    ASSUME IInv, Prepare \/ Shards \/ Merge \/ Cycle \/ JobFails
    PROVE  IInv'
<1>1. UNCHANGED <<day, pcf, relay, branch>>
  BY DEF Prepare, Shards, Merge, Cycle, JobFails
<1>2. ASSUME NEW got, NEW at, at \in {"merge", "cycle"}, job \in Gathering,
             \A f \in job.index : Published(f, job.target), got \subseteq job.index,
             job' = [job EXCEPT !.at = at, !.rows = With(@, got, job.target)]
      PROVE  JobOK'
  <2>1. /\ job.rows \in Snapshots /\ job.target \in Days /\ got \subseteq Szse
        /\ \A f \in got : Published(f, job.target)
    BY <1>2 DEF Gathering
  <2>2. With(job.rows, got, job.target) \in Snapshots
    BY <2>1, SnapshotsGrow DEF IInv
  <2>3. job' \in Gathering /\ job'.at = at /\ job'.index = job.index /\ job'.target = job.target
    BY <1>2, <2>2 DEF Gathering
  <2> QED
    BY <1>1, <1>2, <2>3 DEF JobOK, Published
<1>3. CASE Prepare
  <2>1. PICK d \in {day, day - 1} \ {0} :
          /\ \A f \in Sse : Dates(f, d) # {}
          /\ LET target == Max({SseTable(d)[f].date : f \in Sse})
                 index  == {f \in Szse : Published(f, target)}
             IN  job' = [at |-> "shards", target |-> target, index |-> index,
                         rows |-> SseTable(d)]
    BY <1>3 DEF Prepare
  <2> DEFINE target == Max({SseTable(d)[f].date : f \in Sse})
             index  == {f \in Szse : Published(f, target)}
  <2>2. d \in Days
    BY EtfConstants DEF IInv, ListsOK, Days
  <2>3. SseTable(d) \in Snapshots /\ target \in Days
    BY <2>1, <2>2, TableOfDay DEF IInv
  <2>4. job' = [at |-> "shards", target |-> target, index |-> index, rows |-> SseTable(d)]
    BY <2>1
  <2>5. job' \in Gathering /\ job'.at = "shards" /\ job'.index = index /\ job'.target = target
    <3> HIDE DEF target
    <3> QED
      BY <2>3, <2>4 DEF Gathering
  <2>6. JobOK'
    <3> HIDE DEF target
    <3> QED
      BY <1>1, <2>5 DEF JobOK, Published
  <2> QED
    BY <1>1, <2>6, OnlyJob
<1>4. CASE Shards
  <2>1. /\ job.at = "shards"
        /\ \E got \in SUBSET job.index :
             job' = [job EXCEPT !.at = "merge", !.rows = With(@, got, job.target)]
    BY <1>4 DEF Shards
  <2>2. JobOK'
    BY <1>2, <2>1 DEF IInv, JobOK
  <2> QED
    BY <1>1, <2>2, OnlyJob
<1>5. CASE Merge
  <2>1. /\ job.at = "merge"
        /\ \E got \in SUBSET job.index :
             job' = [job EXCEPT !.at = "cycle", !.rows = With(@, got, job.target)]
    BY <1>5 DEF Merge
  <2>2. JobOK'
    BY <1>2, <2>1 DEF IInv, JobOK
  <2> QED
    BY <1>1, <2>2, OnlyJob
<1>6. CASE Cycle
  <2> DEFINE work == AfterCycle(branch, job.target, job.rows)
  <2>1. /\ job.at = "cycle" /\ ~Backwards(branch, job.target)
        /\ job' = [at |-> "publish", target |-> job.target, rows |-> job.rows,
                   work |-> work, cmp |-> Comparison(work)]
    BY <1>6 DEF Cycle
  <2>2. job.target \in Days /\ job.rows \in Snapshots
    BY <2>1 DEF IInv, JobOK, Gathering
  <2>3. /\ HistoryOK(work) /\ work.pointer # None
        /\ work.pointer.date = job.target /\ work.pointer.rows = job.rows
    BY <2>1, <2>2, CycleKeeps DEF IInv
  <2>4. IsComparison(Comparison(work), job.target, job.rows)
    <3> HIDE DEF work
    <3> QED
      BY <2>3, ComparesTheNewest
  <2>5. JobOK'
    <3> HIDE DEF work
    <3>1. /\ job'.at = "publish" /\ job'.work = work /\ job'.cmp = Comparison(work)
          /\ job'.target = job.target /\ job'.rows = job.rows
      BY <2>1
    <3>2. HistoryOK(job'.work) /\ IsComparison(job'.cmp, job'.target, job'.rows)
      BY <2>3, <2>4, <3>1
    <3> QED
      BY <3>1, <3>2 DEF JobOK, HistoryOK, IsComparison
  <2> QED
    BY <1>1, <2>5, OnlyJob
<1>7. CASE JobFails
  BY <1>1, <1>7, OnlyJob DEF JobFails, NoJob, JobOK
<1> QED
  BY <1>3, <1>4, <1>5, <1>6, <1>7

LEMMA PushesKeep ==
    ASSUME IInv, PushRelay \/ PushHistory
    PROVE  IInv'
<1>1. CASE PushRelay
  <2>1. /\ job.at = "publish" /\ UNCHANGED <<day, pcf, branch>>
        /\ relay'.target = job.target /\ relay'.rows = job.rows /\ relay'.cmp = job.cmp
        /\ job'.at = "push" /\ job'.work = job.work
    BY <1>1 DEF PushRelay
  <2> QED
    BY <2>1 DEF IInv, ListsOK, JobOK, HistoryOK, ComparisonIsOfRelay, IsComparison
<1>2. CASE PushHistory
  <2>1. /\ job.at = "push" /\ UNCHANGED <<day, pcf, relay>>
        /\ branch' = job.work /\ job' = NoJob
    BY <1>2 DEF PushHistory
  <2> QED
    BY <2>1 DEF NoJob, IInv, ListsOK, JobOK, HistoryOK, ComparisonIsOfRelay
<1> QED
  BY <1>1, <1>2

LEMMA InvNext == IInv /\ [Next]_vars => IInv'
<1> SUFFICES ASSUME IInv, [Next]_vars PROVE IInv'
  OBVIOUS
<1>1. CASE NextDay \/ \E f \in Etfs : \E l \in Lists[f] : Publish(f, l) \/ Correct(f, l)
  BY <1>1, ListsKeep DEF NextDay, Publish, Correct
<1>2. CASE Prepare \/ Shards \/ Merge \/ Cycle \/ JobFails
  BY <1>2, WorkflowKeeps
<1>3. CASE PushRelay \/ PushHistory
  BY <1>3, PushesKeep
<1>4. CASE UNCHANGED vars
  <2>1. UNCHANGED <<day, pcf, job, relay, branch>>
    BY <1>4 DEF vars
  <2> QED
    BY <2>1 DEF IInv, ListsOK, JobOK, HistoryOK, ComparisonIsOfRelay, Published, IsComparison
<1> QED
  BY <1>1, <1>2, <1>3, <1>4 DEF Next

\* The relay branch is one whole, also when a run changed nothing or the run before it
\* lost its history (the order of the workflow's steps, comparison_view.py).
THEOREM RelayIsOneWhole == Spec => []ComparisonIsOfRelay
<1>1. IInv => ComparisonIsOfRelay
  BY DEF IInv
<1> QED
  BY InvInit, InvNext, <1>1, PTL DEF Spec

-----------------------------------------------------------------------------
(* Capacities: the limits divided by the basket are the most that fit.      *)

LEMMA Division ==
    ASSUME NEW a \in Nat, NEW b \in Nat, b > 0
    PROVE  /\ a \div b \in Nat
           /\ \A n \in Nat : n * b <= a <=> n <= a \div b
<1> DEFINE q == a \div b
<1>1. q \in Nat /\ q * b <= a /\ a < q * b + b
  OBVIOUS
<1> HIDE DEF q
<1>2. ASSUME NEW n \in Nat, n <= q PROVE n * b <= a
  <2>1. n * b <= q * b
    BY <1>1, <1>2
  <2>2. n * b \in Nat /\ q * b \in Nat
    BY <1>1
  <2> QED
    BY <1>1, <2>1, <2>2
<1>3. ASSUME NEW n \in Nat, n * b <= a PROVE n <= q
  <2>1. SUFFICES ASSUME n >= q + 1 PROVE FALSE
    BY <1>1
  <2>2. n * b >= (q + 1) * b
    BY <1>1, <2>1
  <2>3. (q + 1) * b = q * b + b
    BY <1>1
  <2>4. n * b \in Nat /\ q * b \in Nat
    BY <1>1
  <2> QED
    BY <1>1, <1>3, <2>2, <2>3, <2>4
<1> QED
  BY <1>1, <1>2, <1>3 DEF q

LEMMA MaxIs ==
    ASSUME NEW S, S \subseteq Nat, NEW m \in S, \A y \in S : m >= y
    PROVE  Max(S) = m
<1>1. Max(S) \in S /\ \A y \in S : Max(S) >= y
  BY DEF Max
<1>2. PICK x : x = Max(S)
  OBVIOUS
<1>3. x \in S /\ x >= m /\ m >= x
  BY <1>1, <1>2
<1>4. x \in Nat /\ m \in Nat
  BY <1>3
<1> QED
  BY <1>2, <1>3, <1>4

LEMMA MostIs ==
    ASSUME NEW l \in PcfLists, Limited(l), l.unit > 0
    PROVE  Most(l) = TotalBaskets(l) /\ Most(l) \in Nat
<1> DEFINE limit == BindingLimit(l.cum, l.net)
           S == {n \in 0..(l.cum + l.net) : Fits(n, l)}
           q == limit \div l.unit
<1>1. l.cum \in Nat /\ l.net \in Nat /\ l.unit \in Nat
  BY DEF PcfLists
<1>2. limit \in Nat /\ limit > 0 /\ limit <= l.cum + l.net
  BY <1>1 DEF BindingLimit, Limited
<1>3. ASSUME NEW n \in Nat PROVE Fits(n, l) <=> n * l.unit <= limit
  <2>1. PICK x \in Nat : x = n * l.unit
    BY <1>1
  <2> QED
    BY <1>1, <2>1 DEF Fits, BindingLimit, Limited
<1>4. q \in Nat /\ \A n \in Nat : n * l.unit <= limit <=> n <= q
  BY <1>1, <1>2, Division
<1>5. q <= limit
  <2>1. q * l.unit <= limit
    BY <1>4
  <2>2. q <= q * l.unit
    BY <1>1, <1>4
  <2> QED
    BY <1>1, <1>2, <1>4, <2>1, <2>2
<1> HIDE DEF limit, q
<1>6. q \in S /\ \A n \in S : q >= n
  BY <1>1, <1>2, <1>3, <1>4, <1>5
<1>7. Most(l) = q
  BY <1>6, MaxIs DEF Most
<1>8. TotalBaskets(l) = q
  BY <1>1, <1>2 DEF TotalBaskets, Baskets, limit, q
<1> QED
  BY <1>4, <1>7, <1>8

\* Each type of event means what it says.
LEMMA DetectedIsMeant ==
    ASSUME NEW p \in PcfLists, NEW c \in PcfLists, NEW type \in DetectEvents(p, c)
    PROVE  Meant(type, p, c)
<1>1. type \in EventTypes /\ Detected(type, p, c)
  BY DEF DetectEvents
<1>2. CASE type \in {"CREATION_RESUMED", "CREATION_SUSPENDED", "CREATION_UNIT_REDUCED"}
  BY <1>1, <1>2 DEF Detected, Meant
<1>3. CASE type = "TOTAL_CAPACITY_JUMP"
  <2>1. CapacityJump(p, c)
    BY <1>1, <1>3 DEF Detected
  <2>2. \A l \in {p, c} : TotalBaskets(l) # Absent => Limited(l) /\ l.unit > 0
    BY DEF PcfLists, TotalBaskets, Baskets, BindingLimit, Limited
  <2>3. \A l \in {p, c} : Limited(l) /\ Most(l) = TotalBaskets(l) /\ Most(l) \in Nat
    BY <2>1, <2>2, MostIs DEF CapacityJump, Both
  <2>4. Most(c) >= Most(p) + 10 /\ Most(c) >= 2 * Most(p)
    BY <2>1, <2>3 DEF CapacityJump
  <2> QED
    BY <1>3, <2>3, <2>4 DEF Meant
<1>4. CASE type \in {"CAPACITY_RULE_CHANGED", "ACCOUNT_CAP_RULE_CHANGED",
                     "ACCOUNT_LIMIT_IMPROVED", "ACCOUNT_DISTRIBUTION_IMPROVED"}
  <2>1. \A l \in {p, c} : AccountBaskets(l) \in Int
    <3>1. ASSUME NEW l \in {p, c} PROVE AccountBaskets(l) \in Int
      <4>1. l.unit \in Nat /\ BindingLimit(l.acum, l.anet) \in Nat
        BY DEF PcfLists, BindingLimit
      <4> QED
        BY <4>1, Division DEF AccountBaskets, Baskets, Absent
    <3> QED
      BY <3>1
  <2>2. TotalBaskets(c) \in Int
    <3>1. c.unit \in Nat /\ BindingLimit(c.cum, c.net) \in Nat
      BY DEF PcfLists, BindingLimit
    <3> QED
      BY <3>1, Division DEF TotalBaskets, Baskets, Absent
  <2>3. MinimumAccounts(c) \in Int
    <3>1. CASE TotalBaskets(c) <= 0 \/ AccountBaskets(c) <= 0
      BY <3>1 DEF MinimumAccounts, Absent
    <3>2. CASE ~(TotalBaskets(c) <= 0 \/ AccountBaskets(c) <= 0)
      <4>1. AccountBaskets(c) \in Nat /\ AccountBaskets(c) > 0
            /\ TotalBaskets(c) + AccountBaskets(c) - 1 \in Nat
        BY <2>1, <2>2, <3>2
      <4> QED
        BY <3>2, <4>1, Division DEF MinimumAccounts
    <3> QED
      BY <3>1, <3>2
  <2>4. \/ MarketKind(p) # MarketKind(c) \/ AccountKind(p) # AccountKind(c)
        \/ AccountBaskets(c) < AccountBaskets(p)
        \/ MinimumAccounts(c) > MinimumAccounts(p)
    <3>1. CASE type = "CAPACITY_RULE_CHANGED"
      BY <1>1, <3>1 DEF Detected
    <3>2. CASE type = "ACCOUNT_CAP_RULE_CHANGED"
      BY <1>1, <3>2 DEF Detected
    <3>3. CASE type = "ACCOUNT_LIMIT_IMPROVED"
      BY <1>1, <3>3 DEF Detected, AccountTightened
    <3>4. CASE type = "ACCOUNT_DISTRIBUTION_IMPROVED"
      BY <1>1, <3>4 DEF Detected, MoreAccounts
    <3> QED
      BY <1>4, <3>1, <3>2, <3>3, <3>4
  <2>5. p # c
    BY <2>1, <2>3, <2>4
  <2> QED
    BY <1>4, <2>5 DEF Meant
<1> QED
  BY <1>1, <1>2, <1>3, <1>4 DEF EventTypes

-----------------------------------------------------------------------------
(* Events.                                                                  *)

\* Every row is a list its fund published for the date of the row; p are the lists.
RowsReal(p, rows) ==
    \A f \in DOMAIN rows : /\ f \in Etfs /\ rows[f].date \in Days
                           /\ rows[f].list \in Range(p[f][rows[f].date])

\* An event of day d, from the rows of day before.
EventReal(p, e, rows, before, d) ==
    LET f == e[1]
    IN  /\ f \in Fresh(rows, before)
        /\ f \in Etfs /\ rows[f].list \in Range(p[f][before])
        /\ \E i \in DOMAIN p[f][d] : Meant(e[2], rows[f].list, p[f][d][i])

\* The day a day's events compare with is archived, and neither that day nor one in
\* between is archived again.
EventsOK(p, b) ==
    /\ DOMAIN b.events = Days
    /\ b.pointer # None => RowsReal(p, b.pointer.rows)
    /\ \A d \in Days : b.events[d] # None =>
          LET before == b.events[d].prev
          IN  /\ b.pointer # None /\ d <= b.pointer.date
              /\ before \in Days /\ before < d
              /\ before = Max({x \in Archived(b) : x < d})
              /\ \A e \in b.events[d].list : EventReal(p, e, b.archive[before], before, d)

RunReal ==
    /\ job.at \in {"shards", "merge", "cycle"} => RowsReal(pcf, job.rows)
    /\ job.at \in {"publish", "push"} => EventsOK(pcf, job.work)

\* What is published stays published.
Grow(p, q) == \A f \in Etfs, d \in Days :
    \A i \in DOMAIN p[f][d] : i \in DOMAIN q[f][d] /\ q[f][d][i] = p[f][d][i]

LEMMA RangeGrows ==
    ASSUME NEW p, NEW q, Grow(p, q), NEW f \in Etfs, NEW d \in Days
    PROVE  Range(p[f][d]) \subseteq Range(q[f][d])
  BY DEF Grow, Range

LEMMA RowsStayReal ==
    ASSUME NEW p, NEW q, Grow(p, q), NEW rows, RowsReal(p, rows)
    PROVE  RowsReal(q, rows)
  BY RangeGrows DEF RowsReal

LEMMA EventsStayOK ==
    ASSUME NEW p, NEW q, Grow(p, q), NEW b, EventsOK(p, b)
    PROVE  EventsOK(q, b)
<1>1. b.pointer # None => RowsReal(q, b.pointer.rows)
  BY RowsStayReal DEF EventsOK
<1>2. ASSUME NEW d \in Days, NEW before \in Days, NEW rows, NEW e, EventReal(p, e, rows, before, d)
      PROVE  EventReal(q, e, rows, before, d)
  <2>1. PICK f : f = e[1]
    OBVIOUS
  <2>2. /\ f \in Fresh(rows, before) /\ f \in Etfs /\ rows[f].list \in Range(p[f][before])
        /\ \E i \in DOMAIN p[f][d] : Meant(e[2], rows[f].list, p[f][d][i])
    BY <1>2, <2>1 DEF EventReal
  <2>3. PICK i \in DOMAIN p[f][d] : Meant(e[2], rows[f].list, p[f][d][i])
    BY <2>2
  <2>4. i \in DOMAIN q[f][d] /\ q[f][d][i] = p[f][d][i]
    BY <2>2 DEF Grow
  <2>5. rows[f].list \in Range(q[f][before])
    BY <2>2, RangeGrows
  <2> QED
    BY <2>1, <2>2, <2>3, <2>4, <2>5 DEF EventReal
<1> QED
  BY <1>1, <1>2 DEF EventsOK

LEMMA LastIsPublished ==
    ASSUME ListsOK, NEW f \in Etfs, NEW d \in Days, Published(f, d)
    PROVE  /\ Row(f, d).date = d /\ Row(f, d).list \in Range(pcf[f][d])
<1>1. pcf[f][d] \in Seq(UNION {Lists[g] : g \in Etfs}) /\ pcf[f][d] # <<>>
  BY DEF ListsOK, Published
<1>2. Len(pcf[f][d]) \in DOMAIN pcf[f][d]
  BY <1>1
<1> QED
  BY <1>2 DEF Row, Last, Range

LEMMA WithIsReal ==
    ASSUME ListsOK, NEW rows, RowsReal(pcf, rows), NEW target \in Days,
           NEW got, got \subseteq Szse, \A f \in got : Published(f, target)
    PROVE  RowsReal(pcf, With(rows, got, target))
<1>1. \A f \in got : /\ f \in Etfs /\ Row(f, target).date = target
                     /\ Row(f, target).list \in Range(pcf[f][target])
  BY LastIsPublished DEF Etfs
<1> QED
  BY <1>1 DEF RowsReal, With

LEMMA TableIsReal ==
    ASSUME ListsOK, NEW d \in Days, \A f \in Sse : Dates(f, d) # {}
    PROVE  RowsReal(pcf, SseTable(d))
<1>1. \A f \in Sse : Dates(f, d) \subseteq 1..d /\ d \in Nat
  BY EtfConstants DEF Dates, Days
<1>2. \A f \in Sse : Max(Dates(f, d)) \in Dates(f, d)
  BY <1>1, MaxOfDays
<1>3. ASSUME NEW f \in Sse PROVE Max(Dates(f, d)) \in Days /\ Published(f, Max(Dates(f, d)))
  BY <1>2, EtfConstants DEF Dates, Days
<1>4. ASSUME NEW f \in Sse
      PROVE  /\ f \in Etfs /\ SseTable(d)[f].date \in Days
             /\ SseTable(d)[f].list \in Range(pcf[f][SseTable(d)[f].date])
  <2>1. PICK x : x = Max(Dates(f, d))
    OBVIOUS
  <2>2. SseTable(d)[f] = Row(f, x) /\ f \in Etfs
    BY <2>1 DEF SseTable, Etfs
  <2>3. x \in Days /\ Row(f, x).date = x /\ Row(f, x).list \in Range(pcf[f][x])
    BY <1>3, <2>1, <2>2, LastIsPublished
  <2> QED
    BY <2>2, <2>3
<1>5. DOMAIN SseTable(d) = Sse
  BY DEF SseTable
<1> QED
  BY <1>4, <1>5 DEF RowsReal

LEMMA ListsAreLists ==
    ASSUME ListsOK, NEW f \in Etfs, NEW d \in Days, NEW l \in Range(pcf[f][d])
    PROVE  /\ l \in PcfLists
           /\ \E i \in DOMAIN pcf[f][d] : pcf[f][d][i] = l
<1>1. pcf[f][d] \in Seq(UNION {Lists[g] : g \in Etfs})
  BY DEF ListsOK
<1>2. PICK i \in DOMAIN pcf[f][d] : pcf[f][d][i] = l
  BY DEF Range
<1>3. l \in UNION {Lists[g] : g \in Etfs}
  BY <1>1, <1>2
<1> QED
  BY <1>2, <1>3, EtfConstants

\* What a run adds to the history it works on.
LEMMA CycleIsReal ==
    ASSUME ListsOK, NEW b, HistoryOK(b), EventsOK(pcf, b), NEW target \in Days,
           NEW rows \in Snapshots, RowsReal(pcf, rows), ~Backwards(b, target)
    PROVE  EventsOK(pcf, AfterCycle(b, target, rows))
<1>1. CASE SameFacts(b.pointer, target, rows)
  BY <1>1 DEF AfterCycle
<1>2. CASE ~SameFacts(b.pointer, target, rows)
  <2> DEFINE work == AfterCycle(b, target, rows)
             compared == b.pointer # None /\ b.pointer.date # target
             diff == [prev |-> b.pointer.date, list |-> BuildDailyDiff(b.pointer, target, rows)]
  <2>1. /\ work.pointer = [date |-> target, rows |-> rows]
        /\ work.archive = [b.archive EXCEPT ![target] = rows]
        /\ work.events = IF compared THEN [b.events EXCEPT ![target] = diff] ELSE b.events
    BY <1>2 DEF AfterCycle
  <2>2. work.pointer # None /\ work.pointer.date = target /\ work.pointer.rows = rows
    BY <2>1, <1>2, CycleKeeps
  <2>3. DOMAIN b.archive = Days /\ rows # None
    BY EtfConstants DEF HistoryOK
  <2>4. Archived(work) = Archived(b) \cup {target}
    <3> HIDE DEF work
    <3> QED
      BY <2>1, <2>3 DEF Archived
  <2>5. /\ DOMAIN b.events = Days /\ DOMAIN work.events = Days
        /\ \A d \in Days \ {target} : work.events[d] = b.events[d]
        /\ ~compared => work.events = b.events
        /\ compared => work.events[target] = diff
    <3> HIDE DEF work, diff, compared
    <3> QED
      BY <2>1 DEF EventsOK
  <2>6. b.pointer # None => /\ b.pointer.date \in Days /\ b.pointer.date <= target
                            /\ b.pointer.date \in Archived(b)
                            /\ b.archive[b.pointer.date] = b.pointer.rows
                            /\ \A x \in Archived(b) : x <= b.pointer.date
    BY EtfConstants DEF HistoryOK, Backwards, Archived, Days
  <2> HIDE DEF work, compared
  \* Events that were there already.
  <2>7. ASSUME NEW d \in Days, work.events[d] = b.events[d], b.events[d] # None
        PROVE  LET before == work.events[d].prev
               IN  /\ d <= target /\ before \in Days /\ before < d
                   /\ before = Max({x \in Archived(work) : x < d})
                   /\ \A e \in work.events[d].list :
                        EventReal(pcf, e, work.archive[before], before, d)
    <3>1. PICK before : before = b.events[d].prev
      OBVIOUS
    <3>2. /\ b.pointer # None /\ d <= b.pointer.date /\ before \in Days /\ before < d
          /\ before = Max({x \in Archived(b) : x < d})
          /\ \A e \in b.events[d].list : EventReal(pcf, e, b.archive[before], before, d)
      BY <2>7, <3>1 DEF EventsOK
    <3>3. d \in Int /\ target \in Int /\ b.pointer.date \in Int /\ before \in Int
      BY <2>6, <3>2, EtfConstants DEF Days
    <3>4. d <= target /\ before < target
      BY <2>6, <3>2, <3>3
    <3>5. {x \in Archived(work) : x < d} = {x \in Archived(b) : x < d}
      BY <2>4, <3>3, <3>4
    <3>6. work.archive[before] = b.archive[before]
      BY <2>1, <2>3, <3>2, <3>3, <3>4
    <3> QED
      BY <2>7, <3>1, <3>2, <3>4, <3>5, <3>6
  \* Those of the day, compared with the last archived one.
  <2>8. ASSUME compared
        PROVE  LET before == work.events[target].prev
               IN  /\ before \in Days /\ before < target
                   /\ before = Max({x \in Archived(work) : x < target})
                   /\ \A e \in work.events[target].list :
                        EventReal(pcf, e, work.archive[before], before, target)
    <3>1. PICK before : before = b.pointer.date
      OBVIOUS
    <3>2. /\ b.pointer # None /\ before # target
          /\ work.events[target].prev = before
          /\ work.events[target].list = BuildDailyDiff(b.pointer, target, rows)
      BY <2>5, <2>8, <3>1 DEF compared
    <3>3. /\ before \in Days /\ before \in Archived(b) /\ b.archive[before] = b.pointer.rows
          /\ before \in Int /\ target \in Int /\ before < target
          /\ \A x \in Archived(b) : x <= before
      BY <2>6, <3>1, <3>2, EtfConstants DEF Days
    <3>4. Archived(b) \subseteq Nat
      BY EtfConstants DEF Archived, Days
    <3>5. {x \in Archived(work) : x < target} = Archived(b)
      BY <2>4, <3>3, <3>4
    <3>6. Max(Archived(b)) = before
      BY <3>3, <3>4, MaxIs
    <3>7. work.archive[before] = b.pointer.rows
      BY <2>1, <2>3, <3>3
    <3>8. ASSUME NEW e \in BuildDailyDiff(b.pointer, target, rows)
          PROVE  EventReal(pcf, e, b.pointer.rows, before, target)
      <4>1. PICK f \in Fresh(b.pointer.rows, before) \cap Fresh(rows, target) :
              \E type \in DetectEvents(b.pointer.rows[f].list, rows[f].list) : e = <<f, type>>
        BY <3>1, <3>8 DEF BuildDailyDiff
      <4>2. PICK type \in DetectEvents(b.pointer.rows[f].list, rows[f].list) : e = <<f, type>>
        BY <4>1
      <4>3. /\ f \in Etfs /\ b.pointer.rows[f].list \in Range(pcf[f][before])
            /\ rows[f].list \in Range(pcf[f][target])
        BY <3>2, <4>1 DEF Fresh, RowsReal, EventsOK
      <4>4. /\ b.pointer.rows[f].list \in PcfLists /\ rows[f].list \in PcfLists
            /\ \E i \in DOMAIN pcf[f][target] : pcf[f][target][i] = rows[f].list
        BY <3>3, <4>3, ListsAreLists
      <4>5. Meant(type, b.pointer.rows[f].list, rows[f].list)
        BY <4>2, <4>4, DetectedIsMeant
      <4>6. e[1] = f /\ e[2] = type
        BY <4>2
      <4> QED
        BY <4>1, <4>3, <4>4, <4>5, <4>6 DEF EventReal
    <3> QED
      BY <3>2, <3>3, <3>5, <3>6, <3>7, <3>8
  <2>9. target <= target
    BY EtfConstants DEF Days
  <2>10. \A d \in Days : work.events[d] # None =>
          LET before == work.events[d].prev
          IN  /\ d <= target
              /\ before \in Days /\ before < d
              /\ before = Max({x \in Archived(work) : x < d})
              /\ \A e \in work.events[d].list : EventReal(pcf, e, work.archive[before], before, d)
    BY <2>5, <2>7, <2>8, <2>9
  <2> QED
    BY <2>2, <2>5, <2>10 DEF EventsOK, work
<1> QED
  BY <1>1, <1>2

LEMMA RealInit == Init => RunReal /\ EventsOK(pcf, branch)
  BY DEF Init, NoJob, Empty, RunReal, EventsOK

LEMMA RealNext ==
    ASSUME IInv, RunReal, EventsOK(pcf, branch), [Next]_vars
    PROVE  RunReal' /\ EventsOK(pcf, branch)'
<1>1. CASE \E f \in Etfs : \E l \in Lists[f] : Publish(f, l) \/ Correct(f, l)
  <2>1. UNCHANGED <<job, branch>>
    BY <1>1 DEF Publish, Correct
  <2>0. PICK f \in Etfs : \E l \in Lists[f] : Publish(f, l) \/ Correct(f, l)
    BY <1>1
  <2>2. PICK l \in Lists[f] : Publish(f, l) \/ Correct(f, l)
    BY <2>0
  <2>3. day \in Days /\ DOMAIN pcf = Etfs /\ \A g \in Etfs : DOMAIN pcf[g] = Days
    BY DEF IInv, ListsOK
  <2>4. PICK s : s = pcf[f][day]
    OBVIOUS
  <2>5. PICK t : /\ pcf' = [pcf EXCEPT ![f][day] = t]
                 /\ \A i \in DOMAIN s : i \in DOMAIN t /\ t[i] = s[i]
    <3>1. CASE Publish(f, l)
      <4>1. s = <<>> /\ pcf' = [pcf EXCEPT ![f][day] = <<l>>]
        BY <2>4, <3>1 DEF Publish, Published
      <4>2. \A i \in DOMAIN s : i \in DOMAIN <<l>> /\ <<l>>[i] = s[i]
        BY <4>1
      <4> QED
        BY <4>1, <4>2
    <3>2. CASE Correct(f, l)
      <4>1. pcf' = [pcf EXCEPT ![f][day] = Append(s, l)]
        BY <2>3, <2>4, <3>2 DEF Correct
      <4>2. s \in Seq(UNION {Lists[g] : g \in Etfs})
        BY <2>3, <2>4 DEF IInv, ListsOK
      <4>3. \A i \in DOMAIN s : i \in DOMAIN Append(s, l) /\ Append(s, l)[i] = s[i]
        BY <4>2
      <4> QED
        BY <4>1, <4>3
    <3> QED
      BY <2>2, <3>1, <3>2
  <2>6. \A g \in Etfs, d \in Days : pcf'[g][d] = IF g = f /\ d = day THEN t ELSE pcf[g][d]
    BY <2>3, <2>5
  <2>7. Grow(pcf, pcf')
    BY <2>4, <2>5, <2>6 DEF Grow
  <2>8. /\ job.at \in {"shards", "merge", "cycle"} => RowsReal(pcf', job.rows)
        /\ job.at \in {"publish", "push"} => EventsOK(pcf', job.work)
        /\ EventsOK(pcf', branch)
    BY <2>7, RowsStayReal, EventsStayOK DEF RunReal
  <2> QED
    BY <2>1, <2>8 DEF RunReal
<1>2. CASE UNCHANGED <<pcf, job, branch>>
  BY <1>2 DEF RunReal
<1>3. CASE Prepare
  <2>1. PICK d \in {day, day - 1} \ {0} :
          /\ \A f \in Sse : Dates(f, d) # {}
          /\ job'.at = "shards" /\ job'.rows = SseTable(d)
    BY <1>3 DEF Prepare
  <2>2. d \in Days /\ UNCHANGED <<pcf, branch>>
    BY <1>3, EtfConstants DEF Prepare, IInv, ListsOK, Days
  <2>3. RowsReal(pcf', job'.rows)
    BY <2>1, <2>2, TableIsReal DEF IInv
  <2> QED
    BY <2>1, <2>2, <2>3 DEF RunReal
<1>4. CASE Shards \/ Merge
  <2>1. /\ job.at \in {"shards", "merge", "cycle"} /\ UNCHANGED <<pcf, branch>>
        /\ \E at \in {"merge", "cycle"} : \E got \in SUBSET job.index :
             job' = [job EXCEPT !.at = at, !.rows = With(@, got, job.target)]
    BY <1>4 DEF Shards, Merge
  <2>2. PICK at \in {"merge", "cycle"}, got \in SUBSET job.index :
          job' = [job EXCEPT !.at = at, !.rows = With(@, got, job.target)]
    BY <2>1
  <2>3. /\ job \in Gathering /\ \A f \in job.index : Published(f, job.target)
        /\ RowsReal(pcf, job.rows)
    BY <2>1 DEF IInv, JobOK, RunReal
  <2>4. job'.at = at /\ job'.rows = With(job.rows, got, job.target)
    BY <2>2, <2>3 DEF Gathering
  <2>5. job.target \in Days /\ got \subseteq Szse /\ \A f \in got : Published(f, job.target)
    BY <2>2, <2>3 DEF Gathering
  <2>6. RowsReal(pcf, With(job.rows, got, job.target))
    BY <2>3, <2>5, WithIsReal DEF IInv
  <2> QED
    BY <2>1, <2>2, <2>4, <2>6 DEF RunReal
<1>5. CASE Cycle
  <2>1. /\ job.at = "cycle" /\ ~Backwards(branch, job.target) /\ UNCHANGED <<pcf, branch>>
        /\ job'.at = "publish" /\ job'.work = AfterCycle(branch, job.target, job.rows)
    BY <1>5 DEF Cycle
  <2>2. /\ job.target \in Days /\ job.rows \in Snapshots
        /\ RowsReal(pcf, job.rows)
    BY <2>1 DEF IInv, JobOK, Gathering, RunReal
  <2>3. EventsOK(pcf, AfterCycle(branch, job.target, job.rows))
    BY <2>1, <2>2, CycleIsReal DEF IInv
  <2> QED
    BY <2>1, <2>3 DEF RunReal
<1>6. CASE PushRelay \/ PushHistory \/ JobFails
  <2>1. UNCHANGED pcf
    BY <1>6 DEF PushRelay, PushHistory, JobFails
  <2>2. CASE PushRelay
    <3>1. job.at = "publish" /\ job'.at = "push" /\ job'.work = job.work /\ UNCHANGED branch
      BY <2>2 DEF PushRelay
    <3> QED
      BY <2>1, <3>1 DEF RunReal
  <2>3. CASE PushHistory
    <3>1. job.at = "push" /\ job'.at = "idle" /\ branch' = job.work
      BY <2>3 DEF PushHistory, NoJob
    <3> QED
      BY <2>1, <3>1 DEF RunReal
  <2>4. CASE JobFails
    <3>1. job'.at = "idle" /\ UNCHANGED branch
      BY <2>4 DEF JobFails, NoJob
    <3> QED
      BY <2>1, <3>1 DEF RunReal
  <2> QED
    BY <1>6, <2>2, <2>3, <2>4
<1> QED
  BY <1>1, <1>2, <1>3, <1>4, <1>5, <1>6
  DEF Next, vars, NextDay

\* However lists are missing, stale or corrected, and however runs repeat, fail or lose
\* their pushes (runtime_cycle.build_daily_diff).
THEOREM EventsReal == Spec => []EventsAreReal
<1>1. Init => IInv /\ RunReal /\ EventsOK(pcf, branch)
  BY InvInit, RealInit
<1>2. /\ IInv /\ RunReal /\ EventsOK(pcf, branch) /\ [Next]_vars
      => (IInv /\ RunReal /\ EventsOK(pcf, branch))'
  BY InvNext, RealNext
<1>3. EventsOK(pcf, branch) => EventsAreReal
  BY DEF EventsOK, EventReal, EventsAreReal
<1> QED
  BY <1>1, <1>2, <1>3, PTL DEF Spec
=============================================================================
