----------------------------- MODULE WebJobsProofs -----------------------------
(***************************************************************************)
(* Theorems about WebJobs, for any calendar, endpoints, modes, faults and   *)
(* bounds: no job is forgotten, a second formal run of a day gets in by a   *)
(* race alone, and a formal map is of the close it was asked for.           *)
(*                                                                          *)
(* IInv says what holds of every job in every instance: the record of a job,*)
(* the place of its thread and the files in its directory fit together; an  *)
(* acquisition belongs to one pipeline; a full run and the run it opened    *)
(* name each other; a thread that goes on with a pipeline has an acquisition*)
(* to go on with.  A step moves one job, adds one, or moves a job and a     *)
(* child of it (Moves, Joins); Steps says so of every action, and the three *)
(* theorems look only at such summaries.                                    *)
(***************************************************************************)
EXTENDS WebJobs, SequenceTheorems, NaturalsInduction, WellFoundedInduction, TLAPS

Units == {"acq", "calc", "pipe", "full"}
JobModes == SnapshotModesAsked \cup {"LATEST_FORMAL", "LATEST_SUCCESS"}
Executions == {"AUTO_API", "INTERACTIVE_CHAT", None}
Statuses == Live \cup Terminal
Ended == {"WAITING_FOR_CHAT", "FAIL", "PASS"}
Downstream == {"front", "project", "complete"} \cup Ended
Points == {"none", "start", "audited", "register", "acqwait", "ai", "calc", "calcwait",
           "mapwait", "ready"} \cup Downstream

Job == [unit : Units, mode : JobModes, cutoff : Days \cup {None}, ai : Executions,
        status : Statuses, day : Days \cup {None}, src : Nat \cup {None}, seen : Nat,
        child : Nat \cup {None}, acq : Nat \cup {None}, calc : Nat \cup {None}, run : Nat \cup {None}]
Dir == [result : Terminal \cup {None}, audit : Terminal \cup {None}, checked : BOOLEAN,
        valid : Terminal \cup {None}, trusted : BOOLEAN,
        class : {"FORMAL_CLOSE", "HISTORICAL_REPLAY", "TEST_ONLY", None},
        data : Nat \cup {None},
        cutoff : Days \cup {None}]
Run == [job : Nat, snap : Nat, status : {"RUNNING", "WAITING_FOR_CHAT", "PASS", "FAIL"}]
Following == [job : Nat, pc : {"checked", "started", "waits", "died", "none"},
              calc : Nat \cup {None}]
Admission == [day : Days, seen : Nat]

JobsTyped ==
    /\ jobs \in Seq(Job) /\ at \in Seq(Points) /\ out \in Seq(Dir)
    /\ Len(at) = Len(jobs) /\ Len(out) = Len(jobs)

RestTyped ==
    /\ day \in Days /\ closed \in BOOLEAN
    /\ registered \subseteq Jobs /\ latest \in Jobs \cup {None}
    /\ runs \in Seq(Run) /\ resumes \subseteq DOMAIN runs
    /\ admitted \in Seq(Admission) /\ continued \in Seq(Following)

TypeOK == JobsTyped /\ RestTyped

-----------------------------------------------------------------------------
(* What holds of the jobs in every instance. *)

\* A job's record x, where its thread is, and its directory d fit together.
Fits(x, p, d) ==
    /\ p = "audited" => d.audit \in Terminal
    /\ p = "register" => x.unit = "calc" /\ x.status = "PASS"
    /\ p \in {"start", "audited"} => d.result = None
    /\ p = "start" => d.class = None
    /\ p \in {"acqwait", "ai", "calc"} => x.acq # None
    /\ x.unit = "pipe" /\ x.status = "WAITING_FOR_CHAT" => x.acq # None
    /\ x.unit = "calc" => x.acq # None
    /\ d.class # None => x.unit = "calc"
    /\ x.unit = "full" =>
          /\ p \in {"start", "mapwait", "ready"} => x.run = None
          /\ p # "none" => x.status # "FAIL"
          /\ p # "none" /\ x.mode = "CLOSE" => x.cutoff = x.day

ThreadsFit == \A j \in Jobs : Fits(jobs[j], at[j], out[j])

\* An acquisition named is one, and a pipeline's is its own.
AcquisitionsAreOwn ==
    /\ \A j \in Jobs : jobs[j].acq # None => jobs[j].acq \in Jobs /\ jobs[jobs[j].acq].unit = "acq"
    /\ \A p, q \in Jobs : /\ jobs[p].unit = "pipe" /\ jobs[q].unit = "pipe"
                          /\ jobs[p].acq # None /\ jobs[p].acq = jobs[q].acq
                          => p = q

\* A thread that goes on with a pipeline has an acquisition to go on with.
ContinuedFit ==
    \A t \in DOMAIN continued :
        /\ continued[t].job \in Jobs
        /\ jobs[continued[t].job].unit = "pipe" /\ jobs[continued[t].job].acq # None

\* Full jobs and the runs they opened name each other; a run that waits for the dialogue
\* has a job that has not failed.
RunsFit ==
    /\ \A r \in DOMAIN runs :
        /\ runs[r].job \in FullJobs /\ runs[r].snap \in Jobs
        /\ jobs[runs[r].job].run = r
        /\ r \in resumes => runs[r].status = "WAITING_FOR_CHAT"
        /\ runs[r].status = "WAITING_FOR_CHAT" =>
              at[runs[r].job] \in {"WAITING_FOR_CHAT", "none"} /\ jobs[runs[r].job].status # "FAIL"
    /\ \A f \in FullJobs :
        /\ at[f] \in Downstream => jobs[f].run \in DOMAIN runs /\ runs[jobs[f].run].job = f
        /\ at[f] = "ready" => latest # None

IInv == TypeOK /\ ThreadsFit /\ AcquisitionsAreOwn /\ ContinuedFit /\ RunsFit

-----------------------------------------------------------------------------
(* Records and sequences. *)

LEMMA SeqSet ==
    ASSUME NEW S, NEW s \in Seq(S), NEW j \in DOMAIN s, NEW e \in S
    PROVE  LET t == [s EXCEPT ![j] = e] IN
           /\ t \in Seq(S) /\ Len(t) = Len(s) /\ DOMAIN t = DOMAIN s
           /\ t[j] = e /\ \A i \in DOMAIN s \ {j} : t[i] = s[i]
  BY ExceptSeq

LEMMA SeqAdd ==
    ASSUME NEW S, NEW s \in Seq(S), NEW e \in S
    PROVE  LET t == Append(s, e) IN
           /\ t \in Seq(S) /\ Len(t) = Len(s) + 1
           /\ DOMAIN s \subseteq DOMAIN t /\ DOMAIN t = DOMAIN s \cup {Len(s) + 1}
           /\ Len(s) + 1 \notin DOMAIN s
           /\ t[Len(s) + 1] = e /\ \A i \in DOMAIN s : t[i] = s[i]
  OBVIOUS

LEMMA JobFields ==
    ASSUME NEW x \in Job
    PROVE  /\ \A s \in Statuses : [x EXCEPT !.status = s] \in Job
           /\ \A s \in Statuses, n \in Nat : [x EXCEPT !.status = s, !.acq = n] \in Job
           /\ \A s \in Statuses, n \in Nat : [x EXCEPT !.status = s, !.calc = n] \in Job
           /\ \A s \in Statuses, n \in Nat : [x EXCEPT !.status = s, !.child = n] \in Job
           /\ \A s \in Statuses, c \in Days \cup {None} : [x EXCEPT !.status = s, !.cutoff = c] \in Job
           /\ \A n \in Nat : [x EXCEPT !.run = n] \in Job
           /\ \A n \in Nat : [x EXCEPT !.acq = n] \in Job
           /\ \A n \in Nat : [x EXCEPT !.seen = n] \in Job
           /\ \A n \in Nat \cup {None} : [x EXCEPT !.src = n] \in Job
<1>1. \A s \in Statuses : [x EXCEPT !.status = s] \in Job
  BY DEF Job
<1>2. \A s \in Statuses, n \in Nat : [x EXCEPT !.status = s, !.acq = n] \in Job
  BY DEF Job
<1>3. \A s \in Statuses, n \in Nat : [x EXCEPT !.status = s, !.calc = n] \in Job
  BY DEF Job
<1>4. \A s \in Statuses, n \in Nat : [x EXCEPT !.status = s, !.child = n] \in Job
  BY DEF Job
<1>5. \A s \in Statuses, c \in Days \cup {None} : [x EXCEPT !.status = s, !.cutoff = c] \in Job
  BY DEF Job
<1>6. \A n \in Nat : [x EXCEPT !.run = n] \in Job
  BY DEF Job
<1>7. \A n \in Nat : [x EXCEPT !.acq = n] \in Job
  BY DEF Job
<1>8. \A n \in Nat : [x EXCEPT !.seen = n] \in Job
  BY DEF Job
<1>9. \A n \in Nat \cup {None} : [x EXCEPT !.src = n] \in Job
  BY DEF Job
<1> QED
  BY <1>1, <1>2, <1>3, <1>4, <1>5, <1>6, <1>7, <1>8, <1>9

LEMMA NewJobs ==
    ASSUME NEW unit \in Units, NEW mode \in JobModes, NEW cutoff \in Days \cup {None},
           NEW ai \in Executions
    PROVE  NewJob(unit, mode, cutoff, ai) \in Job
  BY DEF Job, NewJob, Statuses, Live

\* The prices that a replay names are added to a new job and leave the rest of it.
LEMMA WithSource ==
    ASSUME NEW y \in Job, NEW n \in Nat \cup {None}
    PROVE  LET z == [y EXCEPT !.src = n] IN
           /\ z \in Job /\ z.unit = y.unit /\ z.mode = y.mode /\ z.cutoff = y.cutoff
           /\ z.day = y.day /\ z.status = y.status /\ z.acq = y.acq /\ z.run = y.run
           /\ z.calc = y.calc
<1> DEFINE z == [y EXCEPT !.src = n]
<1>1. z \in Job
  BY JobFields
<1>2. /\ z.unit = y.unit /\ z.mode = y.mode /\ z.cutoff = y.cutoff
      /\ z.day = y.day /\ z.status = y.status /\ z.acq = y.acq
  BY DEF Job
<1>3. /\ z.run = y.run /\ z.calc = y.calc
  BY DEF Job
<1> QED
  BY <1>1, <1>2, <1>3

\* The same of what there was when a formal run was admitted.
LEMMA WithSeen ==
    ASSUME NEW y \in Job, NEW n \in Nat
    PROVE  LET z == [y EXCEPT !.seen = n] IN
           /\ z \in Job /\ z.unit = y.unit /\ z.mode = y.mode /\ z.cutoff = y.cutoff
           /\ z.day = y.day /\ z.status = y.status /\ z.acq = y.acq /\ z.run = y.run
           /\ z.calc = y.calc /\ z.seen = n
<1> DEFINE z == [y EXCEPT !.seen = n]
<1>1. z \in Job
  BY JobFields
<1>2. /\ z.unit = y.unit /\ z.mode = y.mode /\ z.cutoff = y.cutoff
      /\ z.day = y.day /\ z.status = y.status /\ z.acq = y.acq
  BY DEF Job
<1>3. /\ z.run = y.run /\ z.calc = y.calc /\ z.seen = n
  BY DEF Job
<1> QED
  BY <1>1, <1>2, <1>3

LEMMA NewJobFields ==
    ASSUME NEW unit, NEW m, NEW cutoff, NEW ai
    PROVE  LET y == NewJob(unit, m, cutoff, ai) IN
           /\ y.unit = unit /\ y.mode = m /\ y.cutoff = cutoff /\ y.day = cutoff
           /\ y.status = "PENDING" /\ y.acq = None /\ y.run = None /\ y.calc = None
           /\ y.seen = 0
  BY DEF NewJob

LEMMA EmptyDirs == EmptyDir \in Dir
  BY DEF EmptyDir, Dir

LEMMA Typed ==
    ASSUME JobsTyped
    PROVE  /\ Jobs = 1..Len(jobs) /\ DOMAIN at = Jobs /\ DOMAIN out = Jobs
           /\ \A j \in Jobs : jobs[j] \in Job /\ at[j] \in Points /\ out[j] \in Dir
  BY DEF JobsTyped, Jobs

-----------------------------------------------------------------------------
(* What a step does to jobs, threads and directories.  Same(i): nothing to job i's. *)

Same(i) == jobs'[i] = jobs[i] /\ at'[i] = at[i] /\ out'[i] = out[i]

\* Job j's record, thread and directory become x, p and d.
Moves(j, x, p, d) ==
    /\ JobsTyped' /\ Jobs' = Jobs
    /\ jobs'[j] = x /\ at'[j] = p /\ out'[j] = d
    /\ \A i \in Jobs \ {j} : Same(i)

\* Job n, new, with the record y.
Joins(n, y) ==
    /\ JobsTyped'
    /\ n \notin Jobs /\ n = Len(jobs) + 1 /\ Jobs' = Jobs \cup {n}
    /\ jobs'[n] = y /\ at'[n] = "start" /\ out'[n] = EmptyDir

LEMMA MoveIsMove ==
    ASSUME JobsTyped, NEW j \in Jobs, NEW x \in Job, NEW p \in Points, NEW d \in Dir,
           jobs' = [jobs EXCEPT ![j] = x], at' = [at EXCEPT ![j] = p],
           out' = [out EXCEPT ![j] = d]
    PROVE  Moves(j, x, p, d)
<1>1. jobs \in Seq(Job) /\ at \in Seq(Points) /\ out \in Seq(Dir)
      /\ Len(at) = Len(jobs) /\ Len(out) = Len(jobs)
      /\ j \in DOMAIN jobs /\ j \in DOMAIN at /\ j \in DOMAIN out
      /\ DOMAIN at = Jobs /\ DOMAIN out = Jobs /\ DOMAIN jobs = Jobs
  BY Typed DEF JobsTyped, Jobs
<1>2. jobs' \in Seq(Job) /\ Len(jobs') = Len(jobs) /\ DOMAIN jobs' = DOMAIN jobs
      /\ jobs'[j] = x /\ \A i \in Jobs \ {j} : jobs'[i] = jobs[i]
  BY <1>1, SeqSet
<1>3. at' \in Seq(Points) /\ Len(at') = Len(at)
      /\ at'[j] = p /\ \A i \in Jobs \ {j} : at'[i] = at[i]
  BY <1>1, SeqSet
<1>4. out' \in Seq(Dir) /\ Len(out') = Len(out)
      /\ out'[j] = d /\ \A i \in Jobs \ {j} : out'[i] = out[i]
  BY <1>1, SeqSet
<1> QED
  BY <1>1, <1>2, <1>3, <1>4 DEF Moves, JobsTyped, Same, Jobs

LEMMA JoinIsJoin ==
    ASSUME JobsTyped, NEW y \in Job, jobs' = Append(jobs, y), at' = Append(at, "start"),
           out' = Append(out, EmptyDir)
    PROVE  Joins(Len(jobs) + 1, y) /\ \A i \in Jobs : Same(i)
<1>1. jobs \in Seq(Job) /\ at \in Seq(Points) /\ out \in Seq(Dir) /\ EmptyDir \in Dir
      /\ Len(at) = Len(jobs) /\ Len(out) = Len(jobs) /\ "start" \in Points
      /\ DOMAIN at = Jobs /\ DOMAIN out = Jobs /\ DOMAIN jobs = Jobs
  BY Typed, EmptyDirs DEF JobsTyped, Jobs, Points
<1>2. jobs' \in Seq(Job) /\ Len(jobs') = Len(jobs) + 1 /\ DOMAIN jobs' = Jobs \cup {Len(jobs) + 1}
      /\ Len(jobs) + 1 \notin Jobs
      /\ jobs'[Len(jobs) + 1] = y /\ \A i \in Jobs : jobs'[i] = jobs[i]
  BY <1>1, SeqAdd
<1>3. at' \in Seq(Points) /\ Len(at') = Len(jobs) + 1
      /\ at'[Len(jobs) + 1] = "start" /\ \A i \in Jobs : at'[i] = at[i]
  BY <1>1, SeqAdd
<1>4. out' \in Seq(Dir) /\ Len(out') = Len(jobs) + 1
      /\ out'[Len(jobs) + 1] = EmptyDir /\ \A i \in Jobs : out'[i] = out[i]
  BY <1>1, SeqAdd
<1> QED
  BY <1>1, <1>2, <1>3, <1>4 DEF Joins, JobsTyped, Same, Jobs

LEMMA MoveAndJoin ==
    ASSUME JobsTyped, NEW j \in Jobs, NEW x \in Job, NEW p \in Points, NEW y \in Job,
           jobs' = Append([jobs EXCEPT ![j] = x], y),
           at' = Append([at EXCEPT ![j] = p], "start"),
           out' = Append(out, EmptyDir)
    PROVE  /\ Joins(Len(jobs) + 1, y)
           /\ jobs'[j] = x /\ at'[j] = p /\ out'[j] = out[j]
           /\ \A i \in Jobs \ {j} : Same(i)
<1> DEFINE js == [jobs EXCEPT ![j] = x]
           ats == [at EXCEPT ![j] = p]
<1>1. jobs \in Seq(Job) /\ at \in Seq(Points) /\ out \in Seq(Dir) /\ EmptyDir \in Dir
      /\ Len(at) = Len(jobs) /\ Len(out) = Len(jobs) /\ "start" \in Points
      /\ DOMAIN at = Jobs /\ DOMAIN out = Jobs /\ DOMAIN jobs = Jobs
  BY Typed, EmptyDirs DEF JobsTyped, Jobs, Points
<1>2. js \in Seq(Job) /\ Len(js) = Len(jobs) /\ DOMAIN js = Jobs
      /\ js[j] = x /\ \A i \in Jobs \ {j} : js[i] = jobs[i]
  BY <1>1, SeqSet
<1>3. ats \in Seq(Points) /\ Len(ats) = Len(jobs) /\ DOMAIN ats = Jobs
      /\ ats[j] = p /\ \A i \in Jobs \ {j} : ats[i] = at[i]
  BY <1>1, SeqSet
<1> HIDE DEF js, ats
<1>4. jobs' \in Seq(Job) /\ Len(jobs') = Len(jobs) + 1 /\ DOMAIN jobs' = Jobs \cup {Len(jobs) + 1}
      /\ Len(jobs) + 1 \notin Jobs
      /\ jobs'[Len(jobs) + 1] = y /\ \A i \in Jobs : jobs'[i] = js[i]
  <2>1. jobs' = Append(js, y)
    BY DEF js
  <2>2. Append(js, y) \in Seq(Job) /\ Len(Append(js, y)) = Len(jobs) + 1
        /\ DOMAIN Append(js, y) = Jobs \cup {Len(jobs) + 1} /\ Len(jobs) + 1 \notin Jobs
        /\ Append(js, y)[Len(jobs) + 1] = y /\ \A i \in Jobs : Append(js, y)[i] = js[i]
    BY <1>2, SeqAdd
  <2> QED
    BY <2>1, <2>2
<1>5. at' \in Seq(Points) /\ Len(at') = Len(jobs) + 1
      /\ at'[Len(jobs) + 1] = "start" /\ \A i \in Jobs : at'[i] = ats[i]
  <2>1. at' = Append(ats, "start")
    BY DEF ats
  <2> QED
    BY <1>1, <1>3, <2>1, SeqAdd
<1>6. out' \in Seq(Dir) /\ Len(out') = Len(jobs) + 1
      /\ out'[Len(jobs) + 1] = EmptyDir /\ \A i \in Jobs : out'[i] = out[i]
  BY <1>1, SeqAdd
<1> QED
  BY <1>1, <1>2, <1>3, <1>4, <1>5, <1>6 DEF Joins, JobsTyped, Same, Jobs

-----------------------------------------------------------------------------
(* What every move and every new job must respect to keep the invariant. *)

\* A move that changes no unit and no acquisition of a job.
LEMMA MoveKeepsJobs ==
    ASSUME IInv, NEW j \in Jobs, NEW x \in Job, NEW p \in Points, NEW d \in Dir,
           Moves(j, x, p, d), Fits(x, p, d),
           x.unit = jobs[j].unit, x.acq = jobs[j].acq
    PROVE  JobsTyped' /\ ThreadsFit' /\ AcquisitionsAreOwn'
<1> USE DEF IInv, Moves, Same
<1>1. ThreadsFit'
  BY DEF ThreadsFit
<1>2. AcquisitionsAreOwn'
  BY DEF AcquisitionsAreOwn
<1> QED
  BY <1>1, <1>2

\* The same, while no run changes.
LEMMA MoveKeeps ==
    ASSUME IInv, NEW j \in Jobs, NEW x \in Job, NEW p \in Points, NEW d \in Dir,
           Moves(j, x, p, d), Fits(x, p, d),
           x.unit = jobs[j].unit, x.acq = jobs[j].acq, x.run = jobs[j].run,
           x.unit = "full" =>
              /\ p \in Downstream => at[j] \in Downstream
              /\ p = "ready" => latest' # None
              /\ \A r \in DOMAIN runs : runs[r].job = j /\ runs[r].status = "WAITING_FOR_CHAT"
                    => p \in {"WAITING_FOR_CHAT", "none"} /\ x.status # "FAIL",
           latest' = latest \/ latest' # None, UNCHANGED <<runs, resumes>>
    PROVE  JobsTyped' /\ ThreadsFit' /\ AcquisitionsAreOwn' /\ RunsFit'
<1>1. JobsTyped' /\ ThreadsFit' /\ AcquisitionsAreOwn'
  BY MoveKeepsJobs
<1>2. RunsFit'
  BY DEF IInv, Moves, Same, RunsFit, FullJobs, Downstream, Ended
<1> QED
  BY <1>1, <1>2

LEMMA TypeOKParts == IInv => JobsTyped /\ RestTyped
  BY DEF IInv, TypeOK

\* A new job that names nothing, or a calculation that names its acquisition.
Fresh(y) == /\ y.status = "PENDING" /\ y.run = None /\ y.day = y.cutoff
            /\ \/ y.unit # "calc" /\ y.acq = None
               \/ y.unit = "calc" /\ y.acq \in Jobs /\ jobs[y.acq].unit = "acq"

LEMMA FreshFits ==
    ASSUME JobsTyped, NEW y \in Job, Fresh(y)
    PROVE  Fits(y, "start", EmptyDir)
<1>1. None \notin Jobs
  BY Typed, WebConstants
<1>2. EmptyDir.result = None /\ EmptyDir.class = None
  BY DEF EmptyDir
<1> QED
  BY <1>1, <1>2 DEF Fresh, Fits

LEMMA JoinKeeps ==
    ASSUME IInv, NEW y \in Job, Joins(Len(jobs) + 1, y), Fresh(y), \A i \in Jobs : Same(i),
           UNCHANGED <<runs, resumes, latest>>
    PROVE  JobsTyped' /\ ThreadsFit' /\ AcquisitionsAreOwn' /\ RunsFit'
<1> DEFINE n == Len(jobs) + 1
<1>0. Joins(n, y) /\ Fits(y, "start", EmptyDir)
  BY FreshFits, TypeOKParts
<1> HIDE DEF n
<1> USE <1>0 DEF IInv, Joins, Same
<1>1. ThreadsFit'
  BY DEF ThreadsFit
<1>2. AcquisitionsAreOwn'
  BY DEF AcquisitionsAreOwn, Fresh
<1>3. RunsFit'
  BY DEF RunsFit, FullJobs, Downstream, Ended, Fresh
<1> QED
  BY <1>1, <1>2, <1>3

-----------------------------------------------------------------------------
(* The moves of the actions. *)

Rec(j, s) == [jobs[j] EXCEPT !.status = s]

LEMMA SetMoves ==
    ASSUME JobsTyped, NEW j \in Jobs, NEW s \in Statuses, NEW p \in Points, NEW d \in Dir,
           jobs' = SetStatus(j, s), at' = Goes(j, p),
           out' = [out EXCEPT ![j] = d]
    PROVE  Moves(j, Rec(j, s), p, d) /\ Rec(j, s) \in Job
<1>1. Rec(j, s) \in Job
  BY Typed, JobFields DEF Rec
<1>2. jobs' = [jobs EXCEPT ![j] = Rec(j, s)]
  BY DEF SetStatus, Rec
<1> QED
  BY <1>1, <1>2, MoveIsMove DEF Goes

LEMMA GoMoves ==
    ASSUME JobsTyped, NEW j \in Jobs, NEW p \in Points, UNCHANGED <<jobs, out>>, at' = Goes(j, p)
    PROVE  Moves(j, jobs[j], p, out[j])
<1>1. jobs' = [jobs EXCEPT ![j] = jobs[j]] /\ out' = [out EXCEPT ![j] = out[j]]
  BY Typed DEF JobsTyped
<1> QED
  BY <1>1, Typed, MoveIsMove DEF Goes

LEMMA EndMoves ==
    ASSUME JobsTyped, NEW j \in Jobs, NEW s \in Statuses, Ends(j, s), UNCHANGED out
    PROVE  Moves(j, Rec(j, s), "none", out[j]) /\ Rec(j, s) \in Job
<1>1. out' = [out EXCEPT ![j] = out[j]] /\ out[j] \in Dir
  BY Typed DEF JobsTyped
<1>2. jobs' = SetStatus(j, s) /\ at' = Goes(j, "none") /\ "none" \in Points
  BY DEF Ends, Points
<1> QED
  BY <1>1, <1>2, SetMoves

LEMMA RecFields ==
    ASSUME JobsTyped, NEW j \in Jobs, NEW s \in Statuses
    PROVE  /\ Rec(j, s).status = s /\ Rec(j, s).unit = jobs[j].unit
           /\ Rec(j, s).acq = jobs[j].acq /\ Rec(j, s).run = jobs[j].run
           /\ Rec(j, s).mode = jobs[j].mode /\ Rec(j, s).day = jobs[j].day
           /\ Rec(j, s).cutoff = jobs[j].cutoff /\ Rec(j, s).calc = jobs[j].calc
           /\ Rec(j, s).seen = jobs[j].seen
  BY Typed DEF Rec, Job

-----------------------------------------------------------------------------
(* External: market days. *)

\* A non-empty set of days has a latest one.
LEMMA LatestExists ==
    ASSUME NEW n \in Nat, NEW S, S \subseteq 1..n, S # {}
    PROVE  \E x \in S : \A y \in S : x >= y
<1> DEFINE T == {n - x : x \in S}
<1>1. T \subseteq Nat /\ T # {}
  <2>1. \A x \in S : n - x \in Nat
    OBVIOUS
  <2>2. PICK x \in S : TRUE
    OBVIOUS
  <2>3. n - x \in T
    BY <2>2
  <2> QED
    BY <2>1, <2>3
<1>2. PICK t \in T : \A u \in T : ~(<<u, t>> \in OpToRel(<, Nat))
  BY <1>1, NatLessThanWellFounded, WFMin
<1>3. t \in Nat /\ \A u \in T : u \in Nat /\ ~(u < t)
  BY <1>1, <1>2 DEF OpToRel
<1>4. PICK x \in S : t = n - x
  BY <1>2
<1>5. \A y \in S : ~(n - y < n - x)
  BY <1>3, <1>4
<1> QED
  BY <1>5

LEMMA LastTradeDays ==
    ASSUME day \in Days
    PROVE  /\ LastTradeDay \in Days /\ CloseNow \in Nat
           /\ day \in TradeDays => LastTradeDay = day
<1> DEFINE S == {d \in TradeDays : d <= day}
<1>1. S \subseteq 1..MaxDay /\ S # {}
  <2>1. 1 \in S
    BY WebConstants DEF Days
  <2> QED
    BY <2>1, WebConstants
<1>2. PICK x \in S : \A y \in S : x >= y
  BY <1>1, WebConstants, LatestExists
<1>3. x \in TradeDays /\ x <= day /\ \A e \in TradeDays : e <= day => e <= x
  BY <1>1, <1>2, WebConstants DEF Days
<1>4. /\ LastTradeDay \in TradeDays /\ LastTradeDay <= day
      /\ \A e \in TradeDays : e <= day => e <= LastTradeDay
  BY <1>3 DEF LastTradeDay
<1>5. LastTradeDay \in Days
  BY <1>4, WebConstants DEF Days
<1>6. day \in TradeDays => LastTradeDay = day
  BY <1>4, <1>5 DEF Days
<1> QED
  BY <1>5, <1>6 DEF CloseNow, Days

-----------------------------------------------------------------------------
(* Acquisition and calculation. *)

LEMMA FetchedTyped ==
    ASSUME IInv, NEW a \in Jobs
    PROVE  Fetched(a) \in Nat \cup {None}
           /\ (jobs[a].mode \in {"CLOSE", "PRE_TRADE_CLOSE"} => Fetched(a) = CloseNow)
<1>1. day \in Days /\ jobs[a] \in Job
  BY Typed DEF IInv, TypeOK, RestTyped
<1>2. CloseNow \in Nat /\ jobs[a].src \in Nat \cup {None}
  BY <1>1, LastTradeDays DEF Job
<1> QED
  BY <1>2 DEF Fetched

LEMMA AcqAuditMoves ==
    ASSUME IInv, NEW a \in Jobs, AcqAudit(a)
    PROVE  \E o \in Terminal, s \in Statuses, d \in Dir :
             /\ Moves(a, Rec(a, s), "audited", d) /\ Rec(a, s) \in Job
             /\ d.audit = o /\ d.data = Fetched(a) /\ d.result = None /\ d.class = out[a].class
             /\ jobs[a].unit = "acq" /\ at[a] = "start" /\ out[a].result = None
             /\ o # "FAIL" => CloseGate(jobs[a].mode, jobs[a].cutoff, d.checked)
<1>0. JobsTyped /\ jobs[a] \in Job /\ out[a] \in Dir /\ DOMAIN out = Jobs
  BY Typed DEF IInv, TypeOK
<1>1. jobs[a].unit = "acq" /\ at[a] = "start" /\ out[a].result = None
  BY DEF AcqAudit, Is, IInv, ThreadsFit, Fits
<1>2. PICK calendar \in {TRUE} \cup (IF "calendar" \in Faults THEN {FALSE} ELSE {}),
           found \in {"PASS", "NEEDS_REVIEW"} \cup (IF "stage" \in Faults THEN {"FAIL"} ELSE {}) :
        LET o == IF CloseGate(jobs[a].mode, jobs[a].cutoff, calendar) THEN found ELSE "FAIL"
        IN  /\ out' = [out EXCEPT ![a] = [@ EXCEPT !.audit = o, !.data = Fetched(a),
                                                   !.checked = calendar,
                                                   !.trusted = (o = "PASS")]]
            /\ jobs' = SetStatus(a, IF o = "PASS" THEN "RUNNING" ELSE o)
  BY DEF AcqAudit
<1> DEFINE o == IF CloseGate(jobs[a].mode, jobs[a].cutoff, calendar) THEN found ELSE "FAIL"
           s == IF o = "PASS" THEN "RUNNING" ELSE o
           d == [out[a] EXCEPT !.audit = o, !.data = Fetched(a), !.checked = calendar,
                               !.trusted = (o = "PASS")]
<1>3. o \in Terminal /\ s \in Statuses /\ calendar \in BOOLEAN
  BY DEF Terminal, Statuses, Live
<1>4. o # "FAIL" => CloseGate(jobs[a].mode, jobs[a].cutoff, calendar)
  OBVIOUS
<1>5. out' = [out EXCEPT ![a] = d] /\ jobs' = SetStatus(a, s)
  BY <1>0, <1>2
<1> HIDE DEF o, s
<1>6. d \in Dir /\ d.audit = o /\ d.data = Fetched(a) /\ d.result = None /\ d.class = out[a].class
      /\ d.checked = calendar
  BY <1>0, <1>1, <1>3, FetchedTyped DEF Dir
<1> HIDE DEF d
<1>7. Moves(a, Rec(a, s), "audited", d) /\ Rec(a, s) \in Job
  <2>1. at' = Goes(a, "audited") /\ "audited" \in Points
    BY DEF AcqAudit, Points
  <2> QED
    BY <1>0, <1>3, <1>5, <1>6, <2>1, SetMoves
<1> QED
  BY <1>1, <1>3, <1>4, <1>6, <1>7

LEMMA AcqDoneMoves ==
    ASSUME IInv, NEW a \in Jobs, AcqDone(a)
    PROVE  \E d \in Dir :
             /\ Moves(a, Rec(a, out[a].audit), "none", d) /\ Rec(a, out[a].audit) \in Job
             /\ out[a].audit \in Terminal
             /\ d = [out[a] EXCEPT !.result = out[a].audit] /\ out[a].result = None
             /\ d.result = out[a].audit /\ d.data = out[a].data /\ d.class = out[a].class
             /\ d.checked = out[a].checked
             /\ jobs[a].unit = "acq" /\ at[a] = "audited"
<1>0. JobsTyped /\ out[a] \in Dir
  BY Typed DEF IInv, TypeOK
<1>1. jobs[a].unit = "acq" /\ at[a] = "audited" /\ out[a].result = None /\ out[a].audit \in Terminal
  BY DEF AcqDone, Is, IInv, ThreadsFit, Fits
<1> DEFINE d == [out[a] EXCEPT !.result = out[a].audit]
<1>2. d \in Dir /\ d.result = out[a].audit /\ d.data = out[a].data /\ d.class = out[a].class
      /\ d.checked = out[a].checked
  BY <1>0, <1>1 DEF Dir
<1>3. out' = [out EXCEPT ![a] = d]
  BY DEF AcqDone
<1> HIDE DEF d
<1>4. Moves(a, Rec(a, out[a].audit), "none", d) /\ Rec(a, out[a].audit) \in Job
  <2>1. /\ jobs' = SetStatus(a, out[a].audit) /\ at' = Goes(a, "none")
        /\ "none" \in Points /\ out[a].audit \in Statuses
    BY <1>1 DEF AcqDone, Ends, Points, Statuses
  <2> QED
    BY <1>0, <1>2, <1>3, <2>1, SetMoves
<1> QED
  BY <1>1, <1>2, <1>4 DEF d

LEMMA CalcRunMoves ==
    ASSUME IInv, NEW c \in Jobs, CalcRun(c)
    PROVE  /\ jobs[c].unit = "calc" /\ at[c] = "start"
           /\ jobs[c].acq \in Jobs /\ jobs[jobs[c].acq].unit = "acq"
           /\ \/ \E d \in Dir :
                   /\ Moves(c, Rec(c, "PASS"), "register", d) /\ Rec(c, "PASS") \in Job
                   /\ Trusted(jobs[c].acq) /\ d.class = SnapshotClass(jobs[c].acq)
                   /\ d.data = out[jobs[c].acq].data /\ d.cutoff = jobs[c].cutoff
                   /\ out[c].result = None
              \/ Moves(c, Rec(c, "FAIL"), "none", out[c]) /\ Rec(c, "FAIL") \in Job
<1>0. JobsTyped /\ jobs[c] \in Job /\ out[c] \in Dir
  BY Typed DEF IInv, TypeOK
<1>1. jobs[c].unit = "calc" /\ at[c] = "start" /\ out[c].result = None /\ jobs[c].acq # None
  BY DEF CalcRun, Is, IInv, ThreadsFit, Fits
<1>2. jobs[c].acq \in Jobs /\ jobs[jobs[c].acq].unit = "acq"
  BY <1>1 DEF IInv, AcquisitionsAreOwn
<1> DEFINE a == jobs[c].acq
           d == [out[c] EXCEPT !.class = SnapshotClass(a), !.data = out[a].data,
                               !.cutoff = jobs[c].cutoff, !.result = "PASS"]
<1>3. out[a] \in Dir
  BY <1>0, <1>2, Typed
<1>4. d \in Dir /\ d.class = SnapshotClass(a) /\ d.data = out[a].data /\ d.cutoff = jobs[c].cutoff
  <2>1. SnapshotClass(a) \in {"FORMAL_CLOSE", "HISTORICAL_REPLAY", "TEST_ONLY"} /\ "PASS" \in Terminal
    BY DEF SnapshotClass, Terminal
  <2>2. out[a].data \in Nat \cup {None} /\ jobs[c].cutoff \in Days \cup {None}
    BY <1>0, <1>3 DEF Dir, Job
  <2> HIDE DEF a
  <2> QED
    BY <1>0, <2>1, <2>2 DEF Dir
<1>5. \/ Trusted(a) /\ out' = [out EXCEPT ![c] = d] /\ jobs' = SetStatus(c, "PASS")
         /\ at' = Goes(c, "register")
      \/ Ends(c, "FAIL") /\ UNCHANGED out
  BY DEF CalcRun
<1> HIDE DEF d
<1>6. CASE Trusted(a) /\ out' = [out EXCEPT ![c] = d] /\ jobs' = SetStatus(c, "PASS")
           /\ at' = Goes(c, "register")
  <2>1. Moves(c, Rec(c, "PASS"), "register", d) /\ Rec(c, "PASS") \in Job
    <3>1. "register" \in Points /\ "PASS" \in Statuses
      BY DEF Points, Statuses, Terminal
    <3> QED
      BY <1>0, <1>4, <1>6, <3>1, SetMoves
  <2> QED
    BY <1>1, <1>2, <1>4, <1>6, <2>1
<1>7. CASE Ends(c, "FAIL") /\ UNCHANGED out
  BY <1>0, <1>1, <1>2, <1>7, EndMoves DEF Statuses, Terminal
<1> QED
  BY <1>5, <1>6, <1>7

LEMMA CalcRegisterMoves ==
    ASSUME IInv, NEW c \in Jobs, CalcRegister(c)
    PROVE  /\ jobs[c].unit = "calc" /\ Moves(c, jobs[c], "none", out[c])
           /\ \/ UNCHANGED registry
              \/ out[c].class = "FORMAL_CLOSE" /\ registered' = registered \cup {c} /\ latest' = c
  BY GoMoves DEF CalcRegister, Is, IInv, TypeOK, Points

-----------------------------------------------------------------------------
(* The pipeline. *)

\* Job j's record and thread change, and it starts the job y.
Spawns(j, x, p, y) ==
    /\ Joins(Len(jobs) + 1, y)
    /\ jobs'[j] = x /\ at'[j] = p /\ out'[j] = out[j]
    /\ \A i \in Jobs \ {j} : Same(i)

LEMMA PipeStartSpawns ==
    ASSUME IInv, NEW p \in Jobs, PipeStart(p)
    PROVE  \E x \in Job, y \in Job :
             /\ Spawns(p, x, "acqwait", y)
             /\ jobs[p].unit = "pipe" /\ at[p] = "start"
             /\ x.unit = "pipe" /\ x.status = "RUNNING" /\ x.acq = Len(jobs) + 1
             /\ x.cutoff = jobs[p].cutoff /\ x.run = jobs[p].run /\ x.calc = jobs[p].calc
             /\ y.unit = "acq" /\ y.cutoff = jobs[p].cutoff /\ y.acq = None
             /\ y.status = "PENDING" /\ y.run = None
<1>0. JobsTyped /\ jobs[p] \in Job /\ DOMAIN jobs = Jobs /\ Len(jobs) + 1 \in Nat
  BY Typed DEF IInv, TypeOK, JobsTyped, Jobs
<1> DEFINE a == Len(jobs) + 1
           x == [jobs[p] EXCEPT !.status = "RUNNING", !.acq = a]
           z == NewJob("acq", jobs[p].mode, jobs[p].cutoff, jobs[p].ai)
           y == [z EXCEPT !.src = jobs[p].src]
<1>1. "RUNNING" \in Statuses /\ "acqwait" \in Points /\ "acq" \in Units
  BY DEF Statuses, Live, Points, Units
<1>2. x \in Job /\ z \in Job /\ jobs[p].src \in Nat \cup {None}
  BY <1>0, <1>1, JobFields, NewJobs DEF Job
<1>3. jobs[p].unit = "pipe" /\ at[p] = "start"
  BY DEF PipeStart, Is
<1>4. x.unit = "pipe" /\ x.status = "RUNNING" /\ x.acq = a /\ x.cutoff = jobs[p].cutoff
      /\ x.run = jobs[p].run /\ x.calc = jobs[p].calc
  BY <1>0, <1>3 DEF Job
<1>5. /\ jobs' = Append([jobs EXCEPT ![p] = x], y)
      /\ at' = Append([at EXCEPT ![p] = "acqwait"], "start")
      /\ out' = Append(out, EmptyDir)
  BY <1>0 DEF PipeStart, With, Spawn, Goes
<1>6. z.unit = "acq" /\ z.cutoff = jobs[p].cutoff /\ z.acq = None /\ z.status = "PENDING"
      /\ z.run = None
  BY NewJobFields
<1> HIDE DEF x, z
<1>7. y \in Job /\ y.unit = "acq" /\ y.cutoff = jobs[p].cutoff /\ y.acq = None
      /\ y.status = "PENDING" /\ y.run = None
  BY <1>2, <1>6, WithSource
<1> HIDE DEF y
<1>8. Spawns(p, x, "acqwait", y)
  BY <1>0, <1>1, <1>2, <1>5, <1>7, MoveAndJoin DEF Spawns
<1> QED
  BY <1>2, <1>3, <1>4, <1>7, <1>8

LEMMA PipeAcqSeenMoves ==
    ASSUME IInv, NEW p \in Jobs, PipeAcqSeen(p)
    PROVE  /\ jobs[p].unit = "pipe" /\ at[p] = "acqwait"
           /\ \/ \E q \in {"calc", "ai"} : Moves(p, jobs[p], q, out[p])
              \/ \E s \in {"FAIL", "WAITING_FOR_CHAT"} : Moves(p, Rec(p, s), "none", out[p]) /\ Rec(p, s) \in Job
<1>0. JobsTyped
  BY DEF IInv, TypeOK
<1>1. jobs[p].unit = "pipe" /\ at[p] = "acqwait"
  BY DEF PipeAcqSeen, Is
<1>2. /\ UNCHANGED out
      /\ \/ \E q \in {"calc", "ai"} : at' = Goes(p, q) /\ UNCHANGED jobs
         \/ \E s \in {"FAIL", "WAITING_FOR_CHAT"} : Ends(p, s)
  BY DEF PipeAcqSeen
<1>3. {"calc", "ai"} \subseteq Points /\ {"FAIL", "WAITING_FOR_CHAT"} \subseteq Statuses
  BY DEF Points, Statuses, Live, Terminal
<1> QED
  BY <1>0, <1>1, <1>2, <1>3, GoMoves, EndMoves

\* Resolve writes the verdict and the input of one directory and nothing else.
LEMMA Resolved ==
    ASSUME JobsTyped, NEW a \in Jobs, NEW v \in {"PASS", "FAIL"}, out' = Resolve(a, v)
    PROVE  /\ out' \in Seq(Dir) /\ Len(out') = Len(out)
           /\ out'[a] = [out[a] EXCEPT !.valid = v, !.trusted = (v = "PASS")]
           /\ out'[a].result = out[a].result /\ out'[a].audit = out[a].audit
           /\ out'[a].class = out[a].class /\ out'[a].data = out[a].data
           /\ out'[a].cutoff = out[a].cutoff /\ out'[a].checked = out[a].checked
           /\ \A i \in Jobs \ {a} : out'[i] = out[i]
<1> DEFINE d == [out[a] EXCEPT !.valid = v, !.trusted = (v = "PASS")]
<1>1. out[a] \in Dir /\ DOMAIN out = Jobs
  BY Typed
<1>2. /\ d \in Dir /\ d.result = out[a].result /\ d.audit = out[a].audit
      /\ d.class = out[a].class /\ d.data = out[a].data /\ d.cutoff = out[a].cutoff
      /\ d.checked = out[a].checked
  BY <1>1 DEF Dir, Terminal
<1>3. out' = [out EXCEPT ![a] = d]
  BY <1>1 DEF Resolve
<1> HIDE DEF d
<1>4. out' \in Seq(Dir) /\ Len(out') = Len(out) /\ out'[a] = d /\ \A i \in Jobs \ {a} : out'[i] = out[i]
  BY <1>1, <1>2, <1>3, SeqSet DEF JobsTyped
<1> QED
  BY <1>2, <1>4 DEF d

\* The calculation of pipeline p joins; p's thread goes to q.
LEMMA CalcSpawns ==
    ASSUME IInv, NEW p \in Jobs, jobs[p].unit = "pipe", NEW q \in Points,
           NEW ats, ats = [at EXCEPT ![p] = q], StartsCalc(p, ats)
    PROVE  \E x \in Job, y \in Job :
             /\ Spawns(p, x, q, y)
             /\ x.unit = "pipe" /\ x.status = "RUNNING" /\ x.acq = jobs[p].acq
             /\ x.cutoff = jobs[p].cutoff /\ x.run = jobs[p].run /\ x.calc = Len(jobs) + 1
             /\ y.unit = "calc" /\ y.status = "PENDING" /\ y.run = None
             /\ y.cutoff = jobs[p].cutoff /\ y.day = y.cutoff /\ y.acq = jobs[p].acq
<1>0. JobsTyped /\ jobs[p] \in Job /\ DOMAIN jobs = Jobs /\ Len(jobs) + 1 \in Nat
  BY Typed DEF IInv, TypeOK, JobsTyped, Jobs
<1> DEFINE c == Len(jobs) + 1
           x == [jobs[p] EXCEPT !.status = "RUNNING", !.calc = c]
           z == NewJob("calc", "LATEST_SUCCESS", jobs[p].cutoff, jobs[p].ai)
           y == [z EXCEPT !.acq = jobs[p].acq]
<1>1. "RUNNING" \in Statuses /\ "calc" \in Units /\ "LATEST_SUCCESS" \in JobModes
  BY DEF Statuses, Live, Units, JobModes
<1>2. x \in Job /\ x.unit = "pipe" /\ x.status = "RUNNING" /\ x.acq = jobs[p].acq /\ x.cutoff = jobs[p].cutoff
      /\ x.run = jobs[p].run /\ x.calc = c
  <2>1. x \in Job
    BY <1>0, <1>1, JobFields
  <2> QED
    BY <1>0, <2>1 DEF Job
<1>3. jobs[p].acq \in Nat \cup {None} /\ jobs[p].cutoff \in Days \cup {None} /\ jobs[p].ai \in Executions
  BY <1>0 DEF Job
<1>4. z \in Job /\ z.unit = "calc" /\ z.status = "PENDING" /\ z.run = None
      /\ z.cutoff = jobs[p].cutoff /\ z.day = z.cutoff
  BY <1>1, <1>3, NewJobs, NewJobFields
<1>5. y \in Job /\ y.unit = "calc" /\ y.status = "PENDING" /\ y.run = None
      /\ y.cutoff = jobs[p].cutoff /\ y.day = y.cutoff /\ y.acq = jobs[p].acq
  <2> HIDE DEF z
  <2> QED
    BY <1>3, <1>4 DEF Job
<1>6. /\ jobs' = Append([jobs EXCEPT ![p] = x], y)
      /\ at' = Append([at EXCEPT ![p] = q], "start")
      /\ out' = Append(out, EmptyDir)
  BY <1>0 DEF StartsCalc, CalcOf, With, Spawn
<1> HIDE DEF x, y
<1>7. Spawns(p, x, q, y)
  BY <1>0, <1>2, <1>5, <1>6, MoveAndJoin DEF Spawns
<1> QED
  BY <1>2, <1>5, <1>7

LEMMA PipeCalcMoves ==
    ASSUME IInv, NEW p \in Jobs, PipeCalc(p)
    PROVE  /\ jobs[p].unit = "pipe" /\ at[p] = "calc" /\ jobs[p].acq # None
           /\ \/ \E x \in Job, y \in Job :
                   /\ Spawns(p, x, "calcwait", y)
                   /\ x.unit = "pipe" /\ x.status = "RUNNING" /\ x.acq = jobs[p].acq
                   /\ x.cutoff = jobs[p].cutoff /\ x.run = jobs[p].run /\ x.calc = Len(jobs) + 1
                   /\ y.unit = "calc" /\ y.status = "PENDING" /\ y.run = None
                   /\ y.cutoff = jobs[p].cutoff /\ y.day = y.cutoff /\ y.acq = jobs[p].acq
              \/ Moves(p, Rec(p, "FAIL"), "none", out[p]) /\ Rec(p, "FAIL") \in Job
<1>0. JobsTyped /\ {"calcwait"} \subseteq Points /\ {"FAIL"} \subseteq Statuses
  BY DEF IInv, TypeOK, Points, Statuses, Terminal
<1>1. jobs[p].unit = "pipe" /\ at[p] = "calc" /\ jobs[p].acq # None
  BY DEF PipeCalc, Is, IInv, ThreadsFit, Fits
<1>2. CASE StartsCalc(p, Goes(p, "calcwait"))
  BY <1>0, <1>1, <1>2, CalcSpawns DEF Goes
<1>3. CASE Ends(p, "FAIL") /\ UNCHANGED out
  BY <1>0, <1>1, <1>3, EndMoves
<1> QED
  BY <1>2, <1>3 DEF PipeCalc

LEMMA PipeEndMoves ==
    ASSUME IInv, NEW p \in Jobs, PipeCalcSeen(p) \/ PipeTimesOut(p)
    PROVE  /\ jobs[p].unit = "pipe" /\ at[p] # "none"
           /\ \E s \in {"PASS", "FAIL"} : Moves(p, Rec(p, s), "none", out[p]) /\ Rec(p, s) \in Job
<1>0. JobsTyped
  BY DEF IInv, TypeOK
<1>1. jobs[p].unit = "pipe" /\ at[p] # "none"
  BY DEF PipeCalcSeen, PipeTimesOut, Is
<1>2. UNCHANGED out /\ \E s \in {"PASS", "FAIL"} : Ends(p, s)
  BY DEF PipeCalcSeen, PipeTimesOut, AfterCalc
<1>3. {"PASS", "FAIL"} \subseteq Statuses
  BY DEF Statuses, Terminal
<1> QED
  BY <1>0, <1>1, <1>2, <1>3, EndMoves

-----------------------------------------------------------------------------
(* The threads that go on with a pipeline after the dialogue. *)

Resuming(t) == ResumeStarts(t) \/ ContinueCalc(t) \/ ContinueSeen(t) \/ ContinueTimesOut(t)

LEMMA Continued ==
    ASSUME IInv, NEW t \in DOMAIN continued
    PROVE  /\ continued[t].job \in Jobs /\ jobs[continued[t].job].unit = "pipe"
           /\ jobs[continued[t].job].acq # None
           /\ continued \in Seq(Following) /\ continued[t] \in Following
  BY DEF IInv, ContinuedFit, TypeOK, RestTyped

\* The status of j alone changes, whatever its thread does.
LEMMA StatusMoves ==
    ASSUME JobsTyped, NEW j \in Jobs, NEW s \in Statuses,
           jobs' = SetStatus(j, s), UNCHANGED <<at, out>>
    PROVE  Moves(j, Rec(j, s), at[j], out[j]) /\ Rec(j, s) \in Job
<1>1. at[j] \in Points /\ out[j] \in Dir
  BY Typed
<1>2. at' = Goes(j, at[j]) /\ out' = [out EXCEPT ![j] = out[j]]
  BY Typed DEF Goes, JobsTyped
<1> QED
  BY <1>1, <1>2, SetMoves

LEMMA ResumingMoves ==
    ASSUME IInv, NEW t \in DOMAIN continued, Resuming(t)
    PROVE  LET p == continued[t].job IN
           \/ UNCHANGED <<jobs, at, out>>
           \/ \E s \in {"RUNNING", "PASS", "FAIL"} :
                Moves(p, Rec(p, s), at[p], out[p]) /\ Rec(p, s) \in Job
           \/ \E x \in Job, y \in Job :
                /\ Spawns(p, x, at[p], y)
                /\ x.unit = "pipe" /\ x.status = "RUNNING" /\ x.acq = jobs[p].acq
                /\ x.cutoff = jobs[p].cutoff /\ x.run = jobs[p].run /\ x.calc = Len(jobs) + 1
                /\ y.unit = "calc" /\ y.status = "PENDING" /\ y.run = None
                /\ y.cutoff = jobs[p].cutoff /\ y.day = y.cutoff /\ y.acq = jobs[p].acq
<1>1. PICK p : p = continued[t].job
  OBVIOUS
<1>2. p \in Jobs /\ jobs[p].unit = "pipe" /\ JobsTyped
  BY <1>1, Continued DEF IInv, TypeOK
<1>3. at[p] \in Points /\ at = [at EXCEPT ![p] = at[p]] /\ {"RUNNING", "PASS", "FAIL"} \subseteq Statuses
  BY <1>2, Typed DEF JobsTyped, Statuses, Live, Terminal
<1>4. \/ UNCHANGED <<jobs, at, out>>
      \/ \E s \in {"RUNNING", "PASS", "FAIL"} : jobs' = SetStatus(p, s) /\ UNCHANGED <<at, out>>
      \/ StartsCalc(p, at)
  BY <1>1 DEF Resuming, ResumeStarts, ContinueCalc, ContinueSeen, ContinueTimesOut, AfterCalc
<1>5. CASE \E s \in {"RUNNING", "PASS", "FAIL"} : jobs' = SetStatus(p, s) /\ UNCHANGED <<at, out>>
  BY <1>1, <1>2, <1>3, <1>5, StatusMoves
<1>6. CASE StartsCalc(p, at)
  BY <1>1, <1>2, <1>3, <1>6, CalcSpawns
<1> QED
  BY <1>4, <1>5, <1>6

-----------------------------------------------------------------------------
(* The full runtime. *)

LEMMA FullStartMoves ==
    ASSUME IInv, NEW f \in Jobs, FullStart(f)
    PROVE  /\ jobs[f].unit = "full" /\ at[f] = "start" /\ UNCHANGED <<runs, registry>>
           /\ \/ \E x \in Job, y \in Job :
                   /\ Spawns(f, x, "mapwait", y)
                   /\ x.unit = "full" /\ x.status = "RUNNING" /\ x.acq = jobs[f].acq
                   /\ x.run = jobs[f].run /\ x.mode = jobs[f].mode /\ x.day = jobs[f].day
                   /\ x.cutoff = jobs[f].cutoff /\ x.seen = jobs[f].seen
                   /\ y = NewJob("pipe", "CLOSE", day, "AUTO_API")
              \/ latest # None /\ Moves(f, Rec(f, "RUNNING"), "ready", out[f]) /\ Rec(f, "RUNNING") \in Job
              \/ Moves(f, Rec(f, "FAIL"), "none", out[f]) /\ Rec(f, "FAIL") \in Job
<1>0. JobsTyped /\ jobs[f] \in Job /\ DOMAIN jobs = Jobs /\ Len(jobs) + 1 \in Nat /\ out[f] \in Dir
      /\ day \in Days
  BY Typed DEF IInv, TypeOK, JobsTyped, Jobs, RestTyped
<1>1. jobs[f].unit = "full" /\ at[f] = "start" /\ UNCHANGED <<runs, registry>>
  BY DEF FullStart, Is, results
<1>2. {"RUNNING", "FAIL"} \subseteq Statuses /\ {"mapwait", "ready", "none"} \subseteq Points
      /\ "pipe" \in Units /\ "CLOSE" \in JobModes /\ "AUTO_API" \in Executions
  BY DEF Statuses, Live, Terminal, Points, Units, JobModes, SnapshotModesAsked, Executions
<1> DEFINE p == Len(jobs) + 1
           x == [jobs[f] EXCEPT !.status = "RUNNING", !.child = p]
           y == NewJob("pipe", "CLOSE", day, "AUTO_API")
<1>3. \/ /\ jobs' = Append([jobs EXCEPT ![f] = x], y)
         /\ at' = Append([at EXCEPT ![f] = "mapwait"], "start")
         /\ out' = Append(out, EmptyDir)
      \/ /\ latest # None /\ jobs' = SetStatus(f, "RUNNING") /\ at' = Goes(f, "ready")
         /\ UNCHANGED out
      \/ Ends(f, "FAIL") /\ UNCHANGED out
  BY <1>0 DEF FullStart, With, Spawn, Goes
<1>4. x \in Job /\ x.unit = "full" /\ x.status = "RUNNING" /\ x.acq = jobs[f].acq
      /\ x.run = jobs[f].run /\ x.mode = jobs[f].mode /\ x.day = jobs[f].day
      /\ x.cutoff = jobs[f].cutoff /\ x.seen = jobs[f].seen
  <2>1. x \in Job
    BY <1>0, <1>2, JobFields
  <2> QED
    BY <1>0, <1>1, <2>1 DEF Job
<1>5. y \in Job
  BY <1>0, <1>2, NewJobs
<1>6. CASE /\ jobs' = Append([jobs EXCEPT ![f] = x], y)
           /\ at' = Append([at EXCEPT ![f] = "mapwait"], "start")
           /\ out' = Append(out, EmptyDir)
  <2> HIDE DEF x, y
  <2>1. Spawns(f, x, "mapwait", y)
    BY <1>0, <1>2, <1>4, <1>5, <1>6, MoveAndJoin DEF Spawns
  <2> QED
    BY <1>1, <1>4, <1>5, <2>1 DEF y
<1>7. CASE /\ latest # None /\ jobs' = SetStatus(f, "RUNNING") /\ at' = Goes(f, "ready")
           /\ UNCHANGED out
  <2>1. out' = [out EXCEPT ![f] = out[f]]
    BY <1>0, <1>7 DEF JobsTyped
  <2> QED
    BY <1>0, <1>1, <1>2, <1>7, <2>1, SetMoves
<1>8. CASE Ends(f, "FAIL") /\ UNCHANGED out
  BY <1>0, <1>1, <1>2, <1>8, EndMoves
<1> QED
  BY <1>3, <1>6, <1>7, <1>8

LEMMA FullMapMoves ==
    ASSUME IInv, NEW f \in Jobs, FullMapSeen(f) \/ FullTimesOut(f)
    PROVE  /\ jobs[f].unit = "full" /\ at[f] = "mapwait" /\ UNCHANGED <<runs, registry>>
           /\ \/ latest # None /\ Moves(f, jobs[f], "ready", out[f])
              \/ Moves(f, Rec(f, "FAIL"), "none", out[f]) /\ Rec(f, "FAIL") \in Job
<1>0. JobsTyped /\ {"FAIL"} \subseteq Statuses /\ "ready" \in Points
  BY DEF IInv, TypeOK, Statuses, Terminal, Points
<1>1. jobs[f].unit = "full" /\ at[f] = "mapwait" /\ UNCHANGED <<runs, registry>>
  BY DEF FullMapSeen, FullTimesOut, Is, results
<1>2. /\ UNCHANGED out
      /\ \/ latest # None /\ at' = Goes(f, "ready") /\ UNCHANGED jobs
         \/ Ends(f, "FAIL")
  BY DEF FullMapSeen, FullTimesOut
<1> QED
  BY <1>0, <1>1, <1>2, GoMoves, EndMoves

LEMMA FullBeginMoves ==
    ASSUME IInv, NEW f \in Jobs, FullBegin(f)
    PROVE  \E x \in Job :
             /\ jobs[f].unit = "full" /\ at[f] = "ready" /\ UNCHANGED registry
             /\ Moves(f, x, "front", out[f])
             /\ x.unit = "full" /\ x.status = jobs[f].status /\ x.acq = jobs[f].acq
             /\ x.run = Len(runs) + 1 /\ x.mode = jobs[f].mode /\ x.day = jobs[f].day
             /\ x.cutoff = jobs[f].cutoff /\ x.seen = jobs[f].seen /\ x.calc = jobs[f].calc
             /\ runs' = Append(runs, [job |-> f, snap |-> latest, status |-> "RUNNING"])
             /\ latest \in Jobs
<1>0. JobsTyped /\ jobs[f] \in Job /\ DOMAIN jobs = Jobs /\ out[f] \in Dir /\ Len(runs) + 1 \in Nat
      /\ latest \in Jobs \cup {None} /\ "front" \in Points
  BY Typed DEF IInv, TypeOK, RestTyped, Jobs, Points, Downstream
<1>1. jobs[f].unit = "full" /\ at[f] = "ready" /\ UNCHANGED registry
      /\ runs' = Append(runs, [job |-> f, snap |-> latest, status |-> "RUNNING"])
  BY DEF FullBegin, Is
<1>2. latest \in Jobs
  BY <1>0, <1>1 DEF IInv, RunsFit, FullJobs
<1> DEFINE x == [jobs[f] EXCEPT !.run = Len(runs) + 1]
<1>3. x \in Job /\ x.unit = "full" /\ x.status = jobs[f].status /\ x.acq = jobs[f].acq
      /\ x.run = Len(runs) + 1 /\ x.mode = jobs[f].mode /\ x.day = jobs[f].day
      /\ x.cutoff = jobs[f].cutoff /\ x.seen = jobs[f].seen /\ x.calc = jobs[f].calc
  <2>1. x \in Job
    BY <1>0, JobFields
  <2> QED
    BY <1>0, <1>1, <2>1 DEF Job
<1>4. jobs' = [jobs EXCEPT ![f] = x] /\ at' = [at EXCEPT ![f] = "front"]
      /\ out' = [out EXCEPT ![f] = out[f]]
  BY <1>0 DEF FullBegin, Goes, JobsTyped
<1> HIDE DEF x
<1>5. Moves(f, x, "front", out[f])
  BY <1>0, <1>3, <1>4, MoveIsMove
<1> QED
  BY <1>1, <1>2, <1>3, <1>5

\* The steps of a run under way: the run's status at most.
LEMMA FullRunMoves ==
    ASSUME IInv, NEW f \in Jobs, FullFront(f) \/ FullProject(f) \/ FullComplete(f)
    PROVE  /\ jobs[f].unit = "full" /\ at[f] \in {"front", "project", "complete"}
           /\ UNCHANGED registry
           /\ \E q \in {"project", "complete"} \cup Ended :
                /\ Moves(f, jobs[f], q, out[f])
                /\ \/ UNCHANGED runs /\ q \notin Ended
                   \/ q \in Ended /\ runs' = [runs EXCEPT ![jobs[f].run].status = q]
<1>0. JobsTyped /\ {"project", "complete"} \cup Ended \subseteq Points
  BY DEF IInv, TypeOK, Points, Downstream
<1>1. jobs[f].unit = "full" /\ at[f] \in {"front", "project", "complete"} /\ UNCHANGED registry
      /\ UNCHANGED <<jobs, out>>
  BY DEF FullFront, FullProject, FullComplete, Is
<1>2. \E q \in {"project", "complete"} \cup Ended :
        /\ at' = Goes(f, q)
        /\ \/ UNCHANGED runs /\ q \notin Ended
           \/ q \in Ended /\ runs' = [runs EXCEPT ![jobs[f].run].status = q]
  BY DEF FullFront, FullProject, FullComplete, Ended
<1> QED
  BY <1>0, <1>1, <1>2, GoMoves

LEMMA FullReportMoves ==
    ASSUME IInv, NEW f \in Jobs, FullReport(f)
    PROVE  \E x \in Job :
             /\ jobs[f].unit = "full" /\ at[f] \in Ended /\ UNCHANGED <<runs, registry>>
             /\ Moves(f, x, "none", out[f])
             /\ x.unit = "full" /\ x.acq = jobs[f].acq /\ x.run = jobs[f].run /\ x.calc = jobs[f].calc
             /\ x.mode = jobs[f].mode /\ x.day = jobs[f].day /\ x.seen = jobs[f].seen
             /\ x.status = at[f]
<1>0. JobsTyped /\ jobs[f] \in Job /\ DOMAIN jobs = Jobs /\ out[f] \in Dir
      /\ "none" \in Points
  BY Typed DEF IInv, TypeOK, RestTyped, Jobs, Points
<1>1. PICK s \in Ended :
        /\ Is(f, "full", s)
        /\ jobs' = [jobs EXCEPT ![f].status = s,
                                ![f].cutoff = IF s = "FAIL" THEN @
                                              ELSE out[runs[jobs[f].run].snap].cutoff]
  BY DEF FullReport, Ended
<1>2. /\ jobs[f].unit = "full" /\ at[f] = s /\ s \in Statuses
      /\ UNCHANGED <<runs, registry, out>> /\ at' = [at EXCEPT ![f] = "none"]
  BY <1>1 DEF FullReport, Is, results, Ended, Statuses, Live, Terminal, Goes
<1>3. jobs[f].run \in DOMAIN runs
  BY <1>2 DEF IInv, RunsFit, FullJobs, Downstream
<1> DEFINE c == IF s = "FAIL" THEN jobs[f].cutoff ELSE out[runs[jobs[f].run].snap].cutoff
           x == [jobs[f] EXCEPT !.status = s, !.cutoff = c]
<1>4. c \in Days \cup {None}
  <2>1. runs[jobs[f].run].snap \in Jobs
    BY <1>3 DEF IInv, RunsFit
  <2>2. out[runs[jobs[f].run].snap] \in Dir
    BY <1>0, <2>1, Typed
  <2> QED
    BY <1>0, <2>2 DEF Dir, Job
<1>5. jobs' = [jobs EXCEPT ![f] = x] /\ out' = [out EXCEPT ![f] = out[f]]
  <2>1. jobs' = [jobs EXCEPT ![f] = x]
    BY <1>0, <1>1 DEF Job
  <2>2. [out EXCEPT ![f] = out[f]] = out
    BY <1>0 DEF JobsTyped
  <2> QED
    BY <1>2, <2>1, <2>2
<1> HIDE DEF c
<1>6. x \in Job /\ x.unit = "full" /\ x.acq = jobs[f].acq /\ x.run = jobs[f].run /\ x.calc = jobs[f].calc
      /\ x.mode = jobs[f].mode /\ x.day = jobs[f].day /\ x.seen = jobs[f].seen /\ x.status = s
  <2>1. x \in Job
    BY <1>0, <1>2, <1>4, JobFields
  <2> QED
    BY <1>0, <1>2, <2>1 DEF Job
<1> HIDE DEF x
<1>7. Moves(f, x, "none", out[f])
  BY <1>0, <1>2, <1>5, <1>6, MoveIsMove
<1> QED
  BY <1>2, <1>6, <1>7

\* The last writes of a resumed run touch its job only when it has reported.
LEMMA ResumeCompleteMoves ==
    ASSUME IInv, NEW r \in DOMAIN runs, ResumeComplete(r)
    PROVE  LET g == runs[r].job IN
           /\ runs[r].status = "WAITING_FOR_CHAT" /\ runs' = [runs EXCEPT ![r].status = "PASS"]
           /\ resumes' = resumes \ {r} /\ UNCHANGED registry
           /\ g \in Jobs /\ jobs[g].unit = "full" /\ jobs[g].status # "FAIL"
           /\ \/ UNCHANGED <<jobs, at, out>>
              \/ at[g] = "none" /\ Moves(g, Rec(g, "PASS"), "none", out[g]) /\ Rec(g, "PASS") \in Job
<1> DEFINE g == runs[r].job
<1>0. JobsTyped /\ DOMAIN jobs = Jobs
  BY DEF IInv, TypeOK, Jobs
<1>1. r \in resumes /\ runs' = [runs EXCEPT ![r].status = "PASS"] /\ resumes' = resumes \ {r}
      /\ UNCHANGED <<registry, at, out>>
      /\ jobs' = IF Reported(r) THEN SetStatus(g, "PASS") ELSE jobs
  BY DEF ResumeComplete
<1>2. runs[r].status = "WAITING_FOR_CHAT" /\ g \in Jobs /\ jobs[g].unit = "full" /\ jobs[g].status # "FAIL"
  BY <1>1 DEF IInv, RunsFit, FullJobs
<1>3. CASE Reported(r)
  <2>1. at[g] = "none" /\ "none" \in Points /\ "PASS" \in Statuses
    BY <1>3 DEF Reported, Points, Statuses, Terminal
  <2>2. at' = Goes(g, "none") /\ out' = [out EXCEPT ![g] = out[g]] /\ out[g] \in Dir
    BY <1>0, <1>1, <1>2, <2>1, Typed DEF Goes, JobsTyped
  <2> QED
    BY <1>0, <1>1, <1>2, <1>3, <2>1, <2>2, SetMoves
<1>4. CASE ~Reported(r)
  BY <1>1, <1>2, <1>4
<1> QED
  BY <1>3, <1>4

-----------------------------------------------------------------------------
(* Requests and the script. *)

Asking == InsertClose \/ PostLatest \/ PostMap \/ PostAcq \/ PostCalc \/ ScriptStart \/ ScriptMap

LEMMA InsertJoins ==
    ASSUME JobsTyped, NEW y \in Job, Insert(y)
    PROVE  Joins(Len(jobs) + 1, y) /\ \A i \in Jobs : Same(i)
  BY JoinIsJoin DEF Insert

\* What is asked for is a new job: of a formal run where one was admitted alone, and of
\* no pipeline's acquisition or calculation.
AsksFor(y) ==
    /\ Joins(Len(jobs) + 1, y) /\ Fresh(y) /\ \A i \in Jobs : Same(i)
    /\ y.calc = None
    /\ \/ UNCHANGED admitted /\ ~(y.unit = "full" /\ y.mode = "CLOSE")
       \/ /\ admitted # <<>> /\ admitted' = Tail(admitted)
          /\ y.unit = "full" /\ y.cutoff = Head(admitted).day /\ y.seen = Head(admitted).seen

LEMMA AsksForOne ==
    ASSUME JobsTyped, NEW y \in Job, Insert(y), y.status = "PENDING", y.run = None,
           y.day = y.cutoff, y.calc = None,
           \/ y.unit # "calc" /\ y.acq = None
           \/ y.unit = "calc" /\ y.acq \in Jobs /\ jobs[y.acq].unit = "acq",
           \/ UNCHANGED admitted /\ ~(y.unit = "full" /\ y.mode = "CLOSE")
           \/ /\ admitted # <<>> /\ admitted' = Tail(admitted)
              /\ y.unit = "full" /\ y.cutoff = Head(admitted).day /\ y.seen = Head(admitted).seen
    PROVE  AsksFor(y)
  BY InsertJoins DEF AsksFor, Fresh

LEMMA AskingJoins ==
    ASSUME IInv, Asking
    PROVE  /\ UNCHANGED <<runs, resumes, registry, clock, lost, continued>>
           /\ \/ UNCHANGED <<jobs, at, out, admitted>>
              \/ \E y \in Job : AsksFor(y)
<1>0. JobsTyped /\ RestTyped /\ DOMAIN jobs = Jobs
  BY DEF IInv, TypeOK, Jobs
<1>1. /\ {"acq", "calc", "pipe", "full"} \subseteq Units
      /\ SnapshotModesAsked \cup {"LATEST_FORMAL", "LATEST_SUCCESS"} \subseteq JobModes
      /\ {"CLOSE", "PRE_TRADE_CLOSE"} \subseteq JobModes
      /\ Modes \cup {"AUTO_API", None} \subseteq Executions
      /\ 1..day \subseteq Days /\ day \in Days /\ LastTradeDay \in Days
  <2>1. day \in Days /\ LastTradeDay \in Days
    BY <1>0, LastTradeDays DEF RestTyped
  <2>2. 1..day \subseteq Days
    BY <2>1, WebConstants DEF Days
  <2>3. Modes \cup {"AUTO_API", None} \subseteq Executions
    BY WebConstants DEF Executions
  <2> QED
    BY <2>1, <2>2, <2>3 DEF Units, JobModes, SnapshotModesAsked
<1>2. UNCHANGED <<runs, resumes, registry, clock, lost, continued>>
  BY DEF Asking, InsertClose, PostLatest, PostMap, PostAcq, PostCalc, ScriptStart, ScriptMap, results
<1>3. ASSUME NEW unit \in {"pipe", "full"}, NEW m \in JobModes,
             NEW cutoff \in Days \cup {None}, NEW ai \in Executions,
             Insert(NewJob(unit, m, cutoff, ai)), UNCHANGED admitted,
             ~(unit = "full" /\ m = "CLOSE")
      PROVE  \E y \in Job : AsksFor(y)
  <2> DEFINE y == NewJob(unit, m, cutoff, ai)
  <2>1. y \in Job
    BY <1>1, <1>3, NewJobs
  <2>2. y.unit = unit /\ y.mode = m /\ y.cutoff = cutoff /\ y.day = cutoff
        /\ y.status = "PENDING" /\ y.acq = None /\ y.run = None /\ y.calc = None
    BY NewJobFields
  <2>3. Insert(y)
    BY <1>3
  <2> HIDE DEF y
  <2> QED
    BY <1>0, <1>3, <2>1, <2>2, <2>3, AsksForOne
<1>4. ASSUME NEW unit \in {"pipe", "acq"}, NEW m \in SnapshotModesAsked,
             NEW w \in Wanted(m), NEW ai \in Executions,
             Insert([NewJob(unit, m, w.cutoff, ai) EXCEPT !.src = w.prices]), UNCHANGED admitted
      PROVE  \E y \in Job : AsksFor(y)
  <2>1. w.cutoff \in Days \cup {None} /\ w.prices \in Nat \cup {None}
    <3>1. CASE m = "HISTORICAL_REPLAY"
      <4>1. PICK c \in registered : w = [cutoff |-> out[c].cutoff, prices |-> out[c].data]
        BY <1>4, <3>1 DEF Wanted
      <4>2. out[c] \in Dir
        BY <1>0, <4>1, Typed DEF RestTyped
      <4> QED
        BY <4>1, <4>2 DEF Dir
    <3>2. CASE m # "HISTORICAL_REPLAY"
      <4>1. w \in [cutoff : 1..day, prices : {None}]
        BY <1>4, <3>2 DEF Wanted
      <4> QED
        BY <1>1, <4>1
    <3> QED
      BY <3>1, <3>2
  <2> DEFINE z == NewJob(unit, m, w.cutoff, ai)
             y == [z EXCEPT !.src = w.prices]
  <2>2. z \in Job
    <3>1. unit \in Units /\ m \in JobModes
      BY <1>1, <1>4
    <3> QED
      BY <2>1, <3>1, NewJobs
  <2>3. z.unit = unit /\ z.mode = m /\ z.cutoff = w.cutoff /\ z.day = w.cutoff
        /\ z.status = "PENDING" /\ z.acq = None /\ z.run = None /\ z.calc = None
    BY NewJobFields
  <2>4. Insert(y)
    BY <1>4
  <2> HIDE DEF z
  <2>5. y \in Job /\ y.unit = unit /\ y.cutoff = w.cutoff /\ y.day = w.cutoff
        /\ y.status = "PENDING" /\ y.acq = None /\ y.run = None /\ y.calc = None
    BY <2>1, <2>2, <2>3, WithSource
  <2> HIDE DEF y
  <2> QED
    BY <1>0, <1>4, <2>4, <2>5, AsksForOne
<1>5. CASE InsertClose
  <2>1. PICK ai \in Modes :
          Insert([NewJob("full", "CLOSE", Head(admitted).day, ai) EXCEPT !.seen = Head(admitted).seen])
    BY <1>5 DEF InsertClose
  <2>2. admitted # <<>> /\ admitted' = Tail(admitted) /\ Head(admitted) \in Admission
    BY <1>0, <1>5 DEF InsertClose, RestTyped
  <2>3. Head(admitted).day \in Days /\ Head(admitted).seen \in Nat
    BY <2>2 DEF Admission
  <2> DEFINE z == NewJob("full", "CLOSE", Head(admitted).day, ai)
             y == [z EXCEPT !.seen = Head(admitted).seen]
  <2>4. z \in Job
    BY <1>1, <2>1, <2>3, NewJobs
  <2>5. z.unit = "full" /\ z.mode = "CLOSE" /\ z.cutoff = Head(admitted).day /\ z.day = z.cutoff
        /\ z.status = "PENDING" /\ z.acq = None /\ z.run = None /\ z.calc = None
    BY NewJobFields
  <2>6. Insert(y)
    BY <2>1
  <2> HIDE DEF z
  <2>7. y \in Job /\ y.unit = "full" /\ y.cutoff = Head(admitted).day /\ y.day = y.cutoff
        /\ y.status = "PENDING" /\ y.acq = None /\ y.run = None /\ y.calc = None
        /\ y.seen = Head(admitted).seen
    BY <2>3, <2>4, <2>5, WithSeen
  <2> HIDE DEF y
  <2>8. AsksFor(y)
    BY <1>0, <2>2, <2>6, <2>7, AsksForOne
  <2> QED
    BY <1>2, <2>7, <2>8
<1>6. CASE PostLatest
  <2>1. PICK ai \in Modes : Insert(NewJob("full", "LATEST_FORMAL", None, ai))
    BY <1>6 DEF PostLatest
  <2>2. UNCHANGED admitted
    BY <1>6 DEF PostLatest
  <2> QED
    BY <1>1, <1>2, <1>3, <2>1, <2>2
<1>7. CASE PostMap
  <2>1. PICK ai \in Modes, m \in SnapshotModesAsked : \E w \in Wanted(m) :
          Insert([NewJob("pipe", m, w.cutoff, ai) EXCEPT !.src = w.prices])
    BY <1>7 DEF PostMap
  <2>2. UNCHANGED admitted
    BY <1>7 DEF PostMap
  <2> QED
    BY <1>1, <1>2, <1>4, <2>1, <2>2
<1>8. CASE PostAcq
  <2>1. PICK m \in SnapshotModesAsked : \E w \in Wanted(m) :
          Insert([NewJob("acq", m, w.cutoff, None) EXCEPT !.src = w.prices])
    BY <1>8 DEF PostAcq
  <2>2. UNCHANGED admitted
    BY <1>8 DEF PostAcq
  <2> QED
    BY <1>1, <1>2, <1>4, <2>1, <2>2
<1>9. CASE PostCalc
  <2>1. PICK a \in Jobs, cutoff \in 1..day :
          /\ jobs[a].unit = "acq"
          /\ Insert([NewJob("calc", "LATEST_SUCCESS", cutoff, None) EXCEPT !.acq = a])
    BY <1>9 DEF PostCalc
  <2> DEFINE z == NewJob("calc", "LATEST_SUCCESS", cutoff, None)
             y == [z EXCEPT !.acq = a]
  <2>2. z \in Job
    BY <1>1, NewJobs
  <2>3. z.unit = "calc" /\ z.cutoff = cutoff /\ z.day = cutoff /\ z.status = "PENDING" /\ z.run = None
        /\ z.calc = None
    BY NewJobFields
  <2>4. Insert(y)
    BY <2>1
  <2>5. a \in Nat
    BY <1>0, <2>1, Typed
  <2> HIDE DEF z
  <2>6. y \in Job
    BY <2>2, <2>5, JobFields
  <2>7. y.unit = "calc" /\ y.cutoff = cutoff /\ y.day = cutoff /\ y.status = "PENDING" /\ y.run = None
        /\ y.acq = a /\ y.calc = None
    BY <2>2, <2>3 DEF Job
  <2>8. UNCHANGED admitted
    BY <1>9 DEF PostCalc
  <2> HIDE DEF y
  <2>9. AsksFor(y)
    BY <1>0, <2>1, <2>4, <2>6, <2>7, <2>8, AsksForOne
  <2> QED
    BY <1>2, <2>6, <2>9
<1>10. CASE ScriptStart
  <2>0. UNCHANGED admitted
    BY <1>10 DEF ScriptStart
  <2>1. CASE RunIntent = "SKIP"
    BY <1>2, <1>10, <2>0, <2>1 DEF ScriptStart
  <2>2. CASE RunIntent # "SKIP"
    <3>1. PICK ai \in Modes : Insert(NewJob("pipe", RunIntent, LastTradeDay, ai))
      BY <1>10, <2>2 DEF ScriptStart
    <3>2. RunIntent \in {"CLOSE", "PRE_TRADE_CLOSE"}
      BY <2>2 DEF RunIntent
    <3> QED
      BY <1>1, <1>2, <1>3, <2>0, <3>1, <3>2
  <2> QED
    BY <2>1, <2>2
<1>11. CASE ScriptMap
  <2>1. Insert(NewJob("full", "LATEST_FORMAL", None, "AUTO_API")) /\ UNCHANGED admitted
    BY <1>11 DEF ScriptMap
  <2> QED
    BY <1>1, <1>2, <1>3, <2>1
<1> QED
  BY <1>5, <1>6, <1>7, <1>8, <1>9, <1>10, <1>11 DEF Asking

-----------------------------------------------------------------------------
(* The invariant holds. *)

Kept == ThreadsFit /\ AcquisitionsAreOwn /\ RunsFit

LEMMA InvInit == Init => IInv
<1> SUFFICES ASSUME Init PROVE IInv
  OBVIOUS
<1>1. JobsTyped /\ Jobs = {}
  BY DEF Init, JobsTyped, Jobs
<1>2. RestTyped
  <2>1. 1 \in Days
    BY WebConstants DEF Days
  <2>2. /\ runs \in Seq(Run) /\ admitted \in Seq(Admission) /\ continued \in Seq(Following)
        /\ registered = {} /\ resumes = {}
    BY DEF Init
  <2>3. day = 1 /\ closed = FALSE /\ latest = None
    BY DEF Init
  <2> QED
    BY <2>1, <2>2, <2>3 DEF RestTyped
<1>3. DOMAIN runs = {} /\ DOMAIN continued = {}
  BY DEF Init
<1> QED
  BY <1>1, <1>2, <1>3
     DEF IInv, TypeOK, ThreadsFit, AcquisitionsAreOwn, ContinuedFit, RunsFit, FullJobs

\* A job that starts another and waits for it.
LEMMA SpawnKeeps ==
    ASSUME IInv, NEW j \in Jobs, NEW x \in Job, NEW p \in Points, NEW y \in Job,
           Spawns(j, x, p, y), Fits(x, p, out[j]), y.unit # "full",
           y.status = "PENDING", y.run = None,
           x.unit = jobs[j].unit, x.run = jobs[j].run,
           \/ /\ x.acq = jobs[j].acq
              /\ \/ y.unit # "calc" /\ y.acq = None
                 \/ y.unit = "calc" /\ y.acq \in Jobs /\ jobs[y.acq].unit = "acq"
           \/ x.acq = Len(jobs) + 1 /\ y.unit = "acq" /\ y.acq = None /\ x.unit = "pipe",
           x.unit = "full" => /\ p \notin {"ready"} \cup Downstream
                              /\ \A r \in DOMAIN runs : runs[r].job # j,
           UNCHANGED <<runs, resumes, latest>>
    PROVE  JobsTyped' /\ Kept'
<1> DEFINE n == Len(jobs) + 1
<1>0. Joins(n, y) /\ jobs'[j] = x /\ at'[j] = p /\ out'[j] = out[j] /\ \A i \in Jobs \ {j} : Same(i)
  BY DEF Spawns
<1>1. None \notin Jobs /\ n \notin Jobs /\ n # None
  <2>1. n \in Nat /\ Jobs \subseteq Nat
    BY Typed DEF IInv, TypeOK, JobsTyped
  <2> QED
    BY <1>0, <2>1, WebConstants DEF Joins
<1>2. Fits(y, "start", EmptyDir)
  <2>1. EmptyDir.result = None /\ EmptyDir.class = None
    BY DEF EmptyDir
  <2> QED
    BY <1>1, <2>1 DEF Fits
<1>3. /\ \/ x.acq = jobs[j].acq
         \/ x.acq = n /\ y.unit = "acq" /\ y.acq = None /\ x.unit = "pipe"
      /\ y.acq # None => y.unit = "calc" /\ y.acq \in Jobs /\ jobs[y.acq].unit = "acq"
  OBVIOUS
<1> HIDE DEF n
<1> USE <1>0, <1>1 DEF IInv, Joins, Same
<1>4. ThreadsFit'
  BY <1>2 DEF ThreadsFit
<1>5. AcquisitionsAreOwn'
  <2>1. CASE x.acq = jobs[j].acq
    BY <1>3, <2>1 DEF AcquisitionsAreOwn
  <2>2. CASE x.acq = n /\ y.unit = "acq" /\ y.acq = None /\ x.unit = "pipe"
    <3>1. \A i \in Jobs : jobs'[i].unit = jobs[i].unit
      OBVIOUS
    <3>2. \A i \in Jobs \ {j} : jobs'[i].acq = jobs[i].acq /\ jobs'[i].acq # n
      BY DEF AcquisitionsAreOwn
    <3> QED
      BY <2>2, <3>1, <3>2 DEF AcquisitionsAreOwn
  <2> QED
    BY <1>3, <2>1, <2>2
<1>6. RunsFit'
  BY DEF RunsFit, FullJobs, Downstream, Ended
<1> QED
  BY <1>4, <1>5, <1>6 DEF Kept

\* The verdict on a resolution touches the input of one acquisition.
LEMMA ResolveKeeps ==
    ASSUME IInv, NEW p \in Jobs, jobs[p].unit = "pipe", jobs[p].acq # None,
           NEW v \in {"PASS", "FAIL"}, out' = Resolve(jobs[p].acq, v),
           UNCHANGED <<runs, resumes, latest>>,
           \/ UNCHANGED <<jobs, at>>
           \/ /\ at' = Goes(p, "calc") \/ at' = Goes(p, "none")
              /\ UNCHANGED jobs \/ \E s \in Terminal : jobs' = SetStatus(p, s)
    PROVE  JobsTyped' /\ Kept'
<1> DEFINE a == jobs[p].acq
<1>0. JobsTyped /\ DOMAIN jobs = Jobs /\ DOMAIN at = Jobs
  BY Typed DEF IInv, TypeOK, Jobs
<1>1. a \in Jobs /\ jobs[a].unit = "acq" /\ a # p
  BY DEF IInv, AcquisitionsAreOwn
<1>2. /\ out' \in Seq(Dir) /\ Len(out') = Len(out)
      /\ out'[a].result = out[a].result /\ out'[a].audit = out[a].audit
      /\ out'[a].class = out[a].class /\ \A i \in Jobs \ {a} : out'[i] = out[i]
  BY <1>0, <1>1, Resolved
<1>3. /\ jobs' \in Seq(Job) /\ Len(jobs') = Len(jobs) /\ Jobs' = Jobs
      /\ \A i \in Jobs \ {p} : jobs'[i] = jobs[i]
      /\ jobs'[p] = jobs[p] \/ \E s \in Terminal : jobs'[p] = Rec(p, s)
  <2>1. CASE UNCHANGED jobs
    BY <1>0, <2>1 DEF JobsTyped, Jobs
  <2>2. ASSUME NEW s \in Terminal, jobs' = SetStatus(p, s)
        PROVE  <1>3
    <3>1. Rec(p, s) \in Job
      BY <1>0, Typed, JobFields DEF Rec, Statuses
    <3>2. jobs' = [jobs EXCEPT ![p] = Rec(p, s)]
      BY <2>2 DEF SetStatus, Rec
    <3>3. jobs' \in Seq(Job) /\ Len(jobs') = Len(jobs) /\ DOMAIN jobs' = DOMAIN jobs
          /\ jobs'[p] = Rec(p, s) /\ \A i \in DOMAIN jobs \ {p} : jobs'[i] = jobs[i]
      BY <1>0, <3>1, <3>2, SeqSet DEF JobsTyped
    <3> QED
      BY <1>0, <3>3 DEF Jobs
  <2> QED
    BY <2>1, <2>2
<1>4. /\ at' \in Seq(Points) /\ Len(at') = Len(at)
      /\ \A i \in Jobs \ {p} : at'[i] = at[i]
      /\ at'[p] = at[p] \/ at'[p] \in {"calc", "none"}
  <2>1. CASE UNCHANGED at
    BY <1>0, <2>1 DEF JobsTyped
  <2>2. ASSUME NEW q \in {"calc", "none"}, at' = Goes(p, q)
        PROVE  <1>4
    BY <1>0, <2>2, SeqSet DEF JobsTyped, Goes, Points
  <2> QED
    BY <2>1, <2>2
<1>5. /\ jobs'[p].unit = jobs[p].unit /\ jobs'[p].acq = jobs[p].acq /\ jobs'[p].run = jobs[p].run
  BY <1>0, <1>3, RecFields DEF Statuses
<1>6. JobsTyped'
  BY <1>0, <1>2, <1>3, <1>4 DEF JobsTyped
<1> HIDE DEF a
<1>7. ThreadsFit'
  <2> SUFFICES ASSUME NEW i \in Jobs PROVE Fits(jobs'[i], at'[i], out'[i])
    BY <1>3 DEF ThreadsFit
  <2>1. Fits(jobs[i], at[i], out[i])
    BY DEF IInv, ThreadsFit
  <2>2. /\ out'[i].result = out[i].result /\ out'[i].audit = out[i].audit
        /\ out'[i].class = out[i].class
    BY <1>2
  <2>3. CASE i = p
    BY <1>1, <1>3, <1>4, <1>5, <2>1, <2>2, <2>3 DEF Fits
  <2>4. CASE i # p
    BY <1>3, <1>4, <2>1, <2>2, <2>4 DEF Fits
  <2> QED
    BY <2>3, <2>4
<1>8. AcquisitionsAreOwn'
  <2>1. \A i \in Jobs : jobs'[i].unit = jobs[i].unit /\ jobs'[i].acq = jobs[i].acq
    BY <1>1, <1>3, <1>5
  <2>2. AcquisitionsAreOwn /\ Jobs' = Jobs
    BY <1>3 DEF IInv
  <2> QED
    BY <2>1, <2>2 DEF AcquisitionsAreOwn
<1>9. RunsFit'
  <2>1. FullJobs' = FullJobs /\ p \notin FullJobs /\ FullJobs \subseteq Jobs
    BY <1>3, <1>5 DEF FullJobs
  <2>2. \A i \in FullJobs : jobs'[i] = jobs[i] /\ at'[i] = at[i]
    BY <1>3, <1>4, <2>1
  <2>3. RunsFit /\ Jobs' = Jobs /\ UNCHANGED <<runs, resumes, latest>>
    BY <1>3 DEF IInv
  <2> QED
    BY <2>1, <2>2, <2>3 DEF RunsFit
<1> QED
  BY <1>6, <1>7, <1>8, <1>9 DEF Kept

LEMMA AcqKeeps ==
    ASSUME IInv, NEW a \in Jobs, AcqAudit(a) \/ AcqDone(a)
    PROVE  JobsTyped' /\ Kept'
<1>0. UNCHANGED <<runs, resumes, latest>>
  BY DEF AcqAudit, AcqDone, registry, results, clients
<1>1. JobsTyped /\ Fits(jobs[a], at[a], out[a]) /\ {"audited", "none"} \subseteq Points
      /\ Terminal \subseteq Statuses
  BY DEF IInv, TypeOK, ThreadsFit, Points, Statuses
<1>2. CASE AcqAudit(a)
  <2>1. PICK o \in Terminal, s \in Statuses, d \in Dir :
             /\ Moves(a, Rec(a, s), "audited", d) /\ Rec(a, s) \in Job
             /\ d.audit = o /\ d.result = None /\ d.class = out[a].class
             /\ jobs[a].unit = "acq" /\ at[a] = "start"
    BY <1>2, AcqAuditMoves
  <2>2. Rec(a, s).unit = "acq" /\ Rec(a, s).acq = jobs[a].acq /\ Rec(a, s).run = jobs[a].run
    BY <1>1, <2>1, RecFields
  <2>3. out[a].result = None /\ d.class = None
    BY <1>1, <2>1 DEF Fits
  <2>4. Fits(Rec(a, s), "audited", d)
    BY <2>1, <2>2, <2>3 DEF Fits
  <2> QED
    BY <1>0, <1>1, <2>1, <2>2, <2>3, <2>4, MoveKeeps DEF Kept
<1>3. CASE AcqDone(a)
  <2> DEFINE s == out[a].audit
  <2>1. PICK d \in Dir :
             /\ Moves(a, Rec(a, s), "none", d) /\ Rec(a, s) \in Job
             /\ s \in Terminal /\ out[a].result = None /\ d.class = out[a].class
             /\ jobs[a].unit = "acq"
    BY <1>3, AcqDoneMoves
  <2>2. Rec(a, s).unit = "acq" /\ Rec(a, s).acq = jobs[a].acq /\ Rec(a, s).run = jobs[a].run
    BY <1>1, <2>1, RecFields
  <2>3. Fits(Rec(a, s), "none", d)
    BY <1>1, <2>1, <2>2 DEF Fits
  <2> HIDE DEF s
  <2> QED
    BY <1>0, <1>1, <2>1, <2>2, <2>3, MoveKeeps DEF Kept
<1> QED
  BY <1>2, <1>3

LEMMA CalcKeeps ==
    ASSUME IInv, NEW c \in Jobs, CalcRun(c) \/ CalcRegister(c)
    PROVE  JobsTyped' /\ Kept'
<1>1. JobsTyped /\ Fits(jobs[c], at[c], out[c]) /\ {"register", "none"} \subseteq Points
      /\ {"PASS", "FAIL"} \subseteq Statuses /\ jobs[c] \in Job /\ out[c] \in Dir /\ None \notin Jobs
  BY Typed, WebConstants DEF IInv, TypeOK, ThreadsFit, Points, Statuses, Terminal
<1>2. CASE CalcRun(c)
  <2>0. UNCHANGED <<runs, resumes, latest>>
    BY <1>2 DEF CalcRun, registry, results, clients
  <2>1. jobs[c].unit = "calc" /\ at[c] = "start"
    BY <1>2, CalcRunMoves
  <2>2. ASSUME NEW s \in {"PASS", "FAIL"}
        PROVE  Rec(c, s).unit = "calc" /\ Rec(c, s).acq = jobs[c].acq /\ Rec(c, s).run = jobs[c].run
               /\ Rec(c, s).status = s
    BY <1>1, <2>1, RecFields
  <2>3. CASE \E d \in Dir : /\ Moves(c, Rec(c, "PASS"), "register", d) /\ Rec(c, "PASS") \in Job
                            /\ out[c].result = None
    <3>1. PICK d \in Dir : /\ Moves(c, Rec(c, "PASS"), "register", d) /\ Rec(c, "PASS") \in Job
                           /\ out[c].result = None
      BY <2>3
    <3>2. Fits(Rec(c, "PASS"), "register", d)
      BY <1>1, <2>1, <2>2 DEF Fits
    <3> QED
      BY <1>1, <2>0, <2>1, <2>2, <3>1, <3>2, MoveKeeps DEF Kept
  <2>4. CASE Moves(c, Rec(c, "FAIL"), "none", out[c]) /\ Rec(c, "FAIL") \in Job
    <3>1. Fits(Rec(c, "FAIL"), "none", out[c])
      BY <1>1, <2>1, <2>2 DEF Fits
    <3> QED
      BY <1>1, <2>0, <2>1, <2>2, <2>4, <3>1, MoveKeeps DEF Kept
  <2> QED
    BY <1>2, <2>3, <2>4, CalcRunMoves
<1>3. CASE CalcRegister(c)
  <2>0. UNCHANGED <<runs, resumes>>
    BY <1>3 DEF CalcRegister, results, clients
  <2>1. jobs[c].unit = "calc" /\ Moves(c, jobs[c], "none", out[c]) /\ (latest' = latest \/ latest' = c)
    BY <1>3, CalcRegisterMoves DEF registry
  <2>2. Fits(jobs[c], "none", out[c])
    BY <1>1, <2>1 DEF Fits
  <2> QED
    BY <1>1, <2>0, <2>1, <2>2, MoveKeeps DEF Kept
<1> QED
  BY <1>2, <1>3

\* A pipeline's thread is not in a full run.
LEMMA PipeKeeps ==
    ASSUME IInv, NEW p \in Jobs, jobs[p].unit = "pipe",
           NEW x \in Job, NEW q \in {"none", "calc", "ai", at[p]},
           Moves(p, x, q, out[p]), x = jobs[p] \/ \E s \in Statuses : x = Rec(p, s),
           q \in {"ai", "calc"} => x.acq # None,
           x.status = "WAITING_FOR_CHAT" => x.acq # None,
           UNCHANGED <<runs, resumes, latest>>
    PROVE  JobsTyped' /\ Kept'
<1>1. JobsTyped /\ Fits(jobs[p], at[p], out[p]) /\ out[p] \in Dir
      /\ {"none", "calc", "ai", at[p]} \subseteq Points
  BY Typed DEF IInv, TypeOK, ThreadsFit, Points
<1>2. x.unit = "pipe" /\ x.acq = jobs[p].acq /\ x.run = jobs[p].run
  BY <1>1, RecFields
<1>3. Fits(x, q, out[p])
  BY <1>1, <1>2 DEF Fits
<1> QED
  BY <1>1, <1>2, <1>3, MoveKeeps DEF Kept, Downstream, Ended

LEMMA PipelineKeeps ==
    ASSUME IInv, NEW p \in Jobs,
           PipeAcqSeen(p) \/ PipeCalcSeen(p) \/ PipeTimesOut(p)
    PROVE  JobsTyped' /\ Kept'
<1>0. UNCHANGED <<runs, resumes, latest>>
  BY DEF PipeAcqSeen, PipeCalcSeen, PipeTimesOut, registry, results, clients
<1>1. JobsTyped /\ Fits(jobs[p], at[p], out[p]) /\ jobs[p] \in Job
      /\ {"RUNNING", "WAITING_FOR_CHAT", "PASS", "FAIL"} \subseteq Statuses
  BY Typed DEF IInv, TypeOK, ThreadsFit, Statuses, Live, Terminal
<1>2. \A s \in Statuses : Rec(p, s).acq = jobs[p].acq /\ Rec(p, s).status = s
  BY <1>1, RecFields
<1>3. CASE PipeAcqSeen(p)
  <2>1. jobs[p].unit = "pipe" /\ at[p] = "acqwait"
    BY <1>3, PipeAcqSeenMoves
  <2>2. jobs[p].acq # None
    BY <1>1, <2>1 DEF Fits
  <2>3. ASSUME NEW q \in {"calc", "ai"}, Moves(p, jobs[p], q, out[p])
        PROVE  JobsTyped' /\ Kept'
    BY <1>0, <1>1, <2>1, <2>2, <2>3, PipeKeeps
  <2>4. ASSUME NEW s \in {"FAIL", "WAITING_FOR_CHAT"}, Moves(p, Rec(p, s), "none", out[p]),
               Rec(p, s) \in Job
        PROVE  JobsTyped' /\ Kept'
    BY <1>0, <1>1, <1>2, <2>1, <2>2, <2>4, PipeKeeps
  <2> QED
    BY <1>3, <2>3, <2>4, PipeAcqSeenMoves
<1>4. CASE PipeCalcSeen(p) \/ PipeTimesOut(p)
  <2>1. jobs[p].unit = "pipe"
    BY <1>4, PipeEndMoves
  <2>2. ASSUME NEW s \in {"PASS", "FAIL"}, Moves(p, Rec(p, s), "none", out[p]), Rec(p, s) \in Job
        PROVE  JobsTyped' /\ Kept'
    BY <1>0, <1>1, <1>2, <2>1, <2>2, PipeKeeps
  <2> QED
    BY <1>4, <2>2, PipeEndMoves
<1> QED
  BY <1>3, <1>4

LEMMA PipeStartKeeps ==
    ASSUME IInv, NEW p \in Jobs, PipeStart(p)
    PROVE  JobsTyped' /\ Kept'
<1>0. UNCHANGED <<runs, resumes, latest>>
  BY DEF PipeStart, registry, results, clients
<1>1. JobsTyped /\ Fits(jobs[p], at[p], out[p]) /\ Len(jobs) + 1 \in Nat /\ "acqwait" \in Points
  BY Typed DEF IInv, TypeOK, ThreadsFit, JobsTyped, Points
<1>2. PICK x \in Job, y \in Job :
             /\ Spawns(p, x, "acqwait", y)
             /\ jobs[p].unit = "pipe" /\ at[p] = "start"
             /\ x.unit = "pipe" /\ x.status = "RUNNING" /\ x.acq = Len(jobs) + 1
             /\ x.run = jobs[p].run
             /\ y.unit = "acq" /\ y.acq = None /\ y.run = None /\ y.status = "PENDING"
  BY PipeStartSpawns
<1>3. Fits(x, "acqwait", out[p])
  BY <1>1, <1>2, WebConstants DEF Fits
<1> QED
  BY <1>0, <1>1, <1>2, <1>3, SpawnKeeps

\* A calculation of a pipeline, whichever thread starts it.
LEMMA CalcSpawnKeeps ==
    ASSUME IInv, NEW p \in Jobs, jobs[p].unit = "pipe", jobs[p].acq # None,
           NEW q \in {"calcwait", at[p]}, NEW x \in Job, NEW y \in Job, Spawns(p, x, q, y),
           x.unit = "pipe", x.status = "RUNNING", x.acq = jobs[p].acq, x.run = jobs[p].run,
           y.unit = "calc", y.status = "PENDING", y.run = None, y.acq = jobs[p].acq,
           UNCHANGED <<runs, resumes, latest>>
    PROVE  JobsTyped' /\ Kept'
<1>1. Fits(jobs[p], at[p], out[p]) /\ {"calcwait", at[p]} \subseteq Points
  BY Typed DEF IInv, TypeOK, ThreadsFit, Points
<1>2. y.acq \in Jobs /\ jobs[y.acq].unit = "acq"
  BY DEF IInv, AcquisitionsAreOwn
<1>3. Fits(x, q, out[p])
  BY <1>1 DEF Fits
<1> QED
  BY <1>1, <1>2, <1>3, SpawnKeeps

LEMMA PipeCalcKeeps ==
    ASSUME IInv, NEW p \in Jobs, PipeCalc(p)
    PROVE  JobsTyped' /\ Kept'
<1>0. UNCHANGED <<runs, resumes, latest>>
  BY DEF PipeCalc, registry, results, clients
<1>1. JobsTyped /\ "FAIL" \in Statuses
  BY DEF IInv, TypeOK, Statuses, Terminal
<1>2. jobs[p].unit = "pipe" /\ jobs[p].acq # None
  BY PipeCalcMoves
<1>3. CASE \E x \in Job, y \in Job :
             /\ Spawns(p, x, "calcwait", y)
             /\ x.unit = "pipe" /\ x.status = "RUNNING" /\ x.acq = jobs[p].acq
             /\ x.run = jobs[p].run
             /\ y.unit = "calc" /\ y.status = "PENDING" /\ y.run = None /\ y.acq = jobs[p].acq
  BY <1>0, <1>2, <1>3, CalcSpawnKeeps
<1>4. CASE Moves(p, Rec(p, "FAIL"), "none", out[p]) /\ Rec(p, "FAIL") \in Job
  <2>1. Rec(p, "FAIL").status = "FAIL"
    BY <1>1, RecFields
  <2> QED
    BY <1>0, <1>1, <1>2, <1>4, <2>1, PipeKeeps
<1> QED
  BY <1>3, <1>4, PipeCalcMoves

LEMMA ResolutionKeeps ==
    ASSUME IInv, NEW p \in Jobs, PipeAi(p) \/ ChatResolves(p)
    PROVE  JobsTyped' /\ Kept'
<1>0. UNCHANGED <<runs, resumes, latest>>
  BY DEF PipeAi, ChatResolves, registry, results, clients
<1>1. JobsTyped /\ Fits(jobs[p], at[p], out[p]) /\ DOMAIN at = Jobs
      /\ {"PASS", "FAIL", "NEEDS_REVIEW"} \subseteq Terminal
  BY Typed DEF IInv, TypeOK, ThreadsFit, Terminal
<1>2. CASE PipeAi(p)
  <2>1. jobs[p].unit = "pipe" /\ at[p] = "ai" /\ jobs[p].acq # None
    BY <1>1, <1>2 DEF PipeAi, Is, Fits
  <2>2. ASSUME NEW s \in {"FAIL", "NEEDS_REVIEW"}, Ends(p, s), UNCHANGED out
        PROVE  JobsTyped' /\ Kept'
    <3>1. s \in Statuses
      BY DEF Statuses, Terminal
    <3>2. Moves(p, Rec(p, s), "none", out[p]) /\ Rec(p, s) \in Job /\ Rec(p, s).status = s
      BY <1>1, <2>2, <3>1, EndMoves, RecFields
    <3> QED
      BY <1>0, <2>1, <3>1, <3>2, PipeKeeps
  <2>3. ASSUME NEW v \in {"PASS", "FAIL"}, out' = Resolve(jobs[p].acq, v),
               \/ at' = Goes(p, "calc") /\ UNCHANGED jobs
               \/ \E s \in {"FAIL", "NEEDS_REVIEW"} : Ends(p, s)
        PROVE  JobsTyped' /\ Kept'
    <3>1. /\ at' = Goes(p, "calc") \/ at' = Goes(p, "none")
          /\ UNCHANGED jobs \/ \E s \in Terminal : jobs' = SetStatus(p, s)
      BY <1>1, <2>3 DEF Ends
    <3> QED
      BY <1>0, <2>1, <2>3, <3>1, ResolveKeeps
  <2> QED
    BY <1>2, <2>2, <2>3 DEF PipeAi
<1>3. CASE ChatResolves(p)
  <2>1. jobs[p].unit = "pipe" /\ jobs[p].acq # None /\ UNCHANGED <<jobs, at>>
    BY <1>1, <1>3 DEF ChatResolves, Fits
  <2>2. PICK v \in {"PASS", "FAIL"} : out' = Resolve(jobs[p].acq, v)
    BY <1>3 DEF ChatResolves
  <2> QED
    BY <1>0, <2>1, <2>2, ResolveKeeps
<1> QED
  BY <1>2, <1>3

\* A thread that goes on with a pipeline.
LEMMA ResumingKeeps ==
    ASSUME IInv, NEW t \in DOMAIN continued, Resuming(t)
    PROVE  JobsTyped' /\ Kept'
<1>0. UNCHANGED <<runs, resumes, latest>>
  BY DEF Resuming, ResumeStarts, ContinueCalc, ContinueSeen, ContinueTimesOut, registry, results,
         clients
<1>1. PICK p : p = continued[t].job
  OBVIOUS
<1>2. p \in Jobs /\ jobs[p].unit = "pipe" /\ jobs[p].acq # None /\ JobsTyped
      /\ {"RUNNING", "PASS", "FAIL"} \subseteq Statuses
  BY <1>1, Continued DEF IInv, TypeOK, Statuses, Live, Terminal
<1>3. CASE UNCHANGED <<jobs, at, out>>
  BY <1>0, <1>3 DEF IInv, TypeOK, JobsTyped, Kept, ThreadsFit, AcquisitionsAreOwn, RunsFit, Jobs,
     FullJobs
<1>4. ASSUME NEW s \in {"RUNNING", "PASS", "FAIL"}, Moves(p, Rec(p, s), at[p], out[p]),
             Rec(p, s) \in Job
      PROVE  JobsTyped' /\ Kept'
  <2>1. Rec(p, s).status = s /\ Rec(p, s).acq = jobs[p].acq
    BY <1>2, RecFields
  <2> QED
    BY <1>0, <1>2, <1>4, <2>1, PipeKeeps
<1>5. CASE \E x \in Job, y \in Job :
             /\ Spawns(p, x, at[p], y)
             /\ x.unit = "pipe" /\ x.status = "RUNNING" /\ x.acq = jobs[p].acq
             /\ x.run = jobs[p].run
             /\ y.unit = "calc" /\ y.status = "PENDING" /\ y.run = None /\ y.acq = jobs[p].acq
  BY <1>0, <1>2, <1>5, CalcSpawnKeeps
<1> QED
  BY <1>1, <1>3, <1>4, <1>5, ResumingMoves

LEMMA FullStartKeeps ==
    ASSUME IInv, NEW f \in Jobs, FullStart(f)
    PROVE  JobsTyped' /\ Kept'
<1>0. UNCHANGED <<runs, resumes, latest>>
  BY DEF FullStart, registry, results, clients
<1>1. JobsTyped /\ Fits(jobs[f], at[f], out[f]) /\ jobs[f] \in Job /\ out[f] \in Dir
      /\ {"mapwait", "ready", "none"} \subseteq Points /\ {"RUNNING", "FAIL"} \subseteq Statuses
  BY Typed DEF IInv, TypeOK, ThreadsFit, Points, Statuses, Live, Terminal
<1>2. jobs[f].unit = "full" /\ at[f] = "start" /\ jobs[f].run = None
  BY <1>1, FullStartMoves DEF Fits
<1>3. \A r \in DOMAIN runs : runs[r].job # f
  <2>1. \A r \in DOMAIN runs : r # None
    BY WebConstants DEF IInv, TypeOK, RestTyped
  <2> QED
    BY <1>2, <2>1 DEF IInv, RunsFit
<1>4. \A s \in Statuses : /\ Rec(f, s).unit = "full" /\ Rec(f, s).acq = jobs[f].acq
                          /\ Rec(f, s).run = None /\ Rec(f, s).status = s
                          /\ Rec(f, s).mode = jobs[f].mode /\ Rec(f, s).cutoff = jobs[f].cutoff
                          /\ Rec(f, s).day = jobs[f].day
  BY <1>1, <1>2, RecFields
<1>5. ASSUME NEW x \in Job, NEW y \in Job, Spawns(f, x, "mapwait", y),
             x.unit = "full", x.status = "RUNNING", x.acq = jobs[f].acq, x.run = jobs[f].run,
             x.mode = jobs[f].mode, x.day = jobs[f].day, x.cutoff = jobs[f].cutoff,
             y = NewJob("pipe", "CLOSE", day, "AUTO_API")
      PROVE  JobsTyped' /\ Kept'
  <2>1. y.unit = "pipe" /\ y.acq = None /\ y.run = None /\ y.status = "PENDING"
    BY <1>5, NewJobFields
  <2>2. Fits(x, "mapwait", out[f])
    BY <1>1, <1>2, <1>5 DEF Fits
  <2> QED
    BY <1>0, <1>1, <1>2, <1>3, <1>5, <2>1, <2>2, SpawnKeeps DEF Downstream, Ended
<1>6. CASE latest # None /\ Moves(f, Rec(f, "RUNNING"), "ready", out[f]) /\ Rec(f, "RUNNING") \in Job
  <2>1. Fits(Rec(f, "RUNNING"), "ready", out[f])
    BY <1>1, <1>2, <1>4 DEF Fits
  <2> QED
    BY <1>0, <1>1, <1>2, <1>3, <1>4, <1>6, <2>1, MoveKeeps DEF Kept, Downstream, Ended
<1>7. CASE Moves(f, Rec(f, "FAIL"), "none", out[f]) /\ Rec(f, "FAIL") \in Job
  <2>1. Fits(Rec(f, "FAIL"), "none", out[f])
    BY <1>1, <1>2, <1>4 DEF Fits
  <2> QED
    BY <1>0, <1>1, <1>2, <1>3, <1>4, <1>7, <2>1, MoveKeeps DEF Kept, Downstream, Ended
<1> QED
  BY <1>5, <1>6, <1>7, FullStartMoves

LEMMA FullMapKeeps ==
    ASSUME IInv, NEW f \in Jobs, FullMapSeen(f) \/ FullTimesOut(f)
    PROVE  JobsTyped' /\ Kept'
<1>0. UNCHANGED <<runs, resumes, latest>>
  BY DEF FullMapSeen, FullTimesOut, registry, results, clients
<1>1. JobsTyped /\ Fits(jobs[f], at[f], out[f]) /\ jobs[f] \in Job /\ out[f] \in Dir
      /\ {"ready", "none"} \subseteq Points /\ {"FAIL"} \subseteq Statuses
  BY Typed DEF IInv, TypeOK, ThreadsFit, Points, Statuses, Terminal
<1>2. jobs[f].unit = "full" /\ at[f] = "mapwait" /\ jobs[f].run = None
  BY <1>1, FullMapMoves DEF Fits
<1>3. \A r \in DOMAIN runs : runs[r].job # f
  <2>1. \A r \in DOMAIN runs : r # None
    BY WebConstants DEF IInv, TypeOK, RestTyped
  <2> QED
    BY <1>2, <2>1 DEF IInv, RunsFit
<1>4. CASE latest # None /\ Moves(f, jobs[f], "ready", out[f])
  <2>1. Fits(jobs[f], "ready", out[f])
    BY <1>1, <1>2 DEF Fits
  <2> QED
    BY <1>0, <1>1, <1>2, <1>3, <1>4, <2>1, MoveKeeps DEF Kept, Downstream, Ended
<1>5. CASE Moves(f, Rec(f, "FAIL"), "none", out[f]) /\ Rec(f, "FAIL") \in Job
  <2>1. Rec(f, "FAIL").unit = "full" /\ Rec(f, "FAIL").acq = jobs[f].acq /\ Rec(f, "FAIL").run = jobs[f].run
    BY <1>1, <1>2, RecFields
  <2>2. Fits(Rec(f, "FAIL"), "none", out[f])
    BY <1>1, <1>2, <2>1 DEF Fits
  <2> QED
    BY <1>0, <1>1, <1>2, <1>3, <1>5, <2>1, <2>2, MoveKeeps DEF Kept, Downstream, Ended
<1> QED
  BY <1>4, <1>5, FullMapMoves

LEMMA FullBeginKeeps ==
    ASSUME IInv, NEW f \in Jobs, FullBegin(f)
    PROVE  JobsTyped' /\ Kept' /\ runs' \in Seq(Run) /\ DOMAIN runs \subseteq DOMAIN runs'
<1> DEFINE n == Len(runs) + 1
           run == [job |-> f, snap |-> latest, status |-> "RUNNING"]
<1>0. UNCHANGED <<latest, resumes>>
  BY DEF FullBegin, registry, clients
<1>1. JobsTyped /\ Fits(jobs[f], at[f], out[f]) /\ out[f] \in Dir /\ "front" \in Points
      /\ runs \in Seq(Run) /\ resumes \subseteq DOMAIN runs /\ f \in Nat /\ Jobs \subseteq Nat
  BY Typed DEF IInv, TypeOK, RestTyped, ThreadsFit, Points, Downstream
<1>2. PICK x \in Job :
             /\ jobs[f].unit = "full" /\ at[f] = "ready"
             /\ Moves(f, x, "front", out[f])
             /\ x.unit = "full" /\ x.status = jobs[f].status /\ x.acq = jobs[f].acq
             /\ x.run = n /\ x.mode = jobs[f].mode /\ x.day = jobs[f].day
             /\ x.cutoff = jobs[f].cutoff
             /\ runs' = Append(runs, run)
             /\ latest \in Jobs
  BY FullBeginMoves
<1>3. jobs[f].run = None /\ \A r \in DOMAIN runs : runs[r].job # f
  <2>1. jobs[f].run = None
    BY <1>1, <1>2 DEF Fits
  <2>2. \A r \in DOMAIN runs : r # None
    BY <1>1, WebConstants
  <2> QED
    BY <2>1, <2>2 DEF IInv, RunsFit
<1>4. run \in Run
  BY <1>1, <1>2 DEF Run
<1>5. /\ runs' \in Seq(Run) /\ DOMAIN runs' = DOMAIN runs \cup {n} /\ n \notin DOMAIN runs
      /\ runs'[n] = run /\ \A r \in DOMAIN runs : runs'[r] = runs[r]
  <2> HIDE DEF run
  <2> QED
    BY <1>1, <1>2, <1>4, SeqAdd
<1>6. run.job = f /\ run.snap = latest /\ run.status = "RUNNING"
  OBVIOUS
<1> HIDE DEF n, run
<1>7. Fits(x, "front", out[f])
  BY <1>1, <1>2 DEF Fits
<1>8. ThreadsFit' /\ AcquisitionsAreOwn'
  BY <1>1, <1>2, <1>7, MoveKeepsJobs
<1>9. RunsFit'
  <2>1. FullJobs' = FullJobs /\ Jobs' = Jobs /\ f \in FullJobs
    BY <1>2 DEF FullJobs, Moves, Same
  <2>2. ASSUME NEW r \in DOMAIN runs
        PROVE  /\ runs'[r].job \in FullJobs' /\ runs'[r].snap \in Jobs'
               /\ jobs'[runs'[r].job].run = r
               /\ r \in resumes' => runs'[r].status = "WAITING_FOR_CHAT"
               /\ runs'[r].status = "WAITING_FOR_CHAT" =>
                     at'[runs'[r].job] \in {"WAITING_FOR_CHAT", "none"} /\ jobs'[runs'[r].job].status # "FAIL"
    BY <1>0, <1>2, <1>3, <1>5, <2>1 DEF IInv, RunsFit, Moves, Same, FullJobs
  <2>3. /\ runs'[n].job \in FullJobs' /\ runs'[n].snap \in Jobs'
        /\ jobs'[runs'[n].job].run = n
        /\ n \notin resumes' /\ runs'[n].status # "WAITING_FOR_CHAT"
    BY <1>0, <1>1, <1>2, <1>5, <1>6, <2>1 DEF Moves
  <2>4. ASSUME NEW g \in FullJobs
        PROVE  /\ at'[g] \in Downstream => jobs'[g].run \in DOMAIN runs' /\ runs'[jobs'[g].run].job = g
               /\ at'[g] = "ready" => latest' # None
    <3>1. CASE g = f
      BY <1>2, <1>5, <1>6, <3>1 DEF Moves, Downstream
    <3>2. CASE g # f
      BY <1>0, <1>2, <1>5, <3>2 DEF IInv, RunsFit, Moves, Same, FullJobs
    <3> QED
      BY <3>1, <3>2
  <2> QED
    BY <1>5, <2>1, <2>2, <2>3, <2>4 DEF RunsFit
<1> QED
  BY <1>2, <1>5, <1>8, <1>9 DEF Kept, Moves

\* What the update of one run's status does.
LEMMA RunSet ==
    ASSUME runs \in Seq(Run), NEW r \in DOMAIN runs, NEW s \in {"WAITING_FOR_CHAT", "FAIL", "PASS"},
           runs' = [runs EXCEPT ![r].status = s]
    PROVE  /\ runs' \in Seq(Run) /\ DOMAIN runs' = DOMAIN runs
           /\ runs'[r].job = runs[r].job /\ runs'[r].snap = runs[r].snap /\ runs'[r].status = s
           /\ \A q \in DOMAIN runs \ {r} : runs'[q] = runs[q]
<1> DEFINE e == [runs[r] EXCEPT !.status = s]
<1>0. runs[r] \in Run
  OBVIOUS
<1>1. e \in Run /\ e.job = runs[r].job /\ e.snap = runs[r].snap /\ e.status = s
  BY <1>0 DEF Run
<1>2. runs' = [runs EXCEPT ![r] = e]
  OBVIOUS
<1> HIDE DEF e
<1> QED
  BY <1>1, <1>2, SeqSet

LEMMA FullRunKeeps ==
    ASSUME IInv, NEW f \in Jobs, FullFront(f) \/ FullProject(f) \/ FullComplete(f)
    PROVE  JobsTyped' /\ Kept' /\ runs' \in Seq(Run) /\ DOMAIN runs' = DOMAIN runs
<1>0. UNCHANGED <<latest, resumes>>
  BY DEF FullFront, FullProject, FullComplete, registry, clients
<1>1. JobsTyped /\ Fits(jobs[f], at[f], out[f]) /\ jobs[f] \in Job /\ out[f] \in Dir
      /\ {"project", "complete"} \cup Ended \subseteq Points /\ runs \in Seq(Run)
  BY Typed DEF IInv, TypeOK, RestTyped, ThreadsFit, Points, Downstream
<1>2. jobs[f].unit = "full" /\ at[f] \in {"front", "project", "complete"}
  BY FullRunMoves
<1>3. PICK q \in {"project", "complete"} \cup Ended :
        /\ Moves(f, jobs[f], q, out[f])
        /\ \/ UNCHANGED runs /\ q \notin Ended
           \/ q \in Ended /\ runs' = [runs EXCEPT ![jobs[f].run].status = q]
  BY FullRunMoves
<1>4. jobs[f].run \in DOMAIN runs /\ runs[jobs[f].run].job = f /\ jobs[f].status # "FAIL"
  BY <1>1, <1>2 DEF IInv, RunsFit, FullJobs, Downstream, Fits
<1>5. jobs[f].run \notin resumes /\ runs[jobs[f].run].status # "WAITING_FOR_CHAT"
  BY <1>2, <1>4 DEF IInv, RunsFit
<1>6. Fits(jobs[f], q, out[f])
  BY <1>1, <1>2 DEF Fits, Ended
<1>7. CASE UNCHANGED runs
  <2>1. \A r \in DOMAIN runs : runs[r].job = f => r = jobs[f].run
    BY DEF IInv, RunsFit
  <2> QED
    BY <1>0, <1>1, <1>2, <1>3, <1>5, <1>6, <1>7, <2>1, MoveKeeps DEF Kept, Downstream, Ended
<1>8. ASSUME q \in Ended, runs' = [runs EXCEPT ![jobs[f].run].status = q]
      PROVE  JobsTyped' /\ Kept' /\ runs' \in Seq(Run) /\ DOMAIN runs' = DOMAIN runs
  <2> DEFINE n == jobs[f].run
  <2>1. /\ runs' \in Seq(Run) /\ DOMAIN runs' = DOMAIN runs
        /\ runs'[n].job = f /\ runs'[n].snap = runs[n].snap /\ runs'[n].status = q
        /\ \A r \in DOMAIN runs \ {n} : runs'[r] = runs[r]
    BY <1>1, <1>4, <1>8, RunSet DEF Ended
  <2>2. JobsTyped' /\ ThreadsFit' /\ AcquisitionsAreOwn'
    BY <1>1, <1>3, <1>6, MoveKeepsJobs
  <2>3. /\ jobs'[f] = jobs[f] /\ at'[f] = q /\ Jobs' = Jobs
        /\ \A g \in Jobs : jobs'[g] = jobs[g] /\ (g # f => at'[g] = at[g])
    BY <1>3, <1>8 DEF Moves, Same
  <2>4. FullJobs' = FullJobs /\ FullJobs \subseteq Jobs /\ f \in FullJobs
    BY <1>2, <2>3 DEF FullJobs
  <2>5. RunsFit'
    <3>1. ASSUME NEW r \in DOMAIN runs
          PROVE  /\ runs'[r].job \in FullJobs' /\ runs'[r].snap \in Jobs'
                 /\ jobs'[runs'[r].job].run = r
                 /\ r \in resumes' => runs'[r].status = "WAITING_FOR_CHAT"
                 /\ runs'[r].status = "WAITING_FOR_CHAT" =>
                       at'[runs'[r].job] \in {"WAITING_FOR_CHAT", "none"} /\ jobs'[runs'[r].job].status # "FAIL"
      <4>1. CASE r = n
        BY <1>0, <1>4, <1>5, <2>1, <2>3, <2>4, <4>1 DEF IInv, RunsFit
      <4>2. CASE r # n
        <5>1. runs'[r] = runs[r] /\ runs[r].job # f
          BY <2>1, <4>2 DEF IInv, RunsFit
        <5> QED
          BY <1>0, <2>3, <2>4, <5>1 DEF IInv, RunsFit
      <4> QED
        BY <4>1, <4>2
    <3>2. ASSUME NEW g \in FullJobs
          PROVE  /\ at'[g] \in Downstream => jobs'[g].run \in DOMAIN runs' /\ runs'[jobs'[g].run].job = g
                 /\ at'[g] = "ready" => latest' # None
      <4>1. CASE g = f
        BY <1>4, <1>8, <2>1, <2>3, <4>1 DEF Ended
      <4>2. CASE g # f
        BY <1>0, <2>1, <2>3, <2>4, <1>4, <4>2 DEF IInv, RunsFit
      <4> QED
        BY <4>1, <4>2
    <3> QED
      BY <2>1, <2>4, <3>1, <3>2 DEF RunsFit
  <2> QED
    BY <2>1, <2>2, <2>5 DEF Kept
<1> QED
  BY <1>1, <1>3, <1>7, <1>8

LEMMA FullReportKeeps ==
    ASSUME IInv, NEW f \in Jobs, FullReport(f)
    PROVE  JobsTyped' /\ Kept'
<1>0. UNCHANGED <<runs, resumes, latest>>
  BY DEF FullReport, registry, results, clients
<1>1. JobsTyped /\ Fits(jobs[f], at[f], out[f]) /\ out[f] \in Dir /\ "none" \in Points
  BY Typed DEF IInv, TypeOK, ThreadsFit, Points
<1>2. PICK x \in Job :
             /\ jobs[f].unit = "full" /\ at[f] \in Ended
             /\ Moves(f, x, "none", out[f])
             /\ x.unit = "full" /\ x.acq = jobs[f].acq /\ x.run = jobs[f].run
             /\ x.status = at[f]
  BY FullReportMoves
<1>3. \A r \in DOMAIN runs : runs[r].job = f /\ runs[r].status = "WAITING_FOR_CHAT" => x.status # "FAIL"
  BY <1>2 DEF IInv, RunsFit, Ended
<1>4. Fits(x, "none", out[f])
  BY <1>1, <1>2 DEF Fits
<1> QED
  BY <1>0, <1>1, <1>2, <1>3, <1>4, MoveKeeps DEF Kept, Downstream, Ended

LEMMA ResumeProjectKeeps ==
    ASSUME IInv, NEW r \in DOMAIN runs, ResumeProject(r)
    PROVE  JobsTyped' /\ Kept' /\ resumes' \subseteq DOMAIN runs
<1>1. /\ UNCHANGED <<jobs, at, out, runs, latest>> /\ runs[r].status = "WAITING_FOR_CHAT"
      /\ resumes' = resumes \cup {r} /\ resumes \subseteq DOMAIN runs
  BY DEF ResumeProject, server, registry, IInv, TypeOK, RestTyped
<1>2. JobsTyped' /\ ThreadsFit' /\ AcquisitionsAreOwn'
  BY <1>1 DEF IInv, TypeOK, JobsTyped, ThreadsFit, AcquisitionsAreOwn, Jobs
<1>3. RunsFit'
  BY <1>1 DEF IInv, RunsFit, FullJobs, Jobs
<1> QED
  BY <1>1, <1>2, <1>3 DEF Kept

LEMMA ResumeCompleteKeeps ==
    ASSUME IInv, NEW r \in DOMAIN runs, ResumeComplete(r)
    PROVE  JobsTyped' /\ Kept' /\ runs' \in Seq(Run) /\ DOMAIN runs' = DOMAIN runs
           /\ resumes' \subseteq resumes
<1> DEFINE g == runs[r].job
<1>1. JobsTyped /\ runs \in Seq(Run) /\ {"none"} \subseteq Points /\ UNCHANGED latest
      /\ "PASS" \in Statuses
  BY DEF IInv, TypeOK, RestTyped, Points, ResumeComplete, registry, Statuses, Terminal
<1>2. /\ runs[r].status = "WAITING_FOR_CHAT" /\ runs' = [runs EXCEPT ![r].status = "PASS"]
      /\ resumes' = resumes \ {r}
      /\ g \in Jobs /\ jobs[g].unit = "full" /\ jobs[g].status # "FAIL"
      /\ \/ UNCHANGED <<jobs, at, out>>
         \/ at[g] = "none" /\ Moves(g, Rec(g, "PASS"), "none", out[g]) /\ Rec(g, "PASS") \in Job
  BY ResumeCompleteMoves
<1>3. /\ runs' \in Seq(Run) /\ DOMAIN runs' = DOMAIN runs
      /\ runs'[r].job = g /\ runs'[r].snap = runs[r].snap /\ runs'[r].status = "PASS"
      /\ \A q \in DOMAIN runs \ {r} : runs'[q] = runs[q]
  BY <1>1, <1>2, RunSet
<1>4. /\ JobsTyped' /\ ThreadsFit' /\ AcquisitionsAreOwn'
      /\ Jobs' = Jobs /\ \A i \in Jobs : /\ jobs'[i].unit = jobs[i].unit /\ jobs'[i].run = jobs[i].run
                                         /\ at'[i] = at[i] /\ (i # g => jobs'[i] = jobs[i])
  <2>1. CASE UNCHANGED <<jobs, at, out>>
    BY <2>1 DEF IInv, TypeOK, JobsTyped, ThreadsFit, AcquisitionsAreOwn, Jobs
  <2>2. CASE at[g] = "none" /\ Moves(g, Rec(g, "PASS"), "none", out[g]) /\ Rec(g, "PASS") \in Job
    <3>1. Rec(g, "PASS").unit = "full" /\ Rec(g, "PASS").acq = jobs[g].acq
          /\ Rec(g, "PASS").run = jobs[g].run /\ Rec(g, "PASS").status = "PASS"
      BY <1>1, <1>2, RecFields
    <3>2. Fits(jobs[g], at[g], out[g]) /\ out[g] \in Dir
      BY <1>1, <1>2, Typed DEF IInv, ThreadsFit
    <3>3. Fits(Rec(g, "PASS"), "none", out[g])
      BY <1>2, <3>1, <3>2 DEF Fits
    <3>4. JobsTyped' /\ ThreadsFit' /\ AcquisitionsAreOwn'
      BY <1>1, <1>2, <2>2, <3>1, <3>2, <3>3, MoveKeepsJobs
    <3> QED
      BY <1>2, <2>2, <3>1, <3>4 DEF Moves, Same
  <2> QED
    BY <1>2, <2>1, <2>2
<1>5. FullJobs' = FullJobs /\ FullJobs \subseteq Jobs
  BY <1>4 DEF FullJobs
<1>6. RunsFit'
  <2>1. ASSUME NEW q \in DOMAIN runs
        PROVE  /\ runs'[q].job \in FullJobs' /\ runs'[q].snap \in Jobs'
               /\ jobs'[runs'[q].job].run = q
               /\ q \in resumes' => runs'[q].status = "WAITING_FOR_CHAT"
               /\ runs'[q].status = "WAITING_FOR_CHAT" =>
                     at'[runs'[q].job] \in {"WAITING_FOR_CHAT", "none"} /\ jobs'[runs'[q].job].status # "FAIL"
    <3>1. CASE q = r
      BY <1>2, <1>3, <1>4, <1>5, <3>1 DEF IInv, RunsFit
    <3>2. CASE q # r
      <4>1. runs'[q] = runs[q] /\ runs[q].job # g
        BY <1>3, <3>2 DEF IInv, RunsFit
      <4> QED
        BY <1>2, <1>4, <1>5, <4>1 DEF IInv, RunsFit
    <3> QED
      BY <3>1, <3>2
  <2>2. ASSUME NEW h \in FullJobs
        PROVE  /\ at'[h] \in Downstream => jobs'[h].run \in DOMAIN runs' /\ runs'[jobs'[h].run].job = h
               /\ at'[h] = "ready" => latest' # None
    BY <1>1, <1>3, <1>4, <1>5 DEF IInv, RunsFit
  <2> QED
    BY <1>3, <1>5, <2>1, <2>2 DEF RunsFit
<1> QED
  BY <1>2, <1>3, <1>4, <1>6 DEF Kept

\* Steps that touch no job, thread, directory or run.
LEMMA QuietKeeps ==
    ASSUME IInv, UNCHANGED <<jobs, at, out, runs, resumes, latest>>
    PROVE  JobsTyped' /\ Kept'
  BY DEF IInv, TypeOK, JobsTyped, Kept, ThreadsFit, AcquisitionsAreOwn, RunsFit, Jobs, FullJobs

LEMMA RestartKeeps ==
    ASSUME IInv, Restart
    PROVE  JobsTyped' /\ Kept'
<1>1. /\ UNCHANGED <<jobs, out, runs, latest>> /\ resumes' = {}
      /\ at' = [j \in Jobs |-> "none"]
  BY DEF Restart, registry, results
<1>2. JobsTyped /\ Jobs' = Jobs /\ Jobs = 1..Len(jobs)
  BY <1>1, Typed DEF IInv, TypeOK, Jobs
<1>3. JobsTyped'
  <2>1. at' \in Seq(Points) /\ Len(at') = Len(jobs)
    <3>1. "none" \in Points /\ Len(jobs) \in Nat
      BY <1>2 DEF Points, JobsTyped
    <3> QED
      BY <1>1, <1>2, <3>1
  <2> QED
    BY <1>1, <1>2, <2>1 DEF JobsTyped
<1>4. \A j \in Jobs : at'[j] = "none"
  BY <1>1
<1>5. ThreadsFit'
  <2> SUFFICES ASSUME NEW j \in Jobs PROVE Fits(jobs[j], "none", out[j])
    BY <1>1, <1>2, <1>4 DEF ThreadsFit
  <2>1. Fits(jobs[j], at[j], out[j])
    BY DEF IInv, ThreadsFit
  <2> QED
    BY <2>1 DEF Fits
<1>6. AcquisitionsAreOwn'
  BY <1>1, <1>2 DEF IInv, AcquisitionsAreOwn
<1>7. RunsFit'
  BY <1>1, <1>2, <1>4 DEF IInv, RunsFit, FullJobs, Downstream, Ended
<1> QED
  BY <1>3, <1>5, <1>6, <1>7 DEF Kept

\* Jobs are not deleted, and a pipeline's acquisition is not forgotten.
Stays(j) == /\ j \in Jobs' /\ jobs'[j].unit = jobs[j].unit
            /\ jobs[j].acq # None => jobs'[j].acq # None

LEMMA MovesStay ==
    ASSUME IInv, NEW j \in Jobs, NEW x \in Job, NEW p, NEW d, Moves(j, x, p, d),
           x.unit = jobs[j].unit, x.acq = jobs[j].acq
    PROVE  \A i \in Jobs : Stays(i)
  BY DEF Moves, Same, Stays

LEMMA RecStays ==
    ASSUME IInv, NEW j \in Jobs, NEW s \in Statuses, Jobs' = Jobs, jobs' = SetStatus(j, s)
    PROVE  \A i \in Jobs : Stays(i)
<1>1. jobs[j] \in Job /\ DOMAIN jobs = Jobs
  BY Typed DEF IInv, TypeOK, Jobs
<1>2. \A i \in Jobs \ {j} : jobs'[i] = jobs[i]
  BY <1>1 DEF SetStatus
<1>3. jobs'[j].unit = jobs[j].unit /\ jobs'[j].acq = jobs[j].acq
  BY <1>1 DEF SetStatus, Job
<1> QED
  BY <1>2, <1>3 DEF Stays

LEMMA SpawnStays ==
    ASSUME IInv, NEW j \in Jobs, NEW x \in Job, NEW p, NEW y, Spawns(j, x, p, y),
           x.unit = jobs[j].unit, x.acq = jobs[j].acq \/ x.acq # None
    PROVE  \A i \in Jobs : Stays(i)
<1>1. PICK n : Jobs' = Jobs \cup {n} /\ n \notin Jobs
  BY DEF Spawns, Joins
<1> QED
  BY <1>1 DEF Spawns, Same, Stays

LEMMA JobsStay ==
    ASSUME IInv, Next
    PROVE  \A i \in Jobs : Stays(i)
<1>0. JobsTyped /\ {"PASS", "FAIL", "WAITING_FOR_CHAT", "RUNNING", "NEEDS_REVIEW"} \subseteq Statuses
      /\ Terminal \subseteq Statuses
      /\ \A j \in Jobs : Fits(jobs[j], at[j], out[j])
  BY DEF IInv, TypeOK, Statuses, Live, Terminal, ThreadsFit
<1>1. ASSUME NEW j \in Jobs, jobs' = SetStatus(j, "RUNNING") \/ \E s \in Terminal \cup {"WAITING_FOR_CHAT"} :
                                        jobs' = SetStatus(j, s)
      PROVE  \A i \in Jobs : Stays(i)
  <2>1. Jobs' = Jobs
    BY <1>1 DEF SetStatus, Jobs
  <2> QED
    BY <1>0, <1>1, <2>1, RecStays
<1>2. ASSUME UNCHANGED jobs
      PROVE  \A i \in Jobs : Stays(i)
  BY <1>2 DEF Stays, Jobs
<1>3. ASSUME NEW j \in Jobs,
             \/ PipeAcqSeen(j) \/ PipeAi(j) \/ PipeCalcSeen(j) \/ PipeTimesOut(j)
             \/ ChatResolves(j) \/ ResumeMap(j) \/ CalcRegister(j) \/ CalcRun(j)
             \/ FullMapSeen(j) \/ FullTimesOut(j) \/ FullFront(j) \/ FullProject(j) \/ FullComplete(j)
      PROVE  \A i \in Jobs : Stays(i)
  <2>1. \/ UNCHANGED jobs
        \/ \E s \in Terminal \cup {"WAITING_FOR_CHAT"} : jobs' = SetStatus(j, s)
    BY <1>3 DEF PipeAcqSeen, PipeAi, PipeCalcSeen, PipeTimesOut, ChatResolves, ResumeMap,
       CalcRegister, CalcRun, FullMapSeen, FullTimesOut, FullFront, FullProject, FullComplete,
       Ends, AfterCalc, Terminal
  <2> QED
    BY <1>1, <1>2, <2>1
<1>4. ASSUME NEW j \in Jobs, AcqAudit(j) \/ AcqDone(j)
      PROVE  \A i \in Jobs : Stays(i)
  <2>1. CASE AcqAudit(j)
    <3>1. PICK s \in Statuses, d \in Dir : Moves(j, Rec(j, s), "audited", d) /\ Rec(j, s) \in Job
      BY <2>1, AcqAuditMoves
    <3> QED
      BY <1>0, <3>1, RecFields, MovesStay
  <2>2. CASE AcqDone(j)
    BY <1>1, <2>2, AcqDoneMoves DEF AcqDone, Ends
  <2> QED
    BY <1>4, <2>1, <2>2
<1>5. ASSUME NEW j \in Jobs, PipeStart(j) \/ PipeCalc(j) \/ FullStart(j)
      PROVE  \A i \in Jobs : Stays(i)
  <2>1. CASE PipeStart(j)
    <3>1. Len(jobs) + 1 # None
      BY <1>0, WebConstants DEF JobsTyped
    <3>2. PICK x \in Job, y \in Job :
            /\ Spawns(j, x, "acqwait", y)
            /\ jobs[j].unit = "pipe" /\ x.unit = "pipe" /\ x.acq = Len(jobs) + 1
      BY <2>1, PipeStartSpawns
    <3> QED
      BY <3>1, <3>2, SpawnStays
  <2>2. CASE PipeCalc(j)
    <3>1. jobs[j].unit = "pipe"
      BY <2>2, PipeCalcMoves
    <3>2. CASE \E x \in Job, y \in Job :
                 Spawns(j, x, "calcwait", y) /\ x.unit = "pipe" /\ x.acq = jobs[j].acq
      BY <3>1, <3>2, SpawnStays
    <3>3. CASE Moves(j, Rec(j, "FAIL"), "none", out[j]) /\ Rec(j, "FAIL") \in Job
      BY <1>0, <3>3, RecFields, MovesStay
    <3> QED
      BY <2>2, <3>2, <3>3, PipeCalcMoves
  <2>3. CASE FullStart(j)
    <3>1. jobs[j].unit = "full"
      BY <2>3, FullStartMoves
    <3>2. CASE \E x \in Job, y \in Job :
                 Spawns(j, x, "mapwait", y) /\ x.unit = "full" /\ x.acq = jobs[j].acq
      BY <3>1, <3>2, SpawnStays
    <3>3. ASSUME NEW s \in {"RUNNING", "FAIL"}, NEW q \in {"ready", "none"},
                 Moves(j, Rec(j, s), q, out[j]), Rec(j, s) \in Job
          PROVE  \A i \in Jobs : Stays(i)
      BY <1>0, <3>3, RecFields, MovesStay
    <3> QED
      BY <2>3, <3>2, <3>3, FullStartMoves
  <2> QED
    BY <1>5, <2>1, <2>2, <2>3
<1>6. ASSUME NEW j \in Jobs, FullBegin(j) \/ FullReport(j)
      PROVE  \A i \in Jobs : Stays(i)
  <2>1. ASSUME NEW x \in Job, NEW q \in {"front", "none"}, Moves(j, x, q, out[j]),
               jobs[j].unit = "full", x.unit = "full", x.acq = jobs[j].acq
        PROVE  \A i \in Jobs : Stays(i)
    BY <2>1, MovesStay
  <2>2. CASE FullBegin(j)
    BY <2>1, <2>2, FullBeginMoves
  <2>3. CASE FullReport(j)
    BY <2>1, <2>3, FullReportMoves
  <2> QED
    BY <1>6, <2>2, <2>3
<1>7. ASSUME NEW r \in DOMAIN runs, ResumeProject(r) \/ ResumeComplete(r)
      PROVE  \A i \in Jobs : Stays(i)
  <2>1. CASE ResumeProject(r)
    BY <1>2, <2>1 DEF ResumeProject, server
  <2>2. CASE ResumeComplete(r)
    <3>1. runs[r].job \in Jobs /\ (UNCHANGED jobs \/ jobs' = SetStatus(runs[r].job, "PASS"))
      BY <2>2, ResumeCompleteMoves DEF ResumeComplete
    <3>2. "PASS" \in Terminal
      BY DEF Terminal
    <3> QED
      BY <1>1, <1>2, <3>1, <3>2
  <2> QED
    BY <1>7, <2>1, <2>2
<1>8. ASSUME NEW t \in DOMAIN continued, Resuming(t)
      PROVE  \A i \in Jobs : Stays(i)
  <2>1. PICK p : p = continued[t].job
    OBVIOUS
  <2>2. p \in Jobs /\ jobs[p].unit = "pipe"
    BY <2>1, Continued
  <2>3. ASSUME NEW s \in {"RUNNING", "PASS", "FAIL"}, Moves(p, Rec(p, s), at[p], out[p]),
               Rec(p, s) \in Job
        PROVE  \A i \in Jobs : Stays(i)
    BY <1>0, <2>2, <2>3, RecFields, MovesStay
  <2>4. CASE \E x \in Job, y \in Job :
               Spawns(p, x, at[p], y) /\ x.unit = "pipe" /\ x.acq = jobs[p].acq
    BY <2>2, <2>4, SpawnStays
  <2> QED
    BY <1>2, <1>8, <2>1, <2>3, <2>4, ResumingMoves
<1>9. CASE Asking
  <2>1. UNCHANGED jobs \/ \E y \in Job : AsksFor(y)
    BY <1>9, AskingJoins
  <2>2. ASSUME NEW y \in Job, AsksFor(y)
        PROVE  \A i \in Jobs : Stays(i)
    BY <2>2 DEF AsksFor, Joins, Same, Stays
  <2> QED
    BY <1>2, <2>1, <2>2
<1>10. CASE CheckClose \/ ScriptEnds \/ Tick \/ Restart
  BY <1>2, <1>10 DEF CheckClose, ScriptEnds, Tick, Restart, server
<1> QED
  BY <1>3, <1>4, <1>5, <1>6, <1>7, <1>8, <1>9, <1>10 DEF Next, Asking, Resuming

\* How the threads that go on with a pipeline change.
Threads ==
    \/ UNCHANGED continued
    \/ \E p \in Jobs : ResumeMap(p)
    \/ \E t \in DOMAIN continued : Resuming(t)
    \/ Restart

LEMMA ThreadsNext == ASSUME [Next]_vars PROVE Threads
<1>1. ASSUME NEW j \in Jobs,
             \/ AcqAudit(j) \/ AcqDone(j) \/ CalcRun(j) \/ CalcRegister(j)
             \/ PipeStart(j) \/ PipeAcqSeen(j) \/ PipeAi(j)
             \/ PipeCalc(j) \/ PipeCalcSeen(j) \/ PipeTimesOut(j) \/ ChatResolves(j)
             \/ FullStart(j) \/ FullMapSeen(j) \/ FullTimesOut(j) \/ FullBegin(j)
             \/ FullFront(j) \/ FullProject(j) \/ FullComplete(j) \/ FullReport(j)
      PROVE  UNCHANGED continued
  BY <1>1 DEF AcqAudit, AcqDone, CalcRun, CalcRegister, PipeStart, PipeAcqSeen, PipeAi, PipeCalc,
     PipeCalcSeen, PipeTimesOut, ChatResolves, FullStart, FullMapSeen, FullTimesOut, FullBegin,
     FullFront, FullProject, FullComplete, FullReport
<1>2. ASSUME NEW r \in DOMAIN runs, ResumeProject(r) \/ ResumeComplete(r)
      PROVE  UNCHANGED continued
  BY <1>2 DEF ResumeProject, ResumeComplete, server
<1>3. ASSUME \/ CheckClose \/ InsertClose \/ PostLatest \/ PostMap \/ PostAcq \/ PostCalc
             \/ ScriptStart \/ ScriptMap \/ ScriptEnds \/ Tick \/ UNCHANGED vars
      PROVE  UNCHANGED continued
  <2>1. CheckClose \/ ScriptEnds \/ Tick \/ UNCHANGED vars => UNCHANGED continued
    BY DEF CheckClose, ScriptEnds, Tick, vars, server
  <2>2. InsertClose \/ PostLatest \/ PostMap => UNCHANGED continued
    BY DEF InsertClose, PostLatest, PostMap
  <2>3. PostAcq \/ PostCalc \/ ScriptStart \/ ScriptMap => UNCHANGED continued
    BY DEF PostAcq, PostCalc, ScriptStart, ScriptMap
  <2> QED
    BY <1>3, <2>1, <2>2, <2>3
<1>4. ASSUME NEW j \in Jobs, ResumeMap(j)
      PROVE  Threads
  BY <1>4 DEF Threads
<1>5. ASSUME NEW t \in DOMAIN continued,
             ResumeStarts(t) \/ ContinueCalc(t) \/ ContinueSeen(t) \/ ContinueTimesOut(t)
      PROVE  Threads
  BY <1>5 DEF Threads, Resuming
<1>6. UNCHANGED continued => Threads
  BY DEF Threads
<1>7. CASE Restart
  BY <1>7 DEF Threads
<1>8. CASE CheckClose \/ InsertClose \/ PostLatest \/ PostMap \/ PostAcq \/ PostCalc
           \/ ScriptStart \/ ScriptMap \/ ScriptEnds \/ Tick \/ UNCHANGED vars
  BY <1>3, <1>6, <1>8
<1> QED
  BY <1>1, <1>2, <1>4, <1>5, <1>6, <1>7, <1>8 DEF Next

\* Thread t's place becomes pc, and the calculation it waits for c.
LEMMA TurnedTo ==
    ASSUME continued \in Seq(Following), NEW t \in DOMAIN continued,
           NEW pc \in {"checked", "started", "waits", "died", "none"}, NEW c \in Nat \cup {None},
           continued' = [continued EXCEPT ![t].pc = pc, ![t].calc = c]
    PROVE  /\ continued' \in Seq(Following) /\ DOMAIN continued' = DOMAIN continued
           /\ continued'[t].job = continued[t].job /\ continued'[t].pc = pc
           /\ \A u \in DOMAIN continued \ {t} : continued'[u] = continued[u]
<1> DEFINE e == [continued[t] EXCEPT !.pc = pc, !.calc = c]
<1>0. continued[t] \in Following
  OBVIOUS
<1>1. e \in Following /\ e.job = continued[t].job /\ e.pc = pc
  BY <1>0 DEF Following
<1>2. continued' = [continued EXCEPT ![t] = e]
  BY <1>0 DEF Following
<1> HIDE DEF e
<1>3. /\ [continued EXCEPT ![t] = e] \in Seq(Following)
      /\ DOMAIN [continued EXCEPT ![t] = e] = DOMAIN continued
      /\ [continued EXCEPT ![t] = e][t] = e
      /\ \A u \in DOMAIN continued \ {t} : [continued EXCEPT ![t] = e][u] = continued[u]
  BY <1>1, SeqSet
<1> QED
  BY <1>1, <1>2, <1>3

\* A step of a thread turns it alone, and takes it on, unless it has seen its calculation end.
LEMMA ResumingTurns ==
    ASSUME IInv, NEW t \in DOMAIN continued, Resuming(t)
    PROVE  /\ continued' \in Seq(Following) /\ DOMAIN continued' = DOMAIN continued
           /\ continued'[t].job = continued[t].job
           /\ \/ continued'[t].pc \in {"started", "waits", "died"}
              \/ ContinueSeen(t)
           /\ \A u \in DOMAIN continued \ {t} : continued'[u] = continued[u]
<1>1. /\ continued \in Seq(Following) /\ continued[t] \in Following /\ Len(jobs) + 1 \in Nat
  BY Continued DEF IInv, TypeOK, JobsTyped
<1>2. continued[t].calc \in Nat \cup {None}
  BY <1>1 DEF Following
<1>3. ASSUME NEW pc \in {"checked", "started", "waits", "died", "none"}, Turns(t, pc)
      PROVE  /\ continued' \in Seq(Following) /\ DOMAIN continued' = DOMAIN continued
             /\ continued'[t].job = continued[t].job /\ continued'[t].pc = pc
             /\ \A u \in DOMAIN continued \ {t} : continued'[u] = continued[u]
  <2> DEFINE e == [continued[t] EXCEPT !.pc = pc]
  <2>1. e \in Following /\ e.job = continued[t].job /\ e.pc = pc
    BY <1>1 DEF Following
  <2>2. continued' = [continued EXCEPT ![t] = e]
    BY <1>1, <1>3 DEF Turns, Following
  <2> HIDE DEF e
  <2>3. /\ continued' \in Seq(Following) /\ DOMAIN continued' = DOMAIN continued
        /\ continued'[t] = e /\ \A u \in DOMAIN continued \ {t} : continued'[u] = continued[u]
    BY <1>1, <2>1, <2>2, SeqSet
  <2> QED
    BY <2>1, <2>3
<1>4. CASE ResumeStarts(t) \/ ContinueTimesOut(t)
  BY <1>3, <1>4 DEF ResumeStarts, ContinueTimesOut
<1>5. CASE ContinueSeen(t)
  BY <1>3, <1>5 DEF ContinueSeen
<1>6. CASE ContinueCalc(t)
  <2>1. \/ continued' = [continued EXCEPT ![t].pc = "waits", ![t].calc = Len(jobs) + 1]
        \/ Turns(t, "died")
    BY <1>6 DEF ContinueCalc
  <2> QED
    BY <1>1, <1>3, <2>1, TurnedTo
<1> QED
  BY <1>4, <1>5, <1>6 DEF Resuming

LEMMA ContinuedNext ==
    ASSUME IInv, [Next]_vars
    PROVE  ContinuedFit' /\ continued' \in Seq(Following)
<1>1. continued \in Seq(Following) /\ ContinuedFit
  BY DEF IInv, TypeOK, RestTyped
<1>2. \A i \in Jobs : Stays(i)
  <2>1. UNCHANGED vars => \A i \in Jobs : Stays(i)
    BY DEF vars, server, Stays, Jobs
  <2> QED
    BY <2>1, JobsStay
<1>3. ASSUME DOMAIN continued' = DOMAIN continued,
             \A t \in DOMAIN continued : continued'[t].job = continued[t].job
      PROVE  ContinuedFit'
  BY <1>1, <1>2, <1>3 DEF ContinuedFit, Stays
<1>4. CASE UNCHANGED continued
  BY <1>1, <1>3, <1>4
<1>5. ASSUME NEW p \in Jobs, ResumeMap(p)
      PROVE  ContinuedFit' /\ continued' \in Seq(Following)
  <2> DEFINE e == [job |-> p, pc |-> "checked", calc |-> None]
             n == Len(continued) + 1
  <2>1. jobs[p].unit = "pipe" /\ jobs[p].acq # None /\ p \in Nat
    BY <1>5, Typed DEF ResumeMap, IInv, TypeOK, ThreadsFit, Fits
  <2>2. e \in Following /\ e.job = p
    BY <2>1 DEF Following
  <2>3. continued' = Append(continued, e)
    BY <1>5 DEF ResumeMap
  <2> HIDE DEF e
  <2>4. /\ continued' \in Seq(Following) /\ DOMAIN continued' = DOMAIN continued \cup {n}
        /\ continued'[n] = e /\ \A t \in DOMAIN continued : continued'[t] = continued[t]
    BY <1>1, <2>2, <2>3, SeqAdd
  <2>5. ContinuedFit'
    <3> SUFFICES ASSUME NEW t \in DOMAIN continued \cup {n}
                 PROVE  /\ continued'[t].job \in Jobs' /\ jobs'[continued'[t].job].unit = "pipe"
                        /\ jobs'[continued'[t].job].acq # None
      BY <2>4 DEF ContinuedFit
    <3>1. CASE t = n
      BY <1>2, <2>1, <2>2, <2>4, <3>1 DEF Stays
    <3>2. CASE t \in DOMAIN continued
      BY <1>1, <1>2, <2>4, <3>2 DEF ContinuedFit, Stays
    <3> QED
      BY <3>1, <3>2
  <2> QED
    BY <2>4, <2>5
<1>6. ASSUME NEW t \in DOMAIN continued, Resuming(t)
      PROVE  ContinuedFit' /\ continued' \in Seq(Following)
  BY <1>3, <1>6, ResumingTurns
<1>7. CASE Restart
  <2> DEFINE Off(e) == [e EXCEPT !.pc = IF @ = "died" THEN @ ELSE "none"]
  <2>1. continued' = [t \in DOMAIN continued |-> Off(continued[t])]
    BY <1>7 DEF Restart
  <2>2. \A t \in DOMAIN continued : Off(continued[t]) \in Following
    <3> SUFFICES ASSUME NEW t \in DOMAIN continued
                 PROVE  Off(continued[t]) \in Following
      OBVIOUS
    <3>1. continued[t] \in Following
      BY <1>1
    <3> QED
      BY <3>1 DEF Following
  <2>3. continued' \in Seq(Following) /\ DOMAIN continued' = DOMAIN continued
    <3>1. DOMAIN continued = 1..Len(continued) /\ Len(continued) \in Nat
      BY <1>1
    <3> QED
      BY <2>1, <2>2, <3>1
  <2>4. ASSUME NEW t \in DOMAIN continued
        PROVE  continued'[t].job = continued[t].job
    <3>1. continued[t] \in Following /\ continued'[t] = Off(continued[t])
      BY <1>1, <2>1
    <3> QED
      BY <3>1 DEF Following
  <2> QED
    BY <1>3, <2>3, <2>4
<1> QED
  BY <1>4, <1>5, <1>6, <1>7, ThreadsNext DEF Threads

LEMMA RestKeeps ==
    ASSUME RestTyped, Jobs \subseteq Jobs', UNCHANGED <<clock, registry>>,
           runs' \in Seq(Run), resumes' \subseteq DOMAIN runs', admitted' \in Seq(Admission),
           continued' \in Seq(Following)
    PROVE  RestTyped'
  BY DEF RestTyped, clock, registry

\* The steps of the jobs, but for those of the runs and the registry.
Working(j) ==
    \/ AcqAudit(j) \/ AcqDone(j) \/ CalcRun(j)
    \/ PipeStart(j) \/ PipeAcqSeen(j) \/ PipeAi(j)
    \/ PipeCalc(j) \/ PipeCalcSeen(j) \/ PipeTimesOut(j) \/ ChatResolves(j) \/ ResumeMap(j)
    \/ FullStart(j) \/ FullMapSeen(j) \/ FullTimesOut(j) \/ FullReport(j)

LEMMA InvNext == IInv /\ [Next]_vars => IInv'
<1> SUFFICES ASSUME IInv, [Next]_vars PROVE IInv'
  OBVIOUS
<1>0. ContinuedFit' /\ continued' \in Seq(Following)
  BY ContinuedNext
<1>1. JobsTyped /\ RestTyped /\ Jobs \subseteq Jobs'
  <2>1. UNCHANGED vars => Jobs' = Jobs
    BY DEF vars, server, Jobs
  <2> QED
    BY <2>1, JobsStay DEF IInv, TypeOK, Stays
<1>2. runs \in Seq(Run) /\ resumes \subseteq DOMAIN runs /\ admitted \in Seq(Admission) /\ day \in Days
  BY <1>1 DEF RestTyped
<1>3. SUFFICES ASSUME TRUE PROVE JobsTyped' /\ Kept' /\ RestTyped'
  BY <1>0 DEF IInv, TypeOK, Kept
<1>4. ASSUME NEW j \in Jobs, Working(j)
      PROVE  JobsTyped' /\ Kept' /\ RestTyped'
  <2>1. JobsTyped' /\ Kept'
    <3>1. ResumeMap(j) => UNCHANGED <<jobs, at, out, runs, resumes, latest>>
      BY DEF ResumeMap, registry, results, clients
    <3> QED
      BY <1>4, <3>1, QuietKeeps, AcqKeeps, CalcKeeps, PipeStartKeeps, PipelineKeeps,
         ResolutionKeeps, PipeCalcKeeps, FullStartKeeps, FullMapKeeps, FullReportKeeps DEF Working
  <2>2. UNCHANGED <<clock, registry, runs, resumes, admitted>>
    BY <1>4 DEF Working, AcqAudit, AcqDone, CalcRun, PipeStart, PipeAcqSeen, PipeAi, PipeCalc,
         PipeCalcSeen, PipeTimesOut, ChatResolves, ResumeMap, FullStart, FullMapSeen, FullTimesOut,
         FullReport, results, clients
  <2> QED
    BY <1>0, <1>1, <1>2, <2>1, <2>2, RestKeeps
<1>5. ASSUME NEW c \in Jobs, CalcRegister(c)
      PROVE  JobsTyped' /\ Kept' /\ RestTyped'
  <2>1. JobsTyped' /\ Kept'
    BY <1>5, CalcKeeps
  <2>2. /\ UNCHANGED <<clock, runs, resumes, admitted>>
        /\ \/ UNCHANGED registry
           \/ registered' = registered \cup {c} /\ latest' = c
    BY <1>5 DEF CalcRegister, results, clients
  <2> QED
    BY <1>0, <1>1, <2>1, <2>2 DEF RestTyped, clock, registry
<1>6. ASSUME NEW f \in Jobs, FullBegin(f) \/ FullFront(f) \/ FullProject(f) \/ FullComplete(f)
      PROVE  JobsTyped' /\ Kept' /\ RestTyped'
  <2>1. JobsTyped' /\ Kept' /\ runs' \in Seq(Run) /\ DOMAIN runs \subseteq DOMAIN runs'
    BY <1>6, FullBeginKeeps, FullRunKeeps
  <2>2. UNCHANGED <<clock, registry, resumes, admitted>>
    BY <1>6 DEF FullBegin, FullFront, FullProject, FullComplete, clients
  <2> QED
    BY <1>0, <1>1, <1>2, <2>1, <2>2, RestKeeps
<1>7. ASSUME NEW r \in DOMAIN runs, ResumeProject(r) \/ ResumeComplete(r)
      PROVE  JobsTyped' /\ Kept' /\ RestTyped'
  <2>1. JobsTyped' /\ Kept' /\ runs' \in Seq(Run) /\ resumes' \subseteq DOMAIN runs'
    <3>1. CASE ResumeProject(r)
      BY <1>2, <3>1, ResumeProjectKeeps DEF ResumeProject
    <3>2. CASE ResumeComplete(r)
      BY <1>2, <3>2, ResumeCompleteKeeps
    <3> QED
      BY <1>7, <3>1, <3>2
  <2>2. UNCHANGED <<clock, registry, admitted>>
    BY <1>7 DEF ResumeProject, ResumeComplete
  <2> QED
    BY <1>0, <1>1, <1>2, <2>1, <2>2, RestKeeps
<1>8. ASSUME NEW t \in DOMAIN continued, Resuming(t)
      PROVE  JobsTyped' /\ Kept' /\ RestTyped'
  <2>1. UNCHANGED <<clock, registry, runs, resumes, admitted>>
    BY <1>8 DEF Resuming, ResumeStarts, ContinueCalc, ContinueSeen, ContinueTimesOut, results,
       clients
  <2> QED
    BY <1>0, <1>1, <1>2, <1>8, <2>1, ResumingKeeps, RestKeeps
<1>9. CASE Asking
  <2>1. /\ UNCHANGED <<runs, resumes, registry, clock, lost>>
        /\ \/ UNCHANGED <<jobs, at, out, admitted>>
           \/ \E y \in Job : AsksFor(y)
    BY <1>9, AskingJoins
  <2>2. admitted' \in Seq(Admission)
    BY <1>2, <2>1 DEF AsksFor
  <2>3. JobsTyped' /\ Kept'
    BY <2>1, QuietKeeps, JoinKeeps DEF registry, Kept, AsksFor
  <2> QED
    BY <1>0, <1>1, <1>2, <2>1, <2>2, <2>3, RestKeeps
<1>10. CASE CheckClose \/ ScriptEnds \/ Tick
  <2>1. UNCHANGED <<jobs, at, out, registry, runs, resumes>>
    BY <1>10 DEF CheckClose, ScriptEnds, Tick, server, results, clients
  <2>2. JobsTyped' /\ Kept'
    BY <2>1, QuietKeeps DEF registry
  <2>3. admitted' \in Seq(Admission)
    <3>1. [day |-> day, seen |-> Len(jobs)] \in Admission
      BY <1>1, <1>2 DEF Admission, JobsTyped
    <3> QED
      BY <1>2, <1>10, <3>1 DEF CheckClose, ScriptEnds, Tick, clients
  <2>4. day' \in Days /\ closed' \in BOOLEAN
    <3>1. day \in Days /\ closed \in BOOLEAN
      BY <1>1 DEF RestTyped
    <3>2. \/ day' = day /\ (closed' = closed \/ closed' = TRUE)
          \/ day < MaxDay /\ day' = day + 1 /\ closed' = FALSE
      BY <1>10 DEF CheckClose, ScriptEnds, Tick, clock
    <3>3. day' \in Days
      BY <3>1, <3>2, WebConstants DEF Days
    <3> QED
      BY <3>1, <3>2, <3>3
  <2> QED
    BY <1>0, <1>1, <2>1, <2>2, <2>3, <2>4 DEF RestTyped, Jobs, registry
<1>11. CASE Restart
  <2>1. /\ JobsTyped' /\ Kept' /\ UNCHANGED <<jobs, clock, registry, runs>> /\ resumes' = {}
        /\ admitted' = <<>>
    BY <1>11, RestartKeeps DEF Restart, results
  <2> QED
    BY <1>0, <1>1, <2>1 DEF RestTyped, Jobs, registry, clock
<1>12. CASE UNCHANGED vars
  <2>1. UNCHANGED <<clock, jobs, at, out, registry, runs, resumes, admitted>>
    BY <1>12 DEF vars, server, results, clients
  <2>2. JobsTyped' /\ Kept'
    BY <2>1, QuietKeeps DEF registry
  <2> QED
    BY <1>0, <1>1, <2>1, <2>2 DEF RestTyped, Jobs, registry, clock
<1> QED
  BY <1>4, <1>5, <1>6, <1>7, <1>8, <1>9, <1>10, <1>11, <1>12 DEF Next, Working, Asking, Resuming

\* IInv is an invariant in every instance.
THEOREM WebInv == Spec => []IInv
  BY InvInit, InvNext, PTL DEF Spec


-----------------------------------------------------------------------------
(* The steps in summary, for the three theorems below. *)

\* A thread goes on with job i, or died of its wait for it.
Followed(i) == \E t \in DOMAIN continued : Continues(t, i) \/ (continued[t].job = i /\ continued[t].pc = "died")

\* A step of job j takes nobody from another job.
FollowsOn(j) == \A i \in Jobs \ {j} : Followed(i) => Followed(i)'

\* Job j keeps its kind and, unless it is a full run, its cutoff. A formal run that goes on
\* has not failed and is still of the day it was asked for.
Keeps(j, x) ==
    /\ x.unit = jobs[j].unit
    /\ x.unit # "full" => x.cutoff = jobs[j].cutoff
    /\ x.unit = "full" =>
          /\ x.mode = jobs[j].mode /\ x.day = jobs[j].day /\ x.seen = jobs[j].seen
          /\ x.mode = "CLOSE" => /\ jobs[j].status # "FAIL"
                                 /\ x.cutoff = jobs[j].cutoff \/ jobs[j].cutoff = jobs[j].day

\* A thread that ends leaves a status that nobody waits to see change, or another thread.
Told(j, x, p) == p # "none" \/ x.status \notin {"PENDING", "RUNNING"} \/ Followed(j)'

\* A step of job j alone.
Changes(j) ==
    /\ UNCHANGED <<admitted, lost>> /\ FollowsOn(j)
    /\ \/ UNCHANGED registered
       \/ registered' = registered \cup {j} /\ out[j].class = "FORMAL_CLOSE"
    /\ \E x \in Job, p \in Points, d \in Dir :
         /\ Moves(j, x, p, d) /\ Keeps(j, x) /\ x.acq = jobs[j].acq /\ x.calc = jobs[j].calc
         /\ Told(j, x, p)
         /\ \/ d = out[j] /\ jobs[j].unit # "acq"
            \/ AcqAudit(j) \/ AcqDone(j) \/ CalcRun(j)

\* A step of job j that starts another.
Starts(j) ==
    /\ UNCHANGED <<admitted, lost, registered>> /\ FollowsOn(j)
    /\ \E x \in Job, y \in Job, p \in Points :
         /\ Spawns(j, x, p, y) /\ Keeps(j, x) /\ x.unit # "acq" /\ y.unit # "full"
         /\ p # "none" \/ Followed(j)'
         /\ \/ /\ x.unit = "full" /\ y.unit = "pipe"
               /\ x.acq = jobs[j].acq /\ y.acq = None /\ y.calc = None
            \/ /\ x.unit = "pipe" /\ y.unit = "calc" /\ x.acq = jobs[j].acq /\ x.acq # None
               /\ x.calc = Len(jobs) + 1 /\ y.acq = x.acq /\ y.cutoff = x.cutoff
            \/ /\ x.unit = "pipe" /\ y.unit = "acq" /\ x.calc = jobs[j].calc
               /\ x.acq = Len(jobs) + 1 /\ y.acq = None /\ y.cutoff = x.cutoff

\* A verdict on the input of pipeline p.
Resolves(p) ==
    /\ UNCHANGED <<admitted, lost, registered, continued>>
    /\ Jobs' = Jobs /\ jobs[p].unit = "pipe"
    /\ \A i \in Jobs \ {p} : jobs'[i] = jobs[i] /\ at'[i] = at[i]
    /\ jobs'[p].unit = "pipe" /\ jobs'[p].acq = jobs[p].acq /\ jobs'[p].cutoff = jobs[p].cutoff
    /\ jobs'[p].calc = jobs[p].calc
    /\ \/ jobs'[p] = jobs[p] /\ at'[p] = at[p]
       \/ at'[p] # "none"
       \/ jobs'[p].status \notin {"PENDING", "RUNNING"}
    /\ \A i \in Jobs : /\ out'[i].result = out[i].result /\ out'[i].audit = out[i].audit
                       /\ out'[i].class = out[i].class /\ out'[i].data = out[i].data
                       /\ out'[i].cutoff = out[i].cutoff /\ out'[i].checked = out[i].checked

LEMMA FollowedStays ==
    ASSUME UNCHANGED continued
    PROVE  \A i : Followed(i) => Followed(i)'
  BY DEF Followed, Continues

LEMMA ChangesOfRec ==
    ASSUME IInv, NEW j \in Jobs, NEW s \in Statuses, NEW p \in Points, NEW d \in Dir,
           Moves(j, Rec(j, s), p, d), Rec(j, s) \in Job,
           jobs[j].unit = "full" => jobs[j].status # "FAIL",
           p = "none" => s \notin {"PENDING", "RUNNING"} \/ Followed(j)',
           \/ d = out[j] /\ jobs[j].unit # "acq"
           \/ AcqAudit(j) \/ AcqDone(j) \/ CalcRun(j),
           UNCHANGED <<admitted, lost, registered>>, FollowsOn(j)
    PROVE  Changes(j)
<1> DEFINE x == Rec(j, s)
<1>1. x.unit = jobs[j].unit /\ x.mode = jobs[j].mode /\ x.day = jobs[j].day
      /\ x.cutoff = jobs[j].cutoff /\ x.acq = jobs[j].acq /\ x.status = s
      /\ x.seen = jobs[j].seen /\ x.calc = jobs[j].calc
  BY RecFields DEF IInv, TypeOK
<1> HIDE DEF x
<1>2. Keeps(j, x) /\ Told(j, x, p) /\ x \in Job /\ Moves(j, x, p, d)
  <2>1. x \in Job /\ Moves(j, x, p, d)
    BY DEF x
  <2>2. Keeps(j, x)
    BY <1>1 DEF Keeps
  <2>3. Told(j, x, p)
    BY <1>1 DEF Told
  <2> QED
    BY <2>1, <2>2, <2>3
<1> QED
  BY <1>1, <1>2 DEF Changes

LEMMA ChangesOfGo ==
    ASSUME IInv, NEW j \in Jobs, NEW p \in Points, Moves(j, jobs[j], p, out[j]),
           jobs[j].unit = "full" => jobs[j].status # "FAIL",
           Told(j, jobs[j], p), jobs[j].unit # "acq",
           UNCHANGED <<admitted, lost>>, FollowsOn(j),
           \/ UNCHANGED registered
           \/ registered' = registered \cup {j} /\ out[j].class = "FORMAL_CLOSE"
    PROVE  Changes(j)
<1>1. jobs[j] \in Job /\ out[j] \in Dir
  BY Typed DEF IInv, TypeOK
<1>2. Keeps(j, jobs[j])
  BY DEF Keeps
<1> QED
  BY <1>1, <1>2 DEF Changes

\* Acquisition and calculation.
LEMMA InputSteps ==
    ASSUME IInv, NEW j \in Jobs, AcqAudit(j) \/ AcqDone(j) \/ CalcRun(j) \/ CalcRegister(j)
    PROVE  Changes(j)
<1>1. /\ {"audited", "none", "register"} \subseteq Points /\ {"PASS", "FAIL"} \subseteq Statuses
      /\ Terminal \subseteq Statuses /\ {"PENDING", "RUNNING"} \cap Terminal = {}
      /\ JobsTyped /\ out[j] \in Dir /\ Fits(jobs[j], at[j], out[j])
  BY Typed DEF Points, Statuses, Terminal, IInv, TypeOK, ThreadsFit
<1>0. FollowsOn(j)
  <2>1. UNCHANGED continued
    BY DEF AcqAudit, AcqDone, CalcRun, CalcRegister
  <2> QED
    BY <2>1, FollowedStays DEF FollowsOn
<1>2. CASE AcqAudit(j)
  <2>1. PICK s \in Statuses, d \in Dir :
          Moves(j, Rec(j, s), "audited", d) /\ Rec(j, s) \in Job /\ jobs[j].unit = "acq"
    BY <1>2, AcqAuditMoves
  <2>2. UNCHANGED <<admitted, lost, registered>>
    BY <1>2 DEF AcqAudit, registry, clients
  <2> QED
    BY <1>0, <1>1, <1>2, <2>1, <2>2, ChangesOfRec
<1>3. CASE AcqDone(j)
  <2> DEFINE s == out[j].audit
  <2>1. PICK d \in Dir :
          Moves(j, Rec(j, s), "none", d) /\ Rec(j, s) \in Job /\ s \in Terminal /\ jobs[j].unit = "acq"
    BY <1>3, AcqDoneMoves
  <2>2. UNCHANGED <<admitted, lost, registered>>
    BY <1>3 DEF AcqDone, registry, clients
  <2> HIDE DEF s
  <2>3. s \in Statuses /\ s \notin {"PENDING", "RUNNING"}
    BY <1>1, <2>1
  <2> QED
    BY <1>0, <1>1, <1>3, <2>1, <2>2, <2>3, ChangesOfRec
<1>4. CASE CalcRun(j)
  <2>1. UNCHANGED <<admitted, lost, registered>>
    BY <1>4 DEF CalcRun, registry, clients
  <2>2. /\ jobs[j].unit = "calc"
        /\ \/ \E d \in Dir : Moves(j, Rec(j, "PASS"), "register", d) /\ Rec(j, "PASS") \in Job
           \/ Moves(j, Rec(j, "FAIL"), "none", out[j]) /\ Rec(j, "FAIL") \in Job
    BY <1>4, CalcRunMoves
  <2> QED
    BY <1>0, <1>1, <1>4, <2>1, <2>2, ChangesOfRec
<1>5. CASE CalcRegister(j)
  <2>1. UNCHANGED <<admitted, lost>>
    BY <1>5 DEF CalcRegister, clients
  <2>2. /\ jobs[j].unit = "calc" /\ Moves(j, jobs[j], "none", out[j])
        /\ \/ UNCHANGED registered
           \/ registered' = registered \cup {j} /\ out[j].class = "FORMAL_CLOSE"
    BY <1>5, CalcRegisterMoves DEF registry
  <2>3. at[j] = "register"
    BY <1>5 DEF CalcRegister, Is
  <2>4. Told(j, jobs[j], "none")
    BY <1>1, <2>3 DEF Told, Fits
  <2> QED
    BY <1>0, <1>1, <2>1, <2>2, <2>4, ChangesOfGo
<1> QED
  BY <1>2, <1>3, <1>4, <1>5

\* The pipeline.
LEMMA PipeSteps ==
    ASSUME IInv, NEW p \in Jobs, PipeAcqSeen(p) \/ PipeCalcSeen(p) \/ PipeTimesOut(p)
    PROVE  Changes(p)
<1>1. /\ {"none", "calc", "ai"} \subseteq Points
      /\ {"PASS", "FAIL", "WAITING_FOR_CHAT", "RUNNING"} \subseteq Statuses
      /\ JobsTyped /\ out[p] \in Dir
  BY Typed DEF Points, Statuses, Live, Terminal, IInv, TypeOK
<1>2. UNCHANGED <<admitted, lost, registered>> /\ FollowsOn(p)
  <2>1. UNCHANGED <<admitted, lost, registered, continued>>
    BY DEF PipeAcqSeen, PipeCalcSeen, PipeTimesOut, registry, clients
  <2> QED
    BY <2>1, FollowedStays DEF FollowsOn
<1>3. CASE PipeAcqSeen(p)
  <2>1. /\ jobs[p].unit = "pipe"
        /\ \/ \E q \in {"calc", "ai"} : Moves(p, jobs[p], q, out[p])
           \/ \E s \in {"FAIL", "WAITING_FOR_CHAT"} : Moves(p, Rec(p, s), "none", out[p]) /\ Rec(p, s) \in Job
    BY <1>3, PipeAcqSeenMoves
  <2>2. \A q \in {"calc", "ai"} : Told(p, jobs[p], q)
    BY DEF Told
  <2> QED
    BY <1>1, <1>2, <2>1, <2>2, ChangesOfGo, ChangesOfRec
<1>4. CASE PipeCalcSeen(p) \/ PipeTimesOut(p)
  <2>1. /\ jobs[p].unit = "pipe"
        /\ \E s \in {"PASS", "FAIL"} : Moves(p, Rec(p, s), "none", out[p]) /\ Rec(p, s) \in Job
    BY <1>4, PipeEndMoves
  <2> QED
    BY <1>1, <1>2, <2>1, ChangesOfRec
<1> QED
  BY <1>3, <1>4

LEMMA PipeStartSteps ==
    ASSUME IInv, NEW p \in Jobs, PipeStart(p)
    PROVE  Starts(p)
<1>1. UNCHANGED <<admitted, lost, registered>> /\ FollowsOn(p)
      /\ "acqwait" \in Points /\ "acqwait" # "none"
  <2>1. UNCHANGED <<admitted, lost, registered, continued>>
    BY DEF PipeStart, registry, clients
  <2> QED
    BY <2>1, FollowedStays DEF FollowsOn, Points
<1>2. PICK x \in Job, y \in Job :
             /\ Spawns(p, x, "acqwait", y)
             /\ jobs[p].unit = "pipe"
             /\ x.unit = "pipe" /\ x.acq = Len(jobs) + 1
             /\ x.cutoff = jobs[p].cutoff /\ x.calc = jobs[p].calc
             /\ y.unit = "acq" /\ y.acq = None /\ y.cutoff = jobs[p].cutoff
  BY PipeStartSpawns
<1>3. Keeps(p, x)
  BY <1>2 DEF Keeps
<1> QED
  BY <1>1, <1>2, <1>3 DEF Starts

\* The calculation of pipeline p starts, whoever goes on with p.
LEMMA StartsOfCalc ==
    ASSUME IInv, NEW p \in Jobs, jobs[p].unit = "pipe", jobs[p].acq # None, NEW q \in Points,
           NEW x \in Job, NEW y \in Job, Spawns(p, x, q, y), q # "none" \/ Followed(p)',
           x.unit = "pipe", x.acq = jobs[p].acq, x.cutoff = jobs[p].cutoff,
           x.calc = Len(jobs) + 1,
           y.unit = "calc", y.cutoff = jobs[p].cutoff, y.acq = jobs[p].acq,
           UNCHANGED <<admitted, lost, registered>>, FollowsOn(p)
    PROVE  Starts(p)
<1>1. Keeps(p, x)
  BY DEF Keeps
<1> QED
  BY <1>1 DEF Starts

LEMMA PipeCalcSteps ==
    ASSUME IInv, NEW p \in Jobs, PipeCalc(p)
    PROVE  Starts(p) \/ Changes(p)
<1>1. /\ {"calcwait", "none"} \subseteq Points /\ "FAIL" \in Statuses
      /\ JobsTyped /\ out[p] \in Dir
  BY Typed DEF Points, Statuses, Terminal, IInv, TypeOK
<1>2. UNCHANGED <<admitted, lost, registered>> /\ FollowsOn(p)
  <2>1. UNCHANGED <<admitted, lost, registered, continued>>
    BY DEF PipeCalc, registry, clients
  <2> QED
    BY <2>1, FollowedStays DEF FollowsOn
<1>3. jobs[p].unit = "pipe" /\ jobs[p].acq # None
  BY PipeCalcMoves
<1>4. CASE Moves(p, Rec(p, "FAIL"), "none", out[p]) /\ Rec(p, "FAIL") \in Job
  BY <1>1, <1>2, <1>3, <1>4, ChangesOfRec
<1>5. ASSUME NEW x \in Job, NEW y \in Job, Spawns(p, x, "calcwait", y),
             x.unit = "pipe", x.acq = jobs[p].acq, x.cutoff = jobs[p].cutoff,
             x.calc = Len(jobs) + 1,
             y.unit = "calc", y.cutoff = jobs[p].cutoff, y.acq = jobs[p].acq
      PROVE  Starts(p)
  BY <1>1, <1>2, <1>3, <1>5, StartsOfCalc
<1> QED
  BY <1>4, <1>5, PipeCalcMoves

LEMMA ResolutionSteps ==
    ASSUME IInv, NEW p \in Jobs, PipeAi(p) \/ ChatResolves(p)
    PROVE  Resolves(p) \/ Changes(p)
<1>1. UNCHANGED <<admitted, lost, registered, continued>>
  BY DEF PipeAi, ChatResolves, registry, clients
<1>2. JobsTyped /\ DOMAIN jobs = Jobs /\ DOMAIN at = Jobs /\ jobs[p] \in Job
      /\ Fits(jobs[p], at[p], out[p]) /\ {"FAIL", "NEEDS_REVIEW"} \subseteq Statuses
      /\ "none" \in Points /\ out[p] \in Dir
  BY Typed DEF IInv, TypeOK, ThreadsFit, Jobs, Statuses, Terminal, Points
<1>3. jobs[p].unit = "pipe" /\ jobs[p].acq # None
  BY <1>2 DEF PipeAi, ChatResolves, Is, Fits
<1>4. jobs[p].acq \in Jobs
  BY <1>3 DEF IInv, AcquisitionsAreOwn
<1>5. \/ \E s \in {"FAIL", "NEEDS_REVIEW"} : Ends(p, s) /\ UNCHANGED out
      \/ \E v \in {"PASS", "FAIL"} :
            /\ out' = Resolve(jobs[p].acq, v)
            /\ \/ UNCHANGED <<jobs, at>>
               \/ at' = Goes(p, "calc") /\ UNCHANGED jobs
               \/ \E s \in {"FAIL", "NEEDS_REVIEW"} : Ends(p, s)
  BY DEF PipeAi, ChatResolves
<1>6. ASSUME NEW s \in {"FAIL", "NEEDS_REVIEW"}, Ends(p, s), UNCHANGED out
      PROVE  Changes(p)
  <2>1. Moves(p, Rec(p, s), "none", out[p]) /\ Rec(p, s) \in Job
    BY <1>2, <1>6, EndMoves
  <2>2. FollowsOn(p)
    BY <1>1, FollowedStays DEF FollowsOn
  <2> QED
    BY <1>1, <1>2, <1>3, <1>6, <2>1, <2>2, ChangesOfRec
<1>7. ASSUME NEW v \in {"PASS", "FAIL"}, out' = Resolve(jobs[p].acq, v),
             \/ UNCHANGED <<jobs, at>>
             \/ at' = Goes(p, "calc") /\ UNCHANGED jobs
             \/ \E s \in {"FAIL", "NEEDS_REVIEW"} : Ends(p, s)
      PROVE  Resolves(p)
  <2>1. \A i \in Jobs : /\ out'[i].result = out[i].result /\ out'[i].audit = out[i].audit
                        /\ out'[i].class = out[i].class /\ out'[i].data = out[i].data
                        /\ out'[i].cutoff = out[i].cutoff /\ out'[i].checked = out[i].checked
    <3>1. /\ \A i \in Jobs \ {jobs[p].acq} : out'[i] = out[i]
          /\ out'[jobs[p].acq].result = out[jobs[p].acq].result
          /\ out'[jobs[p].acq].audit = out[jobs[p].acq].audit
          /\ out'[jobs[p].acq].class = out[jobs[p].acq].class
          /\ out'[jobs[p].acq].data = out[jobs[p].acq].data
          /\ out'[jobs[p].acq].cutoff = out[jobs[p].acq].cutoff
          /\ out'[jobs[p].acq].checked = out[jobs[p].acq].checked
      BY <1>2, <1>4, <1>7, Resolved
    <3> QED
      BY <3>1
  <2>2. CASE UNCHANGED <<jobs, at>>
    BY <1>1, <1>3, <2>1, <2>2 DEF Resolves, Jobs
  <2>3. CASE at' = Goes(p, "calc") /\ UNCHANGED jobs
    BY <1>1, <1>2, <1>3, <2>1, <2>3 DEF Resolves, Jobs, Goes
  <2>4. ASSUME NEW s \in {"FAIL", "NEEDS_REVIEW"}, Ends(p, s)
        PROVE  Resolves(p)
    <3>1. jobs' = [jobs EXCEPT ![p] = Rec(p, s)] /\ at' = [at EXCEPT ![p] = "none"]
      BY <2>4 DEF Ends, SetStatus, Goes, Rec
    <3>2. Rec(p, s).unit = jobs[p].unit /\ Rec(p, s).acq = jobs[p].acq
          /\ Rec(p, s).cutoff = jobs[p].cutoff /\ Rec(p, s).status = s
          /\ Rec(p, s).calc = jobs[p].calc
      BY <1>2, RecFields
    <3>3. Jobs' = Jobs /\ jobs'[p] = Rec(p, s)
          /\ \A i \in Jobs \ {p} : jobs'[i] = jobs[i] /\ at'[i] = at[i]
      BY <1>2, <3>1 DEF Jobs
    <3> QED
      BY <1>1, <1>3, <2>1, <3>2, <3>3 DEF Resolves
  <2> QED
    BY <1>7, <2>2, <2>3, <2>4
<1> QED
  BY <1>5, <1>6, <1>7

\* The full runtime's worker.
LEMMA FullSteps ==
    ASSUME IInv, NEW f \in Jobs,
           \/ FullStart(f) \/ FullMapSeen(f) \/ FullTimesOut(f) \/ FullBegin(f)
           \/ FullFront(f) \/ FullProject(f) \/ FullComplete(f) \/ FullReport(f)
    PROVE  Starts(f) \/ Changes(f)
<1>1. /\ {"none", "mapwait", "ready", "front", "project", "complete"} \cup Ended \subseteq Points
      /\ {"RUNNING", "FAIL"} \subseteq Statuses
      /\ JobsTyped /\ jobs[f] \in Job /\ out[f] \in Dir /\ Fits(jobs[f], at[f], out[f])
  BY Typed DEF Points, Downstream, Ended, Statuses, Live, Terminal, IInv, TypeOK, ThreadsFit
<1>2. UNCHANGED <<admitted, lost, registered>> /\ FollowsOn(f)
  <2>1. UNCHANGED <<admitted, lost, registered, continued>>
    BY DEF FullStart, FullMapSeen, FullTimesOut, FullBegin, FullFront, FullProject, FullComplete,
           FullReport, registry, clients
  <2> QED
    BY <2>1, FollowedStays DEF FollowsOn
<1>3. jobs[f].unit = "full" /\ at[f] # "none"
  BY DEF FullStart, FullMapSeen, FullTimesOut, FullBegin, FullFront, FullProject, FullComplete,
         FullReport, Is
<1>4. jobs[f].status # "FAIL" /\ (jobs[f].mode = "CLOSE" => jobs[f].cutoff = jobs[f].day)
  BY <1>1, <1>3 DEF Fits
<1>5. ASSUME NEW x \in Job, NEW q \in Points, Moves(f, x, q, out[f]),
             x.unit = "full", x.acq = jobs[f].acq, x.mode = jobs[f].mode, x.day = jobs[f].day,
             x.seen = jobs[f].seen, x.calc = jobs[f].calc, q # "none" \/ x.status \in Ended
      PROVE  Changes(f)
  <2>1. Keeps(f, x) /\ Told(f, x, q)
    BY <1>3, <1>4, <1>5 DEF Keeps, Told, Ended
  <2> QED
    BY <1>1, <1>2, <1>3, <1>5, <2>1 DEF Changes
<1>6. CASE FullStart(f)
  <2>1. ASSUME NEW x \in Job, NEW y \in Job, Spawns(f, x, "mapwait", y),
               x.unit = "full", x.acq = jobs[f].acq, x.mode = jobs[f].mode,
               x.day = jobs[f].day, x.cutoff = jobs[f].cutoff, x.seen = jobs[f].seen,
               y = NewJob("pipe", "CLOSE", day, "AUTO_API")
        PROVE  Starts(f)
    <3>1. y.unit = "pipe" /\ y.acq = None /\ y.calc = None
      BY <2>1, NewJobFields
    <3>2. Keeps(f, x)
      BY <1>3, <1>4, <2>1 DEF Keeps
    <3> QED
      BY <1>1, <1>2, <2>1, <3>1, <3>2 DEF Starts
  <2>2. ASSUME NEW s \in {"RUNNING", "FAIL"}, NEW q \in {"ready", "none"},
               Moves(f, Rec(f, s), q, out[f]), Rec(f, s) \in Job, q = "none" => s = "FAIL"
        PROVE  Changes(f)
    BY <1>1, <1>2, <1>3, <1>4, <2>2, ChangesOfRec
  <2> QED
    BY <1>6, <2>1, <2>2, FullStartMoves
<1>7. CASE FullMapSeen(f) \/ FullTimesOut(f)
  <2>1. CASE Moves(f, jobs[f], "ready", out[f])
    BY <1>1, <1>3, <1>5, <2>1
  <2>2. CASE Moves(f, Rec(f, "FAIL"), "none", out[f]) /\ Rec(f, "FAIL") \in Job
    BY <1>1, <1>2, <1>3, <1>4, <2>2, ChangesOfRec
  <2> QED
    BY <1>7, <2>1, <2>2, FullMapMoves
<1>8. CASE FullBegin(f)
  <2>1. PICK x \in Job :
             /\ Moves(f, x, "front", out[f])
             /\ x.unit = "full" /\ x.acq = jobs[f].acq /\ x.mode = jobs[f].mode /\ x.day = jobs[f].day
             /\ x.seen = jobs[f].seen /\ x.calc = jobs[f].calc
    BY <1>8, FullBeginMoves
  <2> QED
    BY <1>1, <1>5, <2>1
<1>9. CASE FullFront(f) \/ FullProject(f) \/ FullComplete(f)
  <2>1. PICK q \in {"project", "complete"} \cup Ended : Moves(f, jobs[f], q, out[f])
    BY <1>9, FullRunMoves
  <2>2. q \in Points /\ q # "none"
    BY <1>1 DEF Ended
  <2> QED
    BY <1>1, <1>3, <1>5, <2>1, <2>2
<1>10. CASE FullReport(f)
  <2>1. PICK x \in Job :
             /\ Moves(f, x, "none", out[f])
             /\ x.unit = "full" /\ x.acq = jobs[f].acq
             /\ x.mode = jobs[f].mode /\ x.day = jobs[f].day
             /\ x.seen = jobs[f].seen /\ x.calc = jobs[f].calc
             /\ x.status \in Ended
    BY <1>10, FullReportMoves
  <2> QED
    BY <1>1, <1>5, <2>1
<1> QED
  BY <1>6, <1>7, <1>8, <1>9, <1>10

\* Steps that leave the jobs and what they wrote alone.
Idle == /\ UNCHANGED <<jobs, at, out, admitted, lost, registered>>
        /\ \A i \in Jobs : Followed(i) => Followed(i)'

\* The threads that go on with a pipeline.
LEMMA ResumingSteps ==
    ASSUME IInv, NEW t \in DOMAIN continued, Resuming(t)
    PROVE  Idle \/ \E j \in Jobs : Changes(j) \/ Starts(j)
<1>0. PICK p : p = continued[t].job
  OBVIOUS
<1>1. p \in Jobs /\ jobs[p].unit = "pipe" /\ jobs[p].acq # None
  BY <1>0, Continued
<1>2. UNCHANGED <<admitted, lost, registered>>
  BY DEF Resuming, ResumeStarts, ContinueCalc, ContinueSeen, ContinueTimesOut, registry, clients
<1>3. /\ DOMAIN continued' = DOMAIN continued /\ continued'[t].job = p
      /\ \A u \in DOMAIN continued \ {t} : continued'[u] = continued[u]
      /\ continued'[t].pc \in {"started", "waits", "died"} \/ ContinueSeen(t)
  BY <1>0, ResumingTurns
<1>4. FollowsOn(p)
  <2> SUFFICES ASSUME NEW i \in Jobs \ {p}, Followed(i) PROVE Followed(i)'
    BY DEF FollowsOn
  <2>1. PICK u \in DOMAIN continued : Continues(u, i) \/ (continued[u].job = i /\ continued[u].pc = "died")
    BY DEF Followed
  <2>2. u # t
    BY <1>0, <2>1 DEF Continues
  <2>3. u \in DOMAIN continued' /\ continued'[u] = continued[u]
    BY <1>3, <2>2
  <2> QED
    BY <2>1, <2>3 DEF Followed, Continues
<1>5. /\ JobsTyped /\ at[p] \in Points /\ out[p] \in Dir
      /\ {"RUNNING", "PASS", "FAIL"} \subseteq Statuses
  BY <1>1, Typed DEF IInv, TypeOK, Statuses, Live, Terminal
<1>6. CASE ContinueSeen(t)
  <2>1. PICK s \in {"PASS", "FAIL"} : jobs' = SetStatus(p, s)
    BY <1>0, <1>6 DEF ContinueSeen, AfterCalc
  <2>2. Moves(p, Rec(p, s), at[p], out[p]) /\ Rec(p, s) \in Job
    BY <1>1, <1>5, <1>6, <2>1, StatusMoves DEF ContinueSeen
  <2> QED
    BY <1>1, <1>2, <1>4, <1>5, <2>2, ChangesOfRec
<1>7. CASE continued'[t].pc \in {"started", "waits", "died"}
  <2>1. Followed(p)'
    BY <1>3, <1>7 DEF Followed, Continues
  <2>2. CASE UNCHANGED <<jobs, at, out>>
    BY <1>1, <1>2, <1>4, <2>1, <2>2 DEF Idle, FollowsOn
  <2>3. ASSUME NEW s \in {"RUNNING", "PASS", "FAIL"}, Moves(p, Rec(p, s), at[p], out[p]),
               Rec(p, s) \in Job
        PROVE  Changes(p)
    BY <1>1, <1>2, <1>4, <1>5, <2>1, <2>3, ChangesOfRec
  <2>4. ASSUME NEW x \in Job, NEW y \in Job, Spawns(p, x, at[p], y),
               x.unit = "pipe", x.acq = jobs[p].acq, x.cutoff = jobs[p].cutoff,
               x.calc = Len(jobs) + 1,
               y.unit = "calc", y.cutoff = jobs[p].cutoff, y.acq = jobs[p].acq
        PROVE  Starts(p)
    BY <1>1, <1>2, <1>4, <1>5, <2>1, <2>4, StartsOfCalc
  <2> QED
    BY <1>0, <1>1, <2>2, <2>3, <2>4, ResumingMoves
<1> QED
  BY <1>3, <1>6, <1>7

LEMMA ResumeMapSteps ==
    ASSUME IInv, NEW p \in Jobs, ResumeMap(p)
    PROVE  Idle
<1>1. UNCHANGED <<jobs, at, out, admitted, lost, registered>>
  BY DEF ResumeMap, registry, clients
<1> DEFINE e == [job |-> p, pc |-> "checked", calc |-> None]
<1>2. continued \in Seq(Following) /\ continued' = Append(continued, e)
  BY DEF ResumeMap, IInv, TypeOK, RestTyped
<1> HIDE DEF e
<1>3. DOMAIN continued \subseteq DOMAIN continued'
      /\ \A u \in DOMAIN continued : continued'[u] = continued[u]
  BY <1>2
<1>4. \A i \in Jobs : Followed(i) => Followed(i)'
  BY <1>3 DEF Followed, Continues
<1> QED
  BY <1>1, <1>4 DEF Idle

LEMMA ResumeSteps ==
    ASSUME IInv, NEW r \in DOMAIN runs, ResumeProject(r) \/ ResumeComplete(r)
    PROVE  Idle \/ \E g \in Jobs : Changes(g)
<1>1. UNCHANGED <<admitted, lost, registered, continued>>
  BY DEF ResumeProject, ResumeComplete, server, registry
<1>0. \A i : Followed(i) => Followed(i)'
  BY <1>1, FollowedStays
<1>2. CASE ResumeProject(r)
  BY <1>0, <1>1, <1>2 DEF ResumeProject, server, Idle
<1>3. CASE ResumeComplete(r)
  <2>0. PICK g : g = runs[r].job
    OBVIOUS
  <2>1. /\ g \in Jobs /\ jobs[g].unit = "full" /\ jobs[g].status # "FAIL"
        /\ \/ UNCHANGED <<jobs, at, out>>
           \/ Moves(g, Rec(g, "PASS"), "none", out[g]) /\ Rec(g, "PASS") \in Job
    BY <1>3, <2>0, ResumeCompleteMoves
  <2>2. "PASS" \in Statuses /\ "none" \in Points /\ out[g] \in Dir
    BY <2>1, Typed DEF Statuses, Terminal, Points, IInv, TypeOK
  <2>3. CASE UNCHANGED <<jobs, at, out>>
    BY <1>0, <1>1, <2>3 DEF Idle
  <2>4. CASE Moves(g, Rec(g, "PASS"), "none", out[g]) /\ Rec(g, "PASS") \in Job
    <3>1. FollowsOn(g)
      BY <1>0 DEF FollowsOn
    <3> QED
      BY <1>1, <2>1, <2>2, <2>4, <3>1, ChangesOfRec
  <2> QED
    BY <2>1, <2>3, <2>4
<1> QED
  BY <1>2, <1>3

LEMMA Steps ==
    ASSUME IInv, [Next]_vars
    PROVE  \/ \E j \in Jobs : Changes(j) \/ Starts(j) \/ Resolves(j)
           \/ Asking \/ CheckClose \/ Restart \/ Idle
<1>1. ASSUME NEW j \in Jobs,
             \/ AcqAudit(j) \/ AcqDone(j)
             \/ CalcRun(j) \/ CalcRegister(j)
             \/ PipeStart(j) \/ PipeAcqSeen(j) \/ PipeAi(j)
             \/ PipeCalc(j) \/ PipeCalcSeen(j) \/ PipeTimesOut(j) \/ ChatResolves(j)
             \/ ResumeMap(j)
             \/ FullStart(j) \/ FullMapSeen(j) \/ FullTimesOut(j) \/ FullBegin(j)
             \/ FullFront(j) \/ FullProject(j) \/ FullComplete(j) \/ FullReport(j)
      PROVE  Changes(j) \/ Starts(j) \/ Resolves(j) \/ Idle
  BY <1>1, InputSteps, PipeSteps, PipeStartSteps, PipeCalcSteps, ResolutionSteps, FullSteps,
     ResumeMapSteps
<1>2. ASSUME NEW r \in DOMAIN runs, ResumeProject(r) \/ ResumeComplete(r)
      PROVE  Idle \/ \E g \in Jobs : Changes(g)
  BY <1>2, ResumeSteps
<1>3. ScriptEnds \/ Tick \/ UNCHANGED vars => Idle
  BY FollowedStays DEF ScriptEnds, Tick, vars, server, registry, clients, Idle
<1>4. ASSUME NEW t \in DOMAIN continued,
             ResumeStarts(t) \/ ContinueCalc(t) \/ ContinueSeen(t) \/ ContinueTimesOut(t)
      PROVE  Idle \/ \E j \in Jobs : Changes(j) \/ Starts(j)
  BY <1>4, ResumingSteps DEF Resuming
<1> QED
  BY <1>1, <1>2, <1>3, <1>4 DEF Next, Asking

-----------------------------------------------------------------------------
(* No job is forgotten. *)

\* What NoJobForgotten says of job j.
Cared(j) == jobs[j].status \in {"PENDING", "RUNNING"} /\ j \notin lost => at[j] # "none" \/ Followed(j)

LEMMA CaredIsNone == NoJobForgotten <=> \A j \in Jobs : Cared(j)
  BY DEF NoJobForgotten, Cared, Followed

\* A job whose record and thread stay is still cared for.
LEMMA StillCared ==
    ASSUME NEW i \in Jobs, Cared(i), jobs'[i] = jobs[i], at'[i] = at[i], lost' = lost,
           Followed(i) => Followed(i)'
    PROVE  Cared(i)'
  BY DEF Cared

LEMMA ForgottenNext ==
    ASSUME IInv, \A j \in Jobs : Cared(j), [Next]_vars
    PROVE  \A j \in Jobs' : Cared(j)'
<1>1. ASSUME NEW j \in Jobs, Changes(j)
      PROVE  \A i \in Jobs' : Cared(i)'
  <2>1. PICK x \in Job, p \in Points, d \in Dir : Moves(j, x, p, d) /\ Told(j, x, p)
    BY <1>1 DEF Changes
  <2>2. lost' = lost /\ FollowsOn(j)
    BY <1>1 DEF Changes
  <2>3. Cared(j)'
    BY <2>1 DEF Cared, Moves, Told
  <2>4. ASSUME NEW i \in Jobs \ {j} PROVE Cared(i)'
    BY <2>1, <2>2, StillCared DEF Moves, Same, FollowsOn
  <2>5. Jobs' = Jobs
    BY <2>1 DEF Moves
  <2> QED
    BY <2>3, <2>4, <2>5
<1>2. ASSUME NEW j \in Jobs, Starts(j)
      PROVE  \A i \in Jobs' : Cared(i)'
  <2>1. PICK x \in Job, y \in Job, p \in Points : Spawns(j, x, p, y) /\ (p # "none" \/ Followed(j)')
    BY <1>2 DEF Starts
  <2>2. lost' = lost /\ FollowsOn(j)
    BY <1>2 DEF Starts
  <2>3. Cared(j)'
    BY <2>1 DEF Cared, Spawns
  <2>4. ASSUME NEW i \in Jobs \ {j} PROVE Cared(i)'
    BY <2>1, <2>2, StillCared DEF Spawns, Same, FollowsOn
  <2>0. PICK n : n = Len(jobs) + 1
    OBVIOUS
  <2>5. Jobs' = Jobs \cup {n} /\ at'[n] = "start"
    BY <2>0, <2>1 DEF Spawns, Joins
  <2>6. Cared(n)'
    BY <2>5 DEF Cared
  <2> QED
    BY <2>3, <2>4, <2>5, <2>6
<1>3. ASSUME NEW j \in Jobs, Resolves(j)
      PROVE  \A i \in Jobs' : Cared(i)'
  <2>1. \A i \in Jobs : Followed(i) => Followed(i)'
    BY <1>3, FollowedStays DEF Resolves
  <2>2. lost' = lost /\ Jobs' = Jobs
    BY <1>3 DEF Resolves
  <2>3. ASSUME NEW i \in Jobs \ {j} PROVE Cared(i)'
    BY <1>3, <2>1, <2>2, StillCared DEF Resolves
  <2>4. Cared(j)'
    <3>1. CASE jobs'[j] = jobs[j] /\ at'[j] = at[j]
      BY <2>1, <2>2, <3>1, StillCared
    <3>2. CASE at'[j] # "none" \/ jobs'[j].status \notin {"PENDING", "RUNNING"}
      BY <3>2 DEF Cared
    <3> QED
      BY <1>3, <3>1, <3>2 DEF Resolves
  <2> QED
    BY <2>2, <2>3, <2>4
<1>4. CASE Asking
  <2>1. /\ lost' = lost /\ UNCHANGED continued
        /\ \/ UNCHANGED <<jobs, at, out, admitted>>
           \/ \E y \in Job : AsksFor(y)
    BY <1>4, AskingJoins
  <2>2. \A i \in Jobs : Followed(i) => Followed(i)'
    BY <2>1, FollowedStays
  <2>3. CASE UNCHANGED <<jobs, at, out, admitted>>
    BY <2>1, <2>2, <2>3, StillCared DEF Jobs
  <2>4. ASSUME NEW y \in Job, AsksFor(y)
        PROVE  \A i \in Jobs' : Cared(i)'
    <3>0. PICK n : n = Len(jobs) + 1
      OBVIOUS
    <3>1. /\ Jobs' = Jobs \cup {n} /\ at'[n] = "start"
          /\ \A i \in Jobs : jobs'[i] = jobs[i] /\ at'[i] = at[i]
      BY <2>4, <3>0 DEF AsksFor, Joins, Same
    <3>2. Cared(n)'
      BY <3>1 DEF Cared
    <3>3. \A i \in Jobs : Cared(i)'
      BY <2>1, <2>2, <3>1, StillCared
    <3> QED
      BY <3>1, <3>2, <3>3
  <2> QED
    BY <2>1, <2>3, <2>4
<1>5. CASE CheckClose \/ Idle
  <2>1. UNCHANGED <<jobs, at, lost>> /\ \A i \in Jobs : Followed(i) => Followed(i)'
    <3>1. CheckClose => UNCHANGED <<jobs, at, lost, continued>>
      BY DEF CheckClose, server
    <3> QED
      BY <1>5, <3>1, FollowedStays DEF Idle
  <2> QED
    BY <2>1, StillCared DEF Jobs
<1>6. CASE Restart
  <2>1. /\ lost = {} /\ UNCHANGED jobs
        /\ lost' = {j \in Jobs : at[j] # "none" \/ \E t \in DOMAIN continued : Continues(t, j)}
        /\ continued' = [t \in DOMAIN continued |->
                            [continued[t] EXCEPT !.pc = IF @ = "died" THEN @ ELSE "none"]]
    BY <1>6 DEF Restart
  <2>2. Jobs' = Jobs
    BY <2>1 DEF Jobs
  <2>3. ASSUME NEW j \in Jobs, j \notin lost', Followed(j)
        PROVE  Followed(j)'
    <3>1. PICK t \in DOMAIN continued : Continues(t, j) \/ (continued[t].job = j /\ continued[t].pc = "died")
      BY <2>3 DEF Followed
    <3>2. continued[t].job = j /\ continued[t].pc = "died" /\ continued[t] \in Following
      BY <2>1, <2>3, <3>1, Continued
    <3>3. t \in DOMAIN continued' /\ continued'[t].job = j /\ continued'[t].pc = "died"
      BY <2>1, <3>2 DEF Following
    <3> QED
      BY <3>3 DEF Followed
  <2>4. ASSUME NEW j \in Jobs PROVE Cared(j)'
    <3>1. j \notin lost' => at[j] = "none"
      BY <2>1
    <3> QED
      BY <2>1, <2>3, <3>1 DEF Cared
  <2> QED
    BY <2>2, <2>4
<1> QED
  BY <1>1, <1>2, <1>3, <1>4, <1>5, <1>6, Steps

\* A job that says PENDING or RUNNING has a thread that will still end it, or had it when the
\* server was restarted (app.py's workers), or was resumed by a thread that died of its wait
\* (app.py:1722), whatever is asked, resumed, lost or fails.
THEOREM NoneForgotten == Spec => []NoJobForgotten
<1>1. Init => \A j \in Jobs : Cared(j)
  BY DEF Init, Jobs
<1>2. IInv /\ (\A j \in Jobs : Cared(j)) /\ [Next]_vars => (\A j \in Jobs : Cared(j))'
  BY ForgottenNext
<1> QED
  BY <1>1, <1>2, CaredIsNone, WebInv, PTL DEF Spec

-----------------------------------------------------------------------------
(* Formal runs of one day. *)

\* What request i was admitted on: none of the jobs it saw stands for its day.
CheckedOn(i) ==
    /\ admitted[i].seen \in Jobs \cup {0}
    /\ \A f \in Jobs : f <= admitted[i].seen => ~Stands(f, admitted[i].day)

AdmittedAreChecked == \A i \in DOMAIN admitted : CheckedOn(i)

Raced == \A f, g \in Jobs : \A d : Stands(f, d) /\ Stands(g, d) /\ f < g => jobs[g].seen < f

LEMMA RacedIsRaced == Raced => SecondFormalRunRaced
<1>1. FullJobs \subseteq Jobs
  BY DEF FullJobs
<1> QED
  BY <1>1 DEF SecondFormalRunRaced, Raced

\* A step makes no job stand that did not.
NoNewStand ==
    /\ Jobs \subseteq Jobs'
    /\ \A f \in Jobs' : \A d : Stands(f, d)' => /\ f \in Jobs /\ Stands(f, d)
                                                /\ jobs'[f].seen = jobs[f].seen

\* No step but the creation of an admitted run makes a job stand for a day.
LEMMA NoneStandsNewly ==
    ASSUME IInv, NEW j \in Jobs, Changes(j) \/ Starts(j) \/ Resolves(j)
    PROVE  NoNewStand
<1>1. ASSUME NEW x, Keeps(j, x), jobs'[j] = x, NEW d, Stands(j, d)'
      PROVE  Stands(j, d) /\ jobs'[j].seen = jobs[j].seen
  BY <1>1 DEF Keeps, Stands
<1>2. ASSUME NEW f \in Jobs, jobs'[f] = jobs[f], NEW d, Stands(f, d)'
      PROVE  Stands(f, d) /\ jobs'[f].seen = jobs[f].seen
  BY <1>2 DEF Stands
<1>3. CASE Changes(j)
  <2>1. PICK x \in Job, p \in Points, e \in Dir : Moves(j, x, p, e) /\ Keeps(j, x)
    BY <1>3 DEF Changes
  <2>2. Jobs' = Jobs /\ jobs'[j] = x /\ \A i \in Jobs \ {j} : jobs'[i] = jobs[i]
    BY <2>1 DEF Moves, Same
  <2> QED
    BY <1>1, <1>2, <2>1, <2>2 DEF NoNewStand
<1>4. CASE Starts(j)
  <2>1. PICK x \in Job, y \in Job, p \in Points : Spawns(j, x, p, y) /\ Keeps(j, x) /\ y.unit # "full"
    BY <1>4 DEF Starts
  <2>0. PICK n : n = Len(jobs) + 1
    OBVIOUS
  <2>2. /\ Jobs' = Jobs \cup {n} /\ jobs'[n] = y
        /\ jobs'[j] = x /\ \A i \in Jobs \ {j} : jobs'[i] = jobs[i]
    BY <2>0, <2>1 DEF Spawns, Joins, Same
  <2>4. \A d : ~Stands(n, d)'
    BY <2>1, <2>2 DEF Stands
  <2> QED
    BY <1>1, <1>2, <2>1, <2>2, <2>4 DEF NoNewStand
<1>5. CASE Resolves(j)
  <2>1. Jobs' = Jobs /\ jobs'[j].unit = "pipe" /\ \A i \in Jobs \ {j} : jobs'[i] = jobs[i]
    BY <1>5 DEF Resolves
  <2>3. \A d : ~Stands(j, d)'
    BY <2>1 DEF Stands
  <2> QED
    BY <1>2, <2>1, <2>3 DEF NoNewStand
<1> QED
  BY <1>3, <1>4, <1>5

LEMMA FormalNext ==
    ASSUME IInv, Raced, AdmittedAreChecked, [Next]_vars
    PROVE  Raced' /\ AdmittedAreChecked'
<1>0. admitted \in Seq(Admission) /\ DOMAIN jobs = Jobs /\ Jobs = 1..Len(jobs) /\ Len(jobs) \in Nat
  BY Typed DEF IInv, TypeOK, RestTyped, JobsTyped, Jobs
<1>1. ASSUME admitted' = admitted \/ admitted' = <<>>, NoNewStand
      PROVE  Raced' /\ AdmittedAreChecked'
  <2>1. Raced'
    BY <1>1 DEF Raced, NoNewStand
  <2>2. ASSUME NEW i \in DOMAIN admitted, admitted' = admitted
        PROVE  CheckedOn(i)'
    <3>1. CheckedOn(i)
      BY DEF AdmittedAreChecked
    <3> QED
      BY <1>1, <2>2, <3>1 DEF CheckedOn, NoNewStand
  <2>3. AdmittedAreChecked'
    BY <1>1, <2>2 DEF AdmittedAreChecked
  <2> QED
    BY <2>1, <2>3
<1>2. UNCHANGED jobs => NoNewStand
  BY DEF NoNewStand, Stands, Jobs
<1>3. ASSUME NEW j \in Jobs, Changes(j) \/ Starts(j) \/ Resolves(j)
      PROVE  Raced' /\ AdmittedAreChecked'
  <2>1. admitted' = admitted
    BY <1>3 DEF Changes, Starts, Resolves
  <2> QED
    BY <1>1, <1>3, <2>1, NoneStandsNewly
<1>4. CASE Asking
  <2>1. UNCHANGED <<jobs, at, out, admitted>> \/ \E y \in Job : AsksFor(y)
    BY <1>4, AskingJoins
  <2>2. CASE UNCHANGED <<jobs, at, out, admitted>>
    BY <1>1, <1>2, <2>2
  <2>3. ASSUME NEW y \in Job, AsksFor(y)
        PROVE  Raced' /\ AdmittedAreChecked'
    <3>0. PICK n : n = Len(jobs) + 1
      OBVIOUS
    <3>1. /\ Jobs' = Jobs \cup {n} /\ n \notin Jobs /\ jobs'[n] = y /\ y.day = y.cutoff
          /\ \A i \in Jobs : jobs'[i] = jobs[i]
      BY <2>3, <3>0 DEF AsksFor, Fresh, Joins, Same
    <3>2. \A f \in Jobs : \A d : Stands(f, d)' <=> Stands(f, d)
      BY <3>1 DEF Stands
    <3>3. CASE UNCHANGED admitted /\ ~(y.unit = "full" /\ y.mode = "CLOSE")
      <4>1. \A d : ~Stands(n, d)'
        BY <3>1, <3>3 DEF Stands
      <4>2. NoNewStand
        BY <3>1, <3>2, <4>1 DEF NoNewStand
      <4> QED
        BY <1>1, <3>3, <4>2
    <3>4. CASE /\ admitted # <<>> /\ admitted' = Tail(admitted)
               /\ y.unit = "full" /\ y.cutoff = Head(admitted).day /\ y.seen = Head(admitted).seen
      <4>1. /\ 1 \in DOMAIN admitted /\ Head(admitted) = admitted[1]
            /\ \A i \in DOMAIN admitted' : i + 1 \in DOMAIN admitted /\ admitted'[i] = admitted[i + 1]
        BY <1>0, <3>4
      <4>2. CheckedOn(1) /\ \A i \in DOMAIN admitted' : CheckedOn(i + 1)
        BY <4>1 DEF AdmittedAreChecked
      <4>3. ASSUME NEW d, Stands(n, d)'
            PROVE  d = admitted[1].day
        BY <3>1, <3>4, <4>1, <4>3 DEF Stands
      <4>4. Raced'
        <5> SUFFICES ASSUME NEW f \in Jobs \cup {n}, NEW g \in Jobs \cup {n}, NEW d,
                            Stands(f, d)', Stands(g, d)', f < g
                     PROVE  jobs'[g].seen < f
          BY <3>1 DEF Raced
        <5>1. f \in Jobs
          BY <1>0, <3>0
        <5>2. CASE g \in Jobs
          BY <3>1, <3>2, <5>1, <5>2 DEF Raced
        <5>3. CASE g = n
          <6>1. Stands(f, admitted[1].day)
            BY <3>2, <4>3, <5>1, <5>3
          <6>2. ~(f <= admitted[1].seen) /\ admitted[1].seen \in Jobs \cup {0}
            BY <4>2, <5>1, <6>1 DEF CheckedOn
          <6>3. jobs'[g].seen = admitted[1].seen
            BY <3>1, <3>4, <4>1, <5>3
          <6> QED
            BY <1>0, <5>1, <6>2, <6>3
        <5> QED
          BY <5>2, <5>3
      <4>5. AdmittedAreChecked'
        <5> SUFFICES ASSUME NEW i \in DOMAIN admitted' PROVE CheckedOn(i)'
          BY DEF AdmittedAreChecked
        <5>1. CheckedOn(i + 1) /\ admitted'[i] = admitted[i + 1]
          BY <4>1, <4>2
        <5>2. ~(n <= admitted[i + 1].seen)
          BY <1>0, <3>0, <5>1 DEF CheckedOn
        <5> QED
          BY <3>1, <3>2, <5>1, <5>2 DEF CheckedOn
      <4> QED
        BY <4>4, <4>5
    <3> QED
      BY <2>3, <3>3, <3>4 DEF AsksFor
  <2> QED
    BY <2>1, <2>2, <2>3
<1>5. CASE CheckClose
  <2> DEFINE e == [day |-> day, seen |-> Len(jobs)]
             k == Len(admitted) + 1
  <2>1. UNCHANGED jobs /\ admitted' = Append(admitted, e) /\ Jobs' = Jobs
    BY <1>5 DEF CheckClose, server, Jobs
  <2>2. \A f \in Jobs : ~Stands(f, e.day)
    BY <1>5 DEF CheckClose, FormalRunAvailable, FullJobs, Stands
  <2>3. e.seen \in Jobs \cup {0}
    BY <1>0
  <2>6. e \in Admission
    BY <1>0 DEF Admission, IInv, TypeOK, RestTyped
  <2> HIDE DEF e
  <2>4. /\ DOMAIN admitted' = DOMAIN admitted \cup {k} /\ admitted'[k] = e
        /\ \A i \in DOMAIN admitted : admitted'[i] = admitted[i]
    BY <1>0, <2>1, <2>6, SeqAdd
  <2>5. ASSUME NEW i \in DOMAIN admitted \cup {k}
        PROVE  CheckedOn(i)'
    <3>1. CASE i \in DOMAIN admitted
      BY <2>1, <2>4, <3>1 DEF AdmittedAreChecked, CheckedOn, Stands
    <3>2. CASE i = k
      BY <2>1, <2>2, <2>3, <2>4, <3>2 DEF CheckedOn, Stands
    <3> QED
      BY <3>1, <3>2
  <2>7. AdmittedAreChecked'
    BY <2>4, <2>5 DEF AdmittedAreChecked
  <2>8. Raced'
    BY <2>1 DEF Raced, Stands
  <2> QED
    BY <2>7, <2>8
<1>6. CASE Restart
  BY <1>1, <1>2, <1>6 DEF Restart
<1>7. CASE Idle
  BY <1>1, <1>2, <1>7 DEF Idle
<1> QED
  BY <1>3, <1>4, <1>5, <1>6, <1>7, Steps

\* A second formal run of one day's close gets in only between another's check and its
\* record (create_opportunity_full_run), whatever is asked, resumed, crashes or fails.
THEOREM SecondRunRaced == Spec => []SecondFormalRunRaced
<1>1. Init => Raced /\ AdmittedAreChecked
  BY DEF Init, Raced, AdmittedAreChecked, Jobs
<1>2. IInv /\ Raced /\ AdmittedAreChecked /\ [Next]_vars => Raced' /\ AdmittedAreChecked'
  BY FormalNext
<1> QED
  BY <1>1, <1>2, RacedIsRaced, WebInv, PTL DEF Spec

-----------------------------------------------------------------------------
(* Formal maps. *)

Found == {"PASS", "NEEDS_REVIEW"}

\* What a formal acquisition x found by a calendar, its thread at p and its directory d, is
\* of its cutoff.
OfItsClose(x, p, d) ==
    /\ x.unit = "acq" /\ x.mode \in {"CLOSE", "PRE_TRADE_CLOSE"} /\ d.checked
    /\ \/ d.result \in Found
       \/ p = "audited" /\ d.audit \in Found
    => d.data = x.cutoff

InputsAreOfTheirClose == \A a \in Jobs : OfItsClose(jobs[a], at[a], out[a])

\* A pipeline, its acquisition and its calculation are asked for one date.
CutoffsAgree ==
    \A p \in Jobs : jobs[p].unit = "pipe" =>
        /\ jobs[p].acq # None => jobs[p].cutoff = jobs[jobs[p].acq].cutoff
        /\ jobs[p].calc # None =>
              /\ jobs[p].acq # None
              /\ jobs[p].calc \in Jobs /\ jobs[jobs[p].calc].unit = "calc"
              /\ jobs[jobs[p].calc].cutoff = jobs[p].cutoff

\* A formal snapshot d, of acquisition a and asked for under the date c, is of what a found.
Snapshot(d, a, c) ==
    d.class = "FORMAL_CLOSE" =>
        /\ a \in Jobs /\ out[a].result \in Found
        /\ out[a].checked => d.data = jobs[a].cutoff
        /\ d.cutoff = c

SnapshotsAreOfTheirInput == \A c \in Jobs : Snapshot(out[c], jobs[c].acq, jobs[c].cutoff)

RegisteredAreFormal == \A c \in registered : out[c].class = "FORMAL_CLOSE"

Formals == InputsAreOfTheirClose /\ CutoffsAgree /\ SnapshotsAreOfTheirInput /\ RegisteredAreFormal

\* The gate lets a formal acquisition through when the prices are those of its cutoff.
LEMMA GateIsClose ==
    ASSUME day \in Days, NEW mode \in {"CLOSE", "PRE_TRADE_CLOSE"}, NEW cutoff,
           CloseGate(mode, cutoff, TRUE)
    PROVE  CloseNow = cutoff
<1>1. CASE mode = "CLOSE"
  BY <1>1, LastTradeDays DEF CloseGate, CloseNow
<1>2. CASE mode = "PRE_TRADE_CLOSE"
  BY <1>2, LastTradeDays DEF CloseGate, CloseNow
<1> QED
  BY <1>1, <1>2

\* Only a calculation has a snapshot, and its acquisition is one.
LEMMA SnapshotFits ==
    ASSUME IInv, NEW c \in Jobs, out[c].class = "FORMAL_CLOSE"
    PROVE  jobs[c].unit = "calc" /\ jobs[c].acq \in Jobs /\ jobs[jobs[c].acq].unit = "acq"
<1>1. jobs[c].unit = "calc" /\ jobs[c].acq # None
  BY WebConstants DEF IInv, ThreadsFit, Fits
<1> QED
  BY <1>1 DEF IInv, AcquisitionsAreOwn

\* Snapshot c stays what it is when its own record and files stay and its acquisition keeps
\* its date and, once it has one, its result.
LEMMA SnapshotStays ==
    ASSUME IInv, SnapshotsAreOfTheirInput, Jobs \subseteq Jobs', NEW c \in Jobs,
           out'[c].class = out[c].class, out'[c].data = out[c].data, out'[c].cutoff = out[c].cutoff,
           jobs[c].unit = "calc" => jobs'[c].acq = jobs[c].acq /\ jobs'[c].cutoff = jobs[c].cutoff,
           \A a \in Jobs : jobs[a].unit = "acq" => jobs'[a].cutoff = jobs[a].cutoff,
           \A a \in Jobs : jobs[a].unit = "acq" /\ out[a].result \in Found =>
                out'[a].result = out[a].result /\ out'[a].checked = out[a].checked
    PROVE  Snapshot(out[c], jobs[c].acq, jobs[c].cutoff)'
<1>1. Snapshot(out[c], jobs[c].acq, jobs[c].cutoff)
  BY DEF SnapshotsAreOfTheirInput
<1>2. CASE out[c].class # "FORMAL_CLOSE"
  BY <1>2 DEF Snapshot
<1>3. CASE out[c].class = "FORMAL_CLOSE"
  <2>1. jobs[c].unit = "calc" /\ jobs[c].acq \in Jobs /\ jobs[jobs[c].acq].unit = "acq"
    BY <1>3, SnapshotFits
  <2>2. PICK a \in Jobs : a = jobs[c].acq
    BY <2>1
  <2>3. jobs[a].unit = "acq" /\ out[a].result \in Found
        /\ (out[a].checked => out[c].data = jobs[a].cutoff) /\ out[c].cutoff = jobs[c].cutoff
    BY <1>1, <1>3, <2>1, <2>2 DEF Snapshot
  <2>4. out'[a].result \in Found /\ out'[a].checked = out[a].checked /\ jobs'[a].cutoff = jobs[a].cutoff
    BY <2>3
  <2>5. jobs'[c].acq = a /\ jobs'[c].cutoff = jobs[c].cutoff /\ a \in Jobs'
    BY <2>1, <2>2
  <2> QED
    BY <2>3, <2>4, <2>5 DEF Snapshot
<1> QED
  BY <1>2, <1>3

\* A step of one job keeps the parts about data and dates when what it leaves is of its close.
LEMMA FormalMove ==
    ASSUME IInv, Formals, NEW j \in Jobs, NEW x \in Job, NEW p \in Points, NEW d \in Dir,
           Moves(j, x, p, d), Keeps(j, x), x.acq = jobs[j].acq, x.calc = jobs[j].calc,
           OfItsClose(x, p, d),
           d = out[j] \/ (/\ out[j].class = None /\ out[j].result \notin Found
                          /\ Snapshot(d, x.acq, x.cutoff) /\ (d.class # None => x.acq # j)),
           \/ UNCHANGED registered
           \/ registered' = registered \cup {j} /\ out[j].class = "FORMAL_CLOSE"
    PROVE  Formals'
<1>0. registered \subseteq Jobs /\ "FORMAL_CLOSE" # None
  BY WebConstants DEF IInv, TypeOK, RestTyped
<1>1. /\ Jobs' = Jobs /\ jobs'[j] = x /\ at'[j] = p /\ out'[j] = d
      /\ \A i \in Jobs \ {j} : jobs'[i] = jobs[i] /\ at'[i] = at[i] /\ out'[i] = out[i]
  BY DEF Moves, Same
<1>6. \A i \in Jobs : /\ jobs'[i].unit = jobs[i].unit /\ jobs'[i].acq = jobs[i].acq
                      /\ jobs'[i].calc = jobs[i].calc
                      /\ jobs[i].unit # "full" => jobs'[i].cutoff = jobs[i].cutoff
  BY <1>1 DEF Keeps
<1>2. InputsAreOfTheirClose'
  BY <1>1 DEF Formals, InputsAreOfTheirClose, OfItsClose
<1>3. CutoffsAgree'
  <2> SUFFICES ASSUME NEW i \in Jobs, jobs[i].unit = "pipe"
               PROVE  /\ jobs[i].acq # None => jobs[i].cutoff = jobs'[jobs[i].acq].cutoff
                      /\ jobs[i].calc # None =>
                            /\ jobs[i].acq # None
                            /\ jobs[i].calc \in Jobs /\ jobs'[jobs[i].calc].unit = "calc"
                            /\ jobs'[jobs[i].calc].cutoff = jobs[i].cutoff
    BY <1>1, <1>6 DEF CutoffsAgree
  <2>1. jobs[i].acq # None => jobs[i].acq \in Jobs /\ jobs[jobs[i].acq].unit = "acq"
    BY DEF IInv, AcquisitionsAreOwn
  <2>2. /\ jobs[i].acq # None => jobs[i].cutoff = jobs[jobs[i].acq].cutoff
        /\ jobs[i].calc # None =>
              /\ jobs[i].acq # None
              /\ jobs[i].calc \in Jobs /\ jobs[jobs[i].calc].unit = "calc"
              /\ jobs[jobs[i].calc].cutoff = jobs[i].cutoff
    BY DEF Formals, CutoffsAgree
  <2> QED
    BY <1>6, <2>1, <2>2
<1>4. SnapshotsAreOfTheirInput'
  <2>1. \A a \in Jobs : jobs[a].unit = "acq" => jobs'[a].cutoff = jobs[a].cutoff
    BY <1>6
  <2>2. \A a \in Jobs : jobs[a].unit = "acq" /\ out[a].result \in Found =>
                out'[a].result = out[a].result /\ out'[a].checked = out[a].checked
    BY <1>1
  <2>3. ASSUME NEW c \in Jobs, c # j \/ d = out[j]
        PROVE  Snapshot(out[c], jobs[c].acq, jobs[c].cutoff)'
    <3>1. out'[c] = out[c]
      BY <1>1, <2>3
    <3>2. jobs[c].unit = "calc" => jobs'[c].acq = jobs[c].acq /\ jobs'[c].cutoff = jobs[c].cutoff
      BY <1>6
    <3> QED
      BY <1>1, <2>1, <2>2, <3>1, <3>2, SnapshotStays DEF Formals
  <2>4. ASSUME out[j].class = None, Snapshot(d, x.acq, x.cutoff), d.class # None => x.acq # j
        PROVE  Snapshot(out[j], jobs[j].acq, jobs[j].cutoff)'
    <3>1. CASE d.class # "FORMAL_CLOSE"
      BY <1>1, <3>1 DEF Snapshot
    <3>2. CASE d.class = "FORMAL_CLOSE"
      <4>1. PICK a \in Jobs : a = x.acq /\ out[a].result \in Found
                              /\ (out[a].checked => d.data = jobs[a].cutoff) /\ d.cutoff = x.cutoff
        BY <2>4, <3>2 DEF Snapshot
      <4>2. a # j
        BY <1>0, <2>4, <3>2, <4>1
      <4>3. out'[a] = out[a] /\ jobs'[a] = jobs[a]
        BY <1>1, <4>2
      <4> QED
        BY <1>1, <4>1, <4>3 DEF Snapshot
    <3> QED
      BY <3>1, <3>2
  <2>5. \A c \in Jobs : Snapshot(out[c], jobs[c].acq, jobs[c].cutoff)'
    BY <2>3, <2>4
  <2> QED
    BY <1>1, <2>5 DEF SnapshotsAreOfTheirInput
<1>5. RegisteredAreFormal'
  <2>1. \A c \in registered : out[c].class = "FORMAL_CLOSE" /\ c \in Jobs
    BY <1>0 DEF Formals, RegisteredAreFormal
  <2>3. ASSUME NEW c \in Jobs, out[c].class = "FORMAL_CLOSE"
        PROVE  out'[c].class = "FORMAL_CLOSE"
    BY <1>0, <1>1, <2>3
  <2> QED
    BY <2>1, <2>3 DEF RegisteredAreFormal
<1> QED
  BY <1>2, <1>3, <1>4, <1>5 DEF Formals

LEMMA FormalInput ==
    ASSUME IInv, Formals, NEW j \in Jobs, AcqAudit(j) \/ AcqDone(j) \/ CalcRun(j)
    PROVE  Formals'
<1>1. /\ {"audited", "none", "register"} \subseteq Points /\ {"PASS", "FAIL"} \subseteq Statuses
      /\ Terminal \subseteq Statuses
      /\ JobsTyped /\ out[j] \in Dir /\ jobs[j] \in Job /\ Fits(jobs[j], at[j], out[j])
      /\ day \in Days /\ None \notin Found /\ "FORMAL_CLOSE" # None
  BY Typed, WebConstants DEF Points, Statuses, Terminal, IInv, TypeOK, RestTyped, ThreadsFit, Found
<1>2. OfItsClose(jobs[j], at[j], out[j])
  BY DEF Formals, InputsAreOfTheirClose
<1>3. UNCHANGED registered
  BY DEF AcqAudit, AcqDone, CalcRun, registry
<1>4. ASSUME NEW s \in Statuses, jobs[j].unit # "full"
      PROVE  /\ Keeps(j, Rec(j, s)) /\ Rec(j, s).calc = jobs[j].calc
             /\ Rec(j, s).acq = jobs[j].acq /\ Rec(j, s).unit = jobs[j].unit
             /\ Rec(j, s).mode = jobs[j].mode /\ Rec(j, s).cutoff = jobs[j].cutoff
  BY <1>1, <1>4, RecFields DEF Keeps
<1>5. CASE AcqAudit(j)
  <2>1. PICK o \in Terminal, s \in Statuses, d \in Dir :
             /\ Moves(j, Rec(j, s), "audited", d) /\ Rec(j, s) \in Job
             /\ d.audit = o /\ d.data = Fetched(j) /\ d.result = None /\ d.class = out[j].class
             /\ jobs[j].unit = "acq" /\ out[j].result = None
             /\ o # "FAIL" => CloseGate(jobs[j].mode, jobs[j].cutoff, d.checked)
    BY <1>5, AcqAuditMoves
  <2>2. d.class = None /\ out[j].class = None
    BY <1>1, <2>1 DEF Fits
  <2>3. OfItsClose(Rec(j, s), "audited", d)
    <3> SUFFICES ASSUME jobs[j].mode \in {"CLOSE", "PRE_TRADE_CLOSE"}, d.audit \in Found, d.checked
                 PROVE  d.data = jobs[j].cutoff
      BY <1>1, <1>4, <2>1 DEF OfItsClose
    <3>0. d.checked = TRUE
      BY DEF Dir
    <3>1. CloseGate(jobs[j].mode, jobs[j].cutoff, TRUE)
      BY <2>1, <3>0 DEF Found
    <3>2. d.data = CloseNow
      BY <2>1, FetchedTyped
    <3> QED
      BY <1>1, <3>1, <3>2, GateIsClose
  <2>4. Snapshot(d, Rec(j, s).acq, Rec(j, s).cutoff)
    BY <1>1, <2>2 DEF Snapshot
  <2> QED
    BY <1>1, <1>3, <1>4, <2>1, <2>2, <2>3, <2>4, FormalMove
<1>6. CASE AcqDone(j)
  <2> DEFINE s == out[j].audit
  <2>1. PICK d \in Dir :
             /\ Moves(j, Rec(j, s), "none", d) /\ Rec(j, s) \in Job /\ s \in Terminal
             /\ d.result = s /\ d.data = out[j].data /\ d.class = out[j].class
             /\ d.checked = out[j].checked /\ out[j].result = None
             /\ jobs[j].unit = "acq" /\ at[j] = "audited"
    BY <1>6, AcqDoneMoves
  <2>2. d.class = None /\ out[j].class = None
    BY <1>1, <2>1 DEF Fits
  <2>5. s \in Statuses
    BY <1>1, <2>1
  <2>3. OfItsClose(Rec(j, s), "none", d)
    BY <1>2, <1>4, <2>1, <2>5 DEF OfItsClose
  <2> HIDE DEF s
  <2>4. Snapshot(d, Rec(j, s).acq, Rec(j, s).cutoff)
    BY <1>1, <2>2 DEF Snapshot
  <2> QED
    BY <1>1, <1>3, <1>4, <2>1, <2>2, <2>3, <2>4, <2>5, FormalMove
<1>7. CASE CalcRun(j)
  <2>0. PICK a : a = jobs[j].acq
    OBVIOUS
  <2>1. jobs[j].unit = "calc" /\ at[j] = "start" /\ a \in Jobs /\ jobs[a].unit = "acq"
        /\ out[j].class = None /\ a # j /\ out[j].result \notin Found
    BY <1>1, <1>7, <2>0, CalcRunMoves DEF Fits
  <2>3. ASSUME NEW d \in Dir, Moves(j, Rec(j, "PASS"), "register", d), Rec(j, "PASS") \in Job,
               Trusted(a), d.class = SnapshotClass(a), d.data = out[a].data,
               d.cutoff = jobs[j].cutoff
        PROVE  Formals'
    <3>1. OfItsClose(Rec(j, "PASS"), "register", d)
      BY <1>1, <1>4, <2>1 DEF OfItsClose
    <3>2. Snapshot(d, a, jobs[j].cutoff)
      <4>1. d.class = "FORMAL_CLOSE" => jobs[a].mode \in {"CLOSE", "PRE_TRADE_CLOSE"}
        BY <2>3 DEF SnapshotClass
      <4>2. out[a].result \in Found
        BY <2>3 DEF Trusted, Found
      <4>3. OfItsClose(jobs[a], at[a], out[a])
        BY <2>1 DEF Formals, InputsAreOfTheirClose
      <4>4. jobs[a].mode \in {"CLOSE", "PRE_TRADE_CLOSE"} /\ out[a].checked => out[a].data = jobs[a].cutoff
        BY <2>1, <4>2, <4>3 DEF OfItsClose
      <4> QED
        BY <2>1, <2>3, <4>1, <4>2, <4>4 DEF Snapshot
    <3>3. Rec(j, "PASS").acq = a /\ Rec(j, "PASS").cutoff = jobs[j].cutoff
          /\ Keeps(j, Rec(j, "PASS")) /\ Rec(j, "PASS").calc = jobs[j].calc
      BY <1>1, <1>4, <2>0, <2>1
    <3>4. Snapshot(d, Rec(j, "PASS").acq, Rec(j, "PASS").cutoff)
      BY <3>2, <3>3
    <3> QED
      BY <1>1, <1>3, <2>0, <2>1, <2>3, <3>1, <3>3, <3>4, FormalMove
  <2>4. CASE Moves(j, Rec(j, "FAIL"), "none", out[j]) /\ Rec(j, "FAIL") \in Job
    <3>1. OfItsClose(Rec(j, "FAIL"), "none", out[j])
      BY <1>1, <1>4, <2>1 DEF OfItsClose
    <3> QED
      BY <1>1, <1>3, <1>4, <2>1, <2>4, <3>1, FormalMove
  <2> QED
    BY <1>7, <2>0, <2>3, <2>4, CalcRunMoves
<1> QED
  BY <1>5, <1>6, <1>7

\* A new job n has no result; the job that waits for it is asked for the same date.
LEMMA FormalJoin ==
    ASSUME IInv, Formals, NEW n, NEW y \in Job, Joins(n, y), UNCHANGED registered,
           \A i \in Jobs :
              /\ out'[i] = out[i] /\ jobs'[i].unit = jobs[i].unit
              /\ jobs[i].unit # "full" => jobs'[i].cutoff = jobs[i].cutoff
              /\ jobs[i].unit = "acq" => Same(i)
              /\ jobs[i].unit = "calc" => jobs'[i].acq = jobs[i].acq,
           \A i \in Jobs : jobs[i].unit = "pipe" =>
              \/ jobs'[i].acq = jobs[i].acq /\ jobs'[i].calc = jobs[i].calc
              \/ /\ jobs'[i].acq = n /\ y.cutoff = jobs'[i].cutoff
                 /\ jobs'[i].calc = jobs[i].calc
              \/ /\ jobs'[i].acq = jobs[i].acq /\ jobs[i].acq # None
                 /\ jobs'[i].calc = n /\ y.unit = "calc" /\ y.cutoff = jobs'[i].cutoff,
           y.unit = "pipe" => y.acq = None /\ y.calc = None
    PROVE  Formals'
<1>0. registered \subseteq Jobs /\ JobsTyped /\ n # None
      /\ \A i \in Jobs : jobs[i].acq # None => jobs[i].acq \in Jobs /\ jobs[jobs[i].acq].unit = "acq"
  <2>1. Len(jobs) \in Nat
    BY DEF IInv, TypeOK, JobsTyped
  <2> QED
    BY <2>1, WebConstants DEF IInv, TypeOK, RestTyped, Jobs, AcquisitionsAreOwn, Joins
<1>1. /\ Jobs' = Jobs \cup {n} /\ n \notin Jobs /\ jobs'[n] = y /\ at'[n] = "start"
      /\ out'[n] = EmptyDir /\ \A i \in Jobs : out'[i] = out[i]
  BY DEF Joins
<1>2. /\ EmptyDir.result = None /\ EmptyDir.class = None /\ None \notin Found
      /\ None # "FORMAL_CLOSE"
  BY WebConstants DEF EmptyDir, Found
<1>3. InputsAreOfTheirClose'
  <2> SUFFICES ASSUME NEW a \in Jobs \cup {n}
               PROVE  OfItsClose(jobs'[a], at'[a], out'[a])
    BY <1>1 DEF InputsAreOfTheirClose
  <2>1. CASE a = n
    BY <1>1, <1>2, <2>1 DEF OfItsClose
  <2>2. CASE a \in Jobs /\ jobs[a].unit = "acq"
    <3>1. OfItsClose(jobs[a], at[a], out[a])
      BY <2>2 DEF Formals, InputsAreOfTheirClose
    <3> QED
      BY <2>2, <3>1 DEF Same
  <2>3. CASE a \in Jobs /\ jobs[a].unit # "acq"
    BY <2>3 DEF OfItsClose
  <2> QED
    BY <2>1, <2>2, <2>3
<1>4. CutoffsAgree'
  <2> SUFFICES ASSUME NEW i \in Jobs \cup {n}, jobs'[i].unit = "pipe"
               PROVE  /\ jobs'[i].acq # None => jobs'[i].cutoff = jobs'[jobs'[i].acq].cutoff
                      /\ jobs'[i].calc # None =>
                            /\ jobs'[i].acq # None
                            /\ jobs'[i].calc \in Jobs' /\ jobs'[jobs'[i].calc].unit = "calc"
                            /\ jobs'[jobs'[i].calc].cutoff = jobs'[i].cutoff
    BY <1>1 DEF CutoffsAgree
  <2>1. CASE i = n
    BY <1>1, <2>1
  <2>2. CASE i \in Jobs
    <3>1. jobs[i].unit = "pipe" /\ jobs'[i].cutoff = jobs[i].cutoff
      BY <2>2
    <3>2. jobs[i].acq # None => /\ jobs'[jobs[i].acq].cutoff = jobs[jobs[i].acq].cutoff
                                /\ jobs[i].cutoff = jobs[jobs[i].acq].cutoff
      <4>1. jobs[i].acq # None => jobs[i].acq \in Jobs /\ jobs[jobs[i].acq].unit = "acq"
        BY <1>0, <2>2
      <4> QED
        BY <2>2, <3>1, <4>1 DEF Formals, CutoffsAgree
    <3>3. jobs[i].calc # None => /\ jobs[i].acq # None
                                 /\ jobs[i].calc \in Jobs /\ jobs'[jobs[i].calc].unit = "calc"
                                 /\ jobs'[jobs[i].calc].cutoff = jobs[i].cutoff
      <4>1. jobs[i].calc # None => /\ jobs[i].acq # None
                                   /\ jobs[i].calc \in Jobs /\ jobs[jobs[i].calc].unit = "calc"
                                   /\ jobs[jobs[i].calc].cutoff = jobs[i].cutoff
        BY <2>2, <3>1 DEF Formals, CutoffsAgree
      <4> QED
        BY <4>1
    <3>4. CASE jobs'[i].acq = jobs[i].acq /\ jobs'[i].calc = jobs[i].calc
      BY <1>1, <3>1, <3>2, <3>3, <3>4
    <3>5. CASE /\ jobs'[i].acq = n /\ y.cutoff = jobs'[i].cutoff
               /\ jobs'[i].calc = jobs[i].calc
      BY <1>0, <1>1, <3>1, <3>3, <3>5
    <3>6. CASE /\ jobs'[i].acq = jobs[i].acq /\ jobs[i].acq # None
               /\ jobs'[i].calc = n /\ y.unit = "calc" /\ y.cutoff = jobs'[i].cutoff
      BY <1>1, <3>1, <3>2, <3>6
    <3> QED
      BY <2>2, <3>1, <3>4, <3>5, <3>6
  <2> QED
    BY <2>1, <2>2
<1>5. SnapshotsAreOfTheirInput'
  <2>1. ASSUME NEW c \in Jobs
        PROVE  Snapshot(out[c], jobs[c].acq, jobs[c].cutoff)'
    BY <1>1, SnapshotStays DEF Formals
  <2>2. Snapshot(out[n], jobs[n].acq, jobs[n].cutoff)'
    BY <1>1, <1>2 DEF Snapshot
  <2>3. \A c \in Jobs' : Snapshot(out[c], jobs[c].acq, jobs[c].cutoff)'
    BY <1>1, <2>1, <2>2
  <2> QED
    BY <2>3 DEF SnapshotsAreOfTheirInput
<1>6. RegisteredAreFormal'
  BY <1>0, <1>1 DEF Formals, RegisteredAreFormal
<1> QED
  BY <1>3, <1>4, <1>5, <1>6 DEF Formals

\* Steps that leave the jobs' records and directories alone, but for their threads.
LEMMA FormalStill ==
    ASSUME Formals, UNCHANGED <<jobs, out, registered>>,
           \A j \in Jobs : at'[j] = at[j] \/ at'[j] = "none"
    PROVE  Formals'
<1>1. Jobs' = Jobs
  BY DEF Jobs
<1>2. InputsAreOfTheirClose'
  BY <1>1 DEF Formals, InputsAreOfTheirClose, OfItsClose
<1>3. CutoffsAgree' /\ RegisteredAreFormal'
  BY <1>1 DEF Formals, CutoffsAgree, RegisteredAreFormal
<1>4. SnapshotsAreOfTheirInput'
  BY <1>1 DEF Formals, SnapshotsAreOfTheirInput, Snapshot
<1> QED
  BY <1>2, <1>3, <1>4 DEF Formals

LEMMA FormalNextStep ==
    ASSUME IInv, Formals, [Next]_vars
    PROVE  Formals'
<1>0. registered \subseteq Jobs /\ DOMAIN jobs = Jobs /\ JobsTyped
  BY DEF IInv, TypeOK, RestTyped, Jobs
<1>1. ASSUME NEW j \in Jobs, Changes(j)
      PROVE  Formals'
  <2>1. CASE AcqAudit(j) \/ AcqDone(j) \/ CalcRun(j)
    BY <2>1, FormalInput
  <2>2. CASE ~(AcqAudit(j) \/ AcqDone(j) \/ CalcRun(j))
    <3>1. PICK x \in Job, p \in Points, d \in Dir :
            /\ Moves(j, x, p, d) /\ Keeps(j, x) /\ x.acq = jobs[j].acq /\ x.calc = jobs[j].calc
            /\ d = out[j] /\ jobs[j].unit # "acq"
      BY <1>1, <2>2 DEF Changes
    <3>2. OfItsClose(x, p, d)
      BY <3>1 DEF OfItsClose, Keeps
    <3>4. \/ UNCHANGED registered
          \/ registered' = registered \cup {j} /\ out[j].class = "FORMAL_CLOSE"
      BY <1>1 DEF Changes
    <3> QED
      BY <3>1, <3>2, <3>4, FormalMove
  <2> QED
    BY <2>1, <2>2
<1>3. ASSUME NEW j \in Jobs, Starts(j)
      PROVE  Formals'
  <2>3. PICK n : n = Len(jobs) + 1
    OBVIOUS
  <2>1. PICK x \in Job, y \in Job, p \in Points :
         /\ Spawns(j, x, p, y) /\ Keeps(j, x) /\ x.unit # "acq" /\ y.unit # "full"
         /\ \/ /\ x.unit = "full" /\ y.unit = "pipe"
               /\ x.acq = jobs[j].acq /\ y.acq = None /\ y.calc = None
            \/ /\ x.unit = "pipe" /\ y.unit = "calc" /\ x.acq = jobs[j].acq /\ x.acq # None
               /\ x.calc = n /\ y.acq = x.acq /\ y.cutoff = x.cutoff
            \/ /\ x.unit = "pipe" /\ y.unit = "acq" /\ x.calc = jobs[j].calc
               /\ x.acq = n /\ y.acq = None /\ y.cutoff = x.cutoff
    BY <1>3, <2>3 DEF Starts
  <2>2. UNCHANGED registered
    BY <1>3 DEF Starts
  <2>4. /\ Joins(n, y) /\ jobs'[j] = x /\ at'[j] = p /\ out'[j] = out[j]
        /\ \A i \in Jobs \ {j} : Same(i)
    BY <2>1, <2>3 DEF Spawns
  <2>5. x.unit = jobs[j].unit /\ (x.unit # "full" => x.cutoff = jobs[j].cutoff)
    BY <2>1 DEF Keeps
  <2>6. \A i \in Jobs :
              /\ out'[i] = out[i] /\ jobs'[i].unit = jobs[i].unit
              /\ jobs[i].unit # "full" => jobs'[i].cutoff = jobs[i].cutoff
              /\ jobs[i].unit = "acq" => Same(i)
              /\ jobs[i].unit = "calc" => jobs'[i].acq = jobs[i].acq
    BY <2>1, <2>4, <2>5 DEF Same
  <2>7. \A i \in Jobs : jobs[i].unit = "pipe" =>
              \/ jobs'[i].acq = jobs[i].acq /\ jobs'[i].calc = jobs[i].calc
              \/ /\ jobs'[i].acq = n /\ y.cutoff = jobs'[i].cutoff
                 /\ jobs'[i].calc = jobs[i].calc
              \/ /\ jobs'[i].acq = jobs[i].acq /\ jobs[i].acq # None
                 /\ jobs'[i].calc = n /\ y.unit = "calc" /\ y.cutoff = jobs'[i].cutoff
    BY <2>1, <2>4, <2>5 DEF Same
  <2>8. y.unit = "pipe" => y.acq = None /\ y.calc = None
    BY <2>1
  <2> QED
    BY <2>2, <2>4, <2>6, <2>7, <2>8, FormalJoin
<1>4. ASSUME NEW j \in Jobs, Resolves(j)
      PROVE  Formals'
  <2>1. /\ Jobs' = Jobs /\ UNCHANGED registered /\ jobs[j].unit = "pipe" /\ jobs'[j].unit = "pipe"
        /\ \A i \in Jobs : /\ jobs'[i].unit = jobs[i].unit /\ jobs'[i].acq = jobs[i].acq
                           /\ jobs'[i].cutoff = jobs[i].cutoff /\ jobs'[i].calc = jobs[i].calc
        /\ \A i \in Jobs \ {j} : jobs'[i] = jobs[i] /\ at'[i] = at[i]
        /\ \A i \in Jobs : /\ out'[i].result = out[i].result /\ out'[i].audit = out[i].audit
                           /\ out'[i].class = out[i].class /\ out'[i].data = out[i].data
                           /\ out'[i].cutoff = out[i].cutoff /\ out'[i].checked = out[i].checked
    BY <1>4 DEF Resolves
  <2>2. InputsAreOfTheirClose'
    <3> SUFFICES ASSUME NEW a \in Jobs PROVE OfItsClose(jobs'[a], at'[a], out'[a])
      BY <2>1 DEF InputsAreOfTheirClose
    <3>1. CASE a = j
      BY <2>1, <3>1 DEF OfItsClose
    <3>2. CASE a # j
      <4>1. OfItsClose(jobs[a], at[a], out[a])
        BY DEF Formals, InputsAreOfTheirClose
      <4> QED
        BY <2>1, <3>2, <4>1 DEF OfItsClose
    <3> QED
      BY <3>1, <3>2
  <2>3. CutoffsAgree'
    <3> SUFFICES ASSUME NEW i \in Jobs, jobs[i].unit = "pipe"
                 PROVE  /\ jobs[i].acq # None => jobs[i].cutoff = jobs'[jobs[i].acq].cutoff
                        /\ jobs[i].calc # None =>
                              /\ jobs[i].acq # None
                              /\ jobs[i].calc \in Jobs /\ jobs'[jobs[i].calc].unit = "calc"
                              /\ jobs'[jobs[i].calc].cutoff = jobs[i].cutoff
      BY <2>1 DEF CutoffsAgree
    <3>1. jobs[i].acq # None => jobs[i].acq \in Jobs
      BY DEF IInv, AcquisitionsAreOwn
    <3> QED
      BY <2>1, <3>1 DEF Formals, CutoffsAgree
  <2>4. RegisteredAreFormal'
    BY <1>0, <2>1 DEF Formals, RegisteredAreFormal
  <2>5. SnapshotsAreOfTheirInput'
    <3>1. ASSUME NEW c \in Jobs
          PROVE  Snapshot(out[c], jobs[c].acq, jobs[c].cutoff)'
      BY <2>1, SnapshotStays DEF Formals
    <3>2. \A c \in Jobs : Snapshot(out[c], jobs[c].acq, jobs[c].cutoff)'
      BY <3>1
    <3> QED
      BY <2>1, <3>2 DEF SnapshotsAreOfTheirInput
  <2> QED
    BY <2>2, <2>3, <2>4, <2>5 DEF Formals
<1>5. CASE CheckClose \/ Idle
  <2>1. UNCHANGED <<jobs, at, out, registered>>
    BY <1>5 DEF CheckClose, Idle, server, registry
  <2> QED
    BY <2>1, FormalStill
<1>6. CASE Asking
  <2>1. /\ UNCHANGED registered
        /\ \/ UNCHANGED <<jobs, at, out, admitted>>
           \/ \E y \in Job : AsksFor(y)
    BY <1>6, AskingJoins DEF registry
  <2>2. CASE UNCHANGED <<jobs, at, out, admitted>>
    BY <2>1, <2>2, FormalStill
  <2>3. ASSUME NEW y \in Job, AsksFor(y)
        PROVE  Formals'
    <3>1. PICK n : n = Len(jobs) + 1
      OBVIOUS
    <3>2. Joins(n, y) /\ (y.unit = "pipe" => y.acq = None /\ y.calc = None)
      BY <2>3, <3>1 DEF AsksFor, Fresh
    <3>3. \A i \in Jobs : Same(i)
      BY <2>3 DEF AsksFor
    <3>4. \A i \in Jobs :
              /\ out'[i] = out[i] /\ jobs'[i].unit = jobs[i].unit
              /\ jobs[i].unit # "full" => jobs'[i].cutoff = jobs[i].cutoff
              /\ jobs[i].unit = "acq" => Same(i)
              /\ jobs[i].unit = "calc" => jobs'[i].acq = jobs[i].acq
      BY <3>3 DEF Same
    <3>5. \A i \in Jobs : jobs'[i].acq = jobs[i].acq /\ jobs'[i].calc = jobs[i].calc
      BY <3>3 DEF Same
    <3> QED
      BY <2>1, <3>2, <3>4, <3>5, FormalJoin
  <2> QED
    BY <2>1, <2>2, <2>3
<1>7. CASE Restart
  <2>1. UNCHANGED <<jobs, out, registered>> /\ \A j \in Jobs : at'[j] = "none"
    BY <1>7 DEF Restart, registry
  <2> QED
    BY <2>1, FormalStill
<1> QED
  BY <1>1, <1>3, <1>4, <1>5, <1>6, <1>7, Steps

\* The prices of a registered map are of the close its acquisition was asked for, if the gate
\* had the calendar to check by, and a pipeline's map is dated with that close: whatever
\* dates callers name and whoever goes on with a pipeline.
THEOREM FormalAsAsked == Spec => []FormalIsAsAsked
<1>1. Init => Formals
  BY DEF Init, Formals, InputsAreOfTheirClose, CutoffsAgree, SnapshotsAreOfTheirInput,
         RegisteredAreFormal, Jobs
<1>2. IInv /\ Formals /\ [Next]_vars => Formals'
  BY FormalNextStep
<1>3. ASSUME IInv, Formals PROVE FormalIsAsAsked
  <2>1. ASSUME NEW c \in registered
        PROVE  /\ out[jobs[c].acq].checked => out[c].data = jobs[jobs[c].acq].cutoff
               /\ out[c].cutoff = jobs[c].cutoff
    BY <1>3 DEF IInv, TypeOK, RestTyped, Formals, SnapshotsAreOfTheirInput, Snapshot,
         RegisteredAreFormal
  <2>2. ASSUME NEW p \in Jobs, jobs[p].unit = "pipe", jobs[p].calc \in registered
        PROVE  out[jobs[p].calc].cutoff = jobs[jobs[p].acq].cutoff
    <3>1. jobs[p].calc # None
      BY <1>3, <2>2, Typed, WebConstants DEF IInv, TypeOK, RestTyped
    <3>2. jobs[jobs[p].calc].cutoff = jobs[jobs[p].acq].cutoff
      BY <1>3, <2>2, <3>1 DEF Formals, CutoffsAgree
    <3> QED
      BY <2>1, <2>2, <3>2
  <2> QED
    BY <2>1, <2>2 DEF FormalIsAsAsked
<1> QED
  BY <1>1, <1>2, <1>3, WebInv, PTL DEF Spec
=====
