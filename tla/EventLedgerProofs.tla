--------------------------- MODULE EventLedgerProofs ---------------------------
(***************************************************************************)
(* Theorems about EventLedger, for any announcements, days, paths, modes    *)
(* and faults.                                                              *)
(*                                                                          *)
(* NoneMissed.  A day that is over has listed all its announcements, but    *)
(* the day of the scan is not over: what is fetched for the target day may  *)
(* be incomplete.  The checkpoint names the last day scanned, not the one   *)
(* after it, and the next run begins there again.  So every day before the  *)
(* one under scan is complete in the database, whatever failed since.       *)
(*                                                                          *)
(* MarksCurrent.  A step that touches the numbered rows of a family         *)
(* computes its watermarks again, in the same step.                         *)
(*                                                                          *)
(* ToldAsAsked rests on Turns: at most one answer is ever given to an audit *)
(* that is open, because its row, the run's list, the job and the dialogue  *)
(* hold it in turn, and no step opens it again (OpensNoMore) - except a     *)
(* dialogue that is cut off after its answer was applied, which the         *)
(* property sets aside.                                                     *)
(*                                                                          *)
(* AuditsBuildable.  An event leaves the state of a candidate by the answer *)
(* to a task built while it was one; in that wave the audit of the event    *)
(* itself, asked for when it was filed, was built or had been before        *)
(* (CandidatesOK).                                                          *)
(*                                                                          *)
(* NoneLeft.  The audits of documents and candidates are asked for by the   *)
(* scan only.  An answer asks for audits of scopes only, and a family       *)
(* routes all its audits or none, so the answer to an audit of a scope asks *)
(* for none that is not in the ledger, even if it confirms the event once   *)
(* more.  So two waves are enough.                                          *)
(***************************************************************************)
EXTENDS EventLedger, FiniteSetTheorems, TLAPS

Fields == {"pc", "day", "target", "last", "docs", "mode", "wave", "todo", "key", "failed"}

\* All documents of the days before n are filed.
Complete(n) == \A d \in scene.docs : DayOf[d] < n => d \in evidence

Times ==
    /\ scene.docs \subseteq Docs
    /\ today \in Nat /\ scan \in Nat /\ scan <= today
    /\ \A d \in scene.docs : DayOf[d] < today => d \in listed

ScanUnderWay ==
    /\ DOMAIN ctl = Fields
    /\ ctl.pc \in {"fetch", "persist"} =>
          /\ ctl.day \in Nat /\ ctl.target \in Nat /\ ctl.last \in Nat
          /\ ctl.last <= today /\ ctl.day <= ctl.target /\ ctl.target <= today
          /\ Complete(ctl.last) /\ Complete(ctl.day)
    /\ ctl.pc = "persist" /\ ctl.day < ctl.target =>
          \A d \in scene.docs : DayOf[d] = ctl.day => d \in ctl.docs
    /\ ctl.pc = "checkpoint" =>
          ctl.last \in Nat /\ ctl.last <= today /\ Complete(ctl.last)

IInv == Times /\ ScanUnderWay /\ Complete(scan)

LEMMA DaysAreNumbers == \A d \in Docs : DayOf[d] \in Nat /\ DayOf[d] >= 1
  BY LedgerConstants

LEMMA InvInit == Init => IInv
<1>1. \A s \in Scenes : s.docs \subseteq Docs
  BY LedgerConstants DEF Scene
<1> QED
  BY <1>1, DaysAreNumbers DEF Init, Idle, IInv, Times, ScanUnderWay, Complete, Fields

\* A step that files and lists nothing and is not one of the scan.
LEMMA Elsewhere ==
    ASSUME IInv, UNCHANGED <<scene, today, listed, scan, evidence>>, DOMAIN ctl' = DOMAIN ctl,
           ctl' = ctl \/ ctl'.pc \notin {"fetch", "persist", "checkpoint"}
    PROVE  IInv'
  BY DEF IInv, Times, ScanUnderWay, Complete

LEMMA WorldKeeps ==
    ASSUME IInv, UNCHANGED <<scene, scan, evidence, ctl>>,
           Tick \/ \E d \in scene.docs : List(d)
    PROVE  IInv'
<1>1. CASE Tick
  BY <1>1, DaysAreNumbers DEF Tick, IInv, Times, ScanUnderWay, Complete
<1>2. CASE \E d \in scene.docs : List(d)
  BY <1>2 DEF List, IInv, Times, ScanUnderWay, Complete
<1> QED
  BY <1>1, <1>2

\* The days up to the one scanned are complete, and so is that day unless it is the last.
LEMMA PersistKeeps == IInv /\ ScanPersist => IInv'
<1> SUFFICES ASSUME IInv, ScanPersist PROVE IInv'
  OBVIOUS
<1>1. /\ UNCHANGED <<scene, today, listed, scan>>
      /\ evidence' = evidence \cup ctl.docs
      /\ ctl.pc = "persist"
      /\ ctl' = [ctl EXCEPT !.docs = {}, !.last = ctl.day,
                            !.day = IF @ < ctl.target THEN @ + 1 ELSE @,
                            !.pc = IF ctl.day < ctl.target THEN "fetch" ELSE "checkpoint"]
  BY DEF ScanPersist, time
<1>2. /\ DOMAIN ctl' = Fields /\ ctl'.last = ctl.day
      /\ ctl'.target = ctl.target
      /\ ctl'.day = IF ctl.day < ctl.target THEN ctl.day + 1 ELSE ctl.day
      /\ ctl'.pc = IF ctl.day < ctl.target THEN "fetch" ELSE "checkpoint"
  BY <1>1 DEF IInv, ScanUnderWay, Fields
<1>3. Complete(scan)' /\ Complete(ctl.day)'
  BY <1>1, <1>2, DaysAreNumbers DEF IInv, ScanUnderWay, Times, Complete
<1>4. Complete(ctl.last)'
  BY <1>1, <1>2, DaysAreNumbers DEF IInv, ScanUnderWay, Times, Complete
<1> QED
  BY <1>1, <1>2, <1>3, <1>4 DEF IInv, ScanUnderWay, Times

LEMMA ScanKeeps ==
    ASSUME IInv,
           \/ \E target \in Targets, mode \in scene.modes : ControllerStart(target, mode)
           \/ ScanFetch \/ ScanFails \/ ScanRaises \/ CheckpointWrite
    PROVE  IInv'
<1>1. CASE \E target \in Targets, mode \in scene.modes : ControllerStart(target, mode)
  <2>1. PICK target \in Targets, mode \in scene.modes : ControllerStart(target, mode)
    BY <1>1
  <2>2. UNCHANGED <<scene, today, listed, scan, evidence>> /\ target \in Nat /\ target <= today
    <3>1. target \in Nat /\ target <= today
      BY DEF Targets, IInv, Times
    <3> QED
      BY <2>1, <3>1 DEF ControllerStart, time, database, filed
  <2>3. CASE ctl' = ctl
    BY <2>2, <2>3, Elsewhere
  <2>4. CASE ctl' # ctl
    <3>1. scan \in Nat /\ ~(target < scan)
      BY <2>1, <2>4 DEF ControllerStart, FirstDay, IInv, Times
    <3>2. ctl' = [Idle EXCEPT !.pc = "fetch", !.day = scan, !.target = target,
                              !.last = scan, !.mode = mode]
      BY <2>1, <2>4 DEF ControllerStart, FirstDay
    <3>3. /\ DOMAIN ctl' = Fields /\ ctl'.pc = "fetch" /\ ctl'.day = scan
          /\ ctl'.target = target /\ ctl'.last = scan
      BY <3>2 DEF Idle, Fields
    <3>4. scan <= target
      BY <2>2, <3>1
    <3> QED
      BY <2>2, <3>1, <3>3, <3>4 DEF IInv, Times, ScanUnderWay, Complete
  <2> QED
    BY <2>3, <2>4
<1>2. CASE ScanFetch
  <2>1. /\ UNCHANGED <<scene, today, listed, scan, evidence>>
        /\ ctl.pc = "fetch"
        /\ ctl' = [ctl EXCEPT !.pc = "persist",
                              !.docs = {d \in listed : DayOf[d] = ctl.day}]
    BY <1>2 DEF ScanFetch, time, database, filed
  <2>2. /\ DOMAIN ctl' = Fields /\ ctl'.pc = "persist"
        /\ ctl'.day = ctl.day /\ ctl'.target = ctl.target /\ ctl'.last = ctl.last
        /\ ctl'.docs = {d \in listed : DayOf[d] = ctl.day}
    BY <2>1 DEF IInv, ScanUnderWay, Fields
  <2>3. ctl.day < ctl.target => \A d \in scene.docs : DayOf[d] = ctl.day => d \in ctl'.docs
    BY <2>1, <2>2, DaysAreNumbers DEF IInv, Times, ScanUnderWay
  <2> QED
    BY <2>1, <2>2, <2>3 DEF IInv, Times, ScanUnderWay, Complete
<1>3. CASE ScanFails \/ ScanRaises
  <2>1. /\ UNCHANGED <<scene, today, listed, scan, evidence>>
        /\ ctl.pc \in {"fetch", "persist"}
        /\ DOMAIN ctl' = DOMAIN ctl /\ ctl'.pc = "checkpoint" /\ ctl'.last = ctl.last
    BY <1>3 DEF ScanFails, ScanRaises, time, database, filed, IInv, ScanUnderWay, Fields
  <2> QED
    BY <2>1 DEF IInv, Times, ScanUnderWay, Complete
<1>4. CASE CheckpointWrite
  <2>1. /\ UNCHANGED <<scene, today, listed, evidence>>
        /\ ctl.pc = "checkpoint" /\ scan' = ctl.last
    BY <1>4 DEF CheckpointWrite, time, database, filed
  <2>2. CASE ctl.failed
    <3>1. ctl' = Idle
      BY <1>4, <2>2 DEF CheckpointWrite, Raise
    <3> QED
      BY <2>1, <3>1 DEF Idle, Fields, IInv, Times, ScanUnderWay, Complete
  <2>3. CASE ~ctl.failed
    <3>1. ctl' = [ctl EXCEPT !.pc = "wave", !.wave = 1]
      BY <1>4, <2>3 DEF CheckpointWrite
    <3>2. DOMAIN ctl' = Fields /\ ctl'.pc = "wave"
      BY <3>1 DEF IInv, ScanUnderWay, Fields
    <3> QED
      BY <2>1, <3>2 DEF IInv, Times, ScanUnderWay, Complete
  <2> QED
    BY <2>2, <2>3
<1> QED
  BY <1>1, <1>2, <1>3, <1>4

LEMMA InvNext == IInv /\ [Next]_vars => IInv'
<1> SUFFICES ASSUME IInv, [Next]_vars PROVE IInv'
  OBVIOUS
<1> USE DEF vars, time, market, filed, asked, told, user, database
<1>1. CASE Tick \/ \E d \in scene.docs : List(d)
  BY <1>1, WorldKeeps DEF Tick, List
<1>2. CASE \/ \E target \in Targets, mode \in scene.modes : ControllerStart(target, mode)
           \/ ScanFetch \/ ScanFails \/ ScanRaises \/ CheckpointWrite
  BY <1>2, ScanKeeps
<1>3. CASE ScanPersist
  BY <1>3, PersistKeeps
<1>4. CASE \/ WaveBuild \/ JobFails \/ JobRaises \/ WaveEnds \/ ChatMark \/ BridgeEnds
           \/ ControllerKilled \/ \E k \in DOMAIN ledger : JobStart(k) \/ ChatCreate(k)
  <2>1. UNCHANGED <<scene, today, listed, scan, evidence>>
    BY <1>4 DEF WaveBuild, JobFails, JobRaises, WaveEnds, ChatMark, BridgeEnds,
                ControllerKilled, JobStart, ChatCreate
  <2>2. CASE JobRaises \/ BridgeEnds \/ ControllerKilled
    <3>1. ctl' = Idle
      BY <2>2 DEF JobRaises, BridgeEnds, ControllerKilled, Raise
    <3> QED
      BY <2>1, <3>1, Elsewhere DEF Idle, IInv, ScanUnderWay, Fields
  <2>3. CASE WaveBuild \/ WaveEnds
    <3>1. DOMAIN Idle = Fields /\ Idle.pc = "idle" /\ DOMAIN ctl = Fields
      BY DEF Idle, IInv, ScanUnderWay, Fields
    <3>2. CASE WaveBuild
      <4>1. \/ ctl' = [ctl EXCEPT !.pc = "bridge"] \/ ctl' = Idle
            \/ ctl' = [ctl EXCEPT !.pc = "task", !.todo = PendingAudits]
        BY <3>2 DEF WaveBuild, Raise
      <4>2. DOMAIN ctl' = Fields /\ ctl'.pc \in {"bridge", "task", "idle"}
        BY <3>1, <4>1 DEF Fields
      <4> QED
        BY <2>1, <4>2, Elsewhere DEF IInv, ScanUnderWay
    <3>3. CASE WaveEnds
      <4>1. DOMAIN ctl' = Fields /\ ctl'.pc \in {"bridge", "wave"}
        BY <3>1, <3>3 DEF WaveEnds, Fields
      <4> QED
        BY <2>1, <4>1, Elsewhere DEF IInv, ScanUnderWay
    <3> QED
      BY <2>3, <3>2, <3>3
  <2>4. CASE JobFails \/ ChatMark
    <3>1. DOMAIN ctl' = Fields /\ ctl'.pc = "task"
      BY <2>4 DEF JobFails, ChatMark, IInv, ScanUnderWay, Fields
    <3> QED
      BY <2>1, <3>1, Elsewhere DEF IInv, ScanUnderWay
  <2>5. CASE \E k \in DOMAIN ledger : JobStart(k) \/ ChatCreate(k)
    <3>1. DOMAIN ctl' = Fields /\ ctl'.pc \in {"job", "task", "mark"}
      BY <2>5 DEF JobStart, ChatCreate, IInv, ScanUnderWay, Fields
    <3> QED
      BY <2>1, <3>1, Elsewhere DEF IInv, ScanUnderWay
  <2> QED
    BY <1>4, <2>2, <2>3, <2>4, <2>5
<1>5. ASSUME NEW k, Apply(k) PROVE evidence' = evidence
  <2>1. ASSUME NEW mat, NEW pos, ApplyConfirmed(k, mat, pos) PROVE evidence' = evidence
    BY <2>1 DEF ApplyConfirmed
  <2>2. ApplyScopeFull(k) => evidence' = evidence
    BY DEF ApplyScopeFull
  <2>3. ApplyNeedsEvidence(k) \/ ApplyNoChange(k) \/ ApplyScopeNone(k) => evidence' = evidence
    BY DEF ApplyNeedsEvidence, ApplyNoChange, ApplyScopeNone
  <2> QED
    BY <1>5, <2>1, <2>2, <2>3 DEF Apply
<1>6. CASE JobPasses
  <2>1. UNCHANGED <<scene, today, listed, scan, evidence>> /\ DOMAIN ctl' = DOMAIN ctl
        /\ ctl'.pc \notin {"fetch", "persist", "checkpoint"}
    BY <1>6, <1>5 DEF JobPasses, IInv, ScanUnderWay, Fields
  <2> QED
    BY <2>1, Elsewhere
<1>7. CASE \/ \E p \in Paths : EconMoves(p)
           \/ ChatStep \/ Feed \/ \E ev \in DOMAIN view : Acknowledge(ev)
  <2>1. UNCHANGED <<scene, today, listed, scan, evidence, ctl>>
    BY <1>7, <1>5 DEF EconMoves, ChatStep, ChatSubmit, ChatCloses, ChatKilled, Feed, Acknowledge
  <2> QED
    BY <2>1, Elsewhere
<1>8. CASE UNCHANGED vars
  BY <1>8, Elsewhere
<1> QED
  BY <1>1, <1>2, <1>3, <1>4, <1>6, <1>7, <1>8 DEF Next, ControllerStep

\* However late a document is listed on its day, and wherever runs fail or are killed
\* (EventLedger.tla).
THEOREM NoneMissed == Spec => []NoDocumentMissed
<1>1. IInv => NoDocumentMissed
  BY DEF IInv, Complete, NoDocumentMissed
<1> QED
  BY InvInit, InvNext, <1>1, PTL DEF Spec

-----------------------------------------------------------------------------
(* Watermarks.                                                              *)

RowFields == {"status", "ver", "cand", "mat", "docs"}
RowsOK == \A ev \in DOMAIN events : DOMAIN events[ev] = RowFields

\* The numbered events of a family stay as they are.
Untouched(f) ==
    /\ \A s \in {"CONFIRMED", "CANDIDATE"} : OfFamily(events', f, s) = OfFamily(events, f, s)
    /\ \A ev \in OfFamily(events, f, "CONFIRMED") : events'[ev].ver = events[ev].ver
    /\ \A ev \in OfFamily(events, f, "CANDIDATE") : events'[ev].cand = events[ev].cand

LEMMA UntouchedMarks ==
    ASSUME NEW f, Untouched(f)
    PROVE  Watermarks(events', f) = Watermarks(events, f)
<1>1. [ev \in OfFamily(events', f, "CONFIRMED") |-> events'[ev].ver]
        = [ev \in OfFamily(events, f, "CONFIRMED") |-> events[ev].ver]
  BY DEF Untouched
<1>2. [ev \in OfFamily(events', f, "CANDIDATE") |-> events'[ev].cand]
        = [ev \in OfFamily(events, f, "CANDIDATE") |-> events[ev].cand]
  BY DEF Untouched
<1> QED
  BY <1>1, <1>2 DEF Watermarks

LEMMA RefreshKeepsMarks ==
    ASSUME MarksAreCurrent, NEW fams, marks' = Refreshed(events', fams),
           \A f \in DOMAIN marks \ fams : Untouched(f)
    PROVE  MarksAreCurrent'
<1> SUFFICES ASSUME NEW f \in DOMAIN marks' PROVE marks'[f] = Watermarks(events', f)
  BY DEF MarksAreCurrent
<1>1. CASE f \in fams
  BY <1>1 DEF Refreshed
<1>2. CASE f \notin fams
  <2>1. f \in DOMAIN marks /\ marks'[f] = marks[f]
    BY <1>2 DEF Refreshed
  <2> QED
    BY <1>2, <2>1, UntouchedMarks DEF MarksAreCurrent
<1> QED
  BY <1>1, <1>2

\* Some rows change: the families of the others do not notice.
OnlyRows(evs) ==
    \A x : x \notin evs =>
        /\ (x \in DOMAIN events') <=> (x \in DOMAIN events)
        /\ x \in DOMAIN events => events'[x] = events[x]

LEMMA OtherFamilies ==
    ASSUME NEW evs, OnlyRows(evs)
    PROVE  \A f : f \notin {ev[1] : ev \in evs} => Untouched(f)
<1> SUFFICES ASSUME NEW f, f \notin {ev[1] : ev \in evs} PROVE Untouched(f)
  OBVIOUS
<1>1. \A x : x[1] = f => x \notin evs
  OBVIOUS
<1>2. \A s : OfFamily(events', f, s) = OfFamily(events, f, s)
  BY <1>1 DEF OnlyRows, OfFamily
<1> QED
  BY <1>1, <1>2 DEF OnlyRows, Untouched, OfFamily

\* What the scan files: rows that exist keep their numbers, and new ones are of the
\* families it refreshes.
LEMMA ScanFiles ==
    ASSUME RowsOK, ScanPersist
    PROVE  /\ RowsOK' /\ DOMAIN events \subseteq DOMAIN events'
           /\ \A ev \in DOMAIN events :
                /\ events'[ev].status = events[ev].status
                /\ events'[ev].ver = events[ev].ver /\ events'[ev].cand = events[ev].cand
           /\ \A ev \in DOMAIN events' \ DOMAIN events :
                /\ ev = <<ev[1], ctl.day>> /\ ev[1] \in Updates(ctl.docs)
                /\ events'[ev] =
                     IF Certain(ctl.docs, ev[1])
                     THEN Update("CONFIRMED", NextVersion(Family(ev[1])), 0, "ROUTABLE",
                                 EvidenceOf(ctl.docs, ev[1]))
                     ELSE Update("CANDIDATE", 0, NextCandidate(ev[1]), "UNKNOWN",
                                 EvidenceOf(ctl.docs, ev[1]))
           /\ marks' = Refreshed(events', Updates(ctl.docs))
<1> DEFINE id(f) == <<f, ctl.day>>
           fams == Updates(ctl.docs)
           new == {f \in fams : id(f) \notin DOMAIN events}
           sure == {f \in new : Certain(ctl.docs, f)}
           row(f) == IF f \in sure
                     THEN Update("CONFIRMED", NextVersion(Family(f)), 0, "ROUTABLE",
                                 EvidenceOf(ctl.docs, f))
                     ELSE Update("CANDIDATE", 0, NextCandidate(f), "UNKNOWN",
                                 EvidenceOf(ctl.docs, f))
<1>1. events' = [ev \in DOMAIN events \cup {id(f) : f \in new} |->
                   IF ev \notin DOMAIN events THEN row(ev[1])
                   ELSE IF ev[2] = ctl.day
                   THEN [events[ev] EXCEPT !.docs = @ \cup EvidenceOf(ctl.docs, ev[1])]
                   ELSE events[ev]]
  BY DEF ScanPersist
<1>2. marks' = Refreshed(events', fams)
  BY DEF ScanPersist
<1>3. ASSUME NEW ev \in DOMAIN events
      PROVE  /\ ev \in DOMAIN events' /\ DOMAIN events'[ev] = RowFields
             /\ events'[ev].status = events[ev].status
             /\ events'[ev].ver = events[ev].ver /\ events'[ev].cand = events[ev].cand
  <2>1. events'[ev] = IF ev[2] = ctl.day
                      THEN [events[ev] EXCEPT !.docs = @ \cup EvidenceOf(ctl.docs, ev[1])]
                      ELSE events[ev]
    BY <1>1
  <2>2. DOMAIN events[ev] = RowFields
    BY DEF RowsOK
  <2> QED
    BY <1>1, <2>1, <2>2 DEF RowFields
<1>4. ASSUME NEW ev \in DOMAIN events', ev \notin DOMAIN events
      PROVE  /\ ev = id(ev[1]) /\ ev[1] \in new /\ events'[ev] = row(ev[1])
  <2>1. DOMAIN events' = DOMAIN events \cup {id(f) : f \in new}
    BY <1>1
  <2>2. PICK f \in new : ev = id(f)
    BY <1>4, <2>1
  <2>3. ev[1] = f
    BY <2>2
  <2>4. events'[ev] = row(ev[1])
    <3> HIDE DEF row, new
    <3> QED
      BY <1>1, <1>4, <2>1
  <2> QED
    BY <2>2, <2>3, <2>4
<1>5. \A f : DOMAIN row(f) = RowFields
  BY DEF Update, RowFields
<1>6. RowsOK'
  <2> HIDE DEF row, new, fams, sure
  <2> QED
    BY <1>3, <1>4, <1>5 DEF RowsOK
<1> QED
  BY <1>2, <1>3, <1>4, <1>6

\* An answer rewrites the rows it names, and refreshes their families.
LEMMA AnswerFiles ==
    ASSUME RowsOK, NEW k, Apply(k), OfEvent(k) => k[2] \in DOMAIN events
    PROVE  \/ UNCHANGED <<events, marks>>
           \/ \E evs : /\ marks' = Refreshed(events', {ev[1] : ev \in evs})
                       /\ RowsOK' /\ DOMAIN events \subseteq DOMAIN events' /\ OnlyRows(evs)
<1>1. CASE ApplyNeedsEvidence(k) \/ ApplyScopeNone(k) \/ ApplyScopeFull(k)
  BY <1>1 DEF ApplyNeedsEvidence, ApplyScopeNone, ApplyScopeFull, filed
<1>2. CASE ApplyNoChange(k)
  <2>1. CASE ~OfEvent(k)
    BY <1>2, <2>1 DEF ApplyNoChange
  <2>2. CASE OfEvent(k)
    <3>1. /\ events' = [events EXCEPT ![k[2]].status = "REJECTED",
                                      ![k[2]].mat = "NO_MATERIAL_CHANGE"]
          /\ marks' = Refreshed(events', {k[2][1]})
      BY <1>2, <2>2 DEF ApplyNoChange
    <3>2. DOMAIN events' = DOMAIN events
      BY <3>1
    <3>3. \A x \in DOMAIN events : x # k[2] => events'[x] = events[x]
      BY <3>1
    <3>4. k[2] \in DOMAIN events => DOMAIN events'[k[2]] = RowFields
      BY <3>1 DEF RowsOK
    <3>5. RowsOK'
      BY <3>2, <3>3, <3>4 DEF RowsOK
    <3>6. {ev[1] : ev \in {k[2]}} = {k[2][1]} /\ OnlyRows({k[2]})
      BY <3>2, <3>3 DEF OnlyRows
    <3> QED
      BY <3>1, <3>2, <3>5, <3>6
  <2> QED
    BY <2>1, <2>2
<1>3. CASE \E mat, pos : ApplyConfirmed(k, mat, pos)
  <2>1. PICK mat, pos : ApplyConfirmed(k, mat, pos)
    BY <1>3
  <2> DEFINE row == [ev \in DOMAIN mat |-> ConfirmedRow(k, ev, mat[ev], pos)]
  <2>2. /\ events' = Over(events, row) /\ MayConfirm(k, DOMAIN mat)
        /\ marks' = Refreshed(events', {ev[1] : ev \in DOMAIN mat})
    BY <2>1 DEF ApplyConfirmed
  <2>3. OfEvent(k) => DOMAIN mat = {k[2]}
    BY <2>2 DEF MayConfirm
  <2>4. \A ev \in DOMAIN mat : DOMAIN row[ev] = RowFields
    BY <2>3 DEF ConfirmedRow, RowsOK, RowFields, Update
  <2>5. /\ DOMAIN events' = DOMAIN events \cup DOMAIN mat
        /\ \A x \in DOMAIN events' : events'[x] = IF x \in DOMAIN mat THEN row[x] ELSE events[x]
    <3>1. DOMAIN row = DOMAIN mat
      OBVIOUS
    <3> HIDE DEF row
    <3> QED
      BY <2>2, <3>1 DEF Over
  <2> HIDE DEF row
  <2>6. RowsOK' /\ OnlyRows(DOMAIN mat)
    BY <2>4, <2>5 DEF RowsOK, OnlyRows
  <2> QED
    BY <2>2, <2>5, <2>6
<1> QED
  BY <1>1, <1>2, <1>3 DEF Apply

-----------------------------------------------------------------------------
(* Routes.                                                                  *)

Acts == {"FULL_V2_RESEARCH", "SEMANTIC_AUDIT", "NONE"}

\* What one family routes: each scope once.
OnePerScope(routes) ==
    /\ \A r \in routes : r.scope \in Scopes /\ r.act \in Acts
    /\ \A r, s \in routes : r.scope = s.scope => r = s

\* What one audits, the other audits if it audits anything, and never researches.
Agree(routes, others) ==
    \A r \in routes, s \in others :
        r.act = "SEMANTIC_AUDIT" =>
            /\ r.scope = s.scope => s.act # "FULL_V2_RESEARCH"
            /\ s.act = "SEMANTIC_AUDIT" => s \in routes

LEMMA RevisionRoutesFit == \A f : OnePerScope(RevisionRoutes(f)) /\ Agree(RevisionRoutes(f), RevisionRoutes(f))
<1> TAKE f
<1> QED
  BY DEF RevisionRoutes, OnePerScope, Agree, Ask, Move, Check, Note, Route, Scopes, Paths, Acts
LEMMA PutRoutesFit == \A f : OnePerScope(PutRoutes(f)) /\ Agree(PutRoutes(f), PutRoutes(f))
<1> TAKE f
<1> QED
  BY DEF PutRoutes, OnePerScope, Agree, Ask, Move, Check, Note, Route, Scopes, Paths, Acts
LEMMA CreditRoutesFit == \A f, m, n : OnePerScope(CreditRoutes(f, m)) /\ Agree(CreditRoutes(f, m), CreditRoutes(f, n))
<1> TAKE f, m, n
<1>1. CASE f \in {"CREDIT:DEFAULT", "FINANCIAL:PERIODIC_REPORT"}
  BY <1>1 DEF CreditRoutes, OnePerScope, Agree, Ask, Move, Check, Note, Route, Scopes, Paths, Acts
<1>2. CASE f = "CREDIT:RATING_UPDATE"
  BY <1>2 DEF CreditRoutes, OnePerScope, Agree, Ask, Move, Check, Note, Route, Scopes, Paths, Acts
<1>3. CASE f \in {"CREDIT:FINANCING_SUPPORT", "CREDIT:SUPPORT_OR_ASSET"}
  BY <1>3 DEF CreditRoutes, OnePerScope, Agree, Ask, Move, Check, Note, Route, Scopes, Paths, Acts
<1>4. CASE f \notin {"CREDIT:DEFAULT", "FINANCIAL:PERIODIC_REPORT", "CREDIT:RATING_UPDATE", "CREDIT:FINANCING_SUPPORT", "CREDIT:SUPPORT_OR_ASSET"}
  <2>1. CreditRoutes(f, m) = {} /\ CreditRoutes(f, n) = {}
    BY <1>4 DEF CreditRoutes
  <2> QED
    BY <2>1 DEF OnePerScope, Agree
<1> QED
  BY <1>1, <1>2, <1>3, <1>4
LEMMA OneKind ==
  \A f, m : /\ RevisionRoutes(f) # {} => PutRoutes(f) = {} /\ CreditRoutes(f, m) = {}
            /\ PutRoutes(f) # {} => CreditRoutes(f, m) = {}
  BY DEF RevisionRoutes, PutRoutes, CreditRoutes
LEMMA RoutesFit == \A f, m, n : OnePerScope(Routes(f, m)) /\ Agree(Routes(f, m), Routes(f, n))
<1> TAKE f, m, n
<1>1. CASE RevisionRoutes(f) # {}
  <2>1. Routes(f, m) = RevisionRoutes(f) /\ Routes(f, n) = RevisionRoutes(f)
    BY <1>1, OneKind DEF Routes
  <2> QED
    BY <2>1, RevisionRoutesFit
<1>2. CASE RevisionRoutes(f) = {} /\ PutRoutes(f) # {}
  <2>1. Routes(f, m) = PutRoutes(f) /\ Routes(f, n) = PutRoutes(f)
    BY <1>2, OneKind DEF Routes
  <2> QED
    BY <2>1, PutRoutesFit
<1>3. CASE RevisionRoutes(f) = {} /\ PutRoutes(f) = {}
  <2>1. Routes(f, m) = CreditRoutes(f, m) /\ Routes(f, n) = CreditRoutes(f, n)
    BY <1>3 DEF Routes
  <2> QED
    BY <2>1, CreditRoutesFit
<1> QED
  BY <1>1, <1>2, <1>3

-----------------------------------------------------------------------------
(* Keys, and the audits that may still be answered.                         *)

Scoped(ev, s) == RouteKey(ev, s, "SEMANTIC_AUDIT")
Full(ev, s)   == RouteKey(ev, s, "FULL_V2_RESEARCH")

\* Some materiality makes the event's family route the scope so.
Routed(ev, s, a) == \E m : \E r \in Routes(ev[1], m) : r.scope = s /\ r.act = a

LEMMA NotBoth ==
    ASSUME NEW ev, NEW s
    PROVE  ~(Routed(ev, s, "SEMANTIC_AUDIT") /\ Routed(ev, s, "FULL_V2_RESEARCH"))
<1> SUFFICES ASSUME NEW m, NEW n, NEW r \in Routes(ev[1], m), NEW q \in Routes(ev[1], n),
                    r.scope = s, r.act = "SEMANTIC_AUDIT",
                    q.scope = s, q.act = "FULL_V2_RESEARCH"
             PROVE  FALSE
  BY DEF Routed
<1> QED
  BY RoutesFit DEF Agree

LEMMA RoutedScopes == ASSUME NEW ev, NEW s, NEW a, Routed(ev, s, a) PROVE s \in Scopes /\ a \in Acts
  BY RoutesFit DEF Routed, OnePerScope

\* An audit of a scope of an event.
ScopeAudit(k) == IsAudit(k) /\ OfScope(k)

\* All audits that the event's family may be routed to.
Whole(ev, keys) == \A t : Routed(ev, t, "SEMANTIC_AUDIT") => Scoped(ev, t) \in keys

\* Rows of events name an event that is filed; what is audited of a scope was routed so,
\* with all other audits of its event; what is researched was routed so or audited before.
KeysOK ==
    \A k \in DOMAIN ledger : OfEvent(k) =>
        /\ k = RouteKey(k[2], k[3], k[4]) /\ k[2] \in DOMAIN events
        /\ ScopeAudit(k) => /\ Routed(k[2], k[3], "SEMANTIC_AUDIT")
                            /\ Whole(k[2], DOMAIN ledger)
        /\ k[4] = "FULL_V2_RESEARCH" =>
              Routed(k[2], k[3], "FULL_V2_RESEARCH") \/ Scoped(k[2], k[3]) \in DOMAIN ledger

\* An audit is asked for, built into a wave, under way or in a dialogue.
Open(k) ==
    \/ k \in DOMAIN ledger /\ ledger[k] = "PENDING"
    \/ ctl.pc \in {"task", "job", "mark"} /\ k \in ctl.todo
    \/ ctl.pc = "job" /\ k = ctl.key
    \/ k \in DOMAIN chats /\ chats[k] = "WAITING_FOR_CHAT"

\* Its task is built.
Built(k) ==
    /\ k \in DOMAIN ledger /\ IsAudit(k) /\ ledger[k] # "PENDING"
    /\ k \in DOMAIN tasks

\* One of these at a time.
Turns ==
    /\ DOMAIN ctl = Fields
    /\ \A k \in DOMAIN tasks : tasks[k] = "SCOPE_IMPACT" => OfScope(k)
    /\ \A k \in DOMAIN chats : Built(k)
    /\ ctl.pc \in {"task", "job", "mark"} =>
          \A k \in ctl.todo : Built(k) /\ k \notin DOMAIN chats
    /\ ctl.pc \in {"job", "mark"} => Built(ctl.key) /\ ctl.key \notin ctl.todo
    /\ ctl.pc = "job" => ctl.key \notin DOMAIN chats /\ ctl.mode = "AUTO_API"
    /\ ctl.pc = "mark" => ctl.key \in DOMAIN chats

\* A row that a step adds; done is the audit that the step answers.
NewKey(x, done) ==
    \/ ~OfEvent(x)
    \/ \E ev \in DOMAIN events' :
         \/ x = CandidateKey(ev) /\ ev \notin DOMAIN events /\ events'[ev].status = "CANDIDATE"
         \/ \E s, a : /\ x = RouteKey(ev, s, a) /\ Routed(ev, s, a)
                      /\ a = "SEMANTIC_AUDIT" => Whole(ev, DOMAIN ledger')
         \/ \E s : x = Full(ev, s) /\ done = Scoped(ev, s) /\ done \in DOMAIN ledger

LedgerStep(done) ==
    /\ DOMAIN ledger \subseteq DOMAIN ledger'
    /\ \A x \in DOMAIN ledger : \/ ledger'[x] = ledger[x]
                                \/ IsAudit(x) /\ ledger'[x] # "PENDING"
    /\ \A x \in DOMAIN ledger' \ DOMAIN ledger : NewKey(x, done)

LEMMA KeysKeep ==
    ASSUME KeysOK, NEW done, LedgerStep(done), DOMAIN events \subseteq DOMAIN events'
    PROVE  KeysOK'
<1> SUFFICES ASSUME NEW k \in DOMAIN ledger', OfEvent(k)
             PROVE  /\ k = RouteKey(k[2], k[3], k[4]) /\ k[2] \in DOMAIN events'
                    /\ ScopeAudit(k) => /\ Routed(k[2], k[3], "SEMANTIC_AUDIT")
                                        /\ Whole(k[2], DOMAIN ledger')
                    /\ k[4] = "FULL_V2_RESEARCH" =>
                         \/ Routed(k[2], k[3], "FULL_V2_RESEARCH")
                         \/ Scoped(k[2], k[3]) \in DOMAIN ledger'
  BY DEF KeysOK
<1>1. CASE k \in DOMAIN ledger
  BY <1>1 DEF KeysOK, LedgerStep, Whole
<1>2. CASE k \notin DOMAIN ledger
  <2>1. PICK ev \in DOMAIN events' :
         \/ k = CandidateKey(ev) /\ ev \notin DOMAIN events /\ events'[ev].status = "CANDIDATE"
         \/ \E s, a : /\ k = RouteKey(ev, s, a) /\ Routed(ev, s, a)
                      /\ a = "SEMANTIC_AUDIT" => Whole(ev, DOMAIN ledger')
         \/ \E s : k = Full(ev, s) /\ done = Scoped(ev, s) /\ done \in DOMAIN ledger
    BY <1>2 DEF LedgerStep, NewKey
  <2>2. CASE k = CandidateKey(ev)
    <3>1. k = <<"EVENT", ev, "EVENT_AUDIT", "SEMANTIC_AUDIT">>
      BY <2>2 DEF CandidateKey, RouteKey
    <3>2. k[1] = "EVENT" /\ k[2] = ev /\ k[3] = "EVENT_AUDIT" /\ k[4] = "SEMANTIC_AUDIT"
      BY <3>1
    <3> QED
      BY <3>1, <3>2 DEF RouteKey, ScopeAudit, OfScope
  <2>3. CASE \E s, a : /\ k = RouteKey(ev, s, a) /\ Routed(ev, s, a)
                       /\ a = "SEMANTIC_AUDIT" => Whole(ev, DOMAIN ledger')
    <3>1. PICK s, a : /\ k = <<"EVENT", ev, s, a>> /\ Routed(ev, s, a)
                      /\ a = "SEMANTIC_AUDIT" => Whole(ev, DOMAIN ledger')
      BY <2>3 DEF RouteKey
    <3>2. k[1] = "EVENT" /\ k[2] = ev /\ k[3] = s /\ k[4] = a
      BY <3>1
    <3> QED
      BY <3>1, <3>2 DEF RouteKey, ScopeAudit, OfEvent, IsAudit
  <2>4. CASE \E s : k = Full(ev, s) /\ done = Scoped(ev, s) /\ done \in DOMAIN ledger
    <3>1. PICK s : k = <<"EVENT", ev, s, "FULL_V2_RESEARCH">> /\ Scoped(ev, s) \in DOMAIN ledger
      BY <2>4 DEF RouteKey, Full
    <3>2. k[1] = "EVENT" /\ k[2] = ev /\ k[3] = s /\ k[4] = "FULL_V2_RESEARCH"
      BY <3>1
    <3>3. Scoped(ev, s) \in DOMAIN ledger'
      BY <3>1 DEF LedgerStep
    <3> QED
      BY <3>1, <3>2, <3>3 DEF RouteKey, ScopeAudit, OfEvent, IsAudit
  <2> QED
    BY <2>1, <2>2, <2>3, <2>4
<1> QED
  BY <1>1, <1>2

\* All audits of a family are routed together.
LEMMA RoutedTogether ==
    ASSUME NEW ev, NEW m, NEW r \in Routes(ev[1], m), r.act = "SEMANTIC_AUDIT",
           NEW keys, KeysOf(ev, {q \in Routes(ev[1], m) : q.act = "SEMANTIC_AUDIT"}) \subseteq keys
    PROVE  Whole(ev, keys)
<1> SUFFICES ASSUME NEW t, Routed(ev, t, "SEMANTIC_AUDIT") PROVE Scoped(ev, t) \in keys
  BY DEF Whole
<1>1. PICK n : \E q \in Routes(ev[1], n) : q.scope = t /\ q.act = "SEMANTIC_AUDIT"
  BY DEF Routed
<1>2. PICK q \in Routes(ev[1], n) : q.scope = t /\ q.act = "SEMANTIC_AUDIT"
  BY <1>1
<1>3. q \in Routes(ev[1], m)
  BY <1>2, RoutesFit DEF Agree
<1> QED
  BY <1>2, <1>3 DEF KeysOf, Scoped

\* An answer closes its row and asks for nothing that its event does not route.
LEMMA AnswerAsks ==
    ASSUME KeysOK, RowsOK, NEW k \in DOMAIN ledger, IsAudit(k), Apply(k),
           tasks[k] = "SCOPE_IMPACT" => OfScope(k)
    PROVE  LedgerStep(k) /\ k \in DOMAIN ledger' /\ ledger'[k] # "PENDING"
<1>1. ASSUME NEW s, s # "PENDING", Closes(k, s)
      PROVE  LedgerStep(k) /\ k \in DOMAIN ledger' /\ ledger'[k] # "PENDING"
  <2>1. ledger' = [x \in DOMAIN ledger |-> IF x = k THEN s ELSE ledger[x]]
    BY <1>1 DEF Closes, SetStatus
  <2> QED
    BY <1>1, <2>1 DEF LedgerStep
<1>2. CASE ApplyNeedsEvidence(k) \/ ApplyScopeNone(k) \/ ApplyNoChange(k)
  BY <1>1, <1>2 DEF ApplyNeedsEvidence, ApplyScopeNone, ApplyNoChange
<1>3. CASE ApplyScopeFull(k)
  <2> DEFINE full == Full(k[2], k[3])
  <2>1. ScopeAudit(k) /\ UNCHANGED events
    BY <1>3 DEF ApplyScopeFull, filed, ScopeAudit
  <2>2. /\ k = Scoped(k[2], k[3]) /\ k[2] \in DOMAIN events
    BY <2>1 DEF KeysOK, ScopeAudit, OfScope, IsAudit, Scoped
  <2> DEFINE st == IF econ[k[3]] = "KEEP" THEN "PENDING" ELSE "SUPPRESSED_ECONOMIC_DROP"
  <2>4. ledger' = [[x \in DOMAIN ledger \cup {full} |-> IF x \in DOMAIN ledger THEN ledger[x] ELSE st]
                                EXCEPT ![k] = "COMPLETED_SCOPE_FULL_V2"]
    BY <1>3 DEF ApplyScopeFull, Full, Insert
  <2>5. /\ DOMAIN ledger' = DOMAIN ledger \cup {full}
        /\ ledger'[k] = "COMPLETED_SCOPE_FULL_V2"
        /\ \A x \in DOMAIN ledger \ {k} : ledger'[x] = ledger[x]
    <3> HIDE DEF full, st
    <3> QED
      BY <2>4
  <2>6. \A x \in DOMAIN ledger' \ DOMAIN ledger : NewKey(x, k)
    BY <2>1, <2>2, <2>5 DEF NewKey
  <2> QED
    BY <2>5, <2>6 DEF LedgerStep
<1>4. CASE \E mat, pos : ApplyConfirmed(k, mat, pos)
  <2>1. PICK mat, pos : ApplyConfirmed(k, mat, pos)
    BY <1>4
  <2> DEFINE row == [ev \in DOMAIN mat |-> ConfirmedRow(k, ev, mat[ev], pos)]
             routes == [ev \in DOMAIN mat |-> Routes(ev[1], row[ev].mat)]
             keys == UNION {KeysOf(ev, routes[ev]) : ev \in DOMAIN mat}
  <2>2. ledger' = [Insert(ledger, keys, LAMBDA x : Planned(RouteOf(routes[x[2]], x)))
                     EXCEPT ![k] = "COMPLETED_CONFIRMED"]
    BY <2>1 DEF ApplyConfirmed
  <2>3. DOMAIN mat \subseteq DOMAIN events'
    BY <2>1 DEF ApplyConfirmed, Over
  <2>4. /\ DOMAIN ledger' = DOMAIN ledger \cup keys
        /\ ledger'[k] = "COMPLETED_CONFIRMED"
        /\ \A x \in DOMAIN ledger \ {k} : ledger'[x] = ledger[x]
    <3> HIDE DEF routes, keys
    <3> QED
      BY <2>2 DEF Insert
  <2>5. ASSUME NEW x \in keys PROVE NewKey(x, k)
    <3>1. PICK ev \in DOMAIN mat : x \in KeysOf(ev, routes[ev])
      OBVIOUS
    <3>2. PICK m : routes[ev] = Routes(ev[1], m)
      OBVIOUS
    <3>3. KeysOf(ev, routes[ev]) \subseteq DOMAIN ledger'
      BY <2>4
    <3> HIDE DEF routes, keys
    <3>4. PICK r \in Routes(ev[1], m) : x = RouteKey(ev, r.scope, r.act)
      BY <3>1, <3>2 DEF KeysOf
    <3>5. Routed(ev, r.scope, r.act)
      BY DEF Routed
    <3>6. r.act = "SEMANTIC_AUDIT" => Whole(ev, DOMAIN ledger')
      <4>1. KeysOf(ev, {q \in Routes(ev[1], m) : q.act = "SEMANTIC_AUDIT"}) \subseteq DOMAIN ledger'
        BY <3>2, <3>3 DEF KeysOf
      <4> QED
        BY <4>1, RoutedTogether
    <3> QED
      BY <2>3, <3>4, <3>5, <3>6 DEF NewKey
  <2> HIDE DEF keys
  <2> QED
    BY <2>4, <2>5 DEF LedgerStep
<1> QED
  BY <1>2, <1>3, <1>4 DEF Apply

-----------------------------------------------------------------------------
(* What each step is.                                                       *)

GroupsOK == \A ev \in DOMAIN groups : DOMAIN groups[ev] = {"status", "scopes"}
Tells(ev, s) == ev \in DOMAIN groups /\ s \in groups[ev].scopes

NoCut == "cut" \notin scene.faults

Shapes == RowsOK /\ GroupsOK /\ KeysOK /\ Turns

OpensNoMore == NoCut => \A x : Open(x)' => Open(x) \/ x \in DOMAIN ledger' \ DOMAIN ledger

\* Files nothing, asks for nothing, tells nothing.
Elsewise ==
    /\ UNCHANGED <<events, marks>> /\ DOMAIN ledger' = DOMAIN ledger
    /\ \A x \in DOMAIN ledger : \/ ledger'[x] = ledger[x]
                                \/ IsAudit(x) /\ ledger'[x] # "PENDING"
    /\ \A ev, s : Tells(ev, s)' <=> Tells(ev, s)

Answers(k) ==
    /\ Apply(k) /\ Built(k) /\ (tasks[k] = "SCOPE_IMPACT" => OfScope(k))
    /\ Open(k) /\ ~Open(k)'

LEMMA LinkedTells ==
    ASSUME GroupsOK, NEW opened, groups' = Linked(opened)
    PROVE  /\ GroupsOK'
           /\ \A ev, s : Tells(ev, s)' <=> Tells(ev, s) \/ (ev \in DOMAIN opened /\ s \in opened[ev])
<1>1. DOMAIN groups' = DOMAIN groups \cup {e \in DOMAIN opened : opened[e] # {}}
  BY DEF Linked
<1>2. ASSUME NEW ev \in DOMAIN groups'
      PROVE  /\ DOMAIN groups'[ev] = {"status", "scopes"}
             /\ groups'[ev].scopes = (IF ev \in DOMAIN groups THEN groups[ev].scopes ELSE {})
                                     \cup (IF ev \in DOMAIN opened THEN opened[ev] ELSE {})
  <2> DEFINE new == IF ev \in DOMAIN opened THEN opened[ev] ELSE {}
  <2>1. groups'[ev] = IF ev \in DOMAIN groups THEN [groups[ev] EXCEPT !.scopes = @ \cup new]
                      ELSE [status |-> "PENDING", scopes |-> new]
    BY DEF Linked
  <2> HIDE DEF new
  <2>2. CASE ev \in DOMAIN groups
    <3>1. DOMAIN groups[ev] = {"status", "scopes"}
      BY <2>2 DEF GroupsOK
    <3>2. groups'[ev] = [groups[ev] EXCEPT !.scopes = @ \cup new]
      BY <2>1, <2>2
    <3>3. DOMAIN groups'[ev] = {"status", "scopes"} /\ groups'[ev].scopes = groups[ev].scopes \cup new
      BY <3>1, <3>2
    <3> QED
      BY <2>2, <3>3 DEF new
  <2>3. CASE ev \notin DOMAIN groups
    <3>1. groups'[ev] = [status |-> "PENDING", scopes |-> new]
      BY <2>1, <2>3
    <3> QED
      BY <2>3, <3>1 DEF new
  <2> QED
    BY <2>2, <2>3
<1>3. GroupsOK'
  BY <1>2 DEF GroupsOK
<1>4. ASSUME NEW ev, NEW s
      PROVE  Tells(ev, s)' <=> Tells(ev, s) \/ (ev \in DOMAIN opened /\ s \in opened[ev])
  BY <1>1, <1>2 DEF Tells
<1> QED
  BY <1>3, <1>4

\* Steps that leave the database and the dialogues alone.
LEMMA ControlOnly ==
    ASSUME Shapes, UNCHANGED <<scene, events, marks, ledger, tasks, groups, chats>>,
           \/ UNCHANGED ctl
           \/ DOMAIN ctl' = Fields /\ ctl'.pc \notin {"task", "job", "mark"}
    PROVE  Shapes' /\ Elsewise /\ OpensNoMore
<1>1. RowsOK' /\ GroupsOK' /\ KeysOK'
  BY DEF Shapes, RowsOK, GroupsOK, KeysOK
<1>2. Turns'
  BY DEF Shapes, Turns, Built
<1>3. Elsewise
  BY DEF Elsewise, Tells
<1>4. OpensNoMore
  BY DEF OpensNoMore, Open
<1> QED
  BY <1>1, <1>2, <1>3, <1>4 DEF Shapes

\* Steps that set audits to a status of work.
LEMMA StatusOnly ==
    ASSUME Shapes, UNCHANGED <<scene, events, marks, groups, chats>>,
           NEW keys, NEW s, s # "PENDING", ledger' = SetStatus(keys, s),
           \A k \in keys : IsAudit(k), Turns', OpensNoMore
    PROVE  Shapes' /\ Elsewise
<1>1. DOMAIN ledger' = DOMAIN ledger
  BY DEF SetStatus
<1>2. \A x \in DOMAIN ledger : ledger'[x] = IF x \in keys THEN s ELSE ledger[x]
  BY DEF SetStatus
<1>3. RowsOK' /\ GroupsOK'
  BY DEF Shapes, RowsOK, GroupsOK
<1>4. KeysOK'
  BY <1>1 DEF Shapes, KeysOK
<1>5. Elsewise
  BY <1>1, <1>2 DEF Elsewise, Tells
<1> QED
  BY <1>3, <1>4, <1>5 DEF Shapes

\* What the scan asks for.
LEMMA ScanAsks ==
    ASSUME Shapes, ScanPersist
    PROVE  /\ \A done : LedgerStep(done)
           /\ \A x \in DOMAIN ledger : ledger'[x] = ledger[x]
           /\ \A ev \in DOMAIN events' \ DOMAIN events :
                events'[ev].status = "CANDIDATE" => CandidateKey(ev) \in DOMAIN ledger'
<1> DEFINE id(f) == <<f, ctl.day>>
           fams == Updates(ctl.docs)
           new == {f \in fams : id(f) \notin DOMAIN events}
           sure == {f \in new : Certain(ctl.docs, f)}
           maybe == new \ sure
           routed == [ev \in {id(f) : f \in sure} |-> Routes(ev[1], "NONE")]
           routes(ev) == {r \in routed[ev] : Planned(r) = "PENDING"}
           docs == {EvidenceKey(d) : d \in Nameless(ctl.docs)}
           cands == {CandidateKey(id(f)) : f \in maybe}
           asks == UNION {{RouteKey(ev, r.scope, r.act) : r \in routes(ev)} : ev \in DOMAIN routed}
           keys == docs \cup cands \cup asks
<1>1. ledger' = Insert(ledger, keys, LAMBDA k : "PENDING")
  BY DEF ScanPersist
<1>2. /\ DOMAIN ledger' = DOMAIN ledger \cup keys
      /\ \A x \in DOMAIN ledger : ledger'[x] = ledger[x]
  <2> HIDE DEF keys
  <2> QED
    BY <1>1 DEF Insert
<1>3. DOMAIN events' = DOMAIN events \cup {id(f) : f \in new}
  BY DEF ScanPersist
<1>4. \A f \in maybe : id(f) \in DOMAIN events' /\ id(f) \notin DOMAIN events
                       /\ events'[id(f)].status = "CANDIDATE"
  <2> TAKE f \in maybe
  <2>1. id(f) \in DOMAIN events' /\ id(f) \notin DOMAIN events /\ ~Certain(ctl.docs, f)
    BY <1>3
  <2>2. id(f)[1] = f
    OBVIOUS
  <2>3. events'[id(f)] = Update("CANDIDATE", 0, NextCandidate(f), "UNKNOWN",
                                 EvidenceOf(ctl.docs, f))
    BY <2>1, <2>2, ScanFiles DEF Shapes
  <2> QED
    BY <2>1, <2>3 DEF Update
<1>5. ASSUME NEW done, NEW x \in keys PROVE NewKey(x, done)
  <2>1. CASE x \in docs
    BY <2>1 DEF NewKey, EvidenceKey, OfEvent
  <2>2. CASE x \in cands
    <3>1. PICK f \in maybe : x = CandidateKey(id(f))
      BY <2>2
    <3> HIDE DEF maybe
    <3> QED
      BY <1>4, <3>1 DEF NewKey
  <2>3. CASE x \in asks
    <3>1. PICK ev \in DOMAIN routed : \E r \in routes(ev) : x = RouteKey(ev, r.scope, r.act)
      BY <2>3
    <3>2. PICK r \in routes(ev) : x = RouteKey(ev, r.scope, r.act)
      BY <3>1
    <3>3. r \in Routes(ev[1], "NONE")
      OBVIOUS
    <3>4. Routed(ev, r.scope, r.act)
      BY <3>3 DEF Routed
    <3>5. ev \in DOMAIN events'
      BY <1>3
    <3>6. r.act = "SEMANTIC_AUDIT" => Whole(ev, DOMAIN ledger')
      <4>1. \A q \in Routes(ev[1], "NONE") :
              q.act = "SEMANTIC_AUDIT" => RouteKey(ev, q.scope, q.act) \in asks
        <5>1. \A q \in routed[ev] : q.act = "SEMANTIC_AUDIT" => q \in routes(ev)
          BY DEF Planned
        <5>2. \A q \in routes(ev) : RouteKey(ev, q.scope, q.act) \in asks
          <6> HIDE DEF routes, routed
          <6> QED
            OBVIOUS
        <5>3. routed[ev] = Routes(ev[1], "NONE")
          OBVIOUS
        <5> HIDE DEF routed, routes, asks
        <5> QED
          BY <5>1, <5>2, <5>3
      <4>2. asks \subseteq DOMAIN ledger'
        BY <1>2
      <4> HIDE DEF asks, routed, routes
      <4>3. KeysOf(ev, {q \in Routes(ev[1], "NONE") : q.act = "SEMANTIC_AUDIT"}) \subseteq DOMAIN ledger'
        BY <4>1, <4>2 DEF KeysOf
      <4> QED
        BY <3>3, <4>3, RoutedTogether
    <3> HIDE DEF routed, routes
    <3> QED
      BY <3>2, <3>4, <3>5, <3>6 DEF NewKey
  <2> QED
    BY <2>1, <2>2, <2>3
<1>6. ASSUME NEW ev \in DOMAIN events' \ DOMAIN events, events'[ev].status = "CANDIDATE"
      PROVE  CandidateKey(ev) \in DOMAIN ledger'
  <2>1. /\ ev = id(ev[1]) /\ ev[1] \in Updates(ctl.docs)
        /\ Certain(ctl.docs, ev[1]) => events'[ev].status = "CONFIRMED"
    BY ScanFiles DEF Shapes, Update
  <2>2. ev[1] \in maybe
    BY <1>6, <2>1
  <2>3. CandidateKey(ev) \in cands
    BY <2>1, <2>2
  <2> QED
    BY <1>2, <2>3
<1> QED
  <2> HIDE DEF keys
  <2> QED
    BY <1>2, <1>5, <1>6 DEF LedgerStep

LEMMA WavesTurn ==
    ASSUME Shapes, WaveBuild \/ JobFails \/ JobRaises \/ ChatMark
                   \/ \E k \in DOMAIN ledger : JobStart(k)
    PROVE  Shapes' /\ Elsewise /\ OpensNoMore
<1> USE DEF time, filed, told
<1>1. DOMAIN ctl = Fields
  BY DEF Shapes, Turns
<1>2. CASE WaveBuild
  <2>1. UNCHANGED <<scene, events, marks, groups, chats>>
    BY <1>2 DEF WaveBuild
  <2>2. CASE (ctl' = [ctl EXCEPT !.pc = "bridge"] \/ ctl' = Idle) /\ UNCHANGED <<ledger, tasks>>
    <3>1. DOMAIN ctl' = Fields /\ ctl'.pc \in {"bridge", "idle"}
      BY <1>1, <2>2 DEF Fields, Idle
    <3> QED
      BY <2>1, <2>2, <3>1, ControlOnly
  <2>3. CASE /\ Buildable
             /\ ledger' = SetStatus(PendingAudits, "READY_FOR_AI_AUDIT")
             /\ tasks' = Over(tasks, [k \in PendingAudits |-> Subject(k)])
             /\ ctl' = [ctl EXCEPT !.pc = "task", !.todo = PendingAudits]
    <3>1. DOMAIN ctl' = Fields /\ ctl'.pc = "task" /\ ctl'.todo = PendingAudits
      BY <1>1, <2>3 DEF Fields
    <3>2. \A k \in PendingAudits : k \in DOMAIN ledger /\ IsAudit(k) /\ ledger[k] = "PENDING"
      BY DEF PendingAudits
    <3>3. DOMAIN ledger' = DOMAIN ledger
          /\ \A x \in DOMAIN ledger : ledger'[x] = IF x \in PendingAudits
                                                   THEN "READY_FOR_AI_AUDIT" ELSE ledger[x]
      BY <2>3 DEF SetStatus
    <3>4. /\ DOMAIN tasks' = DOMAIN tasks \cup PendingAudits
          /\ \A x \in DOMAIN tasks' : tasks'[x] = IF x \in PendingAudits THEN Subject(x) ELSE tasks[x]
      BY <2>3 DEF Over
    <3>5. \A x \in DOMAIN tasks' : tasks'[x] = "SCOPE_IMPACT" => OfScope(x)
      BY <2>3, <3>4 DEF Buildable, Shapes, Turns
    <3>6. /\ \A x : Built(x) => Built(x)' /\ x \notin PendingAudits
          /\ \A x \in PendingAudits : Built(x)'
      BY <3>2, <3>3, <3>4 DEF Built
    <3>7. Turns'
      <4>1. \A x \in DOMAIN chats' : Built(x)'
        BY <2>1, <3>6 DEF Shapes, Turns
      <4>2. \A x \in ctl'.todo : Built(x)' /\ x \notin DOMAIN chats'
        BY <2>1, <3>1, <3>6 DEF Shapes, Turns
      <4> QED
        BY <3>1, <3>5, <4>1, <4>2 DEF Turns
    <3>8. OpensNoMore
      BY <2>1, <3>1, <3>2, <3>3 DEF OpensNoMore, Open
    <3> QED
      BY <2>1, <2>3, <3>2, <3>7, <3>8, StatusOnly
  <2> QED
    BY <1>2, <2>2, <2>3 DEF WaveBuild, Raise
<1>3. CASE \E k \in DOMAIN ledger : JobStart(k)
  <2>1. PICK k \in DOMAIN ledger : JobStart(k)
    BY <1>3
  <2>2. /\ UNCHANGED <<scene, events, marks, tasks, groups, chats>>
        /\ ctl.pc = "task" /\ ctl.mode = "AUTO_API" /\ k \in ctl.todo
        /\ ledger' = SetStatus({k}, "IN_PROGRESS")
        /\ ctl' = [ctl EXCEPT !.pc = "job", !.key = k, !.todo = @ \ {k}]
    BY <2>1 DEF JobStart
  <2>3. /\ DOMAIN ctl' = Fields /\ ctl'.pc = "job" /\ ctl'.key = k /\ ctl'.mode = "AUTO_API"
        /\ ctl'.todo = ctl.todo \ {k}
    BY <1>1, <2>2 DEF Fields
  <2>4. DOMAIN ledger' = DOMAIN ledger
        /\ \A x \in DOMAIN ledger : ledger'[x] = IF x = k THEN "IN_PROGRESS" ELSE ledger[x]
    BY <2>2 DEF SetStatus
  <2>5. IsAudit(k) /\ ledger[k] # "PENDING" /\ k \notin DOMAIN chats
    BY <2>2 DEF Shapes, Turns, Built
  <2>6. Turns'
    BY <2>2, <2>3, <2>4, <2>5 DEF Shapes, Turns, Built
  <2>7. OpensNoMore
    BY <2>2, <2>3, <2>4 DEF OpensNoMore, Open
  <2> QED
    BY <2>2, <2>5, <2>6, <2>7, StatusOnly
<1>4. CASE JobFails \/ ChatMark
  <2>1. PICK s \in {"NEEDS_REVIEW", "WAITING_FOR_CHAT"} : ledger' = SetStatus({ctl.key}, s)
    BY <1>4 DEF JobFails, ChatMark
  <2>2. /\ UNCHANGED <<scene, events, marks, tasks, groups, chats>> /\ ctl.pc \in {"job", "mark"}
        /\ DOMAIN ctl' = Fields /\ ctl'.pc = "task" /\ ctl'.todo = ctl.todo
    BY <1>1, <1>4 DEF JobFails, ChatMark, Fields
  <2>3. DOMAIN ledger' = DOMAIN ledger
        /\ \A x \in DOMAIN ledger : ledger'[x] = IF x = ctl.key THEN s ELSE ledger[x]
    BY <2>1 DEF SetStatus
  <2>4. IsAudit(ctl.key) /\ ledger[ctl.key] # "PENDING"
    BY <2>2 DEF Shapes, Turns, Built
  <2>5. Turns'
    BY <2>2, <2>3, <2>4 DEF Shapes, Turns, Built
  <2>6. OpensNoMore
    BY <2>2, <2>3, <2>4 DEF OpensNoMore, Open
  <2> QED
    BY <2>1, <2>2, <2>4, <2>5, <2>6, StatusOnly
<1>5. CASE JobRaises
  <2>1. /\ UNCHANGED <<scene, events, marks, tasks, groups, chats>> /\ ctl.pc = "job"
        /\ ctl' = Idle /\ ledger' = SetStatus({ctl.key}, "FAIL")
    BY <1>5 DEF JobRaises, Raise
  <2>2. DOMAIN ctl' = Fields /\ ctl'.pc = "idle"
    BY <2>1 DEF Idle, Fields
  <2>3. DOMAIN ledger' = DOMAIN ledger
        /\ \A x \in DOMAIN ledger : ledger'[x] = IF x = ctl.key THEN "FAIL" ELSE ledger[x]
    BY <2>1 DEF SetStatus
  <2>4. IsAudit(ctl.key) /\ ledger[ctl.key] # "PENDING"
    BY <2>1 DEF Shapes, Turns, Built
  <2>5. Turns'
    BY <2>1, <2>2, <2>3 DEF Shapes, Turns, Built
  <2>6. OpensNoMore
    BY <2>1, <2>2, <2>3 DEF OpensNoMore, Open
  <2> QED
    BY <2>1, <2>4, <2>5, <2>6, StatusOnly
<1> QED
  BY <1>2, <1>3, <1>4, <1>5

\* Steps that touch a dialogue and nothing in the database.
LEMMA ChatsTurn ==
    ASSUME Shapes, \/ \E k \in DOMAIN ledger : ChatCreate(k)
                   \/ \E k \in DOMAIN chats : ChatCloses(k) \/ ChatKilled(k)
    PROVE  Shapes' /\ Elsewise /\ OpensNoMore
<1> USE DEF time, database, filed, asked, told
<1>1. UNCHANGED <<scene, events, marks, ledger, tasks, groups>>
  BY DEF ChatCreate, ChatCloses, ChatKilled
<1>2. RowsOK' /\ GroupsOK' /\ KeysOK' /\ Elsewise
  BY <1>1 DEF Shapes, RowsOK, GroupsOK, KeysOK, Elsewise, Tells
<1>3. CASE \E k \in DOMAIN ledger : ChatCreate(k)
  <2>1. PICK k \in DOMAIN ledger : ChatCreate(k)
    BY <1>3
  <2>2. ctl.pc = "task" /\ k \in ctl.todo /\ k \notin DOMAIN chats /\ DOMAIN ctl = Fields
        /\ Built(k)
    BY <2>1 DEF ChatCreate, Shapes, Turns
  <2>3. /\ chats' = With(chats, k, "WAITING_FOR_CHAT")
        /\ ctl' = [ctl EXCEPT !.todo = @ \ {k}, !.pc = "mark", !.key = k]
    BY <2>1, <2>2 DEF ChatCreate
  <2>4. /\ DOMAIN chats' = DOMAIN chats \cup {k}
        /\ \A x \in DOMAIN chats : chats'[x] = chats[x]
    BY <2>2, <2>3 DEF With
  <2>5. DOMAIN ctl' = Fields /\ ctl'.pc = "mark" /\ ctl'.key = k /\ ctl'.todo = ctl.todo \ {k}
    BY <2>2, <2>3 DEF Fields
  <2>6. Turns'
    BY <1>1, <2>2, <2>4, <2>5 DEF Shapes, Turns, Built
  <2>7. OpensNoMore
    BY <1>1, <2>2, <2>4, <2>5 DEF OpensNoMore, Open
  <2> QED
    BY <1>2, <2>6, <2>7 DEF Shapes
<1>4. CASE \E k \in DOMAIN chats : ChatCloses(k) \/ ChatKilled(k)
  <2>1. UNCHANGED ctl /\ DOMAIN chats' = DOMAIN chats
    BY <1>4 DEF ChatCloses, ChatKilled
  <2>2. NoCut => \A x \in DOMAIN chats : chats'[x] = chats[x] \/ chats'[x] = "PASS"
    BY <1>4 DEF ChatCloses, ChatKilled, NoCut
  <2>3. Turns'
    BY <1>1, <2>1 DEF Shapes, Turns, Built
  <2>4. OpensNoMore
    BY <1>1, <2>1, <2>2 DEF OpensNoMore, Open
  <2> QED
    BY <1>2, <2>3, <2>4 DEF Shapes
<1> QED
  BY <1>3, <1>4

LEMMA ScanTurn ==
    ASSUME Shapes, ScanPersist
    PROVE  Shapes' /\ OpensNoMore /\ UNCHANGED scene
<1>1. /\ UNCHANGED <<scene, tasks, chats>> /\ ctl.pc = "persist" /\ DOMAIN ctl = Fields
      /\ ctl' = [ctl EXCEPT !.docs = {}, !.last = ctl.day,
                            !.day = IF @ < ctl.target THEN @ + 1 ELSE @,
                            !.pc = IF ctl.day < ctl.target THEN "fetch" ELSE "checkpoint"]
  BY DEF ScanPersist, time, Shapes, Turns
<1>2. DOMAIN ctl' = Fields /\ ctl'.pc \in {"fetch", "checkpoint"}
  BY <1>1 DEF Fields
<1>3. LedgerStep(<<>>) /\ (\A x \in DOMAIN ledger : ledger'[x] = ledger[x])
      /\ DOMAIN ledger \subseteq DOMAIN ledger'
  BY ScanAsks DEF LedgerStep
<1>4. RowsOK' /\ KeysOK'
  BY <1>3, ScanFiles, KeysKeep DEF Shapes
<1>5. GroupsOK'
  <2>1. \E opened : groups' = Linked(opened)
    BY DEF ScanPersist
  <2> QED
    BY <2>1, LinkedTells DEF Shapes
<1>6. Turns'
  BY <1>1, <1>2, <1>3 DEF Shapes, Turns, Built
<1>7. OpensNoMore
  BY <1>1, <1>2, <1>3 DEF OpensNoMore, Open
<1> QED
  BY <1>1, <1>4, <1>5, <1>6, <1>7 DEF Shapes

LEMMA AnswerKeepsTasks == ASSUME NEW k, Apply(k) PROVE UNCHANGED tasks
<1>1. ASSUME NEW mat, NEW pos, ApplyConfirmed(k, mat, pos) PROVE UNCHANGED tasks
  BY <1>1 DEF ApplyConfirmed
<1>2. ApplyNeedsEvidence(k) \/ ApplyNoChange(k) \/ ApplyScopeNone(k) \/ ApplyScopeFull(k)
        => UNCHANGED tasks
  BY DEF ApplyNeedsEvidence, ApplyNoChange, ApplyScopeNone, ApplyScopeFull, Closes
<1> QED
  BY <1>1, <1>2 DEF Apply

LEMMA AnswerTurns ==
    ASSUME Shapes, JobPasses \/ \E k \in DOMAIN chats : ChatSubmit(k)
    PROVE  Shapes' /\ OpensNoMore /\ UNCHANGED scene /\ \E k : Answers(k)
<1>1. PICK k :
        /\ Apply(k) /\ UNCHANGED <<scene, tasks>>
        /\ \/ /\ ctl.pc = "job" /\ k = ctl.key /\ UNCHANGED chats
              /\ ctl' = [ctl EXCEPT !.pc = "task", !.key = <<>>]
           \/ /\ k \in DOMAIN chats /\ chats[k] = "WAITING_FOR_CHAT" /\ UNCHANGED ctl
              /\ chats' = [chats EXCEPT ![k] = "APPLIED"]
  BY AnswerKeepsTasks DEF JobPasses, ChatSubmit, time
<1>2. /\ Built(k) /\ k \in DOMAIN ledger /\ IsAudit(k) /\ DOMAIN ctl = Fields
      /\ tasks[k] = "SCOPE_IMPACT" => OfScope(k)
  BY <1>1 DEF Shapes, Turns, Built
<1>3. LedgerStep(k) /\ k \in DOMAIN ledger' /\ ledger'[k] # "PENDING"
  BY <1>1, <1>2, AnswerAsks DEF Shapes
<1>4. RowsOK' /\ DOMAIN events \subseteq DOMAIN events'
  <2>1. OfEvent(k) => k[2] \in DOMAIN events
    BY <1>2 DEF Shapes, KeysOK
  <2>2. CASE UNCHANGED <<events, marks>>
    BY <2>2 DEF Shapes, RowsOK
  <2> QED
    BY <1>1, <2>1, <2>2, AnswerFiles DEF Shapes
<1>5. KeysOK'
  BY <1>3, <1>4, KeysKeep DEF Shapes
<1>6. GroupsOK'
  <2>1. UNCHANGED groups \/ \E opened : groups' = Linked(opened)
    <3>1. ASSUME NEW mat, NEW pos, ApplyConfirmed(k, mat, pos) PROVE \E opened : groups' = Linked(opened)
      BY <3>1 DEF ApplyConfirmed
    <3>2. ApplyScopeFull(k) => \E opened : groups' = Linked(opened)
      BY DEF ApplyScopeFull
    <3>3. ApplyNeedsEvidence(k) \/ ApplyNoChange(k) \/ ApplyScopeNone(k) => UNCHANGED groups
      BY DEF ApplyNeedsEvidence, ApplyNoChange, ApplyScopeNone, told
    <3> QED
      BY <1>1, <3>1, <3>2, <3>3 DEF Apply
  <2>2. UNCHANGED groups => GroupsOK'
    BY DEF Shapes, GroupsOK
  <2> QED
    BY <2>1, <2>2, LinkedTells DEF Shapes
<1>7. /\ \A x \in DOMAIN ledger : x \in DOMAIN ledger'
      /\ \A x \in DOMAIN ledger : ledger[x] # "PENDING" => ledger'[x] # "PENDING"
      /\ \A x \in DOMAIN ledger : ledger'[x] = "PENDING" => ledger[x] = "PENDING"
  BY <1>3 DEF LedgerStep
<1>8. CASE /\ ctl.pc = "job" /\ k = ctl.key /\ UNCHANGED chats
           /\ ctl' = [ctl EXCEPT !.pc = "task", !.key = <<>>]
  <2>1. DOMAIN ctl' = Fields /\ ctl'.pc = "task" /\ ctl'.todo = ctl.todo
    BY <1>2, <1>8 DEF Fields
  <2>2. Turns'
    BY <1>1, <1>2, <1>7, <1>8, <2>1 DEF Shapes, Turns, Built
  <2>3. OpensNoMore
    BY <1>7, <1>8, <2>1 DEF OpensNoMore, Open
  <2>4. Open(k) /\ ~Open(k)'
    BY <1>2, <1>3, <1>8, <2>1 DEF Open, Shapes, Turns, Built
  <2> QED
    BY <1>1, <1>2, <1>4, <1>5, <1>6, <2>2, <2>3, <2>4 DEF Shapes, Answers
<1>9. CASE /\ k \in DOMAIN chats /\ chats[k] = "WAITING_FOR_CHAT" /\ UNCHANGED ctl
           /\ chats' = [chats EXCEPT ![k] = "APPLIED"]
  <2>1. /\ DOMAIN chats' = DOMAIN chats /\ chats'[k] = "APPLIED"
        /\ \A x \in DOMAIN chats \ {k} : chats'[x] = chats[x]
    BY <1>9
  <2>2. Turns'
    BY <1>1, <1>2, <1>7, <1>9, <2>1 DEF Shapes, Turns, Built
  <2>3. OpensNoMore
    BY <1>7, <1>9, <2>1 DEF OpensNoMore, Open
  <2>4. Open(k) /\ ~Open(k)'
    BY <1>2, <1>3, <1>9, <2>1 DEF Open, Shapes, Turns, Built
  <2> QED
    BY <1>1, <1>2, <1>4, <1>5, <1>6, <2>2, <2>3, <2>4 DEF Shapes, Answers
<1> QED
  BY <1>1, <1>8, <1>9

LEMMA Steps ==
    ASSUME Shapes, [Next]_vars
    PROVE  /\ Shapes' /\ OpensNoMore /\ UNCHANGED scene
           /\ Elsewise \/ ScanPersist \/ \E k : Answers(k)
<1> USE DEF vars, time, market, filed, asked, told, user, database
<1>1. CASE \/ Tick
           \/ \E d \in scene.docs : List(d)
           \/ \E p \in Paths : EconMoves(p)
           \/ UNCHANGED vars
  <2>1. UNCHANGED <<scene, events, marks, ledger, tasks, groups, chats, ctl>>
    BY <1>1 DEF Tick, List, EconMoves
  <2> QED
    BY <2>1, ControlOnly
<1>2. CASE \/ \E target \in Targets, mode \in scene.modes : ControllerStart(target, mode)
           \/ ScanFetch \/ ScanFails \/ ScanRaises \/ CheckpointWrite \/ WaveEnds
           \/ BridgeEnds \/ ControllerKilled
  <2>1. UNCHANGED <<scene, events, marks, ledger, tasks, groups, chats>>
    BY <1>2 DEF ControllerStart, ScanFetch, ScanFails, ScanRaises, CheckpointWrite, WaveEnds,
                BridgeEnds, ControllerKilled
  <2>2. DOMAIN ctl = Fields /\ DOMAIN Idle = Fields /\ Idle.pc = "idle"
    BY DEF Shapes, Turns, Idle, Fields
  <2>3. UNCHANGED ctl \/ (DOMAIN ctl' = Fields /\ ctl'.pc \notin {"task", "job", "mark"})
    BY <1>2, <2>2 DEF ControllerStart, ScanFetch, ScanFails, ScanRaises, CheckpointWrite, WaveEnds,
                BridgeEnds, ControllerKilled, Raise, Fields
  <2> QED
    BY <2>1, <2>3, ControlOnly
<1>3. CASE ScanPersist
  BY <1>3, ScanTurn
<1>4. CASE \/ WaveBuild \/ JobFails \/ JobRaises \/ ChatMark
           \/ \E k \in DOMAIN ledger : JobStart(k)
  <2>1. UNCHANGED scene
    BY <1>4 DEF WaveBuild, JobFails, JobRaises, ChatMark, JobStart
  <2> QED
    BY <1>4, <2>1, WavesTurn
<1>5. CASE \/ \E k \in DOMAIN ledger : ChatCreate(k)
           \/ \E k \in DOMAIN chats : ChatCloses(k) \/ ChatKilled(k)
  <2>1. UNCHANGED scene
    BY <1>5 DEF ChatCreate, ChatCloses, ChatKilled
  <2> QED
    BY <1>5, <2>1, ChatsTurn
<1>6. CASE JobPasses \/ \E k \in DOMAIN chats : ChatSubmit(k)
  BY <1>6, AnswerTurns
<1>7. CASE Feed
  <2>1. UNCHANGED <<scene, events, marks, ledger, tasks, groups, chats, ctl>>
    BY <1>7 DEF Feed
  <2> QED
    BY <2>1, ControlOnly
<1>8. CASE \E ev \in DOMAIN view : Acknowledge(ev)
  <2>1. PICK ev : /\ UNCHANGED <<scene, events, marks, ledger, tasks, chats, ctl>>
                  /\ groups' = [groups EXCEPT ![ev].status = "SENT"]
    BY <1>8 DEF Acknowledge
  <2>2. DOMAIN groups' = DOMAIN groups
    BY <2>1
  <2>3. \A x \in DOMAIN groups : DOMAIN groups'[x] = {"status", "scopes"}
                                 /\ groups'[x].scopes = groups[x].scopes
    BY <2>1 DEF Shapes, GroupsOK
  <2>4. RowsOK' /\ KeysOK' /\ Turns' /\ GroupsOK'
    BY <2>1, <2>2, <2>3 DEF Shapes, RowsOK, KeysOK, Turns, Built, GroupsOK
  <2>5. Elsewise
    BY <2>1, <2>2, <2>3 DEF Elsewise, Tells
  <2>6. OpensNoMore
    BY <2>1 DEF OpensNoMore, Open
  <2> QED
    BY <2>1, <2>4, <2>5, <2>6 DEF Shapes
<1> QED
  BY <1>1, <1>2, <1>3, <1>4, <1>5, <1>6, <1>7, <1>8 DEF Next, ControllerStep, ChatStep

LEMMA InitShapes == Init => Shapes
  BY DEF Init, Empty, Idle, Fields, Shapes, RowsOK, GroupsOK, KeysOK, Turns, Built

LEMMA ShapesNext == Shapes /\ [Next]_vars => Shapes'
  BY Steps

-----------------------------------------------------------------------------
(* The watermarks.                                                          *)

LEMMA MarksNext ==
    ASSUME Shapes, MarksAreCurrent, [Next]_vars
    PROVE  MarksAreCurrent'
<1>1. CASE Elsewise
  BY <1>1 DEF Elsewise, MarksAreCurrent, Watermarks, OfFamily
<1>2. CASE ScanPersist
  <2>1. /\ marks' = Refreshed(events', Updates(ctl.docs))
        /\ DOMAIN events \subseteq DOMAIN events'
        /\ \A ev \in DOMAIN events :
              /\ events'[ev].status = events[ev].status
              /\ events'[ev].ver = events[ev].ver /\ events'[ev].cand = events[ev].cand
        /\ \A ev \in DOMAIN events' \ DOMAIN events : ev[1] \in Updates(ctl.docs)
    BY <1>2, ScanFiles DEF Shapes
  <2>2. \A f : f \notin Updates(ctl.docs) => Untouched(f)
    BY <2>1 DEF Untouched, OfFamily
  <2> QED
    BY <2>1, <2>2, RefreshKeepsMarks
<1>3. CASE \E k : Answers(k)
  <2>1. PICK k : Answers(k)
    BY <1>3
  <2>2. OfEvent(k) => k[2] \in DOMAIN events
    BY <2>1 DEF Answers, Built, Shapes, KeysOK
  <2>3. CASE UNCHANGED <<events, marks>>
    BY <2>3 DEF MarksAreCurrent, Watermarks, OfFamily
  <2>4. CASE \E evs : /\ marks' = Refreshed(events', {ev[1] : ev \in evs})
                      /\ OnlyRows(evs)
    <3>1. PICK evs : marks' = Refreshed(events', {ev[1] : ev \in evs}) /\ OnlyRows(evs)
      BY <2>4
    <3>2. \A f : f \notin {ev[1] : ev \in evs} => Untouched(f)
      BY <3>1, OtherFamilies
    <3> QED
      BY <3>1, <3>2, RefreshKeepsMarks
  <2> QED
    BY <2>1, <2>2, <2>3, <2>4, AnswerFiles DEF Answers, Shapes
<1> QED
  BY <1>1, <1>2, <1>3, Steps

\* Whatever is scanned, audited twice, cut off or killed
\* (incremental_semantic_audit.py:547-586).
THEOREM MarksCurrent == Spec => []MarksAreCurrent
<1>1. Init => Shapes /\ MarksAreCurrent
  BY InitShapes DEF Init, Empty, MarksAreCurrent
<1>2. Shapes /\ MarksAreCurrent /\ [Next]_vars => (Shapes /\ MarksAreCurrent)'
  BY ShapesNext, MarksNext
<1> QED
  BY <1>1, <1>2, PTL DEF Spec

-----------------------------------------------------------------------------
(* What the user is told.                                                   *)

\* While the audit of a scope may still be answered, its research is not asked for.
FullsUnasked ==
    NoCut => \A ev : \A s \in Scopes : Open(Scoped(ev, s)) => Full(ev, s) \notin DOMAIN ledger

Asked(ev, s) == Full(ev, s) \in DOMAIN ledger /\ ledger[Full(ev, s)] = "PENDING"

ToldAsked == NoCut => \A ev, s : Asked(ev, s) <=> Tells(ev, s)

LEMMA KeyParts ==
    \A ev, s, a : /\ RouteKey(ev, s, a)[1] = "EVENT" /\ RouteKey(ev, s, a)[2] = ev
                  /\ RouteKey(ev, s, a)[3] = s /\ RouteKey(ev, s, a)[4] = a
                  /\ OfEvent(RouteKey(ev, s, a))
  BY DEF RouteKey, OfEvent

LEMMA FullIsNoAudit == \A ev, s : ~IsAudit(Full(ev, s))
  BY KeyParts DEF IsAudit, Full

LEMMA OpenIsFiled == ASSUME Shapes, NEW k, Open(k) PROVE k \in DOMAIN ledger
  BY DEF Shapes, Turns, Built, Open

LEMMA FullsNext ==
    ASSUME Shapes, FullsUnasked, [Next]_vars
    PROVE  FullsUnasked'
<1> SUFFICES ASSUME NoCut, NEW ev, NEW s \in Scopes, Open(Scoped(ev, s))',
                    Full(ev, s) \in DOMAIN ledger'
             PROVE  FALSE
  BY Steps DEF FullsUnasked, NoCut
<1>0. Open(Scoped(ev, s)) \/ Scoped(ev, s) \in DOMAIN ledger' \ DOMAIN ledger
  BY Steps DEF OpensNoMore
<1>1. CASE Elsewise
  BY <1>0, <1>1 DEF Elsewise, FullsUnasked
<1>2. ASSUME NEW done, LedgerStep(done), done # Scoped(ev, s) PROVE FALSE
  <2>1. /\ OfEvent(Scoped(ev, s)) /\ Scoped(ev, s)[2] = ev /\ Scoped(ev, s)[3] = s
        /\ Scoped(ev, s)[4] = "SEMANTIC_AUDIT" /\ ScopeAudit(Scoped(ev, s))
    BY KeyParts DEF Scoped, ScopeAudit, OfScope, IsAudit, Scopes, Paths
  <2>2. /\ OfEvent(Full(ev, s)) /\ Full(ev, s)[2] = ev /\ Full(ev, s)[3] = s
        /\ Full(ev, s)[4] = "FULL_V2_RESEARCH"
    BY KeyParts DEF Full
  <2>3. Routed(ev, s, "SEMANTIC_AUDIT")
    <3>1. CASE Scoped(ev, s) \in DOMAIN ledger
      BY <2>1, <3>1 DEF Shapes, KeysOK
    <3>2. CASE Scoped(ev, s) \in DOMAIN ledger' \ DOMAIN ledger
      <4>1. NewKey(Scoped(ev, s), done)
        BY <1>2, <3>2 DEF LedgerStep
      <4>2. PICK e :
             \/ Scoped(ev, s) = CandidateKey(e)
             \/ \E t, a : Scoped(ev, s) = RouteKey(e, t, a) /\ Routed(e, t, a)
             \/ \E t : Scoped(ev, s) = Full(e, t)
        BY <2>1, <4>1 DEF NewKey
      <4>3. Scoped(ev, s) # CandidateKey(e)
        BY <2>1, KeyParts DEF CandidateKey, Scopes, Paths
      <4>4. \A t : Scoped(ev, s) # Full(e, t)
        BY <2>1, KeyParts DEF Full
      <4>5. PICK t, a : Scoped(ev, s) = RouteKey(e, t, a) /\ Routed(e, t, a)
        BY <4>2, <4>3, <4>4
      <4>6. e = ev /\ t = s /\ a = "SEMANTIC_AUDIT"
        BY <2>1, <4>5, KeyParts
      <4> QED
        BY <4>5, <4>6
    <3> QED
      BY <1>0, <3>1, <3>2, OpenIsFiled
  <2>4. ~Routed(ev, s, "FULL_V2_RESEARCH")
    BY <2>3, NotBoth
  <2>5. CASE Full(ev, s) \in DOMAIN ledger
    <3>1. Scoped(ev, s) \in DOMAIN ledger
      BY <2>2, <2>4, <2>5 DEF Shapes, KeysOK
    <3>2. Open(Scoped(ev, s))
      BY <1>0, <3>1
    <3> QED
      BY <2>5, <3>2 DEF FullsUnasked
  <2>6. CASE Full(ev, s) \notin DOMAIN ledger
    <3>1. NewKey(Full(ev, s), done)
      BY <1>2, <2>6 DEF LedgerStep
    <3>2. PICK e :
             \/ Full(ev, s) = CandidateKey(e)
             \/ \E t, a : Full(ev, s) = RouteKey(e, t, a) /\ Routed(e, t, a)
             \/ \E t : Full(ev, s) = Full(e, t) /\ done = Scoped(e, t)
      BY <2>2, <3>1 DEF NewKey
    <3>3. Full(ev, s) # CandidateKey(e)
      BY <2>2, KeyParts DEF CandidateKey
    <3>4. ASSUME NEW t, NEW a, Full(ev, s) = RouteKey(e, t, a), Routed(e, t, a) PROVE FALSE
      <4>1. e = ev /\ t = s /\ a = "FULL_V2_RESEARCH"
        BY <2>2, <3>4, KeyParts
      <4> QED
        BY <2>4, <3>4, <4>1
    <3>5. ASSUME NEW t, Full(ev, s) = Full(e, t), done = Scoped(e, t) PROVE FALSE
      <4>1. e = ev /\ t = s
        BY <2>2, <3>5, KeyParts DEF Full
      <4> QED
        BY <1>2, <3>5, <4>1
    <3> QED
      BY <3>2, <3>3, <3>4, <3>5
  <2> QED
    BY <2>5, <2>6
<1>3. CASE ScanPersist
  <2>1. <<"EVIDENCE">> # Scoped(ev, s)
    BY DEF Scoped, RouteKey
  <2> QED
    BY <1>2, <1>3, <2>1, ScanAsks
<1>4. CASE \E k : Answers(k)
  <2>1. PICK k : Answers(k)
    BY <1>4
  <2>2. LedgerStep(k) /\ k # Scoped(ev, s)
    BY <2>1, AnswerAsks DEF Answers, Built, Shapes
  <2> QED
    BY <1>2, <2>2
<1> QED
  BY <1>1, <1>3, <1>4, Steps

\* Routing an event opens a research of the scope.
LEMMA OpensIs ==
    \A ev, routes, s :
        s \in Opens(ev, routes) <=>
            /\ \E r \in routes : r.scope = s /\ r.act = "FULL_V2_RESEARCH" /\ Planned(r) = "PENDING"
            /\ Full(ev, s) \notin DOMAIN ledger
<1> TAKE ev, routes, s
<1>1. \A r : r.act = "FULL_V2_RESEARCH" => RouteKey(ev, r.scope, r.act) = Full(ev, r.scope)
  BY DEF Full
<1> QED
  BY <1>1 DEF Opens

\* What is opened is asked for and told.
LEMMA ToldStep ==
    ASSUME Shapes, NEW opened,
           \A ev, s : Tells(ev, s)' <=> Tells(ev, s) \/ (ev \in DOMAIN opened /\ s \in opened[ev]),
           \A ev, s : Asked(ev, s)' <=> Asked(ev, s) \/ (ev \in DOMAIN opened /\ s \in opened[ev]),
           ToldAsked, UNCHANGED scene
    PROVE  ToldAsked'
  BY DEF ToldAsked, NoCut

LEMMA ScanTells ==
    ASSUME Shapes, ToldAsked, ScanPersist
    PROVE  ToldAsked'
<1> DEFINE id(f) == <<f, ctl.day>>
           fams == Updates(ctl.docs)
           new == {f \in fams : id(f) \notin DOMAIN events}
           sure == {f \in new : Certain(ctl.docs, f)}
           maybe == new \ sure
           routed == [ev \in {id(f) : f \in sure} |-> Routes(ev[1], "NONE")]
           opened == [ev \in DOMAIN routed |-> Opens(ev, routed[ev])]
           routes(ev) == {r \in routed[ev] : Planned(r) = "PENDING"}
           docs == {EvidenceKey(d) : d \in Nameless(ctl.docs)}
           cands == {CandidateKey(id(f)) : f \in maybe}
           asks == UNION {{RouteKey(ev, r.scope, r.act) : r \in routes(ev)} : ev \in DOMAIN routed}
           keys == docs \cup cands \cup asks
<1>1. /\ ledger' = Insert(ledger, keys, LAMBDA k : "PENDING")
      /\ groups' = Linked(opened)
  BY DEF ScanPersist
<1>2. /\ DOMAIN ledger' = DOMAIN ledger \cup keys
      /\ \A x \in DOMAIN ledger : ledger'[x] = ledger[x]
      /\ \A x \in keys \ DOMAIN ledger : ledger'[x] = "PENDING"
  <2> HIDE DEF keys
  <2> QED
    BY <1>1 DEF Insert
<1>3. \A ev, s : Tells(ev, s)' <=> Tells(ev, s) \/ (ev \in DOMAIN opened /\ s \in opened[ev])
  <2> HIDE DEF opened
  <2> QED
    BY <1>1, LinkedTells DEF Shapes
<1>4. ASSUME NEW ev, NEW s
      PROVE  Full(ev, s) \in keys <=>
               ev \in DOMAIN routed /\ \E r \in routed[ev] :
                  r.scope = s /\ r.act = "FULL_V2_RESEARCH" /\ Planned(r) = "PENDING"
  <2>1. Full(ev, s) \notin docs
    BY KeyParts DEF EvidenceKey, Full
  <2>2. Full(ev, s) \notin cands
    <3>1. \A e : Full(ev, s) # CandidateKey(e)
      <4>1. \A e : Full(ev, s)[4] = "FULL_V2_RESEARCH" /\ CandidateKey(e)[4] = "SEMANTIC_AUDIT"
        BY KeyParts DEF CandidateKey, Full
      <4> QED
        BY <4>1
    <3> QED
      BY <3>1
  <2>3. ASSUME Full(ev, s) \in asks
        PROVE  ev \in DOMAIN routed /\ \E r \in routed[ev] :
                  r.scope = s /\ r.act = "FULL_V2_RESEARCH" /\ Planned(r) = "PENDING"
    <3>1. PICK e \in DOMAIN routed : \E r \in routes(e) : Full(ev, s) = RouteKey(e, r.scope, r.act)
      BY <2>3
    <3>2. PICK r \in routes(e) : Full(ev, s) = RouteKey(e, r.scope, r.act)
      BY <3>1
    <3>3. e = ev /\ r.scope = s /\ r.act = "FULL_V2_RESEARCH"
      BY <3>2, KeyParts DEF Full
    <3>4. r \in routed[e] /\ Planned(r) = "PENDING"
      OBVIOUS
    <3> QED
      BY <3>3, <3>4
  <2>4. ASSUME ev \in DOMAIN routed, NEW r \in routed[ev],
               r.scope = s, r.act = "FULL_V2_RESEARCH", Planned(r) = "PENDING"
        PROVE  Full(ev, s) \in asks
    <3>1. r \in routes(ev) /\ Full(ev, s) = RouteKey(ev, r.scope, r.act)
      BY <2>4 DEF Full
    <3> HIDE DEF routes, routed
    <3> QED
      BY <2>4, <3>1
  <2> HIDE DEF docs, cands, asks, routed
  <2> QED
    BY <2>1, <2>2, <2>3, <2>4
<1>5. ASSUME NEW ev, NEW s
      PROVE  Asked(ev, s)' <=> Asked(ev, s) \/ (ev \in DOMAIN opened /\ s \in opened[ev])
  <2>1. ev \in DOMAIN opened /\ s \in opened[ev] <=>
          Full(ev, s) \in keys /\ Full(ev, s) \notin DOMAIN ledger
    <3>1. DOMAIN opened = DOMAIN routed /\ \A e \in DOMAIN routed : opened[e] = Opens(e, routed[e])
      OBVIOUS
    <3> HIDE DEF opened, routed, keys
    <3> QED
      BY <1>4, <3>1, OpensIs
  <2> HIDE DEF opened, keys
  <2> QED
    BY <1>2, <2>1 DEF Asked
<1> HIDE DEF opened
<1> QED
  BY <1>3, <1>5, ScanTurn, ToldStep

LEMMA AnswerTells ==
    ASSUME Shapes, FullsUnasked, ToldAsked, NEW k, Answers(k), NoCut, UNCHANGED scene
    PROVE  ToldAsked'
<1>0. \A ev, s : Full(ev, s) # k
  BY FullIsNoAudit DEF Answers, Built
<1>1. CASE ApplyNeedsEvidence(k) \/ ApplyNoChange(k) \/ ApplyScopeNone(k)
  <2>1. PICK st : Closes(k, st)
    BY <1>1 DEF ApplyNeedsEvidence, ApplyNoChange, ApplyScopeNone
  <2>2. UNCHANGED groups
    BY <1>1 DEF ApplyNeedsEvidence, ApplyNoChange, ApplyScopeNone, told
  <2>3. DOMAIN ledger' = DOMAIN ledger /\ \A x \in DOMAIN ledger \ {k} : ledger'[x] = ledger[x]
    BY <2>1 DEF Closes, SetStatus
  <2>4. \A ev, s : (Asked(ev, s)' <=> Asked(ev, s)) /\ (Tells(ev, s)' <=> Tells(ev, s))
    BY <1>0, <2>2, <2>3 DEF Asked, Tells
  <2> QED
    BY <2>4 DEF ToldAsked, NoCut
<1>2. CASE ApplyScopeFull(k)
  <2> DEFINE ev0 == k[2]
             s0 == k[3]
             kept == econ[k[3]] = "KEEP"
             opened == [e \in {ev0} |-> IF kept THEN {s0} ELSE {}]
             full == RouteKey(ev0, s0, "FULL_V2_RESEARCH")
  <2>1. /\ ledger' = [Insert(ledger, {full}, LAMBDA x :
                          IF kept THEN "PENDING" ELSE "SUPPRESSED_ECONOMIC_DROP")
                        EXCEPT ![k] = "COMPLETED_SCOPE_FULL_V2"]
        /\ groups' = Linked(opened) /\ s0 \in Scopes /\ ScopeAudit(k)
    BY <1>2 DEF ApplyScopeFull, Scopes, Answers, Built, ScopeAudit
  <2>2. k = Scoped(ev0, s0)
    BY <2>1 DEF Answers, Built, Shapes, KeysOK, ScopeAudit, OfScope, IsAudit, Scoped
  <2>3. full = Full(ev0, s0) /\ full \notin DOMAIN ledger
    BY <2>1, <2>2 DEF Full, FullsUnasked, Answers
  <2>4. /\ DOMAIN ledger' = DOMAIN ledger \cup {full}
        /\ \A x \in DOMAIN ledger \ {k} : ledger'[x] = ledger[x]
        /\ ledger'[full] = IF kept THEN "PENDING" ELSE "SUPPRESSED_ECONOMIC_DROP"
    <3>1. k \in DOMAIN ledger /\ k # full
      BY <1>0, <2>3 DEF Answers, Built
    <3> HIDE DEF full, kept
    <3> QED
      BY <2>1, <2>3, <3>1 DEF Insert
  <2>5. \A ev, s : Tells(ev, s)' <=> Tells(ev, s) \/ (ev \in DOMAIN opened /\ s \in opened[ev])
    <3> HIDE DEF opened
    <3> QED
      BY <2>1, LinkedTells DEF Shapes
  <2>6. ASSUME NEW ev, NEW s
        PROVE  Asked(ev, s)' <=> Asked(ev, s) \/ (ev \in DOMAIN opened /\ s \in opened[ev])
    <3>1. Full(ev, s) = full => ev = ev0 /\ s = s0
      BY <2>3, KeyParts DEF Full
    <3>2. ev \in DOMAIN opened /\ s \in opened[ev] <=> ev = ev0 /\ s = s0 /\ kept
      OBVIOUS
    <3> HIDE DEF full, kept, opened, ev0, s0
    <3> QED
      BY <1>0, <2>3, <2>4, <3>1, <3>2 DEF Asked
  <2> HIDE DEF opened
  <2> QED
    BY <2>5, <2>6, ToldStep
<1>3. CASE \E mat, pos : ApplyConfirmed(k, mat, pos)
  <2>1. PICK mat, pos : ApplyConfirmed(k, mat, pos)
    BY <1>3
  <2> DEFINE row == [e \in DOMAIN mat |-> ConfirmedRow(k, e, mat[e], pos)]
             routes == [e \in DOMAIN mat |-> Routes(e[1], row[e].mat)]
             keys == UNION {KeysOf(e, routes[e]) : e \in DOMAIN mat}
             opened == [e \in DOMAIN mat |-> Opens(e, routes[e])]
  <2>2. /\ ledger' = [Insert(ledger, keys, LAMBDA x : Planned(RouteOf(routes[x[2]], x)))
                        EXCEPT ![k] = "COMPLETED_CONFIRMED"]
        /\ groups' = Linked(opened)
    BY <2>1 DEF ApplyConfirmed
  <2>3. /\ DOMAIN ledger' = DOMAIN ledger \cup keys
        /\ \A x \in DOMAIN ledger \ {k} : ledger'[x] = ledger[x]
        /\ \A x \in keys \ DOMAIN ledger : ledger'[x] = Planned(RouteOf(routes[x[2]], x))
    <3>1. k \in DOMAIN ledger
      BY DEF Answers, Built
    <3> HIDE DEF routes, keys
    <3> QED
      BY <2>2, <3>1 DEF Insert
  <2>4. \A ev, s : Tells(ev, s)' <=> Tells(ev, s) \/ (ev \in DOMAIN opened /\ s \in opened[ev])
    <3> HIDE DEF opened
    <3> QED
      BY <2>2, LinkedTells DEF Shapes
  <2>5. \A e \in DOMAIN mat : \E m : routes[e] = Routes(e[1], m)
    OBVIOUS
  <2>6. /\ DOMAIN opened = DOMAIN mat
        /\ \A e \in DOMAIN mat : opened[e] = Opens(e, routes[e])
    OBVIOUS
  <2> HIDE DEF routes, opened
  <2>7. ASSUME NEW ev, NEW s
        PROVE  Full(ev, s) \in keys <=>
                 ev \in DOMAIN mat /\ \E r \in routes[ev] : r.scope = s /\ r.act = "FULL_V2_RESEARCH"
    <3>1. ASSUME Full(ev, s) \in keys
          PROVE  ev \in DOMAIN mat /\ \E r \in routes[ev] : r.scope = s /\ r.act = "FULL_V2_RESEARCH"
      <4>1. PICK e \in DOMAIN mat : Full(ev, s) \in KeysOf(e, routes[e])
        BY <3>1
      <4>2. PICK r \in routes[e] : Full(ev, s) = RouteKey(e, r.scope, r.act)
        BY <4>1 DEF KeysOf
      <4>3. e = ev /\ r.scope = s /\ r.act = "FULL_V2_RESEARCH"
        BY <4>2, KeyParts DEF Full
      <4> QED
        BY <4>2, <4>3
    <3>2. ASSUME ev \in DOMAIN mat, NEW r \in routes[ev], r.scope = s, r.act = "FULL_V2_RESEARCH"
          PROVE  Full(ev, s) \in keys
      <4>1. Full(ev, s) \in KeysOf(ev, routes[ev])
        BY <3>2 DEF KeysOf, Full
      <4> QED
        BY <3>2, <4>1
    <3> QED
      BY <3>1, <3>2
  <2> HIDE DEF keys
  <2>8. ASSUME NEW ev \in DOMAIN mat, NEW r \in routes[ev]
        PROVE  RouteOf(routes[ev], RouteKey(ev, r.scope, r.act)) = r
    <3>1. \A q \in routes[ev] : q.scope = r.scope => q = r
      BY <2>5, RoutesFit DEF OnePerScope
    <3>2. RouteKey(ev, r.scope, r.act)[3] = r.scope
      BY KeyParts
    <3> QED
      BY <3>1, <3>2 DEF RouteOf
  <2>9. ASSUME NEW ev, NEW s
        PROVE  Asked(ev, s)' <=> Asked(ev, s) \/ (ev \in DOMAIN opened /\ s \in opened[ev])
    <3>1. ev \in DOMAIN opened /\ s \in opened[ev] <=>
            /\ ev \in DOMAIN mat /\ Full(ev, s) \notin DOMAIN ledger
            /\ \E r \in routes[ev] : /\ r.scope = s /\ r.act = "FULL_V2_RESEARCH"
                                      /\ Planned(r) = "PENDING"
      BY <2>6, OpensIs
    <3>2. ASSUME Full(ev, s) \in keys \ DOMAIN ledger
          PROVE  ledger'[Full(ev, s)] = "PENDING" <=>
                   \E r \in routes[ev] : /\ r.scope = s /\ r.act = "FULL_V2_RESEARCH"
                                         /\ Planned(r) = "PENDING"
      <4>0. ev \in DOMAIN mat
        BY <2>7, <3>2
      <4>1. PICK r \in routes[ev] : r.scope = s /\ r.act = "FULL_V2_RESEARCH"
        BY <2>7, <3>2
      <4>2. Full(ev, s) = RouteKey(ev, r.scope, r.act) /\ Full(ev, s)[2] = ev
        BY <4>1, KeyParts DEF Full
      <4>3. RouteOf(routes[ev], Full(ev, s)) = r
        BY <2>8, <4>0, <4>2
      <4>4. ledger'[Full(ev, s)] = Planned(r)
        BY <2>3, <3>2, <4>2, <4>3
      <4>5. \A q \in routes[ev] : q.scope = s => q = r
        BY <2>5, <4>0, <4>1, RoutesFit DEF OnePerScope
      <4> QED
        BY <4>1, <4>4, <4>5
    <3> QED
      BY <1>0, <2>3, <2>7, <3>1, <3>2 DEF Asked
  <2> QED
    BY <2>4, <2>9, ToldStep
<1> QED
  BY <1>1, <1>2, <1>3 DEF Answers, Apply

LEMMA ToldNext ==
    ASSUME Shapes, FullsUnasked, ToldAsked, [Next]_vars
    PROVE  ToldAsked'
<1>0. UNCHANGED scene
  BY Steps
<1>1. CASE Elsewise
  <2>1. \A ev, s : Asked(ev, s)' <=> Asked(ev, s)
    BY <1>1, FullIsNoAudit DEF Elsewise, Asked
  <2> QED
    BY <1>0, <1>1, <2>1 DEF Elsewise, ToldAsked, NoCut
<1>2. CASE ScanPersist
  BY <1>2, ScanTells
<1>3. CASE \E k : Answers(k)
  <2>1. NoCut => ToldAsked'
    BY <1>0, <1>3, AnswerTells
  <2> QED
    BY <1>0, <2>1 DEF ToldAsked, NoCut
<1> QED
  BY <1>1, <1>2, <1>3, Steps

\* Whatever the scan, the waves and the dialogues do, in every instance in which no
\* submission is cut off half-way (incremental_event_ledger.py:371-388,
\* incremental_semantic_audit.py:667-687).
THEOREM ToldAsAsked == Spec => []ToldIsAsked
<1>1. Init => Shapes /\ FullsUnasked /\ ToldAsked
  BY InitShapes DEF Init, Empty, Idle, FullsUnasked, Open, ToldAsked, Asked, Tells
<1>2. Shapes /\ FullsUnasked /\ ToldAsked /\ [Next]_vars => (Shapes /\ FullsUnasked /\ ToldAsked)'
  BY ShapesNext, FullsNext, ToldNext
<1>3. ToldAsked => ToldIsAsked
  BY DEF ToldAsked, Asked, Tells, Full, NoCut, ToldIsAsked
<1> QED
  BY <1>1, <1>2, <1>3, PTL DEF Spec

-----------------------------------------------------------------------------
(* The audits of events.                                                    *)

\* A candidate is asked about; the audit of the event itself is built before any
\* answer that decides it, and so is not pending when the event is decided.
CandidatesOK ==
    /\ \A ev \in DOMAIN events :
          events[ev].status = "CANDIDATE" => CandidateKey(ev) \in DOMAIN ledger
    /\ \A k \in DOMAIN tasks : OfEvent(k) /\ tasks[k] # "SCOPE_IMPACT" =>
          CandidateKey(k[2]) \in DOMAIN ledger /\ ledger[CandidateKey(k[2])] # "PENDING"
    /\ \A ev : CandidateKey(ev) \in DOMAIN ledger /\ ledger[CandidateKey(ev)] = "PENDING" =>
          ev \in DOMAIN events /\ events[ev].status = "CANDIDATE"

LEMMA CandidateParts ==
    \A ev : /\ CandidateKey(ev)[2] = ev /\ CandidateKey(ev)[3] = "EVENT_AUDIT"
            /\ CandidateKey(ev)[4] = "SEMANTIC_AUDIT"
            /\ OfEvent(CandidateKey(ev)) /\ IsAudit(CandidateKey(ev))
  BY DEF CandidateKey, RouteKey, OfEvent, IsAudit

\* The audit of an event is asked for by the scan that files it as a candidate.
LEMMA CandidateIsNew ==
    ASSUME NEW done, NEW ev, NewKey(CandidateKey(ev), done)
    PROVE  ev \in DOMAIN events' /\ events'[ev].status = "CANDIDATE"
<1>1. PICK e \in DOMAIN events' :
        \/ CandidateKey(ev) = CandidateKey(e) /\ events'[e].status = "CANDIDATE"
        \/ \E s, a : CandidateKey(ev) = RouteKey(e, s, a) /\ Routed(e, s, a)
        \/ \E s : CandidateKey(ev) = Full(e, s)
  BY CandidateParts DEF NewKey
<1>2. ASSUME NEW s, NEW a, CandidateKey(ev) = RouteKey(e, s, a), Routed(e, s, a) PROVE FALSE
  <2>1. s = "EVENT_AUDIT"
    BY <1>2, CandidateParts, KeyParts
  <2> QED
    BY <1>2, <2>1, RoutedScopes DEF Scopes, Paths
<1>3. \A s : CandidateKey(ev) # Full(e, s)
  BY CandidateParts, KeyParts DEF Full
<1>4. CandidateKey(ev) = CandidateKey(e) => ev = e
  BY CandidateParts
<1> QED
  BY <1>1, <1>2, <1>3, <1>4

LEMMA TasksBuilt == [Next]_vars => WaveBuild \/ UNCHANGED tasks
<1> SUFFICES ASSUME [Next]_vars PROVE WaveBuild \/ UNCHANGED tasks
  OBVIOUS
<1> USE DEF vars, time, market, filed, asked, told, user, database
<1>1. ASSUME NEW k, Apply(k) PROVE UNCHANGED tasks
  BY <1>1, AnswerKeepsTasks
<1>2. CASE JobPasses \/ \E k \in DOMAIN chats : ChatSubmit(k)
  BY <1>1, <1>2 DEF JobPasses, ChatSubmit
<1>3. CASE \/ ScanFetch \/ ScanFails \/ ScanPersist \/ ScanRaises \/ CheckpointWrite
           \/ JobFails \/ JobRaises \/ WaveEnds \/ ChatMark \/ BridgeEnds
           \/ \E k \in DOMAIN ledger : JobStart(k) \/ ChatCreate(k)
  BY <1>3 DEF ScanFetch, ScanFails, ScanPersist, ScanRaises, CheckpointWrite, JobFails,
              JobRaises, WaveEnds, ChatMark, BridgeEnds, JobStart, ChatCreate
<1>4. CASE \/ Tick \/ \E d \in scene.docs : List(d)
           \/ \E p \in Paths : EconMoves(p)
           \/ \E target \in Targets, mode \in scene.modes : ControllerStart(target, mode)
           \/ ControllerKilled \/ Feed \/ \E ev \in DOMAIN view : Acknowledge(ev)
           \/ \E k \in DOMAIN chats : ChatCloses(k) \/ ChatKilled(k)
           \/ UNCHANGED vars
  BY <1>4 DEF Tick, List, EconMoves, ControllerStart, ControllerKilled, Feed, Acknowledge,
              ChatCloses, ChatKilled
<1> QED
  BY <1>2, <1>3, <1>4 DEF Next, ControllerStep, ChatStep

\* An answer decides the event of its task, and files no candidate.
LEMMA AnswerDecides ==
    ASSUME Shapes, NEW k, Answers(k)
    PROVE  \A ev \in DOMAIN events' :
             \/ ev \in DOMAIN events /\ events'[ev].status = events[ev].status
             \/ events'[ev].status # "CANDIDATE" /\ ev \notin DOMAIN events
             \/ /\ events'[ev].status # "CANDIDATE" /\ OfEvent(k) /\ k[2] = ev
                /\ tasks[k] # "SCOPE_IMPACT"
<1>1. CASE ApplyNeedsEvidence(k) \/ ApplyScopeNone(k) \/ ApplyScopeFull(k)
  BY <1>1 DEF ApplyNeedsEvidence, ApplyScopeNone, ApplyScopeFull, filed
<1>2. CASE ApplyNoChange(k)
  <2>1. CASE ~OfEvent(k)
    BY <1>2, <2>1 DEF ApplyNoChange
  <2>2. CASE OfEvent(k)
    <3>1. k[2] \in DOMAIN events /\ DOMAIN events[k[2]] = RowFields
      BY <2>2 DEF Answers, Built, Shapes, KeysOK, RowsOK
    <3>2. events' = [events EXCEPT ![k[2]].status = "REJECTED",
                                   ![k[2]].mat = "NO_MATERIAL_CHANGE"]
      BY <1>2, <2>2 DEF ApplyNoChange
    <3>3. events'[k[2]].status = "REJECTED"
      BY <3>1, <3>2 DEF RowFields
    <3>4. \A x \in DOMAIN events : x # k[2] => events'[x] = events[x]
      BY <3>2
    <3>5. DOMAIN events' = DOMAIN events /\ tasks[k] # "SCOPE_IMPACT"
      BY <1>2, <3>2 DEF ApplyNoChange
    <3> QED
      BY <2>2, <3>3, <3>4, <3>5
  <2> QED
    BY <2>1, <2>2
<1>3. CASE \E mat, pos : ApplyConfirmed(k, mat, pos)
  <2>1. PICK mat, pos : ApplyConfirmed(k, mat, pos)
    BY <1>3
  <2> DEFINE row == [ev \in DOMAIN mat |-> ConfirmedRow(k, ev, mat[ev], pos)]
  <2>2. events' = Over(events, row) /\ MayConfirm(k, DOMAIN mat)
    BY <2>1 DEF ApplyConfirmed
  <2>3. tasks[k] # "SCOPE_IMPACT" /\ (OfEvent(k) => DOMAIN mat = {k[2]})
    BY <2>2 DEF MayConfirm
  <2>4. ASSUME NEW ev \in DOMAIN mat
        PROVE  \/ ev \in DOMAIN events /\ row[ev].status = events[ev].status
               \/ row[ev].status = "CONFIRMED" /\ ev \notin DOMAIN events
               \/ row[ev].status = "CONFIRMED" /\ OfEvent(k) /\ k[2] = ev
    <3>1. row[ev] = ConfirmedRow(k, ev, mat[ev], pos)
      OBVIOUS
    <3> HIDE DEF row
    <3>2. CASE OfEvent(k)
      <4>1. ev = k[2] /\ DOMAIN events[ev] = RowFields
        BY <2>3, <3>2 DEF Answers, Built, Shapes, KeysOK, RowsOK
      <4>2. row[ev] = [events[ev] EXCEPT !.status = "CONFIRMED", !.cand = 0, !.mat = mat[ev],
                          !.ver = NextVersion(OfFamily(events, ev[1], "CONFIRMED"))]
        BY <3>1, <3>2 DEF ConfirmedRow
      <4> QED
        BY <3>2, <4>1, <4>2 DEF RowFields
    <3>3. CASE ~OfEvent(k) /\ ev \in DOMAIN events
      <4>1. DOMAIN events[ev] = RowFields
        BY <3>3 DEF Shapes, RowsOK
      <4>2. row[ev] = [events[ev] EXCEPT !.docs = @ \cup {k[2]}]
        BY <3>1, <3>3 DEF ConfirmedRow
      <4> QED
        BY <3>3, <4>1, <4>2 DEF RowFields
    <3>4. CASE ~OfEvent(k) /\ ev \notin DOMAIN events
      BY <3>1, <3>4 DEF ConfirmedRow, Update
    <3> QED
      BY <3>2, <3>3, <3>4
  <2>5. /\ DOMAIN events' = DOMAIN events \cup DOMAIN mat
        /\ \A x \in DOMAIN events' : events'[x] = IF x \in DOMAIN mat THEN row[x] ELSE events[x]
    <3>1. DOMAIN row = DOMAIN mat
      OBVIOUS
    <3> HIDE DEF row
    <3> QED
      BY <2>2, <3>1 DEF Over
  <2> HIDE DEF row
  <2> QED
    BY <2>3, <2>4, <2>5
<1> QED
  BY <1>1, <1>2, <1>3 DEF Answers, Apply

LEMMA CandidatesNext ==
    ASSUME Shapes, CandidatesOK, [Next]_vars
    PROVE  CandidatesOK'
<1>1. CASE WaveBuild
  <2>1. UNCHANGED events
    BY <1>1 DEF WaveBuild, filed
  <2>2. CASE UNCHANGED <<ledger, tasks>>
    BY <2>1, <2>2 DEF CandidatesOK
  <2>3. CASE /\ ledger' = SetStatus(PendingAudits, "READY_FOR_AI_AUDIT")
             /\ tasks' = Over(tasks, [k \in PendingAudits |-> Subject(k)])
    <3>1. /\ DOMAIN ledger' = DOMAIN ledger
          /\ \A x \in DOMAIN ledger : ledger'[x] = IF x \in PendingAudits
                                                   THEN "READY_FOR_AI_AUDIT" ELSE ledger[x]
      BY <2>3 DEF SetStatus
    <3>2. /\ DOMAIN tasks' = DOMAIN tasks \cup PendingAudits
          /\ \A x \in DOMAIN tasks' : tasks'[x] = IF x \in PendingAudits THEN Subject(x) ELSE tasks[x]
      BY <2>3 DEF Over
    <3>3. \A ev : CandidateKey(ev) \in DOMAIN ledger => ledger'[CandidateKey(ev)] # "PENDING"
      BY <3>1, CandidateParts DEF PendingAudits
    <3>4. ASSUME NEW k \in PendingAudits, OfEvent(k), Subject(k) # "SCOPE_IMPACT"
          PROVE  CandidateKey(k[2]) \in DOMAIN ledger
      <4>1. k[2] \in DOMAIN events /\ events[k[2]].status = "CANDIDATE"
        BY <3>4 DEF PendingAudits, Subject, Shapes, KeysOK
      <4> QED
        BY <4>1 DEF CandidatesOK
    <3>5. ASSUME NEW k \in DOMAIN tasks', OfEvent(k), tasks'[k] # "SCOPE_IMPACT"
          PROVE  CandidateKey(k[2]) \in DOMAIN ledger' /\ ledger'[CandidateKey(k[2])] # "PENDING"
      <4>1. CandidateKey(k[2]) \in DOMAIN ledger
        BY <3>2, <3>4, <3>5 DEF CandidatesOK
      <4> QED
        BY <3>1, <3>3, <4>1
    <3> QED
      BY <2>1, <3>1, <3>3, <3>5 DEF CandidatesOK
  <2> QED
    BY <1>1, <2>2, <2>3 DEF WaveBuild
<1>2. CASE Elsewise /\ UNCHANGED tasks
  BY <1>2 DEF Elsewise, CandidatesOK
<1>3. ASSUME NEW done, LedgerStep(done), UNCHANGED tasks
      PROVE  \A k \in DOMAIN tasks' : OfEvent(k) /\ tasks'[k] # "SCOPE_IMPACT" =>
               CandidateKey(k[2]) \in DOMAIN ledger' /\ ledger'[CandidateKey(k[2])] # "PENDING"
  BY <1>3 DEF LedgerStep, CandidatesOK
<1>4. CASE ScanPersist /\ UNCHANGED tasks
  <2>1. LedgerStep(<<>>) /\ \A x \in DOMAIN ledger : ledger'[x] = ledger[x]
    BY <1>4, ScanAsks
  <2>2. /\ DOMAIN events \subseteq DOMAIN events'
        /\ \A ev \in DOMAIN events : events'[ev].status = events[ev].status
    BY <1>4, ScanFiles DEF Shapes
  <2>3. \A ev \in DOMAIN events' \ DOMAIN events :
           events'[ev].status = "CANDIDATE" => CandidateKey(ev) \in DOMAIN ledger'
    BY <1>4, ScanAsks
  <2>4. \A ev \in DOMAIN events' : events'[ev].status = "CANDIDATE" => CandidateKey(ev) \in DOMAIN ledger'
    BY <2>1, <2>2, <2>3 DEF CandidatesOK, LedgerStep
  <2>5. ASSUME NEW ev, CandidateKey(ev) \in DOMAIN ledger', ledger'[CandidateKey(ev)] = "PENDING"
        PROVE  ev \in DOMAIN events' /\ events'[ev].status = "CANDIDATE"
    <3>1. CASE CandidateKey(ev) \in DOMAIN ledger
      BY <2>1, <2>2, <2>5, <3>1 DEF CandidatesOK
    <3>2. CASE CandidateKey(ev) \notin DOMAIN ledger
      BY <2>1, <2>5, <3>2, CandidateIsNew DEF LedgerStep
    <3> QED
      BY <3>1, <3>2
  <2> QED
    BY <1>3, <1>4, <2>1, <2>4, <2>5 DEF CandidatesOK
<1>5. CASE (\E k : Answers(k)) /\ UNCHANGED tasks
  <2>1. PICK k : Answers(k)
    BY <1>5
  <2>2. LedgerStep(k)
    BY <2>1, AnswerAsks DEF Answers, Built, Shapes
  <2>3. DOMAIN events \subseteq DOMAIN events'
    BY <2>1, AnswerFiles DEF Answers, Built, Shapes, KeysOK
  <2>4. \A ev \in DOMAIN events' :
             \/ ev \in DOMAIN events /\ events'[ev].status = events[ev].status
             \/ events'[ev].status # "CANDIDATE" /\ ev \notin DOMAIN events
             \/ /\ events'[ev].status # "CANDIDATE" /\ OfEvent(k) /\ k[2] = ev
                /\ tasks[k] # "SCOPE_IMPACT"
    BY <2>1, AnswerDecides
  <2>5. \A ev \in DOMAIN events' : events'[ev].status = "CANDIDATE" => CandidateKey(ev) \in DOMAIN ledger'
    BY <2>2, <2>4 DEF CandidatesOK, LedgerStep
  <2>6. ASSUME NEW ev, CandidateKey(ev) \in DOMAIN ledger', ledger'[CandidateKey(ev)] = "PENDING"
        PROVE  ev \in DOMAIN events' /\ events'[ev].status = "CANDIDATE"
    <3>1. CASE CandidateKey(ev) \in DOMAIN ledger
      <4>1. ledger[CandidateKey(ev)] = "PENDING"
        BY <2>2, <2>6, <3>1 DEF LedgerStep
      <4>2. ev \in DOMAIN events /\ events[ev].status = "CANDIDATE"
        BY <3>1, <4>1 DEF CandidatesOK
      <4>3. ~(OfEvent(k) /\ k[2] = ev /\ tasks[k] # "SCOPE_IMPACT")
        BY <2>1, <4>1 DEF CandidatesOK, Answers, Built
      <4> QED
        BY <2>3, <2>4, <4>2, <4>3
    <3>2. CASE CandidateKey(ev) \notin DOMAIN ledger
      BY <2>2, <2>6, <3>2, CandidateIsNew DEF LedgerStep
    <3> QED
      BY <3>1, <3>2
  <2> QED
    BY <1>3, <1>5, <2>2, <2>5, <2>6 DEF CandidatesOK
<1> QED
  BY <1>1, <1>2, <1>4, <1>5, Steps, TasksBuilt

\* However many answers confirm or reject an event, by way of its documents, of itself or
\* of its scopes (incremental_semantic_audit.py:245-252).
THEOREM AuditsBuildable == Spec => []AuditsCanBeBuilt
<1>1. Init => Shapes /\ CandidatesOK
  BY InitShapes DEF Init, Empty, CandidatesOK
<1>2. Shapes /\ CandidatesOK /\ [Next]_vars => (Shapes /\ CandidatesOK)'
  BY ShapesNext, CandidatesNext
<1>3. Shapes /\ CandidatesOK => AuditsCanBeBuilt
  <2> SUFFICES ASSUME Shapes, CandidatesOK, NEW k \in DOMAIN ledger,
                      OfEvent(k), IsAudit(k), ~OfScope(k), ledger[k] = "PENDING"
               PROVE  events[k[2]].status = "CANDIDATE"
    BY DEF AuditsCanBeBuilt
  <2>1. k = CandidateKey(k[2])
    BY DEF Shapes, KeysOK, OfScope, IsAudit, CandidateKey
  <2> QED
    BY <2>1 DEF CandidatesOK
<1> QED
  BY <1>1, <1>2, <1>3, PTL DEF Spec

-----------------------------------------------------------------------------
(* The waves.                                                               *)

Routine == ctl.mode = "AUTO_API" /\ ~ctl.failed /\ chats = Empty

ScopeAuditsOnly(keys) == \A k \in keys : ScopeAudit(k)

\* The first wave leaves scopes of events to be audited, the second nothing.
WavesOK ==
    /\ ctl.pc \in {"wave", "task", "job", "mark", "bridge"} => ctl.wave \in Nat \ {0}
    /\ Routine =>
        /\ ctl.pc = "wave" =>
              /\ ctl.wave >= 2 => ScopeAuditsOnly(PendingAudits)
              /\ ctl.wave >= 3 => PendingAudits = {}
        /\ ctl.pc \in {"task", "job"} =>
              /\ ScopeAuditsOnly(PendingAudits)
              /\ ctl.wave >= 2 => ScopeAuditsOnly(ctl.todo) /\ PendingAudits = {}
        /\ ctl.pc = "job" /\ ctl.wave >= 2 => ScopeAudit(ctl.key)
        /\ ctl.pc = "bridge" => PendingAudits = {}

\* An answer asks for audits of scopes only, and that of a scope asks for none.
LEMMA AnswerAudits ==
    ASSUME Shapes, NEW k, Answers(k)
    PROVE  /\ \A x \in PendingAudits' : x \in PendingAudits \/ ScopeAudit(x)
           /\ ScopeAudit(k) => PendingAudits' \subseteq PendingAudits
<1>1. LedgerStep(k)
  BY AnswerAsks DEF Answers, Built, Shapes
<1>2. \A x \in PendingAudits' : x \in DOMAIN ledger => x \in PendingAudits
  BY <1>1 DEF LedgerStep, PendingAudits
<1>3. CASE ApplyNeedsEvidence(k) \/ ApplyNoChange(k) \/ ApplyScopeNone(k)
  <2>1. DOMAIN ledger' = DOMAIN ledger
    BY <1>3 DEF ApplyNeedsEvidence, ApplyNoChange, ApplyScopeNone, Closes, SetStatus
  <2> QED
    BY <1>2, <2>1 DEF PendingAudits
<1>4. CASE ApplyScopeFull(k)
  <2>1. \A x \in DOMAIN ledger' \ DOMAIN ledger : x = Full(k[2], k[3])
    BY <1>4 DEF ApplyScopeFull, Insert, Full
  <2>2. \A x \in PendingAudits' : x \in DOMAIN ledger
    BY <2>1, FullIsNoAudit DEF PendingAudits
  <2> QED
    BY <1>2, <2>2
<1>5. CASE \E mat, pos : ApplyConfirmed(k, mat, pos)
  <2>1. PICK mat, pos : ApplyConfirmed(k, mat, pos)
    BY <1>5
  <2> DEFINE row == [e \in DOMAIN mat |-> ConfirmedRow(k, e, mat[e], pos)]
             routes == [e \in DOMAIN mat |-> Routes(e[1], row[e].mat)]
             keys == UNION {KeysOf(e, routes[e]) : e \in DOMAIN mat}
  <2>2. /\ ledger' = [Insert(ledger, keys, LAMBDA x : Planned(RouteOf(routes[x[2]], x)))
                        EXCEPT ![k] = "COMPLETED_CONFIRMED"]
        /\ MayConfirm(k, DOMAIN mat)
    BY <2>1 DEF ApplyConfirmed
  <2>3. DOMAIN ledger' = DOMAIN ledger \cup keys
    <3> HIDE DEF routes, keys
    <3> QED
      BY <2>2 DEF Insert
  <2>4. ASSUME NEW x \in keys, IsAudit(x)
        PROVE  ScopeAudit(x) /\ (ScopeAudit(k) => x \in DOMAIN ledger)
    <3>1. PICK e \in DOMAIN mat : x \in KeysOf(e, routes[e])
      OBVIOUS
    <3>2. PICK m : routes[e] = Routes(e[1], m)
      OBVIOUS
    <3> HIDE DEF routes, keys
    <3>3. PICK r \in Routes(e[1], m) : x = RouteKey(e, r.scope, r.act)
      BY <3>1, <3>2 DEF KeysOf
    <3>4. r.scope \in Scopes
      BY RoutesFit DEF OnePerScope
    <3>5. OfEvent(x) /\ x[3] # "EVENT_AUDIT" /\ r.act = "SEMANTIC_AUDIT"
      BY <2>4, <3>3, <3>4, KeyParts DEF Scopes, Paths, IsAudit
    <3>6. ASSUME ScopeAudit(k) PROVE x \in DOMAIN ledger
      <4>1. e = k[2] /\ Whole(k[2], DOMAIN ledger)
        BY <2>2, <3>6 DEF MayConfirm, ScopeAudit, OfScope, Answers, Built, Shapes, KeysOK
      <4>2. Routed(e, r.scope, "SEMANTIC_AUDIT")
        BY <3>5 DEF Routed
      <4> QED
        BY <3>3, <3>5, <4>1, <4>2 DEF Whole, Scoped
    <3> QED
      BY <2>4, <3>5, <3>6 DEF ScopeAudit, OfScope
  <2> QED
    <3> HIDE DEF keys
    <3> QED
      BY <1>2, <2>3, <2>4 DEF PendingAudits
<1> QED
  BY <1>3, <1>4, <1>5 DEF Answers, Apply

\* Steps that leave the run and its audits alone.
LEMMA WavesAlone ==
    ASSUME WavesOK, UNCHANGED <<ctl, ledger>>, chats' = Empty => chats = Empty
    PROVE  WavesOK'
  BY DEF WavesOK, Routine, ScopeAuditsOnly, PendingAudits

LEMMA WavesNext ==
    ASSUME Waves >= 2, Shapes, WavesOK, [Next]_vars
    PROVE  WavesOK'
<1> USE DEF vars, time, market, filed, asked, told, user, database
<1>0. DOMAIN ctl = Fields /\ DOMAIN Idle = Fields /\ Waves \in Nat
  BY LedgerConstants DEF Shapes, Turns, Idle, Fields
<1>1. CASE UNCHANGED <<ctl, ledger, chats>>
  BY <1>1, WavesAlone
<1>2. CASE \/ \E target \in Targets, mode \in scene.modes : ControllerStart(target, mode)
           \/ ScanFetch \/ ScanFails \/ ScanRaises \/ ScanPersist \/ BridgeEnds
           \/ ControllerKilled \/ JobRaises
  <2> DEFINE aside == {"idle", "fetch", "persist", "checkpoint"}
  <2>1. CASE \E target \in Targets, mode \in scene.modes : ControllerStart(target, mode)
    <3>1. UNCHANGED <<ledger, chats>> /\ (UNCHANGED ctl \/ ctl'.pc = "fetch")
      BY <1>0, <2>1 DEF ControllerStart, Fields
    <3> QED
      BY <1>1, <3>1 DEF WavesOK
  <2>2. CASE ScanFetch \/ ScanFails \/ ScanRaises \/ ScanPersist
    <3>1. ctl'.pc \in aside
      BY <1>0, <2>2 DEF ScanFetch, ScanFails, ScanRaises, ScanPersist, Fields
    <3> QED
      BY <3>1 DEF WavesOK
  <2>3. CASE BridgeEnds \/ ControllerKilled \/ JobRaises
    <3>1. ctl'.pc \in aside
      BY <2>3 DEF BridgeEnds, ControllerKilled, JobRaises, Raise, Idle
    <3> QED
      BY <3>1 DEF WavesOK
  <2> QED
    BY <1>2, <2>1, <2>2, <2>3
<1>3. CASE CheckpointWrite
  <2>1. CASE ctl' = Idle
    <3>1. ctl'.pc = "idle"
      BY <2>1 DEF Idle
    <3> QED
      BY <3>1 DEF WavesOK
  <2>2. CASE ctl' = [ctl EXCEPT !.pc = "wave", !.wave = 1]
    <3>1. ctl'.pc = "wave" /\ ctl'.wave = 1
      BY <1>0, <2>2 DEF Fields
    <3> QED
      BY <3>1 DEF WavesOK
  <2> QED
    BY <1>3, <2>1, <2>2 DEF CheckpointWrite, Raise
<1>4. CASE WaveBuild
  <2>1. ctl.pc = "wave" /\ UNCHANGED chats
    BY <1>4 DEF WaveBuild
  <2>2. CASE /\ PendingAudits = {} \/ ctl.wave > Waves
             /\ ctl' = [ctl EXCEPT !.pc = "bridge"] /\ UNCHANGED ledger
    <3>1. /\ ctl'.pc = "bridge" /\ ctl'.wave = ctl.wave /\ ctl'.mode = ctl.mode
          /\ ctl'.failed = ctl.failed
      BY <1>0, <2>2 DEF Fields
    <3>2. Routine => PendingAudits = {}
      BY <1>0, <2>1, <2>2 DEF WavesOK
    <3>3. PendingAudits' = PendingAudits
      BY <2>2 DEF PendingAudits
    <3> QED
      BY <2>1, <3>1, <3>2, <3>3 DEF WavesOK, Routine
  <2>4. CASE ctl' = Idle
    <3>1. ctl'.pc = "idle"
      BY <2>4 DEF Idle
    <3> QED
      BY <3>1 DEF WavesOK
  <2>3. CASE /\ ledger' = SetStatus(PendingAudits, "READY_FOR_AI_AUDIT")
             /\ ctl' = [ctl EXCEPT !.pc = "task", !.todo = PendingAudits]
    <3>1. /\ ctl'.pc = "task" /\ ctl'.wave = ctl.wave /\ ctl'.mode = ctl.mode
          /\ ctl'.failed = ctl.failed /\ ctl'.todo = PendingAudits
      BY <1>0, <2>3 DEF Fields
    <3>2. PendingAudits' = {}
      BY <2>3 DEF PendingAudits, SetStatus
    <3>3. ctl'.pc \notin {"wave", "job", "bridge"}
      BY <3>1
    <3> QED
      BY <2>1, <3>1, <3>2, <3>3 DEF WavesOK, Routine, ScopeAuditsOnly
  <2> QED
    BY <1>4, <2>2, <2>3, <2>4 DEF WaveBuild, Raise
<1>5. CASE \E k \in DOMAIN ledger : JobStart(k)
  <2>1. PICK k \in DOMAIN ledger : JobStart(k)
    BY <1>5
  <2>2. /\ ctl.pc = "task" /\ k \in ctl.todo /\ UNCHANGED chats
        /\ ctl' = [ctl EXCEPT !.pc = "job", !.key = k, !.todo = @ \ {k}]
        /\ ledger' = SetStatus({k}, "IN_PROGRESS")
    BY <2>1 DEF JobStart
  <2>3. /\ ctl'.pc = "job" /\ ctl'.wave = ctl.wave /\ ctl'.mode = ctl.mode
        /\ ctl'.failed = ctl.failed /\ ctl'.todo = ctl.todo \ {k} /\ ctl'.key = k
    BY <1>0, <2>2 DEF Fields
  <2>4. PendingAudits' \subseteq PendingAudits
    BY <2>2 DEF PendingAudits, SetStatus
  <2> QED
    BY <2>2, <2>3, <2>4 DEF WavesOK, Routine, ScopeAuditsOnly
<1>6. CASE JobFails \/ ChatMark
  <2>1. ctl.pc = "mark" => chats # Empty
    BY DEF Shapes, Turns, Built, Empty
  <2>3. CASE JobFails
    <3>1. /\ ctl.pc = "job"
          /\ ctl' = [ctl EXCEPT !.pc = "task", !.key = <<>>, !.failed = TRUE]
      BY <2>3 DEF JobFails
    <3>2. /\ ctl'.pc = "task" /\ ctl'.wave = ctl.wave /\ ctl'.failed
      BY <1>0, <3>1 DEF Fields
    <3>3. ctl.wave \in Nat \ {0}
      BY <3>1 DEF WavesOK
    <3> QED
      BY <3>2, <3>3 DEF WavesOK, Routine
  <2>4. CASE ChatMark
    <3>1. /\ ctl.pc = "mark" /\ UNCHANGED chats
          /\ ctl' = [ctl EXCEPT !.pc = "task", !.key = <<>>]
      BY <2>4 DEF ChatMark
    <3>2. /\ ctl'.pc = "task" /\ ctl'.wave = ctl.wave /\ chats' # Empty
      BY <1>0, <2>1, <3>1 DEF Fields
    <3>3. ctl.wave \in Nat \ {0}
      BY <3>1 DEF WavesOK
    <3> QED
      BY <3>2, <3>3 DEF WavesOK, Routine
  <2> QED
    BY <1>6, <2>3, <2>4
<1>7. CASE WaveEnds
  <2>1. /\ ctl.pc = "task" /\ ctl.todo = {} /\ UNCHANGED <<ledger, chats>>
        /\ ctl' = IF ctl.failed \/ ctl.mode = "INTERACTIVE_CHAT"
                  THEN [ctl EXCEPT !.pc = "bridge"]
                  ELSE [ctl EXCEPT !.pc = "wave", !.wave = @ + 1]
    BY <1>7 DEF WaveEnds
  <2>2. PendingAudits' = PendingAudits /\ ctl.wave \in Nat \ {0}
    BY <2>1 DEF PendingAudits, WavesOK
  <2>3. CASE ctl.failed \/ ctl.mode = "INTERACTIVE_CHAT"
    <3>1. /\ ctl'.pc = "bridge" /\ ctl'.wave = ctl.wave /\ ctl'.mode = ctl.mode
          /\ ctl'.failed = ctl.failed
      BY <1>0, <2>1, <2>3 DEF Fields
    <3> QED
      BY <2>2, <2>3, <3>1 DEF WavesOK, Routine
  <2>4. CASE ~(ctl.failed \/ ctl.mode = "INTERACTIVE_CHAT")
    <3>1. /\ ctl'.pc = "wave" /\ ctl'.wave = ctl.wave + 1 /\ ctl'.mode = ctl.mode
          /\ ctl'.failed = ctl.failed
      BY <1>0, <2>1, <2>4 DEF Fields
    <3>2. Routine' => /\ ScopeAuditsOnly(PendingAudits)
                      /\ ctl.wave >= 2 => PendingAudits = {}
      BY <2>1, <3>1 DEF WavesOK, Routine
    <3> QED
      BY <2>2, <3>1, <3>2 DEF WavesOK, ScopeAuditsOnly
  <2> QED
    BY <2>3, <2>4
<1>8. CASE \E k \in DOMAIN ledger : ChatCreate(k)
  <2>1. PICK k : ChatCreate(k)
    BY <1>8
  <2>2. /\ ctl.pc = "task" /\ k \in ctl.todo
        /\ DOMAIN ctl' = Fields /\ ctl'.pc \in {"task", "mark"} /\ ctl'.wave = ctl.wave
    BY <1>0, <2>1 DEF ChatCreate, Fields
  <2>3. k \in DOMAIN chats'
    BY <2>1 DEF ChatCreate, With
  <2>4. chats' # Empty
    BY <2>3 DEF Empty
  <2> QED
    BY <2>2, <2>4 DEF WavesOK, Routine
<1>9. CASE JobPasses
  <2>0. PICK k : k = ctl.key
    OBVIOUS
  <2>1. ctl.pc = "job" /\ Apply(k) /\ UNCHANGED chats
        /\ ctl' = [ctl EXCEPT !.pc = "task", !.key = <<>>]
    BY <1>9, <2>0 DEF JobPasses
  <2>2. /\ ctl'.pc = "task" /\ ctl'.wave = ctl.wave /\ ctl'.mode = ctl.mode
        /\ ctl'.failed = ctl.failed /\ ctl'.todo = ctl.todo
    BY <1>0, <2>1 DEF Fields
  <2>3. Answers(k)
    <3>1. /\ Built(k) /\ k \in DOMAIN ledger /\ IsAudit(k)
          /\ k \notin ctl.todo /\ k \notin DOMAIN chats
          /\ tasks[k] = "SCOPE_IMPACT" => OfScope(k)
      BY <2>0, <2>1 DEF Shapes, Turns, Built
    <3>2. k \in DOMAIN ledger' /\ ledger'[k] # "PENDING"
      BY <2>1, <3>1, AnswerAsks DEF Shapes
    <3> QED
      BY <2>0, <2>1, <2>2, <3>1, <3>2 DEF Answers, Open
  <2>4. /\ \A x \in PendingAudits' : x \in PendingAudits \/ ScopeAudit(x)
        /\ ScopeAudit(k) => PendingAudits' \subseteq PendingAudits
    BY <2>3, AnswerAudits
  <2>5. Routine' => Routine
    BY <2>1, <2>2 DEF Routine
  <2>6. Routine => /\ ScopeAuditsOnly(PendingAudits)
                   /\ ctl.wave >= 2 => /\ ScopeAuditsOnly(ctl.todo) /\ PendingAudits = {}
                                       /\ ScopeAudit(k)
    BY <2>0, <2>1 DEF WavesOK
  <2>7. Routine => /\ ScopeAuditsOnly(PendingAudits)'
                   /\ ctl.wave >= 2 => ScopeAuditsOnly(ctl.todo) /\ PendingAudits' = {}
    BY <2>4, <2>6 DEF ScopeAuditsOnly
  <2>8. ctl.wave \in Nat \ {0}
    BY <2>1 DEF WavesOK
  <2> QED
    BY <2>2, <2>5, <2>7, <2>8 DEF WavesOK, ScopeAuditsOnly
<1>10. CASE \E k \in DOMAIN chats : ChatSubmit(k) \/ ChatCloses(k) \/ ChatKilled(k)
  <2>1. PICK k \in DOMAIN chats : UNCHANGED ctl /\ DOMAIN chats' = DOMAIN chats
    BY <1>10 DEF ChatSubmit, ChatCloses, ChatKilled
  <2>2. chats' # Empty
    BY <2>1 DEF Empty
  <2> QED
    BY <2>1, <2>2 DEF WavesOK, Routine
<1>11. CASE \/ Tick
            \/ \E d \in scene.docs : List(d)
            \/ \E p \in Paths : EconMoves(p)
            \/ Feed
            \/ \E ev \in DOMAIN view : Acknowledge(ev)
            \/ UNCHANGED vars
  <2>1. UNCHANGED <<ctl, ledger, chats>>
    BY <1>11 DEF Tick, List, EconMoves, Feed, Acknowledge
  <2> QED
    BY <1>1, <2>1
<1> QED
  BY <1>2, <1>3, <1>4, <1>5, <1>6, <1>7, <1>8, <1>9, <1>10, <1>11
  DEF Next, ControllerStep, ChatStep

\* With two waves at least (the controller's default is three): however its days and audits
\* turned out, in every instance (incremental_information_controller.py:182-258).
THEOREM NoneLeft ==
    ASSUME Waves >= 2
    PROVE  Spec => []NoAuditLeft
<1>1. Init => Shapes /\ WavesOK
  BY InitShapes DEF Init, Idle, WavesOK
<1>2. Shapes /\ WavesOK /\ [Next]_vars => (Shapes /\ WavesOK)'
  BY ShapesNext, WavesNext
<1>3. WavesOK => NoAuditLeft
  BY DEF WavesOK, Routine, NoAuditLeft
<1> QED
  BY <1>1, <1>2, <1>3, PTL DEF Spec
=============================================================================
