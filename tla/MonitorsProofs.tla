----------------------------- MODULE MonitorsProofs -----------------------------
(***************************************************************************)
(* Theorems about the radar and the LOF monitor, for any items, funds,      *)
(* edits, runs and days.                                                    *)
(*                                                                          *)
(* RadarInv ties the run under way to what is stored: what it was given     *)
(* and found is of its source (ProcFits), so that a save replaces no row of *)
(* the other source; what was kept is among the findings and what is        *)
(* analysed was judged (FoundFit); the row of a source has its tokens       *)
(* (Spent), and Jisilu's row perhaps more; and outside the steps from the   *)
(* save to the archive the file is the view (Archived).                     *)
(*                                                                          *)
(* LabelInv follows a session into the snapshots made of it.  TellInv says  *)
(* of an observation under way that a change of a row it went through is    *)
(* written or about to be.  ChainInv adds, as long as no kill fell between  *)
(* the lines and the checkpoint, that the last line of a fund ends where    *)
(* its next change starts, and that a reading that has a line changes       *)
(* nothing more, so that no line is taken for one that is there already.    *)
(***************************************************************************)
EXTENDS Radar, LofMonitor, SequenceTheorems, TLAPS

-----------------------------------------------------------------------------
(* The radar.                                                               *)

RunModes == {"LIVE", "BACKFILL"}
Steps  == {"idle", "collect", "broad", "gate", "save", "mark", "capsule", "archive"}
Saved  == {"mark", "capsule", "archive"}
RunRow == [status : {"FAILED", "OK"}, mode : Modes, used : Nat]

\* A finding is about an item of the source it is filed under.
Filed(f) == /\ f \in [id : {f.id}, item : {f.item}, title : {f.title}, src : Sources]
            /\ f.src = SourceOf(f.id[1])

ProcFits ==
    /\ proc \in [pc : Steps, src : Sources, both : BOOLEAN, mode : RunModes, cands : {proc.cands},
                 broad : {proc.broad}, new : {proc.new}, failed : BOOLEAN, used : Nat]
    /\ proc.pc # "idle" => proc.mode \in Modes
    /\ proc.pc = "idle" => proc.src = "jisilu"
    /\ \A v \in proc.cands : v = <<v[1], v[2]>> /\ SourceOf(v[1]) = proc.src
    /\ \A f \in proc.broad \cup proc.new : Filed(f) /\ f.id \in proc.cands
    /\ proc.failed \/ proc.pc \in {"idle", "collect", "broad", "gate"} => proc.new = {}
    /\ proc.pc = "collect" => proc.broad = {}
    /\ proc.pc = "mark" => proc.cands \subseteq hist.judged
    /\ proc.pc \in Saved => runs[proc.src] # Missing

HistFits ==
    hist \in [count : {hist.count}, judged : {hist.judged}, kept : {hist.kept},
              spent : [Sources -> Nat], cut : BOOLEAN, raised : {hist.raised}]

RunsFit == runs \in [Sources -> RunRow \cup {Missing}]

FoundFit ==
    /\ \A f \in findings : Filed(f)
    /\ \A v \in hist.kept : \E f \in findings : f.id = v
    /\ analyzed \subseteq hist.judged

\* The row n of a source holds the tokens t spent for it.
Holds(s, n, t) == n >= t /\ (s = "xueqiu" => n = t)

Spent == \A s \in Sources : IF runs[s] = Missing THEN hist.spent[s] = 0
                            ELSE Holds(s, runs[s].used, hist.spent[s])

Archived == proc.pc \notin Saved /\ ~hist.cut /\ archive # Missing => archive = View

RadarInv == ProcFits /\ HistFits /\ RunsFit /\ FoundFit /\ Spent /\ Archived

\* Before the first run nothing is stored.
LEMMA RadarStarts == RadarInit => RadarInv
<1> SUFFICES ASSUME RadarInit PROVE RadarInv
  OBVIOUS
<1>1. proc = [pc |-> "idle", src |-> "jisilu", both |-> FALSE, mode |-> "LIVE", cands |-> {}, broad |-> {},
              new |-> {}, failed |-> FALSE, used |-> 0]
  BY DEF RadarInit, Idle
<1>2. hist = [count |-> 0, judged |-> {}, kept |-> {}, spent |-> [s \in Sources |-> 0],
              cut |-> FALSE, raised |-> FALSE]
  BY DEF RadarInit
<1>3. ProcFits
  BY <1>1 DEF ProcFits, Steps, Sources, RunModes, Saved
<1>4. HistFits
  BY <1>2 DEF HistFits
<1>5. runs = [s \in Sources |-> Missing] /\ findings = {} /\ analyzed = {} /\ archive = Missing
  BY DEF RadarInit
<1>6. RunsFit /\ FoundFit /\ Spent /\ Archived
  BY <1>1, <1>2, <1>5 DEF RunsFit, FoundFit, Spent, Archived, Sources
<1> QED
  BY <1>3, <1>4, <1>6 DEF RadarInv

\* Steps that leave what is stored alone, and go on, or end the run.
LEMMA RunGoesOn ==
    ASSUME RadarInv, UNCHANGED <<analyzed, runs, findings, archive>>,
           UNCHANGED <<hist.judged, hist.kept, hist.spent>>,
           proc.pc \in Saved /\ proc'.pc \notin Saved => hist'.cut,
           hist.cut => hist'.cut,
           HistFits', ProcFits'
    PROVE  RadarInv'
  BY DEF RadarInv, RunsFit, FoundFit, Spent, Archived, View

\* The record of no run, spelled out.
LEMMA IdleIs ==
    Idle = [pc |-> "idle", src |-> "jisilu", both |-> FALSE, mode |-> "LIVE", cands |-> {}, broad |-> {},
            new |-> {}, failed |-> FALSE, used |-> 0]
  BY DEF Idle

\* A run starts with one of the lanes.
LEMMA StartKeeps ==
    ASSUME RadarInv, NEW mode \in Modes, NEW src \in Sources, NEW both \in BOOLEAN,
           Start(mode, src, both)
    PROVE  RadarInv'
<1>1. /\ proc.pc = "idle" /\ UNCHANGED <<analyzed, runs, findings, archive>>
      /\ proc' = [Idle EXCEPT !.pc = "collect", !.mode = mode, !.src = src, !.both = both]
      /\ hist' = [hist EXCEPT !.count = @ + 1]
  BY DEF Start, db
<1>2. /\ HistFits' /\ hist'.cut = hist.cut
      /\ UNCHANGED <<hist.judged, hist.kept, hist.spent>>
  BY <1>1 DEF RadarInv, HistFits
<1>3. proc' = [pc |-> "collect", src |-> src, both |-> both, mode |-> mode, cands |-> {},
               broad |-> {}, new |-> {}, failed |-> FALSE, used |-> 0]
  BY <1>1, IdleIs
<1>4. mode \in RunModes
  BY RadarConstants DEF RunModes
<1>5. ProcFits'
  BY <1>3, <1>4 DEF ProcFits, Steps, Sources, Saved
<1>6. proc.pc \notin Saved
  BY <1>1 DEF Saved
<1> QED
  BY <1>1, <1>2, <1>5, <1>6, RunGoesOn

\* The record of a run with other values in it.
ProcIs(pc, cands, broad, new, failed, used) ==
    /\ proc' \in [pc : Steps, src : Sources, both : BOOLEAN, mode : RunModes, cands : {cands}, broad : {broad},
                  new : {new}, failed : BOOLEAN, used : Nat]
    /\ proc'.pc = pc /\ proc'.src = proc.src /\ proc'.mode = proc.mode
    /\ proc'.failed = failed /\ proc'.used = used

\* A source gives versions of its own items.
LEMMA VersionsFit ==
    ASSUME NEW src \in Sources, NEW v \in Readable(src)
    PROVE  v = <<v[1], v[2]>> /\ SourceOf(v[1]) = src
<1>1. CASE src = "jisilu"
  BY <1>1 DEF Readable, JisiluVersions, SourceOf
<1>2. CASE src = "xueqiu"
  BY <1>2, RadarConstants DEF Readable, XueqiuVersions, SourceOf
<1> QED
  BY <1>1, <1>2 DEF Sources

\* What is collected is of the source that is read.
LEMMA CollectKeeps == ASSUME RadarInv, Collect \/ CollectFails PROVE RadarInv'
<1>1. /\ proc.pc = "collect" /\ UNCHANGED <<analyzed, runs, findings, archive, hist>>
      /\ proc.src \in Sources /\ ProcFits
  BY DEF Collect, CollectFails, db, RadarInv, ProcFits
<1>2. CASE Collect
  <2>1. PICK vs \in SUBSET Readable(proc.src) :
          proc' = [proc EXCEPT !.cands = Increment(vs),
                               !.pc = IF Increment(vs) = {} THEN "save" ELSE "broad"]
    BY <1>2 DEF Collect
  <2>2. \A v \in Increment(vs) : v = <<v[1], v[2]>> /\ SourceOf(v[1]) = proc.src
    BY <1>1, VersionsFit DEF Increment
  <2>3. ProcIs(IF Increment(vs) = {} THEN "save" ELSE "broad", Increment(vs), proc.broad,
               proc.new, proc.failed, proc.used)
    BY <1>1, <2>1 DEF ProcFits, Steps, ProcIs
  <2>4. proc.broad = {} /\ proc.new = {}
    BY <1>1 DEF ProcFits
  <2>5. ProcFits' /\ proc'.pc \notin Saved /\ proc'.src = proc.src
    BY <1>1, <2>2, <2>3, <2>4 DEF ProcFits, ProcIs, Steps, Saved
  <2> QED
    BY <1>1, <2>5, RunGoesOn DEF RadarInv, Saved, HistFits
<1>3. CASE CollectFails
  <2>1. proc' = [proc EXCEPT !.failed = TRUE, !.pc = "save"]
    BY <1>3 DEF CollectFails
  <2>2. ProcFits' /\ proc'.pc \notin Saved /\ proc'.src = proc.src
    BY <1>1, <2>1 DEF ProcFits, Steps, Saved
  <2> QED
    BY <1>1, <2>2, RunGoesOn DEF RadarInv, Saved, HistFits
<1> QED
  BY <1>2, <1>3

\* A finding is about a version the AI was given, and filed under its source.
LEMMA FoundFits ==
    ASSUME ProcFits, NEW found \in Found, NEW f \in found
    PROVE  Filed(f) /\ f.id \in proc.cands
<1>1. PICK vs \in SUBSET proc.cands : \E title \in [vs -> Titles] :
         found = {Finding(v[1], v[2], title[v]) : v \in vs}
  BY DEF Found
<1>2. PICK title \in [vs -> Titles], v \in vs : f = Finding(v[1], v[2], title[v])
  BY <1>1
<1>3. v \in proc.cands /\ v = <<v[1], v[2]>> /\ SourceOf(v[1]) = proc.src /\ proc.src \in Sources
  BY <1>1 DEF ProcFits
<1>4. f = [id |-> v, item |-> v[1], title |-> title[v], src |-> SourceOf(v[1])]
  BY <1>2, <1>3 DEF Finding
<1>5. f.id = v /\ f \in [id : {f.id}, item : {f.item}, title : {f.title}, src : Sources]
      /\ f.src = SourceOf(f.id[1])
  BY <1>3, <1>4
<1> QED
  BY <1>3, <1>5 DEF Filed

\* The two passes of the AI change the run alone.
LEMMA JudgeKeeps == ASSUME RadarInv, Broad \/ Gate PROVE RadarInv'
<1>1. /\ UNCHANGED <<analyzed, runs, findings, archive, hist>> /\ ProcFits
  BY DEF Broad, Gate, db, RadarInv
<1>2. CASE Broad
  <2>1. PICK a \in Answers, broad \in Found :
          proc' = [proc EXCEPT !.broad = broad, !.failed = a.failed, !.used = @ + a.requests,
                               !.pc = IF a.failed \/ broad = {} THEN "save" ELSE "gate"]
    BY <1>2 DEF Broad
  <2>2. proc.pc = "broad" /\ a.failed \in BOOLEAN /\ a.requests \in Nat
    <3>1. proc.pc = "broad"
      BY <1>2 DEF Broad
    <3>2. a.failed \in BOOLEAN /\ a.requests \in 1..2
      BY DEF Answers
    <3> QED
      BY <3>1, <3>2
  <2>3. \A f \in broad : Filed(f) /\ f.id \in proc.cands
    BY <1>1, FoundFits
  <2>4. ProcIs(IF a.failed \/ broad = {} THEN "save" ELSE "gate", proc.cands, broad,
               proc.new, a.failed, proc.used + a.requests)
    <3>1. proc \in [pc : Steps, src : Sources, both : BOOLEAN, mode : RunModes, cands : {proc.cands},
                    broad : {proc.broad}, new : {proc.new}, failed : BOOLEAN, used : Nat]
      BY <1>1 DEF ProcFits
    <3>2. proc.used + a.requests \in Nat
      BY <2>2, <3>1
    <3>3. {"save", "gate"} \subseteq Steps
      BY DEF Steps
    <3> QED
      BY <2>1, <2>2, <3>1, <3>2, <3>3 DEF ProcIs
  <2>5. proc.new = {}
    BY <1>1, <2>2 DEF ProcFits
  <2>6. ProcFits' /\ proc'.pc \notin Saved /\ proc'.src = proc.src
    BY <1>1, <2>2, <2>3, <2>4, <2>5 DEF ProcFits, ProcIs, Steps, Saved
  <2> QED
    BY <1>1, <2>2, <2>6, RunGoesOn DEF RadarInv, Saved, HistFits
<1>3. CASE Gate
  <2>1. PICK failed \in BOOLEAN, kept \in SUBSET proc.broad :
          proc' = [proc EXCEPT !.new = IF failed THEN {} ELSE kept, !.failed = failed,
                               !.used = @ + 1, !.pc = "save"]
    BY <1>3 DEF Gate
  <2>2. proc.pc = "gate"
    BY <1>3 DEF Gate
  <2>3. ProcIs("save", proc.cands, proc.broad, IF failed THEN {} ELSE kept, failed,
               proc.used + 1)
    <3>1. proc \in [pc : Steps, src : Sources, both : BOOLEAN, mode : RunModes, cands : {proc.cands},
                    broad : {proc.broad}, new : {proc.new}, failed : BOOLEAN, used : Nat]
      BY <1>1 DEF ProcFits
    <3>2. proc.used + 1 \in Nat
      BY <3>1
    <3>3. "save" \in Steps
      BY DEF Steps
    <3> QED
      BY <2>1, <3>1, <3>2, <3>3 DEF ProcIs
  <2>4. ProcFits' /\ proc'.pc \notin Saved /\ proc'.src = proc.src
    BY <1>1, <2>2, <2>3 DEF ProcFits, ProcIs, Steps, Saved
  <2> QED
    BY <1>1, <2>2, <2>4, RunGoesOn DEF RadarInv, Saved, HistFits
<1> QED
  BY <1>2, <1>3

\* What a run that does not clash saves is filed under its source, and is found by the
\* ids of what it was and of what is new.
LEMMA RowsFiled ==
    ASSUME RadarInv, ~Clash
    PROVE  /\ \A f \in RowsToSave : Filed(f) /\ f.src = proc.src
           /\ {[f EXCEPT !.src = proc.src] : f \in RowsToSave} = RowsToSave
<1>1. /\ \A f \in findings : Filed(f)
      /\ \A f \in proc.new : Filed(f) /\ f.src = proc.src
      /\ proc.src \in Sources
  BY DEF RadarInv, FoundFit, ProcFits, Filed
<1>2. \A f \in RowsToSave : f \in findings \/ f \in proc.new
  BY DEF RowsToSave, MergeLive, Existing
<1>3. \A f \in RowsToSave : f \notin Others
  BY DEF Clash
<1>4. \A f \in RowsToSave : Filed(f) /\ f.src = proc.src
  BY <1>1, <1>2, <1>3 DEF Others
<1>5. \A f \in RowsToSave : [f EXCEPT !.src = proc.src] = f
  <2> SUFFICES ASSUME NEW f \in RowsToSave PROVE [f EXCEPT !.src = proc.src] = f
    OBVIOUS
  <2>1. /\ f \in [id : {f.id}, item : {f.item}, title : {f.title}, src : Sources]
        /\ f.src = proc.src
    BY <1>4 DEF Filed
  <2> QED
    BY <2>1
<1> QED
  BY <1>4, <1>5

\* What the date keeps of its source: all but what a LIVE run replaces by its own.
LEMMA RowsKept ==
    ASSUME RadarInv
    PROVE  /\ proc.mode = "LIVE" => \A f \in findings :
                  f.src = proc.src => \E g \in RowsToSave : g.id = f.id
           /\ \A f \in proc.new : f \in RowsToSave
<1>1. /\ proc.mode \in RunModes /\ proc.src \in Sources
      /\ proc.failed => proc.new = {}
  BY DEF RadarInv, ProcFits
<1>2. \A f \in findings : f.src = proc.src => f \in Existing(proc.src)
  BY DEF Existing
<1>3. CASE proc.mode = "BACKFILL"
  BY <1>3 DEF RowsToSave
<1>4. CASE proc.mode = "LIVE" /\ proc.failed
  BY <1>1, <1>2, <1>4 DEF RowsToSave
<1>5. CASE proc.mode = "LIVE" /\ ~proc.failed
  <2>1. RowsToSave = MergeLive(Existing(proc.src), proc.new)
    BY <1>5 DEF RowsToSave
  <2>2. ASSUME NEW f \in findings, f.src = proc.src
        PROVE  \E g \in RowsToSave : g.id = f.id
    <3>1. CASE \A g \in proc.new : MergeKey(f) # MergeKey(g)
      BY <1>2, <2>1, <2>2, <3>1 DEF MergeLive
    <3>2. CASE \E g \in proc.new : MergeKey(f) = MergeKey(g)
      BY <2>1, <3>2 DEF MergeLive, MergeKey
    <3> QED
      BY <3>1, <3>2
  <2>3. \A f \in proc.new : f \in RowsToSave
    BY <2>1 DEF MergeLive
  <2> QED
    BY <2>2, <2>3
<1> QED
  BY <1>1, <1>3, <1>4, <1>5 DEF RunModes

\* The save replaces the rows of one source, adds the tokens of the run to its own, and
\* has judged what it will mark.
LEMMA SaveKeeps == ASSUME RadarInv, Save PROVE RadarInv'
<1> DEFINE src == proc.src
           live == proc.mode = "LIVE"
           row == [status |-> IF proc.failed THEN "FAILED" ELSE "OK", mode |-> proc.mode,
                   used |-> UsageToSave]
           new == {f.id : f \in proc.new}
           mine == {v \in hist.kept : SourceOf(v[1]) = src}
<1>1. /\ proc.pc = "save" /\ ~Clash
      /\ runs' = [runs EXCEPT ![src] = row]
      /\ findings' = Others \cup {[f EXCEPT !.src = src] : f \in RowsToSave}
      /\ proc' = [proc EXCEPT !.pc = IF live /\ ~proc.failed THEN "mark" ELSE "archive"]
      /\ hist' = [hist EXCEPT
            !.judged = IF live /\ ~proc.failed THEN @ \cup proc.cands ELSE @,
            !.kept = IF live THEN @ \cup new ELSE (@ \ mine) \cup new,
            !.spent[src] = IF live THEN @ + proc.used ELSE proc.used]
      /\ UNCHANGED <<analyzed, archive>>
  BY DEF Save
<1>2. /\ proc \in [pc : Steps, src : Sources, both : BOOLEAN, mode : RunModes, cands : {proc.cands},
                   broad : {proc.broad}, new : {proc.new}, failed : BOOLEAN, used : Nat]
      /\ proc.mode \in Modes /\ src \in Sources /\ proc.used \in Nat
  BY <1>1 DEF RadarInv, ProcFits
<1>3. hist \in [count : {hist.count}, judged : {hist.judged}, kept : {hist.kept},
                spent : [Sources -> Nat], cut : BOOLEAN, raised : {hist.raised}]
  BY DEF RadarInv, HistFits
<1>4. findings' = Others \cup RowsToSave
  BY <1>1, RowsFiled
<1>5. runs \in [Sources -> RunRow \cup {Missing}]
  BY DEF RadarInv, RunsFit
<1> DEFINE tokens == IF live THEN hist.spent[src] + proc.used ELSE proc.used
<1>6. /\ ExistingRun(src) \in RunRow \cup {Missing}
      /\ runs[src] # Missing \/ src = "xueqiu" => ExistingRun(src) = runs[src]
  BY <1>2, <1>5 DEF ExistingRun, Sources
<1>7. /\ UsageToSave \in Nat /\ tokens \in Nat
      /\ Holds(src, UsageToSave, tokens)
  <2>1. IF runs[src] = Missing THEN hist.spent[src] = 0
        ELSE Holds(src, runs[src].used, hist.spent[src])
    BY <1>2 DEF RadarInv, Spent
  <2>2. hist.spent[src] \in Nat
    BY <1>2, <1>3
  <2>3. ExistingRun(src) # Missing => ExistingRun(src).used \in Nat
    BY <1>6 DEF RunRow
  <2>4. CASE live /\ runs[src] # Missing
    BY <1>2, <1>6, <2>1, <2>2, <2>3, <2>4 DEF UsageToSave, Holds
  <2>5. CASE live /\ runs[src] = Missing
    BY <1>2, <1>6, <2>1, <2>2, <2>3, <2>5 DEF UsageToSave, Holds
  <2>6. CASE ~live
    BY <1>2, <2>6 DEF UsageToSave, Holds
  <2> QED
    BY <2>4, <2>5, <2>6
<1>8. row \in RunRow /\ row # Missing /\ row.used = UsageToSave
  BY <1>2, <1>7, RadarConstants DEF RunRow
<1>9. /\ hist'.judged = IF live /\ ~proc.failed THEN hist.judged \cup proc.cands ELSE hist.judged
      /\ hist'.kept = IF live THEN hist.kept \cup new ELSE (hist.kept \ mine) \cup new
      /\ hist'.spent = [hist.spent EXCEPT ![src] = tokens]
      /\ hist'.cut = hist.cut /\ HistFits'
  <2> HIDE DEF new, mine
  <2>1. hist'.spent = [hist.spent EXCEPT ![src] = tokens]
    BY <1>1, <1>2, <1>3
  <2>2. hist'.spent \in [Sources -> Nat]
    BY <1>3, <1>7, <2>1
  <2> QED
    BY <1>1, <1>3, <2>1, <2>2 DEF HistFits
<1> HIDE DEF row, tokens
<1>10. runs' \in [Sources -> RunRow \cup {Missing}] /\ runs'[src] = row
       /\ \A s \in Sources \ {src} : runs'[s] = runs[s]
  BY <1>1, <1>2, <1>5, <1>8
<1>11. /\ proc'.pc = IF live /\ ~proc.failed THEN "mark" ELSE "archive"
       /\ proc'.src = src /\ proc'.mode = proc.mode /\ proc'.cands = proc.cands
       /\ proc'.broad = proc.broad /\ proc'.new = proc.new /\ proc'.failed = proc.failed
       /\ proc' \in [pc : Steps, src : Sources, both : BOOLEAN, mode : RunModes, cands : {proc.cands},
                     broad : {proc.broad}, new : {proc.new}, failed : BOOLEAN, used : Nat]
  BY <1>1, <1>2 DEF Steps
<1>12. ProcFits'
  BY <1>1, <1>2, <1>8, <1>9, <1>10, <1>11 DEF RadarInv, ProcFits, Saved
<1>13. RunsFit'
  BY <1>10 DEF RunsFit
<1>14. FoundFit'
  <2>1. \A f \in findings' : Filed(f)
    BY <1>1, <1>4, RowsFiled DEF RadarInv, FoundFit, Others
  <2>2. analyzed' \subseteq hist'.judged
    BY <1>1, <1>9 DEF RadarInv, FoundFit
  <2>3. ASSUME NEW v \in hist'.kept PROVE \E f \in findings' : f.id = v
    <3>1. CASE v \in new
      BY <1>4, <3>1, RowsKept
    <3>2. CASE v \notin new
      <4>1. v \in hist.kept
        BY <1>9, <2>3, <3>2
      <4>2. PICK f \in findings : f.id = v
        BY <4>1 DEF RadarInv, FoundFit
      <4>3. f.src = SourceOf(f.id[1])
        BY DEF RadarInv, FoundFit, Filed
      <4>4. CASE f.src # src
        BY <1>4, <4>2, <4>4 DEF Others
      <4>5. CASE f.src = src /\ live
        BY <1>4, <4>2, <4>5, RowsKept
      <4>6. CASE f.src = src /\ ~live
        <5>1. v \in mine
          BY <4>1, <4>2, <4>3, <4>6
        <5> QED
          BY <1>9, <2>3, <3>2, <4>6, <5>1
      <4> QED
        BY <4>4, <4>5, <4>6
    <3> QED
      BY <3>1, <3>2
  <2> QED
    BY <2>1, <2>2, <2>3 DEF FoundFit
<1>15. Spent'
  BY <1>2, <1>3, <1>7, <1>8, <1>9, <1>10 DEF RadarInv, Spent
<1>16. Archived'
  BY <1>11 DEF Archived, Saved
<1> QED
  BY <1>9, <1>12, <1>13, <1>14, <1>15, <1>16 DEF RadarInv

\* A save that is rolled back leaves everything as it was.
LEMMA SaveRaisesKeeps == ASSUME RadarInv, SaveRaises PROVE RadarInv'
<1>1. /\ proc.pc = "save" /\ UNCHANGED <<analyzed, runs, findings, archive>> /\ proc' = Idle
      /\ hist' = [hist EXCEPT !.raised = TRUE]
  BY DEF SaveRaises, db
<1>2. /\ HistFits' /\ hist'.cut = hist.cut
      /\ UNCHANGED <<hist.judged, hist.kept, hist.spent>>
  BY <1>1 DEF RadarInv, HistFits
<1>3. ProcFits' /\ proc.pc \notin Saved
  BY <1>1, IdleIs DEF ProcFits, Steps, RunModes, Sources, Saved
<1> QED
  BY <1>1, <1>2, <1>3, RunGoesOn

\* What is marked was judged by the save before.
LEMMA MarkKeeps == ASSUME RadarInv, Mark PROVE RadarInv'
<1>1. /\ proc.pc = "mark" /\ UNCHANGED <<runs, findings, archive, hist>>
      /\ analyzed' = analyzed \cup proc.cands /\ proc' = [proc EXCEPT !.pc = "capsule"]
  BY DEF Mark
<1>2. analyzed' \subseteq hist.judged
  BY <1>1 DEF RadarInv, ProcFits, FoundFit
<1>3. ProcFits' /\ proc'.pc = "capsule" /\ proc'.src = proc.src
  BY <1>1 DEF RadarInv, ProcFits, Steps, Saved
<1>4. HistFits' /\ RunsFit' /\ FoundFit' /\ Spent' /\ Archived'
  BY <1>1, <1>2, <1>3 DEF RadarInv, HistFits, RunsFit, FoundFit, Spent, Archived, Saved
<1> QED
  BY <1>3, <1>4 DEF RadarInv

\* Capsules are no part of the view.
LEMMA CapsulesKeep == ASSUME RadarInv, Capsules PROVE RadarInv'
<1>1. /\ proc.pc = "capsule" /\ UNCHANGED <<analyzed, runs, findings, archive, hist>>
      /\ proc' = [proc EXCEPT !.pc = "archive"]
  BY DEF Capsules
<1>2. ProcFits' /\ proc'.pc \in Saved /\ proc'.src = proc.src
  BY <1>1 DEF RadarInv, ProcFits, Steps, Saved
<1> QED
  BY <1>1, <1>2, RunGoesOn DEF RadarInv, HistFits

\* The archive becomes the view; the next lane begins, or the run is over.
LEMMA ArchiveKeeps == ASSUME RadarInv, Archive PROVE RadarInv'
<1>1. /\ proc.pc = "archive" /\ UNCHANGED <<analyzed, runs, findings>>
      /\ archive' = View /\ proc' = NextLane /\ hist' = [hist EXCEPT !.cut = FALSE]
  BY DEF Archive, db
<1>2. /\ HistFits' /\ UNCHANGED <<hist.judged, hist.kept, hist.spent>>
  BY <1>1 DEF RadarInv, HistFits
<1>4. /\ proc.mode \in Modes /\ proc.mode \in RunModes /\ ProcFits
  BY <1>1 DEF RadarInv, ProcFits
<1>5. ProcFits' /\ proc'.pc \notin Saved
  <2>1. CASE proc.both /\ proc.src = "jisilu"
    <3>1. proc' = [pc |-> "collect", src |-> "xueqiu", both |-> TRUE, mode |-> proc.mode,
                   cands |-> {}, broad |-> {}, new |-> {}, failed |-> FALSE, used |-> 0]
      BY <1>1, <2>1, IdleIs DEF NextLane
    <3> QED
      BY <1>4, <3>1 DEF ProcFits, Steps, Sources, Saved
  <2>2. CASE ~(proc.both /\ proc.src = "jisilu")
    <3>1. proc' = Idle
      BY <1>1, <2>2 DEF NextLane
    <3> QED
      BY <3>1, IdleIs DEF ProcFits, Steps, RunModes, Sources, Saved
  <2> QED
    BY <2>1, <2>2
<1>6. RunsFit' /\ FoundFit' /\ Spent' /\ Archived'
  BY <1>1, <1>2 DEF RadarInv, RunsFit, FoundFit, Spent, Archived, View
<1> QED
  BY <1>2, <1>5, <1>6 DEF RadarInv

\* A run killed after its save is the only one that leaves the archive behind.
LEMMA KilledKeeps == ASSUME RadarInv, Killed PROVE RadarInv'
<1>1. /\ UNCHANGED <<analyzed, runs, findings, archive>> /\ proc' = Idle
      /\ hist' = [hist EXCEPT !.cut = @ \/ proc.pc \in {"mark", "capsule", "archive"}]
  BY DEF Killed, db
<1> DEFINE killed == hist.cut \/ proc.pc \in Saved
<1>2. killed \in BOOLEAN /\ hist' = [hist EXCEPT !.cut = killed]
  BY <1>1 DEF RadarInv, HistFits, Saved
<1>3. (hist.cut => killed) /\ (proc.pc \in Saved => killed)
  OBVIOUS
<1> HIDE DEF killed
<1>4. /\ HistFits' /\ hist'.cut = killed
      /\ UNCHANGED <<hist.judged, hist.kept, hist.spent>>
  BY <1>2 DEF RadarInv, HistFits
<1>5. ProcFits'
  BY <1>1, IdleIs DEF ProcFits, Steps, RunModes, Sources, Saved
<1> QED
  BY <1>1, <1>3, <1>4, <1>5, RunGoesOn

\* What authors post and the timer accumulates is not stored in the database.
LEMMA SitesKeep ==
    ASSUME RadarInv, UNCHANGED <<analyzed, runs, findings, archive, proc, hist>>
    PROVE  RadarInv'
  BY DEF RadarInv, ProcFits, HistFits, RunsFit, FoundFit, Spent, Archived, View

\* The invariant of the radar.
LEMMA RadarHolds == RadarSpec => []RadarInv
<1>1. ASSUME RadarInv, [RadarNext]_radarVars PROVE RadarInv'
  <2>1. CASE UNCHANGED radarVars
    BY <1>1, <2>1, SitesKeep DEF radarVars, db
  <2>2. CASE (\E i \in Items : Post(i)) \/ Accumulate
    BY <1>1, <2>2, SitesKeep DEF Post, Accumulate, db
  <2>3. CASE \E mode \in Modes, src \in Sources, both \in BOOLEAN : Start(mode, src, both)
    BY <1>1, <2>3, StartKeeps
  <2>4. CASE Collect \/ CollectFails
    BY <1>1, <2>4, CollectKeeps
  <2>5. CASE Broad \/ Gate
    BY <1>1, <2>5, JudgeKeeps
  <2>6. CASE Save
    BY <1>1, <2>6, SaveKeeps
  <2>7. CASE SaveRaises
    BY <1>1, <2>7, SaveRaisesKeeps
  <2>8. CASE Mark
    BY <1>1, <2>8, MarkKeeps
  <2>9. CASE Capsules
    BY <1>1, <2>9, CapsulesKeep
  <2>10. CASE Archive
    BY <1>1, <2>10, ArchiveKeeps
  <2>11. CASE Killed
    BY <1>1, <2>11, KilledKeeps
  <2> QED
    BY <1>1, <2>1, <2>2, <2>3, <2>4, <2>5, <2>6, <2>7, <2>8, <2>9, <2>10, <2>11 DEF RadarNext
<1> QED
  BY RadarStarts, <1>1, PTL DEF RadarSpec

\* However runs of a date follow each other, fail and are killed: a version marked as
\* analysed was judged by a run that did not fail, and what that run kept of it is still
\* among the findings (daily.py:389-412, increments.py:171-201).
THEOREM NodesStay == RadarSpec => []NoNodeLost
<1>1. RadarInv => NoNodeLost
  BY DEF RadarInv, FoundFit, NoNodeLost
<1> QED
  BY <1>1, RadarHolds, PTL

\* In whatever order the lanes and the whole run come, fail and are killed, no tokens of a
\* saved LIVE run fall out of the row of its source, and Xueqiu's row holds no others
\* (daily.py:203-224, 391-399, xueqiu_daily.py:99-102).
THEOREM UsageKept == RadarSpec => []NoUsageLost
<1>1. RadarInv => NoUsageLost
  BY DEF RadarInv, Spent, Holds, NoUsageLost
<1> QED
  BY <1>1, RadarHolds, PTL

\* Between two runs the archive file says what the database says, unless a run was killed
\* after its save (storage.py:674-705).
THEOREM ArchiveAgrees == RadarSpec => []ArchiveIsCurrent
<1>1. RadarInv => ArchiveIsCurrent
  BY DEF RadarInv, Archived, ArchiveIsCurrent, Saved
<1> QED
  BY <1>1, RadarHolds, PTL

-----------------------------------------------------------------------------
(* The LOF monitor.                                                         *)

\* In market hours a session refreshed every SessionEvery cycles, where that takes no
\* longer than the day is old, is of the day.
SessionRefreshed ==
    /\ "build" \notin Faults
    /\ \A w \in Window : SessionEvery <= w + 1

SnapTrue(snap) ==
    snap # NoValue /\ InWindow(snap.time) =>
        snap.label = LagLabel(snap.nav, Day(snap.time), Day(snap.time))

LoopIs(l) == [pc : {l.pc}, session : {l.session}, nav : {l.nav}, states : {l.states},
              at : {l.at}, sessionAt : {l.sessionAt}, navAt : {l.navAt},
              stateAt : {l.stateAt}, snap : {l.snap}, todo : {l.todo}, lines : {l.lines}]

LoopFits ==
    /\ now \in Nat
    /\ loop \in LoopIs(loop) /\ loop.sessionAt \in Nat
    /\ loop.session = Day(loop.sessionAt) /\ loop.sessionAt <= now
    /\ loop.pc = "collect" => now = loop.sessionAt \/ now - loop.sessionAt < SessionEvery

LabelInv ==
    /\ LoopFits
    /\ loop.pc \in {"archive", "latest"} => SnapTrue(loop.snap)
    /\ command # NoValue => /\ command \in [pc : {command.pc}, snap : {command.snap}]
                            /\ SnapTrue(command.snap)
    /\ SnapTrue(latest)

\* A time no further back than the day is old is of the same day.
LEMMA SameDay ==
    ASSUME NEW t \in Nat, NEW s \in Nat, s <= t, t - s <= t % DayLength
    PROVE  Day(s) = Day(t)
<1> DEFINE q == t \div DayLength
           D == DayLength
           p == s \div DayLength
<1>1. D \in Nat /\ D > 0
  BY LofConstants
<1>2. q \in Nat /\ t = q * D + (t % D) /\ (t % D) \in Nat /\ (t % D) < D
  BY <1>1
<1>3. p \in Nat /\ p * D <= s /\ s < p * D + D
  BY <1>1
<1> HIDE DEF q, p, D
<1>4. q * D <= s /\ s < q * D + D /\ q * D \in Nat /\ p * D \in Nat
  BY <1>1, <1>2, <1>3 DEF D
<1>5. ~(p < q)
  <2> SUFFICES ASSUME p + 1 <= q PROVE FALSE
    BY <1>2, <1>3
  <2>1. (p + 1) * D <= q * D
    BY <1>1, <1>2, <1>3
  <2>2. (p + 1) * D = p * D + D
    BY <1>1, <1>3
  <2> QED
    BY <1>1, <1>3, <1>4, <2>1, <2>2
<1>6. ~(q < p)
  <2> SUFFICES ASSUME q + 1 <= p PROVE FALSE
    BY <1>2, <1>3
  <2>1. (q + 1) * D <= p * D
    BY <1>1, <1>2, <1>3
  <2>2. (q + 1) * D = q * D + D
    BY <1>1, <1>2
  <2> QED
    BY <1>1, <1>3, <1>4, <2>1, <2>2
<1>7. p = q
  BY <1>2, <1>3, <1>5, <1>6
<1> QED
  BY <1>7 DEF p, q, Day

\* The record of a loop that is down, spelled out.
LEMMA DownIs ==
    Down = [pc |-> "down", session |-> 0, nav |-> NoValue, states |-> [f \in Funds |-> Unread],
            at |-> 0, sessionAt |-> 0, navAt |-> 0, stateAt |-> 0, snap |-> NoValue,
            todo |-> {}, lines |-> <<>>]
  BY DEF Down

\* Before the first session there is no snapshot.
LEMMA LoopStarts == LofInit => LabelInv
<1> SUFFICES ASSUME LofInit PROVE LabelInv
  OBVIOUS
<1>1. now = 0 /\ loop = Down /\ command = NoValue /\ latest = NoValue
  BY DEF LofInit
<1>2. Day(0) = 0
  BY LofConstants DEF Day
<1>3. LoopFits
  BY <1>1, <1>2 DEF LoopFits, LoopIs, Down
<1>4. loop.pc = "down"
  BY <1>1 DEF Down
<1> QED
  BY <1>1, <1>3, <1>4 DEF LabelInv, SnapTrue

\* A snapshot of a session of the day says how old its value is.
LEMMA SnapshotTells ==
    ASSUME NEW t, NEW by, NEW session, NEW nav, NEW states, NEW at, NEW quote,
           InWindow(t) => session = Day(t)
    PROVE  SnapTrue(Snapshot(t, by, session, nav, states, at, quote))
  BY DEF SnapTrue, Snapshot

\* What is collected in market hours is collected with a session of the day.
LEMMA SessionIsOfToday ==
    ASSUME SessionRefreshed, LoopFits, loop.pc = "collect", InWindow(now)
    PROVE  loop.session = Day(now)
<1>1. now \in Nat /\ loop.sessionAt \in Nat /\ loop.sessionAt <= now
  BY DEF LoopFits, LoopIs
<1>2. SessionEvery \in Nat /\ now % DayLength \in Window /\ Window \subseteq Nat
  BY LofConstants DEF InWindow
<1>3. PICK w \in Nat : w = now % DayLength /\ SessionEvery <= w + 1
  BY <1>2 DEF SessionRefreshed
<1>4. now - loop.sessionAt <= w
  BY <1>1, <1>2, <1>3 DEF LoopFits, LoopIs
<1>5. Day(loop.sessionAt) = Day(now)
  BY <1>1, <1>3, <1>4, SameDay
<1> QED
  BY <1>5 DEF LoopFits, LoopIs

\* Steps of the loop that keep its session, or have a new one, and make no snapshot.
LEMMA LoopGoesOn ==
    ASSUME LabelInv, UNCHANGED <<command, latest>>, LoopFits',
           loop'.pc \in {"archive", "latest"} => SnapTrue(loop'.snap)
    PROVE  LabelInv'
  BY DEF LabelInv, SnapTrue, InWindow, Day

\* A session is built, kept, or made a snapshot of.
LEMMA LoopKeeps ==
    ASSUME SessionRefreshed, LabelInv,
           StartLoop \/ RefreshSession \/ RefreshLanes \/ CollectSnapshot
    PROVE  LabelInv'
<1>1. /\ UNCHANGED <<now, command, latest>> /\ LoopFits
  BY DEF StartLoop, RefreshSession, RefreshLanes, CollectSnapshot, files, LabelInv
<1>2. CASE StartLoop
  <2>1. PICK nav \in NavReadings(now), states \in StateReadings :
          loop' = [Down EXCEPT !.pc = "refresh", !.session = Day(now), !.nav = nav,
                               !.states = states, !.at = now, !.sessionAt = now,
                               !.navAt = now, !.stateAt = now]
    BY <1>2 DEF StartLoop
  <2>2. /\ loop'.pc = "refresh" /\ loop'.session = Day(now) /\ loop'.sessionAt = now
        /\ loop' \in LoopIs(loop') /\ now \in Nat
    BY <1>1, <2>1, DownIs DEF LoopFits, LoopIs
  <2>3. LoopFits'
    BY <1>1, <2>2 DEF LoopFits, LoopIs, Day
  <2> QED
    BY <1>1, <2>2, <2>3, LoopGoesOn
<1>3. CASE RefreshSession
  <2>1. PICK nav \in NavReadings(now), states \in StateReadings :
          loop' = [loop EXCEPT !.pc = "collect", !.session = Day(now), !.nav = nav,
                               !.states = states, !.at = now, !.sessionAt = now,
                               !.navAt = now, !.stateAt = now]
    BY <1>3 DEF RefreshSession
  <2>2. /\ loop'.pc = "collect" /\ loop'.session = Day(now) /\ loop'.sessionAt = now
        /\ loop' \in LoopIs(loop') /\ now \in Nat
    BY <1>1, <2>1 DEF LoopFits, LoopIs
  <2>3. LoopFits'
    BY <1>1, <2>2 DEF LoopFits, LoopIs, Day
  <2> QED
    BY <1>1, <2>2, <2>3, LoopGoesOn
<1>4. CASE RefreshLanes
  <2>1. PICK nav \in NavReadings(now), states \in StateReadings :
          loop' = [loop EXCEPT
                    !.pc = "collect",
                    !.nav = IF Due(loop.navAt, NavEvery) THEN nav ELSE @,
                    !.navAt = IF Due(@, NavEvery) THEN now ELSE @,
                    !.states = IF Due(loop.stateAt, StateEvery) THEN states ELSE @,
                    !.at = IF Due(loop.stateAt, StateEvery) THEN now ELSE @,
                    !.stateAt = IF Due(@, StateEvery) THEN now ELSE @]
    BY <1>4 DEF RefreshLanes
  <2>2. /\ loop'.pc = "collect" /\ loop'.session = loop.session
        /\ loop'.sessionAt = loop.sessionAt
        /\ loop' \in LoopIs(loop')
    BY <1>1, <2>1 DEF LoopFits, LoopIs
  <2>3. now - loop.sessionAt < SessionEvery
    <3>1. ~Due(loop.sessionAt, SessionEvery)
      BY <1>4 DEF RefreshLanes, SessionRefreshed
    <3> QED
      BY <1>1, <3>1, LofConstants DEF Due, LoopFits, LoopIs
  <2>4. LoopFits'
    BY <1>1, <2>2, <2>3 DEF LoopFits, LoopIs, Day
  <2> QED
    BY <1>1, <2>2, <2>4, LoopGoesOn
<1>5. CASE CollectSnapshot
  <2>1. PICK quote : loop' = [loop EXCEPT !.pc = "archive",
                    !.snap = Snapshot(now, "loop", loop.session, loop.nav, loop.states,
                                      loop.at, quote)]
    BY <1>5 DEF CollectSnapshot
  <2>2. InWindow(now) => loop.session = Day(now)
    BY <1>1, <1>5, SessionIsOfToday DEF CollectSnapshot
  <2>3. PICK snap : snap = Snapshot(now, "loop", loop.session, loop.nav, loop.states,
                                    loop.at, quote)
    OBVIOUS
  <2>4. SnapTrue(snap)
    BY <2>2, <2>3, SnapshotTells
  <2>5. loop' = [loop EXCEPT !.pc = "archive", !.snap = snap]
    BY <2>1, <2>3
  <2>6. LoopFits' /\ loop'.pc = "archive" /\ loop'.snap = snap
    BY <1>1, <2>5 DEF LoopFits, LoopIs, Day
  <2> QED
    BY <1>1, <2>4, <2>6, LoopGoesOn
<1> QED
  BY <1>2, <1>3, <1>4, <1>5

\* Steps of the loop on a snapshot it has.
LEMMA SnapshotKept ==
    ASSUME LabelInv, Persist \/ SnapshotFails \/ ObserveStart \/ NextRow \/ AppendEvent
                     \/ CheckpointPersist \/ CandidatePersist \/ ObserveRaises
    PROVE  LabelInv'
<1>1. LoopFits /\ UNCHANGED <<now, command>>
  BY DEF Persist, SnapshotFails, ObserveStart, NextRow, AppendEvent, CheckpointPersist,
         CandidatePersist, ObserveRaises, files, LabelInv
<1>2. CASE Persist
  <2>1. loop.pc \in {"archive", "latest"} /\ SnapTrue(loop.snap) /\ SnapTrue(latest)
    BY <1>2 DEF Persist, LabelInv
  <2>2. loop' = [loop EXCEPT !.pc = IF @ = "archive" THEN "latest" ELSE "observe"]
    BY <1>2 DEF Persist
  <2>3. LoopFits' /\ loop'.snap = loop.snap
    BY <1>1, <2>1, <2>2 DEF LoopFits, LoopIs, Day
  <2>4. latest' = latest \/ latest' = loop.snap
    BY <1>2 DEF Persist
  <2>5. SnapTrue(latest')
    BY <2>1, <2>4
  <2>6. command' # NoValue => /\ command' \in [pc : {command'.pc}, snap : {command'.snap}]
                              /\ SnapTrue(command'.snap)
    BY <1>1 DEF LabelInv
  <2>7. SnapTrue(loop'.snap)
    BY <2>1, <2>3
  <2> QED
    BY <2>3, <2>5, <2>6, <2>7 DEF LabelInv, SnapTrue, InWindow, Day
<1>3. CASE SnapshotFails \/ ObserveStart \/ NextRow \/ AppendEvent \/ CheckpointPersist
           \/ CandidatePersist \/ ObserveRaises
  <2>1. /\ latest' = latest /\ loop'.pc \notin {"collect", "archive", "latest"}
        /\ loop'.session = loop.session /\ loop'.sessionAt = loop.sessionAt
        /\ loop' \in LoopIs(loop')
    <3>1. CASE SnapshotFails
      BY <1>1, <3>1 DEF SnapshotFails, LoopFits, LoopIs, files
    <3>2. CASE ObserveStart
      BY <1>1, <3>2 DEF ObserveStart, LoopFits, LoopIs, files
    <3>3. CASE AppendEvent
      <4>1. PICK rest : loop' = [loop EXCEPT !.lines = rest] /\ loop.pc = "append"
        BY <3>3 DEF AppendEvent
      <4> QED
        BY <1>1, <3>3, <4>1 DEF AppendEvent, LoopFits, LoopIs, files
    <3>4. CASE CheckpointPersist
      BY <1>1, <3>4 DEF CheckpointPersist, LoopFits, LoopIs, files
    <3>5. CASE CandidatePersist
      BY <1>1, <3>5 DEF CandidatePersist, LoopFits, LoopIs, files
    <3>6. CASE NextRow
      <4>1. PICK f : loop' = [loop EXCEPT !.todo = @ \ {f}, !.lines = EventsOf(f, loop.snap)]
        BY <3>6 DEF NextRow
      <4>2. PICK todo, lines : loop' = [loop EXCEPT !.todo = todo, !.lines = lines]
        BY <4>1
      <4> QED
        BY <1>1, <3>6, <4>2 DEF NextRow, LoopFits, LoopIs, files
    <3>7. CASE ObserveRaises
      BY <1>1, <3>7 DEF ObserveRaises, LoopFits, LoopIs, files
    <3> QED
      BY <1>3, <3>1, <3>2, <3>3, <3>4, <3>5, <3>6, <3>7
  <2>2. LoopFits'
    BY <1>1, <2>1 DEF LoopFits, LoopIs, Day
  <2> QED
    BY <1>1, <2>1, <2>2, LoopGoesOn
<1> QED
  BY <1>2, <1>3

\* The loop sleeps, or ends and comes back.
LEMMA LoopWakes ==
    ASSUME LabelInv, Sleep \/ Stop \/ LoopKilled \/ KilledWriting PROVE LabelInv'
<1>1. /\ LoopFits /\ UNCHANGED <<command, latest>> /\ now' = now + 1 /\ now' \in Nat
  BY DEF Sleep, Stop, LoopKilled, KilledWriting, files, LabelInv, LoopFits, LoopIs
<1>2. CASE Sleep
  <2>1. LoopFits' /\ loop'.pc = "refresh"
    BY <1>1, <1>2 DEF Sleep, LoopFits, LoopIs, Day
  <2> QED
    BY <1>1, <2>1, LoopGoesOn
<1>3. CASE Stop \/ LoopKilled \/ KilledWriting
  <2>1. loop' = Down
    BY <1>3 DEF Stop, LoopKilled, KilledWriting
  <2>2. Day(0) = 0
    BY LofConstants DEF Day
  <2>3. LoopFits' /\ loop'.pc = "down"
    BY <1>1, <2>1, <2>2 DEF LoopFits, LoopIs, Down, Day
  <2> QED
    BY <1>1, <2>3, LoopGoesOn
<1> QED
  BY <1>2, <1>3

\* The snapshot command builds a session of its own.
LEMMA CommandKeeps ==
    ASSUME LabelInv, JobCollect \/ JobPersist PROVE LabelInv'
<1>1. LoopFits' /\ UNCHANGED <<now, loop>>
  BY DEF JobCollect, JobPersist, LabelInv, LoopFits, LoopIs, Day
<1>2. CASE JobCollect
  <2>1. latest' = latest
    BY <1>2 DEF JobCollect, files
  <2>2. PICK nav, states : command' =
          [pc |-> "archive",
           snap |-> Snapshot(now, "job", Day(now), nav, states, now, "STALE")]
    BY <1>2 DEF JobCollect
  <2>3. PICK snap : snap = Snapshot(now, "job", Day(now), nav, states, now, "STALE")
    OBVIOUS
  <2>4. SnapTrue(snap)
    BY <2>3, SnapshotTells
  <2>5. command' = [pc |-> "archive", snap |-> snap]
    BY <2>2, <2>3
  <2> QED
    BY <1>1, <2>1, <2>4, <2>5 DEF LabelInv, SnapTrue, InWindow, Day
<1>3. CASE JobPersist
  <2>1. command # NoValue /\ command \in [pc : {command.pc}, snap : {command.snap}]
        /\ SnapTrue(command.snap) /\ SnapTrue(latest)
    BY <1>3 DEF JobPersist, LabelInv
  <2>2. latest' = latest \/ latest' = command.snap
    BY <1>3 DEF JobPersist
  <2>3. command' = NoValue \/ command' = [command EXCEPT !.pc = "latest"]
    BY <1>3 DEF JobPersist
  <2>4. SnapTrue(latest')
    BY <2>1, <2>2
  <2>5. command' # NoValue => /\ command' \in [pc : {command'.pc}, snap : {command'.snap}]
                              /\ SnapTrue(command'.snap)
    BY <2>1, <2>3
  <2> QED
    BY <1>1, <2>4, <2>5 DEF LabelInv, SnapTrue, InWindow, Day
<1> QED
  BY <1>2, <1>3

\* Where a failed refresh does not keep the session of the day before, and the session
\* is refreshed between midnight and market hours, the label of the last snapshot says in
\* market hours how many trading days old its value is (snapshot.py:28-51).
THEOREM LabelsTrue == ASSUME SessionRefreshed PROVE LofSpec => []LabelIsTrue
<1>1. ASSUME LabelInv, [LofNext]_lofVars PROVE LabelInv'
  <2>1. CASE UNCHANGED lofVars \/ (\E f \in Funds : Company(f)) \/ BuildDaily(Day(now))
    BY <1>1, <2>1 DEF lofVars, files, Company, BuildDaily, LabelInv, LoopFits, LoopIs,
       SnapTrue, InWindow, Day
  <2>2. CASE StartLoop \/ RefreshSession \/ RefreshLanes \/ CollectSnapshot
    BY <1>1, <2>2, LoopKeeps
  <2>3. CASE Persist \/ SnapshotFails \/ ObserveStart \/ NextRow \/ AppendEvent
             \/ CheckpointPersist \/ CandidatePersist \/ ObserveRaises
    BY <1>1, <2>3, SnapshotKept
  <2>4. CASE Sleep \/ Stop \/ LoopKilled \/ KilledWriting
    BY <1>1, <2>4, LoopWakes
  <2>5. CASE JobCollect \/ JobPersist
    BY <1>1, <2>5, CommandKeeps
  <2> QED
    BY <1>1, <2>1, <2>2, <2>3, <2>4, <2>5 DEF LofNext, LoopStep
<1>2. LabelInv => LabelIsTrue
  BY DEF LabelInv, LabelIsTrue, SnapTrue
<1> QED
  BY LoopStarts, <1>1, <1>2, PTL DEF LofSpec

-----------------------------------------------------------------------------
(* Its events.  A change is written before the checkpoint notes it, and     *)
(* starts from where the one before it ended.                               *)

ValueOf(kind, s) == IF kind = "A" THEN s.status ELSE s.limit
Tells(kind, row) == IF kind = "A" THEN Reliable(row.status) ELSE LimitKnown(row)

\* What snapshot snap changes of a fund, against what was noted.
Moved(kind, f, noted, snap) ==
    /\ Tells(kind, snap.rows[f])
    /\ ValueOf(kind, noted[f]) # NoValue
    /\ ValueOf(kind, noted[f]) # ValueOf(kind, snap.rows[f])
Change(kind, f, noted, snap) ==
    Event(kind, f, ValueOf(kind, noted[f]), ValueOf(kind, snap.rows[f]), snap.at)

Values == {"OPEN", "SUSPENDED"} \cup Limits
Lines  == [kind : {"A", "B"}, fund : Funds, old : Values, new : Values, at : Nat]
          \cup {Torn, Glued}
Note   == [status : {"OPEN", "SUSPENDED", NoValue}, limit : Limits \cup {NoValue}]
Rows   == [status : {"OPEN", "SUSPENDED", "UNKNOWN"}, limit : Limits \cup {NoValue}]

\* Some, in this order, of the changes of one fund.
Some(lines, f, noted, snap) ==
    \/ /\ Moved("A", f, noted, snap) /\ Moved("B", f, noted, snap)
       /\ lines = <<Change("A", f, noted, snap), Change("B", f, noted, snap)>>
    \/ \E kind \in {"A", "B"} :
          Moved(kind, f, noted, snap) /\ lines = <<Change(kind, f, noted, snap)>>

WithSnap == {"archive", "latest", "observe", "append", "candidate"}

SnapFits ==
    /\ now \in Nat /\ now <= MaxTime
    /\ loop \in LoopIs(loop) /\ loop.at \in Nat /\ loop.at <= now
    /\ loop.states \in [Funds -> States \cup {Unread}]
    /\ loop.pc \in WithSnap =>
          /\ loop.snap.time = now /\ loop.snap.at = loop.at
          /\ \A f \in Funds : loop.snap.rows[f] = RowState(loop.states[f])
    /\ loop.todo \subseteq Funds
    /\ loop.lines # <<>> => loop.pc = "append"

BookFits == checkpoint \in [Funds -> Note] /\ log \in [LogDays -> Seq(Lines)]

LinesFit ==
    loop.lines # <<>> =>
        \E f \in Funds \ loop.todo : Some(loop.lines, f, checkpoint, loop.snap)

\* A change of a row that was gone through is written or about to be.
Told ==
    loop.pc = "append" => \A f \in Funds, kind \in {"A", "B"} :
        Moved(kind, f, checkpoint, loop.snap) =>
            LET e == Change(kind, f, checkpoint, loop.snap)
            IN  \/ f \in loop.todo \/ e \in ToSet(loop.lines)
                \/ e \in Known(log[Day(now)]) \/ Glued \in ToSet(log[Day(now)])

\* A row shows a status and a limit, or what could not be read.
LEMMA RowsAre ==
    ASSUME NEW s \in States \cup {Unread} PROVE RowState(s) \in Rows
<1>1. CASE s = Unread
  BY <1>1 DEF Unread, RowState, Rows
<1>2. CASE s \in States
  BY <1>2 DEF States, RowState, Rows
<1> QED
  BY <1>1, <1>2

\* What a change says.
LEMMA ChangesAre ==
    ASSUME NEW noted \in [Funds -> Note], NEW snap, NEW f \in Funds, snap.rows[f] \in Rows,
           snap.at \in Nat, NEW kind \in {"A", "B"}
    PROVE  LET e == Change(kind, f, noted, snap)
           IN  /\ e.kind = kind /\ e.fund = f /\ e.at = snap.at
               /\ e.old = ValueOf(kind, noted[f]) /\ e.new = ValueOf(kind, snap.rows[f])
               /\ e # Torn /\ e # Glued
               /\ Moved(kind, f, noted, snap) => e \in Lines
<1> DEFINE e == Change(kind, f, noted, snap)
           old == ValueOf(kind, noted[f])
           new == ValueOf(kind, snap.rows[f])
<1>1. e = [kind |-> kind, fund |-> f, old |-> old, new |-> new, at |-> snap.at]
  BY DEF Change, Event
<1>2. e.kind # Torn.kind /\ e.kind # Glued.kind
  BY <1>1 DEF Torn, Glued
<1>3. ASSUME Moved(kind, f, noted, snap) PROVE old \in Values /\ new \in Values
  <2>1. noted[f] \in Note
    OBVIOUS
  <2>2. CASE kind = "A"
    BY <1>3, <2>1, <2>2 DEF Moved, Tells, Reliable, ValueOf, Note, Values
  <2>3. CASE kind = "B"
    BY <1>3, <2>1, <2>3 DEF Moved, Tells, LimitKnown, ValueOf, Note, Rows, Values
  <2> QED
    BY <2>2, <2>3
<1> HIDE DEF old, new
<1> QED
  BY <1>1, <1>2, <1>3 DEF Lines, old, new

\* What is to be written of a row is what it changes, the status before the limit.
LEMMA EventsAre ==
    ASSUME BookFits, NEW f \in Funds, NEW snap, snap = loop.snap, snap.rows[f] \in Rows
    PROVE  /\ EventsOf(f, snap) # <<>> => Some(EventsOf(f, snap), f, checkpoint, snap)
           /\ \A kind \in {"A", "B"} : Moved(kind, f, checkpoint, snap) =>
                 Change(kind, f, checkpoint, snap) \in ToSet(EventsOf(f, snap))
<1> DEFINE a == Change("A", f, checkpoint, snap)
           b == Change("B", f, checkpoint, snap)
           as == StatusEvents(f, checkpoint[f], snap.rows[f], snap.at)
           bs == LimitEvents(f, checkpoint[f], snap.rows[f], snap.at)
<1>1. checkpoint[f] \in Note
  BY DEF BookFits
<1>2. as = IF Moved("A", f, checkpoint, snap) THEN <<a>> ELSE <<>>
  <2>1. Reliable(checkpoint[f].status) <=> checkpoint[f].status # NoValue
    BY <1>1, LofConstants DEF Note, Reliable
  <2> QED
    BY <2>1 DEF StatusEvents, Moved, Tells, ValueOf, Change
<1>3. bs = IF Moved("B", f, checkpoint, snap) THEN <<b>> ELSE <<>>
  BY DEF LimitEvents, Moved, Tells, ValueOf, Change
<1>4. EventsOf(f, snap) = as \o bs
  BY DEF EventsOf
<1> HIDE DEF a, b, as, bs
<1>5. /\ <<a>> \o <<b>> = <<a, b>> /\ <<a>> \o <<>> = <<a>>
      /\ <<>> \o <<b>> = <<b>> /\ <<>> \o <<>> = <<>>
  <2>1. <<a>> \in Seq({a, b}) /\ <<b>> \in Seq({a, b}) /\ <<a, b>> \in Seq({a, b})
    OBVIOUS
  <2>2. <<a>> \o <<b>> = <<a, b>>
    <3>1. /\ <<a>> \o <<b>> \in Seq({a, b}) /\ Len(<<a>> \o <<b>>) = 2
          /\ (<<a>> \o <<b>>)[1] = a /\ (<<a>> \o <<b>>)[2] = b
      BY <2>1, ConcatProperties
    <3>2. PICK ab, s : ab = <<a>> \o <<b>> /\ s = <<a, b>>
      OBVIOUS
    <3>3. Len(s) = 2 /\ s[1] = a /\ s[2] = b
      BY <3>2
    <3>4. Len(ab) = 2 /\ ab[1] = a /\ ab[2] = b
      BY <3>1, <3>2, Zenon
    <3>5. \A i \in 1..2 : i = 1 \/ i = 2
      OBVIOUS
    <3>6. \A i \in 1..Len(ab) : ab[i] = s[i]
      BY <3>3, <3>4, <3>5
    <3> QED
      BY <2>1, <3>1, <3>2, <3>3, <3>4, <3>6, SeqEqual
  <2>3. <<a>> \o <<>> = <<a>> /\ <<>> \o <<b>> = <<b>> /\ <<>> \o <<>> = <<>>
    BY <2>1, ConcatEmptySeq
  <2> QED
    BY <2>2, <2>3
<1>6. a \in ToSet(<<a, b>>) /\ b \in ToSet(<<a, b>>) /\ a \in ToSet(<<a>>) /\ b \in ToSet(<<b>>)
  <2>1. DOMAIN <<a, b>> = {1, 2} /\ <<a, b>>[1] = a /\ <<a, b>>[2] = b
    OBVIOUS
  <2>2. \A x : DOMAIN <<x>> = {1} /\ <<x>>[1] = x
    OBVIOUS
  <2> QED
    BY <2>1, <2>2 DEF ToSet
<1>7. CASE Moved("A", f, checkpoint, snap) /\ Moved("B", f, checkpoint, snap)
  BY <1>2, <1>3, <1>4, <1>5, <1>6, <1>7 DEF Some, a, b
<1>8. CASE Moved("A", f, checkpoint, snap) /\ ~Moved("B", f, checkpoint, snap)
  BY <1>2, <1>3, <1>4, <1>5, <1>6, <1>8 DEF Some, a, b
<1>9. CASE ~Moved("A", f, checkpoint, snap) /\ Moved("B", f, checkpoint, snap)
  BY <1>2, <1>3, <1>4, <1>5, <1>6, <1>9 DEF Some, a, b
<1>10. CASE ~Moved("A", f, checkpoint, snap) /\ ~Moved("B", f, checkpoint, snap)
  BY <1>2, <1>3, <1>4, <1>5, <1>10
<1> QED
  BY <1>7, <1>8, <1>9, <1>10

\* The first of the changes that are left, and the rest.
LEMMA FirstOfSome ==
    ASSUME NEW lines, NEW f, NEW noted, NEW snap, Some(lines, f, noted, snap)
    PROVE  \E kind \in {"A", "B"} :
              /\ Moved(kind, f, noted, snap) /\ Head(lines) = Change(kind, f, noted, snap)
              /\ lines # <<>>
              /\ ToSet(lines) = {Head(lines)} \cup ToSet(Tail(lines))
              /\ \/ Tail(lines) = <<>>
                 \/ /\ kind = "A" /\ Moved("B", f, noted, snap)
                    /\ Tail(lines) = <<Change("B", f, noted, snap)>>
<1>1. ASSUME NEW x PROVE /\ Head(<<x>>) = x /\ Tail(<<x>>) = <<>> /\ <<x>> # <<>>
                         /\ ToSet(<<x>>) = {x}
  BY DEF ToSet
<1>2. ASSUME NEW x, NEW y PROVE /\ Head(<<x, y>>) = x /\ Tail(<<x, y>>) = <<y>>
                                /\ <<x, y>> # <<>> /\ ToSet(<<x, y>>) = {x, y}
  <2>1. Tail(<<x, y>>) = <<y>> /\ Head(<<x, y>>) = x /\ <<x, y>> # <<>>
    OBVIOUS
  <2>2. DOMAIN <<x, y>> = {1, 2} /\ <<x, y>>[1] = x /\ <<x, y>>[2] = y
    OBVIOUS
  <2> QED
    BY <2>1, <2>2 DEF ToSet
<1>3. ToSet(<<>>) = {}
  BY DEF ToSet
<1>4. CASE \E kind \in {"A", "B"} :
             Moved(kind, f, noted, snap) /\ lines = <<Change(kind, f, noted, snap)>>
  BY <1>1, <1>3, <1>4
<1>5. CASE /\ Moved("A", f, noted, snap) /\ Moved("B", f, noted, snap)
           /\ lines = <<Change("A", f, noted, snap), Change("B", f, noted, snap)>>
  BY <1>1, <1>2, <1>5
<1> QED
  BY <1>4, <1>5 DEF Some

\* A line that is written is the last one, unless it is glued to one without an end.
LEMMA LineIs ==
    ASSUME NEW lines \in Seq(Lines), NEW e \in Lines
    PROVE  /\ Line(lines, e) \in Seq(Lines)
           /\ Torn \notin ToSet(lines) => Line(lines, e) = Append(lines, e)
           /\ Known(lines) \subseteq Known(Line(lines, e))
           /\ Glued \in ToSet(lines) => Glued \in ToSet(Line(lines, e))
           /\ e \in ToSet(Line(lines, e)) \/ Glued \in ToSet(Line(lines, e))
<1>1. Torn # Glued
  <2>1. Torn.kind # Glued.kind
    BY DEF Torn, Glued
  <2> QED
    BY <2>1
<1>2. Glued \in Lines /\ Len(lines) \in Nat /\ DOMAIN lines = 1..Len(lines)
  BY DEF Lines
<1>3. CASE lines # <<>> /\ Last(lines) = Torn
  <2>1. lines[Len(lines)] = Torn /\ Len(lines) > 0 /\ Torn \in ToSet(lines)
    <3>1. Len(lines) > 0
      BY <1>2, <1>3
    <3> QED
      BY <1>2, <1>3, <3>1 DEF Last, ToSet
  <2>2. Line(lines, e) = [lines EXCEPT ![Len(lines)] = Glued]
    BY <1>3 DEF Line
  <2>3. /\ Line(lines, e) \in Seq(Lines) /\ DOMAIN Line(lines, e) = DOMAIN lines
        /\ Line(lines, e)[Len(lines)] = Glued
        /\ \A i \in DOMAIN lines : lines[i] # Torn => Line(lines, e)[i] = lines[i]
    BY <1>2, <2>1, <2>2
  <2>4. Glued \in ToSet(Line(lines, e))
    BY <1>2, <2>1, <2>3 DEF ToSet
  <2>5. Known(lines) \subseteq Known(Line(lines, e))
    BY <2>3 DEF Known, ToSet
  <2> QED
    BY <2>1, <2>3, <2>4, <2>5
<1>4. CASE ~(lines # <<>> /\ Last(lines) = Torn)
  <2>1. Line(lines, e) = Append(lines, e)
    BY <1>4 DEF Line
  <2>2. /\ Append(lines, e) \in Seq(Lines) /\ DOMAIN Append(lines, e) = 1..(Len(lines) + 1)
        /\ Append(lines, e)[Len(lines) + 1] = e
        /\ \A i \in DOMAIN lines : Append(lines, e)[i] = lines[i]
    BY <1>2
  <2>3. /\ ToSet(lines) \subseteq ToSet(Append(lines, e)) /\ e \in ToSet(Append(lines, e))
    BY <1>2, <2>2 DEF ToSet
  <2> QED
    BY <2>1, <2>2, <2>3 DEF Known
<1> QED
  BY <1>3, <1>4

\* Days do not run backwards.
LEMMA DaysRunOn ==
    ASSUME NEW t \in Nat, NEW s \in Nat, s <= t
    PROVE  Day(s) \in Nat /\ Day(t) \in Nat /\ Day(s) <= Day(t)
<1> DEFINE q == t \div DayLength
           D == DayLength
           p == s \div DayLength
<1>1. D \in Nat /\ D > 0
  BY LofConstants
<1>2. q \in Nat /\ q * D \in Nat /\ t < q * D + D
  BY <1>1
<1>3. p \in Nat /\ p * D \in Nat /\ p * D <= s
  BY <1>1
<1> HIDE DEF q, p, D
<1>4. ~(q < p)
  <2> SUFFICES ASSUME q + 1 <= p PROVE FALSE
    BY <1>2, <1>3
  <2>1. (q + 1) * D <= p * D
    BY <1>1, <1>2, <1>3
  <2>2. (q + 1) * D = q * D + D
    BY <1>1, <1>2
  <2> QED
    BY <1>1, <1>2, <1>3, <2>1, <2>2
<1>5. p <= q
  BY <1>2, <1>3, <1>4
<1> QED
  BY <1>2, <1>3, <1>5 DEF p, q, Day

\* The day has its file.
LEMMA TodayHasFile ==
    ASSUME SnapFits PROVE Day(now) \in LogDays /\ Day(now) \in Nat
<1>1. now \in Nat /\ MaxTime \in Nat /\ now <= MaxTime
  BY LofConstants DEF SnapFits
<1> QED
  BY <1>1, DaysRunOn DEF LogDays

TellInv == SnapFits /\ BookFits /\ LinesFit /\ Told

\* Before the first observation nothing is to be told.
LEMMA TellStarts == LofInit => TellInv
<1> SUFFICES ASSUME LofInit PROVE TellInv
  OBVIOUS
<1>1. /\ now = 0 /\ loop = Down /\ log = [d \in LogDays |-> <<>>]
      /\ checkpoint = [f \in Funds |-> [status |-> NoValue, limit |-> NoValue]]
  BY DEF LofInit
<1>2. SnapFits
  BY <1>1, DownIs, LofConstants DEF SnapFits, LoopIs, WithSnap
<1>3. BookFits
  BY <1>1 DEF BookFits, Note
<1>4. loop.pc = "down" /\ loop.lines = <<>>
  BY <1>1, DownIs
<1> QED
  BY <1>2, <1>3, <1>4 DEF TellInv, LinesFit, Told

\* Steps that neither write a line nor note what was seen.
LEMMA TellNothing ==
    ASSUME TellInv, UNCHANGED <<checkpoint, log>>, SnapFits',
           loop'.pc # "append", loop'.lines = <<>>
    PROVE  TellInv'
<1>1. BookFits'
  BY DEF TellInv, BookFits
<1>2. LinesFit' /\ Told'
  BY DEF LinesFit, Told
<1> QED
  BY <1>1, <1>2 DEF TellInv

\* Where the loop stands, after a step that makes no snapshot.
LEMMA LoopMoves ==
    ASSUME TellInv, UNCHANGED <<checkpoint, log>>, loop.pc # "append",
           StartLoop \/ RefreshSession \/ RefreshLanes \/ CollectSnapshot \/ SnapshotFails
           \/ Persist \/ CandidatePersist \/ Sleep \/ Stop
    PROVE  TellInv'
<1>1. SnapFits /\ loop.lines = <<>>
  BY DEF TellInv, SnapFits
<1>2. CASE StartLoop
  <2>1. PICK nav \in NavReadings(now), states \in StateReadings :
          loop' = [Down EXCEPT !.pc = "refresh", !.session = Day(now), !.nav = nav,
                               !.states = states, !.at = now, !.sessionAt = now,
                               !.navAt = now, !.stateAt = now]
    BY <1>2 DEF StartLoop
  <2>2. /\ loop' \in LoopIs(loop') /\ loop'.pc = "refresh" /\ loop'.states = states
        /\ loop'.at = now /\ loop'.todo = {} /\ loop'.lines = <<>>
    BY <2>1, DownIs DEF LoopIs
  <2>3. states \in [Funds -> States \cup {Unread}] /\ now' = now
    BY <1>2 DEF StateReadings, StartLoop
  <2>4. SnapFits'
    BY <1>1, <2>2, <2>3 DEF SnapFits, WithSnap
  <2> QED
    BY <2>2, <2>4, TellNothing
<1>3. CASE RefreshSession
  <2>1. PICK nav \in NavReadings(now), states \in StateReadings :
          loop' = [loop EXCEPT !.pc = "collect", !.session = Day(now), !.nav = nav,
                               !.states = states, !.at = now, !.sessionAt = now,
                               !.navAt = now, !.stateAt = now]
    BY <1>3 DEF RefreshSession
  <2>2. /\ loop' \in LoopIs(loop') /\ loop'.pc = "collect" /\ loop'.states = states
        /\ loop'.at = now /\ loop'.todo = loop.todo /\ loop'.lines = <<>>
    BY <1>1, <2>1 DEF SnapFits, LoopIs
  <2>3. states \in [Funds -> States \cup {Unread}] /\ now' = now
    BY <1>3 DEF StateReadings, RefreshSession
  <2>4. SnapFits'
    BY <1>1, <2>2, <2>3 DEF SnapFits, WithSnap
  <2> QED
    BY <2>2, <2>4, TellNothing
<1>4. CASE RefreshLanes
  <2>1. PICK nav \in NavReadings(now), states \in StateReadings :
          loop' = [loop EXCEPT
                    !.pc = "collect",
                    !.nav = IF Due(loop.navAt, NavEvery) THEN nav ELSE @,
                    !.navAt = IF Due(@, NavEvery) THEN now ELSE @,
                    !.states = IF Due(loop.stateAt, StateEvery) THEN states ELSE @,
                    !.at = IF Due(loop.stateAt, StateEvery) THEN now ELSE @,
                    !.stateAt = IF Due(@, StateEvery) THEN now ELSE @]
    BY <1>4 DEF RefreshLanes
  <2>2. /\ loop' \in LoopIs(loop') /\ loop'.pc = "collect"
        /\ loop'.states = states \/ loop'.states = loop.states
        /\ loop'.at = now \/ loop'.at = loop.at
        /\ loop'.todo = loop.todo /\ loop'.lines = <<>>
    BY <1>1, <2>1 DEF SnapFits, LoopIs
  <2>3. states \in [Funds -> States \cup {Unread}] /\ now' = now
    BY <1>4 DEF StateReadings, RefreshLanes
  <2>4. SnapFits'
    BY <1>1, <2>2, <2>3 DEF SnapFits, WithSnap
  <2> QED
    BY <2>2, <2>4, TellNothing
<1>5. CASE CollectSnapshot
  <2>1. PICK quote, snap :
          /\ snap = Snapshot(now, "loop", loop.session, loop.nav, loop.states, loop.at, quote)
          /\ loop' = [loop EXCEPT !.pc = "archive", !.snap = snap]
    BY <1>5 DEF CollectSnapshot
  <2>2. /\ snap.time = now /\ snap.at = loop.at
        /\ snap.rows = [f \in Funds |-> RowState(loop.states[f])]
    BY <2>1 DEF Snapshot
  <2>3. /\ loop' \in LoopIs(loop') /\ loop'.pc = "archive" /\ loop'.states = loop.states
        /\ loop'.at = loop.at /\ loop'.todo = loop.todo /\ loop'.lines = <<>>
        /\ loop'.snap = snap
    BY <1>1, <2>1 DEF SnapFits, LoopIs
  <2>4. SnapFits'
    <3>1. now' = now
      BY <1>5 DEF CollectSnapshot
    <3>2. /\ loop'.snap.time = now' /\ loop'.snap.at = loop'.at
          /\ \A f \in Funds : loop'.snap.rows[f] = RowState(loop'.states[f])
      BY <2>2, <2>3, <3>1
    <3> QED
      BY <1>1, <2>3, <3>1, <3>2 DEF SnapFits
  <2> QED
    BY <2>3, <2>4, TellNothing
<1>6. CASE Persist
  <2>1. /\ loop' \in LoopIs(loop') /\ loop'.states = loop.states /\ loop'.snap = loop.snap
        /\ loop'.at = loop.at /\ loop'.todo = loop.todo /\ loop'.lines = <<>>
        /\ loop'.pc \in {"latest", "observe"} /\ loop.pc \in {"archive", "latest"}
    BY <1>1, <1>6 DEF SnapFits, LoopIs, Persist
  <2>2. SnapFits'
    <3>1. now' = now /\ loop.pc \in WithSnap
      BY <1>6, <2>1 DEF Persist, WithSnap
    <3>2. /\ loop.snap.time = now /\ loop.snap.at = loop.at
          /\ \A f \in Funds : loop.snap.rows[f] = RowState(loop.states[f])
      BY <1>1, <3>1 DEF SnapFits
    <3>3. /\ loop'.snap.time = now' /\ loop'.snap.at = loop'.at
          /\ \A f \in Funds : loop'.snap.rows[f] = RowState(loop'.states[f])
      BY <2>1, <3>1, <3>2
    <3> QED
      BY <1>1, <2>1, <3>1, <3>3 DEF SnapFits
  <2>3. loop'.pc # "append"
    BY <2>1
  <2> QED
    BY <2>1, <2>2, <2>3, TellNothing
<1>7. CASE SnapshotFails \/ CandidatePersist
  <2>1. /\ loop' \in LoopIs(loop') /\ loop'.states = loop.states /\ now' = now
        /\ loop'.at = loop.at /\ loop'.todo = loop.todo /\ loop'.lines = <<>>
        /\ loop'.pc = "sleep"
    BY <1>1, <1>7 DEF SnapFits, LoopIs, SnapshotFails, CandidatePersist
  <2>2. SnapFits'
    BY <1>1, <2>1 DEF SnapFits, WithSnap
  <2> QED
    BY <2>1, <2>2, TellNothing
<1>8. CASE Sleep
  <2>1. /\ loop' \in LoopIs(loop') /\ loop'.states = loop.states /\ now' = now + 1
        /\ loop'.at = loop.at /\ loop'.todo = loop.todo /\ loop'.lines = <<>>
        /\ loop'.pc = "refresh" /\ now < MaxTime
    BY <1>1, <1>8 DEF SnapFits, LoopIs, Sleep
  <2>2. SnapFits'
    BY <1>1, <2>1, LofConstants DEF SnapFits, WithSnap
  <2> QED
    BY <2>1, <2>2, TellNothing
<1>9. CASE Stop
  <2>1. loop' = Down /\ now' = now + 1 /\ now < MaxTime
    BY <1>9 DEF Stop
  <2>2. SnapFits' /\ loop'.pc = "down" /\ loop'.lines = <<>>
    BY <1>1, <2>1, DownIs, LofConstants DEF SnapFits, LoopIs, WithSnap
  <2> QED
    BY <2>2, TellNothing
<1> QED
  BY <1>2, <1>3, <1>4, <1>5, <1>6, <1>7, <1>8, <1>9

\* A loop that is killed forgets what it had to write; a line may stay without an end.
LEMMA KilledTells == ASSUME TellInv, LoopKilled \/ KilledWriting PROVE TellInv'
<1>1. /\ SnapFits /\ BookFits /\ loop' = Down /\ now' = now + 1 /\ now < MaxTime
      /\ checkpoint' = checkpoint
  BY DEF LoopKilled, KilledWriting, TellInv, reminder
<1>2. SnapFits' /\ loop'.pc = "down" /\ loop'.lines = <<>>
  BY <1>1, DownIs, LofConstants DEF SnapFits, LoopIs, WithSnap
<1>3. log' \in [LogDays -> Seq(Lines)]
  <2>1. CASE LoopKilled
    BY <1>1, <2>1 DEF LoopKilled, reminder, BookFits
  <2>2. CASE KilledWriting
    <3>1. Today = Day(now)
      BY <1>1, <2>2 DEF KilledWriting, Today, SnapFits, WithSnap
    <3>2. log' = [log EXCEPT ![Day(now)] = Line(log[Day(now)], Torn)]
      BY <2>2, <3>1 DEF KilledWriting
    <3>3. Torn \in Lines /\ log[Day(now)] \in Seq(Lines)
      BY <1>1, TodayHasFile DEF Lines, BookFits
    <3> QED
      BY <1>1, <3>2, <3>3, LineIs DEF BookFits
  <2> QED
    BY <2>1, <2>2
<1>4. BookFits' /\ LinesFit' /\ Told'
  BY <1>1, <1>2, <1>3 DEF BookFits, LinesFit, Told
<1> QED
  BY <1>2, <1>4 DEF TellInv

\* So does an observation that raises.
LEMMA RaisesTells == ASSUME TellInv, ObserveRaises PROVE TellInv'
<1>1. SnapFits /\ now' = now /\ UNCHANGED <<checkpoint, log>>
  BY DEF TellInv, ObserveRaises, reminder
<1>2. /\ loop' \in LoopIs(loop') /\ loop'.states = loop.states /\ loop'.at = loop.at
      /\ loop'.todo = {} /\ loop'.lines = <<>> /\ loop'.pc = "sleep"
  BY <1>1 DEF SnapFits, LoopIs, ObserveRaises
<1>3. SnapFits'
  BY <1>1, <1>2 DEF SnapFits, WithSnap
<1> QED
  BY <1>1, <1>2, <1>3, TellNothing

\* What a step of the observation keeps of the loop.
Observing ==
    /\ loop.pc = "append" /\ loop'.pc = "append" /\ now' = now
    /\ loop' \in LoopIs(loop') /\ loop'.states = loop.states /\ loop'.snap = loop.snap
    /\ loop'.at = loop.at /\ loop'.todo \subseteq loop.todo

\* The snapshot stays as it was collected while its rows are gone through.
LEMMA ObservingFits ==
    ASSUME SnapFits, Observing
    PROVE  /\ SnapFits' /\ Today = Day(now)
           /\ \A f \in Funds : loop.snap.rows[f] \in Rows
           /\ loop.snap.at = loop.at /\ loop.snap.at \in Nat
           /\ loop.snap.time = now
<1>1. /\ loop.snap.time = now /\ loop.snap.at = loop.at
      /\ \A f \in Funds : loop.snap.rows[f] = RowState(loop.states[f])
  BY DEF SnapFits, Observing, WithSnap
<1>2. /\ loop'.snap.time = now' /\ loop'.snap.at = loop'.at
      /\ \A f \in Funds : loop'.snap.rows[f] = RowState(loop'.states[f])
  BY <1>1 DEF Observing
<1>3. SnapFits'
  BY <1>2 DEF SnapFits, Observing
<1>4. \A f \in Funds : loop.snap.rows[f] \in Rows
  BY <1>1, RowsAre DEF SnapFits
<1> QED
  BY <1>1, <1>3, <1>4 DEF SnapFits, Today

\* At the beginning of an observation no row was gone through.
LEMMA ObserveTells == ASSUME TellInv, ObserveStart PROVE TellInv'
<1>1. /\ SnapFits /\ loop.pc = "observe" /\ loop' = [loop EXCEPT !.pc = "append", !.todo = Funds]
      /\ now' = now /\ checkpoint' = checkpoint /\ log' = log
  BY DEF ObserveStart, TellInv, reminder
<1>2. /\ loop' \in LoopIs(loop') /\ loop'.pc = "append" /\ loop'.states = loop.states
      /\ loop'.snap = loop.snap /\ loop'.at = loop.at /\ loop'.todo = Funds
      /\ loop'.lines = <<>>
  BY <1>1 DEF SnapFits, LoopIs
<1>3. /\ loop.snap.time = now /\ loop.snap.at = loop.at
      /\ \A f \in Funds : loop.snap.rows[f] = RowState(loop.states[f])
  BY <1>1 DEF SnapFits, WithSnap
<1>4. /\ loop'.snap.time = now' /\ loop'.snap.at = loop'.at
      /\ \A f \in Funds : loop'.snap.rows[f] = RowState(loop'.states[f])
  BY <1>1, <1>2, <1>3
<1>5. SnapFits'
  BY <1>1, <1>2, <1>4 DEF SnapFits
<1>6. BookFits' /\ LinesFit' /\ Told'
  BY <1>1, <1>2 DEF TellInv, BookFits, LinesFit, Told
<1> QED
  BY <1>5, <1>6 DEF TellInv

\* The row of fund f is next.
NextRowOf(f) ==
    /\ loop.lines = <<>> /\ f \in loop.todo /\ Observing
    /\ loop'.todo = loop.todo \ {f} /\ loop'.lines = EventsOf(f, loop.snap)
    /\ checkpoint' = checkpoint /\ log' = log /\ cut' = cut

\* The next row is some fund's.
LEMMA NextRowIs == ASSUME SnapFits, NextRow PROVE \E f \in Funds : NextRowOf(f)
<1>1. PICK f \in loop.todo :
        loop' = [loop EXCEPT !.todo = @ \ {f}, !.lines = EventsOf(f, loop.snap)]
  BY DEF NextRow
<1>2. PICK evs : evs = EventsOf(f, loop.snap)
  OBVIOUS
<1>3. loop' = [loop EXCEPT !.todo = @ \ {f}, !.lines = evs]
  BY <1>1, <1>2
<1>4. /\ loop' \in LoopIs(loop') /\ loop'.pc = loop.pc /\ loop'.states = loop.states
      /\ loop'.snap = loop.snap /\ loop'.at = loop.at /\ loop'.todo = loop.todo \ {f}
      /\ loop'.lines = evs
  BY <1>3 DEF SnapFits, LoopIs
<1>5. /\ loop.pc = "append" /\ loop.lines = <<>> /\ now' = now /\ checkpoint' = checkpoint
      /\ log' = log /\ cut' = cut
  BY DEF NextRow, reminder
<1>6. f \in Funds
  BY <1>1 DEF SnapFits
<1> QED
  BY <1>1, <1>2, <1>4, <1>5, <1>6 DEF NextRowOf, Observing

\* The changes of the next row are about to be written.
LEMMA NextRowTells == ASSUME TellInv, NextRow PROVE TellInv'
<1>1. SnapFits /\ BookFits
  BY DEF TellInv
<1>2. PICK f \in Funds : NextRowOf(f)
  BY <1>1, NextRowIs
<1>3. PICK snap : snap = loop.snap
  OBVIOUS
<1>4. SnapFits' /\ snap.rows[f] \in Rows
  BY <1>1, <1>2, <1>3, ObservingFits DEF NextRowOf
<1>5. /\ loop'.lines # <<>> => Some(loop'.lines, f, checkpoint, snap)
      /\ \A kind \in {"A", "B"} : Moved(kind, f, checkpoint, snap) =>
            Change(kind, f, checkpoint, snap) \in ToSet(loop'.lines)
  BY <1>1, <1>2, <1>3, <1>4, EventsAre DEF NextRowOf
<1>6. /\ loop'.snap = snap /\ checkpoint' = checkpoint /\ log' = log /\ now' = now
      /\ loop'.todo = loop.todo \ {f} /\ loop'.pc = "append" /\ loop.pc = "append"
      /\ loop.lines = <<>>
  BY <1>2, <1>3 DEF NextRowOf, Observing
<1>7. BookFits'
  BY <1>1, <1>6 DEF BookFits
<1>8. LinesFit'
  BY <1>5, <1>6 DEF LinesFit
<1>9. Told'
  <2> SUFFICES ASSUME NEW g \in Funds, NEW kind \in {"A", "B"},
                      Moved(kind, g, checkpoint, snap)
               PROVE  \/ g \in loop'.todo
                      \/ Change(kind, g, checkpoint, snap) \in ToSet(loop'.lines)
                      \/ Change(kind, g, checkpoint, snap) \in Known(log[Day(now)])
                      \/ Glued \in ToSet(log[Day(now)])
    BY <1>6 DEF Told
  <2>1. CASE g = f
    BY <1>5, <2>1
  <2>2. CASE g # f
    <3>1. ToSet(loop.lines) = {}
      BY <1>6 DEF ToSet
    <3> QED
      BY <1>3, <1>6, <2>2, <3>1 DEF TellInv, Told
  <2> QED
    BY <2>1, <2>2
<1> QED
  BY <1>4, <1>7, <1>8, <1>9 DEF TellInv

\* The first of the changes of fund f is written, or was already.
LineOf(f, kind) ==
    LET e == Change(kind, f, checkpoint, loop.snap)
        day == Day(now)
    IN  /\ Observing /\ f \notin loop.todo /\ loop'.todo = loop.todo
        /\ Moved(kind, f, checkpoint, loop.snap)
        /\ loop.lines # <<>> /\ Head(loop.lines) = e
        /\ ToSet(loop.lines) = {e} \cup ToSet(loop'.lines)
        /\ \/ loop'.lines = <<>>
           \/ /\ kind = "A" /\ Moved("B", f, checkpoint, loop.snap)
              /\ loop'.lines = <<Change("B", f, checkpoint, loop.snap)>>
        /\ log' = IF e \in Known(log[day]) THEN log
                  ELSE [log EXCEPT ![day] = Line(log[day], e)]
        /\ checkpoint' = checkpoint /\ cut' = cut

\* What is written is the first change of some fund.
LEMMA AppendIs ==
    ASSUME TellInv, AppendEvent
    PROVE  \E f \in Funds, kind \in {"A", "B"} : LineOf(f, kind)
<1>1. /\ loop.pc = "append" /\ loop.lines # <<>> /\ now' = now /\ checkpoint' = checkpoint
      /\ cut' = cut
      /\ loop' = [loop EXCEPT !.lines = Tail(loop.lines)]
      /\ log' = IF Head(loop.lines) \in Known(log[Today]) THEN log
                ELSE [log EXCEPT ![Today] = Line(log[Today], Head(loop.lines))]
  BY DEF AppendEvent
<1>2. PICK rest : rest = Tail(loop.lines)
  OBVIOUS
<1>3. /\ loop' \in LoopIs(loop') /\ loop'.pc = loop.pc /\ loop'.states = loop.states
      /\ loop'.snap = loop.snap /\ loop'.at = loop.at /\ loop'.todo = loop.todo
      /\ loop'.lines = rest
  BY <1>1, <1>2 DEF TellInv, SnapFits, LoopIs
<1>4. Observing /\ SnapFits
  BY <1>1, <1>3 DEF Observing, TellInv
<1>5. Today = Day(now)
  BY <1>4, ObservingFits
<1>6. PICK f \in Funds \ loop.todo : Some(loop.lines, f, checkpoint, loop.snap)
  BY <1>1 DEF TellInv, LinesFit
<1>7. PICK kind \in {"A", "B"} :
         /\ Moved(kind, f, checkpoint, loop.snap)
         /\ Head(loop.lines) = Change(kind, f, checkpoint, loop.snap)
         /\ ToSet(loop.lines) = {Head(loop.lines)} \cup ToSet(Tail(loop.lines))
         /\ \/ Tail(loop.lines) = <<>>
            \/ /\ kind = "A" /\ Moved("B", f, checkpoint, loop.snap)
               /\ Tail(loop.lines) = <<Change("B", f, checkpoint, loop.snap)>>
  BY <1>6, FirstOfSome
<1> QED
  BY <1>1, <1>2, <1>3, <1>4, <1>5, <1>6, <1>7 DEF LineOf

\* What was about to be written is written.
LEMMA AppendTells == ASSUME TellInv, AppendEvent PROVE TellInv'
<1>1. SnapFits /\ BookFits
  BY DEF TellInv
<1>2. PICK f \in Funds, kind \in {"A", "B"} : LineOf(f, kind)
  BY AppendIs
<1>3. PICK snap, e, day : /\ snap = loop.snap /\ e = Change(kind, f, checkpoint, snap)
                          /\ day = Day(now)
  OBVIOUS
<1>4. /\ Observing /\ f \notin loop.todo /\ loop'.todo = loop.todo /\ loop'.snap = snap
      /\ Moved(kind, f, checkpoint, snap) /\ loop.pc = "append" /\ loop'.pc = "append"
      /\ ToSet(loop.lines) = {e} \cup ToSet(loop'.lines) /\ now' = now
      /\ \/ loop'.lines = <<>>
         \/ /\ kind = "A" /\ Moved("B", f, checkpoint, snap)
            /\ loop'.lines = <<Change("B", f, checkpoint, snap)>>
      /\ log' = IF e \in Known(log[day]) THEN log
                ELSE [log EXCEPT ![day] = Line(log[day], e)]
      /\ checkpoint' = checkpoint
  BY <1>2, <1>3 DEF LineOf, Observing
<1>5. SnapFits' /\ snap.rows[f] \in Rows /\ snap.at \in Nat
  BY <1>1, <1>3, <1>4, ObservingFits
<1>6. e \in Lines /\ e # Torn /\ e # Glued
  <2>1. checkpoint \in [Funds -> Note]
    BY <1>1 DEF BookFits
  <2> QED
    BY <1>3, <1>4, <1>5, <2>1, ChangesAre
<1>7. day \in LogDays /\ log[day] \in Seq(Lines)
  BY <1>1, <1>3, TodayHasFile DEF BookFits
<1>8. /\ log' \in [LogDays -> Seq(Lines)]
      /\ Known(log[day]) \subseteq Known(log'[day])
      /\ Glued \in ToSet(log[day]) => Glued \in ToSet(log'[day])
      /\ e \in Known(log'[day]) \/ Glued \in ToSet(log'[day])
  <2>1. CASE e \in Known(log[day])
    BY <1>1, <1>4, <1>7, <2>1 DEF BookFits
  <2>2. CASE e \notin Known(log[day])
    <3>1. log'[day] = Line(log[day], e) /\ log' \in [LogDays -> Seq(Lines)]
      BY <1>1, <1>4, <1>6, <1>7, <2>2, LineIs DEF BookFits
    <3> QED
      BY <1>6, <1>7, <3>1, LineIs DEF Known
  <2> QED
    BY <2>1, <2>2
<1>9. BookFits'
  BY <1>1, <1>4, <1>8 DEF BookFits
<1>10. LinesFit'
  BY <1>2, <1>4 DEF LinesFit, Some
<1>11. Told'
  <2> SUFFICES ASSUME NEW g \in Funds, NEW k \in {"A", "B"}, Moved(k, g, checkpoint, snap)
               PROVE  \/ g \in loop.todo
                      \/ Change(k, g, checkpoint, snap) \in ToSet(loop'.lines)
                      \/ Change(k, g, checkpoint, snap) \in Known(log'[day])
                      \/ Glued \in ToSet(log'[day])
    BY <1>3, <1>4 DEF Told
  <2>1. \/ g \in loop.todo \/ Change(k, g, checkpoint, snap) \in ToSet(loop.lines)
        \/ Change(k, g, checkpoint, snap) \in Known(log[day]) \/ Glued \in ToSet(log[day])
    BY <1>3, <1>4 DEF TellInv, Told
  <2> QED
    BY <1>4, <1>8, <2>1
<1> QED
  BY <1>5, <1>9, <1>10, <1>11 DEF TellInv

\* The checkpoint notes all rows of the snapshot.
LEMMA CheckpointIs ==
    ASSUME SnapFits, BookFits, CheckpointPersist
    PROVE  /\ loop.pc = "append" /\ loop.todo = {} /\ loop.lines = <<>>
           /\ \A f \in Funds : checkpoint'[f] = Noted(checkpoint[f], loop.snap.rows[f])
           /\ checkpoint' \in [Funds -> Note] /\ log' = log /\ now' = now /\ cut' = cut
           /\ loop' \in LoopIs(loop') /\ loop'.pc = "candidate" /\ loop'.snap = loop.snap
           /\ loop'.states = loop.states /\ loop'.at = loop.at /\ loop'.todo = {}
           /\ loop'.lines = <<>> /\ SnapFits'
           /\ loop.snap.at = loop.at /\ loop.snap.time = now
           /\ \A f \in Funds : loop.snap.rows[f] = RowState(loop.states[f])
<1>1. /\ loop.pc = "append" /\ loop.todo = {} /\ loop.lines = <<>>
      /\ checkpoint' = [f \in Funds |-> Noted(checkpoint[f], loop.snap.rows[f])]
      /\ loop' = [loop EXCEPT !.pc = "candidate"] /\ log' = log /\ now' = now /\ cut' = cut
  BY DEF CheckpointPersist
<1>2. /\ loop' \in LoopIs(loop') /\ loop'.pc = "candidate" /\ loop'.snap = loop.snap
      /\ loop'.states = loop.states /\ loop'.at = loop.at /\ loop'.todo = {}
      /\ loop'.lines = <<>>
  BY <1>1 DEF SnapFits, LoopIs
<1>3. /\ loop.snap.time = now /\ loop.snap.at = loop.at
      /\ \A f \in Funds : loop.snap.rows[f] = RowState(loop.states[f])
  BY <1>1 DEF SnapFits, WithSnap
<1>4. /\ loop'.snap.time = now' /\ loop'.snap.at = loop'.at
      /\ \A f \in Funds : loop'.snap.rows[f] = RowState(loop'.states[f])
  BY <1>1, <1>2, <1>3
<1>5. SnapFits'
  BY <1>1, <1>2, <1>4 DEF SnapFits
<1>6. ASSUME NEW f \in Funds PROVE Noted(checkpoint[f], loop.snap.rows[f]) \in Note
  <2>1. checkpoint[f] \in Note /\ loop.snap.rows[f] \in Rows
    BY <1>3, RowsAre DEF SnapFits, BookFits
  <2> QED
    BY <2>1 DEF Noted, Note, Rows, Reliable, LimitKnown
<1> QED
  BY <1>1, <1>2, <1>3, <1>5, <1>6

\* After the checkpoint nothing is left to tell.
LEMMA CheckpointTells == ASSUME TellInv, CheckpointPersist PROVE TellInv'
<1>1. SnapFits /\ BookFits
  BY DEF TellInv
<1>2. /\ SnapFits' /\ checkpoint' \in [Funds -> Note] /\ log' = log
      /\ loop'.pc = "candidate" /\ loop'.lines = <<>>
  BY <1>1, CheckpointIs
<1>3. BookFits' /\ LinesFit' /\ Told'
  BY <1>1, <1>2 DEF BookFits, LinesFit, Told
<1> QED
  BY <1>2, <1>3 DEF TellInv

\* Steps beside the loop.
LEMMA BesideTells ==
    ASSUME TellInv, UNCHANGED <<now, loop, checkpoint, log>> PROVE TellInv'
  BY DEF TellInv, SnapFits, BookFits, LinesFit, Told

\* TellInv holds throughout.
LEMMA TellHolds == LofSpec => []TellInv
<1>1. ASSUME TellInv, [LofNext]_lofVars PROVE TellInv'
  <2>1. CASE UNCHANGED lofVars \/ (\E f \in Funds : Company(f)) \/ BuildDaily(Day(now))
             \/ JobCollect \/ JobPersist
    BY <1>1, <2>1, BesideTells DEF lofVars, reminder, Company, BuildDaily, JobCollect, JobPersist
  <2>2. CASE StartLoop \/ RefreshSession \/ RefreshLanes \/ CollectSnapshot \/ SnapshotFails
             \/ Persist \/ CandidatePersist \/ Sleep \/ Stop
    <3>1. loop.pc # "append" /\ UNCHANGED <<checkpoint, log>>
      BY <2>2 DEF StartLoop, RefreshSession, RefreshLanes, CollectSnapshot, SnapshotFails,
         Persist, CandidatePersist, Sleep, Stop, reminder
    <3> QED
      BY <1>1, <2>2, <3>1, LoopMoves
  <2>3. CASE LoopKilled \/ KilledWriting
    BY <1>1, <2>3, KilledTells
  <2>4. CASE ObserveStart
    BY <1>1, <2>4, ObserveTells
  <2>5. CASE NextRow
    BY <1>1, <2>5, NextRowTells
  <2>6. CASE AppendEvent
    BY <1>1, <2>6, AppendTells
  <2>7. CASE CheckpointPersist
    BY <1>1, <2>7, CheckpointTells
  <2>8. CASE ObserveRaises
    BY <1>1, <2>8, RaisesTells
  <2> QED
    BY <1>1, <2>1, <2>2, <2>3, <2>4, <2>5, <2>6, <2>7, <2>8 DEF LofNext, LoopStep
<1> QED
  BY TellStarts, <1>1, PTL DEF LofSpec

\* What is noted of a fund that the snapshot changes, and of one it does not.
LEMMA NotedIs ==
    ASSUME NEW old \in Note, NEW row \in Rows, NEW kind \in {"A", "B"}
    PROVE  ValueOf(kind, Noted(old, row)) =
              IF Tells(kind, row) THEN ValueOf(kind, row) ELSE ValueOf(kind, old)
  BY DEF Noted, ValueOf, Tells

\* Only the last step of an observation notes anything, and it is taken when no row is
\* left.
LEMMA OnlyCheckpointNotes ==
    ASSUME LofNext PROVE CheckpointPersist \/ checkpoint' = checkpoint
<1>1. CASE LoopStep
  BY <1>1 DEF LoopStep, RefreshSession, RefreshLanes, CollectSnapshot, SnapshotFails, Persist,
     ObserveStart, NextRow, AppendEvent, CandidatePersist, ObserveRaises, Sleep, reminder
<1>2. CASE ~LoopStep
  BY <1>2 DEF LofNext, Company, StartLoop, Stop, LoopKilled, KilledWriting, JobCollect,
     JobPersist, BuildDaily, reminder
<1> QED
  BY <1>1, <1>2

\* A change the checkpoint takes over is one of the snapshot, and its line is written.
LEMMA NotedIsTold ==
    ASSUME TellInv, CheckpointPersist, Glued \notin ToSet(log'[Day(now)]),
           NEW f \in Funds, NEW kind \in {"A", "B"},
           ValueOf(kind, checkpoint[f]) # NoValue,
           ValueOf(kind, checkpoint'[f]) # ValueOf(kind, checkpoint[f])
    PROVE  \E e \in Known(log'[Day(now)]) :
              /\ e.kind = kind /\ e.fund = f /\ e.old = ValueOf(kind, checkpoint[f])
              /\ e.new = ValueOf(kind, checkpoint'[f])
<1>1. SnapFits /\ BookFits
  BY DEF TellInv
<1>2. PICK snap, row : snap = loop.snap /\ row = snap.rows[f]
  OBVIOUS
<1>3. /\ loop.pc = "append" /\ loop.todo = {} /\ loop.lines = <<>> /\ log' = log
      /\ checkpoint'[f] = Noted(checkpoint[f], row)
      /\ snap.at = loop.at /\ row = RowState(loop.states[f])
  BY <1>1, <1>2, CheckpointIs
<1>4. row \in Rows /\ snap.at \in Nat /\ checkpoint \in [Funds -> Note]
  BY <1>1, <1>3, RowsAre DEF SnapFits, BookFits
<1>5. Tells(kind, row) /\ ValueOf(kind, checkpoint'[f]) = ValueOf(kind, row)
  BY <1>3, <1>4, NotedIs
<1>6. Moved(kind, f, checkpoint, snap)
  BY <1>2, <1>5 DEF Moved
<1>7. PICK e : e = Change(kind, f, checkpoint, snap)
  OBVIOUS
<1>8. e \in Known(log'[Day(now)])
  <2>1. ToSet(loop.lines) = {}
    BY <1>3 DEF ToSet
  <2> QED
    BY <1>2, <1>3, <1>6, <1>7, <2>1 DEF TellInv, Told
<1>9. /\ e.kind = kind /\ e.fund = f /\ e.old = ValueOf(kind, checkpoint[f])
      /\ e.new = ValueOf(kind, row)
  BY <1>2, <1>4, <1>7, ChangesAre
<1> QED
  BY <1>5, <1>8, <1>9

\* The line of a change is in the file of the day before the checkpoint takes the change
\* over: a kill or an exception repeats a change and loses none, unless it tore the line before
\* (daily_reminder.py:169-196, 319-321).
THEOREM ToldFirst == LofSpec => ToldBeforeNoted
<1> DEFINE First ==
      Glued \notin ToSet(log'[Day(now)]) => \A f \in Funds :
        LET old == checkpoint[f]  new == checkpoint'[f]
        IN  /\ old.status # NoValue /\ new.status # old.status =>
                  \E e \in Known(log'[Day(now)]) :
                      e.kind = "A" /\ e.fund = f /\ e.old = old.status /\ e.new = new.status
            /\ old.limit # NoValue /\ new.limit # old.limit =>
                  \E e \in Known(log'[Day(now)]) :
                      e.kind = "B" /\ e.fund = f /\ e.old = old.limit /\ e.new = new.limit
<1>1. ASSUME TellInv, [LofNext]_lofVars PROVE [First]_checkpoint
  <2>1. CASE CheckpointPersist
    <3> SUFFICES ASSUME Glued \notin ToSet(log'[Day(now)]), NEW f \in Funds
                 PROVE  /\ checkpoint[f].status # NoValue
                           /\ checkpoint'[f].status # checkpoint[f].status =>
                              \E e \in Known(log'[Day(now)]) :
                                /\ e.kind = "A" /\ e.fund = f
                                /\ e.old = checkpoint[f].status
                                /\ e.new = checkpoint'[f].status
                        /\ checkpoint[f].limit # NoValue
                           /\ checkpoint'[f].limit # checkpoint[f].limit =>
                              \E e \in Known(log'[Day(now)]) :
                                /\ e.kind = "B" /\ e.fund = f
                                /\ e.old = checkpoint[f].limit
                                /\ e.new = checkpoint'[f].limit
      OBVIOUS
    <3>1. \A kind \in {"A", "B"} :
            ValueOf(kind, checkpoint[f]) # NoValue
            /\ ValueOf(kind, checkpoint'[f]) # ValueOf(kind, checkpoint[f]) =>
               \E e \in Known(log'[Day(now)]) :
                  /\ e.kind = kind /\ e.fund = f /\ e.old = ValueOf(kind, checkpoint[f])
                  /\ e.new = ValueOf(kind, checkpoint'[f])
      BY <1>1, <2>1, NotedIsTold
    <3>2. \A s : ValueOf("A", s) = s.status /\ ValueOf("B", s) = s.limit
      BY DEF ValueOf
    <3> QED
      BY <3>1, <3>2
  <2>2. CASE checkpoint' = checkpoint
    BY <2>2
  <2> QED
    BY <1>1, <2>1, <2>2, OnlyCheckpointNotes DEF lofVars, reminder
<1> QED
  BY TellHolds, <1>1, PTL DEF LofSpec, ToldBeforeNoted

\* What the next change of fund f starts from: while the rows are gone through, the row
\* of a fund that was told of stands for what the checkpoint is going to note.
RowOf(f) == RowState(loop.states[f])
Gone(f, kind) ==
    /\ loop.pc = "append" /\ f \notin loop.todo
    /\ \A e \in ToSet(loop.lines) : ~(e.kind = kind /\ e.fund = f)
Seen(f, kind) ==
    Tells(kind, RowOf(f)) => ValueOf(kind, RowOf(f)) = ValueOf(kind, checkpoint[f])
Current(f, kind) ==
    IF Gone(f, kind) /\ Tells(kind, RowOf(f)) THEN ValueOf(kind, RowOf(f))
    ELSE ValueOf(kind, checkpoint[f])

\* A line is of a reading, and a reading that has a line changes nothing more: what is
\* read after a pause is read later.
LineFits(f, kind, line) ==
    /\ line.at \in Nat /\ line.at <= now
    /\ loop.pc \in {"down", "refresh"} => line.at < now
    /\ loop.pc # "down" /\ line.at = loop.at => Seen(f, kind) \/ Gone(f, kind)
    /\ ValueOf(kind, checkpoint[f]) # NoValue

LastPlace(f, kind, d, i) ==
    /\ About(f, kind, d, i)
    /\ \A e \in LogDays, j \in Nat : About(f, kind, e, j) => ~Before(d, i, e, j)

Linked(f, kind) ==
    \A d, e \in LogDays, i, j \in Nat :
        /\ About(f, kind, d, i) /\ About(f, kind, e, j) /\ Before(d, i, e, j)
        /\ ~\E c \in LogDays, k \in Nat :
              About(f, kind, c, k) /\ Before(d, i, c, k) /\ Before(c, k, e, j)
        => log[d][i].new = log[e][j].old

ChainOf(f, kind) ==
    /\ \A d \in LogDays, i \in Nat : About(f, kind, d, i) => LineFits(f, kind, log[d][i])
    /\ \A d \in LogDays, i \in Nat :
          LastPlace(f, kind, d, i) => log[d][i].new = Current(f, kind)
    /\ Linked(f, kind)

\* No line is torn, and none is of a day to come.
Whole ==
    \A d \in LogDays : /\ Torn \notin ToSet(log[d]) /\ Glued \notin ToSet(log[d])
                       /\ d > Day(now) => log[d] = <<>>

Chained == Whole /\ \A f \in Funds, kind \in {"A", "B"} : ChainOf(f, kind)

ChainInv == TellInv /\ (~cut => Chained)

\* A chain no line is added to.
LEMMA ChainStays ==
    ASSUME NEW f, NEW kind, ChainOf(f, kind), log' = log,
           \A line : LineFits(f, kind, line) =>
                        LineFits(f, kind, line)' /\ Current(f, kind)' = Current(f, kind)
    PROVE  ChainOf(f, kind)'
<1>1. ASSUME NEW d \in LogDays, NEW i \in Nat, About(f, kind, d, i)
      PROVE  LineFits(f, kind, log[d][i])' /\ Current(f, kind)' = Current(f, kind)
  BY <1>1 DEF ChainOf
<1>2. \A d \in LogDays, i \in Nat : About(f, kind, d, i)' <=> About(f, kind, d, i)
  BY DEF About
<1>3. \A d \in LogDays, i \in Nat : About(f, kind, d, i)' => LineFits(f, kind, log[d][i])'
  BY <1>1, <1>2
<1>4. ASSUME NEW d \in LogDays, NEW i \in Nat, LastPlace(f, kind, d, i)'
      PROVE  log'[d][i].new = Current(f, kind)'
  <2>1. LastPlace(f, kind, d, i)
    BY <1>4 DEF LastPlace, About, Before
  <2>2. About(f, kind, d, i) /\ log[d][i].new = Current(f, kind)
    BY <2>1 DEF ChainOf, LastPlace
  <2> QED
    BY <1>1, <2>2
<1>5. Linked(f, kind)'
  BY DEF ChainOf, Linked, About, Before
<1> QED
  BY <1>3, <1>4, <1>5 DEF ChainOf

\* Steps that neither tell nor note: the loop goes on, sleeps, ends, or reads anew, which
\* it does before it tells anything of the cycle.
Quiet ==
    /\ log' = log /\ checkpoint' = checkpoint
    /\ loop.pc # "append" /\ (loop'.pc = "append" => loop'.todo = Funds)
    /\ \/ /\ now' = now /\ loop'.pc \notin {"down", "refresh"} /\ loop.pc # "down"
          /\ loop'.states = loop.states /\ loop'.at = loop.at
       \/ /\ now' = now + 1 /\ loop'.pc = "refresh" /\ loop.pc # "down"
          /\ loop'.states = loop.states /\ loop'.at = loop.at
       \/ now' = now + 1 /\ loop'.pc = "down"
       \/ now' = now /\ loop'.at = now /\ loop.pc \in {"down", "refresh"}

\* Quiet steps keep the chain.
LEMMA QuietKeeps ==
    ASSUME SnapFits, SnapFits', Chained, Quiet PROVE Chained'
<1>1. now \in Nat /\ now' \in Nat /\ now <= now'
  BY DEF SnapFits, Quiet
<1>2. Whole'
  <2>1. Day(now) \in Nat /\ Day(now') \in Nat /\ Day(now) <= Day(now')
    BY <1>1, DaysRunOn
  <2>2. \A d \in LogDays : d > Day(now') => d > Day(now)
    <3>1. LogDays \subseteq Int
      BY DEF LogDays
    <3> QED
      BY <2>1, <3>1
  <2>3. Day(now)' = Day(now')
    BY DEF Day
  <2> QED
    BY <2>2, <2>3 DEF Chained, Whole, Quiet
<1>3. ASSUME NEW f \in Funds, NEW kind \in {"A", "B"} PROVE ChainOf(f, kind)'
  <2>1. ~Gone(f, kind) /\ ~Gone(f, kind)'
    BY DEF Gone, Quiet
  <2>2. Current(f, kind)' = Current(f, kind)
    <3>1. Current(f, kind) = ValueOf(kind, checkpoint[f])
      BY <2>1 DEF Current
    <3>2. Current(f, kind)' = ValueOf(kind, checkpoint'[f])
      BY <2>1 DEF Current
    <3> QED
      BY <3>1, <3>2 DEF Quiet
  <2>3. loop'.states = loop.states => (Seen(f, kind)' <=> Seen(f, kind))
    BY DEF Seen, RowOf, Quiet
  <2>4. ASSUME NEW line, LineFits(f, kind, line) PROVE LineFits(f, kind, line)'
    <3>1. /\ line.at \in Nat /\ line.at <= now
          /\ loop.pc \in {"down", "refresh"} => line.at < now
          /\ loop.pc # "down" /\ line.at = loop.at => Seen(f, kind)
          /\ ValueOf(kind, checkpoint[f]) # NoValue
      BY <2>1, <2>4 DEF LineFits
    <3>2. /\ line.at <= now'
          /\ loop'.pc \in {"down", "refresh"} => line.at < now'
          /\ loop'.pc # "down" /\ line.at = loop'.at => Seen(f, kind)'
      BY <1>1, <2>3, <3>1 DEF Quiet
    <3>3. ValueOf(kind, checkpoint'[f]) # NoValue
      BY <3>1 DEF Quiet
    <3> QED
      BY <3>1, <3>2, <3>3 DEF LineFits
  <2> QED
    BY <2>2, <2>4, ChainStays DEF Chained, Quiet
<1> QED
  BY <1>2, <1>3 DEF Chained

\* Whatever is among the changes is one of them.
LEMMA SomeHas ==
    ASSUME NEW lines, NEW f, NEW noted, NEW snap, Some(lines, f, noted, snap),
           NEW e \in ToSet(lines)
    PROVE  \E kind \in {"A", "B"} : e = Change(kind, f, noted, snap)
<1>1. ASSUME NEW x PROVE ToSet(<<x>>) = {x}
  BY DEF ToSet
<1>2. ASSUME NEW x, NEW y PROVE ToSet(<<x, y>>) = {x, y}
  <2>1. DOMAIN <<x, y>> = {1, 2} /\ <<x, y>>[1] = x /\ <<x, y>>[2] = y
    OBVIOUS
  <2> QED
    BY <2>1 DEF ToSet
<1> QED
  BY <1>1, <1>2 DEF Some

\* The steps of the loop outside an observation, and its beginning.
LEMMA QuietSteps ==
    ASSUME SnapFits, loop.pc # "append",
           \/ StartLoop \/ RefreshSession \/ RefreshLanes \/ CollectSnapshot \/ SnapshotFails
           \/ Persist \/ CandidatePersist \/ Sleep \/ Stop \/ LoopKilled \/ ObserveStart
           \/ ObserveRaises
    PROVE  Quiet /\ (cut => cut')
<1>1. CASE StartLoop
  <2>1. PICK nav, states :
          loop' = [Down EXCEPT !.pc = "refresh", !.session = Day(now), !.nav = nav,
                               !.states = states, !.at = now, !.sessionAt = now,
                               !.navAt = now, !.stateAt = now]
    BY <1>1 DEF StartLoop
  <2>2. loop'.pc = "refresh" /\ loop'.at = now
    BY <2>1, DownIs
  <2> QED
    BY <1>1, <2>2 DEF StartLoop, Quiet, reminder
<1>2. CASE RefreshSession
  <2>1. PICK nav, states :
          loop' = [loop EXCEPT !.pc = "collect", !.session = Day(now), !.nav = nav,
                               !.states = states, !.at = now, !.sessionAt = now,
                               !.navAt = now, !.stateAt = now]
    BY <1>2 DEF RefreshSession
  <2>2. loop'.pc = "collect" /\ loop'.at = now
    BY <2>1 DEF SnapFits, LoopIs
  <2> QED
    BY <1>2, <2>2 DEF RefreshSession, Quiet, reminder
<1>3. CASE RefreshLanes
  <2>1. PICK nav, states :
          loop' = [loop EXCEPT
                    !.pc = "collect",
                    !.nav = IF Due(loop.navAt, NavEvery) THEN nav ELSE @,
                    !.navAt = IF Due(@, NavEvery) THEN now ELSE @,
                    !.states = IF Due(loop.stateAt, StateEvery) THEN states ELSE @,
                    !.at = IF Due(loop.stateAt, StateEvery) THEN now ELSE @,
                    !.stateAt = IF Due(@, StateEvery) THEN now ELSE @]
    BY <1>3 DEF RefreshLanes
  <2>2. /\ loop'.pc = "collect"
        /\ loop'.at = now \/ (loop'.states = loop.states /\ loop'.at = loop.at)
    BY <2>1 DEF SnapFits, LoopIs
  <2> QED
    BY <1>3, <2>2 DEF RefreshLanes, Quiet, reminder
<1>4. CASE CollectSnapshot
  <2>1. PICK snap : loop' = [loop EXCEPT !.pc = "archive", !.snap = snap]
    BY <1>4 DEF CollectSnapshot
  <2>2. loop'.pc = "archive" /\ loop'.states = loop.states /\ loop'.at = loop.at
    BY <2>1 DEF SnapFits, LoopIs
  <2> QED
    BY <1>4, <2>2 DEF CollectSnapshot, Quiet, reminder
<1>5. CASE Persist
  <2>1. /\ loop'.pc \in {"latest", "observe"} /\ loop'.states = loop.states
        /\ loop'.at = loop.at
    BY <1>5 DEF SnapFits, LoopIs, Persist
  <2> QED
    BY <1>5, <2>1 DEF Persist, Quiet, reminder
<1>6. CASE SnapshotFails \/ CandidatePersist
  <2>1. loop'.pc = "sleep" /\ loop'.states = loop.states /\ loop'.at = loop.at
    BY <1>6 DEF SnapFits, LoopIs, SnapshotFails, CandidatePersist
  <2> QED
    BY <1>6, <2>1 DEF SnapshotFails, CandidatePersist, Quiet, reminder
<1>7. CASE Sleep
  <2>1. loop'.pc = "refresh" /\ loop'.states = loop.states /\ loop'.at = loop.at
    BY <1>7 DEF SnapFits, LoopIs, Sleep
  <2> QED
    BY <1>7, <2>1 DEF Sleep, Quiet, reminder
<1>8. CASE Stop \/ LoopKilled
  <2>1. loop'.pc = "down"
    BY <1>8, DownIs DEF Stop, LoopKilled
  <2>2. cut => cut'
    BY <1>8, Zenon DEF Stop, LoopKilled
  <2> QED
    BY <1>8, <2>1, <2>2 DEF Stop, LoopKilled, Quiet, reminder
<1>9. CASE ObserveStart
  <2>1. /\ loop'.pc = "append" /\ loop'.todo = Funds /\ loop'.states = loop.states
        /\ loop'.at = loop.at
    BY <1>9 DEF SnapFits, LoopIs, ObserveStart
  <2> QED
    BY <1>9, <2>1 DEF ObserveStart, Quiet, reminder
<1>10. CASE ObserveRaises
  <2>1. loop'.pc = "sleep" /\ loop'.states = loop.states /\ loop'.at = loop.at
    BY <1>10 DEF SnapFits, LoopIs, ObserveRaises
  <2>2. (cut => cut') /\ now' = now /\ checkpoint' = checkpoint /\ log' = log
    BY <1>10, Zenon DEF ObserveRaises, reminder
  <2>3. loop.pc \in {"observe", "candidate"}
    BY <1>10 DEF ObserveRaises
  <2> QED
    BY <2>1, <2>2, <2>3 DEF Quiet
<1> QED
  BY <1>1, <1>2, <1>3, <1>4, <1>5, <1>6, <1>7, <1>8, <1>9, <1>10

\* The lines of a row stand for what its fund changes.
LEMMA NextRowChains ==
    ASSUME TellInv, Chained, NEW f \in Funds, NextRowOf(f) PROVE Chained'
<1>1. /\ SnapFits /\ BookFits /\ Observing /\ now' = now /\ log' = log
      /\ checkpoint' = checkpoint /\ loop.pc = "append" /\ loop'.pc = "append"
      /\ loop'.states = loop.states /\ loop'.at = loop.at
      /\ loop.lines = <<>> /\ f \in loop.todo /\ loop'.todo = loop.todo \ {f}
  BY DEF TellInv, NextRowOf, Observing
<1>2. PICK snap : snap = loop.snap
  OBVIOUS
<1>3. /\ \A g \in Funds : snap.rows[g] \in Rows /\ snap.rows[g] = RowOf(g)
      /\ snap.at \in Nat
  BY <1>1, <1>2, ObservingFits DEF SnapFits, WithSnap, RowOf
<1>4. /\ loop'.lines # <<>> => Some(loop'.lines, f, checkpoint, snap)
      /\ \A kind \in {"A", "B"} : Moved(kind, f, checkpoint, snap) =>
            Change(kind, f, checkpoint, snap) \in ToSet(loop'.lines)
  BY <1>1, <1>2, <1>3, EventsAre DEF NextRowOf
<1>5. ASSUME NEW g \in Funds, g # f, NEW kind PROVE Gone(g, kind)' <=> Gone(g, kind)
  <2>1. ASSUME NEW e \in ToSet(loop'.lines) PROVE e.fund = f
    <3>1. loop'.lines # <<>>
      BY <2>1 DEF ToSet
    <3>2. \A k \in {"A", "B"} : Change(k, f, checkpoint, snap).fund = f
      BY <1>1, <1>3, ChangesAre DEF BookFits
    <3> QED
      BY <1>4, <2>1, <3>1, <3>2, SomeHas
  <2>2. ToSet(loop.lines) = {}
    BY <1>1 DEF ToSet
  <2> QED
    BY <1>1, <1>5, <2>1, <2>2 DEF Gone
<1>6. ~\E kind : Gone(f, kind)
  BY <1>1 DEF Gone
<1>7. ASSUME NEW kind \in {"A", "B"}, Gone(f, kind)' PROVE ~Moved(kind, f, checkpoint, snap)
  <2>1. /\ Change(kind, f, checkpoint, snap).fund = f
        /\ Change(kind, f, checkpoint, snap).kind = kind
    BY <1>1, <1>3, ChangesAre DEF BookFits
  <2> QED
    BY <1>4, <1>7, <2>1 DEF Gone
<1>8. ASSUME NEW g \in Funds, NEW kind \in {"A", "B"} PROVE ChainOf(g, kind)'
  <2>1. Seen(g, kind)' <=> Seen(g, kind)
    BY <1>1 DEF Seen, RowOf
  <2>2. Gone(g, kind) => Gone(g, kind)'
    BY <1>5, <1>6
  <2>3. ASSUME NEW line, LineFits(g, kind, line) PROVE LineFits(g, kind, line)'
    <3>1. /\ line.at \in Nat /\ line.at <= now
          /\ line.at = loop.at => Seen(g, kind) \/ Gone(g, kind)
          /\ ValueOf(kind, checkpoint[g]) # NoValue
      BY <1>1, <2>3 DEF LineFits
    <3>2. line.at = loop'.at => Seen(g, kind)' \/ Gone(g, kind)'
      BY <1>1, <2>1, <2>2, <3>1
    <3>3. ValueOf(kind, checkpoint'[g]) # NoValue /\ line.at <= now'
      BY <1>1, <3>1
    <3> QED
      BY <1>1, <3>1, <3>2, <3>3 DEF LineFits
  <2>4. ASSUME NEW line, LineFits(g, kind, line)
        PROVE  Current(g, kind)' = Current(g, kind)
    <3>1. RowOf(g)' = RowOf(g)
      BY <1>1 DEF RowOf
    <3>2. CASE g # f
      BY <1>1, <1>5, <3>1, <3>2 DEF Current
    <3>3. CASE g = f
      <4>1. Current(f, kind) = ValueOf(kind, checkpoint[f])
        BY <1>6 DEF Current
      <4>2. ASSUME Gone(f, kind)', Tells(kind, RowOf(f))
            PROVE  ValueOf(kind, RowOf(f)) = ValueOf(kind, checkpoint[f])
        BY <1>3, <1>7, <2>4, <3>3, <4>2 DEF Moved, LineFits
      <4> QED
        BY <1>1, <3>1, <3>3, <4>1, <4>2 DEF Current
    <3> QED
      BY <3>2, <3>3
  <2> QED
    BY <1>1, <2>3, <2>4, ChainStays DEF Chained
<1>9. Whole'
  BY <1>1 DEF Chained, Whole, Day
<1> QED
  BY <1>8, <1>9 DEF Chained

\* What a file has with one line more.
LEMMA AppendHas ==
    ASSUME NEW S, NEW lines \in Seq(S), NEW e
    PROVE  ToSet(Append(lines, e)) = ToSet(lines) \cup {e}
<1>1. /\ DOMAIN lines = 1..Len(lines) /\ Len(lines) \in Nat
      /\ DOMAIN Append(lines, e) = 1..(Len(lines) + 1)
      /\ Append(lines, e)[Len(lines) + 1] = e
      /\ \A i \in 1..Len(lines) : Append(lines, e)[i] = lines[i]
  OBVIOUS
<1>2. 1..(Len(lines) + 1) = 1..Len(lines) \cup {Len(lines) + 1}
  BY <1>1
<1> QED
  BY <1>1, <1>2 DEF ToSet

\* A file has one line more, at place n.
Grows(day, e, n) ==
    n = Len(log[day]) + 1 /\ log' = [log EXCEPT ![day] = Append(log[day], e)]

\* The new line is at its place, and every other line stays where it was.
LEMMA PlacesAre ==
    ASSUME log \in [LogDays -> Seq(Lines)], NEW day \in LogDays, NEW e \in Lines,
           NEW n, Grows(day, e, n)
    PROVE  /\ n \in Nat /\ log'[day][n] = e
           /\ \A d \in LogDays, i \in Nat : \A g, k :
                 About(g, k, d, i)' <=> \/ About(g, k, d, i)
                                        \/ d = day /\ i = n /\ e.kind = k /\ e.fund = g
           /\ \A d \in LogDays, i \in Nat : \A g, k :
                 About(g, k, d, i) => log'[d][i] = log[d][i] /\ (d = day => i < n)
<1>1. /\ log[day] \in Seq(Lines) /\ n \in Nat /\ log'[day] = Append(log[day], e)
      /\ \A d \in LogDays : d # day => log'[d] = log[d]
  BY DEF Grows
<1>2. n = Len(log[day]) + 1
  BY DEF Grows
<1>3. /\ DOMAIN log[day] = 1..(n - 1) /\ DOMAIN log'[day] = 1..n /\ log'[day][n] = e
      /\ \A i \in 1..(n - 1) : log'[day][i] = log[day][i]
  BY <1>1, <1>2
<1>4. \A i \in Nat : i \in 1..n <=> i \in 1..(n - 1) \/ i = n
  <2>1. n >= 1
    BY <1>1, <1>2
  <2> QED
    BY <1>1, <2>1
<1>5. \A i \in 1..(n - 1) : i < n
  BY <1>1, <1>2
<1>6. ASSUME NEW d \in LogDays, NEW i \in Nat, NEW g, NEW k
      PROVE  /\ About(g, k, d, i)' <=> \/ About(g, k, d, i)
                                       \/ d = day /\ i = n /\ e.kind = k /\ e.fund = g
             /\ About(g, k, d, i) => log'[d][i] = log[d][i] /\ (d = day => i < n)
  <2>1. CASE d # day
    BY <1>1, <2>1 DEF About
  <2>2. CASE d = day
    <3>1. i \notin 1..(n - 1) \/ i # n
      BY <1>1, <1>2
    <3> QED
      BY <1>1, <1>3, <1>4, <1>5, <2>2, <3>1 DEF About
  <2> QED
    BY <2>1, <2>2
<1> QED
  BY <1>1, <1>3, <1>6

\* A change that is to be told is of a reading that has no line.
LEMMA NotToldYet ==
    ASSUME TellInv, Chained, NEW f \in Funds, NEW kind \in {"A", "B"}, LineOf(f, kind),
           NEW e, e = Change(kind, f, checkpoint, loop.snap)
    PROVE  /\ e \notin Known(log[Day(now)]) /\ ~Gone(f, kind)
           /\ e \in Lines /\ e.kind = kind /\ e.fund = f /\ e.at = loop.at
           /\ e.old = ValueOf(kind, checkpoint[f]) /\ e.new = ValueOf(kind, RowOf(f))
           /\ Tells(kind, RowOf(f)) /\ ValueOf(kind, checkpoint[f]) # NoValue
<1>1. /\ SnapFits /\ BookFits /\ Observing /\ loop.pc = "append"
      /\ Moved(kind, f, checkpoint, loop.snap) /\ e \in ToSet(loop.lines)
  BY DEF TellInv, LineOf, Observing
<1>2. PICK snap : snap = loop.snap
  OBVIOUS
<1>3. /\ snap.rows[f] \in Rows /\ snap.rows[f] = RowOf(f) /\ snap.at \in Nat
      /\ snap.at = loop.at
  BY <1>1, <1>2, ObservingFits DEF SnapFits, WithSnap, RowOf
<1>4. /\ e \in Lines /\ e.kind = kind /\ e.fund = f /\ e.at = loop.at
      /\ e.old = ValueOf(kind, checkpoint[f]) /\ e.new = ValueOf(kind, RowOf(f))
  BY <1>1, <1>2, <1>3, ChangesAre DEF BookFits
<1>5. ~Gone(f, kind)
  BY <1>1, <1>4 DEF Gone
<1>6. Tells(kind, RowOf(f)) /\ ValueOf(kind, checkpoint[f]) # NoValue /\ ~Seen(f, kind)
  BY <1>1, <1>2, <1>3 DEF Moved, Seen
<1>7. e \notin Known(log[Day(now)])
  <2> SUFFICES ASSUME e \in Known(log[Day(now)]) PROVE FALSE
    OBVIOUS
  <2>1. Day(now) \in LogDays /\ log[Day(now)] \in Seq(Lines)
    BY <1>1, TodayHasFile DEF BookFits
  <2>2. PICK i \in DOMAIN log[Day(now)] : log[Day(now)][i] = e
    BY DEF Known, ToSet
  <2>3. i \in Nat /\ About(f, kind, Day(now), i)
    BY <1>4, <2>1, <2>2 DEF About
  <2>4. LineFits(f, kind, e)
    BY <2>1, <2>2, <2>3 DEF Chained, ChainOf
  <2> QED
    BY <1>1, <1>4, <1>5, <1>6, <2>4 DEF LineFits
<1> QED
  BY <1>4, <1>5, <1>6, <1>7

\* The line of a change is the last of its fund.
LEMMA LineChains ==
    ASSUME TellInv, Chained, NEW f \in Funds, NEW kind \in {"A", "B"}, LineOf(f, kind)
    PROVE  Chained'
<1>1. PICK e, day : e = Change(kind, f, checkpoint, loop.snap) /\ day = Day(now)
  OBVIOUS
<1>2. /\ SnapFits /\ BookFits /\ now' = now /\ checkpoint' = checkpoint
      /\ loop.pc = "append" /\ loop'.pc = "append" /\ loop'.at = loop.at
      /\ loop'.states = loop.states /\ f \notin loop.todo /\ loop'.todo = loop.todo
      /\ ToSet(loop.lines) = {e} \cup ToSet(loop'.lines)
      /\ now \in Nat /\ loop.at \in Nat /\ loop.at <= now
  BY <1>1 DEF TellInv, LineOf, Observing, SnapFits
<1>3. /\ e \notin Known(log[day]) /\ ~Gone(f, kind)
      /\ e \in Lines /\ e.kind = kind /\ e.fund = f /\ e.at = loop.at
      /\ e.old = ValueOf(kind, checkpoint[f]) /\ e.new = ValueOf(kind, RowOf(f))
      /\ Tells(kind, RowOf(f)) /\ ValueOf(kind, checkpoint[f]) # NoValue
  BY <1>1, NotToldYet
<1>4. day \in LogDays /\ day \in Nat /\ log \in [LogDays -> Seq(Lines)]
  BY <1>1, <1>2, TodayHasFile DEF BookFits
<1>5. log' = [log EXCEPT ![day] = Append(log[day], e)]
  <2>1. Torn \notin ToSet(log[day])
    BY <1>4 DEF Chained, Whole
  <2> QED
    BY <1>1, <1>3, <1>4, <2>1, LineIs DEF LineOf
<1>6. PICK n : Grows(day, e, n)
  BY <1>5 DEF Grows
<1>7. /\ n \in Nat /\ log'[day][n] = e
      /\ \A d \in LogDays, i \in Nat : \A g, k :
            About(g, k, d, i)' <=> \/ About(g, k, d, i)
                                   \/ d = day /\ i = n /\ kind = k /\ f = g
      /\ \A d \in LogDays, i \in Nat : \A g, k :
            About(g, k, d, i) => log'[d][i] = log[d][i] /\ (d = day => i < n)
  <2>1. \A d \in LogDays, i \in Nat : \A g, k :
           About(g, k, d, i)' <=> \/ About(g, k, d, i)
                                  \/ d = day /\ i = n /\ e.kind = k /\ e.fund = g
    BY <1>3, <1>4, <1>6, PlacesAre
  <2>2. /\ n \in Nat /\ log'[day][n] = e
        /\ \A d \in LogDays, i \in Nat : \A g, k :
              About(g, k, d, i) => log'[d][i] = log[d][i] /\ (d = day => i < n)
    BY <1>3, <1>4, <1>6, PlacesAre
  <2> QED
    BY <1>3, <2>1, <2>2
<1>8. ASSUME NEW d \in LogDays, NEW i \in Nat, NEW g, NEW k, About(g, k, d, i)
      PROVE  Before(d, i, day, n) /\ ~Before(day, n, d, i)
  <2>1. d \in Nat /\ ~(d > day)
    BY <1>1, <1>4, <1>8 DEF About, Chained, Whole, LogDays
  <2>2. d = day => i < n
    BY <1>7, <1>8
  <2> QED
    BY <1>4, <1>7, <2>1, <2>2 DEF Before
<1>9. Gone(f, kind)'
  <2>1. ASSUME NEW x \in ToSet(loop'.lines) PROVE ~(x.kind = kind /\ x.fund = f)
    <3>1. loop'.lines # <<>>
      BY <2>1 DEF ToSet
    <3>2. kind = "A" /\ loop'.lines = <<Change("B", f, checkpoint, loop.snap)>>
      BY <3>1 DEF LineOf
    <3>3. x = Change("B", f, checkpoint, loop.snap)
      BY <2>1, <3>2 DEF ToSet
    <3>4. x.kind = "B"
      BY <3>3 DEF Change, Event
    <3> QED
      BY <3>2, <3>4
  <2> QED
    BY <1>2, <2>1 DEF Gone
<1>10. ASSUME NEW g, NEW k, ~(g = f /\ k = kind) PROVE Gone(g, k)' <=> Gone(g, k)
  BY <1>2, <1>3, <1>10 DEF Gone
<1>11. \A g, k : RowOf(g)' = RowOf(g) /\ (Seen(g, k)' <=> Seen(g, k))
  BY <1>2 DEF RowOf, Seen
<1>12. ASSUME NEW g \in Funds, NEW k \in {"A", "B"}, NEW line, LineFits(g, k, line)
       PROVE  LineFits(g, k, line)'
  <2>1. Seen(g, k) \/ Gone(g, k) => Seen(g, k)' \/ Gone(g, k)'
    BY <1>9, <1>10, <1>11
  <2>2. /\ line.at \in Nat /\ line.at <= now
        /\ line.at = loop.at => Seen(g, k) \/ Gone(g, k)
        /\ ValueOf(k, checkpoint[g]) # NoValue
    BY <1>2, <1>12 DEF LineFits
  <2>3. /\ line.at <= now' /\ ValueOf(k, checkpoint'[g]) # NoValue
        /\ line.at = loop'.at => Seen(g, k)' \/ Gone(g, k)'
    BY <1>2, <2>1, <2>2
  <2> QED
    BY <1>2, <2>2, <2>3 DEF LineFits
<1>13. LineFits(f, kind, e)'
  BY <1>2, <1>3, <1>9 DEF LineFits
<1>14. ASSUME NEW g \in Funds, NEW k \in {"A", "B"} PROVE ChainOf(g, k)'
  <2> DEFINE new == g = f /\ k = kind
  <2>1. ChainOf(g, k)
    BY DEF Chained
  <2>2. \A d \in LogDays, i \in Nat : About(g, k, d, i)' => LineFits(g, k, log[d][i])'
    BY <1>7, <1>12, <1>13, <2>1 DEF ChainOf
  <2>3. CASE ~new
    <3>1. \A d \in LogDays, i \in Nat : About(g, k, d, i)' <=> About(g, k, d, i)
      BY <1>7, <2>3
    <3>2. Current(g, k)' = Current(g, k)
      BY <1>2, <1>10, <1>11, <2>3 DEF Current
    <3>3. ASSUME NEW d \in LogDays, NEW i \in Nat, LastPlace(g, k, d, i)'
          PROVE  log'[d][i].new = Current(g, k)'
      <4>1. LastPlace(g, k, d, i)
        BY <3>1, <3>3 DEF LastPlace, Before
      <4> QED
        BY <1>7, <2>1, <3>2, <4>1 DEF ChainOf, LastPlace
    <3>4. Linked(g, k)'
      <4> SUFFICES ASSUME NEW a \in LogDays, NEW b \in LogDays, NEW i \in Nat, NEW j \in Nat,
                          About(g, k, a, i)', About(g, k, b, j)', Before(a, i, b, j),
                          ~\E c \in LogDays, m \in Nat :
                             /\ About(g, k, c, m)'
                             /\ Before(a, i, c, m) /\ Before(c, m, b, j)
                   PROVE  log'[a][i].new = log'[b][j].old
        BY DEF Linked, Before
      <4>1. log[a][i].new = log[b][j].old
        BY <2>1, <3>1 DEF ChainOf, Linked
      <4> QED
        BY <1>7, <3>1, <4>1
    <3> QED
      BY <2>2, <3>3, <3>4 DEF ChainOf
  <2>4. CASE new
    <3>1. \A d \in LogDays, i \in Nat :
             About(g, k, d, i)' <=> About(g, k, d, i) \/ (d = day /\ i = n)
      BY <1>7, <2>4
    <3>2. Current(g, k)' = e.new /\ Current(g, k) = e.old
      BY <1>2, <1>3, <1>9, <1>11, <2>4 DEF Current
    <3>3. About(g, k, day, n)'
      BY <1>4, <1>7, <3>1
    <3>4. ASSUME NEW d \in LogDays, NEW i \in Nat, LastPlace(g, k, d, i)'
          PROVE  log'[d][i].new = Current(g, k)'
      <4>1. About(g, k, d, i)' /\ ~Before(d, i, day, n)
        BY <1>4, <1>7, <3>3, <3>4 DEF LastPlace, Before
      <4>2. d = day /\ i = n
        BY <1>8, <3>1, <4>1
      <4> QED
        BY <1>7, <3>2, <4>2
    <3>5. Linked(g, k)'
      <4> SUFFICES ASSUME NEW a \in LogDays, NEW b \in LogDays, NEW i \in Nat, NEW j \in Nat,
                          About(g, k, a, i)', About(g, k, b, j)', Before(a, i, b, j),
                          ~\E c \in LogDays, m \in Nat :
                             /\ About(g, k, c, m)'
                             /\ Before(a, i, c, m) /\ Before(c, m, b, j)
                   PROVE  log'[a][i].new = log'[b][j].old
        BY DEF Linked, Before
      <4>1. ~Before(day, n, day, n)
        BY <1>4, <1>7 DEF Before
      <4>2. About(g, k, a, i)
        BY <1>8, <3>1, <4>1
      <4>3. CASE About(g, k, b, j)
        <5>1. log[a][i].new = log[b][j].old
          BY <2>1, <3>1, <4>2, <4>3 DEF ChainOf, Linked
        <5> QED
          BY <1>7, <4>2, <4>3, <5>1
      <4>4. CASE b = day /\ j = n
        <5>1. LastPlace(g, k, a, i)
          BY <1>8, <3>1, <4>2, <4>4 DEF LastPlace
        <5>2. log[a][i].new = e.old
          BY <2>1, <3>2, <5>1 DEF ChainOf
        <5> QED
          BY <1>7, <4>2, <4>4, <5>2
      <4> QED
        BY <3>1, <4>3, <4>4
    <3> QED
      BY <2>2, <3>4, <3>5 DEF ChainOf
  <2> QED
    BY <2>3, <2>4
<1>15. Whole'
  <2>1. ASSUME NEW d \in LogDays
        PROVE  /\ Torn \notin ToSet(log'[d]) /\ Glued \notin ToSet(log'[d])
               /\ d > day => log'[d] = <<>>
    <3>1. CASE d # day
      BY <1>1, <1>4, <1>5, <3>1 DEF Chained, Whole
    <3>2. CASE d = day
      <4>1. e # Torn /\ e # Glued
        <5>1. e.kind # Torn.kind /\ e.kind # Glued.kind
          BY <1>3 DEF Torn, Glued
        <5> QED
          BY <5>1
      <4>2. ToSet(Append(log[day], e)) = ToSet(log[day]) \cup {e}
        BY <1>4, AppendHas
      <4>3. log'[d] = Append(log[day], e) /\ ~(d > day)
        BY <1>4, <1>5, <3>2
      <4>4. Torn \notin ToSet(log[day]) /\ Glued \notin ToSet(log[day])
        BY <1>4 DEF Chained, Whole
      <4> QED
        BY <4>1, <4>2, <4>3, <4>4
    <3> QED
      BY <3>1, <3>2
  <2>2. Day(now)' = day
    BY <1>1, <1>2 DEF Day
  <2> QED
    BY <2>1, <2>2 DEF Whole
<1> QED
  BY <1>14, <1>15 DEF Chained

\* What was told is noted.
LEMMA CheckpointChains == ASSUME TellInv, Chained, CheckpointPersist PROVE Chained'
<1>1. SnapFits /\ BookFits
  BY DEF TellInv
<1>2. /\ loop.pc = "append" /\ loop.todo = {} /\ loop.lines = <<>>
      /\ log' = log /\ now' = now /\ loop'.pc = "candidate"
      /\ loop'.states = loop.states /\ loop'.at = loop.at
      /\ \A f \in Funds : checkpoint'[f] = Noted(checkpoint[f], RowOf(f))
  BY <1>1, CheckpointIs DEF RowOf
<1>3. ASSUME NEW f \in Funds, NEW kind \in {"A", "B"} PROVE ChainOf(f, kind)'
  <2>1. RowOf(f) \in Rows /\ checkpoint[f] \in Note /\ RowOf(f)' = RowOf(f)
    BY <1>1, <1>2, RowsAre DEF SnapFits, BookFits, RowOf
  <2>2. ValueOf(kind, checkpoint'[f]) =
           IF Tells(kind, RowOf(f)) THEN ValueOf(kind, RowOf(f))
           ELSE ValueOf(kind, checkpoint[f])
    BY <1>2, <2>1, NotedIs
  <2>3. Gone(f, kind) /\ ~Gone(f, kind)'
    BY <1>2 DEF Gone, ToSet
  <2>4. Current(f, kind)' = Current(f, kind)
    <3>1. Current(f, kind)' = ValueOf(kind, checkpoint'[f])
      BY <2>3 DEF Current
    <3> QED
      BY <2>2, <2>3, <3>1 DEF Current
  <2>5. Seen(f, kind)'
    <3>1. Tells(kind, RowOf(f)) => ValueOf(kind, RowOf(f)) = ValueOf(kind, checkpoint'[f])
      BY <2>2
    <3> QED
      BY <2>1, <3>1 DEF Seen
  <2>6. Tells(kind, RowOf(f)) => ValueOf(kind, RowOf(f)) # NoValue
    <3>1. kind = "A" \/ kind = "B"
      OBVIOUS
    <3> QED
      BY <3>1, LofConstants DEF Tells, ValueOf, Reliable, LimitKnown
  <2>7. ASSUME NEW line, LineFits(f, kind, line) PROVE LineFits(f, kind, line)'
    <3>1. ValueOf(kind, checkpoint'[f]) # NoValue
      BY <2>2, <2>6, <2>7 DEF LineFits
    <3>2. line.at \in Nat /\ line.at <= now'
      BY <1>2, <2>7 DEF LineFits
    <3> QED
      BY <1>2, <2>5, <3>1, <3>2 DEF LineFits
  <2> QED
    BY <1>2, <2>4, <2>7, ChainStays DEF Chained
<1>4. Whole'
  BY <1>2 DEF Chained, Whole, Day
<1> QED
  BY <1>3, <1>4 DEF Chained

\* Steps beside the loop read and write nothing the chain depends on.
LEMMA BesideChains ==
    ASSUME Chained, UNCHANGED <<now, loop, checkpoint, log>> PROVE Chained'
<1>1. ASSUME NEW f \in Funds, NEW kind \in {"A", "B"} PROVE ChainOf(f, kind)'
  <2>1. /\ Seen(f, kind)' <=> Seen(f, kind)
        /\ Gone(f, kind)' <=> Gone(f, kind)
        /\ Current(f, kind)' = Current(f, kind)
    BY DEF Seen, RowOf, Gone, Current
  <2>2. ASSUME NEW line PROVE LineFits(f, kind, line)' <=> LineFits(f, kind, line)
    BY <2>1 DEF LineFits
  <2> QED
    BY <2>1, <2>2, ChainStays DEF Chained
<1> QED
  BY <1>1 DEF Chained, Whole, Day

\* Before the first line there is nothing to chain.
LEMMA ChainStarts == LofInit => Chained
<1> SUFFICES ASSUME LofInit PROVE Chained
  OBVIOUS
<1>1. \A d \in LogDays : log[d] = <<>>
  BY DEF LofInit
<1>2. \A d \in LogDays, i \in Nat : \A f, kind : ~About(f, kind, d, i)
  BY <1>1 DEF About
<1>3. \A f, kind : ChainOf(f, kind)
  BY <1>2 DEF ChainOf, LastPlace, Linked
<1>4. Whole
  BY <1>1 DEF Whole, ToSet
<1> QED
  BY <1>3, <1>4 DEF Chained

\* A step leaves the chain whole, or ends the observation between its lines and its
\* checkpoint.
LEMMA ChainStep ==
    ASSUME TellInv, TellInv', ~cut => Chained, [LofNext]_lofVars, ~cut' PROVE Chained'
<1>1. SnapFits /\ SnapFits'
  BY DEF TellInv
<1>2. CASE UNCHANGED lofVars \/ (\E f \in Funds : Company(f)) \/ BuildDaily(Day(now))
           \/ JobCollect \/ JobPersist
  BY <1>2, BesideChains DEF lofVars, reminder, Company, BuildDaily, JobCollect, JobPersist
<1>3. CASE /\ loop.pc # "append"
           /\ \/ StartLoop \/ RefreshSession \/ RefreshLanes \/ CollectSnapshot
              \/ SnapshotFails \/ Persist \/ CandidatePersist \/ Sleep \/ Stop
              \/ LoopKilled \/ ObserveStart \/ ObserveRaises
  BY <1>1, <1>3, QuietSteps, QuietKeeps
<1>4. CASE NextRow
  <2>1. PICK f \in Funds : NextRowOf(f)
    BY <1>1, <1>4, NextRowIs
  <2>2. ~cut
    BY <2>1 DEF NextRowOf
  <2> QED
    BY <2>1, <2>2, NextRowChains
<1>5. CASE AppendEvent
  <2>1. PICK f \in Funds, kind \in {"A", "B"} : LineOf(f, kind)
    BY <1>5, AppendIs
  <2>2. ~cut
    BY <2>1 DEF LineOf
  <2> QED
    BY <2>1, <2>2, LineChains
<1>6. CASE CheckpointPersist
  BY <1>6, CheckpointChains DEF CheckpointPersist
<1>7. CASE KilledWriting \/ (loop.pc = "append" /\ (LoopKilled \/ ObserveRaises))
  <2>1. cut'
    BY <1>7, Zenon DEF KilledWriting, LoopKilled, ObserveRaises
  <2> QED
    BY <2>1
<1>8. ASSUME StartLoop \/ RefreshSession \/ RefreshLanes \/ CollectSnapshot \/ SnapshotFails
             \/ Persist \/ CandidatePersist \/ Sleep \/ Stop \/ ObserveStart
      PROVE  loop.pc # "append"
  BY <1>8 DEF StartLoop, RefreshSession, RefreshLanes, CollectSnapshot, SnapshotFails,
     Persist, CandidatePersist, Sleep, Stop, ObserveStart
<1> QED
  BY <1>2, <1>3, <1>4, <1>5, <1>6, <1>7, <1>8 DEF LofNext, LoopStep

\* As long as no observation ended between its lines and its checkpoint, each change of
\* a fund starts from where the change before it ended, whatever was written on the days,
\* suspensions and failed readings between them (daily_reminder.py:238-322).
THEOREM ChangesChain == LofSpec => []EventsChain
<1>1. LofInit => ChainInv
  BY TellStarts, ChainStarts DEF ChainInv
<1>2. ASSUME TellInv, TellInv', ChainInv, [LofNext]_lofVars PROVE ChainInv'
  BY <1>2, ChainStep DEF ChainInv
<1>3. ASSUME ChainInv PROVE EventsChain
  <2> SUFFICES ASSUME ~cut, NEW f \in Funds, NEW kind \in {"A", "B"},
                      NEW d \in LogDays, NEW e \in LogDays,
                      NEW i \in DOMAIN log[d], NEW j \in DOMAIN log[e],
                      About(f, kind, d, i), About(f, kind, e, j), Before(d, i, e, j),
                      ~\E c \in LogDays : \E k \in DOMAIN log[c] :
                         About(f, kind, c, k) /\ Before(d, i, c, k) /\ Before(c, k, e, j)
               PROVE  log[d][i].new = log[e][j].old
    BY DEF EventsChain
  <2>1. \A c \in LogDays : DOMAIN log[c] \subseteq Nat
    BY <1>3 DEF ChainInv, TellInv, BookFits
  <2>2. \A c \in LogDays, k \in Nat : About(f, kind, c, k) => k \in DOMAIN log[c]
    BY DEF About
  <2>3. Linked(f, kind)
    BY <1>3 DEF ChainInv, Chained, ChainOf
  <2>4. i \in Nat /\ j \in Nat
    BY <2>1
  <2> QED
    BY <2>2, <2>3, <2>4 DEF Linked
<1> QED
  BY TellHolds, <1>1, <1>2, <1>3, PTL DEF LofSpec
=============================================================================
