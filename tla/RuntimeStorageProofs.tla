-------------------------- MODULE RuntimeStorageProofs --------------------------
(***************************************************************************)
(* Theorems about RuntimeStorage, for any paths, facts, snapshots and       *)
(* bounds.                                                                  *)
(*                                                                          *)
(* With one shadow stage that nothing cuts off, the feed SQLite keeps is a  *)
(* ChangeFeed, because nothing writes the states of the database between    *)
(* the capture and the sync.  With processes one after the other - any of   *)
(* them killed anywhere - SQLite becomes the read source only after enough  *)
(* passes: every copy of the status file is still the file when it is       *)
(* written back, and the file never counts more passes than there were.     *)
(* Bindings name the answer to their question because only the entry of an  *)
(* episode may take the result of another question, and its key says when it *)
(* was asked: whatever is answered again keeps a result under its own id.   *)
(***************************************************************************)
EXTENDS RuntimeStorage, TLAPS

-----------------------------------------------------------------------------
(* The feed.                                                                *)

Undisturbed(s) == Shadows = {s} /\ Faults \subseteq {"cutoff"}

\* What the stage captured is what the sync finds.
Captured(s) ==
    /\ DOMAIN spc = Shadows /\ DOMAIN sprev = Shadows /\ DOMAIN scope = Paths
    /\ spc[s] = "sync" => sprev[s] = scope

LEMMA SeenIsScope ==
    ASSUME NEW s, Undisturbed(s), Captured(s), NEW p
    PROVE  Seen(p) = IF spc[s] = "changes" THEN sprev[s][p] ELSE scope[p]
<1>1. CASE spc[s] = "changes"
  <2>1. {t \in Shadows : spc[t] = "changes"} = {s}
    BY <1>1 DEF Undisturbed
  <2>2. (CHOOSE t \in {s} : TRUE) = s
    OBVIOUS
  <2> QED
    BY <1>1, <2>1, <2>2 DEF Seen
<1>2. CASE spc[s] # "changes"
  BY <1>2 DEF Undisturbed, Seen
<1> QED
  BY <1>1, <1>2

LEMMA SeenIsScopeNext ==
    ASSUME NEW s, Undisturbed(s), Captured(s)', NEW p
    PROVE  Seen(p)' = IF spc'[s] = "changes" THEN sprev'[s][p] ELSE scope'[p]
<1>1. CASE spc'[s] = "changes"
  <2>1. {t \in Shadows : spc'[t] = "changes"} = {s}
    BY <1>1 DEF Undisturbed
  <2>2. (CHOOSE t \in {s} : TRUE) = s
    OBVIOUS
  <2> QED
    BY <1>1, <2>1, <2>2 DEF Seen
<1>2. CASE spc'[s] # "changes"
  BY <1>2 DEF Undisturbed, Seen
<1> QED
  BY <1>1, <1>2
LEMMA CapturedInit == ASSUME NEW s, Undisturbed(s), Init PROVE Captured(s)
  BY DEF Init, Captured, Undisturbed

\* The steps of the stage, by what they do to the states it captured and compares.
Quiet(s) ==
    \/ ShadowPool(s) \/ ShadowRead(s) \/ ShadowParity(s) \/ ShadowProjection(s)
    \/ ShadowRaises(s) \/ ShadowWrite(s) \/ ShadowWriteError(s) \/ ShadowArtifact(s)

LEMMA StepsOf ==
    ASSUME NEW s, Undisturbed(s), [Next]_vars
    PROVE  \/ ShadowCapture(s) \/ ShadowSync(s) \/ ShadowChanges(s) \/ Quiet(s)
           \/ UNCHANGED <<scope, feed, spc, sprev>>
<1>1. ~ShadowKilled(s)
  BY DEF ShadowKilled, Undisturbed
<1>2. RuntimeStep \/ CheckStep \/ SwitchStep \/ UNCHANGED vars
        => UNCHANGED <<scope, feed, spc, sprev>>
  BY DEF RuntimeStep, Publish, Ask, Reuse, Answer, AnswerCutOff, CheckStep, CheckRead, CheckWrite,
         CheckKilled, SwitchStep, Prepare, SwitchStart, SwitchGate, SwitchWrite, vars,
         mirror, shadow
<1> QED
  BY <1>1, <1>2 DEF Next, ShadowStep, Quiet, Undisturbed

LEMMA QuietSteps ==
    ASSUME NEW s, Undisturbed(s), Captured(s), Quiet(s)
    PROVE  /\ UNCHANGED <<scope, feed>>
           /\ DOMAIN spc' = Shadows /\ DOMAIN sprev' = Shadows
           /\ spc[s] # "changes" /\ spc'[s] \notin {"sync", "changes"}
  BY DEF Quiet, Undisturbed, Captured, ShadowPool, ShadowRead, ShadowParity,
         ShadowProjection, ShadowRaises, ShadowWrite, ShadowWriteError, ShadowArtifact, Goto,
         Idle, mirror, feed

LEMMA CapturedNext ==
    ASSUME NEW s, Undisturbed(s), Captured(s), [Next]_vars
    PROVE  Captured(s)'
<1>1. CASE ShadowCapture(s)
  BY <1>1 DEF ShadowCapture, Goto, Captured, Undisturbed, mirror
<1>2. CASE ShadowSync(s)
  BY <1>2 DEF ShadowSync, Goto, Captured, Undisturbed
<1>3. CASE ShadowChanges(s)
  BY <1>3 DEF ShadowChanges, Goto, Captured, Undisturbed, mirror
<1>4. CASE Quiet(s)
  BY <1>4, QuietSteps DEF Captured
<1>5. CASE UNCHANGED <<scope, feed, spc, sprev>>
  BY <1>5 DEF Captured
<1> QED
  BY <1>1, <1>2, <1>3, <1>4, <1>5, StepsOf

\* The writer of changes enters exactly what became of the captured states.
LEMMA ChangesAreAStep ==
    ASSUME NEW s, Undisturbed(s), Captured(s), Captured(s)', ShadowChanges(s)
    PROVE  Feed!Step
<1> DEFINE new == Transitions(sprev[s], scope)
<1>1. /\ spc[s] = "changes" /\ spc'[s] = "parity"
      /\ changes' = changes \cup new /\ reminders' = reminders \cup Links(new)
      /\ UNCHANGED scope
  BY DEF ShadowChanges, Goto, Captured, Undisturbed, mirror
<1>2. \A p \in Paths : Seen(p) = sprev[s][p] /\ Seen(p)' = scope[p]
  BY <1>1, SeenIsScope, SeenIsScopeNext
<1>3. \A c \in new : /\ c.path \in Paths /\ c.to = scope[c.path].row.econ
                      /\ c.from = sprev[s][c.path].row.econ
                      /\ c.to \in {"KEEP", "DROP"} /\ c.to # c.from
  BY DEF Transitions, Transition
<1>4. \A p \in Paths : scope[p].row.econ \in {"KEEP", "DROP"}
                          /\ scope[p].row.econ # sprev[s][p].row.econ
                       => \E c \in new : c.path = p
  <2>1. ASSUME NEW p \in Paths, scope[p].row.econ \in {"KEEP", "DROP"},
               sprev[s][p].row.econ # scope[p].row.econ
        PROVE  Transition(p, sprev[s][p], scope[p]) \in new
    BY <2>1 DEF Transitions
  <2>2. \A p : Transition(p, sprev[s][p], scope[p]).path = p
    BY DEF Transition
  <2> QED
    BY <2>1, <2>2
<1>5. {l.change : l \in reminders'} =
        {l.change : l \in reminders} \cup {c \in new : c.to = "DROP" /\ c.attention}
  <2>1. {l.change : l \in Links(new)} = {c \in new : c.to = "DROP" /\ c.attention}
    <3>1. \A l \in Links(new) : l.change \in new /\ Immediate(l.change)
      BY DEF Links
    <3>2. ASSUME NEW c \in new, Immediate(c)
          PROVE  \E l \in Links(new) : l.change = c
      <4>1. [group |-> GroupOf(c), change |-> c] \in Links(new)
        BY <3>2 DEF Links
      <4> QED
        BY <4>1
    <3> HIDE DEF new
    <3> QED
      BY <3>1, <3>2 DEF Immediate
  <2> QED
    BY <1>1, <2>1
<1> HIDE DEF new
<1>6. Feed!Enters([p \in Paths |-> Seen(p)'.row.econ], new)
  BY <1>2, <1>3, <1>4 DEF Feed!Enters, Feed!Moved
<1> QED
  BY <1>1, <1>5, <1>6 DEF Feed!Step

LEMMA FeedNext ==
    ASSUME NEW s, Undisturbed(s), Captured(s), Captured(s)', [Next]_vars
    PROVE  [Feed!Step]_<<[p \in Paths |-> Seen(p).row.econ], changes,
                         {l.change : l \in reminders}>>
<1>1. ASSUME UNCHANGED feed, \A p \in Paths : Seen(p)' = Seen(p)
      PROVE  UNCHANGED <<[p \in Paths |-> Seen(p).row.econ], changes,
                         {l.change : l \in reminders}>>
  BY <1>1 DEF feed
<1>2. \A p : /\ Seen(p) = IF spc[s] = "changes" THEN sprev[s][p] ELSE scope[p]
             /\ Seen(p)' = IF spc'[s] = "changes" THEN sprev'[s][p] ELSE scope'[p]
  BY SeenIsScope, SeenIsScopeNext
<1>3. CASE ShadowCapture(s)
  <2>1. UNCHANGED <<scope, feed>> /\ spc[s] # "changes" /\ spc'[s] # "changes"
    BY <1>3 DEF ShadowCapture, Goto, Captured, Undisturbed, mirror, feed
  <2> QED
    BY <1>1, <1>2, <2>1
<1>4. CASE ShadowSync(s)
  <2>1. UNCHANGED <<sprev, feed>> /\ spc[s] = "sync" /\ spc'[s] = "changes"
    BY <1>4 DEF ShadowSync, Goto, Captured, Undisturbed, feed
  <2>2. sprev[s] = scope
    BY <2>1 DEF Captured
  <2> QED
    BY <1>1, <1>2, <2>1, <2>2
<1>5. CASE ShadowChanges(s)
  BY <1>5, ChangesAreAStep
<1>6. CASE Quiet(s)
  BY <1>1, <1>2, <1>6, QuietSteps
<1>7. CASE UNCHANGED <<scope, feed, spc, sprev>>
  BY <1>1, <1>2, <1>7
<1> QED
  BY <1>3, <1>4, <1>5, <1>6, <1>7, StepsOf

\* With one shadow stage that nothing kills, whether answers are cut off or not:
\* every economic change the sync makes is entered once, with the right ends, and
\* exits are told of (incremental_storage_shadow.py:57-97).
THEOREM FeedIsKept == ASSUME NEW s, Undisturbed(s) PROVE Spec => FeedSpec
<1>1. Init => Feed!Init
  BY DEF Init, Feed!Init, Seen, NoScope, AbsentRow
<1>2. Init => Captured(s)
  BY CapturedInit
<1>3. Captured(s) /\ [Next]_vars => Captured(s)'
  BY CapturedNext
<1>4. Captured(s) /\ Captured(s)' /\ [Next]_vars =>
        [Feed!Step]_<<[p \in Paths |-> Seen(p).row.econ], changes,
                      {l.change : l \in reminders}>>
  BY FeedNext
<1> QED
  BY <1>1, <1>2, <1>3, <1>4, PTL DEF Spec, FeedSpec, Feed!Spec, Feed!Steps
-----------------------------------------------------------------------------
(* The read source.                                                         *)

\* One process at a time.
Alone ==
    /\ kpc # "idle" => opc = "idle" /\ \A s \in Shadows : Idle(s)
    /\ opc # "idle" => kpc = "idle" /\ \A s \in Shadows : Idle(s)
    /\ \A s, t \in Shadows : Idle(s) \/ Idle(t) \/ s = t

\* A copy of the status file is the file until the copy is written back.
Holding == Auditing \cup {"write", "write_error"}
Copies ==
    /\ kpc # "idle" => kfile = file
    /\ opc # "idle" => ofile = file
    /\ \A s \in Shadows : spc[s] \in Holding => sfile[s] = file

\* The file counts no pass that did not happen.
Counted ==
    /\ {"primary", "snap", "streak", "moves"} \subseteq DOMAIN file
    /\ DOMAIN honest = {"snap", "passes"}
    /\ file.streak \in Nat /\ honest.passes \in Nat
    /\ file.streak <= honest.passes /\ file.snap = honest.snap

Gated == opc = "write" /\ otarget = SQLITE => honest.passes >= MinPasses

Maps == DOMAIN spc = Shadows /\ DOMAIN sfile = Shadows

IInv == Maps /\ Alone /\ Copies /\ Counted /\ Gated

LEMMA InvInit == Init => IInv
<1> SUFFICES ASSUME Init PROVE IInv
  OBVIOUS
<1>1. Counted
  BY DEF Init, NewFile, Counted
<1> QED
  BY <1>1 DEF Init, IInv, Maps, Alone, Copies, Gated, Idle, Holding, Auditing

\* Steps that touch neither the file nor a copy of it.
LEMMA Beside ==
    ASSUME IInv, UNCHANGED <<file, honest, spc, sfile, kpc, kfile, opc, ofile, otarget>>
    PROVE  IInv'
  BY DEF IInv, Maps, Alone, Copies, Counted, Gated, Idle

\* A stage that goes on, with the copy it has, or with one it just took, or ends.
LEMMA StageMoves ==
    ASSUME IInv, NEW s \in Shadows, NEW label,
           UNCHANGED <<file, honest, kpc, kfile, opc, ofile, otarget>>,
           ~Idle(s) \/ MayStart, ~Overlap,
           spc' = [spc EXCEPT ![s] = label],
           \A t \in Shadows \ {s} : sfile'[t] = sfile[t], DOMAIN sfile' = Shadows,
           label \in Holding => sfile'[s] = file
    PROVE  IInv'
<1>1. Maps'
  BY DEF IInv, Maps
<1>2. Alone'
  BY DEF IInv, Maps, Alone, MayStart, Idle
<1>3. Copies'
  BY DEF IInv, Maps, Copies
<1> QED
  BY <1>1, <1>2, <1>3 DEF IInv, Counted, Gated

\* A stage that writes its copy of the file back, which is the file.
LEMMA StageWrites ==
    ASSUME IInv, ~Overlap, NEW s \in Shadows, ShadowWrite(s) \/ ShadowWriteError(s)
    PROVE  IInv' /\ file'.primary = file.primary
<1>1. /\ spc[s] \in Holding /\ ~Idle(s)
      /\ spc' = [spc EXCEPT ![s] = "artifact"]
      /\ UNCHANGED <<sfile, kpc, kfile, opc, ofile, otarget>>
  BY DEF ShadowWrite, ShadowWriteError, Goto, Holding, Idle, checker, oper
<1>2. sfile[s] = file
  BY <1>1 DEF IInv, Copies
<1>3. kpc = "idle" /\ opc = "idle" /\ \A t \in Shadows : t # s => Idle(t)
  BY <1>1 DEF IInv, Alone
<1>4. Counted' /\ file'.primary = file.primary
  <2>1. CASE ShadowWriteError(s)
    <3>1. /\ file' = [file EXCEPT !.sync = "FAIL", !.streak = 0]
          /\ honest' = [honest EXCEPT !.passes = 0]
      BY <1>2, <2>1 DEF ShadowWriteError, Errored
    <3> QED
      BY <3>1 DEF IInv, Counted
  <2>2. CASE ShadowWrite(s) /\ AuditPasses(saudit[s])
    <3> DEFINE a == saudit[s]
    <3>1. /\ file' = Passed(file, a)
          /\ honest' = [snap |-> a.snap,
                        passes |-> honest.passes + IF a.snap # honest.snap THEN 1 ELSE 0]
      BY <1>2, <2>2 DEF ShadowWrite
    <3>2. /\ DOMAIN file' = DOMAIN file
          /\ file'.primary = file.primary /\ file'.snap = a.snap
          /\ file'.streak = IF a.snap # file.snap THEN file.streak + 1 ELSE file.streak
      BY <3>1 DEF Passed, IInv, Counted
    <3> QED
      BY <3>1, <3>2 DEF IInv, Counted
  <2>3. CASE ShadowWrite(s) /\ ~AuditPasses(saudit[s])
    <3> DEFINE a == saudit[s]
    <3>1. file' = Failed(file, a) /\ honest' = [snap |-> a.snap, passes |-> 0]
      BY <1>2, <2>3 DEF ShadowWrite
    <3>2. /\ DOMAIN file' = DOMAIN file
          /\ file'.primary = file.primary /\ file'.snap = a.snap /\ file'.streak = 0
      BY <3>1 DEF Failed, IInv, Counted
    <3> QED
      BY <3>1, <3>2 DEF IInv, Counted
  <2> QED
    BY <2>1, <2>2, <2>3
<1>5. Maps' /\ Alone' /\ Copies' /\ Gated'
  BY <1>1, <1>3 DEF IInv, Maps, Alone, Copies, Gated, Idle, Holding, Auditing
<1> QED
  BY <1>4, <1>5 DEF IInv

LEMMA StageKeeps ==
    ASSUME IInv, ~Overlap, NEW s \in Shadows, ShadowStep(s) \/ ShadowKilled(s)
    PROVE  IInv' /\ file'.primary = file.primary
<1> USE DEF checker, oper, Goto
<1>1. CASE ShadowWrite(s) \/ ShadowWriteError(s)
  BY <1>1, StageWrites
<1>2. CASE ShadowPool(s)
  BY <1>2, StageMoves DEF ShadowPool, IInv, Maps, Holding, Auditing
<1>3. CASE ShadowRead(s)
  BY <1>3, StageMoves DEF ShadowRead, IInv, Maps, Idle
<1>4. CASE \/ ShadowCapture(s) \/ ShadowSync(s) \/ ShadowChanges(s) \/ ShadowParity(s)
           \/ ShadowProjection(s) \/ ShadowRaises(s)
  <2>1. /\ UNCHANGED <<file, honest, kpc, kfile, opc, ofile, otarget, sfile>>
        /\ spc[s] \in Auditing
        /\ \E label \in Holding : spc' = [spc EXCEPT ![s] = label]
    BY <1>4 DEF ShadowCapture, ShadowSync, ShadowChanges, ShadowParity, ShadowProjection,
                ShadowRaises, Auditing, Holding
  <2>2. ~Idle(s) /\ sfile[s] = file
    BY <2>1 DEF IInv, Copies, Idle, Holding, Auditing
  <2> QED
    BY <2>1, <2>2, StageMoves DEF IInv, Maps
<1>5. CASE ShadowArtifact(s) \/ ShadowKilled(s)
  <2>1. /\ UNCHANGED <<file, honest, kpc, kfile, opc, ofile, otarget>> /\ ~Idle(s)
        /\ spc' = [spc EXCEPT ![s] = "idle"] /\ sfile' = [sfile EXCEPT ![s] = NewFile]
    BY <1>5 DEF ShadowArtifact, ShadowKilled, Idle
  <2> QED
    BY <2>1, StageMoves DEF IInv, Maps, Holding, Auditing
<1> QED
  BY <1>1, <1>2, <1>3, <1>4, <1>5 DEF ShadowStep

LEMMA CheckKeeps ==
    ASSUME IInv, ~Overlap, CheckStep
    PROVE  IInv' /\ file'.primary = file.primary
<1> USE DEF shadow, oper
<1>1. CASE CheckRead
  BY <1>1 DEF CheckRead, MayStart, IInv, Maps, Alone, Copies, Counted, Gated, Idle
<1>2. CASE CheckWrite
  <2>1. file' = file /\ kpc' = "idle" /\ UNCHANGED <<honest, spc, sfile, opc, ofile, otarget>>
    BY <1>2 DEF CheckWrite, IInv, Copies
  <2> QED
    BY <2>1 DEF IInv, Maps, Alone, Copies, Counted, Gated, Idle
<1>3. CASE CheckKilled
  BY <1>3 DEF CheckKilled, IInv, Maps, Alone, Copies, Counted, Gated, Idle
<1> QED
  BY <1>1, <1>2, <1>3 DEF CheckStep

LEMMA SwitchKeeps ==
    ASSUME IInv, ~Overlap, SwitchStep
    PROVE  /\ IInv'
           /\ file.primary = JSON /\ file'.primary = SQLITE => honest.passes >= MinPasses
<1> USE DEF shadow, checker, JSON, SQLITE
<1>1. CASE Prepare
  BY <1>1, Beside DEF Prepare, oper
<1>2. CASE \E t \in {JSON, SQLITE} : SwitchStart(t)
  BY <1>2 DEF SwitchStart, MayStart, IInv, Maps, Alone, Copies, Counted, Gated, Idle
<1>3. CASE SwitchGate
  <2>1. UNCHANGED <<file, honest, spc, sfile, kpc, kfile>> /\ opc = "gate"
    BY <1>3 DEF SwitchGate
  <2>2. CASE opc' = "idle"
    BY <2>1, <2>2 DEF IInv, Maps, Alone, Copies, Counted, Gated, Idle
  <2>3. CASE opc' # "idle"
    <3>1. /\ opc' = "write" /\ UNCHANGED <<ofile, otarget>>
          /\ otarget = SQLITE => CutoverReady
      BY <1>3, <2>3 DEF SwitchGate
    <3>2. otarget = SQLITE => honest.passes >= MinPasses
      BY <3>1, StorageBounds DEF CutoverReady, IInv, Counted
    <3> QED
      BY <2>1, <3>1, <3>2 DEF IInv, Maps, Alone, Copies, Counted, Gated, Idle
  <2> QED
    BY <2>2, <2>3
<1>4. CASE SwitchWrite
  <2>1. /\ opc = "write" /\ opc' = "idle" /\ ofile = file
        /\ file' = [file EXCEPT !.primary = otarget]
        /\ UNCHANGED <<honest, spc, sfile, kpc, kfile>>
    BY <1>4 DEF SwitchWrite, IInv, Copies
  <2>2. \A s \in Shadows : Idle(s) /\ spc[s] \notin Holding
    BY <2>1 DEF IInv, Alone, Idle, Holding, Auditing
  <2>3. kpc = "idle"
    BY <2>1 DEF IInv, Alone
  <2>4. IInv'
    BY <2>1, <2>2, <2>3 DEF IInv, Maps, Alone, Copies, Counted, Gated, Idle
  <2>5. file'.primary = otarget
    BY <2>1 DEF IInv, Counted
  <2> QED
    BY <2>1, <2>4, <2>5 DEF IInv, Gated
<1> QED
  BY <1>1, <1>2, <1>3, <1>4 DEF SwitchStep

LEMMA InvNext ==
    ASSUME IInv, ~Overlap, [Next]_vars
    PROVE  /\ IInv'
           /\ file.primary = JSON /\ file'.primary = SQLITE => honest.passes >= MinPasses
<1>1. JSON # SQLITE
  BY DEF JSON, SQLITE
<1>2. CASE \E s \in Shadows : ShadowStep(s) \/ ShadowKilled(s)
  BY <1>1, <1>2, StageKeeps
<1>3. CASE CheckStep
  BY <1>1, <1>3, CheckKeeps
<1>4. CASE SwitchStep
  BY <1>4, SwitchKeeps
<1>5. CASE RuntimeStep \/ UNCHANGED vars
  <2>1. UNCHANGED <<file, honest, spc, sfile, kpc, kfile, opc, ofile, otarget>>
    BY <1>5 DEF RuntimeStep, Publish, Ask, Reuse, Answer, AnswerCutOff, vars, shadow, checker, oper
  <2> QED
    BY <1>1, <2>1, Beside
<1> QED
  BY <1>2, <1>3, <1>4, <1>5 DEF Next

\* Where the processes follow one another, whatever fails or is killed: SQLite becomes
\* the read source only after enough passes in a row.
THEOREM SwitchEarned == ASSUME ~Overlap PROVE Spec => SwitchIsEarned
<1>1. Init => IInv
  BY InvInit
<1>2. IInv /\ [Next]_vars => IInv'
  BY InvNext
<1>3. IInv /\ [Next]_vars =>
        [file.primary = JSON /\ file'.primary = SQLITE => honest.passes >= MinPasses]_vars
  BY InvNext
<1> QED
  BY <1>1, <1>2, <1>3, PTL DEF Spec, SwitchIsEarned
-----------------------------------------------------------------------------
(* The bindings.                                                            *)

Bound ==
    /\ \A p \in Paths : DOMAIN bind[p] = {"cur", "key", "id", "reused", "valid"}
    /\ BoundPathsExist

LEMMA SyncBinds == ASSUME Bound, NEW s, ShadowSync(s) PROVE Bound'
<1>1. \A p \in Paths : scope'[p] = SyncedScope(p) /\ bind'[p] = SyncedBinding(p)
  BY DEF ShadowSync
<1>2. ASSUME NEW p \in Paths
      PROVE  DOMAIN bind'[p] = {"cur", "key", "id", "reused", "valid"}
  BY <1>1 DEF Bound, SyncedBinding, BindingOf
<1>3. ASSUME NEW p \in Paths, rt.rows[p].econ = "ABSENT" PROVE ~bind'[p].cur
  BY <1>1, <1>3 DEF Bound, SyncedBinding
<1>4. ASSUME NEW p \in Paths, rt.rows[p].econ # "ABSENT" PROVE Present(p)'
  <2>1. scope'[p].row = rt.rows[p]
    <3>1. \E i : SyncedScope(p) = [row |-> rt.rows[p], soft |-> rt.soft[p],
                                   snap |-> rt.snap, identity |-> i]
      BY <1>4, Zenon DEF SyncedScope
    <3> QED
      BY <1>1, <3>1
  <2> QED
    BY <1>4, <2>1 DEF Present, NoScope, AbsentRow
<1> QED
  BY <1>2, <1>3, <1>4 DEF Bound, BoundPathsExist

\* Whatever overlaps, fails or is killed: what leaves the universe takes its binding
\* along (incremental_storage_sync.py:128-163).
THEOREM BoundExist == Spec => []BoundPathsExist
<1>1. Init => Bound
  BY DEF Init, NoBinding, Bound, BoundPathsExist
<1>2. Bound /\ [Next]_vars => Bound'
  <2> SUFFICES ASSUME Bound, [Next]_vars PROVE Bound'
    OBVIOUS
  <2>1. CASE \E s \in Shadows : ShadowSync(s)
    BY <2>1, SyncBinds
  <2>2. CASE UNCHANGED <<scope, bind>>
    BY <2>2 DEF Bound, BoundPathsExist, Present
  <2>3. (\E s \in Shadows : ShadowSync(s)) \/ UNCHANGED <<scope, bind>>
    BY DEF Next, RuntimeStep, Publish, Ask, Reuse, Answer, AnswerCutOff, ShadowStep, ShadowPool, ShadowRead,
           ShadowCapture, ShadowChanges, ShadowParity, ShadowProjection, ShadowRaises,
           ShadowWrite, ShadowWriteError, ShadowArtifact, ShadowKilled, CheckStep, CheckRead,
           CheckWrite, CheckKilled, SwitchStep, Prepare, SwitchStart, SwitchGate, SwitchWrite,
           vars, mirror
  <2> QED
    BY <2>1, <2>2, <2>3
<1>3. Bound => BoundPathsExist
  BY DEF Bound
<1> QED
  BY <1>1, <1>2, <1>3, PTL DEF Spec

-----------------------------------------------------------------------------
(* What a binding names.  A result has the id of its own question unless it  *)
(* was reused, and only the entry of an episode reuses one.  An entry has    *)
(* the snapshot in its key, so it is asked once; whatever is asked again has *)
(* its own result, and answering it again keeps the id.                      *)

\* The facts know the band of a path that is kept for its maturity.
BandFacts ==
    \A p \in Paths : Kind[p] = MATURITY =>
        \A f \in Facts[p] : f.econ = "KEEP" => f.ev \in DOMAIN BandRank

Open == {"PENDING", "WAITING_FOR_CHAT", "CANCELLED_ECONOMIC_DROP", HOLD}

\* A question about p, of an episode that began no later than in snapshot snap.
Asked(k, p, snap) ==
    k.path = p /\ k.reason \in Reasons /\ k.episode \in Nat /\ k.episode <= snap

RowFits(row, p, snap) ==
    /\ row \in [econ : {"KEEP", "DROP", "ABSENT"}, episode : Nat, ev : {row.ev},
               price : Nat, key : {row.key}, status : Statuses, result : {row.result}]
    /\ row.econ = "KEEP" => /\ row.episode <= snap
                            /\ Kind[p] = MATURITY => row.ev \in DOMAIN BandRank
    /\ row.key # NoKey => Asked(row.key, p, snap)

\* What may still be answered has no result yet, or one of its own.
RowOpen(row, res) ==
    row.status \in Open => /\ row.key # NoKey
                           /\ row.key \in DOMAIN res => res[row.key].id = row.key

\* What was answered was asked, and only an entry may have the result of another.
ResultFits(k, snap, res) ==
    /\ k.path \in Paths /\ Asked(k, k.path, snap)
    /\ k.reason \notin KeepEntryReasons => res[k].id = k

BindFits(b, p, res, fin) ==
    /\ b \in [cur : BOOLEAN, key : {b.key}, id : {b.id}, reused : {b.reused},
             valid : {b.valid}]
    /\ b.cur => /\ b.key \in DOMAIN res /\ b.key.path = p
                /\ b.id = res[b.key].id
                /\ b.valid => b.key \in fin

RtFits == /\ rt \in [snap : Nat, rows : {rt.rows}, soft : {rt.soft}]
          /\ rt.rows = [p \in Paths |-> rt.rows[p]]
          /\ bind = [p \in Paths |-> bind[p]]

OwnResults ==
    /\ RtFits
    /\ \A p \in Paths : RowFits(rt.rows[p], p, rt.snap)
    /\ \A p \in Paths : RowOpen(rt.rows[p], results)
    /\ \A k \in DOMAIN results : ResultFits(k, rt.snap, results)
    /\ \A k \in DOMAIN results : results[k].status = "COMPLETED" => k \in finished
    /\ \A p \in Paths : BindFits(bind[p], p, results, finished)

LEMMA Bands ==
    /\ DOMAIN BandRank = DOMAIN BandReason \cup {"T_GT_12M"}
    /\ BandRank["T_GT_12M"] = 0
    /\ \A e \in DOMAIN BandRank : BandRank[e] \in Nat
    /\ \A e \in DOMAIN BandReason : BandReason[e] \in Reasons \ KeepEntryReasons
  BY DEF BandRank, BandReason, Reasons, KeepEntryReasons

LEMMA KindsDiffer == MATURITY # PUT /\ MATURITY # REVISION /\ PUT # REVISION
  BY DEF MATURITY, PUT, REVISION

\* A question derived from a row is one about its path, and the entry of an episode
\* is one of this snapshot.
LEMMA TriggerAsked ==
    ASSUME NEW p \in Paths, NEW row, NEW snap \in Nat, NEW fact, RowFits(row, p, snap),
           Kind[p] = MATURITY => fact.ev \in DOMAIN BandRank,
           NEW k, k = Trigger(p, row, fact, snap + 1), k # NoKey
    PROVE  /\ Asked(k, p, snap + 1)
           /\ k.reason \in KeepEntryReasons => k.episode = snap + 1
<1> USE KindsDiffer, Bands
<1>1. /\ Episode(row, snap + 1) \in Nat /\ Episode(row, snap + 1) <= snap + 1
      /\ ~NewEpisode(row) => row.episode \in Nat /\ row.episode <= snap + 1
  BY DEF Episode, NewEpisode, RowFits
<1>2. ASSUME NEW reason \in Reasons, NEW episode \in Nat, episode <= snap + 1, NEW d,
             k = TriggerKey(p, reason, episode, d),
             reason \in KeepEntryReasons => episode = snap + 1
      PROVE  /\ Asked(k, p, snap + 1)
             /\ k.reason \in KeepEntryReasons => k.episode = snap + 1
  BY <1>2 DEF TriggerKey, Asked
<1>3. CASE Kind[p] = MATURITY
  <2>1. k = MaturityTrigger(p, row, fact, snap + 1)
    BY <1>3 DEF Trigger
  <2>2. CASE NewEpisode(row)
    <3>1. k = TriggerKey(p, "MATURITY_KEEP_ENTRY", snap + 1, <<>>)
      BY <2>1, <2>2 DEF MaturityTrigger
    <3> QED
      BY <1>2, <3>1 DEF Reasons, KeepEntryReasons
  <2>3. CASE ~NewEpisode(row)
    <3>1. /\ BandRank[fact.ev] > BandRank[row.ev]
          /\ k = TriggerKey(p, BandReason[fact.ev], row.episode, <<>>)
      BY <2>1, <2>3 DEF MaturityTrigger
    <3>2. row.ev \in DOMAIN BandRank
      BY <1>3, <2>3 DEF NewEpisode, RowFits
    <3>3. fact.ev \in DOMAIN BandReason
      BY <1>3, <3>1, <3>2
    <3>4. BandReason[fact.ev] \in Reasons /\ BandReason[fact.ev] \notin KeepEntryReasons
      BY <3>3
    <3> QED
      BY <1>1, <1>2, <2>3, <3>1, <3>4
  <2> QED
    BY <2>2, <2>3
<1>4. CASE Kind[p] = PUT
  <2>1. k = PutTrigger(p, row, fact, snap + 1)
    BY <1>4 DEF Trigger
  <2>2. \/ k = TriggerKey(p, "PUT_KEEP_ENTRY", snap + 1, <<>>)
        \/ ~NewEpisode(row) /\ k = TriggerKey(p, "PUT_WINDOW_ENTERED", row.episode, <<>>)
    BY <2>1 DEF PutTrigger
  <2>3. /\ "PUT_KEEP_ENTRY" \in Reasons /\ "PUT_WINDOW_ENTERED" \in Reasons
        /\ "PUT_WINDOW_ENTERED" \notin KeepEntryReasons
    BY DEF Reasons, KeepEntryReasons
  <2> QED
    BY <1>1, <1>2, <2>2, <2>3
<1>5. CASE Kind[p] = REVISION
  <2>1. k = RevisionTrigger(p, row, fact, snap + 1)
    BY <1>5 DEF Trigger
  <2>2. PICK reason \in {"REVISION_PRICE_CHANGED", RevisionTriggerStates[fact.ev]},
             d \in {<<row.price, fact.price, snap + 1>>, <<snap + 1>>} :
          /\ reason = "REVISION_PRICE_CHANGED" \/ fact.ev \in DOMAIN RevisionTriggerStates
          /\ k = TriggerKey(p, reason, Episode(row, snap + 1), d)
    BY <2>1 DEF RevisionTrigger
  <2>3. reason \in Reasons /\ reason \notin KeepEntryReasons
    BY <2>2 DEF Reasons, KeepEntryReasons, RevisionTriggerStates
  <2> QED
    BY <1>1, <1>2, <2>2, <2>3
<1> QED
  BY <1>3, <1>4, <1>5, KindAssumption DEF Kinds

\* The results that were filed for one path.
About(p, snap, res) ==
    \A r \in DOMAIN res : r.path = p => ResultFits(r, snap, res)

LEMMA AbsentFits ==
    ASSUME NEW p \in Paths, NEW snap \in Nat, NEW res
    PROVE  RowFits(AbsentRow, p, snap) /\ RowOpen(AbsentRow, res)
<1>1. /\ AbsentRow.econ = "ABSENT" /\ AbsentRow.key = NoKey /\ AbsentRow.status = "NONE"
      /\ AbsentRow \in [econ : {"KEEP", "DROP", "ABSENT"}, episode : Nat, ev : {AbsentRow.ev},
                        price : Nat, key : {AbsentRow.key}, status : Statuses,
                        result : {AbsentRow.result}]
  BY DEF AbsentRow, NoEvent, Statuses
<1> QED
  BY <1>1 DEF RowFits, RowOpen, Open, HOLD

LEMMA DroppedFits ==
    ASSUME NEW p \in Paths, NEW row, NEW snap \in Nat, NEW fact, NEW res,
           RowFits(row, p, snap), RowOpen(row, res), fact.price \in Nat
    PROVE  LET new == DroppedRow(row, fact)
           IN  /\ RowFits(new, p, snap + 1) /\ RowOpen(new, res)
               /\ new.econ = "DROP"
<1> DEFINE new == DroppedRow(row, fact)
<1>1. /\ new.econ = "DROP" /\ new.key = row.key
      /\ new.status = IF row.status = "PENDING" THEN "CANCELLED_ECONOMIC_DROP"
                      ELSE row.status
      /\ new \in [econ : {"KEEP", "DROP", "ABSENT"}, episode : Nat, ev : {new.ev},
                  price : Nat, key : {new.key}, status : Statuses, result : {new.result}]
  <2>1. row \in [econ : {"KEEP", "DROP", "ABSENT"}, episode : Nat, ev : {row.ev},
                 price : Nat, key : {row.key}, status : Statuses, result : {row.result}]
    BY DEF RowFits
  <2>2. "CANCELLED_ECONOMIC_DROP" \in Statuses
    BY DEF Statuses
  <2> QED
    BY <2>1, <2>2 DEF DroppedRow
<1> HIDE DEF new
<1>3. row.key # NoKey => Asked(row.key, p, snap + 1)
  BY DEF RowFits, Asked
<1>4. RowFits(new, p, snap + 1)
  BY <1>1, <1>3 DEF RowFits
<1>5. RowOpen(new, res)
  BY <1>1 DEF RowOpen, Open, HOLD
<1> QED
  BY <1>1, <1>4, <1>5 DEF new

LEMMA KeptFits ==
    ASSUME NEW p \in Paths, NEW row, NEW snap \in Nat, NEW fact, NEW res,
           RowFits(row, p, snap), RowOpen(row, res), About(p, snap, res),
           fact.price \in Nat,
           Kind[p] = MATURITY => fact.ev \in DOMAIN BandRank
    PROVE  LET new == KeptRow(p, row, fact, snap + 1)
           IN  RowFits(new, p, snap + 1) /\ RowOpen(new, res)
<1> DEFINE new == KeptRow(p, row, fact, snap + 1)
           emits == Emits(p, row, fact, snap + 1)
           k == Trigger(p, row, fact, snap + 1)
<1>1. /\ new \in [econ : {"KEEP", "DROP", "ABSENT"}, episode : Nat, ev : {new.ev},
                  price : Nat, key : {new.key}, status : Statuses, result : {new.result}]
      /\ new.econ = "KEEP" /\ new.episode = Episode(row, snap + 1) /\ new.ev = fact.ev
      /\ new.key = IF emits THEN k ELSE row.key
      /\ new.status = IF emits THEN "PENDING" ELSE row.status
  BY DEF KeptRow, RowFits, Statuses, Episode, NewEpisode
<1>2. new.episode \in Nat /\ new.episode <= snap + 1
  BY <1>1 DEF Episode, NewEpisode, RowFits
<1>3. emits => /\ k # NoKey /\ Asked(k, p, snap + 1)
               /\ k.reason \in KeepEntryReasons => k.episode = snap + 1
  BY TriggerAsked DEF Emits
<1> HIDE DEF new, emits, k
<1>4. row.key # NoKey => Asked(row.key, p, snap + 1)
  BY DEF RowFits, Asked
<1>5. RowFits(new, p, snap + 1)
  BY <1>1, <1>2, <1>3, <1>4 DEF RowFits
<1>6. RowOpen(new, res)
  <2>1. CASE emits
    <3>1. ASSUME k \in DOMAIN res PROVE res[k].id = k
      <4>1. ResultFits(k, snap, res) /\ k.path = p
        BY <1>3, <2>1, <3>1 DEF About, Asked
      <4>2. k.reason \notin KeepEntryReasons
        BY <1>3, <2>1, <4>1 DEF ResultFits, Asked
      <4> QED
        BY <4>1, <4>2 DEF ResultFits
    <3> QED
      BY <1>1, <1>3, <2>1, <3>1 DEF RowOpen
  <2>2. CASE ~emits
    BY <1>1, <2>2 DEF RowOpen
  <2> QED
    BY <2>1, <2>2
<1> QED
  BY <1>5, <1>6 DEF new

LEMMA PublishFits == ASSUME OwnResults, BandFacts, Publish PROVE OwnResults'
<1>1. PICK f \in [Paths -> UNION {Facts[p] : p \in Paths}] :
        /\ \A p \in Paths : f[p] \in Facts[p]
        /\ rt' = [snap |-> rt.snap + 1,
                  rows |-> [p \in Paths |-> NextRow(p, rt.rows[p], f[p], rt.snap + 1)],
                  soft |-> [p \in Paths |-> f[p].econ = "DROP" /\ f[p].soft]]
  BY DEF Publish
<1>2. /\ rt'.snap = rt.snap + 1 /\ rt.snap \in Nat
      /\ \A p \in Paths : rt'.rows[p] = NextRow(p, rt.rows[p], f[p], rt.snap + 1)
      /\ UNCHANGED <<results, finished, bind>>
  BY <1>1 DEF OwnResults, RtFits, Publish, mirror
<1>3. RtFits'
  BY <1>1, <1>2 DEF OwnResults, RtFits
<1>4. ASSUME NEW p \in Paths
      PROVE  RowFits(rt'.rows[p], p, rt'.snap) /\ RowOpen(rt'.rows[p], results)
  <2> DEFINE row == rt.rows[p]
  <2>1. RowFits(row, p, rt.snap) /\ RowOpen(row, results) /\ About(p, rt.snap, results)
    BY DEF OwnResults, About
  <2>2. /\ f[p].econ \in {"KEEP", "DROP", "ABSENT"}
        /\ f[p].price \in Nat
    BY <1>1, StorageFacts DEF FactsOf
  <2>3. CASE f[p].econ = "KEEP"
    <3>1. rt'.rows[p] = KeptRow(p, row, f[p], rt.snap + 1)
      BY <1>2, <2>3 DEF NextRow
    <3>2. Kind[p] = MATURITY => f[p].ev \in DOMAIN BandRank
      BY <1>1, <2>3 DEF BandFacts
    <3> QED
      BY <1>2, <2>1, <2>2, <3>1, <3>2, KeptFits
  <2>4. CASE f[p].econ = "DROP"
    <3>1. rt'.rows[p] = DroppedRow(row, f[p])
      BY <1>2, <2>4 DEF NextRow
    <3> QED
      BY <1>2, <2>1, <2>2, <3>1, DroppedFits
  <2>5. CASE f[p].econ = "ABSENT"
    <3>1. rt'.rows[p] = AbsentRow
      BY <1>2, <2>5 DEF NextRow
    <3> QED
      BY <1>2, <3>1, AbsentFits
  <2> QED
    BY <2>2, <2>3, <2>4, <2>5
<1>5. ASSUME NEW k \in DOMAIN results PROVE ResultFits(k, rt'.snap, results)
  <2>1. ResultFits(k, rt.snap, results)
    BY DEF OwnResults
  <2> QED
    BY <1>2, <2>1 DEF ResultFits, Asked
<1>6. /\ \A k \in DOMAIN results : results[k].status = "COMPLETED" => k \in finished
      /\ \A p \in Paths : BindFits(bind[p], p, results, finished)
  BY DEF OwnResults
<1> QED
  BY <1>2, <1>3, <1>4, <1>5, <1>6 DEF OwnResults

\* A path whose row takes another status, and perhaps gets an answer.
LEMMA RowMoves ==
    ASSUME OwnResults, NEW p \in Paths, NEW status \in Statuses, NEW result, NEW res, NEW fin,
           rt' = [rt EXCEPT !.rows[p].status = status, !.rows[p].result = result],
           results' = res, finished' = fin, bind' = bind,
           DOMAIN results \subseteq DOMAIN res,
           DOMAIN res \subseteq DOMAIN results \cup {rt.rows[p].key},
           \A k \in DOMAIN results \ {rt.rows[p].key} : res[k] = results[k],
           finished \subseteq fin,
           rt.rows[p].key # NoKey,
           rt.rows[p].key \in DOMAIN res /\ res[rt.rows[p].key].status = "COMPLETED"
              => rt.rows[p].key \in fin,
           bind[p].cur /\ bind[p].key = rt.rows[p].key =>
              res[rt.rows[p].key].id = bind[p].id,
           rt.rows[p].key \in DOMAIN res /\ rt.rows[p].key.reason \notin KeepEntryReasons
              => res[rt.rows[p].key].id = rt.rows[p].key,
           RowOpen([rt.rows[p] EXCEPT !.status = status, !.result = result], res)
    PROVE  OwnResults'
<1> DEFINE row == rt.rows[p]
           new == [row EXCEPT !.status = status, !.result = result]
<1>1. /\ rt'.snap = rt.snap /\ rt'.rows[p] = new
      /\ \A q \in Paths \ {p} : rt'.rows[q] = rt.rows[q]
      /\ RtFits'
  <2>1. /\ rt \in [snap : Nat, rows : {rt.rows}, soft : {rt.soft}]
        /\ rt.rows = [q \in Paths |-> rt.rows[q]] /\ bind = [q \in Paths |-> bind[q]]
    BY DEF OwnResults, RtFits
  <2>2. /\ rt' \in [snap : Nat, rows : {rt'.rows}, soft : {rt'.soft}] /\ rt'.snap = rt.snap
        /\ rt'.rows = [q \in Paths |-> IF q = p THEN new ELSE rt.rows[q]]
    BY <2>1
  <2> HIDE DEF new
  <2> QED
    BY <2>1, <2>2 DEF RtFits
<1>2. row \in [econ : {"KEEP", "DROP", "ABSENT"}, episode : Nat, ev : {row.ev},
              price : Nat, key : {row.key}, status : Statuses, result : {row.result}]
  BY DEF OwnResults, RowFits
<1>3. /\ new.econ = row.econ /\ new.episode = row.episode /\ new.ev = row.ev
      /\ new.key = row.key
      /\ new \in [econ : {"KEEP", "DROP", "ABSENT"}, episode : Nat, ev : {new.ev},
                  price : Nat, key : {new.key}, status : Statuses, result : {new.result}]
  BY <1>2
<1>4. RowFits(row, p, rt.snap)
  BY DEF OwnResults
<1>5. RowOpen(new, res)
  OBVIOUS
<1> HIDE DEF row, new
<1>6. RowFits(new, p, rt.snap)
  BY <1>3, <1>4 DEF RowFits, row
<1>7. \A q \in Paths : RowFits(rt'.rows[q], q, rt'.snap)
  BY <1>1, <1>6 DEF OwnResults
<1>8. row.key.path = p
  BY <1>4 DEF RowFits, Asked, row
<1>9. ASSUME NEW q \in Paths PROVE RowOpen(rt'.rows[q], res)
  <2>1. CASE q = p
    BY <1>1, <1>5, <2>1
  <2>2. CASE q # p
    <3>1. rt'.rows[q] = rt.rows[q] /\ RowOpen(rt.rows[q], results)
          /\ RowFits(rt.rows[q], q, rt.snap)
      BY <1>1, <2>2 DEF OwnResults
    <3>2. rt.rows[q].key # row.key
      BY <1>8, <2>2, <3>1 DEF RowFits, Asked, row
    <3> QED
      BY <3>1, <3>2 DEF RowOpen, row
  <2> QED
    BY <2>1, <2>2
<1>10. ASSUME NEW k \in DOMAIN res PROVE ResultFits(k, rt'.snap, res)
  <2>1. CASE k = row.key
    <3>1. Asked(k, p, rt.snap) /\ k.path = p
      BY <1>4, <1>8, <2>1 DEF RowFits, row
    <3>2. k.reason \notin KeepEntryReasons => res[k].id = k
      BY <2>1 DEF row
    <3> QED
      BY <1>1, <3>1, <3>2 DEF ResultFits
  <2>2. CASE k # row.key
    <3>1. k \in DOMAIN results /\ ResultFits(k, rt.snap, results) /\ res[k] = results[k]
      BY <2>2 DEF OwnResults, row
    <3> QED
      BY <1>1, <3>1 DEF ResultFits
  <2> QED
    BY <2>1, <2>2
<1>11. ASSUME NEW q \in Paths PROVE BindFits(bind[q], q, res, fin)
  <2>1. BindFits(bind[q], q, results, finished)
    BY DEF OwnResults
  <2>2. bind[q].cur => res[bind[q].key].id = bind[q].id
    <3>1. CASE bind[q].key = row.key /\ bind[q].cur
      <4>1. q = p
        BY <1>8, <2>1, <3>1 DEF BindFits
      <4> QED
        BY <3>1, <4>1 DEF row
    <3>2. CASE bind[q].key # row.key
      BY <2>1, <3>2 DEF BindFits, row
    <3> QED
      BY <3>1, <3>2
  <2> QED
    BY <2>1, <2>2 DEF BindFits
<1>12. ASSUME NEW k \in DOMAIN res, res[k].status = "COMPLETED" PROVE k \in fin
  <2>1. CASE k = row.key
    BY <1>12, <2>1 DEF row
  <2>2. CASE k # row.key
    <3>1. k \in DOMAIN results /\ results[k].status = "COMPLETED"
      BY <1>12, <2>2 DEF row
    <3> QED
      BY <3>1 DEF OwnResults
  <2> QED
    BY <2>1, <2>2
<1> QED
  BY <1>1, <1>7, <1>9, <1>10, <1>11, <1>12 DEF OwnResults

LEMMA HasReason == ASSUME NEW k, k.reason \in Reasons PROVE k # NoKey
  BY DEF NoKey, Reasons, KeepEntryReasons, BandReason, RevisionTriggerStates

\* A result of the present question is filed, whatever becomes of its row.
LEMMA AnswerFits ==
    ASSUME OwnResults, NEW p \in Paths, NEW status \in Answered, Answerable(p), File(p, status),
           NEW left \in {"PENDING", "WAITING_FOR_CHAT"} \cup Answered, NEW result,
           rt' = [rt EXCEPT !.rows[p].status = left, !.rows[p].result = result],
           bind' = bind
    PROVE  OwnResults'
<1> DEFINE row == rt.rows[p]
           r == Result(row.key, status, FALSE, ResearchIdentity(p, row))
           res == With(results, row.key, r)
           fin == finished \cup {k \in {row.key} : status = "COMPLETED"}
           new == [row EXCEPT !.status = left, !.result = result]
<1>1. /\ RowOpen(row, results)
      /\ row \in [econ : {"KEEP", "DROP", "ABSENT"}, episode : Nat, ev : {row.ev},
                  price : Nat, key : {row.key}, status : Statuses, result : {row.result}]
  BY DEF OwnResults, RowFits
<1>2. row.status \in Open /\ results' = res /\ finished' = fin
  BY DEF Answerable, File, Open
<1>3. /\ row.key # NoKey
      /\ row.key \in DOMAIN results => results[row.key].id = row.key
  BY <1>1, <1>2 DEF RowOpen
<1>4. r.id = row.key /\ r.status = status
  BY DEF Result
<1>5. left \in Statuses
  BY DEF Answered, Statuses
<1>6. new.status = left /\ new.key = row.key
  BY <1>1
<1> HIDE DEF r
<1>7. /\ DOMAIN res = DOMAIN results \cup {row.key} /\ res[row.key] = r
      /\ \A x \in DOMAIN results \ {row.key} : res[x] = results[x]
  BY DEF With
<1>8. finished \subseteq fin /\ (status = "COMPLETED" => row.key \in fin)
  OBVIOUS
<1> HIDE DEF res, fin
<1>9. RowOpen(new, res)
  BY <1>3, <1>4, <1>6, <1>7 DEF RowOpen
<1>10. bind[p].cur /\ bind[p].key = row.key => res[row.key].id = bind[p].id
  <2>1. BindFits(bind[p], p, results, finished)
    BY DEF OwnResults
  <2> QED
    BY <1>3, <1>4, <1>7, <2>1 DEF BindFits
<1> QED
  BY <1>2, <1>3, <1>4, <1>5, <1>7, <1>8, <1>9, <1>10, RowMoves

LEMMA ReuseFits == ASSUME OwnResults, NEW p \in Paths, Reuse(p) PROVE OwnResults'
<1> DEFINE row == rt.rows[p]
<1>0. row.key.reason \in KeepEntryReasons
  BY DEF Reuse
<1>1. PICK k \in {x \in DOMAIN results : results[x].id = bind[p].id} :
         /\ results[k].status = "COMPLETED"
         /\ results' = With(results, row.key, [results[k] EXCEPT !.reused = TRUE])
  BY DEF Reuse
<1>2. /\ row.status = "PENDING" /\ bind' = bind
      /\ rt' = [rt EXCEPT !.rows[p].status = "COMPLETED", !.rows[p].result = bind[p].id]
  BY DEF Reuse, mirror
<1> DEFINE r == [results[k] EXCEPT !.reused = TRUE]
           res == With(results, row.key, r)
           fin == finished \cup {row.key}
           new == [row EXCEPT !.status = "COMPLETED", !.result = bind[p].id]
<1>3. RowOpen(row, results)
  BY DEF OwnResults
<1>4. row.key # NoKey
  BY <1>2, <1>3 DEF RowOpen, Open
<1>6. r.id = bind[p].id
  OBVIOUS
<1>7. results' = res /\ finished' = fin
  BY <1>1 DEF Reuse
<1>8. new.status = "COMPLETED"
  BY DEF OwnResults, RowFits
<1> HIDE DEF r
<1>9. /\ DOMAIN res = DOMAIN results \cup {row.key} /\ res[row.key] = r
      /\ \A x \in DOMAIN results \ {row.key} : res[x] = results[x]
  BY DEF With
<1>10. finished \subseteq fin /\ row.key \in fin
  OBVIOUS
<1> HIDE DEF res, fin
<1>11. RowOpen(new, res)
  BY <1>8 DEF RowOpen, Open, HOLD
<1>12. "COMPLETED" \in Statuses
  BY DEF Statuses, Answered
<1> QED
  BY <1>0, <1>2, <1>4, <1>6, <1>7, <1>9, <1>10, <1>11, <1>12, RowMoves

LEMMA RuntimeFits ==
    ASSUME OwnResults, NEW p \in Paths,
           \/ Ask(p) \/ Reuse(p)
           \/ \E status \in Answered : Answer(p, status) \/ AnswerCutOff(p, status)
    PROVE  OwnResults'
<1> DEFINE row == rt.rows[p]
<1>1. /\ RowOpen(row, results)
      /\ row \in [econ : {"KEEP", "DROP", "ABSENT"}, episode : Nat, ev : {row.ev},
                  price : Nat, key : {row.key}, status : Statuses, result : {row.result}]
  BY DEF OwnResults, RowFits
<1>2. rt.rows = [q \in Paths |-> rt.rows[q]]
      /\ rt \in [snap : Nat, rows : {rt.rows}, soft : {rt.soft}]
  BY DEF OwnResults, RtFits
<1>3. CASE Ask(p)
  <2>1. /\ row.status = "PENDING" /\ results' = results /\ finished' = finished
        /\ rt' = [rt EXCEPT !.rows[p].status = "WAITING_FOR_CHAT"] /\ bind' = bind
    BY <1>3 DEF Ask, mirror
  <2>2. rt' = [rt EXCEPT !.rows[p].status = "WAITING_FOR_CHAT",
                         !.rows[p].result = row.result]
    BY <1>1, <2>1
  <2>3. RowOpen([row EXCEPT !.status = "WAITING_FOR_CHAT", !.result = row.result], results)
    BY <1>1, <2>1 DEF RowOpen, Open
  <2>4. row.key # NoKey
    BY <1>1, <2>1 DEF RowOpen, Open
  <2>5. "WAITING_FOR_CHAT" \in Statuses
    BY DEF Statuses
  <2>6. /\ row.key \in DOMAIN results /\ results[row.key].status = "COMPLETED"
              => row.key \in finished
        /\ bind[p].cur /\ bind[p].key = row.key => results[row.key].id = bind[p].id
        /\ row.key \in DOMAIN results /\ row.key.reason \notin KeepEntryReasons
              => results[row.key].id = row.key
    BY DEF OwnResults, BindFits, ResultFits
  <2> HIDE DEF row
  <2> QED
    BY <1>1, <2>1, <2>2, <2>3, <2>4, <2>5, <2>6, RowMoves DEF row
<1>4. ASSUME NEW status \in Answered, Answer(p, status) PROVE OwnResults'
  <2>1. /\ Answerable(p) /\ File(p, status) /\ bind' = bind
        /\ rt' = [rt EXCEPT !.rows[p].status = status, !.rows[p].result = row.key]
    BY <1>4 DEF Answer, mirror
  <2> QED
    BY <2>1, AnswerFits
<1>5. ASSUME NEW status \in Answered, AnswerCutOff(p, status) PROVE OwnResults'
  <2>1. Answerable(p) /\ File(p, status) /\ bind' = bind
    BY <1>5 DEF AnswerCutOff, mirror
  <2>2. CASE row.status = "WAITING_FOR_CHAT" /\ rt' = rt
    <3>1. row = [row EXCEPT !.status = "WAITING_FOR_CHAT", !.result = row.result]
      BY <1>1, <2>2
    <3> HIDE DEF row
    <3>2. rt.rows = [rt.rows EXCEPT ![p] = row]
      BY <1>2 DEF row
    <3>3. rt = [rt EXCEPT !.rows[p].status = "WAITING_FOR_CHAT",
                          !.rows[p].result = row.result]
      BY <1>2, <3>1, <3>2 DEF row
    <3>4. rt' = [rt EXCEPT !.rows[p].status = "WAITING_FOR_CHAT",
                           !.rows[p].result = row.result]
      BY <2>2, <3>3
    <3> QED
      BY <2>1, <3>4, AnswerFits
  <2>3. CASE \E r \in {row.result, row.key} :
                rt' = [rt EXCEPT !.rows[p].status = "PENDING", !.rows[p].result = r]
    BY <2>1, <2>3, AnswerFits
  <2> QED
    BY <1>5, <2>2, <2>3 DEF AnswerCutOff
<1>6. CASE Reuse(p)
  BY <1>6, ReuseFits
<1> QED
  BY <1>3, <1>4, <1>5, <1>6

LEMMA SyncFits == ASSUME OwnResults, NEW s, ShadowSync(s) PROVE OwnResults'
<1>1. /\ bind' = [p \in Paths |-> SyncedBinding(p)] /\ UNCHANGED <<rt, results, finished>>
  BY DEF ShadowSync, runtime
<1>2. ASSUME NEW p \in Paths PROVE BindFits(SyncedBinding(p), p, results, finished)
  <2>1. BindFits(bind[p], p, results, finished)
    BY DEF OwnResults
  <2>2. CASE rt.rows[p].econ = "ABSENT"
    <3>1. SyncedBinding(p) = [bind[p] EXCEPT !.cur = FALSE]
      BY <2>2 DEF SyncedBinding
    <3>2. bind[p] \in [cur : BOOLEAN, key : {bind[p].key}, id : {bind[p].id},
                       reused : {bind[p].reused}, valid : {bind[p].valid}]
      BY <2>1 DEF BindFits
    <3>3. ~SyncedBinding(p).cur
      BY <3>1, <3>2
    <3>4. SyncedBinding(p) \in [cur : BOOLEAN, key : {SyncedBinding(p).key},
                 id : {SyncedBinding(p).id}, reused : {SyncedBinding(p).reused},
                 valid : {SyncedBinding(p).valid}]
      BY <3>1, <3>2
    <3>5. ASSUME NEW b, ~b.cur,
                 b \in [cur : BOOLEAN, key : {b.key}, id : {b.id}, reused : {b.reused},
                        valid : {b.valid}]
          PROVE  BindFits(b, p, results, finished)
      BY <3>5, Zenon DEF BindFits
    <3> QED
      BY <3>3, <3>4, <3>5, Zenon
  <2>3. CASE SyncedBinding(p) = bind[p]
    BY <2>1, <2>3
  <2>4. CASE HasResult(p) /\ SyncedBinding(p) = BindingOf(p)
    <3> DEFINE k == rt.rows[p].key
    <3>1. k \in DOMAIN results
      BY <2>4 DEF HasResult
    <3>2. k.reason \in Reasons /\ (results[k].status = "COMPLETED" => k \in finished)
      BY <3>1 DEF OwnResults, ResultFits, Asked
    <3>3. k # NoKey
      BY <3>2, HasReason
    <3>4. k.path = p
      BY <3>3 DEF OwnResults, RowFits, Asked
    <3>5. /\ BindingOf(p).cur /\ BindingOf(p).key = k /\ BindingOf(p).id = results[k].id
          /\ BindingOf(p).valid = (results[k].status = "COMPLETED")
          /\ BindingOf(p) \in [cur : BOOLEAN, key : {BindingOf(p).key}, id : {BindingOf(p).id},
                               reused : {BindingOf(p).reused}, valid : {BindingOf(p).valid}]
      BY DEF BindingOf
    <3>6. BindFits(BindingOf(p), p, results, finished)
      BY <3>1, <3>2, <3>4, <3>5, Zenon DEF BindFits
    <3> QED
      BY <2>4, <3>6
  <2> QED
    BY <2>2, <2>3, <2>4 DEF SyncedBinding
<1> QED
  BY <1>1, <1>2 DEF OwnResults, RtFits

\* For any paths, facts, stages, overlaps and faults, however often a question is asked
\* again: a binding names the result of the question it was bound for, and is valid only
\* if a final one was filed for it (incremental_storage_sync.py:355-513).
THEOREM BindingsTrue == ASSUME BandFacts PROVE Spec => []BindingsAnswer
<1>1. Init => OwnResults
  <2> SUFFICES ASSUME Init PROVE OwnResults
    OBVIOUS
  <2>1. rt = [snap |-> 0, rows |-> [p \in Paths |-> AbsentRow],
              soft |-> [p \in Paths |-> FALSE]]
    BY DEF Init
  <2>2. RtFits
    BY <2>1 DEF Init, RtFits
  <2>3. ASSUME NEW p \in Paths
        PROVE  RowFits(rt.rows[p], p, rt.snap) /\ RowOpen(rt.rows[p], results)
    BY <2>1, AbsentFits
  <2>4. DOMAIN results = {}
    BY DEF Init, Nothing
  <2>5. ASSUME NEW p \in Paths PROVE BindFits(bind[p], p, results, finished)
    BY DEF Init, NoBinding, BindFits
  <2> QED
    BY <2>2, <2>3, <2>4, <2>5 DEF OwnResults
<1>2. OwnResults /\ [Next]_vars => OwnResults'
  <2> SUFFICES ASSUME OwnResults, [Next]_vars PROVE OwnResults'
    OBVIOUS
  <2>1. CASE UNCHANGED <<rt, results, finished, bind>>
    BY <2>1 DEF OwnResults, RtFits
  <2>2. CASE Publish
    BY <2>2, PublishFits
  <2>3. CASE \E p \in Paths : \/ Ask(p) \/ Reuse(p)
                              \/ \E status \in Answered :
                                    Answer(p, status) \/ AnswerCutOff(p, status)
    BY <2>3, RuntimeFits
  <2>4. CASE \E s \in Shadows : ShadowSync(s)
    BY <2>4, SyncFits
  <2>5. \/ RuntimeStep \/ (\E s \in Shadows : ShadowSync(s))
        \/ UNCHANGED <<rt, results, finished, bind>>
    BY DEF Next, ShadowStep, ShadowPool, ShadowRead, ShadowCapture, ShadowChanges, ShadowParity,
           ShadowProjection, ShadowRaises, ShadowWrite, ShadowWriteError, ShadowArtifact,
           ShadowKilled, CheckStep, CheckRead, CheckWrite, CheckKilled, SwitchStep, Prepare,
           SwitchStart, SwitchGate, SwitchWrite, vars, mirror, runtime
  <2> QED
    BY <2>1, <2>2, <2>3, <2>4, <2>5 DEF RuntimeStep
<1>3. OwnResults => BindingsAnswer
  BY DEF OwnResults, BindFits, BindingsAnswer
<1> QED
  BY <1>1, <1>2, <1>3, PTL DEF Spec
=============================================================================
